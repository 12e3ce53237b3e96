------------------------------ MODULE NodeLink ------------------------------
(***************************************************************************)
(* The WebSocket connections between the agents of the nodes and the       *)
(* control server: the server's map from a node's address to its session,  *)
(* its health check, and the agent's heartbeat monitor, which reconnects.  *)
(* The two ends of a socket close separately; what is in flight may be     *)
(* lost. Times are counted in ticks up to just over the timeout of both    *)
(* sides (60 seconds). A Bug_ definition is a faulty variant of the one    *)
(* below it and is used by no specification.                               *)
(***************************************************************************)
EXTENDS Naturals

CONSTANTS Nodes, Sockets, NoSocket,
          Timeout      \* ticks of silence after which a side gives up

ASSUME NodeLinkAssumption == Timeout \in Nat /\ NoSocket \notin Sockets

VARIABLES
    sessions,   \* sessionMap of the server
    idle,       \* ticks since the session in the map was read from
    healthTimer,    \* the health check is still scheduled
    owner,      \* the node a socket belongs to
    agentEnd, serverEnd,    \* the two ends of each socket
    toAgent, toServer,      \* what is in flight on it
    ws,         \* the agent's current socket; NoSocket: it is not running
    monitors,   \* its heartbeat monitor has been started
    silence,    \* ticks since its last_response_time
    leaving     \* its monitor has closed ws, and has not connected again yet

server == <<sessions, idle, healthTimer>>
sockets == <<owner, agentEnd, serverEnd>>
flight == <<toAgent, toServer>>
agent == <<ws, monitors, silence, leaving>>
vars == <<server, sockets, flight, agent>>

Ticks == 0 .. (Timeout + 1)

TypeOK ==
    /\ sessions \in [Nodes -> Sockets \cup {NoSocket}]
    /\ idle \in [Nodes -> Ticks]
    /\ healthTimer \in BOOLEAN
    /\ owner \in [Sockets -> Nodes]
    /\ agentEnd \in [Sockets -> {"none", "connecting", "open", "abandoned"}]
    /\ serverEnd \in [Sockets -> {"none", "open", "closing"}]
    /\ toAgent \in [Sockets -> SUBSET {"ping", "command"}]
    /\ toServer \in [Sockets -> BOOLEAN]
    /\ ws \in [Nodes -> Sockets \cup {NoSocket}]
    /\ monitors \in [Nodes -> BOOLEAN]
    /\ silence \in [Nodes -> Ticks]
    /\ leaving \in [Nodes -> BOOLEAN]

Init ==
    /\ sessions = [n \in Nodes |-> NoSocket]
    /\ idle = [n \in Nodes |-> 0]
    /\ healthTimer = TRUE
    /\ owner \in {[s \in Sockets |-> n] : n \in Nodes}
    /\ agentEnd = [s \in Sockets |-> "none"]
    /\ serverEnd = [s \in Sockets |-> "none"]
    /\ toAgent = [s \in Sockets |-> {}]
    /\ toServer = [s \in Sockets |-> FALSE]
    /\ ws = [n \in Nodes |-> NoSocket]
    /\ monitors = [n \in Nodes |-> FALSE]
    /\ silence = [n \in Nodes |-> 0]
    /\ leaving = [n \in Nodes |-> FALSE]

Fresh(s) == agentEnd[s] = "none" /\ serverEnd[s] = "none"

\* The agent may still use this end. An abandoned one is a connect in progress
\* whose WebSocketApp was closed: close does not cancel it, so it may reach the
\* server all the same, but its thread ends without reading from it.
Live(s) == agentEnd[s] \in {"connecting", "open"}

\* The sockets of S lose their end at the agent, and what was on the way to it.
Dropped(S) == [s \in Sockets |-> IF s \in S THEN "none" ELSE agentEnd[s]]
Unsent(S) == [s \in Sockets |-> IF s \in S THEN {} ELSE toAgent[s]]

-----------------------------------------------------------------------------
(* The agent's side.                                                         *)

\* connect: a new WebSocketApp and its thread; nobody waits for the opening.
Connect(n, s) ==
    /\ Fresh(s)
    /\ ws' = [ws EXCEPT ![n] = s]
    /\ owner' = [owner EXCEPT ![s] = n]
    /\ agentEnd' = [agentEnd EXCEPT ![s] = "connecting"]
    /\ UNCHANGED <<server, serverEnd, flight>>

\* main: the first connection.
Start(n, s) ==
    /\ ws[n] = NoSocket
    /\ Connect(n, s)
    /\ UNCHANGED <<monitors, silence, leaving>>

Bug_SilentClosed(n) == silence[n] > Timeout /\ agentEnd[ws[n]] = "none"
Bug_SilentOpen(n) == silence[n] > Timeout /\ agentEnd[ws[n]] # "none"
Silent(n) == silence[n] > Timeout

\* The heartbeat monitor, which only on_open starts: after a minute without
\* any message reconnect closes the WebSocketApp, whatever its state ...
GiveUp(n) ==
    LET s == ws[n] IN
    /\ monitors[n] /\ Silent(n) /\ ~leaving[n]
    /\ agentEnd' = [agentEnd EXCEPT ![s] = IF @ = "connecting" THEN "abandoned"
                                           ELSE "none"]
    /\ toAgent' = Unsent({s})
    /\ leaving' = [leaving EXCEPT ![n] = TRUE]
    /\ UNCHANGED <<server, owner, serverEnd, toServer, ws, monitors, silence>>

\* ... and connects again once the old thread has ended or five seconds are
\* over, with the old connect perhaps still in progress.
Reconnect(n, s) ==
    /\ leaving[n]
    /\ Connect(n, s)
    /\ silence' = [silence EXCEPT ![n] = 0]
    /\ leaving' = [leaving EXCEPT ![n] = FALSE]
    /\ UNCHANGED monitors

\* on_open
Opened(s) ==
    /\ agentEnd[s] = "connecting" /\ serverEnd[s] = "open"
    /\ agentEnd' = [agentEnd EXCEPT ![s] = "open"]
    /\ monitors' = [monitors EXCEPT ![owner[s]] = TRUE]
    /\ UNCHANGED <<server, owner, serverEnd, flight, ws, silence, leaving>>

\* The connection is refused or breaks. on_close does nothing, so it is the
\* silence that will be noticed. An abandoned connect comes to nothing, too,
\* whether it fails or succeeds: on_open finds the monitor started.
AgentEndCloses(s) ==
    /\ agentEnd[s] # "none"
    /\ agentEnd' = Dropped({s})
    /\ toAgent' = Unsent({s})
    /\ UNCHANGED <<server, owner, serverEnd, toServer, agent>>

\* on_message: whatever arrives counts as a sign of life; a ping is answered on
\* the agent's current socket, and a failed send is only logged.
OnMessage(s, m) ==
    LET n == owner[s] IN
    /\ agentEnd[s] = "open" /\ m \in toAgent[s]
    /\ toAgent' = [toAgent EXCEPT ![s] = @ \ {m}]
    /\ silence' = [silence EXCEPT ![n] = 0]
    /\ toServer' = [r \in Sockets |->
                      toServer[r] \/ (m = "ping" /\ r = ws[n]
                                        /\ agentEnd[r] = "open")]
    /\ UNCHANGED <<server, sockets, ws, monitors, leaving>>

\* The status monitor and the traffic report send of their own accord.
Report(n) ==
    /\ monitors[n] /\ ws[n] \in Sockets /\ agentEnd[ws[n]] = "open"
    /\ toServer' = [toServer EXCEPT ![ws[n]] = TRUE]
    /\ UNCHANGED <<server, sockets, toAgent, agent>>

AgentStops(n) ==
    LET ended == {s \in Sockets : owner[s] = n} IN
    /\ ws[n] # NoSocket
    /\ ws' = [ws EXCEPT ![n] = NoSocket]
    /\ monitors' = [monitors EXCEPT ![n] = FALSE]
    /\ silence' = [silence EXCEPT ![n] = 0]
    /\ leaving' = [leaving EXCEPT ![n] = FALSE]
    /\ agentEnd' = Dropped(ended)
    /\ toAgent' = Unsent(ended)
    /\ UNCHANGED <<server, owner, serverEnd, toServer>>

-----------------------------------------------------------------------------
(* The server's side. Every handler and the health check hold one lock.      *)

\* afterConnectionEstablished puts the session under the node's address,
\* whatever was there, even a newer connection's when this one was abandoned;
\* the session it replaces is not closed.
Accept(s) ==
    /\ agentEnd[s] \in {"connecting", "abandoned"} /\ serverEnd[s] = "none"
    /\ serverEnd' = [serverEnd EXCEPT ![s] = "open"]
    /\ sessions' = [sessions EXCEPT ![owner[s]] = s]
    /\ idle' = [idle EXCEPT ![owner[s]] = 0]
    /\ UNCHANGED <<healthTimer, owner, agentEnd, flight, agent>>

\* handleTextMessage refreshes the session found under the sender's address,
\* which need not be the one the message came from.
HandleTextMessage(s) ==
    /\ serverEnd[s] = "open" /\ toServer[s]
    /\ toServer' = [toServer EXCEPT ![s] = FALSE]
    /\ idle' = [idle EXCEPT ![owner[s]] = 0]
    /\ UNCHANGED <<sessions, healthTimer, sockets, toAgent, agent>>

\* The socket breaks, or the agent's closing arrives.
ServerEndCloses(s) ==
    /\ serverEnd[s] = "open"
    /\ serverEnd' = [serverEnd EXCEPT ![s] = "closing"]
    /\ toServer' = [toServer EXCEPT ![s] = FALSE]
    /\ UNCHANGED <<server, owner, agentEnd, toAgent, agent>>

Bug_AfterConnectionClosed(s) ==
    /\ serverEnd[s] = "closing"
    /\ serverEnd' = [serverEnd EXCEPT ![s] = "none"]
    /\ UNCHANGED <<server, owner, agentEnd, flight, agent>>

\* afterConnectionClosed removes whatever session is under the address, even
\* the newer one that has replaced the closed one.
AfterConnectionClosed(s) ==
    /\ serverEnd[s] = "closing"
    /\ serverEnd' = [serverEnd EXCEPT ![s] = "none"]
    /\ sessions' = [sessions EXCEPT ![owner[s]] = NoSocket]
    /\ UNCHANGED <<idle, healthTimer, owner, agentEnd, flight, agent>>

\* A broadcast reaches a session of the map.
Broadcast(n) ==
    /\ sessions[n] # NoSocket /\ serverEnd[sessions[n]] = "open"
    /\ toAgent' = [s \in Sockets |->
                      IF s = sessions[n] /\ Live(s)
                      THEN toAgent[s] \cup {"command"} ELSE toAgent[s]]
    /\ UNCHANGED <<server, sockets, toServer, agent>>

Present == {n \in Nodes : sessions[n] # NoSocket}

\* !isOpen() || !isAlive()
Bug_Inactive(n) == serverEnd[sessions[n]] # "open"
Bug_InactiveEarly(n) == serverEnd[sessions[n]] # "open" \/ idle[n] >= Timeout
Inactive(n) == serverEnd[sessions[n]] # "open" \/ idle[n] > Timeout

Pinged(S) ==
    [s \in Sockets |-> IF Live(s) /\ \E n \in S : sessions[n] = s
                       THEN toAgent[s] \cup {"ping"} ELSE toAgent[s]]

\* The health check finds every session active and pings them all.
HealthCheckPings ==
    /\ healthTimer /\ Present # {}
    /\ \A n \in Present : ~Inactive(n)
    /\ toAgent' = Pinged(Present)
    /\ UNCHANGED <<server, sockets, toServer, agent>>

\* It comes to an inactive session, having pinged those before it (the order
\* is a HashMap's), removes it from the map it is iterating over and closes it.
\* If there are sessions left to look at, the iterator then throws, and the
\* scheduler never runs the task again.
Survives(n, before) == before = Present \ {n}

HealthCheckRemoves(n, before) ==
    LET s == sessions[n] IN
    /\ healthTimer /\ n \in Present /\ Inactive(n)
    /\ before \subseteq {m \in Present : ~Inactive(m)}
    /\ sessions' = [sessions EXCEPT ![n] = NoSocket]
    /\ serverEnd' = [serverEnd EXCEPT ![s] = "closing"]
    /\ toServer' = [toServer EXCEPT ![s] = FALSE]
    /\ toAgent' = Pinged(before)
    /\ healthTimer' = Survives(n, before)
    /\ UNCHANGED <<idle, owner, agentEnd, agent>>

ServerRestart ==
    /\ sessions' = [n \in Nodes |-> NoSocket]
    /\ serverEnd' = [s \in Sockets |-> "none"]
    /\ toServer' = [s \in Sockets |-> FALSE]
    /\ healthTimer' = TRUE
    /\ UNCHANGED <<idle, owner, agentEnd, toAgent, agent>>

\* Time passes for both sides; counters stop just above the timeout.
Later(t) == IF t > Timeout THEN t ELSE t + 1
Tick ==
    /\ idle' = [n \in Nodes |-> IF n \in Present THEN Later(idle[n]) ELSE 0]
    /\ silence' = [n \in Nodes |->
                      IF ws[n] # NoSocket THEN Later(silence[n]) ELSE 0]
    /\ UNCHANGED <<sessions, healthTimer, sockets, flight, ws, monitors, leaving>>

-----------------------------------------------------------------------------
HealthCheck == \/ HealthCheckPings
               \/ \E n \in Nodes, before \in SUBSET Nodes :
                     HealthCheckRemoves(n, before)

Next ==
    \/ \E n \in Nodes, s \in Sockets : Start(n, s) \/ Reconnect(n, s)
    \/ \E n \in Nodes : \/ GiveUp(n) \/ Report(n)
                        \/ AgentStops(n) \/ Broadcast(n)
    \/ \E s \in Sockets : \/ Accept(s) \/ Opened(s)
                          \/ AgentEndCloses(s) \/ ServerEndCloses(s)
                          \/ AfterConnectionClosed(s)
                          \/ HandleTextMessage(s)
                          \/ \E m \in {"ping", "command"} : OnMessage(s, m)
    \/ HealthCheck
    \/ ServerRestart
    \/ Tick

Spec == Init /\ [][Next]_vars

\* The server's timers and callbacks run, and time passes.
ServerFairness ==
    /\ WF_vars(Tick)
    /\ WF_vars(HealthCheck)
    /\ \A s \in Sockets : WF_vars(AfterConnectionClosed(s))

\* The agent's monitor runs; not every attempt to connect fails; an abandoned
\* one ends, and sockets that nobody uses any more become free again. That the
\* server notices by itself when the agent's end of a session in the map is gone
\* is not assumed.
LinkFairness ==
    /\ \A n \in Nodes : /\ WF_vars(GiveUp(n))
                        /\ WF_vars(\E s \in Sockets : Reconnect(n, s))
    /\ \A s \in Sockets :
          /\ SF_vars(agentEnd[s] = "connecting" /\ Accept(s))
          /\ SF_vars(Opened(s))
          /\ WF_vars(agentEnd[s] = "abandoned" /\ AgentEndCloses(s))
          /\ WF_vars(/\ agentEnd[s] = "none" /\ sessions[owner[s]] # s
                     /\ ServerEndCloses(s))

ServerSpec == Spec /\ ServerFairness
FairSpec == Spec /\ ServerFairness /\ LinkFairness
=============================================================================
