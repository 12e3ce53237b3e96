--------------------------- MODULE NodeLinkProofs ---------------------------
(***************************************************************************)
(* Proofs about NodeLink for any nodes, any sockets and any timeout.       *)
(* EntryHasServerEnd is inductive together with the types: an address gets *)
(* into the map only with its own socket, and whatever ends the server end *)
(* of a socket takes the entry of its owner out of the map, too. On the    *)
(* agent's side OthersAreGivenUp says what becomes of the connection the   *)
(* agent had: its end may last, as an abandoned connect, but it is not one *)
(* the agent uses. From that follows who can cut off a connected node.     *)
(***************************************************************************)
EXTENDS NodeLinkProperties, TLAPS

\* Every end the agent may still use is its current socket's, and not even that
\* one between closing it and connecting again.
OthersAreGivenUp ==
    \A s \in Sockets : Live(s) => ws[owner[s]] = s /\ ~leaving[owner[s]]

\* An agent that is not running is not between two connections, either.
LeavesSomething == \A n \in Nodes : monitors[n] \/ leaving[n] => ws[n] # NoSocket

IInv == TypeOK /\ EntryHasServerEnd /\ OthersAreGivenUp /\ LeavesSomething

-----------------------------------------------------------------------------
\* A closed or dropped end keeps its type.
LEMMA DroppedType ==
    ASSUME TypeOK, NEW S
    PROVE  /\ Dropped(S) \in [Sockets -> {"none", "connecting", "open", "abandoned"}]
           /\ Unsent(S) \in [Sockets -> SUBSET {"ping", "command"}]
<1>1. \A s \in Sockets : /\ agentEnd[s] \in {"none", "connecting", "open", "abandoned"}
                         /\ toAgent[s] \in SUBSET {"ping", "command"}
  BY DEF TypeOK
<1> QED
  BY <1>1 DEF Dropped, Unsent

LEMMA PingedType ==
    ASSUME TypeOK, NEW S
    PROVE  Pinged(S) \in [Sockets -> SUBSET {"ping", "command"}]
<1>1. \A s \in Sockets : toAgent[s] \in SUBSET {"ping", "command"}
  BY DEF TypeOK
<1> QED
  BY <1>1 DEF Pinged

\* Counting stops one tick above the timeout.
LEMMA LaterType ==
    ASSUME NEW t \in Ticks PROVE Later(t) \in Ticks
  BY NodeLinkAssumption DEF Ticks, Later

LEMMA ConnectType ==
    ASSUME TypeOK, NEW n \in Nodes, NEW s \in Sockets, Connect(n, s),
           monitors' \in [Nodes -> BOOLEAN], silence' \in [Nodes -> Ticks],
           leaving' \in [Nodes -> BOOLEAN]
    PROVE  TypeOK'
<1>1. agentEnd' \in [Sockets -> {"none", "connecting", "open", "abandoned"}]
  BY DEF Connect, TypeOK
<1>2. ws' \in [Nodes -> Sockets \cup {NoSocket}] /\ owner' \in [Sockets -> Nodes]
  BY DEF TypeOK, Connect
<1> QED
  BY <1>1, <1>2 DEF TypeOK, Connect, server, flight

\* The variables keep their types under every step of both sides.
LEMMA TypeStep == TypeOK /\ [Next]_vars => TypeOK'
<1> SUFFICES ASSUME TypeOK, [Next]_vars PROVE TypeOK'
  OBVIOUS
<1> USE DEF server, sockets, flight, agent
<1>z. 0 \in Ticks
  BY NodeLinkAssumption DEF Ticks
<1>1. ASSUME NEW n \in Nodes, NEW s \in Sockets, Start(n, s) PROVE TypeOK'
  BY <1>1, ConnectType DEF Start, TypeOK
<1>2. ASSUME NEW n \in Nodes, NEW s \in Sockets, Reconnect(n, s) PROVE TypeOK'
  <2>1. /\ monitors' \in [Nodes -> BOOLEAN] /\ silence' \in [Nodes -> Ticks]
        /\ leaving' \in [Nodes -> BOOLEAN]
    BY <1>2, <1>z DEF Reconnect, TypeOK
  <2> QED
    BY <1>2, <2>1, ConnectType DEF Reconnect
<1>3. ASSUME NEW n \in Nodes, Report(n) PROVE TypeOK'
  BY <1>3 DEF Report, TypeOK
<1>4. ASSUME NEW n \in Nodes, AgentStops(n) PROVE TypeOK'
  <2>1. /\ ws' \in [Nodes -> Sockets \cup {NoSocket}]
        /\ monitors' \in [Nodes -> BOOLEAN]
        /\ silence' \in [Nodes -> Ticks] /\ leaving' \in [Nodes -> BOOLEAN]
    BY <1>4, <1>z DEF AgentStops, TypeOK
  <2>2. /\ agentEnd' \in [Sockets -> {"none", "connecting", "open", "abandoned"}]
        /\ toAgent' \in [Sockets -> SUBSET {"ping", "command"}]
    BY <1>4, DroppedType DEF AgentStops
  <2> QED
    BY <1>4, <2>1, <2>2 DEF AgentStops, TypeOK
<1>5. ASSUME NEW n \in Nodes, Broadcast(n) PROVE TypeOK'
  <2>1. \A s \in Sockets : toAgent[s] \in SUBSET {"ping", "command"}
    BY DEF TypeOK
  <2>2. toAgent' \in [Sockets -> SUBSET {"ping", "command"}]
    BY <1>5, <2>1 DEF Broadcast
  <2> QED
    BY <1>5, <2>2 DEF Broadcast, TypeOK
<1>6. ASSUME NEW s \in Sockets, Accept(s) PROVE TypeOK'
  BY <1>6, <1>z DEF Accept, TypeOK
<1>7. ASSUME NEW s \in Sockets, Opened(s) PROVE TypeOK'
  BY <1>7 DEF Opened, TypeOK
<1>8. ASSUME NEW s \in Sockets, AgentEndCloses(s) PROVE TypeOK'
  BY <1>8, DroppedType DEF AgentEndCloses, TypeOK
<1>9. ASSUME NEW s \in Sockets, ServerEndCloses(s) \/ AfterConnectionClosed(s)
      PROVE  TypeOK'
  BY <1>9 DEF ServerEndCloses, AfterConnectionClosed, TypeOK
<1>10. ASSUME NEW s \in Sockets, HandleTextMessage(s) PROVE TypeOK'
  BY <1>10, <1>z DEF HandleTextMessage, TypeOK
<1>11. ASSUME NEW s \in Sockets, NEW m \in {"ping", "command"}, OnMessage(s, m)
       PROVE  TypeOK'
  <2>1. /\ toAgent' \in [Sockets -> SUBSET {"ping", "command"}]
        /\ silence' \in [Nodes -> Ticks]
    BY <1>11, <1>z DEF OnMessage, TypeOK
  <2>2. toServer' \in [Sockets -> BOOLEAN]
    BY <1>11 DEF OnMessage, TypeOK
  <2> QED
    BY <1>11, <2>1, <2>2 DEF OnMessage, TypeOK
<1>12. CASE HealthCheckPings
  BY <1>12, PingedType DEF HealthCheckPings, TypeOK
<1>13. ASSUME NEW n \in Nodes, NEW before \in SUBSET Nodes,
              HealthCheckRemoves(n, before)
       PROVE  TypeOK'
  <2>1. /\ sessions' \in [Nodes -> Sockets \cup {NoSocket}]
        /\ serverEnd' \in [Sockets -> {"none", "open", "closing"}]
        /\ toServer' \in [Sockets -> BOOLEAN]
    BY <1>13 DEF HealthCheckRemoves, TypeOK
  <2>2. healthTimer' \in BOOLEAN
    BY <1>13 DEF HealthCheckRemoves, Survives
  <2>3. toAgent' \in [Sockets -> SUBSET {"ping", "command"}]
    BY <1>13, PingedType DEF HealthCheckRemoves
  <2> QED
    BY <1>13, <2>1, <2>2, <2>3 DEF HealthCheckRemoves, TypeOK
<1>14. CASE ServerRestart
  BY <1>14 DEF ServerRestart, TypeOK
<1>15. CASE Tick
  <2>1. idle' \in [Nodes -> Ticks] /\ silence' \in [Nodes -> Ticks]
    BY <1>15, <1>z, LaterType DEF Tick, TypeOK
  <2> QED
    BY <1>15, <2>1 DEF Tick, TypeOK
<1>16. ASSUME NEW n \in Nodes, GiveUp(n) PROVE TypeOK'
  <2>1. /\ agentEnd' \in [Sockets -> {"none", "connecting", "open", "abandoned"}]
        /\ leaving' \in [Nodes -> BOOLEAN]
    BY <1>16 DEF GiveUp, TypeOK
  <2>2. toAgent' \in [Sockets -> SUBSET {"ping", "command"}]
    BY <1>16, DroppedType DEF GiveUp
  <2> QED
    BY <1>16, <2>1, <2>2 DEF GiveUp, TypeOK
<1>17. CASE UNCHANGED vars
  BY <1>17 DEF vars, TypeOK
<1> QED
  BY <1>1, <1>2, <1>3, <1>4, <1>5, <1>6, <1>7, <1>8, <1>9, <1>10, <1>11,
     <1>12, <1>13, <1>14, <1>15, <1>16, <1>17 DEF Next, HealthCheck

-----------------------------------------------------------------------------
\* Connecting takes a socket no entry of the map names, since it has no server
\* end; nothing else gives a socket another owner.
LEMMA EntryStep == IInv /\ [Next]_vars => EntryHasServerEnd'
<1> SUFFICES ASSUME TypeOK, EntryHasServerEnd, [Next]_vars
             PROVE  EntryHasServerEnd'
  BY DEF IInv
<1> USE NodeLinkAssumption DEF server, sockets, flight, agent
<1>1. ASSUME NEW n \in Nodes, NEW s \in Sockets, Connect(n, s)
      PROVE  EntryHasServerEnd'
  <2>1. \A m \in Nodes : sessions[m] # s
    BY <1>1 DEF Connect, Fresh, EntryHasServerEnd
  <2> QED
    BY <1>1, <2>1 DEF Connect, EntryHasServerEnd, TypeOK
<1>2. ASSUME NEW s \in Sockets, Accept(s) PROVE EntryHasServerEnd'
  BY <1>2 DEF Accept, EntryHasServerEnd, TypeOK
<1>3. ASSUME NEW s \in Sockets, ServerEndCloses(s) PROVE EntryHasServerEnd'
  BY <1>3 DEF ServerEndCloses, EntryHasServerEnd, TypeOK
<1>4. ASSUME NEW s \in Sockets, AfterConnectionClosed(s)
      PROVE  EntryHasServerEnd'
  BY <1>4 DEF AfterConnectionClosed, EntryHasServerEnd, TypeOK
<1>5. ASSUME NEW n \in Nodes, NEW before \in SUBSET Nodes,
             HealthCheckRemoves(n, before)
      PROVE  EntryHasServerEnd'
  BY <1>5 DEF HealthCheckRemoves, EntryHasServerEnd, TypeOK
<1>6. CASE ServerRestart
  BY <1>6 DEF ServerRestart, EntryHasServerEnd
<1>7. ASSUME UNCHANGED <<sessions, owner, serverEnd>>
      PROVE  EntryHasServerEnd'
  BY <1>7 DEF EntryHasServerEnd
<1>8. CASE UNCHANGED vars
  BY <1>7, <1>8 DEF vars
<1> QED
  BY <1>1, <1>2, <1>3, <1>4, <1>5, <1>6, <1>7, <1>8 DEF Next, HealthCheck,
     HealthCheckPings, Start, GiveUp, Reconnect, Report, AgentStops, Broadcast, Opened,
     AgentEndCloses, HandleTextMessage, OnMessage, Tick

\* Closing, connecting and stopping leave no end of an older socket in use; a
\* message, an opening or a close leave the agent with the socket it has.
LEMMA GivenUpStep == IInv /\ [Next]_vars => OthersAreGivenUp'
<1> SUFFICES ASSUME TypeOK, OthersAreGivenUp, LeavesSomething, [Next]_vars
             PROVE  OthersAreGivenUp'
  BY DEF IInv
<1> USE NodeLinkAssumption DEF server, sockets, flight, agent
<1>1. ASSUME NEW n \in Nodes, NEW s \in Sockets, Start(n, s) \/ Reconnect(n, s)
      PROVE  OthersAreGivenUp'
  <2> SUFFICES ASSUME NEW r \in Sockets, Live(r)'
               PROVE  ws'[owner'[r]] = r /\ ~leaving'[owner'[r]]
    BY DEF OthersAreGivenUp
  <2>1. /\ ws' = [ws EXCEPT ![n] = s] /\ owner' = [owner EXCEPT ![s] = n]
        /\ agentEnd' = [agentEnd EXCEPT ![s] = "connecting"]
    BY <1>1 DEF Start, Reconnect, Connect
  <2>2. leaving' \in [Nodes -> BOOLEAN] /\ ~leaving'[n]
        /\ \A m \in Nodes \ {n} : leaving'[m] = leaving[m]
    BY <1>1 DEF Start, Reconnect, LeavesSomething, TypeOK
  <2>3. CASE r = s
    BY <2>1, <2>2, <2>3 DEF TypeOK
  <2>4. CASE r # s
    <3>1. ws[owner[r]] = r /\ ~leaving[owner[r]] /\ owner'[r] = owner[r]
      BY <2>1, <2>4 DEF OthersAreGivenUp, Live, TypeOK
    <3>2. ws[n] = NoSocket \/ leaving[n]
      BY <1>1 DEF Start, Reconnect
    <3>3. owner[r] \in Nodes \ {n}
      BY <3>1, <3>2 DEF TypeOK
    <3> QED
      BY <2>1, <2>2, <3>1, <3>3 DEF TypeOK
  <2> QED
    BY <2>3, <2>4
<1>2. ASSUME NEW n \in Nodes, GiveUp(n) PROVE OthersAreGivenUp'
  <2> SUFFICES ASSUME NEW r \in Sockets, Live(r)'
               PROVE  ws'[owner'[r]] = r /\ ~leaving'[owner'[r]]
    BY DEF OthersAreGivenUp
  <2>1. r # ws[n] /\ Live(r)
    BY <1>2 DEF GiveUp, Live, TypeOK
  <2>2. ws[owner[r]] = r /\ ~leaving[owner[r]] /\ owner[r] # n
    BY <2>1 DEF OthersAreGivenUp
  <2> QED
    BY <1>2, <2>2 DEF GiveUp, TypeOK
<1>3. ASSUME NEW n \in Nodes, AgentStops(n) PROVE OthersAreGivenUp'
  <2> SUFFICES ASSUME NEW r \in Sockets, Live(r)'
               PROVE  ws'[owner'[r]] = r /\ ~leaving'[owner'[r]]
    BY DEF OthersAreGivenUp
  <2>1. owner[r] # n /\ Live(r)
    BY <1>3 DEF AgentStops, Dropped, Live
  <2>2. ws[owner[r]] = r /\ ~leaving[owner[r]]
    BY <2>1 DEF OthersAreGivenUp
  <2> QED
    BY <1>3, <2>1, <2>2 DEF AgentStops, TypeOK
<1>4. ASSUME NEW s \in Sockets, Opened(s) \/ AgentEndCloses(s)
      PROVE  OthersAreGivenUp'
  <2>1. \A r \in Sockets : Live(r)' => Live(r)
    BY <1>4 DEF Opened, AgentEndCloses, Dropped, Live, TypeOK
  <2>2. UNCHANGED <<ws, owner, leaving>>
    BY <1>4 DEF Opened, AgentEndCloses
  <2> QED
    BY <2>1, <2>2 DEF OthersAreGivenUp
<1>5. ASSUME UNCHANGED <<ws, owner, agentEnd, leaving>> PROVE OthersAreGivenUp'
  BY <1>5 DEF OthersAreGivenUp, Live
<1>6. CASE UNCHANGED vars
  BY <1>5, <1>6 DEF vars
<1> QED
  BY <1>1, <1>2, <1>3, <1>4, <1>5, <1>6 DEF Next, HealthCheck, HealthCheckPings,
     HealthCheckRemoves, Report, Broadcast, Accept, ServerEndCloses,
     AfterConnectionClosed, HandleTextMessage, OnMessage, ServerRestart, Tick

\* Only on_open starts a monitor, and it is its socket that the agent has.
LEMMA LeavesStep == IInv /\ [Next]_vars => LeavesSomething'
<1> SUFFICES ASSUME TypeOK, OthersAreGivenUp, LeavesSomething, [Next]_vars
             PROVE  LeavesSomething'
  BY DEF IInv
<1> USE NodeLinkAssumption DEF server, sockets, flight, agent
<1>1. ASSUME NEW n \in Nodes, NEW s \in Sockets, Start(n, s) \/ Reconnect(n, s)
      PROVE  LeavesSomething'
  <2>1. /\ ws' = [ws EXCEPT ![n] = s] /\ monitors' = monitors
        /\ \A m \in Nodes \ {n} : leaving'[m] = leaving[m]
    BY <1>1 DEF Start, Reconnect, Connect, TypeOK
  <2> QED
    BY <2>1 DEF LeavesSomething, TypeOK
<1>2. ASSUME NEW n \in Nodes, GiveUp(n) PROVE LeavesSomething'
  BY <1>2 DEF GiveUp, LeavesSomething, TypeOK
<1>3. ASSUME NEW n \in Nodes, AgentStops(n) PROVE LeavesSomething'
  BY <1>3 DEF AgentStops, LeavesSomething, TypeOK
<1>4. ASSUME NEW s \in Sockets, Opened(s) PROVE LeavesSomething'
  <2>1. ws[owner[s]] = s
    BY <1>4 DEF Opened, OthersAreGivenUp, Live
  <2> QED
    BY <1>4, <2>1 DEF Opened, LeavesSomething, TypeOK
<1>5. ASSUME UNCHANGED <<ws, monitors, leaving>> PROVE LeavesSomething'
  BY <1>5 DEF LeavesSomething
<1>6. CASE UNCHANGED vars
  BY <1>5, <1>6 DEF vars
<1> QED
  BY <1>1, <1>2, <1>3, <1>4, <1>5, <1>6 DEF Next, HealthCheck, HealthCheckPings,
     HealthCheckRemoves, Report, Broadcast, Accept, AgentEndCloses,
     ServerEndCloses, AfterConnectionClosed, HandleTextMessage, OnMessage,
     ServerRestart, Tick

LEMMA InitIInv == Init => IInv
<1> SUFFICES ASSUME Init PROVE IInv
  OBVIOUS
<1>1. 0 \in Ticks
  BY NodeLinkAssumption DEF Ticks
<1>2. TypeOK
  BY <1>1 DEF Init, TypeOK
<1>3. EntryHasServerEnd
  BY DEF Init, EntryHasServerEnd
<1>4. OthersAreGivenUp /\ LeavesSomething
  BY DEF Init, OthersAreGivenUp, LeavesSomething, Live
<1> QED
  BY <1>2, <1>3, <1>4 DEF IInv

THEOREM Inductive == Spec => []IInv
<1>1. IInv /\ [Next]_vars => IInv'
  BY TypeStep, EntryStep, GivenUpStep, LeavesStep DEF IInv
<1> QED
  BY InitIInv, <1>1, PTL DEF Spec

\* Neither side's counters, maps or sockets leave their types, for any number
\* of nodes and sockets and any timeout.
THEOREM TypeCorrect == Spec => []TypeOK
<1>1. IInv => TypeOK
  BY DEF IInv
<1> QED
  BY Inductive, <1>1, PTL

\* The session map never names a socket that is gone or another node's: late
\* closing callbacks, replaced sessions and the health check leave none behind
\* (afterConnectionEstablished, afterConnectionClosed, initHealthCheckTask).
THEOREM EntriesAreReal == Spec => []EntryHasServerEnd
<1>1. IInv => EntryHasServerEnd
  BY DEF IInv
<1> QED
  BY Inductive, <1>1, PTL

-----------------------------------------------------------------------------
\* What takes away the entry of a connected node is an older connection of the
\* same node, which the agent has given up, or a restart: its own server end is
\* open, so it is not its own closing, it is not idle, so it is not the health
\* check, and a connect that is accepted now can only be an abandoned one.
LEMMA ActiveStep ==
    ASSUME IInv, [Next]_vars, NEW n \in Nodes,
           Connected(n), idle[n] <= Timeout, sessions'[n] # sessions[n]
    PROVE  \/ \E s \in Sockets \ {ws[n]} :
                 /\ owner[s] = n
                 /\ \/ /\ serverEnd[s] = "closing" /\ ~Live(s)
                       /\ sessions'[n] = NoSocket
                    \/ agentEnd[s] = "abandoned" /\ sessions'[n] = s
           \/ \A s \in Sockets : serverEnd'[s] = "none"
<1> SUFFICES ASSUME \A s \in Sockets \ {ws[n]} :
                       ~(/\ owner[s] = n
                         /\ \/ /\ serverEnd[s] = "closing" /\ ~Live(s)
                               /\ sessions'[n] = NoSocket
                            \/ agentEnd[s] = "abandoned" /\ sessions'[n] = s),
                    ~ServerRestart
             PROVE  FALSE
  BY DEF ServerRestart
<1> USE NodeLinkAssumption
<1>a. /\ TypeOK /\ sessions[n] \in Sockets /\ serverEnd[sessions[n]] = "open"
      /\ sessions[n] = ws[n] /\ agentEnd[ws[n]] = "open"
  BY DEF IInv, TypeOK, Connected
<1>b. sessions' # sessions
  BY <1>a
<1>1. ASSUME NEW s \in Sockets, AfterConnectionClosed(s) PROVE FALSE
  <2>1. owner[s] = n /\ sessions'[n] = NoSocket
    BY <1>1, <1>a DEF AfterConnectionClosed, TypeOK
  <2>2. s # ws[n] /\ serverEnd[s] = "closing"
    BY <1>1, <1>a DEF AfterConnectionClosed
  <2>3. ~Live(s)
    BY <2>1, <2>2 DEF IInv, OthersAreGivenUp
  <2> QED
    BY <2>1, <2>2, <2>3
<1>2. ASSUME NEW m \in Nodes, NEW before \in SUBSET Nodes,
             HealthCheckRemoves(m, before)
      PROVE  FALSE
  <2>1. m = n
    BY <1>2, <1>a DEF HealthCheckRemoves, TypeOK
  <2>2. idle[n] \in Nat /\ Timeout \in Nat
    BY <1>a DEF TypeOK, Ticks
  <2> QED
    BY <1>2, <1>a, <2>1, <2>2 DEF HealthCheckRemoves, Inactive
<1>3. ASSUME NEW s \in Sockets, Accept(s) PROVE FALSE
  <2>1. owner[s] = n /\ sessions'[n] = s
    BY <1>3, <1>a DEF Accept, TypeOK
  <2>2. s # ws[n] /\ agentEnd[s] \in {"connecting", "abandoned"}
    BY <1>3, <1>a DEF Accept
  <2>3. agentEnd[s] # "connecting"
    BY <2>1, <2>2 DEF IInv, OthersAreGivenUp, Live
  <2> QED
    BY <2>1, <2>2, <2>3
<1>4. ASSUME NEW m \in Nodes, NEW s \in Sockets, Start(m, s) \/ Reconnect(m, s)
      PROVE  FALSE
  BY <1>4, <1>b DEF Start, Reconnect, Connect, server
<1>5. ASSUME NEW m \in Nodes,
             GiveUp(m) \/ Report(m) \/ AgentStops(m) \/ Broadcast(m)
      PROVE  FALSE
  BY <1>5, <1>b DEF GiveUp, Report, AgentStops, Broadcast, server
<1>6. ASSUME NEW s \in Sockets,
             \/ Opened(s) \/ AgentEndCloses(s) \/ ServerEndCloses(s)
             \/ HandleTextMessage(s) \/ \E m \in {"ping", "command"} : OnMessage(s, m)
      PROVE  FALSE
  BY <1>6, <1>b DEF Opened, AgentEndCloses, ServerEndCloses, HandleTextMessage,
                    OnMessage, server
<1>7. ~HealthCheckPings /\ ~Tick
  BY <1>b DEF HealthCheckPings, Tick, server
<1>8. ~UNCHANGED vars
  BY <1>b DEF vars, server
<1> QED
  BY <1>1, <1>2, <1>3, <1>4, <1>5, <1>6, <1>7, <1>8 DEF Next, HealthCheck

\* Nothing but an older connection of its own or a restart of the server cuts
\* off a node that is connected and answers (reconnect, afterConnectionClosed,
\* afterConnectionEstablished).
THEOREM ActiveStays == Spec => ActiveSessionStays
<1>1. IInv /\ [Next]_vars =>
        [\A n \in Nodes :
           (Connected(n) /\ idle[n] <= Timeout /\ sessions'[n] # sessions[n])
              => \/ \E s \in Sockets \ {ws[n]} :
                       /\ owner[s] = n
                       /\ \/ /\ serverEnd[s] = "closing" /\ ~Live(s)
                             /\ sessions'[n] = NoSocket
                          \/ agentEnd[s] = "abandoned" /\ sessions'[n] = s
                 \/ \A s \in Sockets : serverEnd'[s] = "none"]_vars
  BY ActiveStep
<1> QED
  BY Inductive, <1>1, PTL DEF Spec, ActiveSessionStays
=============================================================================
