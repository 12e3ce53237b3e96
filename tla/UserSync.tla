------------------------------ MODULE UserSync ------------------------------
(***************************************************************************)
(* Which users every node's Xray process serves. The server keeps the      *)
(* users' rows and publishes events; the WebSocket handler turns them into *)
(* add_user, remove_user and sync_users messages for the connected nodes;  *)
(* each node's agent applies them to Xray: single commands at once, the    *)
(* operations of a sync through a pool of threads.                         *)
(* A Bug_ definition is a faulty variant of the definition below it and is *)
(* used by no specification.                                               *)
(***************************************************************************)
EXTENDS Naturals, SequencesExt

CONSTANTS
    Users, Nodes,
    Threads,    \* threads of the server that serve requests or timers
    PoolSize,   \* max_workers of the agent's ThreadPoolExecutor
    MaxQueue,   \* bound: messages in flight on one connection
    MaxPool     \* bound: syncs waiting in one agent's executor

ASSUME UserSyncAssumption ==
    PoolSize \in Nat \ {0} /\ MaxQueue \in Nat /\ MaxPool \in Nat

VARIABLES
    present, status, expired,   \* xray_user: the row exists, status, expiration
    timer,                      \* the periodic sync is still scheduled
    pc, subject, seen,          \* each server thread: where it is, its user, and
    message, todo,              \* the status it read; what it sends, to whom
    link,                       \* each node's connection, as the server has it
    toAgent,                    \* messages in flight to the agent
    asks,                       \* the agent's request for a sync is in flight
    monitors,                   \* the agent's status monitor has been started
    pool,                       \* operations submitted to the executor
    installed, xrayUp,          \* Xray: users of the inbound; it is running
    clean,                      \* history: nothing raced with the last sync
    doubted                     \* history: users ever expired or switched off

rows == <<present, status, expired>>
threads == <<pc, subject, seen, message, todo>>
wires == <<link, toAgent, asks>>
agents == <<monitors, pool>>
xrays == <<installed, xrayUp>>
history == <<clean, doubted>>
vars == <<rows, timer, threads, wires, agents, xrays, history>>

Op == {"add", "remove", "skip"}
Message == [bulk : BOOLEAN, ops : [Users -> Op]]

TypeOK ==
    /\ present \in [Users -> BOOLEAN]
    /\ status \in [Users -> {0, 1}]
    /\ expired \in [Users -> BOOLEAN]
    /\ timer \in BOOLEAN
    /\ pc \in [Threads -> {"idle", "toggle", "publish", "reply", "broadcast"}]
    /\ subject \in [Threads -> Users]
    /\ seen \in [Threads -> {0, 1}]
    /\ message \in [Threads -> Message]
    /\ todo \in [Threads -> SUBSET Nodes]
    /\ link \in [Nodes -> {"closed", "open", "forgotten"}]
    /\ toAgent \in [Nodes -> Seq(Message)]
    /\ asks \in [Nodes -> BOOLEAN]
    /\ monitors \in [Nodes -> BOOLEAN]
    /\ pool \in [Nodes -> Seq([Users -> Op])]
    /\ installed \in [Nodes -> SUBSET Users]
    /\ xrayUp \in [Nodes -> BOOLEAN]
    /\ clean \in [Nodes -> BOOLEAN]
    /\ doubted \subseteq Users

Due == {u \in Users : present[u] /\ ~expired[u]}

Silence == [bulk |-> FALSE, ops |-> [u \in Users |-> "skip"]]
Command(u, op) == [bulk |-> FALSE, ops |-> [Silence.ops EXCEPT ![u] = op]]

Bug_SyncOp(u) == IF present[u] THEN "add" ELSE "skip"
Bug_SyncOpRemoves(u) == IF present[u] /\ expired[u] THEN "remove" ELSE "skip"
Bug_SyncOpName(u) == IF present[u] /\ expired[u] THEN "delete" ELSE "skip"

\* UserData.from: the operation a sync carries for a user looks at the
\* expiration alone, not at the status.
SyncOp(u) == CASE ~present[u] -> "skip"
               [] present[u] /\ expired[u] -> "remove"
               [] OTHER -> "add"

Snapshot == [bulk |-> TRUE, ops |-> [u \in Users |-> SyncOp(u)]]

Init ==
    /\ present = [u \in Users |-> FALSE]
    /\ status = [u \in Users |-> 0]
    /\ expired = [u \in Users |-> FALSE]
    /\ timer = TRUE
    /\ pc = [w \in Threads |-> "idle"]
    /\ subject \in {[w \in Threads |-> u] : u \in Users}
    /\ seen = [w \in Threads |-> 0]
    /\ message = [w \in Threads |-> Silence]
    /\ todo = [w \in Threads |-> {}]
    /\ link = [n \in Nodes |-> "closed"]
    /\ toAgent = [n \in Nodes |-> <<>>]
    /\ asks = [n \in Nodes |-> FALSE]
    /\ monitors = [n \in Nodes |-> FALSE]
    /\ pool = [n \in Nodes |-> <<>>]
    /\ installed = [n \in Nodes |-> {}]
    /\ xrayUp = [n \in Nodes |-> TRUE]
    /\ clean = [n \in Nodes |-> FALSE]
    /\ doubted = {}

-----------------------------------------------------------------------------
(* Requests and timers of the server.                                        *)

\* A thread publishes an event about user u and goes on to the sessions.
Publish(w, u, m) ==
    /\ pc' = [pc EXCEPT ![w] = "publish"]
    /\ subject' = [subject EXCEPT ![w] = u]
    /\ message' = [message EXCEPT ![w] = m]
    /\ seen' = [seen EXCEPT ![w] = 0]
    /\ UNCHANGED todo

\* What the nodes should serve has changed.
NothingClean == clean' = [n \in Nodes |-> FALSE]

\* register, or the first OAuth login: three days of trial.
Register(w, u) ==
    /\ pc[w] = "idle" /\ ~present[u]
    /\ present' = [present EXCEPT ![u] = TRUE]
    /\ Publish(w, u, Command(u, "add"))
    /\ NothingClean
    /\ UNCHANGED <<status, expired, timer, wires, agents, xrays, doubted>>

Bug_LoginOp(u) == "remove"

\* login: "expired" compares the new token's expiration, one day ahead, with
\* the clock, so it is never true.
LoginOp(u) == "add"

\* A login of a device without a session of its own.
Login(w, u) ==
    /\ pc[w] = "idle" /\ present[u]
    /\ Publish(w, u, Command(u, LoginOp(u)))
    /\ UNCHANGED <<rows, timer, wires, agents, xrays, history>>

\* disable, which no controller calls yet: reads the row ...
Toggle(w, u) ==
    /\ pc[w] = "idle" /\ present[u]
    /\ pc' = [pc EXCEPT ![w] = "toggle"]
    /\ subject' = [subject EXCEPT ![w] = u]
    /\ seen' = [seen EXCEPT ![w] = status[u]]
    /\ UNCHANGED <<rows, timer, message, todo, wires, agents, xrays,
                   history>>

\* ... writes the opposite of what it read, and tells the nodes.
ToggleOp(s) == IF s = 1 THEN "remove" ELSE "add"

ToggleWrite(w) ==
    LET u == subject[w]
        s == 1 - seen[w]
    IN  /\ pc[w] = "toggle"
        /\ status' = [status EXCEPT ![u] = s]
        /\ doubted' = IF s = 1 THEN doubted \cup {u} ELSE doubted
        /\ Publish(w, u, Command(u, ToggleOp(s)))
        /\ UNCHANGED <<present, expired, timer, wires, agents, xrays, clean>>

\* Time passes; a payment or an edit by the administrator moves the date.
\* None of them tells the nodes.
SetExpired(u, value) ==
    /\ present[u] /\ expired[u] # value
    /\ expired' = [expired EXCEPT ![u] = value]
    /\ NothingClean
    /\ doubted' = IF value THEN doubted \cup {u} ELSE doubted
    /\ UNCHANGED <<present, status, timer, threads, wires, agents, xrays>>

\* The administrator's edit page writes the status, too.
EditStatus(u, value) ==
    /\ present[u] /\ status[u] # value
    /\ status' = [status EXCEPT ![u] = value]
    /\ doubted' = IF value = 1 THEN doubted \cup {u} ELSE doubted
    /\ UNCHANGED <<present, expired, timer, threads, wires, agents, xrays, clean>>

\* Every ten minutes: read all users, then send them to every node.
PeriodicSync(w) ==
    /\ pc[w] = "idle" /\ timer
    /\ pc' = [pc EXCEPT ![w] = "publish"]
    /\ message' = [message EXCEPT ![w] = Snapshot]
    /\ UNCHANGED <<rows, timer, subject, seen, todo, wires, agents,
                   xrays, history>>

\* The query fails: the exception leaves the task, which is never run again.
TimerDies ==
    /\ timer
    /\ timer' = FALSE
    /\ UNCHANGED <<rows, threads, wires, agents, xrays, history>>

\* dumpSessions: the sessions a message goes to are those of this moment. The
\* handler's lock is held while a node's own request is answered.
DumpSessions(w) ==
    /\ pc[w] = "publish"
    /\ \A v \in Threads : pc[v] # "reply"
    /\ pc' = [pc EXCEPT ![w] = "broadcast"]
    /\ todo' = [todo EXCEPT ![w] = {n \in Nodes : link[n] = "open"}]
    /\ UNCHANGED <<rows, timer, subject, seen, message, wires, agents,
                   xrays, history>>

\* One sendMessage of a broadcast. It throws, and the message is lost for this
\* node, if another thread is sending on the session; nobody sends it again.
Send(w, n) ==
    /\ n \in todo[w] /\ Len(toAgent[n]) < MaxQueue
    /\ todo' = [todo EXCEPT ![w] = @ \ {n}]
    /\ toAgent' = [toAgent EXCEPT ![n] = Append(@, message[w])]
    /\ UNCHANGED <<rows, timer, pc, subject, seen, message, link,
                   asks, agents, xrays, history>>

SendFails(w, n) ==
    /\ n \in todo[w] /\ Len(toAgent[n]) < MaxQueue
    /\ todo' = [todo EXCEPT ![w] = @ \ {n}]
    /\ UNCHANGED <<rows, timer, pc, subject, seen, message, wires,
                   agents, xrays, history>>

Done(w) ==
    /\ pc[w] \in {"reply", "broadcast"} /\ todo[w] = {}
    /\ pc' = [pc EXCEPT ![w] = "idle"]
    /\ message' = [message EXCEPT ![w] = Silence]
    /\ UNCHANGED <<rows, timer, subject, seen, todo, wires, agents,
                   xrays, history>>

\* handleTextMessage. A node's request is answered to that node alone, by the
\* thread that received it and under the handler's lock. A node that is not in
\* the session map is not answered.
TakeRequest(n) ==
    /\ asks[n]
    /\ \A v \in Threads : pc[v] # "reply"
    /\ asks' = [asks EXCEPT ![n] = FALSE]
    /\ UNCHANGED <<rows, timer, subject, seen, link, toAgent, agents, xrays,
                   history>>

AnswerRequest(w, n) ==
    /\ pc[w] = "idle" /\ link[n] = "open"
    /\ TakeRequest(n)
    /\ pc' = [pc EXCEPT ![w] = "reply"]
    /\ message' = [message EXCEPT ![w] = Snapshot]
    /\ todo' = [todo EXCEPT ![w] = {n}]

IgnoreRequest(n) ==
    /\ link[n] = "forgotten"
    /\ TakeRequest(n)
    /\ UNCHANGED <<pc, message, todo>>

-----------------------------------------------------------------------------
(* Connections: opened by the agent, closed by either side, or forgotten by  *)
(* the server, whose map lost the entry while the socket is still open.      *)

\* on_open: the status monitor is started by the first connection only, and
\* only the start of the monitor asks for the users.
AsksForUsers(n) == ~monitors[n]

Connect(n) ==
    /\ link[n] = "closed"
    /\ link' = [link EXCEPT ![n] = "open"]
    /\ asks' = [asks EXCEPT ![n] = AsksForUsers(n)]
    /\ monitors' = [monitors EXCEPT ![n] = TRUE]
    /\ UNCHANGED <<rows, timer, threads, toAgent, pool, xrays, history>>

\* Whatever was in flight is lost; sessions in a broadcast's copy are dead.
Cut(S) ==
    /\ link' = [n \in Nodes |-> IF n \in S THEN "closed" ELSE link[n]]
    /\ toAgent' = [n \in Nodes |-> IF n \in S THEN <<>> ELSE toAgent[n]]
    /\ asks' = [n \in Nodes |-> n \notin S /\ asks[n]]

Close(n) ==
    /\ link[n] # "closed"
    /\ Cut({n})
    /\ todo' = [w \in Threads |-> todo[w] \ {n}]
    /\ UNCHANGED <<rows, timer, pc, subject, seen, message, agents,
                   xrays, history>>

\* afterConnectionClosed of an older connection of the node, or the health
\* check (NodeLink has the details).
Forget(n) ==
    /\ link[n] = "open"
    /\ link' = [link EXCEPT ![n] = "forgotten"]
    /\ UNCHANGED <<rows, timer, threads, toAgent, asks, agents,
                   xrays, history>>

ServerRestart ==
    /\ Cut(Nodes)
    /\ pc' = [w \in Threads |-> "idle"]
    /\ message' = [w \in Threads |-> Silence]
    /\ todo' = [w \in Threads |-> {}]
    /\ timer' = TRUE
    /\ UNCHANGED <<rows, subject, seen, agents, xrays, history>>

-----------------------------------------------------------------------------
(* The agent and its Xray process.                                           *)

Bug_Applied(n, u, op) ==
    IF xrayUp[n] THEN installed[n] \cup {u} ELSE installed[n]

\* AlterInbound fails, and the failure is only logged, when Xray is down, has
\* the user already, or does not have it.
Applied(n, u, op) ==
    CASE ~xrayUp[n] -> installed[n]
      [] xrayUp[n] /\ op = "add" -> installed[n] \cup {u}
      [] OTHER -> installed[n] \ {u}

\* add_user and remove_user run on the socket's own thread.
HandleCommand(n) ==
    /\ toAgent[n] # <<>> /\ ~Head(toAgent[n]).bulk
    /\ \E u \in Users :
          LET op == Head(toAgent[n]).ops[u] IN
          /\ op # "skip"
          /\ installed' = [installed EXCEPT ![n] = Applied(n, u, op)]
          /\ clean' = [clean EXCEPT ![n] = @ /\ op = SyncOp(u)]
    /\ toAgent' = [toAgent EXCEPT ![n] = Tail(@)]
    /\ UNCHANGED <<rows, timer, threads, link, asks, agents, xrayUp, doubted>>

\* sync_users: one operation for each user of the list is submitted to the
\* executor. A batch holds the operations of one list that are still to be
\* done, in no order: the order of the list is the database's.
Nothing == Silence.ops

HandleSync(n) ==
    LET ops == Head(toAgent[n]).ops IN
    /\ toAgent[n] # <<>> /\ Head(toAgent[n]).bulk
    /\ Len(pool[n]) < MaxPool
    /\ pool' = [pool EXCEPT ![n] = IF ops = Nothing THEN @ ELSE Append(@, ops)]
    /\ clean' = [clean EXCEPT ![n] = /\ pool[n] = <<>> /\ xrayUp[n]
                                     /\ ops = Snapshot.ops]
    /\ toAgent' = [toAgent EXCEPT ![n] = Tail(@)]
    /\ UNCHANGED <<rows, timer, threads, link, asks, monitors, xrays, doubted>>

\* The operations submitted before batch i.
Earlier(n, i) ==
    {x \in (1 .. (i - 1)) \X Users : pool[n][x[1]][x[2]] # "skip"}

\* The executor's threads take operations in the order of submission, and up
\* to PoolSize of them are under way: any of these may take effect next.
RunSubmitted(n, i, u) ==
    /\ i \in 1 .. Len(pool[n]) /\ pool[n][i][u] # "skip"
    /\ Cardinality(Earlier(n, i)) < PoolSize
    /\ installed' = [installed EXCEPT ![n] = Applied(n, u, pool[n][i][u])]
    /\ LET rest == [pool[n][i] EXCEPT ![u] = "skip"] IN
       pool' = [pool EXCEPT ![n] = IF rest = Nothing THEN RemoveAt(@, i)
                                   ELSE ReplaceAt(@, i, rest)]
    /\ UNCHANGED <<rows, timer, threads, wires, monitors, xrayUp, history>>

\* query_user_count returns a protobuf message, or -1 if the call failed:
\* neither equals 0, so no loop of the monitor ever asks for the users.
CountsZeroUsers(n) == FALSE

\* One loop of the status monitor.
MonitorLoop(n) ==
    /\ monitors[n] /\ link[n] # "closed"
    /\ asks' = [asks EXCEPT ![n] = @ \/ CountsZeroUsers(n)]
    /\ UNCHANGED <<rows, timer, threads, link, toAgent, agents, xrays, history>>

AgentRestart(n) ==
    /\ Cut({n})
    /\ todo' = [w \in Threads |-> todo[w] \ {n}]
    /\ monitors' = [monitors EXCEPT ![n] = FALSE]
    /\ pool' = [pool EXCEPT ![n] = <<>>]
    /\ clean' = [clean EXCEPT ![n] = FALSE]
    /\ UNCHANGED <<rows, timer, pc, subject, seen, message, xrays, doubted>>

\* Users added through the API are gone when Xray stops.
XrayStops(n) ==
    /\ xrayUp[n]
    /\ xrayUp' = [xrayUp EXCEPT ![n] = FALSE]
    /\ installed' = [installed EXCEPT ![n] = {}]
    /\ clean' = [clean EXCEPT ![n] = FALSE]
    /\ UNCHANGED <<rows, timer, threads, wires, agents, doubted>>

XrayStarts(n) ==
    /\ ~xrayUp[n]
    /\ xrayUp' = [xrayUp EXCEPT ![n] = TRUE]
    /\ UNCHANGED <<rows, timer, threads, wires, agents, installed, history>>

-----------------------------------------------------------------------------
Next ==
    \/ \E w \in Threads, u \in Users : \/ Register(w, u)
                                       \/ Login(w, u)
                                       \/ Toggle(w, u)
    \/ \E w \in Threads : \/ ToggleWrite(w)
                          \/ PeriodicSync(w)
                          \/ DumpSessions(w)
                          \/ Done(w)
    \/ \E w \in Threads, n \in Nodes : \/ Send(w, n)
                                       \/ SendFails(w, n)
                                       \/ AnswerRequest(w, n)
    \/ \E u \in Users, value \in BOOLEAN : SetExpired(u, value)
    \/ \E u \in Users, value \in {0, 1} : EditStatus(u, value)
    \/ TimerDies
    \/ ServerRestart
    \/ \E n \in Nodes : \/ IgnoreRequest(n)
                        \/ Connect(n) \/ Close(n) \/ Forget(n)
                        \/ HandleCommand(n) \/ HandleSync(n)
                        \/ \E i \in 1 .. MaxPool, u \in Users :
                               RunSubmitted(n, i, u)
                        \/ MonitorLoop(n)
                        \/ AgentRestart(n)
                        \/ XrayStops(n) \/ XrayStarts(n)

Spec == Init /\ [][Next]_vars

\* Started threads go on and the timer of the sync fires; a broadcast reaches
\* a session that stays open now and then; the agent handles what arrives,
\* its pool works and its monitor loops.
Fairness ==
    /\ \A w \in Threads : /\ WF_vars(ToggleWrite(w))
                          /\ WF_vars(DumpSessions(w))
                          /\ WF_vars(Done(w))
                          /\ WF_vars(\E n \in Nodes : Send(w, n) \/ SendFails(w, n))
    /\ SF_vars(\E w \in Threads : PeriodicSync(w))
    /\ \A n \in Nodes :
          /\ SF_vars(\E w \in Threads : message[w].bulk /\ Send(w, n))
          /\ SF_vars(\E w \in Threads : AnswerRequest(w, n))
          /\ SF_vars(IgnoreRequest(n))
          /\ WF_vars(HandleCommand(n))
          /\ WF_vars(HandleSync(n))
          /\ \A u \in Users : WF_vars(RunSubmitted(n, 1, u))
          /\ WF_vars(MonitorLoop(n))

FairSpec == Spec /\ Fairness
=============================================================================
