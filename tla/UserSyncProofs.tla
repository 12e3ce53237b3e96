--------------------------- MODULE UserSyncProofs ---------------------------
(***************************************************************************)
(* Proofs about UserSync for any users, nodes, threads and pool size.      *)
(* That a subscriber is never cut off depends on every operation that may  *)
(* still take effect, however old: what a thread holds, what a connection  *)
(* carries and what a pool has to do are harmless, and stay so because     *)
(* rows are never deleted and the set of users who ever gave a reason to   *)
(* be removed only grows. That a clean sync is exact needs, besides, what  *)
(* is true of a node while the sync's batch is being worked off.           *)
(***************************************************************************)
EXTENDS UserSyncProperties, SequenceTheorems, TLAPS

Remembered == /\ doubted \subseteq doubted'
              /\ \A u \in Users : present[u] => present'[u]

LEMMA DoubtedStep == TypeOK /\ [Next]_vars => Remembered
<1> SUFFICES ASSUME TypeOK, [Next]_vars PROVE Remembered
  OBVIOUS
<1> USE DEF Remembered, history, rows
<1>0. ASSUME NEW w \in Threads, NEW u \in Users, Register(w, u)
      PROVE  Remembered
  <2>1. present \in [Users -> BOOLEAN]
    BY DEF TypeOK
  <2> QED
    BY <1>0, <2>1 DEF Register
<1>1. ASSUME NEW w \in Threads, ToggleWrite(w) PROVE Remembered
  BY <1>1 DEF ToggleWrite
<1>2. ASSUME NEW u \in Users, NEW value \in BOOLEAN, SetExpired(u, value)
      PROVE  Remembered
  BY <1>2 DEF SetExpired
<1>3. ASSUME NEW u \in Users, NEW value \in {0, 1}, EditStatus(u, value)
      PROVE  Remembered
  BY <1>3 DEF EditStatus
<1>4. ASSUME UNCHANGED <<present, doubted>> PROVE Remembered
  BY <1>4
<1>5. CASE UNCHANGED vars
  BY <1>5 DEF vars
<1> HIDE DEF Remembered
<1>6. CASE \E w \in Threads : \/ \E u \in Users : Login(w, u) \/ Toggle(w, u)
                              \/ PeriodicSync(w) \/ DumpSessions(w) \/ Done(w)
                              \/ \E n \in Nodes : \/ Send(w, n) \/ SendFails(w, n)
                                                  \/ AnswerRequest(w, n)
  <2>1. UNCHANGED <<present, doubted>>
    BY <1>6 DEF Login, Toggle, PeriodicSync, DumpSessions, Done, Send, SendFails,
       AnswerRequest, TakeRequest
  <2> QED
    BY <1>4, <2>1
<1>7. CASE TimerDies \/ ServerRestart
  BY <1>4, <1>7 DEF TimerDies, ServerRestart
<1>8. CASE \E n \in Nodes :
         \/ IgnoreRequest(n) \/ Connect(n) \/ Close(n) \/ Forget(n)
         \/ HandleCommand(n) \/ HandleSync(n) \/ MonitorLoop(n) \/ AgentRestart(n)
         \/ XrayStops(n) \/ XrayStarts(n)
         \/ \E i \in 1 .. MaxPool, u \in Users : RunSubmitted(n, i, u)
  <2>1. UNCHANGED <<present, doubted>>
    BY ZenonT(60), <1>8 DEF IgnoreRequest, TakeRequest, Connect, Close, Forget, HandleCommand,
       HandleSync, MonitorLoop, AgentRestart, XrayStops, XrayStarts, RunSubmitted
  <2> QED
    BY <1>4, <2>1
<1> QED
  BY <1>0, <1>1, <1>2, <1>3, <1>5, <1>6, <1>7, <1>8 DEF Next

\* What is harmless stays harmless.
LEMMA HarmlessGrows ==
    ASSUME Remembered
    PROVE  /\ HarmlessOps \subseteq HarmlessOps'
           /\ HarmlessMessage \subseteq HarmlessMessage'
<1>1. HarmlessOps \subseteq HarmlessOps'
  BY DEF Remembered, HarmlessOps
<1>2. HarmlessMessage \subseteq HarmlessMessage'
  BY <1>1 DEF HarmlessMessage
<1> QED
  BY <1>1, <1>2

\* Silence and the snapshot of the rows are harmless.
LEMMA SilenceIsHarmless == Silence \in HarmlessMessage
  BY DEF Silence, HarmlessMessage, HarmlessOps, Op

LEMMA SnapshotIsHarmless ==
    ASSUME TypeOK, RowsInv
    PROVE  Snapshot \in HarmlessMessage
<1>1. ASSUME NEW u \in Users
      PROVE  /\ SyncOp(u) \in Op
             /\ SyncOp(u) # "skip" => present[u]
             /\ SyncOp(u) = "remove" => u \in doubted
  BY DEF SyncOp, Op, RowsInv, TypeOK
<1>2. [u \in Users |-> SyncOp(u)] \in HarmlessOps
  BY <1>1 DEF HarmlessOps
<1> QED
  BY <1>2 DEF Snapshot, HarmlessMessage

-----------------------------------------------------------------------------
\* Rows: a row that expires or is switched off is remembered at once.
LEMMA RowsStep ==
    TypeOK /\ RowsInv /\ [Next]_vars =>
        /\ RowsInv'
        /\ present' \in [Users -> BOOLEAN] /\ status' \in [Users -> {0, 1}]
        /\ expired' \in [Users -> BOOLEAN] /\ timer' \in BOOLEAN
        /\ doubted' \subseteq Users
<1> DEFINE Rows ==
      /\ present \in [Users -> BOOLEAN] /\ status \in [Users -> {0, 1}]
      /\ expired \in [Users -> BOOLEAN] /\ timer \in BOOLEAN
      /\ doubted \subseteq Users
<1> SUFFICES ASSUME Rows, RowsInv, TypeOK, [Next]_vars PROVE RowsInv' /\ Rows'
  BY DEF TypeOK
<1>1. ASSUME NEW w \in Threads, NEW u \in Users, Register(w, u)
      PROVE  RowsInv' /\ Rows'
  BY <1>1 DEF Register, RowsInv
<1>2. ASSUME NEW w \in Threads, ToggleWrite(w) PROVE RowsInv' /\ Rows'
  <2>1. subject[w] \in Users /\ seen[w] \in {0, 1}
    BY DEF TypeOK
  <2>2. 1 - seen[w] \in {0, 1}
    BY <2>1
  <2> QED
    BY <1>2, <2>1, <2>2 DEF ToggleWrite, RowsInv
<1>3. ASSUME NEW u \in Users, NEW value \in BOOLEAN, SetExpired(u, value)
      PROVE  RowsInv' /\ Rows'
  BY <1>3 DEF SetExpired, RowsInv
<1>4. ASSUME NEW u \in Users, NEW value \in {0, 1}, EditStatus(u, value)
      PROVE  RowsInv' /\ Rows'
  BY <1>4 DEF EditStatus, RowsInv
<1>5. ASSUME UNCHANGED <<rows, doubted>>, timer' \in {timer, TRUE, FALSE}
      PROVE  RowsInv' /\ Rows'
  BY <1>5 DEF rows, RowsInv
<1> HIDE DEF Rows
<1>6. CASE UNCHANGED vars
  BY <1>5, <1>6 DEF vars, history
<1> QED
  BY ZenonT(60), <1>1, <1>2, <1>3, <1>4, <1>5, <1>6 DEF Next, Login, Toggle,
     PeriodicSync, DumpSessions, Done, Send, SendFails, AnswerRequest,
     IgnoreRequest, TakeRequest, TimerDies, ServerRestart, Connect, Close,
     Forget, HandleCommand, HandleSync, RunSubmitted, MonitorLoop,
     AgentRestart, XrayStops, XrayStarts, history
-----------------------------------------------------------------------------
\* Threads: what one sends is harmless when it is built, and stays so.
LEMMA MessageStep ==
    IInv /\ [Next]_vars => message' \in [Threads -> HarmlessMessage']
<1> SUFFICES ASSUME IInv, [Next]_vars
             PROVE  message' \in [Threads -> HarmlessMessage']
  OBVIOUS
<1>a. /\ TypeOK /\ RowsInv /\ PresentInv
      /\ message \in [Threads -> HarmlessMessage]
      /\ HarmlessMessage \subseteq HarmlessMessage'
  BY DoubtedStep, HarmlessGrows DEF IInv, HarmlessInv
<1>b. Silence \in HarmlessMessage' /\ Snapshot \in HarmlessMessage'
  BY <1>a, SilenceIsHarmless, SnapshotIsHarmless
<1>c. message \in [Threads -> HarmlessMessage']
  BY <1>a
<1>1. ASSUME NEW w \in Threads, NEW u \in Users, Register(w, u) \/ Login(w, u)
      PROVE  message' \in [Threads -> HarmlessMessage']
  <2>1. present'[u]
    BY <1>1, <1>a DEF Register, Login, rows, TypeOK
  <2>2. Silence \in HarmlessMessage' /\ Silence.ops \in HarmlessOps'
    BY <1>b DEF HarmlessMessage
  <2>3. [Silence.ops EXCEPT ![u] = "add"] \in HarmlessOps'
    BY <2>1, <2>2 DEF HarmlessOps, Op
  <2>4. Command(u, "add") \in HarmlessMessage'
    BY <2>3 DEF Command, HarmlessMessage
  <2> QED
    BY <1>1, <1>c, <2>4 DEF Register, Login, LoginOp, Publish
<1>2. ASSUME NEW w \in Threads, ToggleWrite(w)
      PROVE  message' \in [Threads -> HarmlessMessage']
  <2> DEFINE u == subject[w]
             op == ToggleOp(1 - seen[w])
  <2>1. u \in Users /\ op \in Op
    BY <1>a DEF TypeOK, ToggleOp, Op
  <2>2. present'[u] /\ (op = "remove" => u \in doubted')
    BY <1>2, <1>a DEF ToggleWrite, ToggleOp, PresentInv
  <2>3. Silence \in HarmlessMessage' /\ Silence.ops \in HarmlessOps'
    BY <1>b DEF HarmlessMessage
  <2>4. [Silence.ops EXCEPT ![u] = op] \in HarmlessOps'
    BY <2>1, <2>2, <2>3 DEF HarmlessOps
  <2>5. Command(u, op) \in HarmlessMessage'
    BY <2>4 DEF Command, HarmlessMessage
  <2> QED
    BY <1>2, <1>c, <2>5 DEF ToggleWrite, Publish
<1>3. ASSUME NEW w \in Threads,
             PeriodicSync(w) \/ \E n \in Nodes : AnswerRequest(w, n)
      PROVE  message' \in [Threads -> HarmlessMessage']
  BY <1>3, <1>b, <1>c DEF PeriodicSync, AnswerRequest
<1>4. ASSUME NEW w \in Threads, Done(w)
      PROVE  message' \in [Threads -> HarmlessMessage']
  BY <1>4, <1>b, <1>c DEF Done
<1>5. CASE ServerRestart
  BY <1>5, <1>b DEF ServerRestart
<1>6. ASSUME UNCHANGED message PROVE message' \in [Threads -> HarmlessMessage']
  BY <1>6, <1>c
<1>7. CASE UNCHANGED vars
  BY <1>6, <1>7 DEF vars, threads
<1> QED
  BY ZenonT(60), <1>1, <1>2, <1>3, <1>4, <1>5, <1>6, <1>7 DEF Next, Toggle,
     SetExpired, EditStatus, DumpSessions, Send, SendFails, IgnoreRequest,
     TimerDies, Connect, Close, Forget, HandleCommand, HandleSync,
     RunSubmitted, MonitorLoop, AgentRestart, XrayStops, XrayStarts, threads

\* Connections: a message is put behind the others, taken from the front, or
\* lost with all of them.
LEMMA QueueStep ==
    IInv /\ [Next]_vars => toAgent' \in [Nodes -> Seq(HarmlessMessage')]
<1> SUFFICES ASSUME IInv, [Next]_vars
             PROVE  toAgent' \in [Nodes -> Seq(HarmlessMessage')]
  OBVIOUS
<1>a. /\ message \in [Threads -> HarmlessMessage]
      /\ toAgent \in [Nodes -> Seq(HarmlessMessage)]
      /\ HarmlessMessage \subseteq HarmlessMessage'
  BY DoubtedStep, HarmlessGrows DEF IInv, HarmlessInv
<1>b. toAgent \in [Nodes -> Seq(HarmlessMessage')]
  <2>1. \A n \in Nodes : toAgent[n] \in Seq(HarmlessMessage')
    BY <1>a, SeqMonotonic
  <2> QED
    BY <1>a, <2>1
<1>1. ASSUME NEW w \in Threads, NEW n \in Nodes, Send(w, n)
      PROVE  toAgent' \in [Nodes -> Seq(HarmlessMessage')]
  <2>1. Append(toAgent[n], message[w]) \in Seq(HarmlessMessage')
    BY <1>a, <1>b, AppendProperties
  <2> QED
    BY <1>1, <1>b, <2>1 DEF Send
<1>2. ASSUME NEW n \in Nodes, HandleCommand(n) \/ HandleSync(n)
      PROVE  toAgent' \in [Nodes -> Seq(HarmlessMessage')]
  <2>1. toAgent[n] # <<>> /\ toAgent' = [toAgent EXCEPT ![n] = Tail(@)]
    BY <1>2 DEF HandleCommand, HandleSync
  <2>2. Tail(toAgent[n]) \in Seq(HarmlessMessage')
    BY <1>b, <2>1, HeadTailProperties
  <2> QED
    BY <1>b, <2>1, <2>2
<1>3. ASSUME NEW S, Cut(S) PROVE toAgent' \in [Nodes -> Seq(HarmlessMessage')]
  <2>1. <<>> \in Seq(HarmlessMessage')
    BY EmptySeq
  <2> QED
    BY <1>3, <1>b, <2>1 DEF Cut
<1>4. ASSUME UNCHANGED toAgent PROVE toAgent' \in [Nodes -> Seq(HarmlessMessage')]
  BY <1>4, <1>b
<1>5. CASE UNCHANGED vars
  BY <1>4, <1>5 DEF vars, wires
<1> QED
  BY ZenonT(60), <1>1, <1>2, <1>3, <1>4, <1>5 DEF Next, Register, Login, Toggle,
     ToggleWrite, SetExpired, EditStatus, PeriodicSync, DumpSessions, Done,
     SendFails, AnswerRequest, IgnoreRequest, TakeRequest, TimerDies,
     ServerRestart, Connect, Close, Forget, RunSubmitted, MonitorLoop,
     AgentRestart, XrayStops, XrayStarts, wires

\* The pool: a batch is a message's, and what is done is marked as skipped.
LEMMA BatchIsHarmless ==
    ASSUME NEW S, NEW q \in Seq(S), NEW i \in 1 .. Len(q), NEW e \in S
    PROVE  ReplaceAt(q, i, e) \in Seq(S) /\ RemoveAt(q, i) \in Seq(S)
<1>1. Len(q) \in Nat /\ \A j \in 1 .. Len(q) : q[j] \in S
  BY LenProperties, ElementOfSeq
<1>2. ReplaceAt(q, i, e) \in Seq(S)
  BY ExceptSeq DEF ReplaceAt
<1>3. SubSeq(q, 1, i - 1) \in Seq(S)
  <2>1. \A j \in 1 .. (i - 1) : q[j] \in S
    BY <1>1
  <2> QED
    BY <1>1, <2>1, SubSeqProperties
<1>4. SubSeq(q, i + 1, Len(q)) \in Seq(S)
  <2>1. \A j \in (i + 1) .. Len(q) : q[j] \in S
    BY <1>1
  <2> QED
    BY <1>1, <2>1, SubSeqProperties
<1>5. RemoveAt(q, i) \in Seq(S)
  BY <1>3, <1>4, ConcatProperties DEF RemoveAt
<1> QED
  BY <1>2, <1>5

LEMMA PoolStep ==
    IInv /\ [Next]_vars => pool' \in [Nodes -> Seq(HarmlessOps')]
<1> SUFFICES ASSUME IInv, [Next]_vars
             PROVE  pool' \in [Nodes -> Seq(HarmlessOps')]
  OBVIOUS
<1>a. /\ pool \in [Nodes -> Seq(HarmlessOps)]
      /\ toAgent \in [Nodes -> Seq(HarmlessMessage)]
      /\ HarmlessOps \subseteq HarmlessOps'
  BY DoubtedStep, HarmlessGrows DEF IInv, HarmlessInv
<1>b. pool \in [Nodes -> Seq(HarmlessOps')]
  <2>1. \A n \in Nodes : pool[n] \in Seq(HarmlessOps')
    BY <1>a, SeqMonotonic
  <2> QED
    BY <1>a, <2>1
<1>1. ASSUME NEW n \in Nodes, HandleSync(n)
      PROVE  pool' \in [Nodes -> Seq(HarmlessOps')]
  <2>1. Head(toAgent[n]) \in HarmlessMessage
    BY <1>1, <1>a, HeadTailProperties DEF HandleSync
  <2>2. Head(toAgent[n]).ops \in HarmlessOps'
    BY <1>a, <2>1 DEF HarmlessMessage
  <2>3. Append(pool[n], Head(toAgent[n]).ops) \in Seq(HarmlessOps')
    BY <1>b, <2>2, AppendProperties
  <2> QED
    BY <1>1, <1>b, <2>3 DEF HandleSync
<1>2. ASSUME NEW n \in Nodes, NEW i \in 1 .. MaxPool, NEW u \in Users,
             RunSubmitted(n, i, u)
      PROVE  pool' \in [Nodes -> Seq(HarmlessOps')]
  <2> DEFINE rest == [pool[n][i] EXCEPT ![u] = "skip"]
  <2>1. i \in 1 .. Len(pool[n]) /\ pool[n] \in Seq(HarmlessOps')
    BY <1>2, <1>b DEF RunSubmitted
  <2>2. pool[n][i] \in HarmlessOps'
    BY <2>1, ElementOfSeq
  <2>3. rest \in HarmlessOps'
    BY <2>2 DEF HarmlessOps, Op
  <2> HIDE DEF rest
  <2>4. /\ ReplaceAt(pool[n], i, rest) \in Seq(HarmlessOps')
        /\ RemoveAt(pool[n], i) \in Seq(HarmlessOps')
    BY <2>1, <2>3, BatchIsHarmless
  <2>5. pool' = [pool EXCEPT ![n] = IF rest = Nothing THEN RemoveAt(@, i)
                                    ELSE ReplaceAt(@, i, rest)]
    BY <1>2 DEF RunSubmitted, rest
  <2> QED
    BY <1>b, <2>4, <2>5
<1>3. ASSUME NEW n \in Nodes, AgentRestart(n)
      PROVE  pool' \in [Nodes -> Seq(HarmlessOps')]
  <2>1. <<>> \in Seq(HarmlessOps')
    BY EmptySeq
  <2> QED
    BY <1>3, <1>b, <2>1 DEF AgentRestart
<1>4. ASSUME UNCHANGED pool PROVE pool' \in [Nodes -> Seq(HarmlessOps')]
  BY <1>4, <1>b
<1>5. CASE UNCHANGED vars
  BY <1>4, <1>5 DEF vars, agents
<1> QED
  BY <1>1, <1>2, <1>3, <1>4, <1>5 DEF Next, Register, Login, Toggle,
     ToggleWrite, SetExpired, EditStatus, PeriodicSync, DumpSessions, Done,
     Send, SendFails, AnswerRequest, IgnoreRequest, TakeRequest, TimerDies,
     ServerRestart, Connect, Close, Forget, HandleCommand, MonitorLoop,
     XrayStops, XrayStarts, agents
-----------------------------------------------------------------------------
\* Types of what only control reads: where threads and connections are.
LEMMA ThreadStep ==
    TypeOK /\ [Next]_vars =>
        /\ pc' \in [Threads -> {"idle", "toggle", "publish", "reply", "broadcast"}]
        /\ subject' \in [Threads -> Users]
        /\ seen' \in [Threads -> {0, 1}]
        /\ todo' \in [Threads -> SUBSET Nodes]
<1> DEFINE Type ==
        /\ pc \in [Threads -> {"idle", "toggle", "publish", "reply", "broadcast"}]
        /\ subject \in [Threads -> Users]
        /\ seen \in [Threads -> {0, 1}]
        /\ todo \in [Threads -> SUBSET Nodes]
<1> SUFFICES ASSUME Type, TypeOK, [Next]_vars PROVE Type'
  BY DEF TypeOK
<1>1. ASSUME NEW w \in Threads, NEW u \in Users,
             Register(w, u) \/ Login(w, u)
      PROVE  Type'
  BY <1>1 DEF Register, Login, Publish
<1>2. ASSUME NEW w \in Threads, NEW u \in Users, Toggle(w, u) PROVE Type'
  <2>1. status[u] \in {0, 1}
    BY DEF TypeOK
  <2> QED
    BY <1>2, <2>1 DEF Toggle
<1>3. ASSUME NEW w \in Threads, ToggleWrite(w) PROVE Type'
  BY <1>3 DEF ToggleWrite, Publish
<1>4. ASSUME NEW w \in Threads, PeriodicSync(w) \/ Done(w) PROVE Type'
  BY <1>4 DEF PeriodicSync, Done
<1>5. ASSUME NEW w \in Threads, DumpSessions(w) PROVE Type'
  BY <1>5 DEF DumpSessions
<1>6. ASSUME NEW w \in Threads, NEW n \in Nodes,
             Send(w, n) \/ SendFails(w, n) \/ AnswerRequest(w, n)
      PROVE  Type'
  BY <1>6 DEF Send, SendFails, AnswerRequest, TakeRequest
<1>7. ASSUME NEW n \in Nodes, Close(n) \/ AgentRestart(n) PROVE Type'
  BY <1>7 DEF Close, AgentRestart
<1>8. CASE ServerRestart
  BY <1>8 DEF ServerRestart
<1>9. ASSUME UNCHANGED <<pc, subject, seen, todo>> PROVE Type'
  BY <1>9
<1> HIDE DEF Type
<1>10. CASE UNCHANGED vars
  BY <1>9, <1>10 DEF vars, threads
<1> QED
  BY ZenonT(60), <1>1, <1>2, <1>3, <1>4, <1>5, <1>6, <1>7, <1>8, <1>9, <1>10 DEF Next,
     SetExpired, EditStatus, IgnoreRequest, TakeRequest, TimerDies, Connect,
     Forget, HandleCommand, HandleSync, RunSubmitted, MonitorLoop, XrayStops,
     XrayStarts, threads

LEMMA WireStep ==
    TypeOK /\ [Next]_vars =>
        /\ link' \in [Nodes -> {"closed", "open", "forgotten"}]
        /\ asks' \in [Nodes -> BOOLEAN]
        /\ monitors' \in [Nodes -> BOOLEAN]
<1> DEFINE Type ==
        /\ link \in [Nodes -> {"closed", "open", "forgotten"}]
        /\ asks \in [Nodes -> BOOLEAN]
        /\ monitors \in [Nodes -> BOOLEAN]
<1> SUFFICES ASSUME Type, [Next]_vars PROVE Type'
  BY DEF TypeOK
<1>1. ASSUME NEW n \in Nodes, TakeRequest(n) PROVE Type'
  BY <1>1 DEF TakeRequest, agents
<1>2. ASSUME NEW n \in Nodes, Connect(n) PROVE Type'
  BY <1>2 DEF Connect, AsksForUsers
<1>3. ASSUME NEW S, Cut(S), UNCHANGED monitors PROVE Type'
  BY <1>3 DEF Cut
<1>4. ASSUME NEW n \in Nodes, AgentRestart(n) PROVE Type'
  BY <1>4 DEF AgentRestart, Cut
<1>5. ASSUME NEW n \in Nodes, Forget(n) PROVE Type'
  BY <1>5 DEF Forget, agents
<1>6. ASSUME NEW n \in Nodes, MonitorLoop(n) PROVE Type'
  BY <1>6, Zenon DEF MonitorLoop, CountsZeroUsers, agents
<1>7. ASSUME UNCHANGED <<link, asks, monitors>> PROVE Type'
  BY <1>7
<1> HIDE DEF Type
<1>8. CASE UNCHANGED vars
  BY <1>7, <1>8 DEF vars, wires, agents
<1> QED
  BY ZenonT(60), <1>1, <1>2, <1>3, <1>4, <1>5, <1>6, <1>7, <1>8 DEF Next, Register, Login,
     Toggle, ToggleWrite, SetExpired, EditStatus, PeriodicSync, DumpSessions,
     Done, Send, SendFails, AnswerRequest, IgnoreRequest, TimerDies,
     ServerRestart, Close, HandleCommand, HandleSync, RunSubmitted, XrayStops,
     XrayStarts, wires, agents

-----------------------------------------------------------------------------
\* The two ways in which an operation takes effect on a node.
Operates(n, u, op) ==
    /\ installed' = [installed EXCEPT ![n] = Applied(n, u, op)]
    /\ op \in {"add", "remove"} /\ present[u]
    /\ op = "remove" => u \in doubted

LEMMA CommandOperates ==
    ASSUME IInv, NEW n \in Nodes, HandleCommand(n)
    PROVE  \E u \in Users :
              /\ Operates(n, u, Head(toAgent[n]).ops[u])
              /\ clean' = [clean EXCEPT ![n] =
                              @ /\ Head(toAgent[n]).ops[u] = SyncOp(u)]
<1>1. PICK u \in Users :
         /\ Head(toAgent[n]).ops[u] # "skip"
         /\ installed' = [installed EXCEPT ![n] =
                              Applied(n, u, Head(toAgent[n]).ops[u])]
         /\ clean' = [clean EXCEPT ![n] =
                              @ /\ Head(toAgent[n]).ops[u] = SyncOp(u)]
  BY DEF HandleCommand
<1>2. Head(toAgent[n]) \in HarmlessMessage
  BY HeadTailProperties DEF HandleCommand, IInv, HarmlessInv
<1>3. Head(toAgent[n]).ops \in HarmlessOps
  BY <1>2 DEF HarmlessMessage
<1> QED
  BY <1>1, <1>3 DEF Operates, HarmlessOps, Op

LEMMA SubmittedOperates ==
    ASSUME IInv, NEW n \in Nodes, NEW i \in 1 .. MaxPool, NEW u \in Users,
           RunSubmitted(n, i, u)
    PROVE  Operates(n, u, pool[n][i][u])
<1>1. pool[n] \in Seq(HarmlessOps) /\ i \in 1 .. Len(pool[n])
  BY DEF RunSubmitted, IInv, HarmlessInv
<1>2. pool[n][i] \in HarmlessOps
  BY <1>1, ElementOfSeq
<1> QED
  BY <1>2 DEF RunSubmitted, Operates, HarmlessOps, Op

\* Nothing but an operation or the end of Xray changes who is installed.
LEMMA InstalledStep ==
    ASSUME IInv, [Next]_vars
    PROVE  \/ \E n \in Nodes, u \in Users, op \in {"add", "remove"} :
                 Operates(n, u, op)
           \/ \E n \in Nodes : XrayStops(n)
           \/ UNCHANGED installed
<1> SUFFICES ASSUME installed' # installed, \A n \in Nodes : ~XrayStops(n),
                    \A n \in Nodes, u \in Users, op \in {"add", "remove"} :
                       ~Operates(n, u, op)
             PROVE  FALSE
  OBVIOUS
<1>1. ASSUME NEW n \in Nodes, HandleCommand(n) PROVE FALSE
  BY <1>1, CommandOperates DEF Operates
<1>2. ASSUME NEW n \in Nodes, NEW i \in 1 .. MaxPool, NEW u \in Users,
             RunSubmitted(n, i, u)
      PROVE  FALSE
  BY <1>2, SubmittedOperates DEF Operates
<1>3. ~UNCHANGED vars
  BY DEF vars, xrays
<1>4. ASSUME NEW w \in Threads, NEW u \in Users,
             Register(w, u) \/ Login(w, u) \/ Toggle(w, u)
      PROVE  FALSE
  BY <1>4 DEF Register, Login, Toggle, xrays
<1>5. ASSUME NEW w \in Threads,
             ToggleWrite(w) \/ PeriodicSync(w) \/ DumpSessions(w) \/ Done(w)
      PROVE  FALSE
  BY <1>5 DEF ToggleWrite, PeriodicSync, DumpSessions, Done, xrays
<1>6. ASSUME NEW w \in Threads, NEW n \in Nodes,
             Send(w, n) \/ SendFails(w, n) \/ AnswerRequest(w, n)
      PROVE  FALSE
  BY <1>6 DEF Send, SendFails, AnswerRequest, TakeRequest, xrays
<1>7. ASSUME NEW n \in Nodes,
             \/ IgnoreRequest(n) \/ Connect(n) \/ Close(n) \/ Forget(n)
             \/ HandleSync(n) \/ MonitorLoop(n) \/ AgentRestart(n)
             \/ XrayStarts(n)
      PROVE  FALSE
  BY <1>7 DEF IgnoreRequest, TakeRequest, Connect, Close, Forget, HandleSync,
              MonitorLoop, AgentRestart, XrayStarts, xrays
<1>8. ASSUME NEW u \in Users,
             \/ \E value \in BOOLEAN : SetExpired(u, value)
             \/ \E value \in {0, 1} : EditStatus(u, value)
      PROVE  FALSE
  BY <1>8 DEF SetExpired, EditStatus, xrays
<1>9. ~TimerDies /\ ~ServerRestart
  BY DEF TimerDies, ServerRestart, xrays
<1> QED
  BY <1>1, <1>2, <1>3, <1>4, <1>5, <1>6, <1>7, <1>8, <1>9 DEF Next

LEMMA AppliedType ==
    ASSUME TypeOK, NEW n \in Nodes, NEW u \in Users, NEW op
    PROVE  /\ Applied(n, u, op) \subseteq Users
           /\ Applied(n, u, op) \subseteq installed[n] \cup {u}
<1>1. installed[n] \subseteq Users
  BY DEF TypeOK
<1> QED
  BY <1>1 DEF Applied

\* A thread is switching a user if it began to, and has not written yet.
LEMMA ToggleStep ==
    ASSUME TypeOK, [Next]_vars, NEW v \in Threads, pc'[v] = "toggle"
    PROVE  \/ pc[v] = "toggle" /\ subject'[v] = subject[v]
           \/ \E u \in Users : Toggle(v, u)
<1> SUFFICES ASSUME \A u \in Users : ~Toggle(v, u)
             PROVE  pc[v] = "toggle" /\ subject'[v] = subject[v]
  OBVIOUS
<1> DEFINE Goal == pc[v] = "toggle" /\ subject'[v] = subject[v]
<1>a. /\ pc \in [Threads -> {"idle", "toggle", "publish", "reply", "broadcast"}]
      /\ subject \in [Threads -> Users]
  BY DEF TypeOK
<1>1. ASSUME NEW w \in Threads, NEW u \in Users, Register(w, u) \/ Login(w, u)
      PROVE  Goal
  BY <1>1, <1>a DEF Register, Login, Publish
<1>2. ASSUME NEW w \in Threads, NEW u \in Users, Toggle(w, u) PROVE Goal
  BY <1>2, <1>a DEF Toggle
<1>3. ASSUME NEW w \in Threads, ToggleWrite(w) PROVE Goal
  BY <1>3, <1>a DEF ToggleWrite, Publish
<1>4. ASSUME NEW w \in Threads, PeriodicSync(w) \/ Done(w) \/ DumpSessions(w)
      PROVE  Goal
  BY <1>4, <1>a DEF PeriodicSync, Done, DumpSessions
<1>5. ASSUME NEW w \in Threads, NEW n \in Nodes,
             Send(w, n) \/ SendFails(w, n) \/ AnswerRequest(w, n)
      PROVE  Goal
  BY <1>5, <1>a DEF Send, SendFails, AnswerRequest, TakeRequest
<1>6. CASE ServerRestart
  BY <1>6, <1>a DEF ServerRestart
<1>7. ASSUME UNCHANGED <<pc, subject>> PROVE Goal
  BY <1>7
<1>8. CASE UNCHANGED vars
  BY <1>7, <1>8 DEF vars, threads
<1>9. ASSUME NEW n \in Nodes,
             \/ IgnoreRequest(n) \/ Connect(n) \/ Close(n) \/ Forget(n)
             \/ HandleCommand(n) \/ HandleSync(n) \/ MonitorLoop(n)
             \/ \E i \in 1 .. MaxPool, u \in Users : RunSubmitted(n, i, u)
             \/ AgentRestart(n) \/ XrayStops(n) \/ XrayStarts(n)
      PROVE  Goal
  BY <1>7, <1>9 DEF IgnoreRequest, TakeRequest, Connect, Close, Forget,
     HandleCommand, HandleSync, MonitorLoop, RunSubmitted, AgentRestart,
     XrayStops, XrayStarts, threads
<1>10. ASSUME NEW u \in Users,
              \/ \E value \in BOOLEAN : SetExpired(u, value)
              \/ \E value \in {0, 1} : EditStatus(u, value)
       PROVE  Goal
  BY <1>7, <1>10 DEF SetExpired, EditStatus, threads
<1>11. CASE TimerDies
  BY <1>7, <1>11 DEF TimerDies, threads
<1> QED
  BY <1>1, <1>2, <1>3, <1>4, <1>5, <1>6, <1>8, <1>9, <1>10, <1>11 DEF Next

\* Who is installed or being switched has a row, and rows are not deleted.
LEMMA PresentStep ==
    IInv /\ [Next]_vars => PresentInv' /\ installed' \in [Nodes -> SUBSET Users]
<1> SUFFICES ASSUME IInv, [Next]_vars
             PROVE  PresentInv' /\ installed' \in [Nodes -> SUBSET Users]
  OBVIOUS
<1>a. TypeOK /\ PresentInv /\ Remembered
  BY DoubtedStep DEF IInv
<1>b. ASSUME NEW n \in Nodes
      PROVE  installed[n] \subseteq Users /\ \A u \in installed[n] : present'[u]
  BY <1>a DEF TypeOK, PresentInv, Remembered
<1> DEFINE Known == /\ installed' \in [Nodes -> SUBSET Users]
                    /\ \A n \in Nodes : \A u \in installed'[n] : present'[u]
<1>1. ASSUME NEW n \in Nodes, NEW u \in Users, NEW op, Operates(n, u, op)
      PROVE  Known
  <2>1. /\ Applied(n, u, op) \subseteq Users
        /\ \A v \in Applied(n, u, op) : present'[v]
    BY <1>1, <1>a, <1>b, AppliedType DEF Operates, Remembered
  <2>2. installed' = [installed EXCEPT ![n] = Applied(n, u, op)]
    BY <1>1 DEF Operates
  <2> QED
    BY <2>1, <2>2, <1>a, <1>b DEF TypeOK
<1>2. ASSUME NEW n \in Nodes, XrayStops(n) PROVE Known
  BY <1>2, <1>a, <1>b DEF XrayStops, TypeOK
<1>3. ASSUME UNCHANGED installed PROVE Known
  BY <1>3, <1>a, <1>b DEF TypeOK
<1>4. Known
  BY <1>1, <1>2, <1>3, InstalledStep
<1>5. ASSUME NEW v \in Threads, pc'[v] = "toggle" PROVE present'[subject'[v]]
  <2>1. CASE pc[v] = "toggle" /\ subject'[v] = subject[v]
    BY <2>1, <1>a DEF PresentInv, Remembered, TypeOK
  <2>2. ASSUME NEW u \in Users, Toggle(v, u) PROVE present'[subject'[v]]
    BY <2>2, <1>a DEF Toggle, Remembered, TypeOK
  <2>3. \/ pc[v] = "toggle" /\ subject'[v] = subject[v]
        \/ \E u \in Users : Toggle(v, u)
    BY <1>5, <1>a, ToggleStep
  <2> QED
    BY <2>1, <2>2, <2>3
<1> QED
  BY <1>4, <1>5 DEF PresentInv

-----------------------------------------------------------------------------
\* As long as nobody comes, leaves or expires, the list would be the same.
LEMMA SameList ==
    ASSUME UNCHANGED <<present, expired>>
    PROVE  Due' = Due /\ \A u \in Users : SyncOp(u)' = SyncOp(u)
  BY DEF Due, SyncOp

\* What the list says of a user, and who is due.
LEMMA ListIsDue ==
    ASSUME TypeOK, NEW u \in Users
    PROVE  /\ SyncOp(u) = "skip" <=> ~present[u]
           /\ SyncOp(u) = "add" <=> u \in Due
           /\ SyncOp(u) \in {"skip", "add", "remove"}
  BY DEF SyncOp, Due, TypeOK

\* A node for which nothing changes that CleanInv speaks of.
LEMMA CleanStays ==
    ASSUME TypeOK, CleanInv, NEW n \in Nodes, UNCHANGED <<present, expired>>,
           clean[n], xrayUp[n] => xrayUp'[n],
           pool'[n] = pool[n], installed'[n] = installed[n]
    PROVE  CleanNode(n)'
  BY SameList DEF CleanInv, CleanNode, Pending

\* One operation that is the list's own brings one user to where the user
\* should be, and no other user anywhere.
LEMMA AppliedIsRight ==
    ASSUME TypeOK, NEW n \in Nodes, NEW u \in Users, xrayUp[n],
           SyncOp(u) # "skip"
    PROVE  /\ u \in Applied(n, u, SyncOp(u)) <=> u \in Due
           /\ \A v \in Users \ {u} :
                 v \in Applied(n, u, SyncOp(u)) <=> v \in installed[n]
<1>1. SyncOp(u) = "add" \/ SyncOp(u) = "remove"
  BY ListIsDue
<1>2. CASE SyncOp(u) = "add"
  BY <1>2, ListIsDue DEF Applied
<1>3. CASE SyncOp(u) = "remove"
  BY <1>3, ListIsDue DEF Applied
<1> QED
  BY <1>1, <1>2, <1>3

\* A command that says what the list says.
LEMMA CleanCommand ==
    ASSUME IInv, NEW n \in Nodes, HandleCommand(n), clean'[n]
    PROVE  CleanNode(n)'
<1>1. PICK u \in Users :
         /\ Operates(n, u, Head(toAgent[n]).ops[u])
         /\ clean' = [clean EXCEPT ![n] =
                         @ /\ Head(toAgent[n]).ops[u] = SyncOp(u)]
  BY CommandOperates
<1>2. clean[n] /\ Head(toAgent[n]).ops[u] = SyncOp(u)
  <2>1. clean \in [Nodes -> BOOLEAN]
    BY DEF IInv, TypeOK
  <2>2. clean'[n] = (clean[n] /\ Head(toAgent[n]).ops[u] = SyncOp(u))
    BY <1>1, <2>1, Zenon
  <2> QED
    BY <2>2, Zenon
<1>3. TypeOK /\ CleanNode(n)
  BY <1>2 DEF IInv, CleanInv, CleanNode
<1>4. installed'[n] = Applied(n, u, SyncOp(u)) /\ SyncOp(u) # "skip"
  BY <1>1, <1>2, <1>3 DEF Operates, TypeOK
<1>5. UNCHANGED <<present, expired, pool, xrayUp>>
  BY DEF HandleCommand, rows, agents
<1>6. /\ u \in installed'[n] <=> u \in Due
      /\ \A v \in Users \ {u} : v \in installed'[n] <=> v \in installed[n]
  BY <1>3, <1>4, AppliedIsRight DEF CleanNode
<1>7. \A v \in Users : Pending(n, v)' = Pending(n, v)
  BY <1>5 DEF Pending
<1> QED
  BY <1>3, <1>5, <1>6, <1>7, SameList DEF CleanNode

\* The list itself arrives at an idle pool.
LEMMA CleanList ==
    ASSUME IInv, NEW n \in Nodes, HandleSync(n), clean'[n]
    PROVE  CleanNode(n)'
<1> DEFINE ops == Head(toAgent[n]).ops
<1>1. TypeOK /\ PresentInv
  BY DEF IInv
<1>2. clean'[n] = (pool[n] = <<>> /\ xrayUp[n] /\ ops = Snapshot.ops)
  <2>1. clean \in [Nodes -> BOOLEAN]
    BY <1>1 DEF TypeOK
  <2> QED
    BY <2>1, Zenon DEF HandleSync
<1>3. pool[n] = <<>> /\ xrayUp[n] /\ ops = [u \in Users |-> SyncOp(u)]
  <2>1. pool[n] = <<>> /\ xrayUp[n] /\ ops = Snapshot.ops
    BY <1>2, Zenon
  <2> QED
    BY <2>1 DEF Snapshot
<1>4. pool'[n] = IF ops = Nothing THEN <<>> ELSE Append(<<>>, ops)
  BY <1>1, <1>3 DEF HandleSync, TypeOK
<1>5. UNCHANGED <<present, expired, installed, xrayUp>>
  BY DEF HandleSync, rows, xrays
<1>6. ASSUME NEW u \in Users, ~present[u] PROVE u \notin installed[n] /\ u \notin Due
  BY <1>1, <1>6 DEF PresentInv, Due
<1>7. CASE ops = Nothing
  <2>1. pool'[n] = <<>>
    BY <1>4, <1>7
  <2>2. ASSUME NEW u \in Users PROVE ~present[u]
    <3>1. ops[u] = "skip"
      BY <1>7 DEF Nothing, Silence
    <3> QED
      BY <3>1, <1>1, <1>3, ListIsDue
  <2>3. Len(pool'[n]) = 0 /\ \A u \in Users : Pending(n, u)' = "skip"
    BY <2>1 DEF Pending
  <2> QED
    BY <1>3, <1>5, <1>6, <2>2, <2>3, SameList DEF CleanNode
<1>8. CASE ops # Nothing
  <2>1. pool'[n] = <<ops>>
    BY <1>4, <1>8
  <2>2. Len(pool'[n]) = 1 /\ \A u \in Users : Pending(n, u)' = SyncOp(u)
    BY <2>1, <1>3 DEF Pending
  <2> QED
    BY <1>1, <1>3, <1>5, <1>6, <2>2, ListIsDue, SameList DEF CleanNode
<1> QED
  BY <1>7, <1>8

\* One of the operations of the list is done: it is the only batch there is.
LEMMA CleanSubmitted ==
    ASSUME IInv, NEW n \in Nodes, NEW i \in 1 .. MaxPool, NEW u \in Users,
           RunSubmitted(n, i, u), clean'[n]
    PROVE  CleanNode(n)'
<1> DEFINE ops == pool[n][1]
           rest == [ops EXCEPT ![u] = "skip"]
<1>1. TypeOK /\ CleanNode(n)
  BY DEF IInv, CleanInv, RunSubmitted, history
<1>2. pool[n] \in Seq([Users -> Op]) /\ Len(pool[n]) \in Nat
  BY <1>1, LenProperties DEF TypeOK
<1>3. i = 1 /\ Len(pool[n]) = 1 /\ ops[u] # "skip" /\ pool[n] # <<>>
  <2> DEFINE length == Len(pool[n])
  <2>1. i \in 1 .. length /\ length <= 1 /\ length \in Nat
    BY <1>1, <1>2 DEF RunSubmitted, CleanNode
  <2> HIDE DEF length
  <2>2. i = 1 /\ length = 1
    BY <2>1
  <2>3. pool[n] # <<>> /\ pool[n][i][u] # "skip"
    BY <2>2, EmptySeq DEF length, RunSubmitted
  <2> QED
    BY <2>2, <2>3 DEF length
<1>4. ops \in [Users -> Op]
  BY <1>2, <1>3, ElementOfSeq
<1>5. \A v \in Users : Pending(n, v) = ops[v]
  BY <1>3 DEF Pending
<1>6. ops[u] = SyncOp(u)
  BY <1>1, <1>3, <1>5 DEF CleanNode
<1>7. installed'[n] = Applied(n, u, SyncOp(u))
  BY <1>1, <1>3, <1>6 DEF RunSubmitted, TypeOK
<1>8. /\ u \in installed'[n] <=> u \in Due
      /\ \A v \in Users \ {u} : v \in installed'[n] <=> v \in installed[n]
  BY <1>1, <1>3, <1>6, <1>7, AppliedIsRight DEF CleanNode
<1>9. /\ rest[u] = "skip" /\ \A v \in Users \ {u} : rest[v] = ops[v]
      /\ rest \in [Users -> Op]
  BY <1>4 DEF Op
<1> HIDE DEF rest
<1>10. pool'[n] = IF rest = Nothing THEN RemoveAt(pool[n], 1)
                  ELSE ReplaceAt(pool[n], 1, rest)
  BY <1>1, <1>3 DEF RunSubmitted, TypeOK, rest
<1>11. Len(pool'[n]) <= 1 /\ \A v \in Users : Pending(n, v)' = rest[v]
  <2>1. CASE rest = Nothing
    <3>1. RemoveAt(pool[n], 1) = <<>>
      <4>1. SubSeq(pool[n], 1, 0) = <<>> /\ SubSeq(pool[n], 2, 1) = <<>>
        BY SubSeqEmpty
      <4>2. <<>> \in Seq([Users -> Op])
        BY EmptySeq
      <4>3. <<>> \o <<>> = <<>>
        BY <4>2, ConcatEmptySeq
      <4> QED
        BY <1>3, <4>1, <4>3 DEF RemoveAt
    <3>2. pool'[n] = <<>>
      BY <1>10, <2>1, <3>1
    <3> QED
      BY <3>2, <2>1 DEF Pending, Nothing, Silence
  <2>2. CASE rest # Nothing
    <3>1. pool'[n] = [pool[n] EXCEPT ![1] = rest]
      BY <1>10, <2>2 DEF ReplaceAt
    <3>2. /\ pool'[n] \in Seq([Users -> Op]) /\ Len(pool'[n]) = 1
          /\ pool'[n][1] = rest
      BY <1>2, <1>3, <1>9, <3>1, ExceptSeq
    <3>3. pool'[n] # <<>>
      BY <3>2, EmptySeq
    <3> QED
      BY <3>2, <3>3 DEF Pending
  <2> QED
    BY <2>1, <2>2
<1>12. UNCHANGED <<present, expired, xrayUp>>
  BY DEF RunSubmitted, rows
<1> QED
  BY <1>1, <1>5, <1>8, <1>9, <1>11, <1>12, SameList DEF CleanNode

\* An operation, a command or a list at one node leaves the others as they are.
LEMMA OtherNode ==
    ASSUME TypeOK, NEW m \in Nodes, NEW n \in Nodes \ {m},
           \/ HandleCommand(m) \/ HandleSync(m)
           \/ \E i \in 1 .. MaxPool, u \in Users : RunSubmitted(m, i, u)
           \/ AgentRestart(m) \/ XrayStops(m) \/ XrayStarts(m)
    PROVE  /\ UNCHANGED <<present, expired>> /\ clean'[n] = clean[n]
           /\ pool'[n] = pool[n] /\ installed'[n] = installed[n]
           /\ xrayUp'[n] = xrayUp[n]
<1>1. CASE HandleCommand(m)
  BY <1>1 DEF HandleCommand, TypeOK, rows, agents
<1>2. CASE HandleSync(m)
  BY <1>2 DEF HandleSync, TypeOK, rows, xrays
<1>3. ASSUME NEW i \in 1 .. MaxPool, NEW u \in Users, RunSubmitted(m, i, u)
      PROVE  /\ UNCHANGED <<present, expired>> /\ clean'[n] = clean[n]
             /\ pool'[n] = pool[n] /\ installed'[n] = installed[n]
             /\ xrayUp'[n] = xrayUp[n]
  BY <1>3 DEF RunSubmitted, TypeOK, rows, history
<1>4. CASE AgentRestart(m)
  BY <1>4 DEF AgentRestart, TypeOK, rows, xrays
<1>5. CASE XrayStops(m)
  BY <1>5 DEF XrayStops, TypeOK, rows, agents
<1>6. CASE XrayStarts(m)
  BY <1>6 DEF XrayStarts, TypeOK, rows, agents, history
<1> QED
  BY <1>1, <1>2, <1>3, <1>4, <1>5, <1>6

LEMMA CleanStep == IInv /\ [Next]_vars => CleanInv'
<1> SUFFICES ASSUME IInv, [Next]_vars, NEW n \in Nodes, clean'[n]
             PROVE  CleanNode(n)'
  BY DEF CleanInv
<1>a. TypeOK /\ CleanInv
  BY DEF IInv
<1>1. ASSUME NEW m \in Nodes, HandleCommand(m) PROVE CleanNode(n)'
  BY <1>1, <1>a, CleanCommand, OtherNode, CleanStays
<1>2. ASSUME NEW m \in Nodes, HandleSync(m) PROVE CleanNode(n)'
  BY <1>2, <1>a, CleanList, OtherNode, CleanStays
<1>3. ASSUME NEW m \in Nodes, NEW i \in 1 .. MaxPool, NEW u \in Users,
             RunSubmitted(m, i, u)
      PROVE  CleanNode(n)'
  BY <1>3, <1>a, CleanSubmitted, OtherNode, CleanStays
<1>4. ASSUME NEW m \in Nodes, AgentRestart(m) \/ XrayStops(m)
      PROVE  CleanNode(n)'
  <2>1. n # m
    BY <1>4, <1>a DEF AgentRestart, XrayStops, TypeOK
  <2> QED
    BY <1>4, <1>a, <2>1, OtherNode, CleanStays
<1>5. ASSUME NEW m \in Nodes, XrayStarts(m) PROVE CleanNode(n)'
  <2>1. /\ UNCHANGED <<present, expired, clean, pool, installed>>
        /\ xrayUp[n] => xrayUp'[n]
    BY <1>5, <1>a DEF XrayStarts, TypeOK, rows, agents, history
  <2> QED
    BY <1>a, <2>1, CleanStays
<1>6. ASSUME NothingClean PROVE FALSE
  BY <1>6 DEF NothingClean
<1>7. ASSUME UNCHANGED <<present, expired, clean, pool, installed, xrayUp>>
      PROVE  CleanNode(n)'
  BY <1>7, <1>a, CleanStays
<1>8. CASE UNCHANGED vars
  BY <1>7, <1>8 DEF vars, rows, agents, xrays, history
<1>9. ASSUME NEW w \in Threads, NEW u \in Users,
             Register(w, u) \/ Login(w, u) \/ Toggle(w, u)
      PROVE  CleanNode(n)'
  BY <1>6, <1>7, <1>9 DEF Register, Login, Toggle, rows, agents, xrays, history
<1>10. ASSUME NEW w \in Threads,
              ToggleWrite(w) \/ PeriodicSync(w) \/ DumpSessions(w) \/ Done(w)
       PROVE  CleanNode(n)'
  BY <1>7, <1>10 DEF ToggleWrite, PeriodicSync, DumpSessions, Done, rows,
                     agents, xrays, history
<1>11. ASSUME NEW w \in Threads, NEW m \in Nodes,
              Send(w, m) \/ SendFails(w, m) \/ AnswerRequest(w, m)
       PROVE  CleanNode(n)'
  BY <1>7, <1>11 DEF Send, SendFails, AnswerRequest, TakeRequest, rows, agents,
                     xrays, history
<1>12. ASSUME NEW u \in Users,
              \/ \E value \in BOOLEAN : SetExpired(u, value)
              \/ \E value \in {0, 1} : EditStatus(u, value)
       PROVE  CleanNode(n)'
  BY <1>6, <1>7, <1>12 DEF SetExpired, EditStatus, agents, xrays
<1>13. CASE TimerDies \/ ServerRestart
  BY <1>7, <1>13 DEF TimerDies, ServerRestart, rows, agents, xrays, history
<1>14. ASSUME NEW m \in Nodes,
              IgnoreRequest(m) \/ Connect(m) \/ Close(m) \/ Forget(m) \/ MonitorLoop(m)
       PROVE  CleanNode(n)'
  BY <1>7, <1>14 DEF IgnoreRequest, TakeRequest, Connect, Close, Forget,
                     MonitorLoop, rows, agents, xrays, history
<1> QED
  BY <1>1, <1>2, <1>3, <1>4, <1>5, <1>8, <1>9, <1>10, <1>11, <1>12, <1>13,
     <1>14 DEF Next

LEMMA FlagStep ==
    IInv /\ [Next]_vars =>
        clean' \in [Nodes -> BOOLEAN] /\ xrayUp' \in [Nodes -> BOOLEAN]
<1> DEFINE Type == clean \in [Nodes -> BOOLEAN] /\ xrayUp \in [Nodes -> BOOLEAN]
<1> SUFFICES ASSUME IInv, Type, [Next]_vars PROVE Type'
  BY DEF IInv, TypeOK
<1>1. ASSUME NEW n \in Nodes, HandleCommand(n) PROVE Type'
  <2>1. PICK u \in Users :
           clean' = [clean EXCEPT ![n] =
                       @ /\ Head(toAgent[n]).ops[u] = SyncOp(u)]
    BY <1>1, CommandOperates
  <2>2. clean' \in [Nodes -> BOOLEAN]
    BY <2>1
  <2> QED
    BY <1>1, <2>2 DEF HandleCommand
<1>2. ASSUME NEW n \in Nodes, HandleSync(n) PROVE Type'
  BY <1>2 DEF HandleSync, xrays
<1>3. ASSUME NEW n \in Nodes,
             AgentRestart(n) \/ XrayStops(n) \/ XrayStarts(n)
      PROVE  Type'
  BY <1>3 DEF AgentRestart, XrayStops, XrayStarts, xrays, history
<1>4. ASSUME NothingClean, UNCHANGED xrayUp PROVE Type'
  BY <1>4 DEF NothingClean
<1>5. ASSUME UNCHANGED <<clean, xrayUp>> PROVE Type'
  BY <1>5
<1> HIDE DEF Type
<1>6. CASE UNCHANGED vars
  BY <1>5, <1>6 DEF vars, xrays, history
<1> QED
  BY ZenonT(60), <1>1, <1>2, <1>3, <1>4, <1>5, <1>6 DEF Next, Register, Login, Toggle,
     ToggleWrite, SetExpired, EditStatus, PeriodicSync, DumpSessions, Done,
     Send, SendFails, AnswerRequest, IgnoreRequest, TakeRequest, TimerDies,
     ServerRestart, Connect, Close, Forget, RunSubmitted, MonitorLoop, xrays,
     history

\* Every harmless message and operation is one of its type.
CarriedType == /\ message \in [Threads -> Message]
               /\ toAgent \in [Nodes -> Seq(Message)]
               /\ pool \in [Nodes -> Seq([Users -> Op])]

LEMMA HarmlessType == HarmlessInv => CarriedType
<1> SUFFICES ASSUME HarmlessInv PROVE CarriedType
  OBVIOUS
<1>1. HarmlessOps \subseteq [Users -> Op]
  BY DEF HarmlessOps
<1>2. HarmlessMessage \subseteq Message
  BY <1>1 DEF HarmlessMessage, Message
<1>3. \A n \in Nodes : /\ toAgent[n] \in Seq(Message)
                       /\ pool[n] \in Seq([Users -> Op])
  BY <1>1, <1>2, SeqMonotonic DEF HarmlessInv
<1> QED
  BY <1>2, <1>3 DEF HarmlessInv, CarriedType

LEMMA InitIInv == Init => IInv
<1> SUFFICES ASSUME Init PROVE IInv
  OBVIOUS
<1>1. HarmlessInv
  <2>1. <<>> \in Seq(HarmlessMessage) /\ <<>> \in Seq(HarmlessOps)
    BY EmptySeq
  <2> QED
    BY <2>1, SilenceIsHarmless DEF Init, HarmlessInv
<1>2. TypeOK
  <2>1. subject \in [Threads -> Users]
    BY DEF Init
  <2> QED
    BY <1>1, <2>1, HarmlessType DEF Init, TypeOK, CarriedType
<1>3. RowsInv /\ PresentInv /\ CleanInv
  BY DEF Init, RowsInv, PresentInv, CleanInv
<1> QED
  BY <1>1, <1>2, <1>3 DEF IInv

THEOREM Inductive == Spec => []IInv
<1>0. HarmlessInv' => CarriedType'
  BY HarmlessType, PTL
<1>1. ASSUME IInv, [Next]_vars PROVE IInv'
  <2>1. TypeOK
    BY <1>1 DEF IInv
  <2>2. HarmlessInv'
    BY <1>1, MessageStep, QueueStep, PoolStep DEF HarmlessInv
  <2>3. CarriedType'
    BY <1>0, <2>2
  <2>4. TypeOK'
    BY <1>1, <2>1, <2>3, RowsStep, ThreadStep, WireStep, PresentStep, FlagStep
       DEF IInv, TypeOK, CarriedType
  <2> QED
    BY <1>1, <2>1, <2>2, <2>4, RowsStep, PresentStep, CleanStep DEF IInv
<1>2. IInv /\ [Next]_vars => IInv'
  BY <1>1
<1> QED
  BY InitIInv, <1>2, PTL DEF Spec

\* No row, message, batch or installed user is of another shape, for any users,
\* nodes, threads and pool size.
THEOREM TypeCorrect == Spec => []TypeOK
<1>1. IInv => TypeOK
  BY DEF IInv
<1> QED
  BY Inductive, <1>1, PTL

\* However many threads of the executor work on it, in whatever order, a sync
\* that nothing raced with leaves exactly the subscribers on the node.
THEOREM CleanSync == Spec => []CleanSyncIsExact
<1>1. IInv => CleanSyncIsExact
  <2> SUFFICES ASSUME IInv, NEW n \in Nodes, clean[n], pool[n] = <<>>
               PROVE  installed[n] = Due
    BY DEF CleanSyncIsExact
  <2>1. \A u \in Users : u \in installed[n] <=> u \in Due
    BY DEF IInv, CleanInv, CleanNode, Pending
  <2>2. installed[n] \subseteq Users /\ Due \subseteq Users
    BY DEF IInv, TypeOK, Due
  <2> QED
    BY <2>1, <2>2
<1> QED
  BY Inductive, <1>1, PTL

\* Whatever is lost, repeated or late: a user leaves a node only after having
\* expired or been switched off once, or because Xray stops.
THEOREM NeverCutOff == Spec => SubscriberIsNeverCutOff
<1> DEFINE Kept ==
      \A n \in Nodes, u \in Users :
         (u \in installed[n] /\ u \notin installed'[n])
             => u \in doubted \/ ~xrayUp'[n]
<1>1. ASSUME IInv, [Next]_vars PROVE Kept
  <2>a. TypeOK
    BY <1>1 DEF IInv
  <2>1. ASSUME NEW m \in Nodes, NEW v \in Users, NEW op, Operates(m, v, op)
        PROVE  Kept
    <3>1. \A u \in Users : (u \in installed[m] /\ u \notin Applied(m, v, op))
                              => u \in doubted
      BY <2>1 DEF Operates, Applied
    <3> QED
      BY <2>1, <2>a, <3>1 DEF Operates, TypeOK
  <2>2. ASSUME NEW m \in Nodes, XrayStops(m) PROVE Kept
    BY <2>2, <2>a DEF XrayStops, TypeOK
  <2>3. CASE UNCHANGED installed
    BY <2>3
  <2> QED
    BY <1>1, <2>1, <2>2, <2>3, InstalledStep
<1>2. IInv /\ [Next]_vars => [Kept]_vars
  BY <1>1
<1> QED
  BY Inductive, <1>2, PTL DEF Spec, SubscriberIsNeverCutOff
=============================================================================
