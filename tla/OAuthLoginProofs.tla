--------------------------- MODULE OAuthLoginProofs --------------------------
(***************************************************************************)
(* A client enters only as an account that authorised its task: the token  *)
(* is followed from the provider's redirect through the callback's thread, *)
(* the task, and the answer to a poll into the client.                     *)
(***************************************************************************)
EXTENDS OAuthLoginProperties, TLAPS

-----------------------------------------------------------------------------
(* Accounts stay registered and authorisations stay given.                 *)

LEMMA Grows ==
    ASSUME Next
    PROVE  users \subseteq users' /\ authorised \subseteq authorised'
<1>1. CASE User
  BY <1>1 DEF User, BeginLogin, Logout, Refuse, Authorise, client, reply, store, callback
<1>2. CASE \E c \in Clients : Attempt(c)
  BY <1>2 DEF Attempt, CreateFails, AskPoll, TimeUp, PollFails, LookUp,
     ReadStatus, ReadToken, Receive, LoadUser, CreateTask, callback
<1>3. CASE \E w \in Workers : Callback(w)
  BY <1>3 DEF Callback, LookUpTask, Register, InsertUser, Login, SetStatus, SetToken
<1>4. CASE (\E t \in Tasks : Expire(t)) \/ CleanupExpiredTasks
  BY <1>4 DEF Expire, CleanupExpiredTasks, callback
<1> QED
  BY <1>1, <1>2, <1>3, <1>4 DEF Next

LEMMA GoodStays ==
    ASSUME Next, NEW t, NEW a
    PROVE  /\ Known(a) => Known(a)'
           /\ Good(t, a) => Good(t, a)'
  BY Grows DEF Good, Known

\* An answer ends the poll; the page enters with the answer's token, waits
\* again or is a login page.
LEMMA Receives ==
    ASSUME NEW c \in Clients, Receive(c)
    PROVE  /\ poll' = [poll EXCEPT ![c] = "none"]
           /\ replyStatus' = [replyStatus EXCEPT ![c] = "none"]
           /\ replyToken' = [replyToken EXCEPT ![c] = NoUser]
           /\ UNCHANGED <<task, store, callback>>
           /\ \/ /\ screen' = [screen EXCEPT ![c] = "loading"]
                 /\ held' = [held EXCEPT ![c] = replyToken[c]]
                 /\ replyToken[c] # NoUser
              \/ /\ \E s \in {"login", "waiting"} : screen' = [screen EXCEPT ![c] = s]
                 /\ held' = held
<1>1. PollEnds(c) /\ UNCHANGED <<task, store, callback>>
  BY DEF Receive
<1>2. CASE replyStatus[c] = "success" /\ replyToken[c] # NoUser
  BY <1>2, <1>1 DEF Receive, PollEnds
<1>3. CASE replyStatus[c] = "success" /\ replyToken[c] = NoUser
  BY <1>3, <1>1 DEF Receive, PollEnds, BackToLogin
<1>4. CASE replyStatus[c] # "success"
  <2>1. CASE replyStatus[c] = "failed"
    BY <1>1, <2>1 DEF Receive, PollEnds, BackToLogin
  <2>2. CASE replyStatus[c] # "failed"
    BY <1>1, <1>4, <2>2 DEF Receive, PollEnds
  <2> QED
    BY <2>1, <2>2
<1> QED
  BY <1>2, <1>3, <1>4

\* A step of the callback's thread moves it on or ends its work.
LEMMA CallbackMoves ==
    ASSUME NEW w \in Workers, Callback(w)
    PROVE  /\ UNCHANGED <<client, reply, owner, age, authorised, calls>>
           /\ pc[w] # "idle"
           /\ \/ /\ \E next \in {"register", "insert", "login", "status", "token"} :
                        pc' = [pc EXCEPT ![w] = next]
                 /\ job' = job
              \/ /\ pc' = [pc EXCEPT ![w] = "idle"]
                 /\ job' = [job EXCEPT ![w] = <<NoTask, NoUser>>]
           /\ \/ status' = status
              \/ \E s \in {"success", "failed"} : status' = [status EXCEPT ![job[w][1]] = s]
           /\ \/ token' = token
              \/ /\ pc[w] = "token"
                 /\ token' = [token EXCEPT ![job[w][1]] = job[w][2]]
<1> USE DEF client, reply, Continue, Finish
<1>1. CASE LookUpTask(w)
  BY <1>1 DEF LookUpTask, store
<1>2. CASE Register(w)
  BY <1>2 DEF Register, Fail
<1>3. CASE InsertUser(w)
  BY <1>3 DEF InsertUser, Fail
<1>4. CASE Login(w)
  BY <1>4 DEF Login, Fail
<1>5. CASE SetStatus(w)
  BY <1>5 DEF SetStatus
<1>6. CASE SetToken(w)
  BY <1>6 DEF SetToken
<1> QED
  BY <1>1, <1>2, <1>3, <1>4, <1>5, <1>6 DEF Callback

-----------------------------------------------------------------------------
(* Each part of the invariant.                                             *)

LEMMA InitIInv == Init => IInv
<1> SUFFICES ASSUME Init PROVE IInv
  OBVIOUS
<1>1. Shape
  BY DEF Init, Shape
<1>2. TaskInv /\ CallbackInv /\ TokenInv /\ PollInv /\ OnlyTheAuthorisedEnters
  BY DEF Init, TaskInv, CallbackInv, TokenInv, PollInv, OnlyTheAuthorisedEnters
<1> QED
  BY <1>1, <1>2 DEF IInv

LEMMA ShapeStep == ASSUME IInv, Next PROVE Shape'
<1> USE DEF client, reply, store, callback
<1>0. Shape /\ TaskInv /\ CallbackInv
  BY DEF IInv
<1>1. CASE User
  <2>1. CASE \E c \in Clients : BeginLogin(c) \/ Logout(c)
    BY <1>0, <2>1 DEF Shape, BeginLogin, Logout
  <2>2. CASE \E t \in Tasks : Refuse(t)
    BY <1>0, <2>2 DEF Shape, Refuse
  <2>3. CASE \E w \in Workers, t \in Tasks, a \in Accounts : Authorise(w, t, a)
    BY <1>0, <2>3 DEF Shape, Authorise
  <2> QED
    BY <1>1, <2>1, <2>2, <2>3 DEF User
<1>2. CASE \E c \in Clients : Attempt(c)
  <2> PICK c \in Clients : Attempt(c)
    BY <1>2
  <2>1. CASE CreateFails(c) \/ TimeUp(c) \/ PollFails(c) \/ LoadUser(c)
    BY <1>0, <2>1 DEF Shape, CreateFails, TimeUp, PollFails, LoadUser, BackToLogin, PollEnds
  <2>2. CASE AskPoll(c)
    BY <1>0, <2>2 DEF Shape, AskPoll
  <2>3. CASE LookUp(c)
    BY <1>0, <2>3 DEF Shape, LookUp, Answer
  <2>4. CASE ReadStatus(c) \/ ReadToken(c)
    <3>1. poll[c] # "none" => task[c] \in Tasks
      BY DEF IInv, PollInv, TaskInv
    <3> QED
      BY <1>0, <2>4, <3>1 DEF Shape, ReadStatus, ReadToken
  <2>5. CASE Receive(c)
    <3>1. replyToken[c] \in Accounts \cup {NoUser}
      BY <1>0 DEF Shape
    <3>2. /\ screen' \in [Clients -> {"login", "creating", "waiting", "polling",
                                     "loading", "main"}]
      <4>1. \E s \in {"login", "waiting", "loading"} : screen' = [screen EXCEPT ![c] = s]
        BY <2>5, Receives
      <4> QED
        BY <1>0, <4>1 DEF Shape
    <3>5. held' \in [Clients -> Accounts \cup {NoUser}]
      <4>1. held' \in {held, [held EXCEPT ![c] = replyToken[c]]}
        BY <2>5, Receives
      <4> QED
        BY <1>0, <3>1, <4>1 DEF Shape
    <3>3. UNCHANGED <<task, store, callback>>
      BY <2>5, Receives
    <3>4. /\ poll' = [poll EXCEPT ![c] = "none"]
          /\ replyStatus' = [replyStatus EXCEPT ![c] = "none"]
          /\ replyToken' = [replyToken EXCEPT ![c] = NoUser]
      BY <2>5, Receives
    <3> QED
      BY <1>0, <3>2, <3>3, <3>4, <3>5 DEF Shape
  <2>6. CASE \E t \in Tasks : CreateTask(c, t)
    BY <1>0, <2>6 DEF Shape, CreateTask
  <2> QED
    BY <2>1, <2>2, <2>3, <2>4, <2>5, <2>6 DEF Attempt
<1>3. CASE \E w \in Workers : Callback(w)
  <2> PICK w \in Workers : Callback(w)
    BY <1>3
  <2>1. pc' \in [Workers -> {"idle", "lookup", "register", "insert", "login",
                            "status", "token"}]
    <3>1. \E next \in {"idle", "register", "insert", "login", "status", "token"} :
              pc' = [pc EXCEPT ![w] = next]
      BY CallbackMoves
    <3> QED
      BY <1>0, <3>1 DEF Shape
  <2>2. job' \in [Workers -> (Tasks \cup {NoTask}) \X (Accounts \cup {NoUser})]
    BY <1>0, CallbackMoves DEF Shape
  <2>3. status' \in [Tasks -> {"pending", "success", "failed"}]
    BY <1>0, CallbackMoves DEF Shape
  <2>4. token' \in [Tasks -> Accounts \cup {NoUser}]
    <3>1. job[w][2] \in Accounts \cup {NoUser}
      BY <1>0 DEF Shape
    <3> QED
      BY <1>0, <3>1, CallbackMoves DEF Shape
  <2> QED
    BY <1>0, <2>1, <2>2, <2>3, <2>4, CallbackMoves DEF Shape
<1>4. CASE (\E t \in Tasks : Expire(t)) \/ CleanupExpiredTasks
  BY <1>0, <1>4 DEF Shape, Expire, CleanupExpiredTasks
<1> QED
  BY <1>1, <1>2, <1>3, <1>4 DEF Next

LEMMA TaskStep == ASSUME IInv, Next PROVE TaskInv'
<1> USE DEF client, reply, store, callback
<1>0. Shape /\ TaskInv
  BY DEF IInv
<1>1. CASE User
  <2>1. CASE \E c \in Clients : BeginLogin(c) \/ Logout(c)
    BY <1>0, <2>1 DEF Shape, TaskInv, BeginLogin, Logout
  <2>2. CASE \E t \in Tasks : Refuse(t)
    BY <1>0, <2>2 DEF TaskInv, Refuse
  <2>3. CASE \E w \in Workers, t \in Tasks, a \in Accounts : Authorise(w, t, a)
    BY <1>0, <2>3 DEF Shape, TaskInv, Authorise, Listening
  <2> QED
    BY <1>1, <2>1, <2>2, <2>3 DEF User
<1>2. CASE \E c \in Clients : Attempt(c)
  <2> PICK c \in Clients : Attempt(c)
    BY <1>2
  <2>1. CASE CreateFails(c) \/ TimeUp(c) \/ PollFails(c) \/ LoadUser(c)
    BY <1>0, <2>1 DEF Shape, TaskInv, CreateFails, TimeUp, PollFails, LoadUser, BackToLogin
  <2>2. CASE AskPoll(c)
    BY <1>0, <2>2 DEF Shape, TaskInv, AskPoll
  <2>3. CASE LookUp(c) \/ ReadStatus(c) \/ ReadToken(c)
    BY <1>0, <2>3 DEF Shape, TaskInv, LookUp, ReadStatus, ReadToken
  <2>4. CASE Receive(c)
    <3>1. screen[c] = "polling"
      BY <2>4 DEF IInv, PollInv, Receive
    <3> QED
      BY <1>0, <2>4, <3>1, Receives DEF Shape, TaskInv
  <2>5. CASE \E t \in Tasks : CreateTask(c, t)
    BY <1>0, <2>5 DEF Shape, TaskInv, CreateTask
  <2> QED
    BY <2>1, <2>2, <2>3, <2>4, <2>5 DEF Attempt
<1>3. CASE \E w \in Workers : Callback(w)
  BY <1>0, <1>3, CallbackMoves DEF Shape, TaskInv
<1>4. CASE (\E t \in Tasks : Expire(t)) \/ CleanupExpiredTasks
  BY <1>0, <1>4 DEF Shape, TaskInv, Expire, CleanupExpiredTasks
<1> QED
  BY <1>1, <1>2, <1>3, <1>4 DEF Next

\* A callback works for an account that authorised its task, and goes on to
\* sign it in once it has a row.
LEMMA CallbackStep == ASSUME IInv, Next PROVE CallbackInv'
<1> USE DEF client, reply, store, callback
<1>0. Shape /\ TaskInv /\ CallbackInv /\ authorised \subseteq authorised'
  BY Grows DEF IInv
<1>1. \A a : Known(a) => Known(a)'
  BY GoodStays
<1>2. CASE UNCHANGED <<pc, job>>
  BY <1>0, <1>1, <1>2 DEF CallbackInv
<1>3. CASE \E w \in Workers, t \in Tasks, a \in Accounts : Authorise(w, t, a)
  BY <1>0, <1>1, <1>3 DEF Shape, CallbackInv, Authorise
<1>4. CASE \E w \in Workers : Callback(w)
  <2> PICK w \in Workers : Callback(w)
    BY <1>4
  <2>1. CASE LookUpTask(w)
    BY <1>0, <1>1, <2>1 DEF Shape, CallbackInv, LookUpTask, Continue, Finish
  <2>2. CASE Register(w)
    BY <1>0, <1>1, <2>2 DEF Shape, CallbackInv, Register, Continue, Finish, Fail
  <2>3. CASE InsertUser(w)
    <3>1. owner[job[w][1]] \in Clients
      BY <1>0, <2>3 DEF TaskInv, InsertUser
    <3>2. users' = users \cup Rows(job[w][1], job[w][2])
             => \A a : a = job[w][2] => Known(a)'
      BY <3>1 DEF Rows, Known
    <3> QED
      BY <1>0, <1>1, <2>3, <3>2 DEF Shape, CallbackInv, InsertUser, Continue, Finish, Fail
  <2>4. CASE Login(w)
    BY <1>0, <1>1, <2>4 DEF Shape, CallbackInv, Login, Continue, Finish, Fail
  <2>5. CASE SetStatus(w)
    BY <1>0, <1>1, <2>5 DEF Shape, CallbackInv, SetStatus, Continue
  <2>6. CASE SetToken(w)
    BY <1>0, <1>1, <2>6 DEF Shape, CallbackInv, SetToken, Finish
  <2> QED
    BY <2>1, <2>2, <2>3, <2>4, <2>5, <2>6 DEF Callback
<1>5. CASE (\E c \in Clients : BeginLogin(c) \/ Logout(c) \/ Attempt(c))
           \/ (\E t \in Tasks : Refuse(t) \/ Expire(t)) \/ CleanupExpiredTasks
  <2>1. UNCHANGED <<pc, job>>
    BY <1>5 DEF BeginLogin, Logout, Refuse, Expire, CleanupExpiredTasks, Attempt,
       CreateFails, AskPoll, TimeUp, PollFails, LookUp, ReadStatus, ReadToken,
       Receive, LoadUser, CreateTask
  <2> QED
    BY <1>2, <2>1
<1> QED
  BY <1>3, <1>4, <1>5 DEF Next, User

\* A task is given the token of the callback that worked for it.
LEMMA TokenStep == ASSUME IInv, Next PROVE TokenInv'
<1> USE DEF client, reply, store, callback
<1>0. Shape /\ TokenInv /\ CallbackInv /\ \A t, a : Good(t, a) => Good(t, a)'
  BY GoodStays DEF IInv
<1>1. CASE \E w \in Workers : SetToken(w)
  <2> PICK w \in Workers : SetToken(w)
    BY <1>1
  <2>1. Good(job[w][1], job[w][2])
    BY <1>0 DEF SetToken, CallbackInv, Good
  <2> QED
    BY <1>0, <2>1 DEF Shape, SetToken, TokenInv
<1>2. CASE UNCHANGED token
  BY <1>0, <1>2 DEF TokenInv
<1>3. token' = token \/ \E w \in Workers : SetToken(w)
  BY DEF Next, User, Callback, BeginLogin, Logout, Refuse, Authorise, Expire,
     CleanupExpiredTasks, Attempt, CreateFails, AskPoll, TimeUp, PollFails,
     LookUp, ReadStatus, ReadToken, Receive, LoadUser, CreateTask, LookUpTask,
     Register, InsertUser, Login, SetStatus
<1> QED
  BY <1>1, <1>2, <1>3

\* What an answer says is of the task the page still waits for.
LEMMA PollStep == ASSUME IInv, Next PROVE PollInv'
<1> USE DEF client, reply, store, callback
<1>0. /\ Shape /\ TaskInv /\ TokenInv /\ PollInv
      /\ \A t, a : Good(t, a) => Good(t, a)'
  BY GoodStays DEF IInv
<1>1. CASE UNCHANGED <<screen, task, reply>>
  BY <1>0, <1>1 DEF PollInv
<1>2. CASE \E c \in Clients : BeginLogin(c) \/ Logout(c)
  BY <1>0, <1>2 DEF Shape, PollInv, BeginLogin, Logout
<1>3. CASE \E c \in Clients : Attempt(c)
  <2> PICK c \in Clients : Attempt(c)
    BY <1>3
  <2>1. CASE CreateFails(c) \/ TimeUp(c) \/ LoadUser(c)
    BY <1>0, <2>1 DEF Shape, PollInv, CreateFails, TimeUp, LoadUser, BackToLogin
  <2>2. CASE AskPoll(c)
    BY <1>0, <2>2 DEF Shape, PollInv, AskPoll
  <2>3. CASE PollFails(c)
    BY <1>0, <2>3 DEF Shape, PollInv, PollFails, BackToLogin, PollEnds
  <2>4. CASE LookUp(c)
    BY <1>0, <2>4 DEF Shape, PollInv, LookUp, Answer
  <2>5. CASE ReadStatus(c)
    BY <1>0, <2>5 DEF Shape, PollInv, ReadStatus
  <2>6. CASE ReadToken(c)
    <3>1. task[c] \in Tasks
      BY <1>0, <2>6 DEF PollInv, TaskInv, ReadToken
    <3>2. token[task[c]] # NoUser => Good(task[c], token[task[c]])
      BY <1>0, <3>1 DEF TokenInv
    <3> QED
      BY <1>0, <2>6, <3>2 DEF Shape, PollInv, ReadToken
  <2>7. CASE Receive(c)
    <3>1. /\ poll' = [poll EXCEPT ![c] = "none"] /\ task' = task
          /\ replyToken' = [replyToken EXCEPT ![c] = NoUser]
      BY <2>7 DEF Receive, PollEnds
    <3>2. \A d \in Clients : d # c => screen'[d] = screen[d]
      BY <1>0, <2>7 DEF Shape, Receive, BackToLogin
    <3> QED
      BY <1>0, <3>1, <3>2 DEF Shape, PollInv
  <2>8. CASE \E t \in Tasks : CreateTask(c, t)
    BY <1>0, <2>8 DEF Shape, PollInv, CreateTask
  <2> QED
    BY <2>1, <2>2, <2>3, <2>4, <2>5, <2>6, <2>7, <2>8 DEF Attempt
<1>4. CASE (\E w \in Workers : Callback(w)) \/ CleanupExpiredTasks
           \/ (\E t \in Tasks : Refuse(t) \/ Expire(t))
           \/ (\E w \in Workers, t \in Tasks, a \in Accounts : Authorise(w, t, a))
  <2>1. UNCHANGED <<screen, task, reply>>
    BY <1>4 DEF Callback, Refuse, Authorise, Expire, CleanupExpiredTasks,
       LookUpTask, Register, InsertUser, Login, SetStatus, SetToken
  <2> QED
    BY <1>1, <2>1
<1> QED
  BY <1>2, <1>3, <1>4 DEF Next, User

LEMMA EnterStep == ASSUME IInv, Next PROVE OnlyTheAuthorisedEnters'
<1> USE DEF client, reply, store, callback
<1> DEFINE Enters(c) == screen[c] \in {"loading", "main"} => Good(task[c], held[c])
<1>0. /\ Shape /\ PollInv /\ \A t, a : Good(t, a) => Good(t, a)'
      /\ \A c \in Clients : Enters(c)
  BY GoodStays DEF IInv, OnlyTheAuthorisedEnters, Good
<1>1. CASE UNCHANGED <<screen, task, held>>
  BY <1>0, <1>1 DEF OnlyTheAuthorisedEnters, Good
<1>2. CASE \E c \in Clients : BeginLogin(c) \/ Logout(c)
  BY <1>0, <1>2 DEF Shape, OnlyTheAuthorisedEnters, Good, BeginLogin, Logout
<1>3. CASE \E c \in Clients : Attempt(c)
  <2> PICK c \in Clients : Attempt(c)
    BY <1>3
  <2>1. CASE CreateFails(c) \/ TimeUp(c) \/ PollFails(c) \/ AskPoll(c)
    BY <1>0, <2>1 DEF Shape, OnlyTheAuthorisedEnters, Good, CreateFails, TimeUp,
       PollFails, AskPoll, BackToLogin
  <2>2. CASE LookUp(c) \/ ReadStatus(c) \/ ReadToken(c)
    BY <1>0, <1>1, <2>2 DEF LookUp, ReadStatus, ReadToken
  <2>3. CASE Receive(c)
    <3>1. replyToken[c] # NoUser => Good(task[c], replyToken[c])
      BY <1>0 DEF PollInv
    <3>2. /\ \A d \in Clients : d # c => screen'[d] = screen[d] /\ held'[d] = held[d]
          /\ screen'[c] = "loading" => held'[c] = replyToken[c] /\ replyToken[c] # NoUser
          /\ screen'[c] # "main" /\ task' = task
      BY <1>0, <2>3, Receives DEF Shape
    <3>3. ASSUME NEW d \in Clients PROVE Enters(d)'
      BY <1>0, <3>1, <3>2
    <3> QED
      BY <3>3 DEF OnlyTheAuthorisedEnters, Good
  <2>4. CASE LoadUser(c)
    BY <1>0, <2>4 DEF Shape, OnlyTheAuthorisedEnters, Good, LoadUser, BackToLogin
  <2>5. CASE \E t \in Tasks : CreateTask(c, t)
    BY <1>0, <2>5 DEF Shape, OnlyTheAuthorisedEnters, Good, CreateTask
  <2> QED
    BY <2>1, <2>2, <2>3, <2>4, <2>5 DEF Attempt
<1>4. CASE (\E w \in Workers : Callback(w)) \/ CleanupExpiredTasks
           \/ (\E t \in Tasks : Refuse(t) \/ Expire(t))
           \/ (\E w \in Workers, t \in Tasks, a \in Accounts : Authorise(w, t, a))
  <2>1. UNCHANGED <<screen, task, held>>
    BY <1>4 DEF Callback, Refuse, Authorise, Expire, CleanupExpiredTasks,
       LookUpTask, Register, InsertUser, Login, SetStatus, SetToken
  <2> QED
    BY <1>1, <2>1
<1> QED
  BY <1>2, <1>3, <1>4 DEF Next, User

-----------------------------------------------------------------------------
LEMMA InductiveStep == IInv /\ [Next]_vars => IInv'
<1> SUFFICES ASSUME IInv, [Next]_vars PROVE IInv'
  OBVIOUS
<1>1. CASE Next
  BY <1>1, ShapeStep, TaskStep, CallbackStep, TokenStep, PollStep, EnterStep DEF IInv
<1>2. CASE UNCHANGED vars
  BY <1>2 DEF vars, client, reply, store, callback, IInv, Shape, TaskInv,
     CallbackInv, TokenInv, PollInv, OnlyTheAuthorisedEnters, Good, Known
<1> QED
  BY <1>1, <1>2

\* The invariant that the theorem below rests on holds in every behaviour.
THEOREM Inductive == Spec => []IInv
  BY InitIInv, InductiveStep, PTL DEF Spec

\* Whatever redirects, threads, polls, expirations and abandoned attempts do
\* to each other, a device is signed in only as an account that is registered
\* and authorised the task of that device's own attempt (_oauthLogin with
\* handleCallback and getTaskResult).
THEOREM NobodyElseEnters == Spec => []OnlyTheAuthorisedEnters
<1>1. IInv => OnlyTheAuthorisedEnters
  BY DEF IInv
<1> QED
  BY <1>1, Inductive, PTL
=============================================================================
