----------------------------- MODULE OAuthLogin ------------------------------
(***************************************************************************)
(* Signing in with an account of Google or X: the login page of the        *)
(* Flutter client (login_page.dart) creates a task at the server           *)
(* (OAuthServiceImpl), sends the user to the provider in a browser and     *)
(* polls the task. The provider redirects the browser to a small server    *)
(* inside the client, which passes the code on to the server's callback;   *)
(* the callback registers or finds the user and writes the task's status   *)
(* and token, which the polls read without a lock. A token stands for the  *)
(* account it signs in.                                                    *)
(* A Bug_ definition is a faulty variant of the one below it and is used   *)
(* by no specification.                                                    *)
(***************************************************************************)
EXTENDS Integers

CONSTANTS Clients,   \* devices
          Tasks, Accounts,
          Workers,   \* the server's threads that run callbacks
          MaxPolls,  \* 90 in the client
          MaxCalls,  \* bound: redirects from the provider
          NoClient, NoTask, NoUser

ASSUME OAuthAssumption ==
    /\ MaxPolls \in Nat \ {0} /\ MaxCalls \in Nat
    /\ NoClient \notin Clients /\ NoTask \notin Tasks /\ NoUser \notin Accounts

VARIABLES
    screen,    \* "login", "creating", "waiting", "polling", "loading", "main"
    notice,    \* the toast that ended the last attempt
    task,      \* taskId
    polls,     \* rounds left
    held,      \* state.token
    poll,      \* where the server is with the client's poll
    replyStatus, replyToken,
    owner,     \* whose request created the task
    age,       \* "none", "fresh", "expired" or "removed" from taskStore
    status, token,
    page,      \* what the browser shows of the task's callback
    pc, job,   \* what a callback thread does, and for which redirect
    users,     \* rows of xray_user with a provider: account and device
    authorised, calls

client == <<screen, notice, task, polls, held>>
reply == <<poll, replyStatus, replyToken>>
store == <<owner, age, status, token>>
callback == <<pc, job, page, users, authorised, calls>>
vars == <<client, reply, store, callback>>

Init ==
    /\ screen = [c \in Clients |-> "login"] /\ notice = [c \in Clients |-> "none"]
    /\ task = [c \in Clients |-> NoTask] /\ polls = [c \in Clients |-> 0]
    /\ held = [c \in Clients |-> NoUser]
    /\ poll = [c \in Clients |-> "none"]
    /\ replyStatus = [c \in Clients |-> "none"]
    /\ replyToken = [c \in Clients |-> NoUser]
    /\ owner = [t \in Tasks |-> NoClient] /\ age = [t \in Tasks |-> "none"]
    /\ status = [t \in Tasks |-> "pending"] /\ token = [t \in Tasks |-> NoUser]
    /\ page = [t \in Tasks |-> "none"]
    /\ pc = [w \in Workers |-> "idle"]
    /\ job = [w \in Workers |-> <<NoTask, NoUser>>]
    /\ users = {} /\ authorised = {} /\ calls = 0

-----------------------------------------------------------------------------
\* _oauthLogin. The page takes no input while an attempt runs; the finally
\* block gives it back however the attempt ends.
BackToLogin(c, why) ==
    /\ screen' = [screen EXCEPT ![c] = "login"]
    /\ notice' = [notice EXCEPT ![c] = why]

BeginLogin(c) ==
    /\ screen[c] = "login"
    /\ screen' = [screen EXCEPT ![c] = "creating"]
    /\ notice' = [notice EXCEPT ![c] = "none"]
    /\ task' = [task EXCEPT ![c] = NoTask]
    /\ UNCHANGED <<polls, held, reply, store, callback>>

\* createLoginTask
CreateTask(c, t) ==
    /\ screen[c] = "creating" /\ age[t] = "none"
    /\ owner' = [owner EXCEPT ![t] = c]
    /\ age' = [age EXCEPT ![t] = "fresh"]
    /\ task' = [task EXCEPT ![c] = t]
    /\ polls' = [polls EXCEPT ![c] = MaxPolls]
    /\ screen' = [screen EXCEPT ![c] = "waiting"]
    /\ UNCHANGED <<notice, held, reply, status, token, callback>>

\* Port 3000 is taken, or the request fails.
CreateFails(c) ==
    /\ screen[c] = "creating"
    /\ BackToLogin(c, "error")
    /\ UNCHANGED <<task, polls, held, reply, store, callback>>

Bug_PollsAfter(c) == polls[c]
PollsAfter(c) == polls[c] - 1

AskPoll(c) ==
    /\ screen[c] = "waiting" /\ polls[c] > 0
    /\ polls' = [polls EXCEPT ![c] = PollsAfter(c)]
    /\ screen' = [screen EXCEPT ![c] = "polling"]
    /\ poll' = [poll EXCEPT ![c] = "sent"]
    /\ UNCHANGED <<notice, task, held, replyStatus, replyToken, store, callback>>

TimeUp(c) ==
    /\ screen[c] = "waiting" /\ polls[c] = 0
    /\ BackToLogin(c, "timeout")
    /\ UNCHANGED <<task, polls, held, reply, store, callback>>

PollEnds(c) ==
    /\ poll' = [poll EXCEPT ![c] = "none"]
    /\ replyStatus' = [replyStatus EXCEPT ![c] = "none"]
    /\ replyToken' = [replyToken EXCEPT ![c] = NoUser]

\* No connection, no answer within 30 seconds, or one that is no JSON.
PollFails(c) ==
    /\ screen[c] = "polling"
    /\ BackToLogin(c, "error")
    /\ PollEnds(c)
    /\ UNCHANGED <<task, polls, held, store, callback>>

-----------------------------------------------------------------------------
\* getTaskResult: taskStoreLock covers the lookup, not the two reads.
Answer(c, s) ==
    /\ replyStatus' = [replyStatus EXCEPT ![c] = s]
    /\ replyToken' = [replyToken EXCEPT ![c] = NoUser]
    /\ poll' = [poll EXCEPT ![c] = "answered"]

LookUp(c) ==
    /\ poll[c] = "sent"
    /\ CASE age[task[c]] = "removed" -> Answer(c, "pending")
         [] age[task[c]] = "expired" -> Answer(c, "expired")
         [] OTHER -> /\ poll' = [poll EXCEPT ![c] = "found"]
                     /\ UNCHANGED <<replyStatus, replyToken>>
    /\ UNCHANGED <<client, store, callback>>

ReadStatus(c) ==
    /\ poll[c] = "found"
    /\ replyStatus' = [replyStatus EXCEPT ![c] = status[task[c]]]
    /\ poll' = [poll EXCEPT ![c] = "status"]
    /\ UNCHANGED <<client, replyToken, store, callback>>

ReadToken(c) ==
    /\ poll[c] = "status"
    /\ replyToken' = [replyToken EXCEPT ![c] = token[task[c]]]
    /\ poll' = [poll EXCEPT ![c] = "answered"]
    /\ UNCHANGED <<client, replyStatus, store, callback>>

\* What _oauthLogin makes of the answer; "pending" and "expired" go on.
Receive(c) ==
    /\ poll[c] = "answered"
    /\ PollEnds(c)
    /\ CASE replyStatus[c] = "success" /\ replyToken[c] = NoUser ->
              BackToLogin(c, "missing token") /\ UNCHANGED held
         [] replyStatus[c] = "success" /\ replyToken[c] # NoUser ->
              /\ held' = [held EXCEPT ![c] = replyToken[c]]
              /\ screen' = [screen EXCEPT ![c] = "loading"]
              /\ UNCHANGED notice
         [] replyStatus[c] = "failed" ->
              BackToLogin(c, "failed") /\ UNCHANGED held
         [] OTHER ->
              /\ screen' = [screen EXCEPT ![c] = "waiting"]
              /\ UNCHANGED <<notice, held>>
    /\ UNCHANGED <<task, polls, store, callback>>

\* refreshUserInfo: the main page needs the user's data as well.
LoadUser(c) ==
    /\ screen[c] = "loading"
    /\ \/ screen' = [screen EXCEPT ![c] = "main"] /\ UNCHANGED notice
       \/ BackToLogin(c, "error")
    /\ UNCHANGED <<task, polls, held, reply, store, callback>>

Logout(c) ==
    /\ screen[c] = "main"
    /\ screen' = [screen EXCEPT ![c] = "login"]
    /\ held' = [held EXCEPT ![c] = NoUser]
    /\ UNCHANGED <<notice, task, polls, reply, store, callback>>

-----------------------------------------------------------------------------
\* The redirect for a task: with a code, or with the user's refusal. The
\* client listens for it until its login page is left.
Listening(t) == age[t] # "none" /\ screen[owner[t]] # "main" /\ calls < MaxCalls

Refuse(t) ==
    /\ Listening(t)
    /\ calls' = calls + 1
    /\ page' = [page EXCEPT ![t] = "failure"]
    /\ UNCHANGED <<client, reply, store, pc, job, users, authorised>>

Authorise(w, t, a) ==
    /\ Listening(t) /\ pc[w] = "idle"
    /\ calls' = calls + 1
    /\ authorised' = authorised \cup {<<t, a>>}
    /\ pc' = [pc EXCEPT ![w] = "lookup"]
    /\ job' = [job EXCEPT ![w] = <<t, a>>]
    /\ UNCHANGED <<client, reply, store, page, users>>

\* The browser shows success for every answer of the server, for an error is
\* one too, and failure when the answer is lost.
Finish(w) ==
    /\ pc' = [pc EXCEPT ![w] = "idle"]
    /\ \E shown \in {"success", "failure"} :
           page' = [page EXCEPT ![job[w][1]] = shown]
    /\ job' = [job EXCEPT ![w] = <<NoTask, NoUser>>]
Continue(w, next) ==
    /\ pc' = [pc EXCEPT ![w] = next]
    /\ UNCHANGED <<job, page>>

\* handleCallback. A task that was removed is null, and the code may be
\* refused: neither exception reaches the task.
LookUpTask(w) ==
    /\ pc[w] = "lookup"
    /\ \/ age[job[w][1]] # "removed" /\ Continue(w, "register")
       \/ Finish(w)
    /\ UNCHANGED <<client, reply, store, users, authorised, calls>>

Fail(w) == status' = [status EXCEPT ![job[w][1]] = "failed"] /\ Finish(w)

\* registerThirdPartyUser reads: an account that is known signs in, another
\* is refused if its address or the device is registered.
Known(a) == \E c \in Clients : <<a, c>> \in users
DeviceTaken(c) == \E a \in Accounts : <<a, c>> \in users

Register(w) ==
    LET t == job[w][1]
        a == job[w][2]
    IN  /\ pc[w] = "register"
        /\ IF Known(a)
             THEN Continue(w, "login") /\ UNCHANGED status
             ELSE \/ ~DeviceTaken(owner[t]) /\ Continue(w, "insert")
                     /\ UNCHANGED status
                  \/ Fail(w)
        /\ UNCHANGED <<client, reply, owner, age, token, users, authorised, calls>>

Bug_Rows(t, a) == {}
Rows(t, a) == {<<a, owner[t]>>}

InsertUser(w) ==
    /\ pc[w] = "insert"
    /\ \/ /\ users' = users \cup Rows(job[w][1], job[w][2])
          /\ Continue(w, "login")
          /\ UNCHANGED status
       \/ Fail(w) /\ UNCHANGED users
    /\ UNCHANGED <<client, reply, owner, age, token, authorised, calls>>

\* login makes a session. An exception of the database is a RuntimeException
\* and fails the task; another leaves it pending.
Login(w) ==
    /\ pc[w] = "login"
    /\ \/ Continue(w, "status") /\ UNCHANGED status
       \/ Fail(w)
       \/ Finish(w) /\ UNCHANGED status
    /\ UNCHANGED <<client, reply, owner, age, token, users, authorised, calls>>

SetStatus(w) ==
    /\ pc[w] = "status"
    /\ status' = [status EXCEPT ![job[w][1]] = "success"]
    /\ Continue(w, "token")
    /\ UNCHANGED <<client, reply, owner, age, token, users, authorised, calls>>

SetToken(w) ==
    /\ pc[w] = "token"
    /\ token' = [token EXCEPT ![job[w][1]] = job[w][2]]
    /\ Finish(w)
    /\ UNCHANGED <<client, reply, owner, age, status, users, authorised, calls>>

-----------------------------------------------------------------------------
\* A task is expired after five minutes; the minutely cleanup removes it.
Expire(t) ==
    /\ age[t] = "fresh"
    /\ age' = [age EXCEPT ![t] = "expired"]
    /\ UNCHANGED <<client, reply, owner, status, token, callback>>

CleanupExpiredTasks ==
    /\ \E t \in Tasks : age[t] = "expired"
    /\ age' = [t \in Tasks |-> IF age[t] = "expired" THEN "removed" ELSE age[t]]
    /\ UNCHANGED <<client, reply, owner, status, token, callback>>

-----------------------------------------------------------------------------
Attempt(c) ==
    \/ CreateFails(c) \/ AskPoll(c) \/ TimeUp(c) \/ PollFails(c)
    \/ LookUp(c) \/ ReadStatus(c) \/ ReadToken(c) \/ Receive(c) \/ LoadUser(c)
    \/ \E t \in Tasks : CreateTask(c, t)
Callback(w) ==
    \/ LookUpTask(w) \/ Register(w) \/ InsertUser(w) \/ Login(w)
    \/ SetStatus(w) \/ SetToken(w)
User ==
    \/ \E c \in Clients : BeginLogin(c) \/ Logout(c)
    \/ \E t \in Tasks : Refuse(t)
    \/ \E w \in Workers, t \in Tasks, a \in Accounts : Authorise(w, t, a)

Next ==
    \/ User
    \/ \E c \in Clients : Attempt(c)
    \/ \E w \in Workers : Callback(w)
    \/ \E t \in Tasks : Expire(t)
    \/ CleanupExpiredTasks

Spec == Init /\ [][Next]_vars

\* The client's timers and timeouts, and the server's threads, go on.
FairSpec ==
    /\ Spec
    /\ \A c \in Clients : WF_vars(Attempt(c))
    /\ \A w \in Workers : WF_vars(Callback(w))
=============================================================================
