------------------------ MODULE OAuthLoginProperties -------------------------
(***************************************************************************)
(* What signing in with a provider's account promises.                     *)
(***************************************************************************)
EXTENDS OAuthLogin

\* A device is signed in only as an account that is registered and that
\* authorised the very task the device asked for, whatever else callbacks,
\* polls, earlier attempts and other devices do in between.
OnlyTheAuthorisedEnters ==
    \A c \in Clients : screen[c] \in {"loading", "main"} =>
        Known(held[c]) /\ <<task[c], held[c]>> \in authorised

\* However an attempt goes - never authorised, expired, removed, failed, lost
\* answers - the client comes back to a login page that can be used, or to
\* the main page (ERR-005, integration_test_cases.md).
PageComesBack ==
    \A c \in Clients :
        screen[c] \notin {"login", "main"} ~> screen[c] \in {"login", "main"}

\* When the callback page shows success, the client that polls is not turned
\* away for want of a token ("the callback page shows success, Flutter enters
\* the main page after polling", OAU-002, integration_test_cases.md).
SuccessHasToken ==
    \A c \in Clients :
        task[c] # NoTask /\ page[task[c]] = "success"
            => notice[c] # "missing token"

-----------------------------------------------------------------------------
(* The inductive invariant behind OnlyTheAuthorisedEnters: a token follows  *)
(* the authorisation of its own task from the callback's thread through the *)
(* task and the answer to a poll into the client.                           *)
Good(t, a) == Known(a) /\ <<t, a>> \in authorised

Shape ==
    /\ screen \in [Clients -> {"login", "creating", "waiting", "polling",
                               "loading", "main"}]
    /\ task \in [Clients -> Tasks \cup {NoTask}]
    /\ held \in [Clients -> Accounts \cup {NoUser}]
    /\ poll \in [Clients -> {"none", "sent", "found", "status", "answered"}]
    /\ replyStatus \in [Clients ->
                          {"none", "pending", "success", "failed", "expired"}]
    /\ replyToken \in [Clients -> Accounts \cup {NoUser}]
    /\ owner \in [Tasks -> Clients \cup {NoClient}]
    /\ age \in [Tasks -> {"none", "fresh", "expired", "removed"}]
    /\ status \in [Tasks -> {"pending", "success", "failed"}]
    /\ token \in [Tasks -> Accounts \cup {NoUser}]
    /\ pc \in [Workers -> {"idle", "lookup", "register", "insert", "login",
                           "status", "token"}]
    /\ job \in [Workers -> (Tasks \cup {NoTask}) \X (Accounts \cup {NoUser})]

\* Only a task that was created is waited for, redirected to and worked on.
TaskInv ==
    /\ \A t \in Tasks : age[t] # "none" => owner[t] \in Clients
    /\ \A c \in Clients :
           screen[c] \in {"waiting", "polling"} => task[c] \in Tasks
    /\ \A w \in Workers : pc[w] # "idle" =>
           job[w][1] \in Tasks /\ age[job[w][1]] # "none"

CallbackInv ==
    \A w \in Workers : pc[w] # "idle" =>
        /\ job[w] = <<job[w][1], job[w][2]>> /\ job[w] \in authorised
        /\ job[w][2] \in Accounts
        /\ pc[w] \in {"login", "status", "token"} => Known(job[w][2])

TokenInv == \A t \in Tasks : token[t] # NoUser => Good(t, token[t])

\* A poll is under way only while the page waits for it, and its token is one
\* of the task the page knows.
PollInv ==
    \A c \in Clients :
        /\ poll[c] # "none" => screen[c] = "polling"
        /\ replyToken[c] # NoUser => poll[c] = "answered" /\ Good(task[c], replyToken[c])

IInv == Shape /\ TaskInv /\ CallbackInv /\ TokenInv /\ PollInv
        /\ OnlyTheAuthorisedEnters
=============================================================================
