----------------------------- MODULE TunClient ------------------------------
(***************************************************************************)
(* One TCP connection of an app through tun2socks: struct tcp_client of    *)
(* tun2socks.c between the lwIP pcb that ends the app's connection and the *)
(* BSocksClient that carries it to the proxy. One thread runs an event     *)
(* loop; between two events the pending jobs run, last set first, until    *)
(* none is left. A callback of lwIP runs the jobs it sets before it        *)
(* returns (SYNC_COMMIT), and lwIP makes up to three callbacks for one     *)
(* segment. Bytes are numbered, 1, 2, ... in each direction.               *)
(* A Bug_ definition is a faulty variant of the one below it and is used   *)
(* by no specification.                                                    *)
(***************************************************************************)
EXTENDS Integers, Sequences

CONSTANTS Wnd,      \* TCP_WND: lwIP's receive window and sizeof buf
          RecvBuf,  \* CLIENT_SOCKS_RECV_BUF_SIZE
          SndBuf,   \* TCP_SND_BUF
          MaxUp,    \* bound: bytes the app sends
          MaxDown   \* bound: bytes the server sends

ASSUME TunAssumption ==
    /\ Wnd \in Nat \ {0} /\ RecvBuf \in Nat \ {0} /\ SndBuf \in Nat \ {0}
    /\ MaxUp \in Nat /\ MaxDown \in Nat

VARIABLES
    life,           \* "none", "live", "freed": the struct's allocation
    client_closed, socks_up, socks_closed,
    buf,            \* bytes from the app, not yet taken by SOCKS
    socks_recv_buf, \* bytes from SOCKS, not yet taken by lwIP; <<>>: used = -1
    pending,        \* socks_recv_tcp_pending
    cb,             \* the callback of lwIP that is running, or "none"
    killed,         \* what it finds at DEAD_LEAVE2
    jobs,           \* pending jobs, next first
    state,          \* of the BSocksClient
    sendLen,        \* length of the outstanding Send, or of what it did
    recvBusy,       \* a Recv is outstanding
    recvLen,        \* what it read, once it has
    pcb,            \* "none", "open", "closed", "aborted", "dead" (lwIP's doing)
    cbs,            \* callbacks registered with the pcb
    rcv_wnd,
    flight,         \* written to the pcb and not acknowledged
    input,          \* callbacks lwIP has still to make for the segment
    appSent, appEnd, appGot,      \* the app: "open", "fin", "rst"
    srvSent, srvRead, srvEnd, srvGot \* the server, and what was read of it

struct == <<client_closed, socks_up, socks_closed, buf, socks_recv_buf, pending>>
io == <<state, sendLen, recvBusy, recvLen, jobs>>
conn == <<pcb, cbs, rcv_wnd, flight>>
app == <<appSent, appEnd, appGot>>
server == <<srvSent, srvRead, srvEnd, srvGot>>
vars == <<life, struct, cb, killed, io, conn, input, app, server>>

JobNames == {"connected", "continue", "send", "sendDone", "recv", "recvDone"}
CallbackNames == {"sent", "recv", "closed"}
SocksStates == {"CONNECTING", "CONNECTED_HANDLER", "SENDING_HELLO",
    "SENT_HELLO", "SENDING_PASSWORD", "SENT_PASSWORD", "SENDING_REQUEST",
    "SENT_REQUEST", "RECEIVED_REPLY_HEADER", "UP"}

Lesser(a, b) == IF a < b THEN a ELSE b
From(s, n) == SubSeq(s, n + 1, Len(s))
FirstOf(s, n) == SubSeq(s, 1, n)
Bytes(first, last) == [i \in 1 .. (last - first + 1) |-> first + i - 1]

Init ==
    /\ life = "none" /\ cb = "none" /\ killed = 0
    /\ client_closed = TRUE /\ socks_up = FALSE /\ socks_closed = TRUE
    /\ buf = <<>> /\ socks_recv_buf = <<>> /\ pending = 0
    /\ state = "CONNECTING" /\ jobs = <<>>
    /\ sendLen = 0 /\ recvBusy = FALSE /\ recvLen = 0
    /\ pcb = "none" /\ cbs = {} /\ rcv_wnd = Wnd /\ flight = <<>>
    /\ input = <<>>
    /\ appSent = 0 /\ appEnd = "open" /\ appGot = <<>>
    /\ srvSent = 0 /\ srvRead = 0 /\ srvEnd = "open" /\ srvGot = <<>>

Quiet == cb = "none" /\ jobs = <<>> /\ input = <<>>  \* the loop waits for events

-----------------------------------------------------------------------------
\* The pieces the handlers are made of. Each sets the variables named beside
\* it; a handler that uses one sets the others.

\* DEAD_KILL_WITH, for a pcb that has been aborted and for a freed client;
\* it reaches only a callback that is running.
InCallback == cb # "none" \/ input # <<>>
Bug_Killed(aborting, freeing) ==
    killed' = IF ~InCallback THEN 0
              ELSE IF freeing THEN -1 ELSE IF aborting THEN 1 ELSE killed
Killed(aborting, freeing) ==
    killed' = IF ~InCallback THEN 0
              ELSE IF aborting \/ pcb = "aborted" THEN 1
              ELSE IF freeing THEN -1 ELSE killed

\* BSocksClient_Free takes the jobs of its interfaces with it.
SocksGone ==
    /\ socks_closed' = TRUE
    /\ jobs' = <<>> /\ sendLen' = 0 /\ recvBusy' = FALSE /\ recvLen' = 0
    /\ state' = state
SocksStays(rest, reading) ==
    /\ jobs' = rest /\ recvBusy' = reading
    /\ UNCHANGED <<socks_closed, state, sendLen, recvLen>>

\* tcp_close: what the app has not seen confirmed as read makes it a reset,
\* which drops what is still to be sent.
TcpClose ==
    /\ pcb' = "closed" /\ cbs' = {}
    /\ flight' = IF rcv_wnd = Wnd THEN flight ELSE <<>>
    /\ UNCHANGED rcv_wnd
TcpAbort ==
    /\ pcb' = "aborted" /\ cbs' = {} /\ flight' = <<>>
    /\ UNCHANGED rcv_wnd

\* client_handle_freed_client: what is buffered goes on to SOCKS while it can.
\* What aborts is a delivery, and then the Recv it delivers is over.
\* (life, client_closed, socks_closed, io, killed)
HandleFreed(aborting, rest) ==
    /\ client_closed' = TRUE
    /\ IF buf # <<>> /\ ~socks_closed
         THEN /\ SocksStays(rest, recvBusy /\ ~aborting)
              /\ UNCHANGED life
              /\ Killed(aborting, FALSE)
         ELSE /\ SocksGone
              /\ life' = "freed"
              /\ Killed(aborting, TRUE)

\* client_abort_client (HandleFreed's and conn)
AbortClient(rest) == TcpAbort /\ HandleFreed(TRUE, rest)

\* client_free_client (HandleFreed's and conn)
FreeClient(rest) == TcpClose /\ HandleFreed(FALSE, rest)

\* client_free_socks (life, client_closed, socks_closed, io, killed, conn)
Bug_StillToDeliver == socks_up /\ socks_recv_buf # <<>>
StillToDeliver == socks_up /\ (socks_recv_buf # <<>> \/ pending > 0)
FreeSocks ==
    /\ SocksGone
    /\ IF StillToDeliver /\ ~client_closed
         THEN /\ cbs' = cbs \ {"recv"}
              /\ UNCHANGED <<life, client_closed, killed, pcb, rcv_wnd, flight>>
         ELSE /\ client_closed' = TRUE /\ life' = "freed"
              /\ Killed(FALSE, TRUE)
              /\ IF client_closed THEN UNCHANGED conn ELSE TcpClose

-----------------------------------------------------------------------------
\* listener_accept_func. The connect() to the proxy fails, is under way or
\* has succeeded at once, in which case its job runs before the callback
\* returns. The model follows one connection at a time.
AcceptFails ==
    /\ Quiet /\ life = "none" /\ pcb = "none"
    /\ pcb' = "aborted"
    /\ UNCHANGED <<life, struct, cb, killed, io, cbs, rcv_wnd, flight, input,
                   app, server>>

Accept ==
    /\ Quiet /\ life = "none" /\ pcb = "none"
    /\ life' = "live" /\ cb' = "accept" /\ killed' = 0
    /\ client_closed' = FALSE /\ socks_closed' = FALSE
    /\ pcb' = "open" /\ cbs' = {"err", "recv"}
    /\ jobs' \in {<<>>, <<"connected">>}
    /\ UNCHANGED <<socks_up, buf, socks_recv_buf, pending, state, sendLen,
                   recvBusy, recvLen, rcv_wnd, flight, input, app, server>>

\* The connection is over for everybody: the next one.
NextConnection ==
    /\ Quiet /\ life # "live" /\ pcb \notin {"none", "open"}
    /\ life' = "none" /\ cb' = "none" /\ killed' = 0
    /\ client_closed' = TRUE /\ socks_up' = FALSE /\ socks_closed' = TRUE
    /\ buf' = <<>> /\ socks_recv_buf' = <<>> /\ pending' = 0
    /\ state' = "CONNECTING" /\ jobs' = <<>>
    /\ sendLen' = 0 /\ recvBusy' = FALSE /\ recvLen' = 0
    /\ pcb' = "none" /\ cbs' = {} /\ rcv_wnd' = Wnd /\ flight' = <<>>
    /\ input' = <<>>
    /\ appSent' = 0 /\ appEnd' = "open" /\ appGot' = <<>>
    /\ srvSent' = 0 /\ srvRead' = 0 /\ srvEnd' = "open" /\ srvGot' = <<>>

-----------------------------------------------------------------------------
\* BSocksClient: the handshake. Its own reads and writes complete as events,
\* or as jobs of the accepting callback.
HandshakeRuns == life = "live" /\ ~socks_closed /\ cb \in {"none", "accept"}
                 /\ input = <<>>

\* connector_handler
Connected ==
    /\ HandshakeRuns /\ state = "CONNECTING"
    /\ \/ jobs = <<>> /\ cb = "none"
       \/ jobs = <<"connected">>
    /\ state' = "CONNECTED_HANDLER" /\ jobs' = <<"continue">>
    /\ UNCHANGED <<life, struct, cb, killed, sendLen, recvBusy, recvLen, conn,
                   input, app, server>>

\* continue_job_handler
ContinueJob ==
    /\ jobs = <<"continue">>
    /\ jobs' = <<>> /\ state' = "SENDING_HELLO"
    /\ UNCHANGED <<life, struct, cb, killed, sendLen, recvBusy, recvLen, conn,
                   input, app, server>>

\* send_handler_done, recv_handler_done and auth_finished up to the last reply
HandshakeSteps ==
    {<<"SENDING_HELLO", "SENT_HELLO">>,
     <<"SENT_HELLO", "SENDING_PASSWORD">>, <<"SENT_HELLO", "SENDING_REQUEST">>,
     <<"SENDING_PASSWORD", "SENT_PASSWORD">>,
     <<"SENT_PASSWORD", "SENDING_REQUEST">>,
     <<"SENDING_REQUEST", "SENT_REQUEST">>,
     <<"SENT_REQUEST", "RECEIVED_REPLY_HEADER">>}
Handshake ==
    /\ HandshakeRuns /\ jobs = <<>> /\ srvEnd # "rst"
    /\ \E s \in SocksStates : <<state, s>> \in HandshakeSteps /\ state' = s
    /\ UNCHANGED <<life, struct, cb, killed, sendLen, recvBusy, recvLen, jobs,
                   conn, input, app, server>>

\* Any failure on the way: refused or lost connection, wrong version, no
\* method, negative reply, no memory.
HandshakeFails ==
    /\ HandshakeRuns /\ state # "UP"
    /\ \/ jobs = <<>> /\ (cb = "none" \/ state # "CONNECTING")
       \/ Len(jobs) = 1 /\ Head(jobs) \in {"connected", "continue"}
    /\ FreeSocks
    /\ UNCHANGED <<socks_up, buf, socks_recv_buf, pending, cb, input, app, server>>

\* recv_handler_done at the end of the reply, and client_socks_handler(UP):
\* Send and, if the app is still there, Recv; the job set last runs first.
Up ==
    /\ jobs' = (IF ~client_closed THEN <<"recv">> ELSE <<>>)
               \o (IF buf # <<>> THEN <<"send">> ELSE <<>>)
    /\ sendLen' = Len(buf)
HandshakeEnds ==
    /\ HandshakeRuns /\ jobs = <<>> /\ state = "RECEIVED_REPLY_HEADER"
    /\ srvEnd # "rst"
    /\ state' = "UP" /\ socks_up' = TRUE
    /\ cbs' = IF client_closed THEN cbs ELSE cbs \cup {"sent"}
    /\ recvBusy' = ~client_closed
    /\ Up
    /\ UNCHANGED <<life, client_closed, socks_closed, buf, socks_recv_buf,
                   pending, cb, killed, recvLen, pcb, rcv_wnd, flight, input,
                   app, server>>

-----------------------------------------------------------------------------
\* BConnection: an outstanding Send or Recv, tried by its job or when the
\* descriptor is ready. What cannot be done now waits for the descriptor.

\* connection_send
SendMoves(rest) ==
    \E n \in 1 .. sendLen :
        /\ srvEnd # "rst"
        /\ srvGot' = srvGot \o FirstOf(buf, n)
        /\ sendLen' = n /\ jobs' = <<"sendDone">> \o rest
        /\ UNCHANGED <<life, struct, cb, killed, state, recvBusy, recvLen,
                       conn, input, app, srvSent, srvRead, srvEnd>>

\* connection_recv
RecvMoves(rest) ==
    \E n \in 1 .. Lesser(RecvBuf, srvSent - srvRead) :
        /\ srvRead' = srvRead + n
        /\ recvLen' = n /\ jobs' = <<"recvDone">> \o rest
        /\ UNCHANGED <<life, struct, cb, killed, state, sendLen, recvBusy,
                       conn, input, app, srvSent, srvEnd, srvGot>>

\* The connection is reset, or, for a Recv, at its end.
SocksEnds ==
    /\ FreeSocks
    /\ UNCHANGED <<socks_up, buf, socks_recv_buf, pending, cb, input, app, server>>

MustWait(rest) ==
    /\ srvEnd # "rst"
    /\ jobs' = rest
    /\ UNCHANGED <<life, struct, cb, killed, state, sendLen, recvBusy, recvLen,
                   conn, input, app, server>>

SendJob ==
    /\ jobs # <<>> /\ Head(jobs) = "send"
    /\ \/ SendMoves(Tail(jobs))
       \/ MustWait(Tail(jobs))
       \/ srvEnd = "rst" /\ SocksEnds

RecvEnds == srvEnd = "rst" \/ (srvEnd = "fin" /\ srvRead = srvSent)

RecvJob ==
    /\ jobs # <<>> /\ Head(jobs) = "recv"
    /\ \/ RecvMoves(Tail(jobs))
       \/ MustWait(Tail(jobs))
       \/ RecvEnds /\ SocksEnds

\* connection_fd_handler for one direction, for both (then the Send goes
\* first and leaves the Recv a job), and for a reset. A hangup with nothing
\* outstanding is noted and nothing more: the next Send or Recv will fail.
\* So FdError, the other errors with nothing outstanding, may never come.
SendReady ==
    /\ Quiet /\ sendLen > 0
    /\ \/ SendMoves(<<>>) \/ (recvBusy /\ SendMoves(<<"recv">>))
       \/ srvEnd = "rst" /\ SocksEnds
RecvReady ==
    /\ Quiet /\ recvBusy
    /\ RecvMoves(<<>>) \/ (RecvEnds /\ SocksEnds)
FdError ==
    /\ Quiet /\ state = "UP" /\ ~socks_closed /\ srvEnd = "rst"
    /\ sendLen = 0 /\ ~recvBusy
    /\ SocksEnds

-----------------------------------------------------------------------------
\* client_socks_send_handler_done
Bug_Taken == <<>>
Taken == From(buf, sendLen)
Bug_SentEverything == FALSE
SentEverything == Taken = <<>> /\ client_closed
SendDoneJob ==
    /\ jobs # <<>> /\ Head(jobs) = "sendDone"
    /\ buf' = Taken
    /\ IF SentEverything
         THEN /\ SocksGone /\ life' = "freed" /\ Killed(FALSE, TRUE)
              /\ UNCHANGED rcv_wnd
         ELSE /\ jobs' = (IF Taken # <<>> THEN <<"send">> ELSE <<>>) \o Tail(jobs)
              /\ sendLen' = Len(Taken)
              /\ rcv_wnd' = IF client_closed THEN rcv_wnd ELSE rcv_wnd + sendLen
              /\ UNCHANGED <<life, killed, state, recvBusy, recvLen, socks_closed>>
    /\ UNCHANGED <<client_closed, socks_up, socks_recv_buf, pending, cb, pcb,
                   cbs, flight, input, app, server>>

\* client_socks_recv_send_out: tcp_write takes what fits in the send buffer,
\* or nothing for want of memory; it or tcp_output may fail. With bytes left
\* that no confirmation will ever move, the client is aborted. "again" says
\* whether a Recv follows when all is queued.
Bug_ReceiveAgain(again, rest) ==
    /\ jobs' = rest /\ recvBusy' = FALSE
ReceiveAgain(again, rest) ==
    /\ jobs' = (IF again THEN <<"recv">> ELSE <<>>) \o rest
    /\ recvBusy' = again

SendOut(data, unconfirmed, rest) ==
    \/ \E n \in {0, Lesser(Len(data), SndBuf - Len(flight))} :
        LET left == From(data, n) IN
        /\ socks_recv_buf' = left
        /\ pending' = unconfirmed + n
        /\ IF left # <<>> /\ unconfirmed + n = 0
             THEN AbortClient(rest)
             ELSE /\ flight' = flight \o FirstOf(data, n)
                  /\ ReceiveAgain(left = <<>> /\ ~socks_closed, rest)
                  /\ UNCHANGED <<life, client_closed, socks_closed, killed,
                                 state, sendLen, recvLen, pcb, cbs, rcv_wnd>>
    \/ /\ socks_recv_buf' = data /\ pending' = unconfirmed
       /\ AbortClient(rest)

\* client_socks_recv_handler_done
RecvDoneJob ==
    /\ jobs # <<>> /\ Head(jobs) = "recvDone"
    /\ IF client_closed
         THEN /\ jobs' = Tail(jobs) /\ recvBusy' = FALSE
              /\ UNCHANGED <<life, struct, killed, state, sendLen, recvLen, conn>>
         ELSE /\ SendOut(Bytes(srvRead - recvLen + 1, srvRead), pending, Tail(jobs))
              /\ UNCHANGED <<socks_up, buf>>
    /\ UNCHANGED <<cb, input, app, server>>

-----------------------------------------------------------------------------
\* lwIP. A segment of the app acknowledges bytes, carries bytes the window
\* allows, or its FIN; lwIP makes the callbacks one after the other.
Segment(acked, data, fin) ==
    /\ Quiet /\ pcb = "open"
    /\ acked > 0 \/ data > 0 \/ fin
    /\ appEnd = "open" \/ (data = 0 /\ ~fin)
    /\ appGot' = appGot \o FirstOf(flight, acked)
    /\ flight' = From(flight, acked)
    /\ appSent' = appSent + data
    /\ appEnd' = IF fin THEN "fin" ELSE appEnd
    /\ rcv_wnd' = rcv_wnd - data
    /\ input' = (IF acked > 0 THEN <<[name |-> "sent", len |-> acked]>> ELSE <<>>)
             \o (IF data > 0 THEN <<[name |-> "recv", len |-> data]>> ELSE <<>>)
             \o (IF fin THEN <<[name |-> "closed", len |-> 0]>> ELSE <<>>)
    /\ UNCHANGED <<life, struct, cb, killed, io, pcb, cbs, server>>

\* A reset from the app, or too many retransmissions: client_err_func.
ErrFunc ==
    /\ Quiet /\ pcb = "open"
    /\ appEnd' = "rst"
    /\ pcb' = "dead" /\ cbs' = {} /\ flight' = <<>>
    /\ HandleFreed(FALSE, jobs)
    /\ UNCHANGED <<socks_up, buf, socks_recv_buf, pending, cb, rcv_wnd, input,
                   appSent, appGot, server>>

Calls(name) ==
    /\ cb = "none" /\ jobs = <<>> /\ input # <<>> /\ Head(input).name = name
    /\ input' = Tail(input)

\* Without a callback lwIP drops data (and confirms it while the pcb is open).
NoCallback ==
    /\ \/ Calls("sent") /\ "sent" \notin cbs
       \/ Calls("recv") /\ "recv" \notin cbs
       \/ Calls("closed") /\ "recv" \notin cbs
    /\ rcv_wnd' = IF pcb = "open" THEN rcv_wnd + Head(input).len ELSE rcv_wnd
    /\ UNCHANGED <<life, struct, cb, killed, io, pcb, cbs, flight, app, server>>

\* client_recv_func with data. The refusal is kept for lwIP's next attempt.
NoRoom(n) == n > Wnd - Len(buf)
Bug_Window(n) == rcv_wnd' = rcv_wnd + n
Bug_WindowTwice(n) == rcv_wnd' = rcv_wnd - n
Window(n) == rcv_wnd' = rcv_wnd
RecvFunc ==
    /\ cb = "none" /\ jobs = <<>> /\ input # <<>>
    /\ Head(input).name = "recv" /\ "recv" \in cbs
    /\ LET n == Head(input).len IN
       IF NoRoom(n)
         THEN UNCHANGED <<buf, jobs, sendLen, cb, killed, input, rcv_wnd>>
         ELSE /\ buf' = buf \o Bytes(appSent - n + 1, appSent)
              /\ input' = Tail(input)
              /\ cb' = "recv" /\ killed' = 0
              /\ Window(n)
              /\ IF buf = <<>> /\ socks_up
                   THEN jobs' = <<"send">> /\ sendLen' = n
                   ELSE UNCHANGED <<jobs, sendLen>>
    /\ UNCHANGED <<life, client_closed, socks_up, socks_closed, socks_recv_buf,
                   pending, state, recvBusy, recvLen, pcb, cbs, flight, app, server>>

\* client_recv_func without data: the app has closed.
ClosedFunc ==
    /\ Calls("closed") /\ "recv" \in cbs
    /\ cb' = "recv"
    /\ FreeClient(<<>>)
    /\ UNCHANGED <<socks_up, buf, socks_recv_buf, pending, app, server>>

\* client_sent_func
SentFunc ==
    /\ Calls("sent") /\ "sent" \in cbs
    /\ cb' = "sent"
    /\ LET unconfirmed == pending - Head(input).len IN
       IF socks_recv_buf # <<>>
         THEN SendOut(socks_recv_buf, unconfirmed, <<>>)
         ELSE /\ pending' = unconfirmed
              /\ IF socks_closed /\ unconfirmed = 0
                   THEN FreeClient(<<>>)
                   ELSE UNCHANGED <<life, client_closed, socks_closed, killed,
                                    io, conn>>
              /\ UNCHANGED socks_recv_buf
    /\ UNCHANGED <<socks_up, buf, app, server>>

\* The callback's jobs are done and it returns ERR_ABRT or ERR_OK: after
\* ERR_ABRT lwIP leaves the pcb and the rest of the segment alone.
CallbackReturns ==
    /\ cb # "none" /\ jobs = <<>>
    /\ cb' = "none" /\ killed' = 0
    /\ input' = IF killed = 1 THEN <<>> ELSE input
    /\ UNCHANGED <<life, struct, io, conn, app, server>>

-----------------------------------------------------------------------------
\* The server, behind the proxy.
ServerSends ==
    /\ srvEnd = "open" /\ srvSent < MaxDown
    /\ state \in {"SENT_REQUEST", "RECEIVED_REPLY_HEADER", "UP"} /\ ~socks_closed
    /\ srvSent' = srvSent + 1
    /\ UNCHANGED <<life, struct, cb, killed, io, conn, input, app, srvRead,
                   srvEnd, srvGot>>
ServerCloses(how) ==
    /\ srvEnd = "open" \/ (srvEnd = "fin" /\ how = "rst")
    /\ life = "live" /\ state # "CONNECTING" /\ ~socks_closed
    /\ srvEnd' = how
    /\ UNCHANGED <<life, struct, cb, killed, io, conn, input, app, srvSent,
                   srvRead, srvGot>>

\* The end of main: client_murder for every client.
Murder ==
    /\ Quiet /\ life = "live"
    /\ life' = "none" /\ client_closed' = TRUE
    /\ SocksGone /\ killed' = 0
    /\ IF client_closed THEN UNCHANGED conn ELSE TcpAbort
    /\ UNCHANGED <<socks_up, buf, socks_recv_buf, pending, cb, input, app, server>>

Segments == \E acked \in 0 .. Len(flight),
               data \in 0 .. Lesser(rcv_wnd, MaxUp - appSent), fin \in BOOLEAN :
                   Segment(acked, data, fin)
Next ==
    \/ AcceptFails \/ Accept \/ NextConnection
    \/ Connected \/ ContinueJob \/ Handshake \/ HandshakeFails \/ HandshakeEnds
    \/ SendJob \/ RecvJob \/ SendReady \/ RecvReady \/ FdError
    \/ SendDoneJob \/ RecvDoneJob
    \/ Segments \/ ErrFunc \/ NoCallback \/ RecvFunc \/ ClosedFunc \/ SentFunc
    \/ CallbackReturns
    \/ ServerSends \/ (\E how \in {"fin", "rst"} : ServerCloses(how))
    \/ Murder

Spec == Init /\ [][Next]_vars

\* The thread goes on; the app's TCP acknowledges what reaches it; the proxy
\* answers the handshake or fails, and takes what is written to it.
Acknowledge == \E acked \in 1 .. Len(flight) : Segment(acked, 0, FALSE)
Fairness ==
    /\ WF_vars(ContinueJob) /\ WF_vars(SendJob) /\ WF_vars(RecvJob)
    /\ WF_vars(SendDoneJob) /\ WF_vars(RecvDoneJob)
    /\ WF_vars(NoCallback) /\ WF_vars(RecvFunc) /\ WF_vars(ClosedFunc)
    /\ WF_vars(SentFunc) /\ WF_vars(CallbackReturns)
    /\ WF_vars(SendReady) /\ WF_vars(RecvReady)
    /\ WF_vars(Connected \/ Handshake \/ HandshakeEnds \/ HandshakeFails)
    /\ WF_vars(Acknowledge)
FairSpec == Spec /\ Fairness
=============================================================================
