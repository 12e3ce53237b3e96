------------------------ MODULE TunClientProperties -------------------------
(* What a TCP connection through tun2socks owes its two ends.              *)
EXTENDS TunClient

UpPipe == INSTANCE BytePipe
            WITH open <- (pcb # "none"), sent <- appSent, got <- srvGot
DownPipe == INSTANCE BytePipe
              WITH open <- (pcb # "none"), sent <- srvSent, got <- appGot

\* The types of the variables.
TypeOK ==
    /\ life \in {"none", "live", "freed"}
    /\ client_closed \in BOOLEAN /\ socks_up \in BOOLEAN
    /\ socks_closed \in BOOLEAN
    /\ buf \in Seq(Nat) /\ socks_recv_buf \in Seq(Nat) /\ pending \in Nat
    /\ cb \in {"none", "accept", "recv", "sent"} /\ killed \in {-1, 0, 1}
    /\ jobs \in Seq(JobNames)
    /\ state \in SocksStates /\ sendLen \in Nat /\ recvLen \in Nat
    /\ recvBusy \in BOOLEAN
    /\ pcb \in {"none", "open", "closed", "aborted", "dead"}
    /\ cbs \subseteq {"err", "recv", "sent"} /\ rcv_wnd \in Nat
    /\ flight \in Seq(Nat)
    /\ input \in Seq([name : CallbackNames, len : Nat])
    /\ appSent \in Nat /\ appEnd \in {"open", "fin", "rst"}
    /\ appGot \in Seq(Nat)
    /\ srvSent \in Nat /\ srvRead \in Nat /\ srvEnd \in {"open", "fin", "rst"}
    /\ srvGot \in Seq(Nat)

\* Partial writes, appends behind an outstanding write and interrupted
\* deliveries neither lose, repeat nor reorder a byte, in either direction.
\* Each of them is a pipe of its own: a byte arrives after it was given, in
\* its place, and what has arrived is never taken back.
InOrder(s) == \A i \in 1 .. Len(s) : s[i] = i
StreamsAreIntact == InOrder(srvGot) /\ InOrder(appGot)
ImplementsPipes == UpPipe!Spec /\ DownPipe!Spec

\* What the window lets the app send fits in the buffer: "no buffer for
\* data !?!" in client_recv_func is never reached.
WindowFitsBuffer ==
    (input # <<>> /\ "recv" \in cbs)
        => \A i \in 1 .. Len(input) :
               input[i].name = "recv" => ~NoRoom(input[i].len)

\* When lwIP's callback is over it knows what became of the pcb and of the
\* client: it returns ERR_ABRT if and only if the pcb was aborted under it,
\* and does not look into a client that was freed under it.
CallbackKnowsFate ==
    cb # "none" => /\ (killed = 1) <=> (pcb = "aborted")
                   /\ life # "live" => killed # 0

\* Whenever the loop waits for events, every byte held has something that
\* will move it on: a write outstanding for the bytes of the app, an
\* acknowledgement for those of the server, and otherwise a read outstanding
\* while the app is there.
NothingIsStuck ==
    (Quiet /\ life = "live" /\ socks_up) =>
        /\ ~socks_closed => ((buf # <<>>) <=> (sendLen > 0))
        /\ (~client_closed /\ ~socks_closed)
               => (recvBusy \/ socks_recv_buf # <<>>)
        /\ (~client_closed /\ (socks_closed \/ socks_recv_buf # <<>>))
               => flight # <<>>
        /\ client_closed => (buf # <<>> /\ ~socks_closed)

\* A connection the server ends is not ended towards the app before the app
\* has confirmed everything; one the app ends is not given up before the
\* server has got everything, as long as the server keeps its side open.
EndsAreGraceful ==
    [][ /\ (pcb = "open" /\ pcb' = "closed" /\ appEnd = "open" /\ srvEnd = "fin")
               => (state = "UP" => appGot = Bytes(1, srvSent))
        /\ (/\ life = "live" /\ life' = "freed" /\ state = "UP"
            /\ pcb' \in {"closed", "dead"} /\ srvEnd = "open")
               => Len(srvGot) = appSent ]_vars

\* When either end is gone, the client is freed.
EndsAreCleanedUp ==
    (life = "live" /\ (client_closed \/ srvEnd # "open")) ~> (life # "live")

-----------------------------------------------------------------------------
(* The inductive invariant behind the first four.                           *)
Follows(s, k) == \A i \in 1 .. Len(s) : s[i] = k + i

Running(name) == jobs # <<>> /\ Head(jobs) = name
MovedUp == IF Running("sendDone") THEN sendLen ELSE 0
MovedDown == IF Running("recvDone") THEN recvLen ELSE 0

\* Bytes lwIP has still to report as received, and as acknowledged.
Report(i, name) == IF Len(input) >= i /\ input[i].name = name THEN input[i].len ELSE 0
Unread == Report(1, "recv") + Report(2, "recv")
Confirmed == Report(1, "sent")

\* Jobs of the handshake are alone; of the others there is one for each
\* direction, and one whose Send or Recv is done runs first.
JobLists ==
    {<<>>, <<"connected">>, <<"continue">>,
     <<"send">>, <<"sendDone">>, <<"recv">>, <<"recvDone">>,
     <<"send", "recv">>, <<"sendDone", "recv">>,
     <<"recv", "send">>, <<"recvDone", "send">>}
JobsInv ==
    /\ jobs \in JobLists
    /\ sendLen <= Len(buf)
    /\ socks_closed => jobs = <<>> /\ sendLen = 0 /\ ~recvBusy
    /\ cb = "none" /\ input # <<>> => jobs = <<>>
    /\ jobs = <<"continue">> => state # "UP"
    /\ (\E i \in 1 .. Len(jobs) : jobs[i] \in {"recv", "recvDone"}) => recvBusy

InputInv ==
    /\ Len(input) <= 3
    /\ \A i \in 1 .. Len(input) :
          /\ input[i].name = "sent" => i = 1
          /\ input[i].name = "recv" => i <= 2
          /\ i = 2 /\ input[i].name = "recv" => input[1].name = "sent"

\* What is left of a connection, and of its beginning.
LifeInv ==
    /\ client_closed <=> pcb # "open"
    /\ pcb = "open" => /\ life = "live"
                       /\ "recv" \in cbs <=> ~socks_closed
                       /\ "sent" \in cbs <=> socks_up
    /\ pcb # "open" => cbs = {}
    /\ socks_up => state = "UP"
    /\ ~socks_up => socks_recv_buf = <<>> /\ flight = <<>> /\ ~recvBusy
                  /\ Confirmed = 0
    /\ pcb = "none" =>
          /\ life # "live"
          /\ ~socks_up /\ buf = <<>> /\ pending = 0 /\ appSent = 0
          /\ appGot = <<>> /\ srvRead = 0 /\ srvGot = <<>> /\ rcv_wnd = Wnd
          /\ input = <<>>

FateInv ==
    /\ CallbackKnowsFate
    /\ cb = "none" => killed = 0

UpInv ==
    /\ InOrder(srvGot)
    /\ ~socks_closed => /\ MovedUp <= Len(srvGot)
                        /\ Follows(buf, Len(srvGot) - MovedUp)

WindowInv ==
    "recv" \in cbs =>
        /\ Len(srvGot) - MovedUp + Len(buf) + Unread = appSent
        /\ rcv_wnd + Len(buf) + Unread = Wnd

DownInv ==
    /\ InOrder(appGot)
    /\ pcb = "open" =>
          /\ Follows(flight, Len(appGot))
          /\ Follows(socks_recv_buf, Len(appGot) + Len(flight))
          /\ Len(flight) <= SndBuf
          /\ pending = Len(flight) + Confirmed
          /\ recvBusy => socks_recv_buf = <<>>
          /\ ~socks_closed =>
                Len(appGot) + Len(flight) + Len(socks_recv_buf) + MovedDown = srvRead

IInv == TypeOK /\ JobsInv /\ InputInv /\ LifeInv /\ FateInv /\ UpInv /\ WindowInv
        /\ DownInv

(* On top of it, behind NothingIsStuck: who moves what next.                *)
WriteFlows == socks_up /\ ~socks_closed => ((buf # <<>>) <=> (sendLen > 0))
ReadFlows == socks_up /\ ~socks_closed /\ ~client_closed
                => (recvBusy \/ socks_recv_buf # <<>>)
AcksFlow == socks_up /\ ~client_closed /\ (socks_closed \/ socks_recv_buf # <<>>)
                => pending > 0
ClosingFlows == life = "live" /\ client_closed => (buf # <<>> /\ ~socks_closed)

FlowInv == WriteFlows /\ ReadFlows /\ AcksFlow /\ ClosingFlows

(* And behind EndsAreGraceful and ImplementsPipes: the accounts of both     *)
(* directions, also when one of the two connections is gone.                *)
Opened == (state = "UP" => socks_up) /\ (pcb = "none" => socks_closed)
FinIsKnown == \A i \in 1 .. Len(input) : input[i].name = "closed" => appEnd # "open"
DownAccount ==
    pcb = "open" /\ socks_up /\ socks_closed =>
        /\ srvEnd # "open" /\ (srvEnd = "fin" => srvRead = srvSent)
        /\ Len(appGot) + Len(flight) + Len(socks_recv_buf) = srvRead
UpAccount ==
    ~socks_closed =>
        /\ Len(srvGot) - MovedUp + Len(buf) <= appSent
        /\ pcb \in {"closed", "dead"} => Len(srvGot) - MovedUp + Len(buf) = appSent
NothingInvented ==
    /\ Len(srvGot) <= appSent
    /\ Len(appGot) <= srvRead /\ srvRead <= srvSent

EndInv == Opened /\ FinIsKnown /\ DownAccount /\ UpAccount /\ NothingInvented
=============================================================================
