------------------------------ MODULE UdpRelay -------------------------------
(***************************************************************************)
(* SocksUdpClient.c: the UDP packets of the apps go to the proxy through   *)
(* one SOCKS association per app port. A connection's send pipeline is     *)
(* BufferWriter -> PacketBuffer -> PacketPassInactivityMonitor ->          *)
(* BDatagram; the packet that BDatagram holds stays first in the buffer    *)
(* until it is sent. One thread runs an event loop, and the jobs an event  *)
(* sets run before the next event: an action is one event with its jobs.   *)
(* A packet is its DNS transaction ID, NoDns when it has none.             *)
(* A Bug_ definition is a faulty variant of the one below it and is used   *)
(* by no specification.                                                    *)
(***************************************************************************)
EXTENDS Integers, Sequences, FiniteSets

CONSTANTS Ports,      \* local addresses of the apps' sockets
          Ids,        \* transaction IDs
          MaxCon,     \* max_connections
          BufPackets, \* send_buf_size: what the PacketBuffer surely holds
          MaxSubmits  \* bound: packets the apps send

NoDns == -1
Packets == Ids \cup {NoDns}

ASSUME RelayAssumption ==
    /\ IsFiniteSet(Ports) /\ Ids \subseteq Nat
    /\ MaxCon \in Nat \ {0} /\ BufPackets \in Nat \ {0} /\ MaxSubmits \in Nat

VARIABLES
    con,             \* "none", "connecting", "associating" or "up"
    num_connections,
    dns_id,
    send_buffer,     \* packets accepted and not yet sent
    timer,           \* the inactivity timer is running
    asked,           \* packets accepted since the connection was created
    sent,            \* those the kernel took
    got,             \* packets given to the app since then
    submits

pipeline == <<con, num_connections, dns_id, send_buffer, timer, asked, sent>>
vars == <<pipeline, got, submits>>

Init ==
    /\ con = [p \in Ports |-> "none"] /\ num_connections = 0
    /\ dns_id = [p \in Ports |-> NoDns]
    /\ send_buffer = [p \in Ports |-> <<>>]
    /\ timer = [p \in Ports |-> FALSE]
    /\ asked = [p \in Ports |-> {}] /\ sent = [p \in Ports |-> {}]
    /\ got = [p \in Ports |-> {}]
    /\ submits = 0

Live == {p \in Ports : con[p] # "none"}

-----------------------------------------------------------------------------
\* The pieces of the handlers. Free and Flush set the whole pipeline.
Bug_Decremented == num_connections
Decremented == num_connections - 1

Free(p) ==
    /\ con' = [con EXCEPT ![p] = "none"]
    /\ num_connections' = Decremented
    /\ dns_id' = [dns_id EXCEPT ![p] = NoDns]
    /\ send_buffer' = [send_buffer EXCEPT ![p] = <<>>]
    /\ timer' = [timer EXCEPT ![p] = FALSE]
    /\ asked' = [asked EXCEPT ![p] = {}]
    /\ sent' = [sent EXCEPT ![p] = {}]

\* The monitor stops its timer for a packet it passes on and restarts it when
\* the packet is done. PacketBuffer passes the next one at once.
Bug_TimerAfter(rest, done) == done \/ rest = <<>>  \* the next packet does not stop it
Bug_TimerStopped(rest, done) == FALSE              \* done does not restart it
TimerAfter(rest, done) == rest = <<>>

\* do_send for the packets of queue, one after the other, until none is left
\* or the socket must be waited for; an error of sendmsg frees the connection.
\* id and accepted are the connection's dns_id and asked after it.
Flush(p, queue, id, accepted) ==
    \/ \E n \in 0 .. Len(queue) :
          LET rest == SubSeq(queue, n + 1, Len(queue))
          IN  /\ send_buffer' = [send_buffer EXCEPT ![p] = rest]
              /\ timer' = [timer EXCEPT ![p] = TimerAfter(rest, n > 0)]
              /\ sent' = [sent EXCEPT ![p] = @ \cup {queue[i] : i \in 1 .. n}]
              /\ con' = [con EXCEPT ![p] = "up"]
              /\ dns_id' = [dns_id EXCEPT ![p] = id]
              /\ asked' = [asked EXCEPT ![p] = accepted]
              /\ UNCHANGED num_connections
    \/ Free(p)

-----------------------------------------------------------------------------
\* SocksUdpClient_SubmitPacket
Submitted == submits < MaxSubmits /\ submits' = submits + 1

\* Every connection is in use, or connection_init fails.
Refuse(p, packet) ==
    /\ Submitted
    /\ con[p] = "none"
    /\ UNCHANGED <<pipeline, got>>

\* connection_init, and first_job_handler with the same packet. There is no
\* address to send to yet, so BDatagram holds it.
Create(p, packet) ==
    /\ Submitted
    /\ con[p] = "none" /\ num_connections < MaxCon
    /\ con' = [con EXCEPT ![p] = "connecting"]
    /\ num_connections' = num_connections + 1
    /\ dns_id' = [dns_id EXCEPT ![p] = packet]
    /\ send_buffer' = [send_buffer EXCEPT ![p] = <<packet>>]
    /\ asked' = [asked EXCEPT ![p] = {packet}]
    /\ got' = [got EXCEPT ![p] = {}]
    /\ UNCHANGED <<timer, sent>>

\* connection_send: the connection serves one query as long as all it sent
\* are copies of it. The packet is dropped when the buffer cannot take it.
Bug_IdAfter(p, packet) == dns_id[p]
IdAfter(p, packet) == IF packet = dns_id[p] THEN packet ELSE NoDns

Full(p) == Len(send_buffer[p]) >= BufPackets

Drop(p, packet) ==
    /\ Submitted
    /\ con[p] # "none" /\ Full(p)
    /\ dns_id' = [dns_id EXCEPT ![p] = IdAfter(p, packet)]
    /\ UNCHANGED <<con, num_connections, send_buffer, timer, asked, sent, got>>

\* A packet that finds others in the buffer waits behind them.
Enqueue(p, packet) ==
    /\ Submitted
    /\ con[p] # "none" /\ send_buffer[p] # <<>>
    /\ send_buffer' = [send_buffer EXCEPT ![p] = Append(@, packet)]
    /\ dns_id' = [dns_id EXCEPT ![p] = IdAfter(p, packet)]
    /\ asked' = [asked EXCEPT ![p] = @ \cup {packet}]
    /\ UNCHANGED <<con, num_connections, timer, sent, got>>

\* One that finds the buffer empty is sent at once: addresses are there, for
\* the first packet waited for them.
SendAtOnce(p, packet) ==
    /\ Submitted
    /\ con[p] # "none" /\ send_buffer[p] = <<>>
    /\ Flush(p, <<packet>>, IdAfter(p, packet), asked[p] \cup {packet})
    /\ UNCHANGED got

-----------------------------------------------------------------------------
\* socks_state_handler. CONNECTED binds the UDP socket, which may fail.
Connected(p) ==
    /\ con[p] = "connecting"
    /\ \/ con' = [con EXCEPT ![p] = "associating"]
          /\ UNCHANGED <<num_connections, dns_id, send_buffer, timer, asked, sent>>
       \/ Free(p)
    /\ UNCHANGED <<got, submits>>

\* UP: the addresses are set and what BDatagram holds is sent.
Up(p) ==
    /\ con[p] = "associating"
    /\ Flush(p, send_buffer[p], dns_id[p], asked[p])
    /\ UNCHANGED <<got, submits>>

\* ERROR: the handshake fails, or the connection to the proxy is reset.
SocksError(p) == con[p] # "none" /\ Free(p) /\ UNCHANGED <<got, submits>>

\* BDATAGRAM_EVENT_ERROR outside of a send.
DatagramError(p) == con[p] # "none" /\ Free(p) /\ UNCHANGED <<got, submits>>

\* The socket that was waited for is writable.
Writable(p) ==
    /\ con[p] = "up" /\ send_buffer[p] # <<>>
    /\ Flush(p, send_buffer[p], dns_id[p], asked[p])
    /\ UNCHANGED <<got, submits>>

\* send_monitor_handler
Inactive(p) == timer[p] /\ Free(p) /\ UNCHANGED <<got, submits>>

\* recv_if_handler_send, for the answer to a query that was sent or for any
\* other packet to the socket, which takes any once it is bound. Answers come
\* in any order, twice or never.
Receive(p, packet) ==
    /\ con[p] \in {"associating", "up"}
    /\ packet \in sent[p] \cup {NoDns}
    /\ got' = [got EXCEPT ![p] = @ \cup {packet}]
    /\ IF dns_id[p] # NoDns /\ packet = dns_id[p]
         THEN Free(p)
         ELSE /\ dns_id' = [dns_id EXCEPT ![p] = NoDns]
              /\ UNCHANGED <<con, num_connections, send_buffer, timer, asked, sent>>
    /\ UNCHANGED submits

-----------------------------------------------------------------------------
Submit(p) ==
    \E packet \in Packets :
        \/ Refuse(p, packet) \/ Create(p, packet)
        \/ Drop(p, packet) \/ Enqueue(p, packet) \/ SendAtOnce(p, packet)
Handle(p) ==
    \/ Connected(p) \/ Up(p) \/ SocksError(p) \/ DatagramError(p)
    \/ Writable(p) \/ Inactive(p)
    \/ \E packet \in Packets : Receive(p, packet)

Next == \E p \in Ports : Submit(p) \/ Handle(p)

Spec == Init /\ [][Next]_vars

\* The proxy answers a handshake or gives it up, the socket becomes writable
\* and the timer runs out. A socket that stays writable takes packets: Writable
\* that sends none is the limit of one loop turn, and the event comes again.
Progress(p) == Writable(p) /\ send_buffer'[p] # send_buffer[p]
FairSpec ==
    /\ Spec
    /\ \A p \in Ports :
         /\ WF_vars(Connected(p)) /\ WF_vars(Up(p))
         /\ WF_vars(Progress(p)) /\ WF_vars(Inactive(p))
=============================================================================
