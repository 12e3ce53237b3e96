-------------------------- MODULE UdpRelayProperties --------------------------
(***************************************************************************)
(* What the UDP relay of tun2socks owes to the apps.                       *)
(***************************************************************************)
EXTENDS UdpRelay

Shape ==
    /\ con \in [Ports -> {"none", "connecting", "associating", "up"}]
    /\ dns_id \in [Ports -> Packets]
    /\ send_buffer \in [Ports -> Seq(Packets)]
    /\ timer \in [Ports -> BOOLEAN]
    /\ asked \in [Ports -> SUBSET Packets] /\ sent \in [Ports -> SUBSET Packets]
    /\ got \in [Ports -> SUBSET Packets]
    /\ num_connections \in Nat /\ submits \in 0 .. MaxSubmits

CountIsExact ==
    num_connections = Cardinality(Live) /\ num_connections <= MaxCon

\* The counter that admits connections agrees with the tree that holds them,
\* whatever ends a connection: six handlers call connection_free.
TypeOK == Shape /\ CountIsExact

\* The inactivity timer, which the monitor stops and restarts around every
\* packet, never runs while one is held: a timeout frees only a connection that
\* has sent every packet it accepted.
TimeoutLosesNothing ==
    \A p \in Ports :
        timer[p] => send_buffer[p] = <<>> /\ con[p] = "up" /\ asked[p] \subseteq sent[p]

\* A connection that the answer to a query ends owes the app no other answer:
\* everything it was given to send, sent or still waiting, was that query.
AnswerEndsOnlyItsQuery ==
    [][\A p \in Ports :
          con[p] # "none" /\ con'[p] = "none" /\ got'[p] # got[p]
            => asked[p] \subseteq got'[p]]_vars

\* A connection that still counts as one query was given copies of it only.
QueryInv ==
    \A p \in Ports : dns_id[p] # NoDns => asked[p] \subseteq {dns_id[p]}

\* What a connection accepted it has sent or holds; a free place holds nothing.
Waiting(queue) == {queue[i] : i \in 1 .. Len(queue)}
Conserved ==
    \A p \in Ports : /\ asked[p] = sent[p] \cup Waiting(send_buffer[p])
                     /\ con[p] = "none" => sent[p] = {}

TimerIsQuiet == \A p \in Ports : timer[p] => send_buffer[p] = <<>> /\ con[p] = "up"

IInv == TypeOK /\ TimerIsQuiet /\ QueryInv /\ Conserved

\* Every connection goes away: none of the MaxCon places is lost for good.
PlacesComeBack ==
    \A p \in Ports : con[p] # "none" ~> con[p] = "none"
=============================================================================
