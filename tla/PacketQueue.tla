----------------------------- MODULE PacketQueue -----------------------------
(***************************************************************************)
(* What a PacketBuffer promises the two sides it connects: packets leave   *)
(* whole and in the order they came, the first one is always on offer to   *)
(* the output, and the input is refused only while Num packets wait.       *)
(***************************************************************************)
EXTENDS Integers, Sequences

CONSTANTS Packets, Num

VARIABLES queue,     \* packets that wait
          offered,   \* the one the output has been given, if any
          accepting  \* the input may write a packet

vars == <<queue, offered, accepting>>

First(q) == IF q = <<>> THEN <<>> ELSE <<q[1]>>

Init == queue = <<>> /\ offered = <<>> /\ accepting = TRUE

Promised == offered' = First(queue') /\ accepting' \in BOOLEAN
            /\ (Len(queue') < Num => accepting')

Submit(packet) == accepting /\ queue' = Append(queue, packet) /\ Promised
Consume == queue # <<>> /\ queue' = Tail(queue) /\ Promised

Next == Consume \/ \E packet \in Packets : Submit(packet)

Spec == Init /\ [][Next]_vars
=============================================================================
