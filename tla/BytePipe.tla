------------------------------ MODULE BytePipe ------------------------------
(***************************************************************************)
(* What one direction of a TCP connection promises, whatever carries it:   *)
(* the bytes 1, 2, ... of the sender arrive once each and in order, and    *)
(* none before it was sent. Only a new connection starts from nothing.     *)
(***************************************************************************)
EXTENDS Integers, Sequences

VARIABLES open,  \* there is a connection, or what is left of one
          sent,  \* bytes given by the sender
          got    \* bytes that have arrived

vars == <<open, sent, got>>

Prefix(n) == [i \in 1 .. n |-> i]

Init == open = FALSE /\ sent = 0 /\ got = <<>>

Open == ~open /\ open' = TRUE /\ UNCHANGED <<sent, got>>

Give ==
    /\ open /\ open' = open
    /\ sent' \in Nat /\ sent' > sent /\ UNCHANGED got

Arrive ==
    /\ open /\ open' = open
    /\ \E n \in Len(got) + 1 .. sent : got' = Prefix(n)
    /\ UNCHANGED sent

Renew == open /\ open' = FALSE /\ sent' = 0 /\ got' = <<>>

Next == Open \/ Give \/ Arrive \/ Renew

Spec == Init /\ [][Next]_vars
=============================================================================
