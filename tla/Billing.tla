------------------------------- MODULE Billing -------------------------------
(***************************************************************************)
(* What paying for a subscription promises, with no database, threads or   *)
(* notifications: an order is paid, and a paid order is credited once. The *)
(* code promises nothing about how often a refunded order is credited.     *)
(***************************************************************************)
EXTENDS Naturals

CONSTANT Orders

VARIABLES
    settled,    \* "open", "paid" or "refunded"
    credits     \* how often the order extended its user's subscription

billingVars == <<settled, credits>>

Init == /\ settled = [o \in Orders |-> "open"]
        /\ credits = [o \in Orders |-> 0]

Settle(o, from, to) == /\ settled[o] = from
                       /\ settled' = [settled EXCEPT ![o] = to]
                       /\ UNCHANGED credits

Credit(o) == /\ \/ settled[o] = "paid" /\ credits[o] = 0
                \/ settled[o] = "refunded"
             /\ credits' = [credits EXCEPT ![o] = @ + 1]
             /\ UNCHANGED settled

Next == \E o \in Orders : \/ Settle(o, "open", "paid")
                          \/ Settle(o, "paid", "refunded")
                          \/ Credit(o)

Spec == Init /\ [][Next]_billingVars
=============================================================================
