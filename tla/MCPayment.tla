----------------------------- MODULE MCPayment -----------------------------
(* Instances of Payment for TLC: properties are in PaymentProperties. *)
EXTENDS PaymentProperties, TLC

Symmetry == Permutations(Tokens) \cup Permutations(Orders)
                \cup Permutations(Workers)
============================================================================
