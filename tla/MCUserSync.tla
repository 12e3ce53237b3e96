----------------------------- MODULE MCUserSync -----------------------------
(* Instances of UserSync for TLC: properties are in UserSyncProperties. *)
EXTENDS UserSyncProperties
=============================================================================
