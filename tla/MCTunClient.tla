---------------------------- MODULE MCTunClient -----------------------------
(* The instance of TunClient that TLC checks; the bounds are in the .cfg.   *)
EXTENDS TunClientProperties
=============================================================================
