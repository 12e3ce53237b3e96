----------------------------- MODULE MCNodeLink -----------------------------
(* Instances of NodeLink for TLC: properties are in NodeLinkProperties.      *)
(* Its runs check liveness, so they use no symmetry.                         *)
EXTENDS NodeLinkProperties, TLC
=============================================================================
