------------------------------ MODULE MCTraffic -----------------------------
(* Instances of Traffic for TLC: properties are in TrafficProperties.        *)
(* Its runs check liveness, so they use no symmetry.                         *)
EXTENDS TrafficProperties, TLC
=============================================================================
