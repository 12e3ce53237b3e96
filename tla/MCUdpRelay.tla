----------------------------- MODULE MCUdpRelay ------------------------------
(***************************************************************************)
(* The UDP relay with small constants, for TLC.                            *)
(***************************************************************************)
EXTENDS UdpRelayProperties

MCIds == {1, 2}
=============================================================================
