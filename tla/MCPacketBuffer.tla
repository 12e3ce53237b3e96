--------------------------- MODULE MCPacketBuffer ----------------------------
(***************************************************************************)
(* The packet buffer with small constants, for TLC: packets without data,  *)
(* with one block and with the two of an MTU that no block ends at, each   *)
(* with one of two contents.                                               *)
(***************************************************************************)
EXTENDS PacketBufferProperties

MCPacket(len, content) ==
    [k \in 0 .. Blocks(len) |-> IF k = 0 THEN len ELSE content]
MCPackets == {MCPacket(len, content) : len \in {0, 4, 5}, content \in {7, 8}}
=============================================================================
