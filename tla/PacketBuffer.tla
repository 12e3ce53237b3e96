----------------------------- MODULE PacketBuffer ----------------------------
(***************************************************************************)
(* flow/PacketBuffer.c over structure/ChunkBuffer2.h: packets of different *)
(* lengths in one block of memory used as a ring. A packet is a header     *)
(* block with its length and the blocks of its data, never split: where a  *)
(* packet of MTU length would no longer fit, the ring wraps early.         *)
(* A packet is here the function that gives its blocks, header at 0.       *)
(* A Bug_ definition is a faulty variant of the one below it and is used   *)
(* by no specification.                                                    *)
(***************************************************************************)
EXTENDS Integers, Sequences

CONSTANTS Mtu,      \* input_mtu, in bytes
          Num,      \* num_packets
          Packets,  \* what the input may write
          Junk      \* what malloc'ed memory holds

\* bdivide_up(len, sizeof(struct ChunkBuffer2_block))
Blocks(len) == (len + 3) \div 4

ASSUME BufferAssumption ==
    /\ Mtu \in Nat /\ Num \in Nat \ {0} /\ Junk \in Nat
    /\ \A p \in Packets : /\ p[0] \in 0 .. Mtu
                          /\ p \in [0 .. Blocks(p[0]) -> Nat]

VARIABLES
    mem,                         \* buf_data
    wrap, start, used,
    input_dest, input_avail,     \* block index (or NULL) and bytes
    output_dest, output_avail,
    recv,                        \* where an outstanding Recv writes, or NULL
    send, sendLen,               \* what an outstanding Send reads, or NULL
    at                           \* history: header blocks of the packets held

ring == <<wrap, start, used>>
input == <<input_dest, input_avail, recv>>
output == <<output_dest, output_avail, send, sendLen>>
vars == <<mem, ring, input, output, at>>

NULL == 0                 \* no destination is block 0: a header precedes it
MtuBlocks == Blocks(Mtu)

\* ChunkBuffer2_calc_blocks, for what an int can hold
Bug_Size == (1 + MtuBlocks) * Num
Size == (1 + MtuBlocks) * (Num + 1)

Wrapped(w, s, u) == u >= w - s
End(w, s, u) == IF Wrapped(w, s, u) THEN u - (w - s) ELSE s + u

\* _ChunkBuffer2_update_input
Bug_Free(w, s, u) == Size - End(w, s, u)
Free(w, s, u) == (IF Wrapped(w, s, u) THEN s ELSE Size) - End(w, s, u)
HasRoom(w, s, u) == Size - End(w, s, u) - 1 >= MtuBlocks /\ Free(w, s, u) > 0
UpdateInput ==
    IF HasRoom(wrap', start', used')
      THEN /\ input_dest' = End(wrap', start', used') + 1
           /\ input_avail' = (Free(wrap', start', used') - 1) * 4
      ELSE input_dest' = NULL /\ input_avail' = -1

\* _ChunkBuffer2_update_output
UpdateOutput ==
    IF used' > 0
      THEN output_dest' = start' + 1 /\ output_avail' = mem'[start']
      ELSE output_dest' = NULL /\ output_avail' = -1

\* ChunkBuffer2_Init and PacketBuffer_Init
Init ==
    /\ mem = [b \in 0 .. Size - 1 |-> Junk]
    /\ wrap = Size /\ start = 0 /\ used = 0
    /\ input_dest = 1 /\ input_avail = (Size - 1) * 4
    /\ output_dest = NULL /\ output_avail = -1
    /\ recv = input_dest /\ send = NULL /\ sendLen = 0
    /\ at = <<>>

-----------------------------------------------------------------------------
\* ChunkBuffer2_SubmitPacket: the data is where Recv wrote it, the header
\* goes to the end.
WrapAfter(end, u) ==
    IF u <= wrap - start /\ MtuBlocks > Size - end - 1 THEN end ELSE wrap

Written(packet) ==
    LET end == End(wrap, start, used)
    IN  [b \in 0 .. Size - 1 |->
           IF b = end THEN packet[0]
           ELSE IF b \in recv .. recv + Blocks(packet[0]) - 1
                  THEN packet[b - recv + 1]
                  ELSE mem[b]]

SubmitPacket(packet) ==
    LET end == End(wrap, start, used)
        blocklen == Blocks(packet[0])
    IN  /\ mem' = Written(packet)
        /\ used' = used + 1 + blocklen
        /\ wrap' = WrapAfter(end + 1 + blocklen, used + 1 + blocklen)
        /\ start' = start
        /\ UpdateInput
        /\ IF used = 0 THEN UpdateOutput
                       ELSE UNCHANGED <<output_dest, output_avail>>
        /\ at' = Append(at, end)

\* ChunkBuffer2_ConsumePacket
Bug_WrapReset == wrap
WrapReset == Size

ConsumePacket ==
    LET next == start + 1 + Blocks(mem[start])
    IN  /\ used' = used - (1 + Blocks(mem[start]))
        /\ IF next = wrap THEN start' = 0 /\ wrap' = WrapReset
                          ELSE start' = next /\ wrap' = wrap
        /\ mem' = mem
        /\ IF Wrapped(wrap, start, used)
             THEN UpdateInput
             ELSE UNCHANGED <<input_dest, input_avail>>
        /\ UpdateOutput
        /\ at' = Tail(at)

-----------------------------------------------------------------------------
\* input_handler_done: the input has written a packet.
InputDone(packet) ==
    /\ recv # NULL
    /\ SubmitPacket(packet)
    /\ recv' = IF input_avail' >= Mtu THEN input_dest' ELSE NULL
    /\ IF output_avail < 0
         THEN send' = output_dest' /\ sendLen' = output_avail'
         ELSE UNCHANGED <<send, sendLen>>

\* output_handler_done: the output has taken the packet.
Bug_WasFull == input_avail < 0
WasFull == input_avail < Mtu
OutputDone ==
    /\ send # NULL
    /\ ConsumePacket
    /\ recv' = IF WasFull /\ input_avail' >= Mtu THEN input_dest' ELSE recv
    /\ IF output_avail' >= 0
         THEN send' = output_dest' /\ sendLen' = output_avail'
         ELSE send' = NULL /\ sendLen' = 0

Next == OutputDone \/ \E packet \in Packets : InputDone(packet)

Spec == Init /\ [][Next]_vars
=============================================================================
