------------------------ MODULE PacketBufferProperties -----------------------
(***************************************************************************)
(* What ChunkBuffer2 asserts of its ring in debug builds, and what a       *)
(* PacketBuffer promises to its two sides.                                 *)
(***************************************************************************)
EXTENDS PacketBuffer

\* _ChunkBuffer2_assert_buffer, which builds without NDEBUG evaluate around
\* every operation, with the types of the rest.
TypeOK ==
    /\ mem \in [0 .. Size - 1 -> Nat]
    /\ wrap \in 1 .. Size /\ start \in 0 .. wrap - 1 /\ used \in 0 .. wrap
    /\ wrap = Size \/ Wrapped(wrap, start, used)
    /\ input_avail \in Nat \cup {-1} /\ output_avail \in Nat \cup {-1}
    /\ at \in Seq(0 .. Size - 1)

\* The blocks of the packet whose header is block b.
Extent(b) == b .. b + Blocks(mem[b])

\* While the input may write a packet, header and MtuBlocks of data behind it
\* lie in the memory and touch no packet that is still held: whatever the
\* order of lengths, nothing is overwritten before it was sent.
RoomIsFree ==
    recv # NULL =>
        LET room == recv - 1 .. recv - 1 + MtuBlocks
        IN  /\ recv = End(wrap, start, used) + 1
            /\ room \subseteq 0 .. Size - 1
            /\ \A i \in 1 .. Len(at) : room \cap Extent(at[i]) = {}

\* The packet whose header is block b, read from the memory.
PacketAt(b) == [k \in 0 .. Blocks(mem[b]) |-> mem[b + k]]
Held == [i \in 1 .. Len(at) |-> PacketAt(at[i])]
Sending ==
    IF send = NULL THEN <<>>
    ELSE <<[k \in 0 .. Blocks(sendLen) |-> IF k = 0 THEN sendLen
                                           ELSE mem[send + k - 1]]>>

Q == INSTANCE PacketQueue WITH queue <- Held, offered <- Sending,
                               accepting <- recv # NULL

\* The memory read as a queue behaves as one: first in, first out, every
\* packet whole, the first always on its way to the output, and the input
\* refused only while at least num_packets are held ("a buffer size needed
\* to hold at least 'num' packets", ChunkBuffer2.h).
ImplementsQueue == Q!Spec

-----------------------------------------------------------------------------
(* The inductive invariant behind the three. The packets held form a chain *)
(* from start to the end of the ring; those before start came after the    *)
(* wrap.                                                                   *)
Around == Wrapped(wrap, start, used)
Tip == End(wrap, start, used)             \* where the next header goes
Over(b) == b + 1 + Blocks(mem[b])         \* the block behind the packet at b
After(b) == IF Over(b) = wrap THEN 0 ELSE Over(b)
Upper(i) == at[i] >= start

\* There is always room for an MTU up to the end of the memory: the branch of
\* _ChunkBuffer2_update_input for "never possible" is not taken.
RingInv ==
    /\ start <= Size - 1 - MtuBlocks /\ Tip <= Size - 1 - MtuBlocks
    /\ wrap >= Size - MtuBlocks

ChainInv ==
    /\ at = <<>> <=> used = 0
    /\ at # <<>> => at[1] = start /\ After(at[Len(at)]) = Tip
    /\ \A i \in 1 .. Len(at) - 1 : at[i + 1] = After(at[i])

PacketInv ==
    \A i \in 1 .. Len(at) :
        /\ at[i] <= Size - 1 - MtuBlocks /\ Blocks(mem[at[i]]) <= MtuBlocks
        /\ IF Upper(i) THEN Over(at[i]) <= (IF Around THEN wrap ELSE Tip)
                       ELSE Around /\ Over(at[i]) <= Tip

\* The packets of a part lie in the order they came.
OrderInv ==
    \A i, j \in 1 .. Len(at) :
        i < j => \/ Upper(i) /\ ~Upper(j)
                 \/ (Upper(i) <=> Upper(j)) /\ Over(at[i]) <= at[j]

\* A packet takes at most a header and an MTU: what lies from the i-th packet
\* to the end of the ring is not more than that for each packet.
Behind(i) == IF Upper(i) THEN used - (at[i] - start) ELSE Tip - at[i]
CountInv ==
    \A i \in 1 .. Len(at) : Behind(i) <= (1 + MtuBlocks) * (Len(at) + 1 - i)

\* What the two interfaces were given is what the ring says.
IoInv ==
    /\ IF HasRoom(wrap, start, used)
         THEN input_dest = Tip + 1
              /\ input_avail = (Free(wrap, start, used) - 1) * 4
         ELSE input_dest = NULL /\ input_avail = -1
    /\ IF used > 0
         THEN output_dest = start + 1 /\ output_avail = mem[start]
         ELSE output_dest = NULL /\ output_avail = -1
    /\ recv = IF input_avail >= Mtu THEN input_dest ELSE NULL
    /\ send = output_dest
    /\ sendLen = IF used > 0 THEN output_avail ELSE 0

IInv == TypeOK /\ RingInv /\ ChainInv /\ PacketInv /\ OrderInv /\ CountInv /\ IoInv
=============================================================================
