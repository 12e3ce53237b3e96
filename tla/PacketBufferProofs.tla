-------------------------- MODULE PacketBufferProofs --------------------------
(***************************************************************************)
(* Proofs about PacketBuffer for any MTU, number of packets and contents:  *)
(* the asserts of ChunkBuffer2 hold, the input never writes over a packet  *)
(* that is held, and the ring is a queue. The lemmas say first what a step *)
(* does to the ring's three numbers, then to the memory, then to the chain *)
(* of packets; the theorems put them together.                             *)
(***************************************************************************)
EXTENDS PacketBufferProperties, SequenceTheorems, TLAPS

-----------------------------------------------------------------------------
(* Numbers. *)

LEMMA BlocksType ==
    /\ \A len \in Nat : /\ Blocks(len) \in Nat
                        /\ 4 * Blocks(len) >= len /\ 4 * Blocks(len) <= len + 3
    /\ MtuBlocks \in Nat
    /\ \A len \in 0 .. Mtu : Blocks(len) <= MtuBlocks
  BY BufferAssumption DEF Blocks, MtuBlocks

LEMMA SizeProduct ==
    /\ Size \in Nat /\ Size >= 2 * (1 + MtuBlocks)
    /\ Size = (1 + MtuBlocks) * (Num - 1) + 2 * (1 + MtuBlocks)
<1> DEFINE c == MtuBlocks
<1>1. c \in Nat /\ Num \in Nat \ {0}
  BY BlocksType, BufferAssumption
<1> HIDE DEF c
<1>2. PICK m \in Nat : Num = m + 1
  BY <1>1
<1>3. (1 + c) * (m + 2) = (1 + c) * m + 2 * (1 + c) /\ (1 + c) * m \in Nat
  BY <1>1
<1> QED
  BY <1>1, <1>2, <1>3 DEF Size, c

LEMMA SizeType ==
    MtuBlocks \in Nat /\ Size \in Nat /\ Size >= MtuBlocks + MtuBlocks + 2
<1> DEFINE c == MtuBlocks
<1>1. c \in Nat /\ Size \in Nat /\ Size >= 2 * (1 + c)
  BY BlocksType, SizeProduct
<1> HIDE DEF c
<1>2. Size >= c + c + 2
  BY <1>1
<1> QED
  BY <1>1, <1>2 DEF c

\* Where the ring's end is, on either side of the wrap.
LEMMA TipType ==
    ASSUME TypeOK
    PROVE  /\ Around \in BOOLEAN /\ Tip \in Nat
           /\ Around => Tip = used - (wrap - start) /\ Tip <= start
           /\ ~Around => Tip = start + used /\ Tip < wrap /\ wrap = Size
  BY SizeType DEF TypeOK, Around, Tip, End, Wrapped

\* A header of the chain and its packet are in the memory, and on their side.
LEMMA HeaderType ==
    ASSUME TypeOK, PacketInv, NEW i \in 1 .. Len(at)
    PROVE  /\ at[i] \in 0 .. Size - 1 /\ mem[at[i]] \in Nat
           /\ Blocks(mem[at[i]]) \in 0 .. MtuBlocks
           /\ Over(at[i]) = at[i] + 1 + Blocks(mem[at[i]])
           /\ Over(at[i]) \in Nat /\ Over(at[i]) <= Size
<1>1. at[i] \in 0 .. Size - 1
  BY ElementOfSeq DEF TypeOK
<1>2. mem[at[i]] \in Nat
  BY <1>1 DEF TypeOK
<1>3. Blocks(mem[at[i]]) \in Nat /\ Blocks(mem[at[i]]) <= MtuBlocks
  BY <1>2, BlocksType DEF PacketInv
<1>4. at[i] <= Size - 1 - MtuBlocks
  BY DEF PacketInv
<1> QED
  BY <1>1, <1>2, <1>3, <1>4, SizeType DEF Over

LEMMA LenAt == ASSUME TypeOK PROVE Len(at) \in Nat /\ (at = <<>> <=> Len(at) = 0)
  BY LenProperties, EmptySeq DEF TypeOK

LEMMA PacketType ==
    ASSUME NEW packet \in Packets
    PROVE  /\ packet[0] \in Nat /\ packet \in [0 .. Blocks(packet[0]) -> Nat]
           /\ Blocks(packet[0]) \in 0 .. MtuBlocks
<1>1. packet[0] \in 0 .. Mtu /\ packet \in [0 .. Blocks(packet[0]) -> Nat]
  BY BufferAssumption
<1>2. packet[0] \in Nat
  BY <1>1, BufferAssumption
<1> DEFINE len == packet[0]
<1> HIDE DEF len
<1>3. \A l \in Nat : Blocks(l) \in Nat
  BY BlocksType
<1>4. len \in 0 .. Mtu /\ len \in Nat
  BY <1>1, <1>2 DEF len
<1>5. Blocks(len) \in Nat /\ Blocks(len) <= MtuBlocks /\ MtuBlocks \in Nat
  BY <1>3, <1>4, BlocksType
<1> QED
  BY <1>1, <1>2, <1>5 DEF len

\* A Recv is outstanding exactly while a header and an MTU fit behind the end.
LEMMA RoomType ==
    ASSUME TypeOK, RingInv, IoInv
    PROVE  /\ recv # NULL =>
                /\ recv = Tip + 1
                /\ Around => Tip + 1 + MtuBlocks <= start
                /\ ~Around => Tip + 1 + MtuBlocks <= Size
           /\ recv = NULL => Around /\ start - Tip <= MtuBlocks
<1> DEFINE free == Free(wrap, start, used)
           c == MtuBlocks
<1>1. c \in Nat /\ 4 * c >= Mtu /\ 4 * c <= Mtu + 3 /\ Mtu \in Nat /\ Size \in Nat
  BY BlocksType, SizeType, BufferAssumption DEF MtuBlocks
<1>2. free = (IF Around THEN start ELSE Size) - Tip
  BY DEF Free, Around, Tip
<1>3. free \in Int
  BY <1>1, <1>2, TipType DEF TypeOK
<1>4. HasRoom(wrap, start, used) <=> free > 0
  BY <1>1, <1>2, TipType DEF HasRoom, RingInv, Tip
<1> HIDE DEF free, c
<1>5. recv # NULL => free - 1 >= c /\ recv = Tip + 1
  BY <1>1, <1>3, <1>4 DEF IoInv, NULL, free
<1>6. recv = NULL => free - 1 < c
  <2> SUFFICES ASSUME free - 1 >= c PROVE recv # NULL
    BY <1>1, <1>3
  <2>1. input_avail = (free - 1) * 4 /\ input_dest = Tip + 1
    BY <1>1, <1>3, <1>4 DEF IoInv, free
  <2>2. input_avail >= Mtu
    BY <2>1, <1>1, <1>3
  <2> QED
    BY <2>1, <2>2, TipType DEF IoInv, NULL
<1>7. /\ start \in Nat /\ Tip \in Nat /\ Around \in BOOLEAN
      /\ Tip <= Size - 1 - c
  BY TipType, SizeType DEF TypeOK, RingInv, c
<1>8. CASE Around
  BY <1>1, <1>2, <1>3, <1>5, <1>6, <1>7, <1>8 DEF c
<1>9. CASE ~Around
  BY <1>1, <1>2, <1>3, <1>5, <1>6, <1>7, <1>9 DEF c
<1> QED
  BY <1>7, <1>8, <1>9

\* Submit in numbers: k blocks are added at the end e of a ring with room for
\* 1 + c, in a memory of z blocks.
Fits(z, c, w, s, u, k, e, w2) ==
    /\ z \in Nat /\ c \in Nat /\ w \in Nat /\ s \in Nat /\ u \in Nat
    /\ k \in Nat /\ k >= 1 /\ k <= 1 + c
    /\ w <= z /\ s < w /\ u <= w /\ (w = z \/ Wrapped(w, s, u))
    /\ s <= z - 1 - c
    /\ e = End(w, s, u)
    /\ e + 1 + c <= (IF Wrapped(w, s, u) THEN s ELSE z)
    /\ w2 = IF u + k <= w - s /\ c > z - (e + k) - 1 THEN e + k ELSE w

LEMMA SubmitNumbers ==
    ASSUME NEW z, NEW c, NEW w, NEW s, NEW u, NEW k, NEW e, NEW w2,
           Fits(z, c, w, s, u, k, e, w2)
    PROVE  /\ w2 \in Nat /\ 1 <= w2 /\ w2 <= z /\ s < w2 /\ u + k <= w2
           /\ w2 = z \/ Wrapped(w2, s, u + k)
           /\ Wrapped(w, s, u) =>
                /\ Wrapped(w2, s, u + k) /\ w2 = w
                /\ End(w2, s, u + k) = e + k
                /\ e + k <= s
           /\ ~Wrapped(w, s, u) =>
                /\ e + k <= z
                /\ \/ ~Wrapped(w2, s, u + k) /\ w2 = w
                      /\ End(w2, s, u + k) = e + k
                      /\ e + k <= z - 1 - c
                   \/ Wrapped(w2, s, u + k) /\ w2 = e + k
                      /\ End(w2, s, u + k) = 0 /\ e + k >= z - c
<1>1. CASE u >= w - s
  <2>1. w2 = w
    BY <1>1 DEF Fits
  <2> QED
    BY <1>1, <2>1 DEF Fits, Wrapped, End
<1>2. CASE u < w - s
  <2>1. e = s + u /\ ~Wrapped(w, s, u) /\ w = z
    BY <1>2 DEF Fits, Wrapped, End
  <2>2. s + u + k <= z /\ u + k <= w - s
    BY <1>2, <2>1 DEF Fits
  <2>3. CASE c > z - (s + u + k) - 1
    <3>1. w2 = s + u + k
      BY <2>1, <2>2, <2>3 DEF Fits
    <3> QED
      BY <2>1, <2>2, <2>3, <3>1 DEF Fits, Wrapped, End
  <2>4. CASE c <= z - (s + u + k) - 1
    <3>1. w2 = w
      BY <2>1, <2>4 DEF Fits
    <3> QED
      BY <2>1, <2>2, <2>4, <3>1 DEF Fits, Wrapped, End
  <2> QED
    BY <2>1, <2>3, <2>4 DEF Fits
<1> QED
  BY <1>1, <1>2 DEF Fits

\* Consume in numbers: o is the block behind the first packet.
LEMMA ConsumeNumbers ==
    ASSUME NEW z \in Nat, NEW w \in Nat, NEW s \in Nat, NEW u \in Nat,
           w <= z, s < w, u <= w, w = z \/ Wrapped(w, s, u),
           NEW o \in Nat, o > s,
           o <= (IF Wrapped(w, s, u) THEN w ELSE End(w, s, u)),
           End(w, s, u) < z,
           NEW s2, s2 = IF o = w THEN 0 ELSE o,
           NEW w2, w2 = IF o = w THEN z ELSE w
    PROVE  /\ u - (o - s) \in Nat /\ u - (o - s) <= w2 /\ s2 \in Nat
           /\ w2 \in Nat /\ 1 <= w2 /\ w2 <= z /\ s2 < w2
           /\ w2 = z \/ Wrapped(w2, s2, u - (o - s))
           /\ End(w2, s2, u - (o - s)) = End(w, s, u)
           /\ o # w => (Wrapped(w2, s2, u - (o - s)) <=> Wrapped(w, s, u))
           /\ o = w => /\ Wrapped(w, s, u)
                       /\ ~Wrapped(w2, s2, u - (o - s))
<1>1. CASE o = w
  <2>1. s2 = 0 /\ w2 = z
    BY <1>1
  <2>2. u >= w - s
    BY <1>1 DEF Wrapped, End
  <2> QED
    BY <1>1, <2>1, <2>2 DEF Wrapped, End
<1>2. CASE o # w
  <2>1. s2 = o /\ w2 = w
    BY <1>2
  <2>2. CASE u >= w - s
    BY <1>2, <2>1, <2>2 DEF Wrapped, End
  <2>3. CASE u < w - s
    BY <1>2, <2>1, <2>3 DEF Wrapped, End
  <2> QED
    BY <2>2, <2>3
<1> QED
  BY <1>1, <1>2

-----------------------------------------------------------------------------
(* What a step does to the three numbers of the ring. *)

Types == TypeOK /\ RingInv /\ IoInv

\* The numbers after a step keep the asserts of _ChunkBuffer2_assert_buffer.
Numbers ==
    /\ wrap \in 1 .. Size /\ start \in 0 .. wrap - 1 /\ used \in 0 .. wrap
    /\ wrap = Size \/ Around

\* Submit moves the end behind the packet, and wraps the ring where an MTU
\* would no longer fit behind it.
LEMMA SubmitRing ==
    ASSUME Types, NEW packet \in Packets, InputDone(packet),
           NEW k, k = 1 + Blocks(packet[0])
    PROVE  /\ k \in 1 .. 1 + MtuBlocks /\ start' = start /\ used' = used + k
           /\ Numbers'
           /\ Around =>
                /\ Around' /\ wrap' = wrap /\ Tip' = Tip + k /\ Tip' <= start
           /\ ~Around =>
                /\ wrap = Size /\ Tip + k <= Size
                /\ \/ ~Around' /\ wrap' = wrap /\ Tip' = Tip + k
                      /\ Tip + k <= Size - 1 - MtuBlocks
                   \/ Around' /\ wrap' = Tip + k /\ Tip' = 0
                      /\ Tip + k >= Size - MtuBlocks
<1>1. k \in Nat /\ k >= 1 /\ k <= 1 + MtuBlocks /\ Blocks(packet[0]) = k - 1
  BY PacketType, SizeType
<1>2. /\ wrap \in Nat /\ start \in Nat /\ used \in Nat
      /\ wrap <= Size /\ start < wrap /\ used <= wrap
      /\ wrap = Size \/ Wrapped(wrap, start, used)
      /\ MtuBlocks \in Nat /\ Size \in Nat /\ Tip \in Nat
      /\ start <= Size - 1 - MtuBlocks
  BY SizeType, TipType DEF Types, TypeOK, RingInv
<1>3. /\ start' = start /\ used' = used + k
      /\ wrap' = IF used + k <= wrap - start /\ MtuBlocks > Size - (Tip + k) - 1
                   THEN Tip + k ELSE wrap
  <2>1. /\ start' = start /\ used' = used + 1 + Blocks(packet[0])
        /\ wrap' = WrapAfter(Tip + 1 + Blocks(packet[0]),
                             used + 1 + Blocks(packet[0]))
    BY DEF InputDone, SubmitPacket, Tip
  <2>2. /\ used + 1 + Blocks(packet[0]) = used + k
        /\ Tip + 1 + Blocks(packet[0]) = Tip + k
    BY <1>1, <1>2
  <2> QED
    BY <2>1, <2>2 DEF WrapAfter
<1>4. Tip + 1 + MtuBlocks <= (IF Around THEN start ELSE Size)
  BY RoomType DEF Types, InputDone
<1> DEFINE w2 == wrap'
<1>5. w2 = IF used + k <= wrap - start /\ MtuBlocks > Size - (Tip + k) - 1
             THEN Tip + k ELSE wrap
  BY <1>3
<1>6. /\ Around' <=> Wrapped(w2, start, used + k)
      /\ Tip' = End(w2, start, used + k)
  BY <1>3 DEF Around, Tip
<1> HIDE DEF w2
<1>7. /\ w2 \in Nat /\ 1 <= w2 /\ w2 <= Size /\ start < w2 /\ used + k <= w2
      /\ w2 = Size \/ Wrapped(w2, start, used + k)
      /\ Around =>
           /\ Wrapped(w2, start, used + k) /\ w2 = wrap
           /\ End(w2, start, used + k) = Tip + k /\ Tip + k <= start
      /\ ~Around =>
           /\ Tip + k <= Size
           /\ \/ ~Wrapped(w2, start, used + k) /\ w2 = wrap
                 /\ End(w2, start, used + k) = Tip + k
                 /\ Tip + k <= Size - 1 - MtuBlocks
              \/ Wrapped(w2, start, used + k) /\ w2 = Tip + k
                 /\ End(w2, start, used + k) = 0
                 /\ Tip + k >= Size - MtuBlocks
  <2>1. Fits(Size, MtuBlocks, wrap, start, used, k, Tip, w2)
    BY <1>1, <1>2, <1>4, <1>5 DEF Fits, Around, Tip
  <2> QED
    BY <2>1, SubmitNumbers DEF Around
<1>8. Numbers'
  <2>1. wrap' = w2 /\ start' = start /\ used' = used + k
    BY <1>3 DEF w2
  <2>2. w2 \in 1 .. Size /\ start \in 0 .. w2 - 1 /\ used + k \in 0 .. w2
    BY <1>1, <1>2, <1>7
  <2>3. w2 = Size \/ Around'
    BY <1>6, <1>7
  <2> QED
    BY <2>1, <2>2, <2>3 DEF Numbers
<1>9. k \in 1 .. 1 + MtuBlocks /\ (~Around => wrap = Size)
  BY <1>1, <1>2 DEF Around
<1>10. w2 = wrap'
  BY DEF w2
<1> QED
  BY <1>3, <1>6, <1>7, <1>8, <1>9, <1>10

\* Consume leaves the end where it is, and unwraps a ring whose upper part it
\* emptied.
LEMMA ConsumeRing ==
    ASSUME Types, ChainInv, PacketInv, OutputDone
    PROVE  /\ at # <<>> /\ at[1] = start /\ used > 0 /\ Over(start) > start
           /\ used' = used - (Over(start) - start) /\ Tip' = Tip
           /\ Numbers'
           /\ \/ Over(start) # wrap /\ start' = Over(start) /\ wrap' = wrap
                 /\ (Around' <=> Around)
                 /\ Over(start) <= (IF Around THEN wrap ELSE Tip)
              \/ Over(start) = wrap /\ Around /\ ~Around'
                 /\ start' = 0 /\ wrap' = Size
<1>1. at # <<>> /\ at[1] = start /\ used > 0
  <2>1. used # 0
    BY DEF OutputDone, Types, IoInv, TypeOK
  <2> QED
    BY <2>1 DEF ChainInv, Types, TypeOK
<1>2. 1 \in 1 .. Len(at)
  BY <1>1, LenAt DEF Types
<1>3. /\ wrap \in 1 .. Size /\ start \in 0 .. wrap - 1 /\ used \in 0 .. wrap
      /\ MtuBlocks \in Nat /\ Size \in Nat /\ Tip \in Nat /\ Around \in BOOLEAN
      /\ Tip <= Size - 1 - MtuBlocks
  BY SizeType, TipType DEF Types, TypeOK, RingInv
<1>4. /\ Over(start) = start + 1 + Blocks(mem[start])
      /\ Blocks(mem[start]) \in Nat /\ Over(start) \in Nat
      /\ Over(start) <= (IF Around THEN wrap ELSE Tip)
  <2>1. Upper(1)
    BY <1>1, <1>3 DEF Upper
  <2> QED
    BY <1>1, <1>2, <2>1, HeaderType DEF Types, PacketInv
<1> DEFINE o == Over(start)
<1>5. /\ used' = used - (o - start)
      /\ IF o = wrap THEN start' = 0 /\ wrap' = Size
                     ELSE start' = o /\ wrap' = wrap
  <2>1. o = start + 1 + Blocks(mem[start])
    BY <1>4
  <2>2. o - start = 1 + Blocks(mem[start])
    BY <1>3, <1>4
  <2> QED
    BY <2>1, <2>2 DEF OutputDone, ConsumePacket, WrapReset
<1>6. o \in Nat /\ o > start /\ o <= (IF Around THEN wrap ELSE Tip)
  BY <1>3, <1>4
<1> DEFINE u2 == used - (o - start)
           s2 == IF o = wrap THEN 0 ELSE o
           w2 == IF o = wrap THEN Size ELSE wrap
<1>7. /\ u2 \in Nat /\ u2 <= w2 /\ s2 \in Nat
      /\ w2 \in Nat /\ 1 <= w2 /\ w2 <= Size /\ s2 < w2
      /\ w2 = Size \/ Wrapped(w2, s2, u2)
      /\ End(w2, s2, u2) = Tip
      /\ o # wrap => (Wrapped(w2, s2, u2) <=> Around)
      /\ o = wrap => Around /\ ~Wrapped(w2, s2, u2)
  <2> HIDE DEF o
  <2>1. /\ wrap = Size \/ Wrapped(wrap, start, used)
        /\ o <= (IF Wrapped(wrap, start, used) THEN wrap
                 ELSE End(wrap, start, used))
        /\ End(wrap, start, used) < Size
    BY <1>3, <1>6 DEF Types, TypeOK, Around, Tip
  <2> QED
    BY SMTT(60), <1>3, <1>6, <2>1, ConsumeNumbers DEF Around, Tip
<1>8. used' = u2 /\ start' = s2 /\ wrap' = w2
  BY <1>5
<1>9. (Around' <=> Wrapped(w2, s2, u2)) /\ Tip' = End(w2, s2, u2)
  <2> HIDE DEF u2, s2, w2
  <2> QED
    BY <1>8 DEF Around, Tip
<1>10. Numbers'
  <2> HIDE DEF u2, s2, w2
  <2> QED
    BY <1>3, <1>7, <1>8, <1>9 DEF Numbers
<1>11. o = wrap => /\ Around /\ ~Around' /\ start' = 0 /\ wrap' = Size
  BY <1>5, <1>7, <1>9
<1>12. o # wrap => start' = o /\ wrap' = wrap /\ (Around' <=> Around)
  BY <1>5, <1>7, <1>9
<1>13. Tip' = Tip
  BY <1>7, <1>9
<1> HIDE DEF o, u2, s2, w2
<1> QED
  BY <1>1, <1>5, <1>6, <1>10, <1>11, <1>12, <1>13 DEF o

-----------------------------------------------------------------------------
(* What Submit does to the memory and to the packets held. *)

\* The packet is in the memory as the input wrote it, and nothing else changed.
LEMMA SubmitMemory ==
    ASSUME Types, NEW packet \in Packets, InputDone(packet)
    PROVE  /\ mem' \in [0 .. Size - 1 -> Nat]
           /\ \A j \in 0 .. Blocks(packet[0]) :
                 Tip + j \in 0 .. Size - 1 /\ mem'[Tip + j] = packet[j]
           /\ \A b \in 0 .. Size - 1 :
                 b \notin Tip .. Tip + MtuBlocks => mem'[b] = mem[b]
<1> DEFINE n == Blocks(packet[0])
<1>1. /\ n \in Nat /\ n <= MtuBlocks /\ MtuBlocks \in Nat
      /\ packet \in [0 .. n -> Nat]
  BY PacketType, SizeType
<1>2. Tip \in Nat /\ Tip + MtuBlocks <= Size - 1 /\ Size \in Nat
  BY TipType, SizeType DEF Types, RingInv
<1>3. recv = Tip + 1
  BY RoomType DEF Types, InputDone
<1>4. mem' = [b \in 0 .. Size - 1 |->
                IF b = Tip THEN packet[0]
                ELSE IF b \in Tip + 1 .. Tip + 1 + n - 1
                       THEN packet[b - (Tip + 1) + 1] ELSE mem[b]]
  BY <1>3 DEF InputDone, SubmitPacket, Written, Tip
<1> HIDE DEF n
<1>5. \A b \in 0 .. Size - 1 :
         IF b \in Tip .. Tip + n
           THEN mem'[b] = packet[b - Tip] /\ b - Tip \in 0 .. n
           ELSE mem'[b] = mem[b]
  <2> SUFFICES ASSUME NEW b \in 0 .. Size - 1
               PROVE  IF b \in Tip .. Tip + n
                        THEN mem'[b] = packet[b - Tip] /\ b - Tip \in 0 .. n
                        ELSE mem'[b] = mem[b]
    OBVIOUS
  <2>1. CASE b = Tip
    BY <1>1, <1>2, <1>4, <2>1
  <2>2. CASE b \in Tip + 1 .. Tip + n
    <3>1. b # Tip /\ b \in Tip + 1 .. Tip + 1 + n - 1 /\ b - (Tip + 1) + 1 = b - Tip
      BY <1>1, <1>2, <2>2
    <3>2. mem'[b] = packet[b - Tip]
      BY <1>4, <3>1
    <3> QED
      BY <1>1, <1>2, <2>2, <3>2
  <2>3. CASE b \notin Tip .. Tip + n
    <3>1. b # Tip /\ b \notin Tip + 1 .. Tip + 1 + n - 1
      BY <1>1, <1>2, <2>3
    <3> QED
      BY <1>4, <2>3, <3>1
  <2> QED
    BY <1>1, <1>2, <2>1, <2>2, <2>3
<1>6. \A b \in 0 .. Size - 1 : mem'[b] \in Nat
  <2>1. \A b \in 0 .. Size - 1 : mem[b] \in Nat
    BY DEF Types, TypeOK
  <2> QED
    BY <1>1, <1>5, <2>1
<1>7. mem' \in [0 .. Size - 1 -> Nat]
  <2>1. mem' = [b \in 0 .. Size - 1 |-> mem'[b]]
    BY <1>4
  <2> QED
    BY <1>6, <2>1
<1>8. \A j \in 0 .. n : Tip + j \in 0 .. Size - 1 /\ mem'[Tip + j] = packet[j]
  <2> SUFFICES ASSUME NEW j \in 0 .. n
               PROVE  Tip + j \in 0 .. Size - 1 /\ mem'[Tip + j] = packet[j]
    OBVIOUS
  <2> DEFINE b == Tip + j
  <2>1. b \in 0 .. Size - 1 /\ b \in Tip .. Tip + n /\ b - Tip = j
    BY <1>1, <1>2
  <2> HIDE DEF b
  <2>2. mem'[b] = packet[b - Tip]
    BY <1>5, <2>1
  <2>3. mem'[b] = packet[j]
    BY <2>1, <2>2
  <2> QED
    BY <2>1, <2>3 DEF b
<1>9. \A b \in 0 .. Size - 1 :
         b \notin Tip .. Tip + MtuBlocks => mem'[b] = mem[b]
  <2> SUFFICES ASSUME NEW b \in 0 .. Size - 1, b \notin Tip .. Tip + MtuBlocks
               PROVE  mem'[b] = mem[b]
    OBVIOUS
  <2>1. b \notin Tip .. Tip + n
    BY <1>1, <1>2
  <2> QED
    BY <1>5, <2>1
<1> QED
  BY <1>7, <1>8, <1>9 DEF n

\* While a Recv is outstanding its room touches no packet that is held.
LEMMA HeldApart ==
    ASSUME Types, PacketInv, recv # NULL, NEW i \in 1 .. Len(at)
    PROVE  /\ Extent(at[i]) \subseteq 0 .. Size - 1
           /\ Extent(at[i]) \cap (Tip .. Tip + MtuBlocks) = {}
<1> DEFINE a == at[i]
           o == Over(at[i])
<1>1. /\ a \in Nat /\ o \in Nat /\ o <= Size /\ a < o
      /\ Extent(a) = a .. o - 1
  <2>1. /\ a \in Nat /\ Blocks(mem[a]) \in Nat /\ o = a + 1 + Blocks(mem[a])
        /\ o \in Nat /\ o <= Size
    BY HeaderType, SizeType DEF Types
  <2> HIDE DEF a, o
  <2>2. o - 1 = a + Blocks(mem[a]) /\ a < o
    BY <2>1
  <2> QED
    BY <2>1, <2>2 DEF Extent
<1>2. /\ MtuBlocks \in Nat /\ Size \in Nat /\ Tip \in Nat /\ start \in Nat
      /\ Around => Tip + 1 + MtuBlocks <= start
  BY SizeType, TipType, RoomType DEF Types, TypeOK
<1>3. IF a >= start THEN o <= (IF Around THEN wrap ELSE Tip)
                    ELSE Around /\ o <= Tip
  BY DEF PacketInv, Upper
<1> HIDE DEF a, o
<1>4. a > Tip + MtuBlocks \/ o <= Tip
  BY <1>1, <1>2, <1>3
<1>5. a .. o - 1 \subseteq 0 .. Size - 1
  BY <1>1, <1>2
<1>6. (a .. o - 1) \cap (Tip .. Tip + MtuBlocks) = {}
  BY <1>1, <1>2, <1>4
<1> QED
  BY <1>1, <1>5, <1>6 DEF a

\* The packets that were held stay where and what they are, on their side of
\* start; the new one is the last, at the end of the ring.
LEMMA SubmitHeld ==
    ASSUME Types, PacketInv, NEW packet \in Packets, InputDone(packet)
    PROVE  /\ at' = Append(at, Tip) /\ at' \in Seq(0 .. Size - 1)
           /\ Len(at') = Len(at) + 1 /\ at'[Len(at) + 1] = Tip
           /\ \A i \in 1 .. Len(at) :
                 /\ at'[i] = at[i]
                 /\ \A b \in Extent(at[i]) : mem'[b] = mem[b]
                 /\ mem'[at[i]] = mem[at[i]]
                 /\ Over(at[i])' = Over(at[i]) /\ (Upper(i)' <=> Upper(i))
           /\ \A j : j = Len(at) + 1 =>
                 Over(at[j])' = Tip + 1 + Blocks(packet[0])
           /\ mem'[Tip] = packet[0]
<1>1. Tip \in 0 .. Size - 1 /\ MtuBlocks \in Nat
  BY TipType, SizeType DEF Types, RingInv
<1>2. at' = Append(at, Tip)
  BY DEF InputDone, SubmitPacket, Tip
<1>3. /\ at' \in Seq(0 .. Size - 1)
      /\ Len(at') = Len(at) + 1 /\ at'[Len(at) + 1] = Tip
      /\ \A i \in 1 .. Len(at) : at'[i] = at[i]
  BY <1>1, <1>2, AppendProperties DEF Types, TypeOK
<1>4. ASSUME NEW i \in 1 .. Len(at)
      PROVE  /\ \A b \in Extent(at[i]) : mem'[b] = mem[b]
             /\ at[i] \in Extent(at[i])
  <2>1. \A b \in Extent(at[i]) : mem'[b] = mem[b]
    BY HeldApart, SubmitMemory DEF InputDone
  <2>2. at[i] \in Extent(at[i])
    <3>1. at[i] \in Nat /\ Blocks(mem[at[i]]) \in Nat
      BY HeaderType, SizeType DEF Types
    <3> QED
      BY <3>1 DEF Extent
  <2> QED
    BY <2>1, <2>2
<1>5. start' = start
  BY DEF InputDone, SubmitPacket
<1>6. ASSUME NEW i \in 1 .. Len(at)
      PROVE  /\ mem'[at[i]] = mem[at[i]] /\ Over(at[i])' = Over(at[i])
             /\ (Upper(i)' <=> Upper(i))
  <2>1. mem'[at[i]] = mem[at[i]] /\ at'[i] = at[i]
    BY <1>3, <1>4
  <2> QED
    BY <1>5, <2>1 DEF Over, Upper
<1>7. mem'[Tip] = packet[0]
  <2>1. 0 \in 0 .. Blocks(packet[0]) /\ Tip + 0 = Tip
    BY <1>1, PacketType
  <2> QED
    BY <2>1, SubmitMemory
<1>8. \A j : j = Len(at) + 1 => Over(at[j])' = Tip + 1 + Blocks(packet[0])
  BY <1>3, <1>7 DEF Over
<1> QED
  BY <1>2, <1>3, <1>4, <1>6, <1>7, <1>8

-----------------------------------------------------------------------------
(* The parts of the invariant after Submit. *)

\* The facts about a packet that was held that the lemmas below share.
LEMMA HeldType ==
    ASSUME IInv, NEW i \in 1 .. Len(at)
    PROVE  /\ at[i] \in Nat /\ Over(at[i]) \in Nat /\ at[i] < Over(at[i])
           /\ at[i] <= Size - 1 - MtuBlocks
           /\ Over(at[i]) <= at[i] + 1 + MtuBlocks
           /\ IF Upper(i) THEN at[i] >= start
                               /\ Over(at[i]) <= (IF Around THEN wrap ELSE Tip)
                          ELSE at[i] < start /\ Around /\ Over(at[i]) <= Tip
<1>1. /\ at[i] \in Nat /\ Over(at[i]) = at[i] + 1 + Blocks(mem[at[i]])
      /\ Blocks(mem[at[i]]) \in Nat /\ Blocks(mem[at[i]]) <= MtuBlocks
  BY HeaderType, SizeType DEF IInv
<1>2. start \in Nat /\ MtuBlocks \in Nat
  BY SizeType DEF IInv, TypeOK
<1>3. /\ Over(at[i]) \in Nat /\ at[i] < Over(at[i])
      /\ Over(at[i]) <= at[i] + 1 + MtuBlocks
  BY <1>1, <1>2
<1>4. at[i] < start \/ at[i] >= start
  BY <1>1, <1>2
<1> QED
  BY <1>1, <1>3, <1>4 DEF IInv, PacketInv, Upper

LEMMA RingType ==
    ASSUME IInv
    PROVE  /\ wrap \in Nat /\ start \in Nat /\ used \in Nat /\ Tip \in Nat
           /\ wrap <= Size /\ start < wrap /\ used <= wrap
           /\ MtuBlocks \in Nat /\ Size \in Nat
           /\ Size >= MtuBlocks + MtuBlocks + 2
           /\ start <= Size - 1 - MtuBlocks /\ Tip <= Size - 1 - MtuBlocks
           /\ wrap >= Size - MtuBlocks
           /\ Around => Tip = used - (wrap - start) /\ Tip <= start
           /\ ~Around => Tip = start + used /\ Tip < wrap /\ wrap = Size
  BY SizeType, TipType DEF IInv, TypeOK, RingInv

LEMMA RingNat ==
    ASSUME IInv
    PROVE  /\ wrap \in Nat /\ start \in Nat /\ used \in Nat /\ Tip \in Nat
           /\ Size \in Nat /\ MtuBlocks \in Nat
  BY RingType

LEMMA SubmitRingInv ==
    ASSUME IInv, NEW packet \in Packets, InputDone(packet)
    PROVE  RingInv'
<1> DEFINE k == 1 + Blocks(packet[0])
<1>1. /\ k \in 1 .. 1 + MtuBlocks /\ start' = start
      /\ Around => wrap' = wrap /\ Tip' = Tip + k /\ Tip' <= start
      /\ ~Around => \/ wrap' = wrap /\ Tip' = Tip + k
                       /\ Tip + k <= Size - 1 - MtuBlocks
                    \/ wrap' = Tip + k /\ Tip' = 0 /\ Tip + k >= Size - MtuBlocks
  BY SubmitRing DEF IInv, Types
<1> HIDE DEF k
<1>2. /\ start' <= Size - 1 - MtuBlocks /\ Tip' <= Size - 1 - MtuBlocks
      /\ wrap' >= Size - MtuBlocks
  BY <1>1, RingType
<1> QED
  BY <1>2 DEF RingInv

\* A wrap behind the new packet does not change where the others end.
LEMMA SubmitAfter ==
    ASSUME IInv, NEW packet \in Packets, InputDone(packet),
           NEW i \in 1 .. Len(at)
    PROVE  After(at[i])' = After(at[i])
<1> DEFINE k == 1 + Blocks(packet[0])
           o == Over(at[i])
<1>1. /\ k \in 1 .. 1 + MtuBlocks
      /\ Around => wrap' = wrap
      /\ ~Around => wrap' = wrap \/ wrap' = Tip + k
  BY SubmitRing DEF IInv, Types
<1>2. o \in Nat /\ (~Around => o <= Tip)
  BY HeldType
<1>3. Over(at[i])' = o
  BY SubmitHeld DEF IInv, Types
<1> HIDE DEF k, o
<1>4. o = wrap' <=> o = wrap
  <2>1. CASE Around
    BY <1>1, <2>1
  <2>2. CASE ~Around
    <3>1. o < wrap /\ wrap \in Nat
      BY <1>2, <2>2, RingType
    <3>2. wrap' = wrap \/ o < wrap'
      BY <1>1, <1>2, <2>2, RingNat
    <3> QED
      BY <1>2, <3>1, <3>2
  <2> QED
    BY <2>1, <2>2
<1> QED
  BY <1>3, <1>4 DEF After, o

LEMMA SubmitChain ==
    ASSUME IInv, NEW packet \in Packets, InputDone(packet)
    PROVE  ChainInv'
<1> DEFINE k == 1 + Blocks(packet[0])
           n == Len(at)
<1>1. /\ k \in 1 .. 1 + MtuBlocks /\ start' = start /\ used' = used + k
      /\ Around => wrap' = wrap /\ Tip' = Tip + k /\ Tip' <= start
      /\ ~Around => \/ wrap' = wrap /\ Tip' = Tip + k
                       /\ Tip + k <= Size - 1 - MtuBlocks
                    \/ wrap' = Tip + k /\ Tip' = 0
  BY SubmitRing DEF IInv, Types
<1>2. /\ at' \in Seq(0 .. Size - 1) /\ Len(at') = n + 1 /\ at'[n + 1] = Tip
      /\ \A i \in 1 .. n : at'[i] = at[i]
      /\ \A j : j = n + 1 => Over(at[j])' = Tip + k
  <2>1. Tip + 1 + Blocks(packet[0]) = Tip + k
    BY PacketType, RingType
  <2> QED
    BY <2>1, SubmitHeld DEF IInv, Types
<1>3. n \in Nat /\ (at = <<>> <=> n = 0)
  BY LenAt DEF IInv
<1> HIDE DEF k, n
<1>4. at' # <<>> /\ used' # 0
  <2>1. at' # <<>>
    BY <1>2, <1>3, EmptySeq
  <2> QED
    BY <1>1, <2>1, RingType
<1>5. at'[1] = start'
  <2>1. CASE n = 0
    <3>1. used = 0
      BY <1>3, <2>1 DEF IInv, ChainInv
    <3>2. ~Around /\ Tip = start
      BY <3>1, RingType
    <3> QED
      BY <1>1, <1>2, <2>1, <3>2
  <2>2. CASE n # 0
    <3>1. at[1] = start /\ 1 \in 1 .. n
      BY <1>3, <2>2 DEF IInv, ChainInv
    <3> QED
      BY <1>1, <1>2, <3>1
  <2> QED
    BY <2>1, <2>2
<1>6. \A j : j = n + 1 => After(at[j])' = Tip'
  <2>1. IF Tip + k = wrap' THEN Tip' = 0 ELSE Tip' = Tip + k
    BY <1>1, RingType
  <2> QED
    BY <1>2, <2>1 DEF After
<1>7. \A i \in 1 .. n : at'[i + 1] = After(at[i])'
  <2> SUFFICES ASSUME NEW i \in 1 .. n PROVE at'[i + 1] = After(at[i])'
    OBVIOUS
  <2>1. After(at[i])' = After(at[i])
    BY SubmitAfter DEF n
  <2>2. CASE i = n
    <3>1. After(at[n]) = Tip
      BY <1>3, <2>2 DEF IInv, ChainInv, n
    <3> QED
      BY <1>2, <2>1, <2>2, <3>1
  <2>3. CASE i # n
    <3>1. i \in 1 .. n - 1 /\ i + 1 \in 1 .. n
      BY <1>3, <2>3
    <3>2. at[i + 1] = After(at[i])
      BY <3>1 DEF IInv, ChainInv, n
    <3> QED
      BY <1>2, <2>1, <3>1, <3>2
  <2> QED
    BY <2>2, <2>3
<1>8. After(at[Len(at)])' = Tip'
  <2>1. at'[Len(at')] = at'[n + 1]
    BY <1>2
  <2>2. \A j : j = n + 1 => at'[Len(at')] = at'[j]
    BY <2>1
  <2> QED
    BY <1>6, <2>2 DEF After, Over
<1>9. \A i \in 1 .. Len(at') - 1 : at'[i + 1] = After(at[i])'
  <2>1. Len(at') - 1 = n
    BY <1>2, <1>3
  <2> QED
    BY <1>7, <2>1
<1> QED
  BY <1>4, <1>5, <1>8, <1>9 DEF ChainInv

LEMMA SubmitPackets ==
    ASSUME IInv, NEW packet \in Packets, InputDone(packet)
    PROVE  PacketInv' /\ OrderInv'
<1> DEFINE k == 1 + Blocks(packet[0])
           n == Len(at)
           Sound(i) == /\ at[i] <= Size - 1 - MtuBlocks
                       /\ Blocks(mem[at[i]]) <= MtuBlocks
                       /\ IF Upper(i)
                            THEN Over(at[i]) <= (IF Around THEN wrap ELSE Tip)
                            ELSE Around /\ Over(at[i]) <= Tip
<1>1. /\ k \in 1 .. 1 + MtuBlocks /\ start' = start
      /\ Around => Around' /\ wrap' = wrap /\ Tip' = Tip + k
      /\ ~Around => \/ ~Around' /\ Tip' = Tip + k
                    \/ Around' /\ wrap' = Tip + k /\ Tip' = 0
      /\ Around => Tip + 1 + MtuBlocks <= start
  BY SubmitRing, RoomType DEF IInv, Types, InputDone
<1>2. /\ Len(at') = n + 1 /\ at'[n + 1] = Tip /\ n \in Nat
      /\ \A i \in 1 .. n : /\ at'[i] = at[i] /\ mem'[at[i]] = mem[at[i]]
                           /\ Over(at[i])' = Over(at[i])
                           /\ (Upper(i)' <=> Upper(i))
      /\ \A j : j = n + 1 => Over(at[j])' = Tip + k
      /\ mem'[Tip] = packet[0]
  <2>1. Tip + 1 + Blocks(packet[0]) = Tip + k
    BY PacketType, RingType
  <2> QED
    BY <2>1, SubmitHeld, LenAt DEF IInv, Types
<1>3. \A j : j = n + 1 => (Upper(j)' <=> ~Around)
  <2>1. Tip >= start <=> ~Around
    BY <1>1, RingType
  <2> QED
    BY <1>1, <1>2, <2>1 DEF Upper
<1>4. ASSUME NEW i \in 1 .. n PROVE Sound(i)'
  <2>1. /\ at'[i] <= Size - 1 - MtuBlocks /\ Blocks(mem'[at'[i]]) <= MtuBlocks
    BY <1>2 DEF IInv, PacketInv
  <2>2. CASE Upper(i)
    <3>1. Over(at[i]) \in Nat /\ Over(at[i]) <= (IF Around THEN wrap ELSE Tip)
      BY <2>2, HeldType
    <3> HIDE DEF k
    <3>2. Over(at[i]) <= (IF Around' THEN wrap' ELSE Tip')
      <4>1. CASE Around
        BY <1>1, <3>1, <4>1
      <4>2. CASE ~Around
        BY <1>1, <3>1, <4>2, RingNat
      <4> QED
        BY <4>1, <4>2
    <3> QED
      BY <1>2, <2>1, <2>2, <3>2
  <2>3. CASE ~Upper(i)
    <3>1. Over(at[i]) \in Nat /\ Around /\ Over(at[i]) <= Tip
      BY <2>3, HeldType
    <3> HIDE DEF k
    <3>2. Around' /\ Tip' = Tip + k
      BY <1>1, <3>1
    <3>3. Over(at[i]) <= Tip'
      BY <1>1, <3>1, <3>2, RingNat
    <3> QED
      BY <1>2, <2>1, <2>3, <3>2, <3>3
  <2> QED
    BY <2>2, <2>3
<1>5. ASSUME NEW j, j = n + 1 PROVE Sound(j)'
  <2>1. at'[j] <= Size - 1 - MtuBlocks /\ Blocks(mem'[at'[j]]) <= MtuBlocks
    <3>1. at'[j] = Tip /\ mem'[at'[j]] = packet[0]
      BY <1>2, <1>5
    <3> QED
      BY <3>1, RingType, PacketType
  <2>2. Over(at[j])' = Tip + k /\ (Upper(j)' <=> ~Around)
    BY <1>2, <1>3, <1>5
  <2> HIDE DEF k
  <2>3. IF Upper(j)' THEN Tip + k <= (IF Around' THEN wrap' ELSE Tip')
                     ELSE Around' /\ Tip + k <= Tip'
    BY <1>1, <2>2, RingType
  <2> QED
    BY <2>1, <2>2, <2>3
<1>6. PacketInv'
  <2>1. \A i \in 1 .. Len(at') : Sound(i)'
    BY <1>2, <1>4, <1>5
  <2> QED
    BY <2>1 DEF PacketInv
<1>7. ASSUME NEW i \in 1 .. Len(at'), NEW j \in 1 .. Len(at'), i < j
      PROVE  \/ Upper(i)' /\ ~Upper(j)'
             \/ (Upper(i)' <=> Upper(j)') /\ Over(at[i])' <= at'[j]
  <2>1. i \in 1 .. n
    BY <1>2, <1>7
  <2>2. CASE j \in 1 .. n
    <3>1. \/ Upper(i) /\ ~Upper(j)
          \/ (Upper(i) <=> Upper(j)) /\ Over(at[i]) <= at[j]
      BY <1>7, <2>1, <2>2 DEF IInv, OrderInv
    <3> QED
      BY <1>2, <2>1, <2>2, <3>1
  <2>3. CASE j = n + 1
    <3>1. /\ Over(at[i])' = Over(at[i]) /\ (Upper(i)' <=> Upper(i))
          /\ (Upper(j)' <=> ~Around) /\ at'[j] = Tip
      BY <1>2, <1>3, <2>1, <2>3
    <3>2. IF Upper(i) THEN ~Around => Over(at[i]) <= Tip
                      ELSE Around /\ Over(at[i]) <= Tip
      BY <2>1, HeldType
    <3> QED
      BY <3>1, <3>2
  <2> QED
    BY <1>2, <2>2, <2>3
<1> QED
  BY <1>6, <1>7 DEF OrderInv

\* One more packet adds one more share of 1 + c blocks.
LEMMA Share ==
    ASSUME NEW c \in Nat, NEW m \in Nat
    PROVE  (1 + c) * (m + 1) = (1 + c) * m + (1 + c) /\ (1 + c) * m \in Nat
  OBVIOUS

LEMMA BehindType ==
    ASSUME IInv, NEW i \in 1 .. Len(at) PROVE Behind(i) \in Nat
<1>1. /\ at[i] \in Nat /\ Over(at[i]) \in Nat /\ at[i] < Over(at[i])
      /\ IF Upper(i) THEN Over(at[i]) <= (IF Around THEN wrap ELSE Tip)
                     ELSE Over(at[i]) <= Tip
  BY HeldType
<1> DEFINE a == at[i]
           o == Over(at[i])
<1>2. CASE Upper(i)
  <2>1. a >= start
    BY <1>2 DEF Upper
  <2>2. a - start <= used
    <3>1. CASE Around
      <4>1. a <= wrap
        BY <1>1, <1>2, <3>1, RingNat
      <4>2. wrap - start <= used
        BY <3>1, RingType
      <4>3. a \in Nat
        BY <1>1
      <4> HIDE DEF a
      <4> QED
        BY <4>1, <4>2, <4>3, RingNat
    <3>2. CASE ~Around
      <4>1. a <= Tip
        BY <1>1, <1>2, <3>2, RingNat
      <4>2. Tip = start + used
        BY <3>2, RingType
      <4> QED
        BY <1>1, <4>1, <4>2, RingNat
    <3> QED
      BY <3>1, <3>2
  <2>3. Behind(i) = used - (a - start)
    BY <1>2 DEF Behind
  <2>4. a \in Nat
    BY <1>1
  <2> HIDE DEF a
  <2> QED
    BY <2>1, <2>2, <2>3, <2>4, RingNat
<1>3. CASE ~Upper(i)
  BY <1>1, <1>3, RingNat DEF Behind
<1> QED
  BY <1>2, <1>3

LEMMA SubmitCount ==
    ASSUME IInv, NEW packet \in Packets, InputDone(packet)
    PROVE  CountInv'
<1> DEFINE k == 1 + Blocks(packet[0])
           n == Len(at)
           c == MtuBlocks
<1>1. /\ k \in Nat /\ k <= 1 + c /\ start' = start /\ used' = used + k
      /\ Around => Tip' = Tip + k
      /\ c \in Nat
  <2>1. k \in 1 .. 1 + MtuBlocks /\ MtuBlocks \in Nat
    BY SubmitRing, SizeType DEF IInv, Types
  <2>2. k \in Nat /\ k <= 1 + MtuBlocks
    BY <2>1
  <2> QED
    BY <2>2, SubmitRing, SizeType DEF IInv, Types
<1>2. /\ Len(at') = n + 1 /\ at'[n + 1] = Tip /\ n \in Nat
      /\ \A i \in 1 .. n : at'[i] = at[i] /\ (Upper(i)' <=> Upper(i))
  BY SubmitHeld, LenAt DEF IInv, Types
<1>3. ASSUME NEW i \in 1 .. n
      PROVE  Behind(i)' <= (1 + c) * (n + 1 + 1 - i)
  <2>1. Behind(i)' = Behind(i) + k
    <3>1. at[i] \in Nat /\ (~Upper(i) => Around)
      BY HeldType
    <3> HIDE DEF k
    <3> DEFINE a == at[i]
               b == at'[i]
    <3>a. a \in Nat /\ b = a
      BY <1>2, <3>1
    <3>2. CASE Upper(i)
      <4>1. Behind(i) = used - (a - start) /\ Behind(i)' = used' - (b - start')
        BY <1>2, <3>2 DEF Behind
      <4> HIDE DEF a, b
      <4> QED
        BY <1>1, <3>a, <4>1, RingNat
    <3>3. CASE ~Upper(i)
      <4>1. Behind(i) = Tip - a /\ Behind(i)' = Tip' - b
        BY <1>2, <3>3 DEF Behind
      <4>2. Tip' = Tip + k
        BY <1>1, <3>1, <3>3
      <4> HIDE DEF a, b
      <4> QED
        BY <1>1, <3>a, <4>1, <4>2, RingType
    <3> QED
      BY <3>2, <3>3
  <2>2. Behind(i) <= (1 + c) * (n + 1 - i)
    BY DEF IInv, CountInv
  <2> DEFINE m == n + 1 - i
  <2>3. m \in Nat /\ n + 1 + 1 - i = m + 1
    BY <1>2
  <2>4. Behind(i) \in Nat
    BY BehindType
  <2> DEFINE p == (1 + c) * m
  <2> HIDE DEF m, k, c
  <2>5. (1 + c) * (m + 1) = p + (1 + c) /\ p \in Nat
    BY <1>1, <2>3, Share DEF p
  <2>6. Behind(i) <= p
    BY <2>2 DEF p, m
  <2> HIDE DEF p
  <2>7. Behind(i)' <= (1 + c) * (m + 1)
    BY <1>1, <2>1, <2>4, <2>5, <2>6
  <2> QED
    BY <2>3, <2>7
<1>4. ASSUME NEW j, j = n + 1
      PROVE  Behind(j)' <= (1 + c) * 1
  <2>1. Behind(j)' = k
    <3>1. at'[j] = Tip
      BY <1>2, <1>4
    <3>2. Upper(j)' <=> ~Around
      <4>1. Tip >= start <=> ~Around
        <5>1. Around => Tip + 1 + MtuBlocks <= start
          BY RoomType DEF IInv, InputDone
        <5> QED
          BY <5>1, RingType
      <4> QED
        BY <1>1, <3>1, <4>1 DEF Upper
    <3> HIDE DEF k
    <3>3. CASE Around
      <4>1. Behind(j)' = Tip' - at'[j]
        BY <3>2, <3>3 DEF Behind
      <4>2. Tip' - at'[j] = Tip + k - Tip
        <5>1. Tip' = Tip + k
          BY <1>1, <3>3
        <5> QED
          BY <1>1, <3>1, <5>1, RingType
      <4> QED
        BY <1>1, <4>1, <4>2, RingType
    <3>4. CASE ~Around
      <4>1. Behind(j)' = used' - (at'[j] - start')
        BY <3>2, <3>4 DEF Behind
      <4>2. used' - (at'[j] - start') = used + k - (Tip - start)
        <5>1. used' = used + k /\ start' = start
          BY <1>1
        <5> QED
          BY <1>1, <3>1, <5>1, RingType
      <4> QED
        BY <1>1, <3>4, <4>1, <4>2, RingType
    <3> QED
      BY <3>3, <3>4
  <2> HIDE DEF k, c
  <2> QED
    BY <1>1, <2>1
<1> HIDE DEF n, c, k
<1>5. \A i \in 1 .. n + 1 : Behind(i)' <= (1 + c) * (n + 1 + 1 - i)
  <2> SUFFICES ASSUME NEW i \in 1 .. n + 1
               PROVE  Behind(i)' <= (1 + c) * (n + 1 + 1 - i)
    OBVIOUS
  <2>1. CASE i = n + 1
    <3>1. n + 1 + 1 - i = 1
      BY <1>2, <2>1
    <3> QED
      BY <1>4, <2>1, <3>1
  <2>2. CASE i # n + 1
    <3>1. i \in 1 .. n
      BY <1>2, <2>2
    <3> QED
      BY <1>3, <3>1
  <2> QED
    BY <2>1, <2>2
<1> QED
  BY <1>2, <1>5 DEF CountInv, c

-----------------------------------------------------------------------------
(* The parts of the invariant after Consume. *)

\* The others move up one place. Either start moves behind the first packet
\* and each stays on its side, or all of them were behind the wrap and are now
\* at the bottom.
LEMMA ConsumeHeld ==
    ASSUME IInv, OutputDone
    PROVE  /\ at' \in Seq(0 .. Size - 1) /\ Len(at) \in Nat \ {0}
           /\ Len(at') = Len(at) - 1
           /\ mem' = mem
           /\ \A i \in 1 .. Len(at') :
                 /\ at'[i] = at[i + 1] /\ i + 1 \in 1 .. Len(at)
                 /\ Over(at[i])' = Over(at[i + 1])
                 /\ Over(start) # wrap => (Upper(i)' <=> Upper(i + 1))
                 /\ Over(start) = wrap => Upper(i)' /\ ~Upper(i + 1)
<1>1. /\ at # <<>> /\ at[1] = start
      /\ Over(start) # wrap => start' = Over(start)
      /\ Over(start) = wrap => start' = 0 /\ Around
  BY ConsumeRing DEF IInv, Types
<1>2. at' = Tail(at) /\ mem' = mem
  BY DEF OutputDone, ConsumePacket
<1>3. /\ at' \in Seq(0 .. Size - 1) /\ Len(at) \in Nat \ {0}
      /\ Len(at') = Len(at) - 1
      /\ \A i \in 1 .. Len(at') : at'[i] = at[i + 1] /\ i + 1 \in 1 .. Len(at)
  <2>1. at \in Seq(0 .. Size - 1)
    BY DEF IInv, TypeOK
  <2>2. Len(at) \in Nat \ {0}
    BY <1>1, LenAt DEF IInv
  <2> QED
    BY <1>1, <1>2, <2>1, <2>2, HeadTailProperties
<1>4. ASSUME NEW i \in 1 .. Len(at')
      PROVE  /\ Over(at[i])' = Over(at[i + 1])
             /\ Over(start) # wrap => (Upper(i)' <=> Upper(i + 1))
             /\ Over(start) = wrap => Upper(i)' /\ ~Upper(i + 1)
  <2> DEFINE j == i + 1
  <2>1. j \in 1 .. Len(at) /\ 1 \in 1 .. Len(at) /\ 1 < j /\ at'[i] = at[j]
    BY <1>3
  <2> HIDE DEF j
  <2>2. Over(at[i])' = Over(at[j])
    BY <1>2, <2>1 DEF Over
  <2>3. Upper(1)
    BY <1>1, RingType DEF Upper
  <2>4. Upper(j) => Over(start) <= at[j]
    BY <1>1, <2>1, <2>3 DEF IInv, OrderInv
  <2>5. /\ at[j] \in Nat /\ at[j] < Over(at[j]) /\ Over(at[j]) \in Nat
        /\ IF Upper(j) THEN Over(at[j]) <= (IF Around THEN wrap ELSE Tip)
                       ELSE at[j] < start
    BY <2>1, HeldType
  <2>6. Over(start) > start /\ Over(start) \in Nat
    BY <1>1, <2>1, HeldType
  <2>7. Over(start) # wrap => (Upper(i)' <=> Upper(j))
    <3>1. CASE Upper(j)
      BY <1>1, <2>1, <2>4, <3>1 DEF Upper
    <3>2. CASE ~Upper(j)
      <4>1. at[j] < Over(start)
        BY <2>5, <2>6, <3>2, RingNat
      <4>2. Over(start) # wrap => ~(at'[i] >= start')
        BY <1>1, <2>1, <2>5, <2>6, <4>1
      <4> QED
        BY <3>2, <4>2 DEF Upper
    <3> QED
      BY <3>1, <3>2
  <2>8. Over(start) = wrap => Upper(i)' /\ ~Upper(j)
    <3>1. ASSUME Over(start) = wrap PROVE ~Upper(j)
      <4>1. Upper(j) => wrap <= at[j] /\ Over(at[j]) <= wrap
        BY <1>1, <2>4, <2>5, <3>1
      <4> QED
        BY <2>5, <4>1, RingNat
    <3>2. Over(start) = wrap => Upper(i)'
      BY <1>1, <2>1, <2>5 DEF Upper
    <3> QED
      BY <3>1, <3>2
  <2> QED
    BY <2>2, <2>7, <2>8 DEF j
<1> QED
  BY <1>2, <1>3, <1>4

LEMMA ConsumeRingInv ==
    ASSUME IInv, OutputDone
    PROVE  RingInv'
<1>1. /\ at # <<>> /\ at[1] = start /\ Tip' = Tip
      /\ Over(start) # wrap => start' = Over(start) /\ wrap' = wrap
      /\ Over(start) = wrap => start' = 0 /\ wrap' = Size
  BY ConsumeRing DEF IInv, Types
<1>2. Over(start) # wrap => Over(start) <= Size - 1 - MtuBlocks
  <2> SUFFICES ASSUME Over(start) # wrap
               PROVE  Over(start) <= Size - 1 - MtuBlocks
    OBVIOUS
  <2>1. After(at[1]) = Over(start)
    BY <1>1 DEF After
  <2>2. Len(at) \in Nat \ {0}
    BY ConsumeHeld
  <2>3. CASE Len(at) = 1
    BY <1>1, <2>1, <2>3, RingType DEF IInv, ChainInv
  <2>4. CASE Len(at) # 1
    <3>1. 1 \in 1 .. Len(at) - 1 /\ 2 \in 1 .. Len(at) /\ 1 + 1 = 2
      <4> DEFINE n == Len(at)
      <4>1. n \in Nat /\ n # 0 /\ n # 1
        BY <2>2, <2>4
      <4> HIDE DEF n
      <4>2. 1 \in 1 .. n - 1 /\ 2 \in 1 .. n
        BY <4>1
      <4> QED
        BY <4>2 DEF n
    <3>2. at[1 + 1] = After(at[1])
      BY <3>1 DEF IInv, ChainInv
    <3>3. at[2] <= Size - 1 - MtuBlocks
      BY <3>1, HeldType
    <3> QED
      BY <2>1, <3>1, <3>2, <3>3
  <2> QED
    BY <2>3, <2>4
<1>3. /\ start' <= Size - 1 - MtuBlocks /\ Tip' <= Size - 1 - MtuBlocks
      /\ wrap' >= Size - MtuBlocks
  BY <1>1, <1>2, RingType
<1> QED
  BY <1>3 DEF RingInv

\* Unwrapping does not change where the packets at the bottom end.
LEMMA ConsumeAfter ==
    ASSUME IInv, OutputDone, NEW i \in 1 .. Len(at')
    PROVE  After(at[i])' = After(at[i + 1])
<1> DEFINE j == i + 1
           o == Over(at[j])
<1>1. /\ Over(start) # wrap => wrap' = wrap
      /\ Over(start) = wrap => wrap' = Size
  BY ConsumeRing DEF IInv, Types
<1>2. /\ j \in 1 .. Len(at) /\ Over(at[i])' = o
      /\ Over(start) = wrap => ~Upper(j)
  BY ConsumeHeld
<1>3. o \in Nat /\ (~Upper(j) => o <= Tip /\ Around)
  <2> HIDE DEF j
  <2> QED
    BY <1>2, HeldType
<1>4. o = wrap' <=> o = wrap
  <2> HIDE DEF o, j
  <2>1. CASE Over(start) # wrap
    BY <1>1, <2>1
  <2>2. CASE Over(start) = wrap
    <3>1. o <= Tip /\ Tip <= start /\ wrap' = Size
      BY <1>1, <1>2, <1>3, <2>2, RingType
    <3>2. start < wrap /\ wrap <= Size
      BY RingType
    <3> QED
      BY <1>3, <3>1, <3>2, RingNat
  <2> QED
    BY <2>1, <2>2
<1> QED
  BY <1>2, <1>4 DEF After

LEMMA ConsumeChain ==
    ASSUME IInv, OutputDone
    PROVE  ChainInv'
<1> DEFINE n == Len(at')
           o == Over(start)
<1>1. /\ at # <<>> /\ at[1] = start /\ Tip' = Tip /\ o > start
      /\ used' = used - (o - start)
      /\ o # wrap => /\ start' = o /\ o <= (IF Around THEN wrap ELSE Tip)
      /\ o = wrap => Around /\ start' = 0
  BY ConsumeRing DEF IInv, Types
<1>2. /\ n \in Nat /\ Len(at) = n + 1 /\ 1 \in 1 .. Len(at)
      /\ at' \in Seq(0 .. Size - 1)
      /\ \A i \in 1 .. n : /\ at'[i] = at[i + 1] /\ i + 1 \in 1 .. Len(at)
                           /\ o = wrap => ~Upper(i + 1)
      /\ at' = <<>> <=> n = 0
  <2>1. /\ at' \in Seq(0 .. Size - 1) /\ Len(at) \in Nat \ {0} /\ n = Len(at) - 1
        /\ \A i \in 1 .. n : /\ at'[i] = at[i + 1] /\ i + 1 \in 1 .. Len(at)
                             /\ o = wrap => ~Upper(i + 1)
    BY ConsumeHeld
  <2>2. n \in Nat /\ Len(at) = n + 1 /\ 1 \in 1 .. Len(at)
    BY <2>1
  <2>3. at' = <<>> <=> n = 0
    BY <2>1, LenProperties, EmptySeq
  <2> QED
    BY <2>1, <2>2, <2>3
<1>3. After(start) = IF o = wrap THEN 0 ELSE o
  BY DEF After
<1>4. o \in Nat
  BY <1>1, <1>2, HeldType
<1>5. n = 0 => used' = 0
  <2> SUFFICES ASSUME n = 0 PROVE used' = 0
    OBVIOUS
  <2>1. at[Len(at)] = start
    BY <1>1, <1>2
  <2>2. Tip = After(start)
    BY <1>1, <2>1 DEF IInv, ChainInv
  <2> HIDE DEF o
  <2>3. CASE o = wrap
    <3>1. Tip = 0 /\ Around
      BY <1>1, <1>3, <2>2, <2>3
    <3> QED
      BY <1>1, <1>4, <2>3, <3>1, RingType
  <2>4. CASE o # wrap
    <3>1. Tip = o
      BY <1>3, <2>2, <2>4
    <3> QED
      BY <1>1, <1>4, <2>4, <3>1, RingType
  <2> QED
    BY <2>3, <2>4
<1>6. n # 0 => used' # 0 /\ at'[1] = start'
  <2> SUFFICES ASSUME n # 0 PROVE used' # 0 /\ at'[1] = start'
    OBVIOUS
  <2>1. 1 \in 1 .. n /\ 1 \in 1 .. Len(at) - 1 /\ 1 + 1 = 2 /\ 2 \in 1 .. Len(at)
    BY <1>2
  <2>2. at'[1] = at[2] /\ (o = wrap => ~Upper(2))
    BY <1>2, <2>1
  <2>3. at[2] = After(start)
    BY <1>1, <2>1 DEF IInv, ChainInv
  <2>4. at'[1] = start'
    BY <1>1, <1>3, <2>2, <2>3
  <2>5. /\ at[2] \in Nat /\ Over(at[2]) \in Nat /\ at[2] < Over(at[2])
        /\ IF Upper(2) THEN Over(at[2]) <= (IF Around THEN wrap ELSE Tip)
                       ELSE at[2] < start /\ Around /\ Over(at[2]) <= Tip
    BY <2>1, HeldType
  <2> DEFINE p == at[2]
             q == Over(p)
  <2>6. used' # 0
    <3>1. /\ p \in Nat /\ q \in Nat /\ p < q
          /\ o # wrap => p = o
          /\ o = wrap => ~Upper(2)
          /\ IF Upper(2) THEN q <= (IF Around THEN wrap ELSE Tip)
                         ELSE p < start /\ Around /\ q <= Tip
      BY <1>3, <2>2, <2>3, <2>5
    <3> HIDE DEF o, p, q
    <3>2. CASE o = wrap
      BY <1>1, <1>4, <3>1, <3>2, RingType
    <3>3. CASE o # wrap
      <4>1. p = o /\ start < o /\ Upper(2)
        BY <1>1, <1>4, <3>1, <3>3, RingNat
      <4>2. o < start + used
        <5>1. CASE Around
          <6>1. o < wrap /\ wrap - start <= used
            BY <1>4, <3>1, <4>1, <5>1, RingType
          <6> QED
            BY <1>4, <6>1, RingNat
        <5>2. CASE ~Around
          <6>1. o < Tip /\ Tip = start + used
            BY <1>4, <3>1, <4>1, <5>2, RingType
          <6> QED
            BY <6>1
        <5> QED
          BY <5>1, <5>2
      <4> QED
        BY <1>1, <1>4, <4>2, RingNat
    <3> QED
      BY <3>2, <3>3
  <2> QED
    BY <2>4, <2>6
<1>7. at' # <<>> => After(at[Len(at)])' = Tip'
  <2> SUFFICES ASSUME n # 0 PROVE After(at[Len(at)])' = Tip'
    BY <1>2
  <2>1. n \in 1 .. n
    BY <1>2
  <2>2. \A i : i = n => After(at[i])' = After(at[i + 1])
    BY <2>1, ConsumeAfter
  <2>3. After(at[n + 1]) = Tip
    BY <1>1, <1>2 DEF IInv, ChainInv
  <2>4. \A i : i = n => After(at[i])' = Tip
    BY <2>2, <2>3
  <2>5. \A i : i = n => at'[i] = at'[Len(at')]
    OBVIOUS
  <2> QED
    BY <1>1, <2>4, <2>5 DEF After, Over
<1>8. \A i \in 1 .. n - 1 : at'[i + 1] = After(at[i])'
  <2> SUFFICES ASSUME NEW i \in 1 .. n - 1 PROVE at'[i + 1] = After(at[i])'
    OBVIOUS
  <2>1. i \in 1 .. n /\ i + 1 \in 1 .. n /\ i + 1 \in 1 .. Len(at) - 1
    BY <1>2
  <2>2. After(at[i])' = After(at[i + 1])
    BY <2>1, ConsumeAfter
  <2>3. at'[i + 1] = at[i + 1 + 1]
    BY <1>2, <2>1
  <2>4. at[i + 1 + 1] = After(at[i + 1])
    BY <2>1 DEF IInv, ChainInv
  <2> QED
    BY <2>2, <2>3, <2>4
<1> QED
  BY <1>2, <1>5, <1>6, <1>7, <1>8 DEF ChainInv

LEMMA ConsumePackets ==
    ASSUME IInv, OutputDone
    PROVE  PacketInv' /\ OrderInv'
<1> DEFINE n == Len(at')
           o == Over(start)
           Sound(i) == /\ at[i] <= Size - 1 - MtuBlocks
                       /\ Blocks(mem[at[i]]) <= MtuBlocks
                       /\ IF Upper(i)
                            THEN Over(at[i]) <= (IF Around THEN wrap ELSE Tip)
                            ELSE Around /\ Over(at[i]) <= Tip
<1>1. /\ Tip' = Tip
      /\ o # wrap => wrap' = wrap /\ (Around' <=> Around)
      /\ o = wrap => Around /\ ~Around'
  BY ConsumeRing DEF IInv, Types
<1>2. /\ mem' = mem
      /\ \A i \in 1 .. n : /\ at'[i] = at[i + 1] /\ i + 1 \in 1 .. Len(at)
                           /\ Over(at[i])' = Over(at[i + 1])
                           /\ o # wrap => (Upper(i)' <=> Upper(i + 1))
                           /\ o = wrap => Upper(i)' /\ ~Upper(i + 1)
  BY ConsumeHeld
<1>3. ASSUME NEW i \in 1 .. n PROVE Sound(i)'
  <2> DEFINE j == i + 1
  <2>1. /\ j \in 1 .. Len(at) /\ at'[i] = at[j] /\ Over(at[i])' = Over(at[j])
        /\ o # wrap => (Upper(i)' <=> Upper(j))
        /\ o = wrap => Upper(i)' /\ ~Upper(j)
    BY <1>2
  <2> HIDE DEF j
  <2>2. /\ at[j] <= Size - 1 - MtuBlocks /\ Blocks(mem[at[j]]) <= MtuBlocks
        /\ IF Upper(j) THEN Over(at[j]) <= (IF Around THEN wrap ELSE Tip)
                       ELSE Around /\ Over(at[j]) <= Tip
    BY <2>1 DEF IInv, PacketInv
  <2>3. at'[i] <= Size - 1 - MtuBlocks /\ Blocks(mem'[at'[i]]) <= MtuBlocks
    BY <1>2, <2>1, <2>2
  <2>4. IF Upper(i)' THEN Over(at[j]) <= (IF Around' THEN wrap' ELSE Tip')
                     ELSE Around' /\ Over(at[j]) <= Tip'
    <3>1. CASE o = wrap
      BY <1>1, <2>1, <2>2, <3>1
    <3>2. CASE o # wrap
      BY <1>1, <2>1, <2>2, <3>2
    <3> QED
      BY <3>1, <3>2
  <2> QED
    BY <2>1, <2>3, <2>4
<1>4. PacketInv'
  BY <1>3 DEF PacketInv
<1>5. ASSUME NEW i \in 1 .. n, NEW j \in 1 .. n, i < j
      PROVE  \/ Upper(i)' /\ ~Upper(j)'
             \/ (Upper(i)' <=> Upper(j)') /\ Over(at[i])' <= at'[j]
  <2>1. i + 1 \in 1 .. Len(at) /\ j + 1 \in 1 .. Len(at) /\ i + 1 < j + 1
    BY <1>2, <1>5
  <2>2. \/ Upper(i + 1) /\ ~Upper(j + 1)
        \/ (Upper(i + 1) <=> Upper(j + 1)) /\ Over(at[i + 1]) <= at[j + 1]
    BY <2>1 DEF IInv, OrderInv
  <2>3. /\ Over(at[i])' = Over(at[i + 1]) /\ at'[j] = at[j + 1]
        /\ o # wrap => (Upper(i)' <=> Upper(i + 1)) /\ (Upper(j)' <=> Upper(j + 1))
        /\ o = wrap => Upper(i)' /\ Upper(j)' /\ ~Upper(i + 1) /\ ~Upper(j + 1)
    BY <1>2
  <2> QED
    BY <2>2, <2>3
<1> QED
  BY <1>4, <1>5 DEF OrderInv

LEMMA ConsumeCount ==
    ASSUME IInv, OutputDone
    PROVE  CountInv'
<1> DEFINE n == Len(at')
           o == Over(start)
<1>1. /\ Tip' = Tip /\ used' = used - (o - start)
      /\ o # wrap => start' = o
      /\ o = wrap => start' = 0 /\ Around
      /\ at[1] = start
  BY ConsumeRing DEF IInv, Types
<1>2. /\ n \in Nat /\ Len(at) = n + 1
      /\ \A i \in 1 .. n : /\ at'[i] = at[i + 1] /\ i + 1 \in 1 .. Len(at)
                           /\ o # wrap => (Upper(i)' <=> Upper(i + 1))
                           /\ o = wrap => Upper(i)' /\ ~Upper(i + 1)
  <2>1. Len(at) \in Nat \ {0} /\ n = Len(at) - 1
    BY ConsumeHeld
  <2>2. n \in Nat /\ Len(at) = n + 1
    BY <2>1
  <2> QED
    BY <2>2, ConsumeHeld
<1>3. o \in Nat
  <2>1. 1 \in 1 .. Len(at)
    BY <1>2
  <2> QED
    BY <1>1, <2>1, HeldType
<1>4. ASSUME NEW i \in 1 .. n
      PROVE  Behind(i)' <= (1 + MtuBlocks) * (n + 1 - i)
  <2> DEFINE j == i + 1
  <2>1. /\ j \in 1 .. Len(at) /\ at'[i] = at[j]
        /\ o # wrap => (Upper(i)' <=> Upper(j))
        /\ o = wrap => Upper(i)' /\ ~Upper(j)
        /\ Len(at) + 1 - j = n + 1 - i
    <3>1. Len(at) + 1 - (i + 1) = n + 1 - i
      BY <1>2
    <3> QED
      BY <1>2, <3>1
  <2> HIDE DEF j
  <2>2. Behind(i)' = Behind(j)
    <3> DEFINE a == at[j]
               b == at'[i]
    <3>1. a \in Nat /\ b = a
      BY <2>1, HeldType
    <3>2. CASE o = wrap
      <4>1. Behind(j) = Tip - a /\ Behind(i)' = used' - (b - start')
        BY <2>1, <3>2 DEF Behind
      <4> HIDE DEF a, b, o
      <4> QED
        BY <1>1, <1>3, <3>1, <3>2, <4>1, RingType
    <3>3. CASE o # wrap /\ Upper(j)
      <4>1. Behind(j) = used - (a - start) /\ Behind(i)' = used' - (b - start')
        BY <2>1, <3>3 DEF Behind
      <4> HIDE DEF a, b, o
      <4>2. start' = o /\ used' = used - (o - start)
        BY <1>1, <3>3
      <4> QED
        BY <1>3, <3>1, <4>1, <4>2, RingNat
    <3>4. CASE o # wrap /\ ~Upper(j)
      <4>1. Behind(j) = Tip - a /\ Behind(i)' = Tip' - b
        BY <2>1, <3>4 DEF Behind
      <4> QED
        BY <1>1, <3>1, <4>1
    <3> QED
      BY <3>2, <3>3, <3>4
  <2>3. Behind(j) <= (1 + MtuBlocks) * (Len(at) + 1 - j)
    BY <2>1 DEF IInv, CountInv
  <2> QED
    BY <2>1, <2>2, <2>3
<1> QED
  BY <1>4 DEF CountInv

-----------------------------------------------------------------------------
(* What the two interfaces were given. *)

\* An input that is offered blocks is offered a natural number of bytes.
LEMMA AvailType ==
    ASSUME Tip' \in Int, start' \in Int,
           IF HasRoom(wrap, start, used)'
             THEN input_avail' = (Free(wrap, start, used)' - 1) * 4
             ELSE input_avail' = -1,
           HasRoom(wrap, start, used)' => Free(wrap, start, used)' > 0
    PROVE  input_avail' \in Nat \cup {-1}
<1> DEFINE f == Free(wrap, start, used)'
<1>1. f = (IF Around' THEN start' ELSE Size) - Tip'
  BY DEF Free, Around, Tip
<1>2. f \in Int
  BY <1>1, SizeType
<1> HIDE DEF f
<1>3. f > 0 => (f - 1) * 4 \in Nat
  BY <1>2
<1> QED
  BY <1>3 DEF f

LEMMA SubmitIo ==
    ASSUME IInv, NEW packet \in Packets, InputDone(packet)
    PROVE  /\ IoInv'
           /\ input_avail' \in Nat \cup {-1} /\ output_avail' \in Nat \cup {-1}
<1>1. /\ start' = start /\ used' = used + (1 + Blocks(packet[0])) /\ Numbers'
      /\ 1 + Blocks(packet[0]) \in 1 .. 1 + MtuBlocks
  BY SubmitRing DEF IInv, Types
<1>2. used' > 0
  <2> DEFINE k == 1 + Blocks(packet[0])
  <2>1. k \in 1 .. 1 + MtuBlocks /\ used' = used + k
    BY <1>1
  <2> HIDE DEF k
  <2> QED
    BY <2>1, RingType
<1>3. UpdateInput
  BY DEF InputDone, SubmitPacket
<1>4. IF used = 0 THEN UpdateOutput ELSE UNCHANGED <<output_dest, output_avail>>
  BY DEF InputDone, SubmitPacket
<1>5. /\ recv' = IF input_avail' >= Mtu THEN input_dest' ELSE NULL
      /\ IF output_avail < 0 THEN send' = output_dest' /\ sendLen' = output_avail'
                             ELSE UNCHANGED <<send, sendLen>>
  BY DEF InputDone
<1>6. mem'[start] \in Nat
  <2>1. start \in 0 .. Size - 1
    BY RingType
  <2> QED
    BY <2>1, SubmitMemory DEF IInv, Types
<1>7. output_dest' = start' + 1 /\ output_avail' = mem'[start']
  <2>1. CASE used = 0
    BY <1>2, <1>4, <2>1 DEF UpdateOutput
  <2>2. CASE used # 0
    <3>1. used > 0
      BY <2>2, RingType
    <3>2. 1 \in 1 .. Len(at) /\ at[1] = start
      BY <2>2, LenAt DEF IInv, ChainInv
    <3>3. mem'[start] = mem[start]
      BY <3>2, SubmitHeld DEF IInv, Types
    <3> QED
      BY <1>1, <1>4, <2>2, <3>1, <3>3 DEF IInv, IoInv
  <2> QED
    BY <2>1, <2>2
<1>8. send' = output_dest' /\ sendLen' = output_avail'
  <2>1. CASE used = 0
    <3>1. output_avail = -1
      BY <2>1 DEF IInv, IoInv
    <3> QED
      BY <1>5, <3>1
  <2>2. CASE used # 0
    <3>1. used > 0 /\ mem[start] \in Nat
      <4>1. start \in 0 .. Size - 1
        BY RingType
      <4>2. mem[start] \in Nat
        BY <4>1 DEF IInv, TypeOK
      <4> QED
        BY <2>2, <4>2, RingType
    <3>2. /\ output_avail = mem[start] /\ send = output_dest
          /\ sendLen = output_avail
      BY <3>1 DEF IInv, IoInv
    <3> QED
      BY <1>4, <1>5, <2>2, <3>1, <3>2
  <2> QED
    BY <2>1, <2>2
<1>9. /\ IF HasRoom(wrap, start, used)'
           THEN input_dest' = Tip' + 1
                /\ input_avail' = (Free(wrap, start, used)' - 1) * 4
           ELSE input_dest' = NULL /\ input_avail' = -1
      /\ HasRoom(wrap, start, used)' => Free(wrap, start, used)' > 0
  BY <1>3 DEF UpdateInput, Tip, HasRoom
<1>10. input_avail' \in Nat \cup {-1}
  <2>1. Tip' \in Int /\ start' \in Int
    <3> DEFINE k == 1 + Blocks(packet[0])
    <3>1. k \in Nat
      BY <1>1, SizeType
    <3>2. Tip' = Tip + k \/ Tip' = 0
      BY SubmitRing DEF IInv, Types
    <3> HIDE DEF k
    <3> QED
      BY <1>1, <3>1, <3>2, RingType
  <2> QED
    BY <1>9, <2>1, AvailType
<1> QED
  BY <1>1, <1>2, <1>5, <1>6, <1>7, <1>8, <1>9, <1>10 DEF IoInv

LEMMA ConsumeIo ==
    ASSUME IInv, OutputDone
    PROVE  /\ IoInv'
           /\ input_avail' \in Nat \cup {-1} /\ output_avail' \in Nat \cup {-1}
<1> DEFINE o == Over(start)
<1>1. /\ Tip' = Tip /\ Numbers' /\ o > start
      /\ o # wrap => start' = o /\ wrap' = wrap /\ (Around' <=> Around)
      /\ o = wrap => Around /\ ~Around' /\ start' = 0
      /\ at[1] = start /\ at # <<>>
  BY ConsumeRing DEF IInv, Types
<1>2. o \in Nat
  <2>1. 1 \in 1 .. Len(at)
    BY <1>1, LenAt DEF IInv
  <2> QED
    BY <1>1, <2>1, HeldType
<1>3. IF Around THEN UpdateInput ELSE UNCHANGED <<input_dest, input_avail>>
  BY DEF OutputDone, ConsumePacket, Around
<1>4. UpdateOutput /\ mem' = mem
  BY DEF OutputDone, ConsumePacket
<1>5. /\ recv' = IF input_avail < Mtu /\ input_avail' >= Mtu
                   THEN input_dest' ELSE recv
      /\ IF output_avail' >= 0 THEN send' = output_dest' /\ sendLen' = output_avail'
                               ELSE send' = NULL /\ sendLen' = 0
  BY DEF OutputDone, WasFull
<1>6. ~Around => /\ ~Around' /\ start' \in Nat /\ (wrap' = wrap)
  BY <1>1, <1>2
<1> DEFINE f == Free(wrap, start, used)
           g == Free(wrap, start, used)'
<1>7. /\ f = (IF Around THEN start ELSE Size) - Tip
      /\ g = (IF Around' THEN start' ELSE Size) - Tip'
      /\ HasRoom(wrap, start, used) <=> Size - Tip - 1 >= MtuBlocks /\ f > 0
      /\ HasRoom(wrap, start, used)' <=> Size - Tip' - 1 >= MtuBlocks /\ g > 0
  BY DEF Free, Around, Tip, HasRoom
<1>8. f \in Int /\ g \in Int /\ g >= f /\ (~Around => g = f)
  <2> HIDE DEF o, f, g
  <2>1. f \in Int /\ g \in Int
    <3>1. start' \in Nat /\ Tip' \in Nat
      BY <1>1, <1>2, RingType
    <3> QED
      BY <1>7, <3>1, RingType
  <2>2. CASE o = wrap
    <3>1. Around /\ f = start - Tip /\ g = Size - Tip
      BY <1>1, <1>7, <2>2
    <3>2. start < wrap /\ wrap <= Size
      BY RingType
    <3> QED
      BY <2>1, <3>1, <3>2, RingNat
  <2>3. CASE o # wrap
    <3>1. start' = o /\ (Around' <=> Around) /\ Tip' = Tip
      BY <1>1, <2>3
    <3>2. CASE Around
      <4>1. f = start - Tip /\ g = o - Tip
        BY <1>7, <3>1, <3>2
      <4> QED
        BY <1>1, <1>2, <2>1, <3>2, <4>1, RingNat
    <3>3. CASE ~Around
      <4>1. f = Size - Tip /\ g = Size - Tip
        BY <1>7, <3>1, <3>3
      <4> QED
        BY <2>1, <4>1
    <3> QED
      BY <3>2, <3>3
  <2> QED
    BY <2>1, <2>2, <2>3
<1>9. Size - Tip - 1 >= MtuBlocks
  BY RingType
<1>10. /\ HasRoom(wrap, start, used) <=> f > 0
       /\ HasRoom(wrap, start, used)' <=> g > 0
  BY <1>1, <1>7, <1>9
<1>11. IF f > 0 THEN input_dest = Tip + 1 /\ input_avail = (f - 1) * 4
                ELSE input_dest = NULL /\ input_avail = -1
  BY <1>10 DEF IInv, IoInv
<1>12. IF g > 0 THEN input_dest' = Tip + 1 /\ input_avail' = (g - 1) * 4
                 ELSE input_dest' = NULL /\ input_avail' = -1
  <2>1. CASE Around
    <3>1. IF HasRoom(wrap, start, used)'
            THEN input_dest' = Tip' + 1 /\ input_avail' = (g - 1) * 4
            ELSE input_dest' = NULL /\ input_avail' = -1
      BY <1>3, <2>1 DEF UpdateInput, Tip
    <3> QED
      BY <1>1, <1>10, <3>1
  <2>2. CASE ~Around
    BY <1>3, <1>8, <1>11, <2>2
  <2> QED
    BY <2>1, <2>2
<1>13. recv' = IF input_avail' >= Mtu THEN input_dest' ELSE NULL
  <2>1. recv = IF input_avail >= Mtu THEN input_dest ELSE NULL
    BY DEF IInv, IoInv
  <2>2. Mtu \in Nat
    BY BufferAssumption
  <2> HIDE DEF f, g
  <2>3. input_avail \in Int /\ input_avail' \in Int
    BY <1>8, <1>11, <1>12
  <2>4. CASE input_avail < Mtu
    <3>1. recv = NULL
      BY <2>1, <2>2, <2>3, <2>4
    <3> QED
      BY <1>5, <2>4, <3>1
  <2>5. CASE input_avail >= Mtu
    <3>1. f > 0
      BY <1>8, <1>11, <2>2, <2>5
    <3>2. g > 0
      BY <1>8, <3>1
    <3>3. /\ input_avail = (f - 1) * 4 /\ input_avail' = (g - 1) * 4
          /\ input_dest' = input_dest
      BY <1>11, <1>12, <3>1, <3>2
    <3>4. input_avail' >= Mtu
      <4>1. (f - 1) * 4 <= (g - 1) * 4
        BY <1>8
      <4> QED
        BY <2>2, <2>3, <2>5, <3>3, <4>1
    <3>5. ~(input_avail < Mtu)
      BY <2>2, <2>3, <2>5
    <3> QED
      BY <1>5, <2>1, <2>5, <3>3, <3>4, <3>5
  <2> QED
    BY <2>2, <2>3, <2>4, <2>5
<1>14. used' > 0 => mem'[start'] \in Nat
  <2>1. start' \in 0 .. Size - 1
    <3> DEFINE w == wrap'
               x == start'
    <3>1. /\ w \in 1 .. Size /\ x \in 0 .. w - 1
      BY <1>1 DEF Numbers
    <3> HIDE DEF w, x
    <3>2. x \in 0 .. Size - 1
      BY <3>1, SizeType
    <3> QED
      BY <3>2 DEF x
  <2> QED
    BY <1>4, <2>1 DEF IInv, TypeOK
<1>15. /\ IF used' > 0 THEN output_dest' = start' + 1 /\ output_avail' = mem'[start']
                       ELSE output_dest' = NULL /\ output_avail' = -1
       /\ output_avail' \in Nat \cup {-1}
       /\ send' = output_dest'
       /\ sendLen' = IF used' > 0 THEN output_avail' ELSE 0
  <2>1. CASE used' > 0
    <3>1. output_dest' = start' + 1 /\ output_avail' = mem'[start']
      BY <1>4, <2>1 DEF UpdateOutput
    <3>2. output_avail' >= 0 /\ output_avail' \in Nat
      BY <1>14, <2>1, <3>1
    <3> QED
      BY <1>5, <2>1, <3>1, <3>2
  <2>2. CASE ~(used' > 0)
    <3>1. output_dest' = NULL /\ output_avail' = -1
      BY <1>4, <2>2 DEF UpdateOutput
    <3>2. ~(output_avail' >= 0)
      BY <3>1
    <3> QED
      BY <1>5, <2>2, <3>1, <3>2
  <2> QED
    BY <2>1, <2>2
<1>16. input_avail' \in Nat \cup {-1}
  <2> HIDE DEF f, g
  <2> QED
    BY <1>8, <1>12
<1>17. IF HasRoom(wrap, start, used)'
         THEN input_dest' = Tip' + 1 /\ input_avail' = (g - 1) * 4
         ELSE input_dest' = NULL /\ input_avail' = -1
  <2> HIDE DEF f, g
  <2> QED
    BY <1>1, <1>10, <1>12
<1> QED
  BY <1>13, <1>15, <1>16, <1>17 DEF IoInv

-----------------------------------------------------------------------------
(* The invariant holds. *)

LEMMA InitIInv == Init => IInv
<1> SUFFICES ASSUME Init PROVE IInv
  OBVIOUS
<1> DEFINE c == MtuBlocks
<1>1. /\ c \in Nat /\ Size \in Nat /\ Size >= c + c + 2
      /\ 4 * c <= Mtu + 3 /\ Mtu \in Nat /\ Mtu <= 4 * c
  BY SizeType, BlocksType, BufferAssumption DEF MtuBlocks
<1>2. /\ wrap = Size /\ start = 0 /\ used = 0 /\ at = <<>>
      /\ input_dest = 1 /\ input_avail = (Size - 1) * 4
      /\ output_dest = NULL /\ output_avail = -1
      /\ recv = input_dest /\ send = NULL /\ sendLen = 0
  BY DEF Init
<1> HIDE DEF c
<1>3. ~Around /\ Tip = 0
  BY <1>1, <1>2 DEF Around, Tip, Wrapped, End
<1>4. TypeOK
  <2>1. mem \in [0 .. Size - 1 -> Nat]
    BY BufferAssumption DEF Init
  <2>2. at \in Seq(0 .. Size - 1)
    BY <1>2, EmptySeq
  <2>3. (Size - 1) * 4 \in Nat
    BY <1>1
  <2> QED
    BY <1>1, <1>2, <2>1, <2>2, <2>3 DEF TypeOK
<1>5. RingInv
  BY <1>1, <1>2, <1>3 DEF RingInv, c
<1>6. Len(at) = 0
  BY <1>2, EmptySeq
<1>7. ChainInv
  BY <1>2, <1>6 DEF ChainInv
<1>8. PacketInv /\ OrderInv /\ CountInv
  BY <1>6 DEF PacketInv, OrderInv, CountInv
<1>9. IoInv
  <2>1. Free(wrap, start, used) = Size
    BY <1>1, <1>2, <1>3 DEF Free, Around, Tip
  <2>2. HasRoom(wrap, start, used)
    BY <1>1, <1>3, <2>1 DEF HasRoom, Tip, c
  <2>3. input_avail >= Mtu
    BY <1>1, <1>2
  <2> QED
    BY <1>2, <1>3, <2>1, <2>2, <2>3 DEF IoInv
<1> QED
  BY <1>4, <1>5, <1>7, <1>8, <1>9 DEF IInv

LEMMA SubmitStep ==
    ASSUME IInv, NEW packet \in Packets, InputDone(packet)
    PROVE  IInv'
<1>1. Numbers'
  BY SubmitRing DEF IInv, Types
<1>2. /\ mem' \in [0 .. Size - 1 -> Nat] /\ at' \in Seq(0 .. Size - 1)
  BY SubmitMemory, SubmitHeld DEF IInv, Types
<1>3. TypeOK'
  BY <1>1, <1>2, SubmitIo DEF TypeOK, Numbers, Around
<1> QED
  BY <1>3, SubmitRingInv, SubmitChain, SubmitPackets, SubmitCount, SubmitIo
     DEF IInv

LEMMA ConsumeStep ==
    ASSUME IInv, OutputDone
    PROVE  IInv'
<1>1. Numbers'
  BY ConsumeRing DEF IInv, Types
<1>2. /\ mem' \in [0 .. Size - 1 -> Nat] /\ at' \in Seq(0 .. Size - 1)
  BY ConsumeHeld DEF IInv, TypeOK
<1>3. TypeOK'
  BY <1>1, <1>2, ConsumeIo DEF TypeOK, Numbers, Around
<1> QED
  BY <1>3, ConsumeRingInv, ConsumeChain, ConsumePackets, ConsumeCount, ConsumeIo
     DEF IInv

LEMMA StutterStep == IInv /\ UNCHANGED vars => IInv'
  BY DEF vars, ring, input, output, IInv, TypeOK, RingInv, ChainInv, PacketInv,
     OrderInv, CountInv, IoInv, Around, Tip, Over, After, Upper, Behind

THEOREM Inductive == Spec => []IInv
<1>1. IInv /\ [Next]_vars => IInv'
  BY SubmitStep, ConsumeStep, StutterStep DEF Next
<1> QED
  BY InitIInv, <1>1, PTL DEF Spec

\* The asserts of _ChunkBuffer2_assert_buffer hold in every state, for any MTU
\* and any number of packets; the app is built without them (NDEBUG).
THEOREM AssertsHold == Spec => []TypeOK
<1>1. IInv => TypeOK
  BY DEF IInv
<1> QED
  BY Inductive, <1>1, PTL

LEMMA IInvRoom == IInv => RoomIsFree
<1> SUFFICES ASSUME IInv, recv # NULL
             PROVE  LET room == recv - 1 .. recv - 1 + MtuBlocks
                    IN  /\ recv = End(wrap, start, used) + 1
                        /\ room \subseteq 0 .. Size - 1
                        /\ \A i \in 1 .. Len(at) : room \cap Extent(at[i]) = {}
  BY DEF RoomIsFree
<1>1. recv = Tip + 1 /\ recv - 1 = Tip
  <2>1. recv = Tip + 1
    BY RoomType DEF IInv
  <2> QED
    BY <2>1, RingType
<1>2. Tip .. Tip + MtuBlocks \subseteq 0 .. Size - 1
  BY RingType
<1>3. \A i \in 1 .. Len(at) : (Tip .. Tip + MtuBlocks) \cap Extent(at[i]) = {}
  BY HeldApart DEF IInv, Types
<1> QED
  BY <1>1, <1>2, <1>3 DEF Tip

\* Whatever the lengths, what the input is given to write to is inside the
\* memory and touches no packet that was not sent yet (ChunkBuffer2.h).
THEOREM NothingOverwritten == Spec => []RoomIsFree
  BY Inductive, IInvRoom, PTL

-----------------------------------------------------------------------------
(* The ring is a queue. *)

LEMMA HeldIsSeq ==
    ASSUME TypeOK, NEW S, \A i \in 1 .. Len(at) : PacketAt(at[i]) \in S
    PROVE  /\ Held \in Seq(S) /\ Len(Held) = Len(at)
           /\ \A i \in 1 .. Len(at) : Held[i] = PacketAt(at[i])
<1>1. Len(at) \in Nat
  BY LenAt
<1>2. Held \in [1 .. Len(at) -> S]
  BY DEF Held
<1>3. Held \in Seq(S) /\ Len(Held) = Len(at)
  BY <1>1, <1>2
<1> QED
  BY <1>3 DEF Held

\* The packet on its way to the output is the first.
LEMMA SendingIsFirst == IInv => Sending = Q!First(Held)
<1> SUFFICES ASSUME IInv PROVE Sending = Q!First(Held)
  OBVIOUS
<1> DEFINE S == {PacketAt(at[i]) : i \in 1 .. Len(at)}
<1>1. /\ Held \in Seq(S) /\ Len(Held) = Len(at)
      /\ \A i \in 1 .. Len(at) : Held[i] = PacketAt(at[i])
  <2>1. \A i \in 1 .. Len(at) : PacketAt(at[i]) \in S
    OBVIOUS
  <2> HIDE DEF S
  <2> QED
    BY <2>1, HeldIsSeq DEF IInv
<1>2. CASE at = <<>>
  <2>1. used = 0 /\ Len(at) = 0
    BY <1>2, LenAt DEF IInv, ChainInv
  <2>2. send = NULL
    BY <2>1 DEF IInv, IoInv
  <2>3. Held = <<>>
    BY <1>1, <2>1, EmptySeq
  <2> QED
    BY <2>2, <2>3 DEF Sending, Q!First
<1>3. CASE at # <<>>
  <2>1. used # 0 /\ at[1] = start /\ 1 \in 1 .. Len(at)
    BY <1>3, LenAt DEF IInv, ChainInv
  <2>2. used > 0 /\ start \in Nat
    BY <2>1, RingType
  <2>3. send = start + 1 /\ sendLen = mem[start]
    BY <2>2 DEF IInv, IoInv
  <2>4. Held # <<>> /\ Held[1] = PacketAt(start)
    <3>1. Len(Held) # 0
      BY <1>1, <2>1, LenAt DEF IInv
    <3> QED
      BY <1>1, <2>1, <3>1, EmptySeq
  <2>5. /\ Blocks(mem[start]) \in Nat
    <3>1. Blocks(mem[at[1]]) \in 0 .. MtuBlocks
      BY <2>1, HeaderType DEF IInv
    <3> QED
      BY <2>1, <3>1, SizeType
  <2> DEFINE sent == [k \in 0 .. Blocks(sendLen) |->
                        IF k = 0 THEN sendLen ELSE mem[send + k - 1]]
  <2>6. sent = PacketAt(start)
    <3>1. \A k \in 0 .. Blocks(mem[start]) :
             (IF k = 0 THEN sendLen ELSE mem[send + k - 1]) = mem[start + k]
      <4> SUFFICES ASSUME NEW k \in 0 .. Blocks(mem[start])
                   PROVE  (IF k = 0 THEN sendLen ELSE mem[send + k - 1])
                             = mem[start + k]
        OBVIOUS
      <4>1. k \in Nat /\ start + 1 + k - 1 = start + k
        BY <2>2, <2>5
      <4>2. k = 0 => start + k = start
        BY <2>2
      <4> QED
        BY <2>3, <4>1, <4>2
    <3> QED
      BY <2>3, <3>1 DEF PacketAt
  <2>7. send # NULL
    BY <2>2, <2>3 DEF NULL
  <2> HIDE DEF sent
  <2>8. Sending = <<sent>>
    BY <2>7 DEF Sending, sent
  <2> QED
    BY <2>4, <2>6, <2>8 DEF Q!First
<1> QED
  BY <1>2, <1>3

LEMMA HeldSubmit ==
    ASSUME IInv, NEW packet \in Packets, InputDone(packet)
    PROVE  Held' = Append(Held, packet) /\ Len(Held') = Len(at')
<1> DEFINE n == Len(at)
           S == {PacketAt(at[i]) : i \in 1 .. n} \cup {packet}
<1>1. /\ Held \in Seq(S) /\ Len(Held) = n
      /\ \A i \in 1 .. n : Held[i] = PacketAt(at[i])
  <2>1. \A i \in 1 .. Len(at) : PacketAt(at[i]) \in S
    OBVIOUS
  <2> HIDE DEF S
  <2> QED
    BY <2>1, HeldIsSeq DEF IInv
<1>2. /\ Append(Held, packet) \in Seq(S) /\ Len(Append(Held, packet)) = n + 1
      /\ \A i \in 1 .. n : Append(Held, packet)[i] = PacketAt(at[i])
      /\ Append(Held, packet)[n + 1] = packet
  BY <1>1, AppendProperties
<1>3. /\ Len(at') = n + 1 /\ at'[n + 1] = Tip /\ n \in Nat
      /\ \A i \in 1 .. n : /\ at'[i] = at[i] /\ mem'[at[i]] = mem[at[i]]
                           /\ \A b \in Extent(at[i]) : mem'[b] = mem[b]
      /\ mem'[Tip] = packet[0]
  BY SubmitHeld, LenAt DEF IInv, Types
<1>4. \A i \in 1 .. n : PacketAt(at[i])' = PacketAt(at[i])
  <2> SUFFICES ASSUME NEW i \in 1 .. n
               PROVE  PacketAt(at[i])' = PacketAt(at[i])
    OBVIOUS
  <2>1. at[i] \in Nat /\ Blocks(mem[at[i]]) \in Nat
    BY HeaderType, SizeType DEF IInv
  <2>2. \A j \in 0 .. Blocks(mem[at[i]]) : mem'[at[i] + j] = mem[at[i] + j]
    <3> DEFINE a == at[i]
               l == Blocks(mem[a])
    <3>1. \A b \in a .. a + l : mem'[b] = mem[b]
      BY <1>3 DEF Extent
    <3>2. a \in Nat /\ l \in Nat
      BY <2>1
    <3> HIDE DEF a, l
    <3>3. \A j \in 0 .. l : mem'[a + j] = mem[a + j]
      BY <3>1, <3>2
    <3> QED
      BY <3>3 DEF a, l
  <2>3. PacketAt(at[i])' =
           [j \in 0 .. Blocks(mem[at[i]]) |-> mem'[at[i] + j]]
    BY <1>3 DEF PacketAt
  <2> QED
    BY <2>2, <2>3 DEF PacketAt
<1>5. \A j : j = n + 1 => PacketAt(at[j])' = packet
  <2>1. \A j : j = n + 1 =>
           PacketAt(at[j])' = [l \in 0 .. Blocks(packet[0]) |-> mem'[Tip + l]]
    BY <1>3 DEF PacketAt
  <2>2. \A l \in 0 .. Blocks(packet[0]) : mem'[Tip + l] = packet[l]
    BY SubmitMemory DEF IInv, Types
  <2>3. packet = [l \in 0 .. Blocks(packet[0]) |-> packet[l]]
    BY PacketType
  <2> QED
    BY <2>1, <2>2, <2>3
<1>6. Held' = [i \in 1 .. n + 1 |-> PacketAt(at[i])']
  BY <1>3 DEF Held
<1>7. \A i \in 1 .. n + 1 : PacketAt(at[i])' = Append(Held, packet)[i]
  <2> SUFFICES ASSUME NEW i \in 1 .. n + 1
               PROVE  PacketAt(at[i])' = Append(Held, packet)[i]
    OBVIOUS
  <2>1. CASE i = n + 1
    BY <1>2, <1>5, <2>1
  <2>2. CASE i # n + 1
    <3>1. i \in 1 .. n
      BY <1>3, <2>2
    <3> QED
      BY <1>2, <1>4, <3>1
  <2> QED
    BY <2>1, <2>2
<1> DEFINE A == Append(Held, packet)
<1>8. A = [i \in 1 .. n + 1 |-> A[i]]
  BY <1>2, LenProperties
<1>9. Held' = A
  <2> HIDE DEF A, n
  <2>1. Held' = [i \in 1 .. n + 1 |-> A[i]]
    BY <1>6, <1>7 DEF A
  <2> QED
    BY <1>8, <2>1
<1> QED
  BY <1>2, <1>3, <1>9

LEMMA HeldConsume ==
    ASSUME IInv, OutputDone
    PROVE  Held # <<>> /\ Held' = Tail(Held) /\ Len(Held') = Len(at')
<1> DEFINE n == Len(at')
           S == {PacketAt(at[i]) : i \in 1 .. Len(at)}
           T == Tail(Held)
<1>1. /\ Held \in Seq(S) /\ Len(Held) = Len(at)
      /\ \A i \in 1 .. Len(at) : Held[i] = PacketAt(at[i])
  <2>1. \A i \in 1 .. Len(at) : PacketAt(at[i]) \in S
    OBVIOUS
  <2> HIDE DEF S
  <2> QED
    BY <2>1, HeldIsSeq DEF IInv
<1>2. /\ Len(at) \in Nat \ {0} /\ n = Len(at) - 1 /\ mem' = mem
      /\ \A i \in 1 .. n : at'[i] = at[i + 1] /\ i + 1 \in 1 .. Len(at)
  BY ConsumeHeld
<1>3. Held # <<>>
  BY <1>1, <1>2, EmptySeq
<1>4. T \in Seq(S) /\ Len(T) = n /\ \A i \in 1 .. n : T[i] = Held[i + 1]
  BY <1>1, <1>2, <1>3, HeadTailProperties
<1>5. \A i \in 1 .. n : PacketAt(at[i])' = T[i]
  <2> SUFFICES ASSUME NEW i \in 1 .. n PROVE PacketAt(at[i])' = T[i]
    OBVIOUS
  <2>1. PacketAt(at[i])' = PacketAt(at[i + 1])
    BY <1>2 DEF PacketAt
  <2> QED
    BY <1>1, <1>2, <1>4, <2>1
<1>6. Held' = [i \in 1 .. n |-> PacketAt(at[i])']
  BY DEF Held
<1>7. T = [i \in 1 .. n |-> T[i]]
  BY <1>4, LenProperties
<1>8. Held' = T
  <2> HIDE DEF T, n
  <2>1. Held' = [i \in 1 .. n |-> T[i]]
    BY <1>5, <1>6
  <2> QED
    BY <1>7, <2>1
<1> QED
  BY <1>3, <1>4, <1>8

\* The input is refused only while Num packets are held: what an MTU's room is
\* missing for is taken by packets of at most 1 + c blocks each.
LEMMA RefusedWhenFull ==
    IInv => (Len(at) < Num => recv # NULL)
<1> SUFFICES ASSUME IInv, recv = NULL, Len(at) < Num PROVE FALSE
  OBVIOUS
<1> DEFINE c == MtuBlocks
           n == Len(at)
<1>1. Around /\ start - Tip <= c
  BY RoomType DEF IInv
<1>2. used >= Size - c - c
  <2>1. wrap >= Size - c /\ Tip = used - (wrap - start)
    BY <1>1, RingType
  <2> HIDE DEF c
  <2>2. c \in Nat
    BY RingNat DEF c
  <2> QED
    BY <1>1, <2>1, <2>2, RingNat
<1>3. Size = (1 + c) * (Num - 1) + 2 * (1 + c) /\ c \in Nat /\ Num \in Nat \ {0}
  BY SizeProduct, SizeType, BufferAssumption
<1>4. n \in Nat \ {0} /\ at[1] = start
  <2>1. used # 0
    BY <1>1, RingType
  <2> QED
    BY <2>1, LenAt DEF IInv, ChainInv
<1>5. used <= (1 + c) * n
  <2>1. 1 \in 1 .. n /\ n + 1 - 1 = n
    BY <1>4
  <2>2. Behind(1) = used
    <3>1. Upper(1) /\ used - (start - start) = used
      BY <1>4, RingType DEF Upper
    <3> QED
      BY <1>4, <3>1 DEF Behind
  <2>3. Behind(1) <= (1 + c) * (n + 1 - 1)
    BY <2>1 DEF IInv, CountInv
  <2> QED
    BY <2>1, <2>2, <2>3
<1> HIDE DEF c
<1>6. (1 + c) * n <= (1 + c) * (Num - 1)
  <2> DEFINE d == Num - 1 - n
  <2>1. d \in Nat /\ Num - 1 = n + d
    BY <1>3, <1>4
  <2> HIDE DEF d, n
  <2>2. (1 + c) * (n + d) = (1 + c) * n + (1 + c) * d /\ (1 + c) * d \in Nat
        /\ (1 + c) * n \in Nat
    BY <1>3, <1>4, <2>1
  <2> QED
    BY <2>1, <2>2
<1> DEFINE p == (1 + c) * n
           q == (1 + c) * (Num - 1)
<1>7. p \in Int /\ q \in Int /\ used \in Int
  BY <1>3, <1>4, RingType
<1> HIDE DEF p, q
<1>8. used >= q + 2 * (1 + c) - c - c /\ used <= p /\ p <= q
  BY <1>2, <1>3, <1>5, <1>6 DEF p, q
<1> QED
  BY <1>3, <1>7, <1>8

\* What a state promises both sides.
FirstIsSent == Sending = Q!First(Held)
NotRefused == Len(at) < Num => recv # NULL

LEMMA InvPromises == IInv => FirstIsSent /\ NotRefused
  BY SendingIsFirst, RefusedWhenFull DEF FirstIsSent, NotRefused

LEMMA PromisesKept == IInv' => FirstIsSent' /\ NotRefused'
  BY InvPromises, PTL

LEMMA SubmitQueue ==
    ASSUME IInv, IInv', NEW packet \in Packets, InputDone(packet)
    PROVE  Q!Submit(packet)
<1>1. Held' = Append(Held, packet) /\ Len(Held') = Len(at')
  BY HeldSubmit
<1>2. recv # NULL
  BY DEF InputDone
<1>3. FirstIsSent' /\ NotRefused'
  BY PromisesKept
<1> QED
  BY <1>1, <1>2, <1>3 DEF Q!Submit, Q!Promised, FirstIsSent, NotRefused, Q!First

LEMMA ConsumeQueue ==
    ASSUME IInv, IInv', OutputDone
    PROVE  Q!Consume
<1>1. Held # <<>> /\ Held' = Tail(Held) /\ Len(Held') = Len(at')
  BY HeldConsume
<1>2. FirstIsSent' /\ NotRefused'
  BY PromisesKept
<1> QED
  BY <1>1, <1>2 DEF Q!Consume, Q!Promised, FirstIsSent, NotRefused, Q!First

LEMMA QueueStep == IInv /\ IInv' /\ [Next]_vars => [Q!Next]_Q!vars
<1> SUFFICES ASSUME IInv, IInv', [Next]_vars PROVE [Q!Next]_Q!vars
  OBVIOUS
<1>1. CASE OutputDone
  BY <1>1, ConsumeQueue DEF Q!Next
<1>2. CASE \E packet \in Packets : InputDone(packet)
  BY <1>2, SubmitQueue DEF Q!Next
<1>3. CASE UNCHANGED vars
  BY <1>3 DEF vars, ring, input, output, Q!vars, Held, Sending, PacketAt
<1> QED
  BY <1>1, <1>2, <1>3 DEF Next

LEMMA QueueInit == Init => Q!Init
<1> SUFFICES ASSUME Init PROVE Q!Init
  OBVIOUS
<1>1. Len(at) = 0 /\ Held = <<>>
  BY DEF Init, Held
<1>2. Sending = <<>>
  BY DEF Init, Sending
<1>3. recv # NULL
  BY DEF Init, NULL
<1> QED
  BY <1>1, <1>2, <1>3 DEF Q!Init

\* The ring of bytes, its early wraps and the four interfaces implement the
\* queue of packets that PacketQueue states (PacketBuffer.c with
\* ChunkBuffer2.h): order, contents, what is on its way, and when the input is
\* refused, for every MTU, number and set of packets.
THEOREM ImplementsPacketQueue == Spec => ImplementsQueue
  BY Inductive, QueueInit, QueueStep, PTL DEF Spec, ImplementsQueue, Q!Spec
=============================================================================
