---------------------------- MODULE UdpRelayProofs ----------------------------
(***************************************************************************)
(* Proofs about UdpRelay for any apps, transaction IDs, number of          *)
(* connections and size of the send buffer. Two facts strengthen the       *)
(* safety properties to an inductive invariant. QueryInv: a connection     *)
(* keeps its transaction ID only as long as every packet it accepted       *)
(* carries it. Conserved: what it accepted it has sent or still holds.     *)
(***************************************************************************)
EXTENDS UdpRelayProperties, FiniteSetTheorems, SequenceTheorems, TLAPS

-----------------------------------------------------------------------------
(* The pieces of the handlers. *)

LEMMA LiveFinite == IsFiniteSet(Live)
  BY RelayAssumption, FS_Subset DEF Live

\* What waits in a queue that is longer by one packet, or sent up to its n-th.
LEMMA WaitingMore ==
    ASSUME NEW queue \in Seq(Packets), NEW packet \in Packets
    PROVE  Waiting(Append(queue, packet)) = Waiting(queue) \cup {packet}
<1>1. /\ Len(queue) \in Nat /\ Len(Append(queue, packet)) = Len(queue) + 1
      /\ Append(queue, packet)[Len(queue) + 1] = packet
      /\ \A i \in 1 .. Len(queue) : Append(queue, packet)[i] = queue[i]
  BY AppendProperties, LenProperties
<1>2. 1 .. Len(queue) + 1 = 1 .. Len(queue) \cup {Len(queue) + 1}
  BY <1>1
<1> QED
  BY <1>1, <1>2 DEF Waiting

LEMMA WaitingRest ==
    ASSUME NEW queue \in Seq(Packets), NEW n \in 0 .. Len(queue)
    PROVE  {queue[i] : i \in 1 .. n} \cup Waiting(SubSeq(queue, n + 1, Len(queue)))
              = Waiting(queue)
<1> DEFINE rest == SubSeq(queue, n + 1, Len(queue))
<1>1. Len(queue) \in Nat /\ n \in Nat /\ n <= Len(queue)
  BY LenProperties
<1>2. \A i \in n + 1 .. Len(queue) : queue[i] \in Packets
  BY <1>1, ElementOfSeq
<1>3. Len(rest) = Len(queue) - n
  BY <1>1, <1>2, SubSeqProperties
<1>4. \A i \in 1 .. Len(rest) : rest[i] = queue[n + i]
  BY <1>1, <1>2, <1>3, SubSeqProperties
<1> HIDE DEF rest
<1>5. ASSUME NEW i \in 1 .. Len(rest) PROVE rest[i] \in Waiting(queue)
  <2>1. n + i \in 1 .. Len(queue)
    BY <1>1, <1>3
  <2> QED
    BY <1>4, <2>1 DEF Waiting
<1>6. ASSUME NEW i \in 1 .. Len(queue), i > n PROVE queue[i] \in Waiting(rest)
  <2>1. i - n \in 1 .. Len(rest) /\ n + (i - n) = i
    BY <1>1, <1>3, <1>6
  <2> QED
    BY <1>4, <2>1 DEF Waiting
<1>7. Waiting(rest) \subseteq Waiting(queue)
  BY <1>5 DEF Waiting
<1>8. {queue[i] : i \in 1 .. n} \subseteq Waiting(queue)
  BY <1>1 DEF Waiting
<1>9. ASSUME NEW i \in 1 .. Len(queue)
      PROVE  queue[i] \in {queue[j] : j \in 1 .. n} \cup Waiting(rest)
  <2>1. CASE i > n
    BY <1>6, <2>1
  <2>2. CASE ~(i > n)
    <3>1. i \in 1 .. n
      BY <1>1, <2>2
    <3> QED
      BY <3>1
  <2> QED
    BY <2>1, <2>2
<1>10. Waiting(queue) \subseteq {queue[j] : j \in 1 .. n} \cup Waiting(rest)
  BY <1>9 DEF Waiting
<1> QED
  BY <1>7, <1>8, <1>10 DEF rest

\* connection_free leaves well-typed fields and gives one place back.
LEMMA FreeStep ==
    ASSUME IInv, NEW p \in Ports, con[p] # "none", Free(p),
           got' \in [Ports -> SUBSET Packets], submits' \in 0 .. MaxSubmits
    PROVE  IInv'
<1>1. Live' = Live \ {p}
  BY DEF Free, Live, IInv, TypeOK, Shape
<1>2. p \in Live /\ Cardinality(Live) \in Nat
  BY LiveFinite, FS_CardinalityType DEF Live
<1>3. Cardinality(Live') = Cardinality(Live) - 1
  BY <1>1, <1>2, LiveFinite, FS_RemoveElement
<1>4. IsFiniteSet(Live')
  BY <1>1, LiveFinite, FS_RemoveElement
<1>5. CountIsExact' /\ num_connections' \in Nat
  <2>1. Cardinality(Live') \in Nat
    BY <1>4, FS_CardinalityType
  <2> QED
    BY <1>2, <1>3, <2>1, RelayAssumption
       DEF Free, Decremented, CountIsExact, IInv, TypeOK
<1>6. Shape'
  <2>1. <<>> \in Seq(Packets) /\ NoDns \in Packets
    BY EmptySeq DEF Packets
  <2> QED
    BY <1>5, <2>1 DEF Free, IInv, TypeOK, Shape
<1>7. TimerIsQuiet' /\ QueryInv'
  BY DEF Free, IInv, TypeOK, Shape, TimerIsQuiet, QueryInv
<1>8. Waiting(<<>>) = {}
  BY DEF Waiting
<1>9. Conserved'
  <2> SUFFICES ASSUME NEW q \in Ports
               PROVE  /\ asked'[q] = sent'[q] \cup Waiting(send_buffer'[q])
                      /\ con'[q] = "none" => sent'[q] = {}
    BY DEF Conserved, Waiting
  <2>1. CASE q = p
    <3>1. asked'[p] = {} /\ sent'[p] = {} /\ send_buffer'[p] = <<>>
      BY DEF Free, IInv, TypeOK, Shape
    <3> QED
      BY <1>8, <2>1, <3>1
  <2>2. CASE q # p
    <3>1. /\ asked'[q] = asked[q] /\ sent'[q] = sent[q] /\ con'[q] = con[q]
          /\ send_buffer'[q] = send_buffer[q]
      BY <2>2 DEF Free, IInv, TypeOK, Shape
    <3> QED
      BY <3>1 DEF IInv, Conserved
  <2> QED
    BY <2>1, <2>2
<1> QED
  BY <1>5, <1>6, <1>7, <1>9 DEF IInv, TypeOK

\* Sending what waits keeps the invariant if the packets and the connection's
\* ID do: the timer runs only when nothing is left.
LEMMA FlushStep ==
    ASSUME IInv, NEW p \in Ports, con[p] # "none",
           NEW queue \in Seq(Packets), NEW id \in Packets,
           NEW accepted \in SUBSET Packets, id # NoDns => accepted \subseteq {id},
           accepted = sent[p] \cup Waiting(queue),
           Flush(p, queue, id, accepted),
           got' \in [Ports -> SUBSET Packets], submits' \in 0 .. MaxSubmits
    PROVE  IInv'
<1>1. CASE Free(p)
  BY <1>1, FreeStep
<1>2. ASSUME NEW n \in 0 .. Len(queue),
             send_buffer' = [send_buffer EXCEPT ![p] = SubSeq(queue, n + 1, Len(queue))],
             timer' = [timer EXCEPT ![p] =
                          TimerAfter(SubSeq(queue, n + 1, Len(queue)), n > 0)],
             sent' = [sent EXCEPT ![p] = @ \cup {queue[i] : i \in 1 .. n}],
             con' = [con EXCEPT ![p] = "up"],
             dns_id' = [dns_id EXCEPT ![p] = id],
             asked' = [asked EXCEPT ![p] = accepted],
             UNCHANGED num_connections
      PROVE  IInv'
  <2> DEFINE rest == SubSeq(queue, n + 1, Len(queue))
  <2>1. rest \in Seq(Packets)
    <3>1. n + 1 \in 1 .. Len(queue) + 1 /\ Len(queue) \in Nat
      BY LenProperties
    <3>2. \A i \in n + 1 .. Len(queue) : queue[i] \in Packets
      BY <3>1, ElementOfSeq
    <3> QED
      BY <3>1, <3>2, SubSeqProperties
  <2>2. {queue[i] : i \in 1 .. n} \subseteq Packets
    BY LenProperties, ElementOfSeq
  <2> HIDE DEF rest
  <2>3. send_buffer' = [send_buffer EXCEPT ![p] = rest]
    BY <1>2 DEF rest
  <2>4. timer' = [timer EXCEPT ![p] = rest = <<>>]
    BY <1>2 DEF rest, TimerAfter
  <2>5. Live' = Live
    BY <1>2 DEF Live, IInv, TypeOK, Shape
  <2>6. CountIsExact'
    BY <1>2, <2>5 DEF CountIsExact, IInv, TypeOK
  <2>7. Shape'
    <3>1. sent' \in [Ports -> SUBSET Packets]
      BY <1>2, <2>2 DEF IInv, TypeOK, Shape
    <3>2. timer' \in [Ports -> BOOLEAN]
      BY <2>4 DEF IInv, TypeOK, Shape
    <3>3. send_buffer' \in [Ports -> Seq(Packets)]
      BY <2>1, <2>3 DEF IInv, TypeOK, Shape
    <3> QED
      BY <1>2, <3>1, <3>2, <3>3 DEF IInv, TypeOK, Shape
  <2>8. TimerIsQuiet'
    <3> SUFFICES ASSUME NEW q \in Ports, timer'[q]
                 PROVE  send_buffer'[q] = <<>> /\ con'[q] = "up"
      BY DEF TimerIsQuiet
    <3>1. CASE q = p
      <4>1. timer'[p] = (rest = <<>>) /\ send_buffer'[p] = rest
        BY <2>3, <2>4 DEF IInv, TypeOK, Shape
      <4> QED
        BY <1>2, <3>1, <4>1 DEF IInv, TypeOK, Shape
    <3>2. CASE q # p
      <4>1. timer'[q] = timer[q]
        BY <2>4, <3>2 DEF IInv, TypeOK, Shape
      <4>2. send_buffer[q] = <<>> /\ con[q] = "up"
        BY <4>1 DEF IInv, TimerIsQuiet
      <4> QED
        BY <1>2, <2>3, <3>2, <4>2 DEF IInv, TypeOK, Shape
    <3> QED
      BY <3>1, <3>2
  <2>9. QueryInv'
    BY <1>2 DEF QueryInv, IInv, TypeOK, Shape
  <2>10. Conserved'
    <3> SUFFICES ASSUME NEW q \in Ports
                 PROVE  /\ asked'[q] = sent'[q] \cup Waiting(send_buffer'[q])
                        /\ con'[q] = "none" => sent'[q] = {}
      BY DEF Conserved, Waiting
    <3>1. CASE q = p
      <4>1. /\ asked'[p] = accepted /\ con'[p] = "up"
            /\ sent'[p] = sent[p] \cup {queue[i] : i \in 1 .. n}
            /\ send_buffer'[p] = rest
        BY <1>2, <2>3 DEF IInv, TypeOK, Shape
      <4>2. {queue[i] : i \in 1 .. n} \cup Waiting(rest) = Waiting(queue)
        BY WaitingRest DEF rest
      <4> QED
        BY <3>1, <4>1, <4>2
    <3>2. CASE q # p
      <4>1. /\ asked'[q] = asked[q] /\ sent'[q] = sent[q] /\ con'[q] = con[q]
            /\ send_buffer'[q] = send_buffer[q]
        BY <1>2, <2>3, <3>2 DEF IInv, TypeOK, Shape
      <4> QED
        BY <4>1 DEF IInv, Conserved
    <3> QED
      BY <3>1, <3>2
  <2> QED
    BY <2>6, <2>7, <2>8, <2>9, <2>10 DEF IInv, TypeOK
<1> QED
  BY <1>1, <1>2 DEF Flush

\* The ID after a packet covers the packet and all that were accepted before.
LEMMA IdStep ==
    ASSUME IInv, NEW p \in Ports, NEW packet \in Packets
    PROVE  /\ IdAfter(p, packet) \in Packets
           /\ IdAfter(p, packet) # NoDns =>
                 asked[p] \cup {packet} \subseteq {IdAfter(p, packet)}
  BY DEF IdAfter, Packets, IInv, QueryInv

\* A step of the counters only.
LEMMA SubmittedType ==
    ASSUME IInv, Submitted PROVE submits' \in 0 .. MaxSubmits
  BY RelayAssumption DEF Submitted, IInv, TypeOK, Shape

-----------------------------------------------------------------------------
(* One lemma for each way a packet of an app may take. *)

LEMMA RefuseStep ==
    ASSUME IInv, NEW p \in Ports, NEW packet \in Packets, Refuse(p, packet)
    PROVE  IInv'
  BY SubmittedType DEF Refuse, pipeline, IInv, TypeOK, Shape, CountIsExact, Live,
     TimerIsQuiet, QueryInv, Conserved, Waiting

LEMMA CreateStep ==
    ASSUME IInv, NEW p \in Ports, NEW packet \in Packets, Create(p, packet)
    PROVE  IInv'
<1>1. submits' \in 0 .. MaxSubmits
  BY SubmittedType DEF Create
<1>2. Live' = Live \cup {p} /\ p \notin Live
  BY DEF Create, Live, IInv, TypeOK, Shape
<1>3. Cardinality(Live') = Cardinality(Live) + 1
  BY <1>2, LiveFinite, FS_AddElement
<1>4. CountIsExact'
  BY <1>3, RelayAssumption DEF Create, CountIsExact, IInv, TypeOK, Shape
<1>5. <<packet>> \in Seq(Packets)
  OBVIOUS
<1>6. Shape'
  BY <1>1, <1>5 DEF Create, IInv, TypeOK, Shape
<1>7. TimerIsQuiet'
  BY DEF Create, IInv, TypeOK, Shape, TimerIsQuiet
<1>8. QueryInv'
  BY DEF Create, IInv, TypeOK, Shape, QueryInv
<1>9. Conserved'
  <2> SUFFICES ASSUME NEW q \in Ports
               PROVE  /\ asked'[q] = sent'[q] \cup Waiting(send_buffer'[q])
                      /\ con'[q] = "none" => sent'[q] = {}
    BY DEF Conserved, Waiting
  <2>1. CASE q = p
    <3>1. /\ asked'[p] = {packet} /\ sent'[p] = sent[p] /\ con'[p] = "connecting"
          /\ send_buffer'[p] = <<packet>> /\ con[p] = "none"
      BY DEF Create, IInv, TypeOK, Shape
    <3>2. sent[p] = {}
      BY <3>1 DEF IInv, Conserved
    <3>3. Waiting(<<packet>>) = {packet}
      BY DEF Waiting
    <3> QED
      BY <2>1, <3>1, <3>2, <3>3
  <2>2. CASE q # p
    <3>1. /\ asked'[q] = asked[q] /\ sent'[q] = sent[q] /\ con'[q] = con[q]
          /\ send_buffer'[q] = send_buffer[q]
      BY <2>2 DEF Create, IInv, TypeOK, Shape
    <3> QED
      BY <3>1 DEF IInv, Conserved
  <2> QED
    BY <2>1, <2>2
<1> QED
  BY <1>4, <1>6, <1>7, <1>8, <1>9 DEF IInv, TypeOK

LEMMA DropStep ==
    ASSUME IInv, NEW p \in Ports, NEW packet \in Packets, Drop(p, packet)
    PROVE  IInv'
<1>1. submits' \in 0 .. MaxSubmits
  BY SubmittedType DEF Drop
<1>2. Shape' /\ CountIsExact'
  BY <1>1, IdStep DEF Drop, IInv, TypeOK, Shape, CountIsExact, Live
<1>3. TimerIsQuiet'
  BY DEF Drop, IInv, TimerIsQuiet
<1>4. QueryInv'
  BY IdStep DEF Drop, IInv, TypeOK, Shape, QueryInv
<1>5. Conserved'
  BY DEF Drop, IInv, Conserved, Waiting
<1> QED
  BY <1>2, <1>3, <1>4, <1>5 DEF IInv, TypeOK

LEMMA EnqueueStep ==
    ASSUME IInv, NEW p \in Ports, NEW packet \in Packets, Enqueue(p, packet)
    PROVE  IInv'
<1>1. submits' \in 0 .. MaxSubmits
  BY SubmittedType DEF Enqueue
<1>2. Append(send_buffer[p], packet) \in Seq(Packets)
  BY AppendProperties DEF IInv, TypeOK, Shape
<1>3. Shape' /\ CountIsExact'
  BY <1>1, <1>2, IdStep DEF Enqueue, IInv, TypeOK, Shape, CountIsExact, Live
<1>4. TimerIsQuiet'
  <2>1. ~timer[p]
    BY DEF Enqueue, IInv, TimerIsQuiet
  <2> QED
    BY <2>1 DEF Enqueue, IInv, TypeOK, Shape, TimerIsQuiet
<1>5. ASSUME NEW q \in Ports, dns_id'[q] # NoDns PROVE asked'[q] \subseteq {dns_id'[q]}
  <2>1. CASE q = p
    <3>1. dns_id'[p] = IdAfter(p, packet) /\ asked'[p] = asked[p] \cup {packet}
      BY DEF Enqueue, IInv, TypeOK, Shape
    <3> QED
      BY <1>5, <2>1, <3>1, IdStep
  <2>2. CASE q # p
    <3>1. dns_id'[q] = dns_id[q] /\ asked'[q] = asked[q]
      BY <2>2 DEF Enqueue, IInv, TypeOK, Shape
    <3> QED
      BY <1>5, <3>1 DEF IInv, QueryInv
  <2> QED
    BY <2>1, <2>2
<1>6. QueryInv'
  BY <1>5 DEF QueryInv
<1>7. Conserved'
  <2> SUFFICES ASSUME NEW q \in Ports
               PROVE  /\ asked'[q] = sent'[q] \cup Waiting(send_buffer'[q])
                      /\ con'[q] = "none" => sent'[q] = {}
    BY DEF Conserved, Waiting
  <2>1. CASE q = p
    <3>1. /\ asked'[p] = asked[p] \cup {packet} /\ sent'[p] = sent[p]
          /\ con'[p] = con[p] /\ con[p] # "none"
          /\ send_buffer'[p] = Append(send_buffer[p], packet)
      BY DEF Enqueue, IInv, TypeOK, Shape
    <3>2. Waiting(Append(send_buffer[p], packet)) = Waiting(send_buffer[p]) \cup {packet}
      BY WaitingMore DEF IInv, TypeOK, Shape
    <3>3. asked[p] = sent[p] \cup Waiting(send_buffer[p])
      BY DEF IInv, Conserved
    <3> QED
      BY <2>1, <3>1, <3>2, <3>3
  <2>2. CASE q # p
    <3>1. /\ asked'[q] = asked[q] /\ sent'[q] = sent[q] /\ con'[q] = con[q]
          /\ send_buffer'[q] = send_buffer[q]
      BY <2>2 DEF Enqueue, IInv, TypeOK, Shape
    <3> QED
      BY <3>1 DEF IInv, Conserved
  <2> QED
    BY <2>1, <2>2
<1> QED
  BY <1>3, <1>4, <1>6, <1>7 DEF IInv, TypeOK

LEMMA SendAtOnceStep ==
    ASSUME IInv, NEW p \in Ports, NEW packet \in Packets, SendAtOnce(p, packet)
    PROVE  IInv'
<1>1. submits' \in 0 .. MaxSubmits
  BY SubmittedType DEF SendAtOnce
<1>2. /\ <<packet>> \in Seq(Packets)
      /\ asked[p] \cup {packet} \in SUBSET Packets
      /\ got' \in [Ports -> SUBSET Packets]
  BY DEF SendAtOnce, IInv, TypeOK, Shape
<1>3. asked[p] \cup {packet} = sent[p] \cup Waiting(<<packet>>)
  <2>1. asked[p] = sent[p] \cup Waiting(<<>>)
    BY DEF SendAtOnce, IInv, Conserved
  <2>2. Waiting(<<>>) = {} /\ Waiting(<<packet>>) = {packet}
    BY DEF Waiting
  <2> QED
    BY <2>1, <2>2
<1>4. /\ con[p] # "none"
      /\ Flush(p, <<packet>>, IdAfter(p, packet), asked[p] \cup {packet})
  BY DEF SendAtOnce
<1> QED
  BY <1>1, <1>2, <1>3, <1>4, IdStep, FlushStep

-----------------------------------------------------------------------------
(* One lemma for each event of a connection. *)

LEMMA ConnectedStep ==
    ASSUME IInv, NEW p \in Ports, Connected(p)
    PROVE  IInv'
<1>1. CASE Free(p)
  BY <1>1, FreeStep DEF Connected, IInv, TypeOK, Shape
<1>2. CASE ~Free(p)
  <2>1. /\ con' = [con EXCEPT ![p] = "associating"] /\ con[p] = "connecting"
        /\ UNCHANGED <<num_connections, dns_id, send_buffer, timer, asked, sent,
                       got, submits>>
    BY <1>2 DEF Connected
  <2>2. Live' = Live
    BY <2>1 DEF Live, IInv, TypeOK, Shape
  <2>3. Shape' /\ CountIsExact'
    BY <2>1, <2>2 DEF IInv, TypeOK, Shape, CountIsExact
  <2>4. TimerIsQuiet' /\ QueryInv' /\ Conserved'
    BY <2>1 DEF IInv, TypeOK, Shape, TimerIsQuiet, QueryInv, Conserved, Waiting
  <2> QED
    BY <2>3, <2>4 DEF IInv, TypeOK
<1> QED
  BY <1>1, <1>2

\* The socket takes what waits.
LEMMA SendingStep ==
    ASSUME IInv, NEW p \in Ports, Up(p) \/ Writable(p)
    PROVE  IInv'
<1>1. /\ con[p] # "none"
      /\ Flush(p, send_buffer[p], dns_id[p], asked[p])
      /\ UNCHANGED <<got, submits>>
  BY DEF Up, Writable
<1>2. /\ send_buffer[p] \in Seq(Packets) /\ dns_id[p] \in Packets
      /\ asked[p] \in SUBSET Packets
      /\ dns_id[p] # NoDns => asked[p] \subseteq {dns_id[p]}
      /\ got' \in [Ports -> SUBSET Packets] /\ submits' \in 0 .. MaxSubmits
  BY <1>1 DEF IInv, TypeOK, Shape, QueryInv
<1>3. asked[p] = sent[p] \cup Waiting(send_buffer[p])
  BY DEF IInv, Conserved
<1> QED
  BY <1>1, <1>2, <1>3, FlushStep

\* Everything that ends a connection besides an answer.
LEMMA EndStep ==
    ASSUME IInv, NEW p \in Ports, SocksError(p) \/ DatagramError(p) \/ Inactive(p)
    PROVE  IInv'
<1>1. con[p] # "none" /\ Free(p) /\ UNCHANGED <<got, submits>>
  BY DEF SocksError, DatagramError, Inactive, IInv, TimerIsQuiet
<1> QED
  BY <1>1, FreeStep DEF IInv, TypeOK, Shape

LEMMA ReceiveStep ==
    ASSUME IInv, NEW p \in Ports, NEW packet \in Packets, Receive(p, packet)
    PROVE  IInv'
<1>1. /\ got' \in [Ports -> SUBSET Packets] /\ submits' \in 0 .. MaxSubmits
      /\ con[p] # "none"
  BY DEF Receive, IInv, TypeOK, Shape
<1>2. CASE dns_id[p] # NoDns /\ packet = dns_id[p]
  BY <1>1, <1>2, FreeStep DEF Receive
<1>3. CASE ~(dns_id[p] # NoDns /\ packet = dns_id[p])
  <2>1. /\ dns_id' = [dns_id EXCEPT ![p] = NoDns]
        /\ UNCHANGED <<con, num_connections, send_buffer, timer, asked, sent>>
    BY <1>3 DEF Receive
  <2>2. Shape' /\ CountIsExact'
    BY <1>1, <2>1 DEF IInv, TypeOK, Shape, CountIsExact, Live, Packets
  <2>3. TimerIsQuiet' /\ QueryInv' /\ Conserved'
    BY <2>1 DEF IInv, TypeOK, Shape, TimerIsQuiet, QueryInv, Conserved, Waiting
  <2> QED
    BY <2>2, <2>3 DEF IInv, TypeOK
<1> QED
  BY <1>2, <1>3

LEMMA StutterStep == IInv /\ UNCHANGED vars => IInv'
  BY DEF vars, pipeline, IInv, TypeOK, Shape, CountIsExact, Live,
     TimerIsQuiet, QueryInv, Conserved, Waiting

-----------------------------------------------------------------------------
LEMMA InitIInv == Init => IInv
<1> SUFFICES ASSUME Init PROVE IInv
  OBVIOUS
<1>1. Live = {}
  BY DEF Init, Live
<1>2. CountIsExact
  BY <1>1, FS_EmptySet, RelayAssumption DEF Init, CountIsExact
<1>3. Shape
  <2>1. <<>> \in Seq(Packets) /\ NoDns \in Packets /\ 0 \in 0 .. MaxSubmits
    BY EmptySeq, RelayAssumption DEF Packets
  <2> QED
    BY <2>1 DEF Init, Shape
<1>4. TimerIsQuiet /\ QueryInv /\ Conserved
  BY DEF Init, TimerIsQuiet, QueryInv, Conserved, Waiting
<1> QED
  BY <1>2, <1>3, <1>4 DEF IInv, TypeOK

LEMMA NextIInv == IInv /\ [Next]_vars => IInv'
<1> SUFFICES ASSUME IInv, Next PROVE IInv'
  BY StutterStep
<1> PICK p \in Ports : Submit(p) \/ Handle(p)
  BY DEF Next
<1>1. CASE Submit(p)
  BY <1>1, RefuseStep, CreateStep, DropStep, EnqueueStep, SendAtOnceStep
     DEF Submit
<1>2. CASE Handle(p)
  BY <1>2, ConnectedStep, SendingStep, EndStep, ReceiveStep DEF Handle
<1> QED
  BY <1>1, <1>2

THEOREM Inductive == Spec => []IInv
  BY InitIInv, NextIInv, PTL DEF Spec

\* For any number of apps and connections the counter agrees with the tree,
\* and never exceeds max_connections (connection_init, connection_free).
THEOREM TypeCorrect == Spec => []TypeOK
<1>1. IInv => TypeOK
  BY DEF IInv
<1> QED
  BY Inductive, <1>1, PTL

\* The timer never runs while a packet is held, for any buffer size: a timeout
\* frees only a connection that has sent everything it accepted
\* (PacketPassInactivityMonitor, send_monitor_handler).
THEOREM TimerIsIdle == Spec => []TimeoutLosesNothing
<1>1. IInv => TimeoutLosesNothing
  <2>1. Waiting(<<>>) = {}
    BY DEF Waiting
  <2> QED
    BY <2>1 DEF IInv, TimerIsQuiet, Conserved, TimeoutLosesNothing
<1> QED
  BY Inductive, <1>1, PTL

-----------------------------------------------------------------------------
\* Only Receive gives the app something while it ends a connection, and only
\* for the connection's ID.
LEMMA AnswerStep ==
    ASSUME IInv, [Next]_vars, NEW p \in Ports,
           con[p] # "none", con'[p] = "none", got'[p] # got[p]
    PROVE  asked[p] \subseteq got'[p]
<1>1. PICK q \in Ports : Submit(q) \/ Handle(q)
  BY DEF Next, vars, pipeline
<1>2. ~Submit(q)
  <2>1. ASSUME NEW packet \in Packets, Create(q, packet) PROVE FALSE
    BY <2>1 DEF Create, IInv, TypeOK, Shape
  <2> QED
    BY <2>1 DEF Submit, Refuse, Drop, Enqueue, SendAtOnce
<1>3. PICK packet \in Packets : Receive(q, packet)
  BY <1>1, <1>2 DEF Handle, Connected, Up, SocksError, DatagramError, Writable,
     Inactive
<1>4. q = p
  BY <1>3 DEF Receive, IInv, TypeOK, Shape
<1>5. dns_id[p] # NoDns /\ packet = dns_id[p]
  BY <1>3, <1>4 DEF Receive
<1>6. packet \in got'[p]
  BY <1>3, <1>4 DEF Receive, IInv, TypeOK, Shape
<1> QED
  BY <1>5, <1>6 DEF IInv, QueryInv

\* A connection that the answer to a query ends was given nothing but that
\* query to send, for any traffic (connection_send, recv_if_handler_send).
THEOREM AnswerEndsItsQuery == Spec => AnswerEndsOnlyItsQuery
<1>1. IInv /\ [Next]_vars =>
         [\A p \in Ports :
             con[p] # "none" /\ con'[p] = "none" /\ got'[p] # got[p]
               => asked[p] \subseteq got'[p]]_vars
  BY AnswerStep
<1> QED
  BY Inductive, <1>1, PTL DEF Spec, AnswerEndsOnlyItsQuery
=============================================================================
