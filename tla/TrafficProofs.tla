---------------------------- MODULE TrafficProofs ---------------------------
(***************************************************************************)
(* Proofs about Traffic for any set of counters and any bounds.            *)
(* NeverOvercharged is not inductive: what the server may be told later    *)
(* depends on the reports under way, those on the agent's map, and the map *)
(* on the file it may be loaded from. Each of them is bounded by what was  *)
(* carried, and for the map and the file the next collection must stay     *)
(* within the bound too.                                                   *)
(***************************************************************************)
EXTENDS TrafficProperties, SequenceTheorems, TLAPS

StatsBound == \A c \in Counters : stats[c] <= carried[c]

\* What is counted, and what it will be after the next collection.
Covered(d, v) ==
    \A c \in Counters : /\ d[c] <= carried[c]
                        /\ d[c] + stats[c] <= carried[c] + v[c]
MapBound == Covered(delta, value)
FileBound == Covered(fileDelta, fileValue)

FlightBound ==
    \A i \in 1 .. Len(flight), c \in Counters : flight[i].delta[c] <= carried[c]

Bounds == StatsBound /\ MapBound /\ FileBound /\ FlightBound /\ NeverOvercharged
IInv == TypeOK /\ Bounds

-----------------------------------------------------------------------------
\* What a collection of digestible counters makes of the map is well-typed and
\* still bounded (update_traffic_map).
LEMMA UpdateIsBounded ==
    ASSUME TypeOK, StatsBound, MapBound,
           NEW S \in SUBSET Counters, \A c \in S : Digestible(c), Update(S),
           UNCHANGED <<stats, carried>>
    PROVE  /\ known' \subseteq Counters
           /\ value' \in PerCounter /\ delta' \in PerCounter
           /\ MapBound'
<1>1. ASSUME NEW c \in Counters
      PROVE  /\ NewDelta(S, c) \in Nat
             /\ NewDelta(S, c) <= carried[c]
             /\ NewDelta(S, c) + stats[c]
                   <= carried[c] + IF c \in S THEN stats[c] ELSE value[c]
  <2>1. /\ stats[c] \in Nat /\ carried[c] \in Nat
        /\ value[c] \in Nat /\ delta[c] \in Nat
    BY DEF TypeOK, PerCounter
  <2>2. /\ stats[c] <= carried[c] /\ delta[c] <= carried[c]
        /\ delta[c] + stats[c] <= carried[c] + value[c]
    BY DEF StatsBound, MapBound, Covered
  <2>3. (c \in S /\ c \in known) => stats[c] >= value[c]
    BY DEF Digestible
  <2> QED
    BY <2>1, <2>2, <2>3 DEF NewDelta
<1>2. /\ delta' = [c \in Counters |-> NewDelta(S, c)]
      /\ value' = [c \in Counters |-> IF c \in S THEN stats[c] ELSE value[c]]
      /\ known' = known \cup S
  BY DEF Update
<1>3. known' \subseteq Counters
  BY <1>2 DEF TypeOK
<1>4. delta' \in PerCounter
  BY <1>1, <1>2 DEF PerCounter
<1>5. value' \in PerCounter
  BY <1>2 DEF TypeOK, PerCounter
<1>6. MapBound'
  BY <1>1, <1>2 DEF MapBound, Covered
<1> QED
  BY <1>3, <1>4, <1>5, <1>6

-----------------------------------------------------------------------------
LEMMA InitIInv == Init => IInv
<1> SUFFICES ASSUME Init PROVE IInv
  OBVIOUS
<1>1. Zero \in PerCounter /\ \A c \in Counters : Zero[c] = 0
  BY DEF Zero, PerCounter
<1>2. flight \in Seq(Reports) /\ Len(flight) = 0
  BY DEF Init
<1>3. TypeOK
  <2>1. epoch \in 0 .. MaxRestarts
    BY TrafficAssumption DEF Init
  <2>2. /\ connected \in BOOLEAN
        /\ file \in {"none", "broken", "good"}
        /\ collector \in {"off", "idle", "running", "saving", "dead"}
        /\ known \subseteq Counters /\ fileKnown \subseteq Counters
        /\ listed \subseteq Counters
    BY DEF Init
  <2> QED
    BY <1>1, <1>2, <2>1, <2>2 DEF Init, TypeOK
<1>4. Bounds
  BY <1>1, <1>2 DEF Init, Bounds, StatsBound, MapBound, FileBound, Covered,
                    FlightBound, NeverOvercharged
<1> QED
  BY <1>3, <1>4 DEF IInv

\* Every action keeps the types.
LEMMA TypeStep == IInv /\ [Next]_vars => TypeOK'
<1> SUFFICES ASSUME IInv, [Next]_vars PROVE TypeOK'
  OBVIOUS
<1> USE DEF IInv, Bounds
<1>z. Zero \in PerCounter
  BY DEF Zero, PerCounter
<1>1. ASSUME NEW c \in Counters, Appears(c) PROVE TypeOK'
  BY <1>1 DEF Appears, TypeOK, map, saved
<1>2. ASSUME NEW c \in Counters, Carry(c) PROVE TypeOK'
  BY <1>2 DEF Carry, TypeOK, map, saved, PerCounter
<1>3. CASE XrayRestart
  BY <1>3, <1>z, TrafficAssumption DEF XrayRestart, TypeOK, map, saved
<1>4. CASE AgentStarts
  BY <1>4 DEF AgentStarts, TypeOK, xray, saved
<1>5. CASE AgentCrashes
  BY <1>5, <1>z DEF AgentCrashes, TypeOK, xray, saved
<1>6. CASE Connect
  BY <1>6 DEF Connect, TypeOK, xray, map, saved
<1>7. CASE Disconnect
  <2>1. flight' \in Seq(Reports) /\ connected' \in BOOLEAN
    BY <1>7, EmptySeq DEF Disconnect
  <2> QED
    BY <1>7, <2>1 DEF Disconnect, TypeOK, xray, map, saved
<1>8. CASE Collect
  <2>1. /\ known' \subseteq Counters /\ value' \in PerCounter
        /\ delta' \in PerCounter
    BY <1>8, UpdateIsBounded DEF Collect, xray, TypeOK
  <2> QED
    BY <1>8, <2>1 DEF Collect, TypeOK, xray, saved
<1>9. ASSUME NEW f \in Counters, NEW before \in SUBSET Counters,
             CollectFails(f, before)
      PROVE  TypeOK'
  <2>1. /\ known' \subseteq Counters /\ value' \in PerCounter
        /\ delta' \in PerCounter
    BY <1>9, UpdateIsBounded DEF CollectFails, xray
  <2> QED
    BY <1>9, <2>1 DEF CollectFails, TypeOK, xray, saved
<1>10. CASE SaveBegins
  BY <1>10 DEF SaveBegins, TypeOK, xray, map
<1>11. CASE SaveEnds \/ SaveFails
  BY <1>11 DEF SaveEnds, SaveFails, TypeOK, xray, map, saved
<1>12. CASE Report
  <2>1. [known |-> known, delta |-> delta] \in Reports
    BY DEF TypeOK, Reports
  <2>2. flight' \in Seq(Reports)
    BY <1>12, <2>1, AppendProperties DEF Report, TypeOK
  <2> QED
    BY <1>12, <2>2 DEF Report, TypeOK, xray, map, saved
<1>13. CASE Deliver
  <2>1. Head(flight) \in Reports /\ Tail(flight) \in Seq(Reports)
    BY <1>13, HeadTailProperties DEF Deliver, TypeOK
  <2>2. val' \in PerCounter
    BY <1>13, <2>1 DEF Deliver, TypeOK, Upsert, Reports, PerCounter
  <2> QED
    BY <1>13, <2>1, <2>2 DEF Deliver, TypeOK, xray, map, saved
<1>14. CASE IgnoreReport
  <2>1. Tail(flight) \in Seq(Reports)
    BY <1>14, HeadTailProperties DEF IgnoreReport, TypeOK
  <2> QED
    BY <1>14, <2>1 DEF IgnoreReport, TypeOK, xray, map, saved
<1>15. CASE UNCHANGED vars
  BY <1>15 DEF vars, TypeOK, xray, map, saved
<1> QED
  BY <1>1, <1>2, <1>3, <1>4, <1>5, <1>6, <1>7, <1>8, <1>9, <1>10, <1>11,
     <1>12, <1>13, <1>14, <1>15 DEF Next, CollectStep

\* Every action keeps every bound.
LEMMA BoundsStep == IInv /\ [Next]_vars => Bounds'
<1> SUFFICES ASSUME IInv, [Next]_vars PROVE Bounds'
  OBVIOUS
<1> USE DEF IInv, Bounds
<1>z. \A c \in Counters : Zero[c] = 0
  BY DEF Zero
<1>t. ASSUME NEW c \in Counters
      PROVE  /\ stats[c] \in Nat /\ carried[c] \in Nat /\ value[c] \in Nat
             /\ delta[c] \in Nat /\ val[c] \in Nat
             /\ fileValue[c] \in Nat /\ fileDelta[c] \in Nat
  BY DEF TypeOK, PerCounter
<1>r. ASSUME NEW i \in 1 .. Len(flight), NEW c \in Counters
      PROVE  flight[i].delta[c] \in Nat
  <2>1. flight[i] \in Reports
    BY ElementOfSeq DEF TypeOK
  <2> QED
    BY <2>1 DEF Reports, PerCounter
<1>1. ASSUME NEW c \in Counters, Appears(c) PROVE Bounds'
  BY <1>1 DEF Appears, map, saved, StatsBound, MapBound, FileBound, Covered,
              FlightBound, NeverOvercharged
<1>2. ASSUME NEW c \in Counters, Carry(c) PROVE Bounds'
  <2>1. /\ stats' = [stats EXCEPT ![c] = @ + 1]
        /\ carried' = [carried EXCEPT ![c] = @ + 1]
        /\ UNCHANGED <<map, saved, flight, val>>
    BY <1>2 DEF Carry
  <2>2. ASSUME NEW d \in Counters
        PROVE  \/ stats'[d] = stats[d] /\ carried'[d] = carried[d]
               \/ stats'[d] = stats[d] + 1 /\ carried'[d] = carried[d] + 1
    BY <2>1 DEF TypeOK, PerCounter
  <2>3. StatsBound'
    BY <2>2, <1>t DEF StatsBound
  <2>4. MapBound'
    BY <2>1, <2>2, <1>t DEF MapBound, Covered, map
  <2>5. FileBound'
    BY <2>1, <2>2, <1>t DEF FileBound, Covered, saved
  <2>6. FlightBound'
    BY <2>1, <2>2, <1>t, <1>r DEF FlightBound
  <2>7. NeverOvercharged'
    BY <2>1, <2>2, <1>t DEF NeverOvercharged
  <2> QED
    BY <2>3, <2>4, <2>5, <2>6, <2>7
<1>3. CASE XrayRestart
  <2>1. /\ \A c \in Counters : stats'[c] = 0
        /\ UNCHANGED <<carried, map, saved, flight, val>>
    BY <1>3, <1>z DEF XrayRestart
  <2> QED
    BY <2>1, <1>t DEF map, saved, StatsBound, MapBound, FileBound, Covered,
                      FlightBound, NeverOvercharged
<1>4. CASE AgentStarts
  BY <1>4 DEF AgentStarts, xray, saved, StatsBound, MapBound, FileBound,
              Covered, FlightBound, NeverOvercharged
<1>5. CASE AgentCrashes
  <2>1. \A c \in Counters : delta'[c] = 0 /\ value'[c] = 0
    BY <1>5, <1>z DEF AgentCrashes
  <2>2. MapBound'
    BY <1>5, <2>1, <1>t DEF AgentCrashes, xray, StatsBound, MapBound, Covered
  <2> QED
    BY <1>5, <2>2 DEF AgentCrashes, xray, saved, StatsBound, FileBound,
                      Covered, FlightBound, NeverOvercharged
<1>6. ASSUME UNCHANGED <<xray, map, saved, val>>, FlightBound' PROVE Bounds'
  BY <1>6 DEF xray, map, saved, StatsBound, MapBound, FileBound, Covered,
              NeverOvercharged
<1>7. CASE Connect \/ SaveBegins \/ SaveFails
  BY <1>7 DEF Connect, SaveBegins, SaveFails, xray, map, saved, StatsBound, MapBound,
              FileBound, Covered, FlightBound, NeverOvercharged
<1>8. CASE Disconnect
  BY <1>6, <1>8 DEF Disconnect, FlightBound
<1>9. ASSUME NEW S \in SUBSET Counters, \A c \in S : Digestible(c), Update(S),
             UNCHANGED <<xray, saved, flight, val>>
      PROVE  Bounds'
  <2>1. MapBound'
    BY <1>9, UpdateIsBounded DEF xray
  <2> QED
    BY <1>9, <2>1 DEF xray, saved, StatsBound, FileBound, Covered,
                      FlightBound, NeverOvercharged
<1>10. CASE Collect
  BY <1>9, <1>10 DEF Collect, TypeOK
<1>11. ASSUME NEW f \in Counters, NEW before \in SUBSET Counters,
              CollectFails(f, before)
       PROVE  Bounds'
  BY <1>9, <1>11 DEF CollectFails
<1>12. CASE SaveEnds
  BY <1>12 DEF SaveEnds, xray, map, StatsBound, MapBound, FileBound, Covered,
               FlightBound, NeverOvercharged
<1>13. CASE Report
  <2>1. flight' = Append(flight, [known |-> known, delta |-> delta])
    BY <1>13 DEF Report
  <2>2. [known |-> known, delta |-> delta] \in Reports
    BY DEF TypeOK, Reports
  <2>3. ASSUME NEW i \in 1 .. Len(flight'), NEW c \in Counters
        PROVE  flight'[i].delta[c] <= carried[c]
    <3>1. /\ Len(flight') = Len(flight) + 1
          /\ i \in 1 .. Len(flight) => flight'[i] = flight[i]
          /\ i = Len(flight) + 1 =>
                flight'[i] = [known |-> known, delta |-> delta]
      BY <2>1, <2>2, AppendProperties DEF TypeOK
    <3>2. i \in 1 .. Len(flight) \/ i = Len(flight) + 1
      BY <3>1, LenProperties DEF TypeOK
    <3> QED
      BY <3>1, <3>2 DEF FlightBound, MapBound, Covered
  <2>4. FlightBound'
    BY <1>13, <2>3 DEF FlightBound, Report, xray
  <2> QED
    BY <1>6, <1>13, <2>4 DEF Report
<1>14. ASSUME flight # <<>>, flight' = Tail(flight), UNCHANGED xray
       PROVE  FlightBound'
  <2>1. ASSUME NEW i \in 1 .. Len(flight'), NEW c \in Counters
        PROVE  flight'[i].delta[c] <= carried[c]
    <3>1. /\ Len(flight') = Len(flight) - 1
          /\ flight'[i] = flight[i + 1]
          /\ i + 1 \in 1 .. Len(flight)
      BY <1>14, HeadTailProperties, LenProperties DEF TypeOK
    <3> QED
      BY <3>1 DEF FlightBound
  <2> QED
    BY <1>14, <2>1 DEF FlightBound, xray
<1>15. CASE Deliver
  <2>1. ASSUME NEW c \in Counters PROVE val'[c] <= carried[c]
    <3>1. Head(flight) = flight[1] /\ 1 \in 1 .. Len(flight)
      BY <1>15, HeadTailProperties, LenProperties, EmptySeq
         DEF Deliver, TypeOK
    <3> QED
      BY <1>15, <3>1 DEF Deliver, Upsert, FlightBound, NeverOvercharged
  <2>2. NeverOvercharged'
    BY <1>15, <2>1 DEF NeverOvercharged, Deliver, xray
  <2>3. FlightBound'
    BY <1>14, <1>15 DEF Deliver
  <2> QED
    BY <1>15, <2>2, <2>3 DEF Deliver, xray, map, saved, StatsBound, MapBound,
                             FileBound, Covered
<1>16. CASE IgnoreReport
  BY <1>6, <1>14, <1>16 DEF IgnoreReport
<1>17. CASE UNCHANGED vars
  BY <1>17 DEF vars, xray, map, saved, StatsBound, MapBound, FileBound,
               Covered, FlightBound, NeverOvercharged
<1> QED
  BY <1>1, <1>2, <1>3, <1>4, <1>5, <1>7, <1>8, <1>10, <1>11, <1>12, <1>13,
     <1>15, <1>16, <1>17 DEF Next, CollectStep

-----------------------------------------------------------------------------
\* The strengthened invariant holds in every reachable state of the accounting.
THEOREM Inductive == Spec => []IInv
<1>1. IInv /\ [Next]_vars => IInv'
  BY TypeStep, BoundsStep DEF IInv
<1> QED
  BY InitIInv, <1>1, PTL DEF Spec

\* Every variable keeps its type: no counter in the map, the file or the rows
\* becomes negative.
THEOREM TypeCorrect == Spec => []TypeOK
<1>1. IInv => TypeOK
  BY DEF IInv
<1> QED
  BY Inductive, <1>1, PTL

\* The server never charges more than was carried, for any number of counters,
\* restarts and reports.
THEOREM NobodyIsOvercharged == Spec => []NeverOvercharged
<1>1. IInv => NeverOvercharged
  BY DEF IInv, Bounds
<1> QED
  BY Inductive, <1>1, PTL

-----------------------------------------------------------------------------
\* A living agent could at any time go on from its file instead, also from the
\* one it is writing: that is inductive together with the types, for a
\* collection changes delta and value of a known counter by the same amount.
FileInv ==
    IF collector = "off" THEN known = {}
    ELSE /\ fileKnown \subseteq known
         /\ \A c \in fileKnown :
               fileDelta[c] - fileValue[c] = delta[c] - value[c]

LEMMA FileStep == TypeOK /\ FileInv /\ [Next]_vars => FileInv'
<1> SUFFICES ASSUME TypeOK, FileInv, [Next]_vars PROVE FileInv'
  OBVIOUS
<1>1. ASSUME UNCHANGED <<map, fileKnown, fileValue, fileDelta>>,
             collector' # "off" <=> collector # "off"
      PROVE  FileInv'
  BY <1>1 DEF FileInv, map
<1>2. ASSUME NEW c \in Counters, Appears(c) \/ Carry(c)
      PROVE  FileInv'
  BY <1>1, <1>2 DEF Appears, Carry, saved
<1>3. CASE XrayRestart \/ Disconnect \/ Report \/ Deliver \/ IgnoreReport
  BY <1>1, <1>3 DEF XrayRestart, Disconnect, Report, Deliver, IgnoreReport, saved
<1>4. CASE Connect \/ SaveBegins \/ SaveFails
  BY <1>1, <1>4 DEF Connect, SaveBegins, SaveFails, saved
<1>5. CASE AgentStarts
  BY <1>5 DEF AgentStarts, FileInv, saved
<1>6. CASE AgentCrashes
  BY <1>6 DEF AgentCrashes, FileInv
<1>7. CASE SaveEnds
  BY <1>7 DEF SaveEnds, FileInv, map
<1>8. ASSUME NEW S \in SUBSET Counters, Update(S), UNCHANGED saved,
             collector # "off", collector' # "off"
      PROVE  FileInv'
  <2> SUFFICES ASSUME NEW c \in fileKnown
               PROVE  /\ c \in known'
                      /\ fileDelta[c] - fileValue[c] = delta'[c] - value'[c]
    BY <1>8 DEF FileInv, saved
  <2>1. /\ c \in known /\ c \in Counters
        /\ fileDelta[c] - fileValue[c] = delta[c] - value[c]
    BY <1>8 DEF FileInv, TypeOK
  <2>2. stats[c] \in Nat /\ delta[c] \in Nat /\ value[c] \in Nat
    BY <2>1 DEF TypeOK, PerCounter
  <2>3. \/ delta'[c] = delta[c] /\ value'[c] = value[c]
        \/ delta'[c] = delta[c] + stats[c] - value[c] /\ value'[c] = stats[c]
    BY <1>8, <2>1 DEF Update, NewDelta
  <2> QED
    BY <1>8, <2>1, <2>2, <2>3 DEF Update
<1>9. CASE Collect
  BY <1>8, <1>9 DEF Collect, TypeOK
<1>10. ASSUME NEW f \in Counters, NEW before \in SUBSET Counters,
              CollectFails(f, before)
       PROVE  FileInv'
  BY <1>8, <1>10 DEF CollectFails
<1>11. CASE UNCHANGED vars
  BY <1>1, <1>11 DEF vars, saved
<1> QED
  BY <1>2, <1>3, <1>4, <1>5, <1>6, <1>7, <1>9, <1>10, <1>11
     DEF Next, CollectStep

LEMMA FileAlways == Spec => []FileInv
<1>1. Init => FileInv
  BY DEF Init, FileInv
<1> QED
  BY TypeCorrect, FileStep, <1>1, PTL DEF Spec

\* A restart of the agent from its file neither loses nor repeats traffic.
THEOREM RestartIsExact == Spec => []SavedIsEquivalent
<1>1. FileInv => SavedIsEquivalent
  BY DEF FileInv, SavedIsEquivalent
<1> QED
  BY FileAlways, <1>1, PTL

-----------------------------------------------------------------------------
\* Whatever moves a counter or collects it leaves the balances alone.
MapKeeps == \A c \in known \cap known' :
                Balance(delta, value, c)' = Balance(delta, value, c)
FileKeeps == \A c \in fileKnown :
                /\ c \in fileKnown'
                /\ Balance(fileDelta, fileValue, c)' = Balance(fileDelta, fileValue, c)

LEMMA BalanceStep ==
    ASSUME TypeOK, FileInv, [Next]_vars, epoch' = epoch
    PROVE  MapKeeps /\ FileKeeps
<1>t. ASSUME NEW c \in Counters
      PROVE  /\ stats[c] \in Nat /\ carried[c] \in Nat
             /\ value[c] \in Nat /\ delta[c] \in Nat
             /\ fileValue[c] \in Nat /\ fileDelta[c] \in Nat
  BY DEF TypeOK, PerCounter
<1>k. known \subseteq Counters /\ fileKnown \subseteq Counters
  BY DEF TypeOK
<1>1. ASSUME UNCHANGED <<stats, carried, map>> PROVE MapKeeps
  BY <1>1 DEF MapKeeps, Balance, map
<1>2. ASSUME UNCHANGED <<stats, carried, fileKnown, fileValue, fileDelta>>
      PROVE  FileKeeps
  BY <1>2 DEF FileKeeps, Balance
<1>3. ASSUME NEW c \in Counters, Carry(c) PROVE MapKeeps /\ FileKeeps
  <2>0. /\ stats' = [stats EXCEPT ![c] = stats[c] + 1]
        /\ carried' = [carried EXCEPT ![c] = carried[c] + 1]
    BY <1>3 DEF Carry
  <2>1. ASSUME NEW d \in Counters
        PROVE  \/ stats'[d] = stats[d] /\ carried'[d] = carried[d]
               \/ stats'[d] = stats[d] + 1 /\ carried'[d] = carried[d] + 1
    BY <2>0 DEF TypeOK, PerCounter
  <2>2. UNCHANGED <<known, delta, value, fileKnown, fileDelta, fileValue>>
    BY <1>3 DEF Carry, map, saved
  <2>3. MapKeeps
    BY <1>t, <1>k, <2>1, <2>2 DEF MapKeeps, Balance
  <2>4. FileKeeps
    BY <1>t, <1>k, <2>1, <2>2 DEF FileKeeps, Balance
  <2> QED
    BY <2>3, <2>4
<1>4. ASSUME NEW S \in SUBSET Counters, Update(S), UNCHANGED <<xray, saved>>
      PROVE  MapKeeps /\ FileKeeps
  <2>1. ASSUME NEW c \in known
        PROVE  Balance(delta, value, c)' = Balance(delta, value, c)
    <3>1. c \in Counters /\ stats'[c] = stats[c] /\ carried'[c] = carried[c]
      BY <1>4, <1>k DEF xray
    <3>2. \/ delta'[c] = delta[c] /\ value'[c] = value[c]
          \/ delta'[c] = delta[c] + stats[c] - value[c] /\ value'[c] = stats[c]
      BY <1>4, <3>1 DEF Update, NewDelta
    <3>3. delta'[c] - value'[c] = delta[c] - value[c]
          /\ delta'[c] \in Int /\ value'[c] \in Nat
      BY <1>t, <3>1, <3>2
    <3> QED
      BY <1>t, <3>1, <3>3 DEF Balance
  <2> QED
    BY <1>2, <1>4, <2>1 DEF MapKeeps, xray, saved
<1>5. CASE SaveEnds
  <2>1. /\ UNCHANGED <<stats, carried, map>> /\ collector # "off"
        /\ fileKnown' = known /\ fileValue' = value /\ fileDelta' = delta
    BY <1>5 DEF SaveEnds, xray
  <2>2. ASSUME NEW c \in fileKnown
        PROVE  /\ c \in fileKnown'
               /\ Balance(fileDelta, fileValue, c)' = Balance(fileDelta, fileValue, c)
    <3>1. /\ c \in known /\ c \in Counters
          /\ fileDelta[c] - fileValue[c] = delta[c] - value[c]
      BY <1>k, <2>1 DEF FileInv
    <3> QED
      BY <1>t, <2>1, <3>1 DEF Balance
  <2> QED
    BY <1>1, <2>1, <2>2 DEF FileKeeps
<1>6. CASE AgentStarts \/ AgentCrashes
  <2>1. UNCHANGED <<xray, saved>> /\ known \cap known' = {}
    BY <1>6 DEF FileInv, AgentStarts, AgentCrashes
  <2> QED
    BY <1>2, <2>1 DEF MapKeeps, xray, saved
<1>7. ASSUME NEW c \in Counters, Appears(c) PROVE MapKeeps /\ FileKeeps
  BY <1>1, <1>2, <1>7 DEF Appears, map, saved
<1>8. CASE \/ Connect \/ Disconnect \/ SaveBegins \/ SaveFails \/ Report
           \/ Deliver \/ IgnoreReport
  BY <1>1, <1>2, <1>8 DEF Connect, Disconnect, SaveBegins, SaveFails, Report,
     Deliver, IgnoreReport, xray, saved
<1>9. CASE Collect
  <2>1. listed \in SUBSET Counters
    BY DEF TypeOK
  <2> QED
    BY <1>4, <1>9, <2>1 DEF Collect
<1>10. ASSUME NEW f \in Counters, NEW before \in SUBSET Counters,
              CollectFails(f, before)
       PROVE  MapKeeps /\ FileKeeps
  BY <1>4, <1>10 DEF CollectFails
<1>11. ~XrayRestart
  BY TrafficAssumption DEF XrayRestart, TypeOK
<1>12. CASE UNCHANGED vars
  BY <1>1, <1>2, <1>12 DEF vars, xray, map, saved
<1> QED
  BY <1>3, <1>5, <1>6, <1>7, <1>8, <1>9, <1>10, <1>11, <1>12 DEF Next, CollectStep

\* From first sight of a counter on nothing but a restart of Xray loses traffic,
\* and nothing counts it twice, whatever becomes of collections, saves and the
\* agent (update_traffic_map, save_traffic_map, load_traffic_map).
THEOREM CountedOnce == Spec => EveryUnitIsCountedOnce
<1>1. TypeOK /\ FileInv /\ [Next]_vars =>
        [epoch' = epoch =>
           /\ \A c \in known \cap known' :
                 Balance(delta, value, c)' = Balance(delta, value, c)
           /\ \A c \in fileKnown :
                 /\ c \in fileKnown'
                 /\ Balance(fileDelta, fileValue, c)'
                       = Balance(fileDelta, fileValue, c)]_vars
  BY BalanceStep DEF MapKeeps, FileKeeps
<1> QED
  BY TypeCorrect, FileAlways, <1>1, PTL DEF Spec, EveryUnitIsCountedOnce
=============================================================================
