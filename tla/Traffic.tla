------------------------------ MODULE Traffic -------------------------------
(***************************************************************************)
(* Traffic accounting for one node: the counters of its Xray, what the     *)
(* agent makes of them (traffic_map), the file it keeps that in, the       *)
(* reports it sends and the rows the server writes. Xray, the agent and    *)
(* the connection may fail at any time. A Bug_ definition is a faulty      *)
(* variant of the one below it and is used by no specification.            *)
(***************************************************************************)
EXTENDS Integers, Sequences

CONSTANTS Counters,
          MaxTraffic,   \* bound: units carried for each counter
          MaxRestarts,  \* bound: restarts of Xray
          MaxFlight     \* bound: reports on their way

ASSUME TrafficAssumption ==
    MaxTraffic \in Nat /\ MaxRestarts \in Nat /\ MaxFlight \in Nat

VARIABLES
    stats,      \* what Xray has counted since it started
    listed,     \* the counters Xray has created since it started
    carried,    \* what it has carried since ever (not known to anybody)
    epoch,      \* how often it has restarted
    collector,  \* "off": no agent; "idle": agent, no collect thread yet;
                \* "dead": an exception has left the thread
    known, value, delta,        \* traffic_map
    file,                       \* traffic_map.json: "none", "broken", "good"
    fileKnown, fileValue, fileDelta,
    connected,
    flight,     \* traffic_collect messages on their way
    val         \* xray_traffic_collect; 0 where there is no row

xray == <<stats, listed, carried, epoch>>
map == <<known, value, delta>>
saved == <<file, fileKnown, fileValue, fileDelta>>
vars == <<xray, collector, map, saved, connected, flight, val>>

PerCounter == [Counters -> Nat]
Reports == [known : SUBSET Counters, delta : PerCounter]
Zero == [c \in Counters |-> 0]

TypeOK ==
    /\ stats \in PerCounter /\ carried \in PerCounter
    /\ listed \subseteq Counters
    /\ epoch \in 0 .. MaxRestarts
    /\ collector \in {"off", "idle", "running", "saving", "dead"}
    /\ known \subseteq Counters
    /\ value \in PerCounter /\ delta \in PerCounter
    /\ file \in {"none", "broken", "good"}
    /\ fileKnown \subseteq Counters
    /\ fileValue \in PerCounter /\ fileDelta \in PerCounter
    /\ connected \in BOOLEAN
    /\ flight \in Seq(Reports)
    /\ val \in PerCounter

Init ==
    /\ stats = Zero /\ carried = Zero /\ listed = {} /\ epoch = 0
    /\ collector = "off"
    /\ known = {} /\ value = Zero /\ delta = Zero
    /\ file = "none"
    /\ fileKnown = {} /\ fileValue = Zero /\ fileDelta = Zero
    /\ connected = FALSE /\ flight = <<>> /\ val = Zero

-----------------------------------------------------------------------------
(* Xray.                                                                     *)

\* A counter is created, still at zero.
Appears(c) ==
    /\ c \notin listed
    /\ listed' = listed \cup {c}
    /\ UNCHANGED <<stats, carried, epoch, collector, map, saved, connected,
                   flight, val>>

Carry(c) ==
    /\ c \in listed /\ carried[c] < MaxTraffic
    /\ stats' = [stats EXCEPT ![c] = @ + 1]
    /\ carried' = [carried EXCEPT ![c] = @ + 1]
    /\ UNCHANGED <<listed, epoch, collector, map, saved, connected, flight,
                   val>>

XrayRestart ==
    /\ epoch < MaxRestarts
    /\ epoch' = epoch + 1
    /\ stats' = Zero /\ listed' = {}
    /\ UNCHANGED <<carried, collector, map, saved, connected, flight, val>>

-----------------------------------------------------------------------------
(* The agent.                                                                *)

\* load_traffic_map: a missing file is an empty map. A file that was cut off in
\* the middle of a save ends the agent, now and whenever it is started again.
AgentStarts ==
    /\ collector = "off" /\ file # "broken"
    /\ collector' = "idle"
    /\ known' = fileKnown /\ value' = fileValue /\ delta' = fileDelta
    /\ UNCHANGED <<xray, saved, connected, flight, val>>

AgentCrashes ==
    /\ collector # "off"
    /\ collector' = "off" /\ connected' = FALSE
    /\ known' = {} /\ value' = Zero /\ delta' = Zero
    /\ UNCHANGED <<xray, saved, flight, val>>

\* on_open: the first connection starts the threads.
Connect ==
    /\ collector # "off" /\ ~connected
    /\ connected' = TRUE
    /\ collector' = IF collector = "idle" THEN "running" ELSE collector
    /\ UNCHANGED <<xray, map, saved, flight, val>>

\* The connection breaks; what was on its way is lost.
Disconnect ==
    /\ connected
    /\ connected' = FALSE /\ flight' = <<>>
    /\ UNCHANGED <<xray, collector, map, saved, val>>

\* What update_traffic_map writes for the counters of S.
Bug_NewDelta(S, c) ==
    IF c \in S THEN stats[c] - value[c] ELSE delta[c]
Bug_NewDeltaFirst(S, c) ==
    IF c \in S THEN delta[c] + stats[c] ELSE delta[c]
NewDelta(S, c) ==
    IF c \notin S THEN delta[c]
    ELSE IF c \in known THEN delta[c] + stats[c] - value[c]
    ELSE 0                  \* what was there at first sight is not counted

Bug_Update(S) ==        \* the new value is kept although counting it fails
    /\ known' = known \cup S
    /\ delta' = [c \in Counters |-> NewDelta(S, c)]
    /\ value' = [c \in Counters |-> IF c \in listed THEN stats[c] ELSE value[c]]
Update(S) ==
    /\ known' = known \cup S
    /\ delta' = [c \in Counters |-> NewDelta(S, c)]
    /\ value' = [c \in Counters |-> IF c \in S THEN stats[c] ELSE value[c]]

\* A counter at zero has no field 'value' (KeyError). One that has shrunk makes
\* delta the string new_value, which cannot be added to a number (TypeError).
Digestible(c) == stats[c] # 0 /\ (c \in known => stats[c] >= value[c])

Collect ==
    /\ collector = "running" /\ \A c \in listed : Digestible(c)
    /\ Update(listed)
    /\ UNCHANGED <<xray, collector, saved, connected, flight, val>>

\* The exception comes after those counters that were listed before f, and ends
\* the thread; the report thread goes on.
CollectFails(f, before) ==
    /\ collector = "running"
    /\ f \in listed /\ ~Digestible(f)
    /\ before \subseteq {c \in listed : Digestible(c)}
    /\ collector' = "dead"
    /\ Update(before)
    /\ UNCHANGED <<xray, saved, connected, flight, val>>

\* After every sixth collection the collect thread saves the map. Opening the
\* file empties it.
SaveBegins ==
    /\ collector = "running"
    /\ collector' = "saving" /\ file' = "broken"
    /\ UNCHANGED <<xray, map, fileKnown, fileValue, fileDelta, connected, flight, val>>

SaveEnds ==
    /\ collector = "saving"
    /\ collector' = "running" /\ file' = "good"
    /\ fileKnown' = known /\ fileValue' = value /\ fileDelta' = delta
    /\ UNCHANGED <<xray, map, connected, flight, val>>

\* Writing fails and the IOError is only logged: the thread goes on, and the
\* file stays cut off until a later save. (When it is the opening that fails,
\* nothing changes.)
SaveFails ==
    /\ collector = "saving"
    /\ collector' = "running"
    /\ UNCHANGED <<xray, map, saved, connected, flight, val>>

\* The report thread sends the whole map; without a connection send only logs.
\* Its interval is much longer than a message takes (MaxFlight).
Report ==
    /\ collector \in {"running", "saving", "dead"} /\ connected
    /\ Len(flight) < MaxFlight
    /\ flight' = Append(flight, [known |-> known, delta |-> delta])
    /\ UNCHANGED <<xray, collector, map, saved, connected, val>>

-----------------------------------------------------------------------------
(* The server.                                                               *)

\* saveTrafficCollectList: insert, or replace the value there is. That the unique
\* key ON DUPLICATE KEY goes by is that of node and counter is taken from the
\* statement; the definition of the table is not in the repository.
Bug_Upsert(m, c) ==                     \* without ON DUPLICATE KEY UPDATE
    IF c \in m.known /\ val[c] = 0 THEN m.delta[c] ELSE val[c]
Upsert(m, c) == IF c \in m.known THEN m.delta[c] ELSE val[c]

Deliver ==
    /\ flight # <<>>
    /\ val' = [c \in Counters |-> Upsert(Head(flight), c)]
    /\ flight' = Tail(flight)
    /\ UNCHANGED <<xray, collector, map, saved, connected>>

\* handleTextMessage knows no session for the node and drops the message.
IgnoreReport ==
    /\ flight # <<>>
    /\ flight' = Tail(flight)
    /\ UNCHANGED <<xray, collector, map, saved, connected, val>>

-----------------------------------------------------------------------------
CollectStep ==
    Collect \/ \E f \in Counters, before \in SUBSET Counters :
                  CollectFails(f, before)

Next ==
    \/ \E c \in Counters : Appears(c) \/ Carry(c)
    \/ XrayRestart
    \/ AgentStarts \/ AgentCrashes \/ Connect \/ Disconnect
    \/ CollectStep \/ SaveBegins \/ SaveEnds \/ SaveFails \/ Report
    \/ Deliver \/ IgnoreReport

Spec == Init /\ [][Next]_vars

\* The agent's threads run, and not every report is ignored.
Fairness ==
    /\ SF_vars(CollectStep) /\ WF_vars(SaveEnds \/ SaveFails)
    /\ SF_vars(Report) /\ SF_vars(Deliver)

FairSpec == Spec /\ Fairness
=============================================================================
