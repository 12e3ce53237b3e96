------------------------- MODULE TrafficProperties --------------------------
(* What the accounting of traffic promises, over Traffic's variables. *)
EXTENDS Traffic

\* The server never charges more than was carried, however often the agent is
\* restarted from an old file, Xray starts counting again, or reports are lost.
NeverOvercharged == \A c \in Counters : val[c] <= carried[c]

\* Restarting the agent from the file loses and repeats nothing: the file knows
\* no counter that the memory has forgotten, and what is counted differs between
\* the two by just what the counter has moved in between.
SavedIsEquivalent ==
    (file = "good" /\ collector # "off") =>
        /\ fileKnown \subseteq known
        /\ \A c \in fileKnown :
              fileDelta[c] - fileValue[c] = delta[c] - value[c]

\* Once a counter is known, every unit it carries is counted exactly once, in
\* the map and in the file: collections that fail half-way, saves, crashes and
\* starts from the file leave the balance as it is, and only a restart of Xray,
\* which takes what was not collected with it, changes it.
Balance(d, v, c) == d[c] + stats[c] - v[c] - carried[c]
EveryUnitIsCountedOnce ==
    [][epoch' = epoch =>
         /\ \A c \in known \cap known' :
               Balance(delta, value, c)' = Balance(delta, value, c)
         /\ \A c \in fileKnown :
               /\ c \in fileKnown'
               /\ Balance(fileDelta, fileValue, c)' = Balance(fileDelta, fileValue, c)]_vars

\* While the collector lives, the agent stays connected and Xray does not
\* restart, everything Xray counts reaches the server.
Steady == collector \in {"running", "saving"} /\ connected
TrafficIsReported ==
    <>[]Steady => <>[](\A c \in listed :
                          stats[c] > 0 => c \in known /\ val[c] = delta[c]
                                          /\ value[c] = stats[c])

\* A comment in update_traffic_map: after a restart of Xray the new value is
\* smaller than the old one, and then the new value is what is added.
XrayRestartIsCounted ==
    [][CollectStep => \A c \in known \cap listed :
          stats[c] < value[c] => delta'[c] = delta[c] + stats[c]]_vars
=============================================================================
