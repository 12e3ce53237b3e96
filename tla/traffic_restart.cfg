SPECIFICATION Spec
\* An agent cannot start from a file that was cut off: the system really stops.
CHECK_DEADLOCK FALSE
CONSTANTS
    Counters = {c1}
    MaxTraffic = 3
    MaxRestarts = 1
    MaxFlight = 1
PROPERTIES
    XrayRestartIsCounted
