SPECIFICATION FairSpec
CONSTANTS
    Ports = {p1, p2}
    Ids <- MCIds
    MaxCon = 1
    BufPackets = 2
    MaxSubmits = 6
INVARIANTS TypeOK TimeoutLosesNothing
PROPERTIES AnswerEndsOnlyItsQuery PlacesComeBack
CHECK_DEADLOCK FALSE
