SPECIFICATION FairSpec
CONSTANTS
    Users = {u1}
    Tokens = {t1}
    Orders = {o1}
    Packets = {p1}
    Workers = {w1, w2}
    Months = {0, 1}
    MaxNow = 0
    MaxCrashes = 1
    MaxActivations = 2
    NoUser = NoUser
    NoToken = NoToken
    NoPacket = NoPacket
    NoOrder = NoOrder
PROPERTIES PaidIsActivated PendingIsResolved
CHECK_DEADLOCK FALSE
