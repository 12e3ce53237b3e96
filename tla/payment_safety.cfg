SPECIFICATION Spec
CONSTANTS
    Users = {u1}
    Tokens = {t1, t2}
    Orders = {o1, o2}
    Packets = {p1}
    Workers = {w1, w2}
    Months = {0, 1}
    MaxNow = 1
    MaxCrashes = 1
    MaxActivations = 2
    NoUser = NoUser
    NoToken = NoToken
    NoPacket = NoPacket
    NoOrder = NoOrder
SYMMETRY Symmetry
INVARIANTS TypeOK ActivatedOnceUnlessRefunded SuccessMeansActivated FailedIsNeverPayable LedgerIsExact TokenBacksOneOrder
PROPERTIES PaymentIsNotTakenBack ImplementsBilling
CHECK_DEADLOCK FALSE
