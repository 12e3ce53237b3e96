SPECIFICATION FairSpec
CONSTANTS
    Users = {u1}
    Nodes = {n1}
    Threads = {w1}
    PoolSize = 2
    MaxQueue = 1
    MaxPool = 2
INVARIANTS TypeOK CleanSyncIsExact
PROPERTIES SubscriberIsNeverCutOff SubscriberIsServed ExpiredIsRemoved
