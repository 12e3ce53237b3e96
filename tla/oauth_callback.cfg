SPECIFICATION Spec
CONSTANTS
    Clients = {c1}
    Tasks = {t1, t2}
    Accounts = {a1, a2}
    Workers = {w1, w2}
    MaxPolls = 1
    MaxCalls = 2
    NoClient = NoClient
    NoTask = NoTask
    NoUser = NoUser
INVARIANTS SuccessHasToken
