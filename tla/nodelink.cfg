SPECIFICATION FairSpec
CONSTANTS
    Nodes = {n1}
    Sockets = {s1, s2}
    NoSocket = NoSocket
    Timeout = 1
INVARIANTS EntryHasServerEnd
PROPERTIES ActiveSessionStays AgentComesBack ForgottenIsReplaced DeadSessionIsRemoved
