SPECIFICATION ServerSpec
CONSTANTS
    Nodes = {n1, n2}
    Sockets = {s1, s2}
    NoSocket = NoSocket
    Timeout = 0
PROPERTIES
    DeadSessionIsRemoved
