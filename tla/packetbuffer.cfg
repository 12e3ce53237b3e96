SPECIFICATION Spec
CONSTANTS
    Mtu = 5
    Num = 2
    Packets <- MCPackets
    Junk = 9
INVARIANTS TypeOK RoomIsFree
PROPERTIES ImplementsQueue
