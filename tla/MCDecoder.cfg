CONSTANTS
    Mtu = 3
    MaxLen = 4
    Wire = 7
    LastPkt = 7
SPECIFICATION Spec
INVARIANTS
    RoomToReceive
    PacketIsNext
    WaitsForMore
PROPERTIES
    ErrorIsTooLarge
    PacketsComeOut
