SPECIFICATION Spec
CONSTANTS
    InitialSize = 2
    MaxItems = 3
INVARIANTS
    TypeOK
    RoomForAll
    ListAlive
    EncodesRequest
