SPECIFICATION Spec
CONSTANTS
    MIN_WINDOW_SIZE = 1
    MAX_WINDOW_SIZE = 3
    Second = 3
    Sizes = {0, 1, 2, 3, 4}
    Events = {1, 2}
    MaxEvents = 4
INVARIANTS
    TypeOK
    RecentCounted
    OldDropped
PROPERTIES
    ImplementsRegister
