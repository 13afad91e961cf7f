SPECIFICATION FairSpec
CONSTANTS
    Databases = {d1, d2}
    Workers = 1
    Background = {"prep", "clean"}
    Faults = {"task", "thread"}
    MaxFaults = 2
    MaxInterrupts = 2
    None = None
INVARIANTS
    TypeOK
    Exclusive
    InterruptDrains
PROPERTIES
    RoundsApart
    RoundsServe
    RoundRestarts
    ProcessEnds
CHECK_DEADLOCK FALSE
