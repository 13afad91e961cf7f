SPECIFICATION FairSpec
CONSTANTS
    Databases = {d1, d2}
    Workers = 2
    Background = {"clean"}
    Faults = {"task"}
    MaxFaults = 1
    MaxInterrupts = 0
    None = None
PROPERTIES
    CleanupContinues
CHECK_DEADLOCK FALSE
