SPECIFICATION FairSpec
CONSTANTS
    Tables = {t1, t2, t3}
    Fit = {t1, t2}
    MaxIds = 3
    MaxFaults = 2
INVARIANTS
    TypeOK
PROPERTIES
    Promised
    Rediscovered
    Undiscovered
