SPECIFICATION FairSpec
CONSTANTS
    Instances = {i1, i2, i3}
    Tables = {testtable}
    MaxFaults = 4
INVARIANTS
    TypeOK
    RecordedPrepared
    LeaksBounded
    OneStream
PROPERTIES
    Implements
    Prepared
