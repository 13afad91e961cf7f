SPECIFICATION FairSpec
CONSTANTS
    public = public
    test_schema = test_schema
    testtable = testtable
    r1 = r1
    r2 = r2
    Schemas = {public}
    Names = {testtable}
    Tables <- OneTable
    Database = kafka
    Rows = {}
    Comments = {"disabled", "enabled", "moved", "tableless"}
    Faults = {"status", "exists", "error", "lost", "crash", "drop", "fail", "partial"}
    MaxFaults = 2
    NoTable = NoTable
    NoCopy = NoCopy
    NoCount = NoCount
    Loops = {"sync", "clean", "prep"}
PROPERTIES
    SettledStays
    RetiredStays
    EnabledConverges
    DisabledConverges
