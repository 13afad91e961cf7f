SPECIFICATION FairSpec
CONSTANTS
    public = public
    test_schema = test_schema
    testtable = testtable
    r1 = r1
    r2 = r2
    Schemas = {public}
    Names = {testtable}
    Tables <- OneTable
    Database = kafka
    Rows = {r1}
    Comments = {"enabled", "moved"}
    Faults = {"error"}
    MaxFaults = 0
    NoTable = NoTable
    NoCopy = NoCopy
    NoCount = NoCount
    Loops = {"sync", "clean", "prep"}
PROPERTIES
    Follows
