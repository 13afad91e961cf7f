SPECIFICATION FairSpec
CONSTANTS
    public = public
    test_schema = test_schema
    testtable = testtable
    r1 = r1
    r2 = r2
    Schemas = {public}
    Names = {testtable}
    Tables <- OneTable
    Database = kafka
    Rows = {r1}
    Comments = {"gone", "disabled", "enabled"}
    Faults = {"error", "crash", "lost", "write", "partial"}
    MaxFaults = 2
    NoTable = NoTable
    NoCopy = NoCopy
    NoCount = NoCount
    Loops = {"sync", "check", "prep"}
PROPERTIES
    BackfillRestores
    CountsChecked
    EnabledConverges
    Registers
