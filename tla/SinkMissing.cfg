SPECIFICATION Spec
CONSTANTS
    public = public
    test_schema = test_schema
    testtable = testtable
    r1 = r1
    r2 = r2
    Schemas = {public}
    Names = {testtable}
    Tables <- OneTable
    Database = kafka
    Rows = {r1}
    Comments = {"enabled"}
    Faults = {"crash"}
    MaxFaults = 1
    NoTable = NoTable
    NoCopy = NoCopy
    NoCount = NoCount
    Loops = {"sync", "prep"}
INVARIANTS
    SinkRepaired
