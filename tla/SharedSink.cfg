SPECIFICATION FairSpec
CONSTANTS
    public = public
    test_schema = test_schema
    testtable = testtable
    r1 = r1
    r2 = r2
    Schemas = {public, test_schema}
    Names = {testtable}
    Tables <- SameName
    Database = kafka
    Rows = {r1}
    Comments = {"enabled"}
    Faults = {"error"}
    MaxFaults = 0
    NoTable = NoTable
    NoCopy = NoCopy
    NoCount = NoCount
    Loops = {"sync", "prep"}
PROPERTIES
    EnabledConverges
