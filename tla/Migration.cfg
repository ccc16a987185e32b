CONSTANTS
    Tables <- TwoTables
    Keyless <- MessagesOnly
    MaxId = 3
    MaxRuns = 3
SPECIFICATION MigrationSpec
CHECK_DEADLOCK FALSE
INVARIANTS
    CompletedIsComplete
    NewIdsAreFree
