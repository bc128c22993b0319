CONSTANTS
    Records <- MCRecords
    MaxRecords = 2
    NumFiles = 2
    Times = {1, 2, 3}
    None = None
SPECIFICATION Spec
INVARIANTS
    TypeOK
    RowMissingOnlyAcrossWindow
\* render returns once the last loop is drawn.
CHECK_DEADLOCK FALSE
