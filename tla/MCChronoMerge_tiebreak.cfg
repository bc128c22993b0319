CONSTANTS
    Records <- MCRecords
    MaxRecords = 3
    NumFiles = 2
    Wanted <- MCWanted
SPECIFICATION Spec
INVARIANT TieBreakByFileOrder
CHECK_DEADLOCK FALSE
