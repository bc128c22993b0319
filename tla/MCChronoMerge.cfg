CONSTANTS
    Records <- MCRecords
    MaxRecords = 3
    NumFiles = 2
    Wanted <- MCWanted
SPECIFICATION Spec
INVARIANTS
    TypeOK
PROPERTIES
    SortedMergeRefined
\* The merge generator ends once every iterator is exhausted.
CHECK_DEADLOCK FALSE
