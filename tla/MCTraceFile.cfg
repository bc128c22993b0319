CONSTANTS
    Records <- MCRecords
    MaxRecords = 4
    NumFiles = 2
    None = None
SPECIFICATION Spec
INVARIANTS
    TypeOK
PROPERTIES
    IntervalStreamRefined
\* A drained generator has ended: the pairing scan really stops.
CHECK_DEADLOCK FALSE
