\* Both forms of events_in_range_of_type over two files of up to two
\* records, for every window over the instants 0..2, inverted ones included.
CONSTANTS
    Records <- MCRecords
    MaxRecords = 2
    NumFiles = 2
    Events <- MCEvents
    Misspelt <- MCMisspelt
    Times = {0, 1, 2}
INIT Init
NEXT Next
INVARIANTS
    TypeOK
    RangeInFileOrder
\* Both generators end: the consumer's loops are over.
CHECK_DEADLOCK FALSE
