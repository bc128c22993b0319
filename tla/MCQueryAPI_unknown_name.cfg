\* A query naming an event type that does not exist.
CONSTANTS
    Records <- MCRecords
    MaxRecords = 1
    NumFiles = 1
    Events <- MCEvents
    Misspelt <- MCMisspelt
    Times = {1}
INIT Init
NEXT Next
INVARIANT
    UnknownNameRaisedAtCall
CHECK_DEADLOCK FALSE
