CONSTANTS
    Records <- MCRecords
    MaxRecords = 4
    NumFiles = 2
    None = None
SPECIFICATION Spec
INVARIANT SpecRecoveryPolicy
CHECK_DEADLOCK FALSE
