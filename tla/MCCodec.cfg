\* Byte-level decoding of files of up to two records by every iterator.
CONSTANTS
    ByteBase <- MCByteBase
    Producer <- MCProducer
    MaxRecords = 2
    Wanted = {2, 4, 7}
    Tails <- MCTails
    KeyError = kerr
    kerr = kerr
INIT Init
NEXT Next
INVARIANTS
    TypeOK
    DecodedAsWritten
\* A generator that raised or ran out takes no further step.
CHECK_DEADLOCK FALSE
