------------------------- MODULE MCTraceAggregate -------------------------
EXTENDS TraceAggregate

CONSTANTS t1, t2, p1, p2

\* One task: two parameter records, a name, a switch, a system release,
\* and an ST_ASSIGNED record, which has no decoder.
MCRecords ==
    { [type |-> ST_PARAM,       cpu |-> 0, pid |-> 1, when |-> 1, last |-> 0],
      [type |-> ST_PARAM,       cpu |-> 0, pid |-> 1, when |-> 2, last |-> 1],
      [type |-> ST_NAME,        cpu |-> 0, pid |-> 1, when |-> 1, last |-> 1],
      [type |-> ST_SWITCH_TO,   cpu |-> 0, pid |-> 1, when |-> 2, last |-> 0],
      [type |-> ST_SYS_RELEASE, cpu |-> 0, pid |-> 0, when |-> 1, last |-> 2],
      [type |-> ST_ASSIGNED,    cpu |-> 0, pid |-> 1, when |-> 1, last |-> 0] }

\* A file holds up to two whole records, or only 8 stray bytes.
MCContents == [recs : BoundedSeq(MCRecords, 2), tail : {0}]
              \cup {[recs |-> <<>>, tail |-> 8]}

MCPathLists == {<<>>, <<p1>>, <<p1, p2>>, <<p2, p1>>}
=============================================================================
