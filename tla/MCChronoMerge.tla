--------------------------- MODULE MCChronoMerge ---------------------------
EXTENDS ChronoMerge

\* SWITCH_TO records of one task on two CPUs at two instants, and one
\* record of a type the call does not ask for.
MCRecords ==
    [type : {ST_SWITCH_TO}, cpu : {0, 1}, pid : {1}, when : {1, 2}, last : {0}]
    \cup {[type |-> ST_RELEASE, cpu |-> 0, pid |-> 1, when |-> 1, last |-> 0]}

MCWanted == {ST_SWITCH_TO}
=============================================================================
