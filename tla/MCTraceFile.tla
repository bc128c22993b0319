---------------------------- MODULE MCTraceFile ----------------------------
EXTENDS TraceFile

\* Switch records on two CPUs for two tasks, all at instant 1, a
\* SWITCH_AWAY stamped earlier (0), and one record of a type the pairing
\* scan filters out.
MCRecords ==
    [type : {ST_SWITCH_TO, ST_SWITCH_AWAY}, cpu : {0, 1}, pid : {1, 2},
     when : {1}, last : {0}]
    \cup {[type |-> ST_SWITCH_AWAY, cpu |-> 0, pid |-> 1, when |-> 0, last |-> 0],
          [type |-> ST_RELEASE, cpu |-> 0, pid |-> 1, when |-> 1, last |-> 0]}
=============================================================================
