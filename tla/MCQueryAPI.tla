----------------------------- MODULE MCQueryAPI ----------------------------
EXTENDS QueryAPI

\* Switch-in and release records of one task at two instants, and a NAME
\* record (no timestamp) the queries do not ask for.
MCRecords ==
    [type : {ST_SWITCH_TO, ST_RELEASE}, cpu : {0}, pid : {1}, when : {1, 2}, last : {0}]
    \cup {[type |-> ST_NAME, cpu |-> 0, pid |-> 1, when |-> 0, last |-> 0]}

\* trace.events_in_range_of_type(start, end, 'ST_SWITCH_TO', 3): a name
\* and a numeric id.
MCEvents == {[kind |-> "str", v |-> "ST_SWITCH_TO"], [kind |-> "int", v |-> ST_RELEASE]}

\* A misspelt name.
MCMisspelt == {[kind |-> "str", v |-> "ST_SWITCH"]}
=============================================================================
