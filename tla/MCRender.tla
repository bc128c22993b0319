------------------------------ MODULE MCRender ------------------------------
EXTENDS Render

\* Switches of task 1 on CPU 0 at three instants, a completion of it, and
\* a release of task 2.
MCRecords ==
    [type : {ST_SWITCH_TO, ST_SWITCH_AWAY}, cpu : {0}, pid : {1},
     when : {1, 2, 3}, last : {0}]
    \cup {[type |-> ST_COMPLETION, cpu |-> 0, pid |-> 1, when |-> 2, last |-> 0],
          [type |-> ST_RELEASE,    cpu |-> 0, pid |-> 2, when |-> 2, last |-> 3]}
=============================================================================
