---------------------------- MODULE SortedMerge -----------------------------
(***************************************************************************)
(* What SchedTrace.events_of_type_chrono promises (spec section 5): the    *)
(* wanted records of every file, each file's in file order, interleaved;  *)
(* when every file's stream is in time order (the precondition the code   *)
(* relies on) the next record handed out is one of least time among the   *)
(* files' next records.  Without the precondition the interleaving is     *)
(* unconstrained ("merge order is undefined").                             *)
(***************************************************************************)
EXTENDS TraceFormat, SequencesExt

CONSTANTS
    Records,      \* the raw records a file may hold
    MaxRecords,   \* bound on the number of records per file
    NumFiles,     \* the trace files
    Wanted        \* lookup_ids(events) of the call

Files == 1..NumFiles

VARIABLES
    mem,    \* mem[f]: the records of file f
    out     \* the records handed out, each tagged with its file

avars == <<mem, out>>

Stream(f) == Filtered(mem[f], Wanted)

\* How many of file f's records have been handed out.
Taken(f) == Len(SelectSeq(out, LAMBDA e : e.it = f))

Pending == {f \in Files : Taken(f) < Len(Stream(f))}

NextOf(f) == Stream(f)[Taken(f) + 1]

InTimeOrder(s) == \A i \in 1..(Len(s) - 1) : event_time(s[i]) <= event_time(s[i + 1])

\* Hand out the next record of file f.
Take(f) ==
    /\ f \in Pending
    /\ (\A g \in Files : InTimeOrder(Stream(g)))
           => \A g \in Pending : event_time(NextOf(f)) <= event_time(NextOf(g))
    /\ out' = Append(out, [rec |-> NextOf(f), it |-> f])
    /\ UNCHANGED mem

AInit ==
    /\ mem \in [Files -> Seq(Records)]
    /\ \A f \in Files : Len(mem[f]) <= MaxRecords
    /\ out = <<>>

ANext == \E f \in Files : Take(f)

\* Its consumer drains the merge: every record is eventually handed out.
ASpec == AInit /\ [][ANext]_avars /\ WF_avars(ANext)
=============================================================================
