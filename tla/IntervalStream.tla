--------------------------- MODULE IntervalStream ---------------------------
(***************************************************************************)
(* What SchedTrace.scheduling_intervals promises (spec sections 3, 4.2    *)
(* and 5), stated without the scan: over files that never change, the     *)
(* generator hands out, one at a time, file after file, the scheduling     *)
(* intervals formed by adjacent records of each file's switch stream, and  *)
(* then ends.  With one file it is SchedTraceFile.scheduling_intervals.    *)
(***************************************************************************)
EXTENDS TraceFormat, SequencesExt

CONSTANTS
    Records,      \* the raw records a file may hold
    MaxRecords,   \* bound on the number of records in a file
    NumFiles      \* number of trace files

Files == 1..NumFiles

VARIABLES
    mem,    \* mem[f]: the records of file f
    out,    \* the intervals handed out so far
    done    \* the generator has ended

avars == <<mem, out, done>>

\* A scheduling interval (spec section 3): a SWITCH_TO and a SWITCH_AWAY
\* of the same task on the same CPU, in time order.
IsInterval(a, b) ==
    /\ a.type = ST_SWITCH_TO /\ b.type = ST_SWITCH_AWAY
    /\ a.cpu = b.cpu /\ a.pid = b.pid
    /\ event_time(a) <= event_time(b)

\* Every pair of records adjacent in s that forms an interval, in order.
RECURSIVE AdjacentIntervals(_)
AdjacentIntervals(s) ==
    IF Len(s) < 2 THEN <<>>
    ELSE (IF IsInterval(s[1], s[2]) THEN <<<<s[1], s[2]>>>> ELSE <<>>)
         \o AdjacentIntervals(Tail(s))

\* The intervals of each file, file by file: none is formed across files.
Expected ==
    FlattenSeq([f \in Files |->
                   AdjacentIntervals(Filtered(mem[f], {ST_SWITCH_TO, ST_SWITCH_AWAY}))])

\* Hand out the next interval.
Emit ==
    /\ ~done
    /\ Len(out) < Len(Expected)
    /\ out' = Append(out, Expected[Len(out) + 1])
    /\ UNCHANGED <<mem, done>>

\* End, once every interval has been handed out.
Finish ==
    /\ ~done
    /\ out = Expected
    /\ done' = TRUE
    /\ UNCHANGED <<mem, out>>

AInit ==
    /\ mem \in [Files -> Seq(Records)]
    /\ \A f \in Files : Len(mem[f]) <= MaxRecords
    /\ out = <<>>
    /\ done = FALSE

ANext == Emit \/ Finish

\* A consumer that drains the generator keeps it going until it ends.
ASpec == AInit /\ [][ANext]_avars /\ WF_avars(ANext)
=============================================================================
