----------------------------- MODULE TraceFile -----------------------------
(***************************************************************************)
(* SchedTrace.scheduling_intervals (sched_trace/__init__.py) over         *)
(* SchedTraceFile.scheduling_intervals (sched_trace/file.py), as the      *)
(* generators they are: the file the outer for loop is at, the inner      *)
(* generator's cursor over events_of_type({SWITCH_TO, SWITCH_AWAY}) of    *)
(* that file, its pairing loop, and the pairs yielded so far.  The files  *)
(* never change while the generators run.                                 *)
(***************************************************************************)
EXTENDS TraceFormat, SequencesExt

CONSTANTS
    Records,      \* the raw records a file may hold
    MaxRecords,   \* bound on the number of records of all files together
    NumFiles,     \* number of trace files
    None          \* a local not yet bound

Files == 1..NumFiles

VARIABLES
    mem,   \* mem[f]: the records of file f's mmap, index 1 = offset 0
    cur,   \* the file SchedTrace.scheduling_intervals' for loop is at
    pos,   \* index of the next record events_of_type examines
    rec,   \* local rec of scheduling_intervals
    to,    \* local to
    pc,    \* "init" | "ff" (fast-forward loop) | "check" | "done"
    out    \* the (to, away) pairs yielded so far, in order

vars == <<mem, cur, pos, rec, to, pc, out>>

\* file.py scheduling_intervals: the ids it asks events_of_type for.
to_id   == ST_SWITCH_TO
away_id == ST_SWITCH_AWAY
Wanted  == {to_id, away_id}

\* events_of_type: the first index at or after i whose type byte
\* (format.get_event) is wanted, or Len(mem[cur]) + 1 when there is none.
NextWanted(i) ==
    LET hits == {j \in i..Len(mem[cur]) : mem[cur][j].type \in Wanted}
    IN  IF hits = {} THEN Len(mem[cur]) + 1 ELSE Min(hits)

\* Mutant of NextFile: the outer loop returns after the first file.
NextFileStop ==
    /\ pc' = "done"
    /\ UNCHANGED <<cur, pos, rec>>

\* The file's generator has ended: SchedTrace.scheduling_intervals' for
\* loop calls the next file's scheduling_intervals(), a fresh generator,
\* or ends itself after the last file.
NextFile ==
    IF cur < NumFiles
    THEN /\ cur' = cur + 1
         /\ pos' = 1
         /\ pc' = "init"
         /\ UNCHANGED rec
    ELSE /\ pc' = "done"
         /\ UNCHANGED <<cur, pos, rec>>

\* Mutant of Pull: the cursor skips one record past the hit.
PullSkipOne(nextpc) ==
    LET j == NextWanted(pos) IN
    IF j > Len(mem[cur])
    THEN NextFile
    ELSE /\ rec' = mem[cur][j]
         /\ pos' = j + 2
         /\ pc' = nextpc
         /\ UNCHANGED cur

\* rec = events.next(): StopIteration, uncaught inside the generator,
\* ends the file's scheduling_intervals (Python 2 generator semantics).
Pull(nextpc) ==
    LET j == NextWanted(pos) IN
    IF j > Len(mem[cur])
    THEN NextFile
    ELSE /\ rec' = mem[cur][j]
         /\ pos' = j + 1
         /\ pc' = nextpc
         /\ UNCHANGED cur

\* Mutant of Matches: the CPU comparison left out.
MatchesAnyCpu(t, away) ==
    /\ away.type = away_id
    /\ away.pid = t.pid
    /\ t.when <= away.when

\* The condition under which the loop yields (to, away).
Matches(t, away) ==
    /\ away.type = away_id
    /\ away.cpu = t.cpu
    /\ away.pid = t.pid
    /\ t.when <= away.when

\* The first rec = events.next() before the loop.
Start ==
    /\ pc = "init"
    /\ Pull("ff")
    /\ UNCHANGED <<mem, to, out>>

\* while rec[0] != to_id: rec = events.next()
FastForward ==
    /\ pc = "ff"
    /\ rec.type # to_id
    /\ Pull("ff")
    /\ UNCHANGED <<mem, to, out>>

\* to = rec; rec = events.next(); away = rec
TakeTo ==
    /\ pc = "ff"
    /\ rec.type = to_id
    /\ to' = rec
    /\ Pull("check")
    /\ UNCHANGED <<mem, out>>

\* Mutant of CheckAway: a rejected record is consumed, not re-examined as
\* a SWITCH_TO (the policy spec section 4.2 describes).
CheckAwaySkipRejected ==
    /\ pc = "check"
    /\ IF Matches(to, rec)
       THEN /\ out' = Append(out, <<to, rec>>)
            /\ pc' = "ff"
            /\ UNCHANGED <<cur, pos, rec>>
       ELSE /\ Pull("ff")
            /\ UNCHANGED out
    /\ UNCHANGED <<mem, to>>

\* The check, the yield, and the return to the top of the outer loop
\* with rec still bound to the record just examined.
CheckAway ==
    /\ pc = "check"
    /\ out' = IF Matches(to, rec) THEN Append(out, <<to, rec>>) ELSE out
    /\ pc' = "ff"
    /\ UNCHANGED <<mem, cur, pos, rec, to>>

\* The files hold, between them, the records of w, cut at the points of
\* cut: a switch pair may straddle two files.
Init ==
    /\ \E w \in BoundedSeq(Records, MaxRecords),
          cut \in [0..NumFiles -> 0..MaxRecords] :
           /\ cut[0] = 0 /\ cut[NumFiles] = Len(w)
           /\ \A f \in Files : cut[f - 1] <= cut[f]
           /\ mem = [f \in Files |-> SubSeq(w, cut[f - 1] + 1, cut[f])]
    /\ cur = 1
    /\ pos = 1
    /\ rec = None
    /\ to = None
    /\ pc = "init"
    /\ out = <<>>

Next == Start \/ FastForward \/ TakeTo \/ CheckAway

\* The consumers of the generators (the for loop over the files here, and
\* draw.render's loop over scheduling_intervals_in_range, which runs the
\* same nested loops) drain them: the generator keeps running.
Spec == Init /\ [][Next]_vars /\ WF_vars(Next)

-----------------------------------------------------------------------------
TypeOK ==
    /\ mem \in [Files -> Seq(Records)]
    /\ cur \in Files
    /\ pos \in 1..(Len(mem[cur]) + 1)
    /\ rec \in Records \cup {None}
    /\ to \in Records \cup {None}
    /\ pc \in {"init", "ff", "check", "done"}
    /\ out \in Seq(Records \X Records)

\* The abstract generator, its end being the scan's end.
Abs == INSTANCE IntervalStream WITH done <- (pc = "done")

Expected == Abs!Expected

\* scheduling_intervals implements IntervalStream: each yield hands out
\* the next interval, the generator ends only after the last one of the
\* last file, and a drained generator does end -- neither the recovery
\* after a rejected record nor the change of file loses, invents or
\* reorders an interval.
IntervalStreamRefined == Abs!ASpec

\* The recovery policy of the spec (section 4.2): after a rejected record
\* the scan resumes with the record after it, which is never taken as a
\* SWITCH_TO.
RECURSIVE SpecScan(_)
SpecScan(s) ==
    IF Len(s) < 2 THEN <<>>
    ELSE IF s[1].type # to_id THEN SpecScan(Tail(s))
    ELSE (IF Abs!IsInterval(s[1], s[2]) THEN <<<<s[1], s[2]>>>> ELSE <<>>)
         \o SpecScan(Tail(Tail(s)))

\* What the spec says the generator yields once drained.
SpecRecoveryPolicy ==
    pc = "done" => out = FlattenSeq([f \in Files |-> SpecScan(Filtered(mem[f], Wanted))])
=============================================================================
