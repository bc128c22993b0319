------------------------------- MODULE Render -------------------------------
(***************************************************************************)
(* draw.render (sched_trace/draw.py) as a client of the SchedTrace query  *)
(* API over several per-CPU trace files: the rows of the chart are the    *)
(* tasks active_in_interval reports, and every later drawing loop looks   *)
(* the pid of what it draws up in task_idx.  Drawing itself (cairo) is    *)
(* left out; each loop is one step that either finishes or raises         *)
(* KeyError at the first item, in the order the query yields them, whose  *)
(* pid has no row.  The intervals are those of IntervalStream, which      *)
(* TraceFile is shown to implement.                                       *)
(***************************************************************************)
EXTENDS TraceFormat, SequencesExt

CONSTANTS
    Records,      \* the raw records a file may hold
    MaxRecords,   \* bound on the number of records in a file
    NumFiles,     \* number of trace files
    Times,        \* the instants opts.start and opts.end range over
    None          \* no KeyError raised yet

Files == 1..NumFiles

VARIABLES
    mem,          \* mem[f]: the records of file f
    opts_start,   \* opts.start
    opts_end,     \* opts.end
    tasks,        \* the tasks active_in_interval returned (task_idx keys)
    pc,           \* the loop render is in, "done", or "KeyError"
    raised        \* None, or the loop and the item whose task_idx lookup raised

vars == <<mem, opts_start, opts_end, tasks, pc, raised>>

\* SchedTrace.__iter__ order: the files one after the other.
Trace == FlattenSeq([f \in Files |-> mem[f]])

\* SchedTrace.scheduling_intervals: every file's intervals, file by file,
\* as IntervalStream states them (TraceFile, the scan, implements it).
Intervals == INSTANCE IntervalStream WITH out <- <<>>, done <- FALSE

scheduling_intervals == Intervals!Expected

\* SchedTrace.scheduling_intervals_in_range: the inclusive overlap test.
scheduling_intervals_in_range ==
    SelectSeq(scheduling_intervals,
              LAMBDA iv : ~(opts_end < event_time(iv[1]) \/ event_time(iv[2]) < opts_start))

InRange(rec) == opts_start <= event_time(rec) /\ event_time(rec) <= opts_end

\* SchedTrace.events_in_range_of_type(start, end, ty), sorted=False.
events_in_range_of_type(ty) == SelectSeq(Filtered(Trace, {ty}), InRange)

\* Mutant of active_in_interval: the CPU added where the pid belongs.
active_in_interval_cpus ==
    LET s == Filtered(Trace, {ST_SWITCH_TO, ST_SWITCH_AWAY, ST_RELEASE})
    IN  {s[k].cpu : k \in {k \in 1..Len(s) :
            opts_start <= event_time(s[k]) /\ event_time(s[k]) <= opts_end}}

\* Mutant of active_in_interval: the window's ends excluded.
active_in_interval_strict ==
    LET s == Filtered(Trace, {ST_SWITCH_TO, ST_SWITCH_AWAY, ST_RELEASE})
    IN  {s[k].pid : k \in {k \in 1..Len(s) :
            opts_start < event_time(s[k]) /\ event_time(s[k]) < opts_end}}

\* SchedTrace.active_in_interval: pids of the switch and release events
\* inside [start, end].
active_in_interval ==
    LET s == Filtered(Trace, {ST_SWITCH_TO, ST_SWITCH_AWAY, ST_RELEASE})
    IN  {s[k].pid : k \in {k \in 1..Len(s) :
            opts_start <= event_time(s[k]) /\ event_time(s[k]) <= opts_end}}

\* What each drawing loop iterates over, in order, and the pid it indexes
\* task_idx with.
Drawn(loop) ==
    CASE loop = "alloc"      -> scheduling_intervals_in_range
      [] loop = "release"    -> events_in_range_of_type(ST_RELEASE)
      [] loop = "completion" -> events_in_range_of_type(ST_COMPLETION)
      [] loop = "block"      -> events_in_range_of_type(ST_BLOCK)
      [] loop = "resume"     -> events_in_range_of_type(ST_RESUME)

PidOf(loop, item) == IF loop = "alloc" THEN item[1].pid ELSE item.pid

Following == [alloc |-> "release", release |-> "completion",
              completion |-> "block", block |-> "resume", resume |-> "done"]

\* tasks, cores = trace.active_in_interval(opts.start, opts.end), then
\* task_idx over sorted(tasks) and the labels (task_names etc. are
\* defaultdicts: no lookup there can fail).
IdentifyTasks ==
    /\ pc = "identify"
    /\ tasks' = active_in_interval
    /\ pc' = "alloc"
    /\ UNCHANGED <<mem, opts_start, opts_end, raised>>

\* A drawing loop in which every pid has a row.  The task base lines,
\* drawn after the allocations, index task_idx with tasks itself.
DrawLoop ==
    /\ pc \in DOMAIN Following
    /\ \A k \in DOMAIN Drawn(pc) : PidOf(pc, Drawn(pc)[k]) \in tasks
    /\ pc' = Following[pc]
    /\ UNCHANGED <<mem, opts_start, opts_end, tasks, raised>>

\* task_idx[pid] raises KeyError at the first item without a row.
RaiseKeyError ==
    /\ pc \in DOMAIN Following
    /\ LET bad == SelectSeq(Drawn(pc), LAMBDA it : PidOf(pc, it) \notin tasks)
       IN  /\ bad # <<>>
           /\ raised' = [loop |-> pc, item |-> bad[1]]
    /\ pc' = "KeyError"
    /\ UNCHANGED <<mem, opts_start, opts_end, tasks>>

Init ==
    /\ mem \in [Files -> BoundedSeq(Records, MaxRecords)]
    /\ opts_start \in Times
    /\ opts_end \in {e \in Times : opts_start <= e}   \* a non-empty window
    /\ tasks = {}
    /\ pc = "identify"
    /\ raised = None

Next == IdentifyTasks \/ DrawLoop \/ RaiseKeyError

Spec == Init /\ [][Next]_vars

-----------------------------------------------------------------------------
TypeOK ==
    /\ mem \in [Files -> Seq(Records)]
    /\ tasks \subseteq {r.pid : r \in Records}
    /\ pc \in DOMAIN Following \cup {"identify", "done", "KeyError"}
    /\ (raised = None) = (pc # "KeyError")

\* The rows are the tasks with a switch or release event inside the
\* window, ends included, over all files.  So neither the allocation loop
\* nor the release loop can miss a row, except for a task whose
\* interval starts before the window and ends after it: no event of it
\* lies inside.
RowMissingOnlyAcrossWindow ==
    raised # None =>
        /\ raised.loop # "release"
        /\ raised.loop = "alloc" =>
               /\ event_time(raised.item[1]) < opts_start
               /\ opts_end < event_time(raised.item[2])

\* render draws every window of every trace without raising: each pid a
\* drawing loop meets has a row, because every allocation, completion,
\* suspension and wake-up drawn belongs to a task active in the window.
RenderNoKeyError == pc # "KeyError"
=============================================================================
