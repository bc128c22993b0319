--------------------------- MODULE TraceAggregate ---------------------------
(***************************************************************************)
(* SchedTrace (sched_trace/__init__.py) over SchedTraceFile               *)
(* (sched_trace/file.py): construction from a list of paths, and the      *)
(* lazily computed whole-trace views.  earliest_event_time,               *)
(* latest_event_time and system_releases are wrapped by the `cached`      *)
(* decorator, whose cell is created once, when the class body runs, and   *)
(* is therefore one cell per property for every SchedTrace object.  The   *)
(* task tables are instance attributes filled by identify_tasks.          *)
(* Several SchedTrace objects of one process are the actors.              *)
(***************************************************************************)
EXTENDS TraceFormat, SequencesExt

CONSTANTS
    Traces,      \* SchedTrace objects a process creates
    Paths,       \* the trace file names
    Contents,    \* the possible contents of one file: [recs, tail]
    PathLists,   \* the argument lists SchedTrace(trace_files) is called with
    Pids,        \* task ids the tables are read at
    None,        \* Python's None, and a not yet constructed object
    KeyError,    \* the exception unpack raises for an id UNPACK lacks
    Unread       \* ret of a property not read yet

CachedProps == {"system_releases", "earliest_event_time", "latest_event_time"}
TableProps  == {"task_wcets", "task_partitions", "task_names"}

VARIABLES
    fs,        \* fs[p]: the bytes of file p, as its whole records and the
               \* number of bytes after the last whole record
    files,     \* files[t]: the paths SchedTrace t was built from, or None
    status,    \* status[t]: "new" | "open" | "failed" (constructor raised)
    cell,      \* cell[prop]: the cached_val list of the decorator, <<>> or <<v>>
    tables,    \* tables[t]: None, or the five defaultdicts of identify_tasks
    ret        \* ret[t][prop]: what t's last access of prop returned or raised

vars == <<fs, files, status, cell, tables, ret>>

\* SchedTraceFile.__init__: mmap of an empty file raises; __len__ is
\* len(self.mem) / RECORD_LEN under Python 2 integer division, so the
\* bytes after the last whole record are ignored.
Opens(p) == Len(fs[p].recs) > 0 \/ fs[p].tail > 0

\* The records of trace t in SchedTrace.__iter__ order.
AllRecs(t) == FoldLeft(LAMBDA acc, p : acc \o fs[p].recs, <<>>, files[t])

\* Mutant of FirstTimed: a record with time 0 ends the scan too.
RECURSIVE FirstTimedZero(_)
FirstTimedZero(s) ==
    IF s = <<>> THEN None
    ELSE IF ~Decodable(Head(s)) THEN KeyError
    ELSE IF event_time(Head(s)) >= 0 THEN event_time(Head(s))
    ELSE FirstTimedZero(Tail(s))

\* for rec in t (or reversed(t)): unpack every record, stop at the first
\* one with a positive event_time.  An id UNPACK lacks raises KeyError.
RECURSIVE FirstTimed(_)
FirstTimed(s) ==
    IF s = <<>> THEN None
    ELSE IF ~Decodable(Head(s)) THEN KeyError
    ELSE IF event_time(Head(s)) > 0 THEN event_time(Head(s))
    ELSE FirstTimed(Tail(s))

Better(v, acc, forward) ==
    IF v = None THEN acc
    ELSE IF acc = None THEN v
    ELSE IF (IF forward THEN v < acc ELSE v > acc) THEN v ELSE acc

\* The loop over self.traces, each file read forward (earliest) or
\* backward (latest); the first KeyError propagates.
RECURSIVE ScanFiles(_, _, _)
ScanFiles(ps, acc, forward) ==
    IF ps = <<>> THEN acc
    ELSE LET recs == fs[Head(ps)].recs
             v == FirstTimed(IF forward THEN recs ELSE Reverse(recs))
         IN  IF v = KeyError THEN KeyError
             ELSE ScanFiles(Tail(ps), Better(v, acc, forward), forward)

earliest_event_time(t) == ScanFiles(files[t], None, TRUE)

latest_event_time(t) == ScanFiles(files[t], None, FALSE)

\* [rec[-1] for rec in self.events_of_type('ST_SYS_RELEASE')]
system_releases(t) ==
    LET s == Filtered(AllRecs(t), {ST_SYS_RELEASE})
    IN  [k \in 1..Len(s) |-> s[k].last]

Compute(t, prop) ==
    CASE prop = "system_releases"     -> system_releases(t)
      [] prop = "earliest_event_time" -> earliest_event_time(t)
      [] prop = "latest_event_time"   -> latest_event_time(t)

\* identify_tasks: fresh defaultdicts, then one pass over the PARAM and
\* NAME records in file order; the last record of a pid wins.  The wcet
\* is rec[-4] (the first payload field), the partition and the name
\* rec[-1]; periods and phases follow the wcet's code path and are left
\* out.  An empty name is modelled as 0.
identify_tasks(t) ==
    LET s == Filtered(AllRecs(t), {ST_PARAM, ST_NAME})
        lastOf(pid, ty) == {k \in 1..Len(s) : s[k].pid = pid /\ s[k].type = ty}
        pick(pid, ty, fld(_), dflt) ==
            IF lastOf(pid, ty) = {} THEN dflt ELSE fld(s[Max(lastOf(pid, ty))])
    IN  [task_wcets      |-> [p \in Pids |-> pick(p, ST_PARAM, LAMBDA r : r.when, 0)],
         task_partitions |-> [p \in Pids |-> pick(p, ST_PARAM, LAMBDA r : r.last, 0)],
         task_names      |-> [p \in Pids |-> pick(p, ST_NAME, LAMBDA r : r.last, 0)]]

\* SchedTrace.__init__: one SchedTraceFile per path, in order; the first
\* one that fails raises and no object is bound.
Construct(t, ps) ==
    /\ status[t] = "new"
    /\ files' = [files EXCEPT ![t] = ps]
    /\ status' = [status EXCEPT ![t] =
                     IF \A k \in DOMAIN ps : Opens(ps[k]) THEN "open" ELSE "failed"]
    /\ UNCHANGED <<fs, cell, tables, ret>>

\* Mutant of check_cache: the `if not cached_val` test left out.
check_cache_append(t, prop) ==
    LET v == Compute(t, prop) IN
    /\ ret' = [ret EXCEPT ![t][prop] = IF cell[prop] = <<>> THEN v ELSE cell[prop][1]]
    /\ cell' = IF v = KeyError THEN cell ELSE [cell EXCEPT ![prop] = Append(@, v)]

\* cached.check_cache: fill the cell on a miss (an exception leaves it
\* empty), return cached_val[0].
check_cache(t, prop) ==
    IF cell[prop] = <<>>
    THEN LET v == Compute(t, prop) IN
         /\ ret' = [ret EXCEPT ![t][prop] = v]
         /\ cell' = IF v = KeyError THEN cell ELSE [cell EXCEPT ![prop] = <<v>>]
    ELSE /\ ret' = [ret EXCEPT ![t][prop] = cell[prop][1]]
         /\ UNCHANGED cell

\* Reading system_releases, earliest_event_time or latest_event_time.
GetCached(t, prop) ==
    /\ status[t] = "open"
    /\ check_cache(t, prop)
    /\ UNCHANGED <<fs, files, status, tables>>

\* Reading task_wcets, task_partitions or task_names: identify_tasks on
\* the first access to any of them, then the instance's table.
GetTable(t, prop) ==
    /\ status[t] = "open"
    /\ LET tb == IF tables[t] = None THEN identify_tasks(t) ELSE tables[t]
       IN  /\ tables' = [tables EXCEPT ![t] = tb]
           /\ ret' = [ret EXCEPT ![t][prop] = tb[prop]]
    /\ UNCHANGED <<fs, files, status, cell>>

Init ==
    /\ fs \in [Paths -> Contents]
    /\ files = [t \in Traces |-> None]
    /\ status = [t \in Traces |-> "new"]
    /\ cell = [p \in CachedProps |-> <<>>]
    /\ tables = [t \in Traces |-> None]
    /\ ret = [t \in Traces |-> [p \in CachedProps \cup TableProps |-> Unread]]

Next ==
    \/ \E t \in Traces, ps \in PathLists : Construct(t, ps)
    \/ \E t \in Traces, prop \in CachedProps : GetCached(t, prop)
    \/ \E t \in Traces, prop \in TableProps : GetTable(t, prop)

Spec == Init /\ [][Next]_vars

-----------------------------------------------------------------------------
Values == Nat \cup {None, KeyError}

TypeOK ==
    /\ fs \in [Paths -> Contents]
    /\ status \in [Traces -> {"new", "open", "failed"}]
    /\ \A t \in Traces : status[t] # "new" => files[t] \in PathLists
    /\ \A p \in CachedProps : Len(cell[p]) <= 1
    /\ \A t \in Traces : tables[t] # None =>
           \A prop \in TableProps : tables[t][prop] \in [Pids -> Nat]

\* Reference definitions (spec 4.3): per file, the first record (for the
\* latest, the last record) with a positive event time; a record without
\* a decoder met before it is an error.  Then the least (greatest) of
\* these over the files; no timed record at all gives None.
TimedIdx(s)  == {k \in 1..Len(s) : Decodable(s[k]) /\ event_time(s[k]) > 0}
BadIdx(s)    == {k \in 1..Len(s) : ~Decodable(s[k])}
FirstOK(s)   == IF TimedIdx(s) = {} THEN BadIdx(s) = {}
                ELSE \A k \in BadIdx(s) : k > Min(TimedIdx(s))
LastOK(s)    == IF TimedIdx(s) = {} THEN BadIdx(s) = {}
                ELSE \A k \in BadIdx(s) : k < Max(TimedIdx(s))

Extreme(t, ok(_), pick(_), best(_)) ==
    LET ps   == {files[t][i] : i \in DOMAIN files[t]}
        vals == {event_time(fs[p].recs[pick(TimedIdx(fs[p].recs))]) :
                     p \in {q \in ps : TimedIdx(fs[q].recs) # {}}}
    IN  IF \E p \in ps : ~ok(fs[p].recs) THEN KeyError
        ELSE IF vals = {} THEN None ELSE best(vals)

Reference(t, prop) ==
    CASE prop = "earliest_event_time" -> Extreme(t, FirstOK, Min, Min)
      [] prop = "latest_event_time"   -> Extreme(t, LastOK, Max, Max)
      [] prop = "system_releases"     -> system_releases(t)

\* What earliest_event_time, latest_event_time or system_releases returns
\* to a SchedTrace object is that object's own value: computed from its
\* own files, however many objects the process created and in whatever
\* order they were read.
CachedCoherent ==
    \A t \in Traces, prop \in CachedProps :
        ret[t][prop] # Unread => ret[t][prop] = Reference(t, prop)

\* A file whose timed records are in time order, as the kernel writes a
\* per-CPU trace.
TimeSorted(s) ==
    \A i, j \in TimedIdx(s) : i < j => event_time(s[i]) <= event_time(s[j])

MalformedRejected ==
    \A t \in Traces : status[t] = "open" =>
        \A k \in DOMAIN files[t] : fs[files[t][k]].tail = 0
=============================================================================
