---------------------------- MODULE ChronoMerge ----------------------------
(***************************************************************************)
(* SchedTrace.events_of_type_chrono (sched_trace/__init__.py): one        *)
(* events_of_type(wanted) cursor per trace file, each mapped through      *)
(* by_event_time, merged by heapq.merge.  heapq.merge (Python 2) keeps    *)
(* one entry [value, itnum] per live iterator in a heap, yields the       *)
(* smallest value, refills from the same iterator, drops an exhausted     *)
(* one, and once a single iterator is left yields the rest of it          *)
(* directly.  The heap array is abstracted to the set of its entries: the *)
(* heap invariant makes h[0] the least of them.                           *)
(***************************************************************************)
EXTENDS TraceFormat, SequencesExt

CONSTANTS
    Records,      \* the raw records a file may hold
    MaxRecords,   \* bound on the number of records per file
    NumFiles,     \* the trace files, in the order SchedTrace was given them
    Wanted        \* lookup_ids(events) of the call

Files == 1..NumFiles

VARIABLES
    mem,    \* mem[f]: the records of file f
    pos,    \* pos[f]: next index the events_of_type cursor of f examines
    heap,   \* the entries of heapq.merge's heap
    pc,     \* "init" before the first pull, "run" after
    out     \* the records yielded so far, each tagged with its file

vars == <<mem, pos, heap, pc, out>>

\* events_of_type cursor of file f: the first index at or after i whose
\* type byte is wanted, or Len(mem[f]) + 1 when there is none.
NextWanted(f, i) ==
    LET hits == {j \in i..Len(mem[f]) : mem[f][j].type \in Wanted}
    IN  IF hits = {} THEN Len(mem[f]) + 1 ELSE Min(hits)

\* Mutant of by_event_time: the key is the record alone.
by_event_time_rec_only(rec) == RecTuple(rec)

\* by_event_time: the value merged is the tuple (event_time(rec), rec).
by_event_time(rec) == <<event_time(rec)>> \o RecTuple(rec)

\* A heap entry [value, itnum, next]; value and itnum are compared.
EntryLess(a, b) ==
    LexLess(by_event_time(a.rec) \o <<a.it>>, by_event_time(b.rec) \o <<b.it>>)

HeapMin == CHOOSE e \in heap : \A d \in heap \ {e} : EntryLess(e, d)

\* Mutant of Refill: the cursor moves one record too far.
RefillPastNext(f, rest) ==
    LET j == NextWanted(f, pos[f]) IN
    IF j > Len(mem[f])
    THEN /\ heap' = rest
         /\ UNCHANGED pos
    ELSE /\ heap' = rest \cup {[rec |-> mem[f][j], it |-> f]}
         /\ pos' = [pos EXCEPT ![f] = j + 2]

\* Pull the next record of file f's cursor into the heap, or drop the
\* iterator on StopIteration.
Refill(f, rest) ==
    LET j == NextWanted(f, pos[f]) IN
    IF j > Len(mem[f])
    THEN /\ heap' = rest
         /\ UNCHANGED pos
    ELSE /\ heap' = rest \cup {[rec |-> mem[f][j], it |-> f]}
         /\ pos' = [pos EXCEPT ![f] = j + 1]

\* s[0] = next(); heapreplace -- or, on StopIteration, heappop.
Advance(e) == Refill(e.it, heap \ {e})

\* The first pull: next() of every iterator, in file order, then heapify.
Prime ==
    /\ pc = "init"
    /\ LET j == [f \in Files |-> NextWanted(f, 1)]
           live == {f \in Files : j[f] <= Len(mem[f])}
       IN  /\ heap' = {[rec |-> mem[f][j[f]], it |-> f] : f \in live}
           /\ pos' = [f \in Files |-> IF f \in live THEN j[f] + 1 ELSE Len(mem[f]) + 1]
    /\ pc' = "run"
    /\ UNCHANGED <<mem, out>>

\* while len(h) > 1: yield h[0]'s value, refill or pop its iterator.
MergeStep ==
    /\ pc = "run"
    /\ Cardinality(heap) > 1
    /\ out' = Append(out, HeapMin)
    /\ Advance(HeapMin)
    /\ UNCHANGED <<mem, pc>>

\* Mutant of DrainLast: only h[0] of the last iterator is yielded.
DrainLastHeadOnly ==
    /\ pc = "run"
    /\ Cardinality(heap) = 1
    /\ \E e \in heap : out' = Append(out, e)
    /\ heap' = {}
    /\ UNCHANGED <<mem, pos, pc>>

\* if h: yield h[0]'s value; for v in next.__self__: yield v
DrainLast ==
    /\ pc = "run"
    /\ Cardinality(heap) = 1
    /\ \E e \in heap :
         /\ out' = Append(out, e)
         /\ Advance(e)
    /\ UNCHANGED <<mem, pc>>

Init ==
    /\ mem \in [Files -> BoundedSeq(Records, MaxRecords)]
    /\ pos = [f \in Files |-> 1]
    /\ heap = {}
    /\ pc = "init"
    /\ out = <<>>

Next == Prime \/ MergeStep \/ DrainLast

\* The consumers (events_in_range_of_type with sorted=True) drain it.
Spec == Init /\ [][Next]_vars /\ WF_vars(Next)

-----------------------------------------------------------------------------
TypeOK ==
    /\ mem \in [Files -> Seq(Records)]
    /\ \A f \in Files : pos[f] \in 1..(Len(mem[f]) + 1)
    /\ heap \subseteq [rec : Records, it : Files]
    /\ pc \in {"init", "run"}
    /\ out \in Seq([rec : Records, it : Files])

\* The abstract merge.
Abs == INSTANCE SortedMerge

\* events_of_type_chrono implements SortedMerge: every record it yields is
\* the next wanted record of its file, of least time among the files'
\* next records when the inputs are sorted, and every record of every
\* file is eventually yielded -- across the hand-over from the heap loop
\* to draining the last iterator.
SortedMergeRefined == Abs!ASpec

\* Spec 4.3: records with equal timestamps come out in source-file order.
TieBreakByFileOrder ==
    \A k, l \in 1..Len(out) :
        (k < l /\ event_time(out[k].rec) = event_time(out[l].rec))
            => out[k].it <= out[l].it
=============================================================================
