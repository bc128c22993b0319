------------------------------ MODULE QueryAPI ------------------------------
(***************************************************************************)
(* SchedTrace.events_in_range_of_type (sched_trace/__init__.py) over the  *)
(* trace files of one SchedTrace, in both of its forms: sorted=False      *)
(* filters events_of_type (the files' streams concatenated in file        *)
(* order), sorted=True filters events_of_type_chrono (the merge of        *)
(* ChronoMerge, instantiated here).  Both are generator functions: the    *)
(* call only creates the generator, and lookup_ids runs at its first      *)
(* next().  The consumer drains the file-order query, then the sorted one *)
(* (the two share no state, so their order does not matter).              *)
(***************************************************************************)
EXTENDS TraceFormat, SequencesExt

CONSTANTS
    Records,      \* the raw records a file may hold
    MaxRecords,   \* bound on the number of records per file
    NumFiles,     \* the trace files, in the order SchedTrace was given them
    Events,       \* the *events arguments of a well-formed call
    Misspelt,     \* further arguments, names EVENTS lacks
    Times         \* the instants start and end range over

ASSUME UnknownNames(Misspelt) = Misspelt

Files == 1..NumFiles

VARIABLES
    mem,      \* mem[f]: the records of file f
    args,     \* the *events the two calls were given
    start,    \* the start argument
    end,      \* the end argument
    cpc,      \* sorted=False generator: "created", "run", "done", "KeyError"
    cf,       \* its loop variable t, as a file index
    cp,       \* the next index t.events_of_type examines in file cf
    cout,     \* what it yielded
    spc,      \* sorted=True generator: "init", "run", "KeyError"
    spos,     \* its merge's cursors ...
    sheap,    \* ... heap ...
    sout      \* ... and output before the range filter

vars == <<mem, args, start, end, cpc, cf, cp, cout, spc, spos, sheap, sout>>

Merge == INSTANCE ChronoMerge WITH
            pos <- spos, heap <- sheap, pc <- spc, out <- sout,
            Wanted <- lookup_ids(Events)   \* = lookup_ids(args) when it runs

\* events_in_range_of_type: the test each record of the stream passes.
InRange(rec) == start <= event_time(rec) /\ event_time(rec) <= end

\* First next() of events_of_type: wanted = lookup_ids(events).
CStart ==
    /\ cpc = "created"
    /\ IF UnknownNames(args) # {}
       THEN cpc' = "KeyError" /\ UNCHANGED <<cf, cp>>
       ELSE cpc' = "run" /\ cf' = 1 /\ cp' = 1
    /\ UNCHANGED <<mem, args, start, end, cout, spc, spos, sheap, sout>>

\* The next record of t.events_of_type(wanted), yielded if in range.
CYield ==
    /\ cpc = "run" /\ cf \in Files
    /\ LET j == Merge!NextWanted(cf, cp) IN
         /\ j <= Len(mem[cf])
         /\ cout' = IF InRange(mem[cf][j]) THEN Append(cout, mem[cf][j]) ELSE cout
         /\ cp' = j + 1
    /\ UNCHANGED <<mem, args, start, end, cpc, cf, spc, spos, sheap, sout>>

\* Mutant of CNextFile: the cursor is not reset for the next file.
CNextFileNoReset ==
    /\ cpc = "run" /\ cf \in Files
    /\ Merge!NextWanted(cf, cp) > Len(mem[cf])
    /\ cf' = cf + 1
    /\ UNCHANGED <<mem, args, start, end, cpc, cp, cout, spc, spos, sheap, sout>>

\* t.events_of_type(wanted) is used up: on to the next file.
CNextFile ==
    /\ cpc = "run" /\ cf \in Files
    /\ Merge!NextWanted(cf, cp) > Len(mem[cf])
    /\ cf' = cf + 1
    /\ cp' = 1
    /\ UNCHANGED <<mem, args, start, end, cpc, cout, spc, spos, sheap, sout>>

\* The for loop over self.traces ends.
CEnd ==
    /\ cpc = "run" /\ cf = NumFiles + 1
    /\ cpc' = "done"
    /\ UNCHANGED <<mem, args, start, end, cf, cp, cout, spc, spos, sheap, sout>>

CDrained == cpc \in {"done", "KeyError"}

\* First next() of events_of_type_chrono with an unknown name.
SRaise ==
    /\ CDrained
    /\ spc = "init"
    /\ UnknownNames(args) # {}
    /\ spc' = "KeyError"
    /\ UNCHANGED <<mem, args, start, end, cpc, cf, cp, cout, spos, sheap, sout>>

\* A step of the merge (its first step runs lookup_ids first).
SStep ==
    /\ CDrained
    /\ UnknownNames(args) = {}
    /\ Merge!Next
    /\ UNCHANGED <<args, start, end, cpc, cf, cp, cout>>

Init ==
    /\ mem \in [Files -> BoundedSeq(Records, MaxRecords)]
    /\ args \in {Events, Events \cup Misspelt}
    /\ start \in Times
    /\ end \in Times
    /\ cpc = "created" /\ cf = 1 /\ cp = 1 /\ cout = <<>>
    /\ spc = "init" /\ spos = [f \in Files |-> 1] /\ sheap = {} /\ sout = <<>>

Next == CStart \/ CYield \/ CNextFile \/ CEnd \/ SRaise \/ SStep

Spec == Init /\ [][Next]_vars

-----------------------------------------------------------------------------
TypeOK ==
    /\ mem \in [Files -> Seq(Records)]
    /\ args \in {Events, Events \cup Misspelt}
    /\ start \in Times /\ end \in Times
    /\ cpc \in {"created", "run", "done", "KeyError"}
    /\ cf \in 1..(NumFiles + 1)
    /\ cout \in Seq(Records)
    /\ spc \in {"init", "run", "KeyError"}
    /\ spos \in [Files -> 1..(MaxRecords + 1)]
    /\ sout \in Seq([rec : Records, it : Files])

\* Spec section 5: the records of the wanted types with
\* start <= event_time <= end, file after file, each in file order; none
\* for an empty or inverted range.
FileOrderRange ==
    FoldLeft(LAMBDA acc, f :
                 acc \o SelectSeq(mem[f], LAMBDA r : /\ r.type \in lookup_ids(args)
                                                    /\ start <= event_time(r)
                                                    /\ event_time(r) <= end),
             <<>>, [i \in Files |-> i])

\* What the sorted=True query has yielded.
SortedRange == SelectSeq([k \in 1..Len(sout) |-> sout[k].rec], InRange)

\* events_in_range_of_type(sorted=False) yields, in order, the in-range
\* records of the wanted types file after file, and all of them once the
\* generator is drained: the per-file cursor never carries over, skips or
\* repeats a record across the hand-over from one file to the next.
RangeInFileOrder ==
    UnknownNames(args) = {} =>
        /\ IsPrefix(cout, FileOrderRange)
        /\ cpc = "done" => cout = FileOrderRange

\* Spec section 7: an unknown event name is an error surfaced at the call
\* (UnknownEventName), so no generator for it is ever handed out.
UnknownNameRaisedAtCall == UnknownNames(args) # {} => cpc # "created"
=============================================================================
