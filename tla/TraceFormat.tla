---------------------------- MODULE TraceFormat ----------------------------
(***************************************************************************)
(* The record codec of sched_trace/format.py and the record accessors of  *)
(* sched_trace/__init__.py, abstracted to what the other modules tell     *)
(* apart.  A decoded record (format.unpack) is the header tuple followed  *)
(* by the payload tuple; it is modelled as a record with                  *)
(*   type, cpu, pid  -- header fields 0..2 (the job id is left out),      *)
(*   when            -- field 4, the first payload field,                 *)
(*   last            -- the trailing payload field (rec[-1]).             *)
(* A raw 24-byte window of the mmap is modelled by the same record: the   *)
(* codec is then the partial identity on the event ids UNPACK knows.      *)
(***************************************************************************)
EXTENDS Naturals, Sequences

\* format.py EVENT_NAMES: the id of each event is its 1-based position.
ST_NAME        == 1
ST_PARAM       == 2
ST_RELEASE     == 3
ST_ASSIGNED    == 4
ST_SWITCH_TO   == 5
ST_SWITCH_AWAY == 6
ST_COMPLETION  == 7
ST_BLOCK       == 8
ST_RESUME      == 9
ST_ACTION      == 10
ST_SYS_RELEASE == 11

EVENT_NAMES == <<"ST_NAME", "ST_PARAM", "ST_RELEASE", "ST_ASSIGNED",
                 "ST_SWITCH_TO", "ST_SWITCH_AWAY", "ST_COMPLETION",
                 "ST_BLOCK", "ST_RESUME", "ST_ACTION", "ST_SYS_RELEASE">>

\* format.py EVENTS, name -> id direction.
EVENTS == [n \in {EVENT_NAMES[i] : i \in DOMAIN EVENT_NAMES} |->
              CHOOSE i \in DOMAIN EVENT_NAMES : EVENT_NAMES[i] = n]

\* The ids that have a decoder in format.py UNPACK: ASSIGNED and ACTION
\* have none, so unpack() of such a record raises KeyError.
UNPACK_IDS == {ST_RELEASE, ST_SWITCH_TO, ST_SWITCH_AWAY, ST_COMPLETION,
               ST_BLOCK, ST_RESUME, ST_SYS_RELEASE, ST_NAME, ST_PARAM}

EVENTS_WITHOUT_TIMESTAMP == {ST_NAME, ST_PARAM}

\* format.unpack: defined only where UNPACK[hdr[0]] exists.
Decodable(raw) == raw.type \in UNPACK_IDS

\* __init__.event_time
event_time(rec) == IF rec.type \in EVENTS_WITHOUT_TIMESTAMP THEN 0 ELSE rec.when

\* An argument of *events: a Python int or str, tagged with its type.
\* __init__.lookup_ids: ints are taken as they are, strings translated
\* through EVENTS; a string EVENTS lacks is a KeyError.
lookup_ids(events) == {IF e.kind = "int" THEN e.v ELSE EVENTS[e.v] : e \in events}

\* The arguments lookup_ids raises KeyError on.
UnknownNames(events) == {e \in events : e.kind = "str" /\ e.v \notin DOMAIN EVENTS}

\* Python's tuple order on an unpacked record (header then payload).
RecTuple(rec) == <<rec.type, rec.cpu, rec.pid, rec.when, rec.last>>

RECURSIVE LexLess(_, _)
LexLess(s, t) ==
    /\ s # <<>>
    /\ \/ Head(s) < Head(t)
       \/ Head(s) = Head(t) /\ LexLess(Tail(s), Tail(t))

\* The stream events_of_type(wanted) of a file produces: the records of
\* the wanted types, in file order.
Filtered(mem, wanted) == SelectSeq(mem, LAMBDA r : r.type \in wanted)
=============================================================================
