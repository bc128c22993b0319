------------------------------- MODULE Codec --------------------------------
(***************************************************************************)
(* The byte-level record codec of sched_trace/format.py and the byte-level *)
(* iterators of SchedTraceFile (sched_trace/file.py) over one mmap.        *)
(*                                                                         *)
(* A byte is a digit in 0..ByteBase-1 (ByteBase = 256 in the program); a   *)
(* struct field of n bytes is decoded little-endian (struct native mode on *)
(* the x86 hosts the tools run on), each field at its natural alignment.   *)
(* What the kernel wrote is kept as a ghost sequence prod of records       *)
(*   [type, cpu, pid, job, pay, pad]                                       *)
(* with the payload tuple pay of spec section 9 and the byte pad the       *)
(* producer leaves in unused bytes; mem is its encoding by the wire layout *)
(* of spec sections 4.1 and 9.  The properties compare what the iterators  *)
(* yield with prod.                                                        *)
(***************************************************************************)
EXTENDS TraceFormat, SequencesExt, Bitwise

CONSTANTS
    ByteBase,     \* number of values of a byte
    Producer,     \* the records the kernel may have written
    MaxRecords,   \* bound on the number of records in the file
    Wanted,       \* the event_ids events_of_type is called with
    Tails,        \* bytes the file may hold after its last whole record
    KeyError      \* the exception UNPACK[...] raises

HEADER_LEN  == 8
PAYLOAD_LEN == 16
RECORD_LEN  == 24

VARIABLES
    prod,   \* ghost: the records the producer wrote
    mem,    \* the bytes of the mmap
    it,     \* the generator: "iter", "reversed", "events_of_type" or "raw_iter"
    k,      \* how many indices of its xrange it has consumed
    out,    \* what it yielded: [at |-> record index, rec |-> tuple or bytes]
    pc      \* "run", "done" (StopIteration) or "KeyError"

vars == <<prod, mem, it, k, out, pc>>

-----------------------------------------------------------------------------
(* format.py                                                               *)

\* Python slice s[a:b] of a byte string, 0-based and clipped at the end.
Slice(s, a, b) == SubSeq(s, a + 1, IF b < Len(s) THEN b ELSE Len(s))

\* struct: an n-byte field, least significant byte first.
LE(bytes) == FoldRight(LAMBDA b, acc : b + ByteBase * acc, bytes, 0)

\* struct.unpack in native mode: each field of size sz starts at the next
\* multiple of sz; sizes are the format codes B = 1, H = 2, I = 4, Q = 8.
RECURSIVE StructFields(_, _, _)
StructFields(sizes, data, off) ==
    IF sizes = <<>> THEN <<>>
    ELSE LET sz == Head(sizes)
             a  == ((off + sz - 1) \div sz) * sz
         IN  <<LE(Slice(data, a, a + sz))>> \o StructFields(Tail(sizes), data, a + sz)

struct_unpack(sizes, data) == StructFields(sizes, data, 0)

\* get_event: ord of the first byte of the index-th record.
get_event(m, index) == m[index * RECORD_LEN + 1]

unpack_header(raw)      == struct_unpack(<<1, 1, 2, 4>>, Slice(raw, 0, HEADER_LEN))
unpack_release(raw)     == struct_unpack(<<8, 8>>, Slice(raw, HEADER_LEN, RECORD_LEN))
unpack_switch_away(raw) == struct_unpack(<<8, 8>>, Slice(raw, HEADER_LEN, RECORD_LEN))
unpack_block(raw)       == struct_unpack(<<8>>, Slice(raw, HEADER_LEN, RECORD_LEN - 8))
unpack_resume(raw)      == struct_unpack(<<8>>, Slice(raw, HEADER_LEN, RECORD_LEN - 8))
unpack_sys_release(raw) == struct_unpack(<<8, 8>>, Slice(raw, HEADER_LEN, RECORD_LEN))

\* Mutant of unpack_param: "III", the partition byte not read.
unpack_param_III(raw) == struct_unpack(<<4, 4, 4>>, Slice(raw, HEADER_LEN, RECORD_LEN - 3))

unpack_param(raw) == struct_unpack(<<4, 4, 4, 1>>, Slice(raw, HEADER_LEN, RECORD_LEN - 3))

\* Mutant of unpack_switch_to: decoded like unpack_switch_away ("QQ").
unpack_switch_to_QQ(raw) == struct_unpack(<<8, 8>>, Slice(raw, HEADER_LEN, RECORD_LEN))

unpack_switch_to(raw) == struct_unpack(<<8, 4>>, Slice(raw, HEADER_LEN, RECORD_LEN - 4))

\* Mutant of unpack_completion: the two halves of the split swapped.
unpack_completion_swapped(raw) ==
    LET f == struct_unpack(<<8, 8>>, Slice(raw, HEADER_LEN, RECORD_LEN))
    IN  <<f[1], f[2] & 1, shiftR(f[2], 1)>>

\* (when, exec_time >> 1, exec_time & 0x1)
unpack_completion(raw) ==
    LET f == struct_unpack(<<8, 8>>, Slice(raw, HEADER_LEN, RECORD_LEN))
    IN  <<f[1], shiftR(f[2], 1), f[2] & 1>>

\* str.find: the 0-based index of the first x in s, or -1.
find(s, x) ==
    LET hits == {j \in 1..Len(s) : s[j] = x}
    IN  IF hits = {} THEN -1 ELSE Min(hits) - 1

\* Mutant of unpack_name: "> 0" for "> -1", a NUL at index 0 not seen.
unpack_name_idx_positive(raw) ==
    LET data == Slice(raw, HEADER_LEN, RECORD_LEN)
        null_byte_idx == find(data, 0)
    IN  <<IF null_byte_idx > 0 THEN Slice(data, 0, null_byte_idx) ELSE data>>

unpack_name(raw) ==
    LET data == Slice(raw, HEADER_LEN, RECORD_LEN)
        null_byte_idx == find(data, 0)
    IN  <<IF null_byte_idx > -1 THEN Slice(data, 0, null_byte_idx) ELSE data>>

\* UNPACK[t](raw) for the nine ids UNPACK has.
UNPACK(t, raw) ==
    CASE t = ST_RELEASE     -> unpack_release(raw)
      [] t = ST_SWITCH_TO   -> unpack_switch_to(raw)
      [] t = ST_SWITCH_AWAY -> unpack_switch_away(raw)
      [] t = ST_COMPLETION  -> unpack_completion(raw)
      [] t = ST_BLOCK       -> unpack_block(raw)
      [] t = ST_RESUME      -> unpack_resume(raw)
      [] t = ST_SYS_RELEASE -> unpack_sys_release(raw)
      [] t = ST_NAME        -> unpack_name(raw)
      [] t = ST_PARAM       -> unpack_param(raw)

\* unpack: header tuple + payload tuple, KeyError for a type UNPACK lacks.
unpack(raw) ==
    LET hdr == unpack_header(raw)
    IN  IF hdr[1] \in UNPACK_IDS THEN hdr \o UNPACK(hdr[1], raw) ELSE KeyError

-----------------------------------------------------------------------------
(* The producer: the wire layout of spec sections 4.1 and 9 (little-endian *)
(* fields at their C offsets; the COMPLETION u64 holds exec_time above a  *)
(* low forced bit; NAME is NUL-terminated unless it fills all 16 bytes).  *)
(* Bytes no field covers hold r.pad.                                      *)

Enc(v, n) == [j \in 1..n |-> (v \div ByteBase ^ (j - 1)) % ByteBase]

Pad(r, n) == [j \in 1..n |-> r.pad]

PayloadBytes(r) ==
    LET p == r.pay IN
    CASE r.type \in {ST_RELEASE, ST_SWITCH_AWAY, ST_SYS_RELEASE} ->
              Enc(p[1], 8) \o Enc(p[2], 8)
      [] r.type = ST_SWITCH_TO  -> Enc(p[1], 8) \o Enc(p[2], 4) \o Pad(r, 4)
      [] r.type = ST_COMPLETION -> Enc(p[1], 8) \o Enc(2 * p[2] + p[3], 8)
      [] r.type \in {ST_BLOCK, ST_RESUME} -> Enc(p[1], 8) \o Pad(r, 8)
      [] r.type = ST_NAME ->
              IF Len(p[1]) = PAYLOAD_LEN THEN p[1]
              ELSE p[1] \o <<0>> \o Pad(r, PAYLOAD_LEN - Len(p[1]) - 1)
      [] r.type = ST_PARAM ->
              Enc(p[1], 4) \o Enc(p[2], 4) \o Enc(p[3], 4) \o Enc(p[4], 1) \o Pad(r, 3)
      [] OTHER -> Pad(r, PAYLOAD_LEN)

Encode(r) == Enc(r.type, 1) \o Enc(r.cpu, 1) \o Enc(r.pid, 2) \o Enc(r.job, 4)
                \o PayloadBytes(r)

Written(s) == FoldLeft(LAMBDA acc, r : acc \o Encode(r), <<>>, s)

-----------------------------------------------------------------------------
(* file.py                                                                 *)

\* SchedTraceFile.__len__
Length == Len(mem) \div RECORD_LEN

\* The index the generator's xrange (or reversed(xrange)) gives at step n.
Index(n) == IF it = "reversed" THEN Length - 1 - n ELSE n

\* record = self.mem[i * RECORD_LEN:]
Record(i) == Slice(mem, i * RECORD_LEN, Len(mem))

\* Mutant of raw_record: the slice left open-ended, as in __iter__.
raw_record_open(i) == Slice(mem, i * RECORD_LEN, Len(mem))

\* raw_iter: record = self.mem[i * RECORD_LEN:(i + 1) * RECORD_LEN]
raw_record(i) == Slice(mem, i * RECORD_LEN, (i + 1) * RECORD_LEN)

\* What the generator yields for index i: the raw slice, or unpack(record)
\* (a KeyError for a type UNPACK lacks).
Value(i) == IF it = "raw_iter" THEN raw_record(i) ELSE unpack(Record(i))

\* events_of_type skips a record whose first byte is not wanted.
Skip ==
    /\ pc = "run" /\ k < Length
    /\ it = "events_of_type"
    /\ get_event(mem, Index(k)) \notin Wanted
    /\ k' = k + 1
    /\ UNCHANGED <<prod, mem, it, out, pc>>

\* yield unpack(record)
Yield ==
    /\ pc = "run" /\ k < Length
    /\ it = "events_of_type" => get_event(mem, Index(k)) \in Wanted
    /\ Value(Index(k)) # KeyError
    /\ out' = Append(out, [at |-> Index(k), rec |-> Value(Index(k))])
    /\ k' = k + 1
    /\ UNCHANGED <<prod, mem, it, pc>>

\* unpack raises KeyError (UNPACK has no decoder): the generator is dead.
Raise ==
    /\ pc = "run" /\ k < Length
    /\ it = "events_of_type" => get_event(mem, Index(k)) \in Wanted
    /\ Value(Index(k)) = KeyError
    /\ pc' = "KeyError"
    /\ UNCHANGED <<prod, mem, it, k, out>>

\* The xrange is used up: StopIteration.
Exhaust ==
    /\ pc = "run" /\ k = Length
    /\ pc' = "done"
    /\ UNCHANGED <<prod, mem, it, k, out>>

Init ==
    /\ prod \in BoundedSeq(Producer, MaxRecords)
    /\ \E tail \in Tails : mem = Written(prod) \o tail
    /\ it \in {"iter", "reversed", "events_of_type", "raw_iter"}
    /\ k = 0
    /\ out = <<>>
    /\ pc = "run"

Next == Skip \/ Yield \/ Raise \/ Exhaust

Spec == Init /\ [][Next]_vars

-----------------------------------------------------------------------------
\* Number of payload fields of each event type (spec section 9).
Arity == [t \in UNPACK_IDS |->
            CASE t \in {ST_NAME, ST_BLOCK, ST_RESUME} -> 1
              [] t = ST_COMPLETION -> 3
              [] t = ST_PARAM -> 4
              [] OTHER -> 2]

\* A decoded tuple: the header and the payload fields, numbers but for
\* the byte string of a NAME record.
IsTuple(r) ==
    /\ Len(r) = 4 + Arity[r[1]]
    /\ IF r[1] = ST_NAME
       THEN SubSeq(r, 1, 4) \in Seq(Nat) /\ r[5] \in Seq(0..(ByteBase - 1))
       ELSE r \in Seq(Nat)

TypeOK ==
    /\ prod \in Seq(Producer)
    /\ mem \in Seq(0..(ByteBase - 1))
    /\ it \in {"iter", "reversed", "events_of_type", "raw_iter"}
    /\ k \in 0..Length
    /\ \A j \in DOMAIN out :
           /\ out[j].at \in 0..(Length - 1)
           /\ IF it = "raw_iter" THEN out[j].rec \in Seq(0..(ByteBase - 1))
                                 ELSE IsTuple(out[j].rec)
    /\ pc \in {"run", "done", "KeyError"}

\* The tuple spec section 4.1 says unpack returns for what was written.
Fields(r) == <<r.type, r.cpu, r.pid, r.job>> \o r.pay

\* raw_iter hands out the record's 24 bytes, the others its tuple.
AsWritten(r) == IF it = "raw_iter" THEN Encode(r) ELSE Fields(r)

\* The records the generator must yield, in its order, up to the first
\* one of a type outside the nine the spec's decoder knows.
Order == IF it = "reversed" THEN Reverse(prod) ELSE prod

Selected == IF it = "events_of_type" THEN SelectSeq(Order, LAMBDA r : r.type \in Wanted)
            ELSE Order

Expected ==
    LET bad == {j \in 1..Len(Selected) : Selected[j].type \notin UNPACK_IDS}
    IN  IF bad = {} \/ it = "raw_iter" THEN Selected ELSE SubSeq(Selected, 1, Min(bad) - 1)

\* Whatever the iterator (__iter__, __reversed__, events_of_type) every
\* tuple it yields is the header and payload the producer wrote, in its
\* order, and it stops (StopIteration or KeyError) only when the
\* spec says: after the last record, or at a record of unknown type.
\* The whole tuple is compared: a completion's forced bit and exec_time
\* (one u64, split by shift and mask) and a name cut at its first NUL
\* are as written.  raw_iter yields exactly the 24 bytes of each record.  Bytes after the
\* last whole record (__len__ floors) are never read as a record.
DecodedAsWritten ==
    /\ IsPrefix([j \in 1..Len(out) |-> out[j].rec], [j \in 1..Len(Expected) |-> AsWritten(Expected[j])])
    /\ pc # "run" => Len(out) = Len(Expected)
=============================================================================
