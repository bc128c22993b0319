------------------------------ MODULE MCCodec -------------------------------
(***************************************************************************)
(* Codec instantiated for TLC.  A byte has 12 values, so every event id    *)
(* (1..11) and an unknown one (0) fit in the type byte and a u64 field     *)
(* still fits TLC's integers (12^8 - 1 < 2^31).  Field values are the      *)
(* edges of their widths: 0, a value spanning two bytes, and the maximum.  *)
(***************************************************************************)
EXTENDS Codec

CONSTANTS kerr

MCByteBase == 12
U64Max == 12 ^ 8 - 1
U32Max == 12 ^ 4 - 1

\* header field combinations: low edges and high edges
Headers == {[cpu |-> 0, pid |-> 1, job |-> 0],
            [cpu |-> 11, pid |-> 12 ^ 2 - 1, job |-> U32Max]}

\* payload tuples of spec section 9, per event type
Payloads(t) ==
    CASE t \in {ST_RELEASE, ST_SWITCH_AWAY, ST_SYS_RELEASE} ->
              {<<13, U64Max>>, <<U64Max, 0>>}
      [] t = ST_SWITCH_TO   -> {<<13, U32Max>>, <<U64Max, 1>>}
      [] t = ST_COMPLETION  -> {<<5, e, f>> : e \in {0, 13, (U64Max - 1) \div 2}, f \in {0, 1}}
      [] t \in {ST_BLOCK, ST_RESUME} -> {<<13>>, <<U64Max>>}
      [] t = ST_NAME        -> {<<n>> : n \in {<<>>, <<3>>, <<7, 11, 1>>,
                                             [j \in 1..15 |-> 2], [j \in 1..16 |-> 5]}}
      [] t = ST_PARAM       -> {<<U32Max, 13, 0, 11>>, <<1, U32Max, 144, 0>>}
      [] OTHER              -> {<<>>}

\* No bytes after the last whole record, one, or 23 (a record short of one).
MCTails == {<<>>, <<9>>, [j \in 1..23 |-> 9]}

MCProducer ==
    UNION {{[type |-> t, cpu |-> h.cpu, pid |-> h.pid, job |-> h.job, pay |-> p, pad |-> b] :
              h \in Headers, p \in Payloads(t), b \in {0, 9}} : t \in 0..11}
=============================================================================
