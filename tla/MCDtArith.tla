----------------------------- MODULE MCDtArith -----------------------------
(***************************************************************************)
(* Instances of DtArith for TLC.  All words are covered: a word has only a *)
(* few values.                                                             *)
(*                                                                         *)
(* The functions for instants, for POSIX times and for intervals have no   *)
(* variable in common but a timestamp and the result of a comparison: a    *)
(* client works with one of the three kinds, and not with the product of   *)
(* all their values.                                                       *)
(***************************************************************************)
EXTENDS DtArithTimeline

CONSTANTS t1, t2, i1, i2, o1, c1, p1

VARIABLE kind   \* "instants", "posix" or "intervals"

Timestamps2 == {t1, t2}
Intervals2  == {i1, i2}
Offsets1    == {o1}
Compares1   == {c1}
Posix1      == {p1}
PosixOrNull == {p1, NULL}

AllWords == 0 .. ULONG_MAX

(* Offsets over all seconds, with every nano-second part up to the first   *)
(* invalid one, in both directions.                                        *)
AllOffsets ==
  [duration : [seconds : AllWords, nano_seconds : 0 .. NANO], is_forward : BOOLEAN]

(* The clock is before, at and after the epoch.                            *)
Readings == {[second |-> -1, nano_second |-> MAX_NANOSECONDS],
             [second |-> 0, nano_second |-> 0],
             [second |-> LONG_MAX, nano_second |-> MAX_NANOSECONDS]}

(* 0, 1/2, 3/2, 2, -1 and infinity.                                        *)
Factors == {[num |-> 0, den |-> 1], [num |-> 1, den |-> 2], [num |-> 3, den |-> 2],
            [num |-> 2, den |-> 1], [num |-> -1, den |-> 1], [num |-> 1, den |-> 0]}

-----------------------------------------------------------------------------
MCInit == Init /\ kind \in {"instants", "posix", "intervals"}

MCNext ==
  /\ Alive
  /\ \/ kind = "instants" /\ TimestampCall /\ px' = px
     \/ kind = "instants" /\ ClientStep
     \/ kind = "posix" /\ TimestampCall /\ off' = off /\ ts'[t2] = ts[t2]
     \/ kind = "intervals" /\ IntervalCall
  /\ UNCHANGED kind

MCSpec == MCInit /\ [][MCNext]_<<vars, kind>>

(* fn and status are outputs of a call: no later call depends on them,     *)
(* unless the process is dead.                                             *)
Observed == <<data, Alive, kind>>
=============================================================================
