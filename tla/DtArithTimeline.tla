-------------------------- MODULE DtArithTimeline --------------------------
(***************************************************************************)
(* The properties of DtArith, foremost that it implements Timeline: the    *)
(* value of a register is its exact number of nano-seconds.                *)
(***************************************************************************)
EXTENDS DtArith

CONSTANT Undefined   \* the value of a register with a bad nano-second part

ASSUME UndefinedAssumption == Undefined \notin Int

Quantity(seconds, nanos) == seconds * NANO + nanos

InstantOf(t) ==
  IF ValidTimestamp(t) THEN Quantity(t.second, t.nano_second) ELSE Undefined

LengthOf(d) ==
  IF ValidInterval(d) THEN Quantity(d.seconds, d.nano_seconds) ELSE Undefined

DistanceOf(o) ==
  IF ~ValidInterval(o.duration) THEN Undefined
  ELSE IF o.is_forward THEN LengthOf(o.duration) ELSE -LengthOf(o.duration)

Instants == Quantity(LONG_MIN, 0) .. Quantity(LONG_MAX, MAX_NANOSECONDS)
Lengths  == 0 .. Quantity(ULONG_MAX, MAX_NANOSECONDS)

instantMap == [t \in TS |-> InstantOf(ts[t])]
lengthMap  == [i \in IV |-> LengthOf(iv[i])]
offsetMap  == [o \in OFF |-> DistanceOf(off[o])]

Exact == INSTANCE Timeline WITH
  Second   <- NANO,
  Times    <- LongInt,
  instant  <- instantMap,
  length   <- lengthMap,
  offset   <- offsetMap

(***************************************************************************)
(* Every call computes exactly, on machine words, what it would compute on *)
(* unbounded integers, and reports DT_OVERFLOW exactly when that result    *)
(* has no representation, leaving every variable as it was (the carry,     *)
(* borrow and overflow tests of dt.c:141-352).  What becomes of a negative *)
(* difference of intervals is left open: dt.h:160 promises a zero interval *)
(* and a test the DT_OVERFLOW that the code returns.                       *)
(***************************************************************************)
ImplementsTimeline == Exact!Spec

(***************************************************************************)
(* dt_offset_between followed by dt_apply_offset gives back the second     *)
(* timestamp, without overflow, however far apart the two timestamps are   *)
(* and although their distance needs not fit a long.                       *)
(***************************************************************************)
RoundTrip ==
  \A l, r \in TS :
    ValidTimestamp(ts[l]) /\ ValidTimestamp(ts[r]) =>
      ApplyOffset(ts[l], OffsetBetween(ts[l], ts[r])) = Ok(ts[r])

(***************************************************************************)
(* Whatever offset dt_apply_offset accepts, the opposite offset takes the  *)
(* result back to where it started: the forward and the backward branch    *)
(* agree on the carry.                                                     *)
(***************************************************************************)
Undo ==
  \A t \in TS, o \in OFF :
    ValidTimestamp(ts[t]) /\ ValidInterval(off[o].duration) =>
      LET moved == ApplyOffset(ts[t], off[o])
          back  == [off[o] EXCEPT !.is_forward = ~off[o].is_forward]
      IN  moved.status = "DT_OK" => ApplyOffset(moved.value, back) = Ok(ts[t])

=============================================================================
