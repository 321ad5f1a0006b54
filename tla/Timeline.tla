------------------------------ MODULE Timeline ------------------------------
(***************************************************************************)
(* What the arithmetic of dt.h promises, without words, carries or         *)
(* borrows: a timestamp is an instant, an exact number of units on a line; *)
(* an interval is a length; an offset is a signed distance.  A value whose *)
(* nano-second part is out of range is Undefined.  An operation on defined *)
(* values delivers the exact result when the result is on the line, and    *)
(* DT_OVERFLOW, changing nothing, exactly when it is not.  (Of a negative  *)
(* difference of intervals the documents disagree: see Subtract.)          *)
(*                                                                         *)
(* dt_mul_interval promises only which register it may change.             *)
(***************************************************************************)
EXTENDS Integers

CONSTANTS
  TS, IV, OFF, CMP, PX, NULL,
  Undefined,
  Second,               \* units in a second
  Instants, Lengths,    \* the representable instants and lengths
  Times,                \* time_t arguments
  Words                 \* unsigned long arguments

VARIABLES instant, length, offset, cmp, px, fn, status

data == <<instant, length, offset, cmp, px>>
vars == <<instant, length, offset, cmp, px, fn, status>>

Defined(file, p) == p # NULL /\ file[p] # Undefined

Quantity(seconds, units) == seconds * Second + units

Sign(x) == IF x > 0 THEN 1 ELSE IF x < 0 THEN -1 ELSE 0

Refuse(s) == status' = s /\ UNCHANGED data

(* Deliver the exact value x in register r, or report that it is off line. *)
Deliver(file, new, r, x, line) ==
  IF x \in line THEN new = [file EXCEPT ![r] = x] /\ status' = "DT_OK"
  ELSE new = file /\ status' = "DT_OVERFLOW"

Now(r) ==
  \/ r = NULL /\ Refuse("DT_INVALID_ARGUMENT")
  \/ r # NULL /\ Refuse("DT_SYSTEM_CALL_ERROR")
  \/ /\ r # NULL
     /\ instant'[r] \in Instants
     /\ instant' = [instant EXCEPT ![r] = instant'[r]]
     /\ status' = "DT_OK"
     /\ UNCHANGED <<length, offset, cmp, px>>

FromPosix(time, nano, r) ==
  IF time < 0 \/ r = NULL
  THEN Refuse("DT_INVALID_ARGUMENT")
  ELSE /\ instant' = [instant EXCEPT ![r] =
                        IF nano < Second THEN Quantity(time, nano) ELSE Undefined]
       /\ status' = "DT_OK"
       /\ UNCHANGED <<length, offset, cmp, px>>

ToPosix(t, p, n) ==
  IF ~Defined(instant, t) \/ p = NULL
  THEN Refuse("DT_INVALID_ARGUMENT")
  ELSE /\ Quantity(px'[p].time, 0) <= instant[t]
       /\ instant[t] < Quantity(px'[p].time + 1, 0)
       /\ IF n = NULL
          THEN px' = [px EXCEPT ![p].time = px'[p].time] /\ status' = "SIGSEGV"
          ELSE /\ Quantity(px'[p].time, px'[n].nano_second) = instant[t]
               /\ px' = [px EXCEPT ![p].time = px'[p].time,
                                   ![n].nano_second = px'[n].nano_second]
               /\ status' = "DT_OK"
       /\ UNCHANGED <<instant, length, offset, cmp>>

Compare(file, l, r, c) ==
  IF ~Defined(file, l) \/ ~Defined(file, r) \/ c = NULL
  THEN Refuse("DT_INVALID_ARGUMENT")
  ELSE /\ cmp' = [cmp EXCEPT ![c] = Sign(file[l] - file[r])]
       /\ status' = "DT_OK"
       /\ UNCHANGED <<instant, length, offset, px>>

Between(l, r, o) ==
  IF ~Defined(instant, l) \/ ~Defined(instant, r) \/ o = NULL
  THEN Refuse("DT_INVALID_ARGUMENT")
  ELSE /\ offset' = [offset EXCEPT ![o] = instant[r] - instant[l]]
       /\ status' = "DT_OK"
       /\ UNCHANGED <<instant, length, cmp, px>>

Apply(l, o, r) ==
  IF ~Defined(instant, l) \/ ~Defined(offset, o) \/ r = NULL
  THEN Refuse("DT_INVALID_ARGUMENT")
  ELSE /\ Deliver(instant, instant', r, instant[l] + offset[o], Instants)
       /\ UNCHANGED <<length, offset, cmp, px>>

InitInterval(seconds, nanos, r) ==
  IF r = NULL
  THEN Refuse("DT_INVALID_ARGUMENT")
  ELSE /\ Deliver(length, length', r, Quantity(seconds, nanos), Lengths)
       /\ UNCHANGED <<instant, offset, cmp, px>>

Sum(l, r, d) ==
  IF ~Defined(length, l) \/ ~Defined(length, r) \/ d = NULL
  THEN Refuse("DT_INVALID_ARGUMENT")
  ELSE /\ Deliver(length, length', d, length[l] + length[r], Lengths)
       /\ UNCHANGED <<instant, offset, cmp, px>>

(* Where the greater is subtracted from the lesser dt.h:160 promises a zero *)
(* interval, and a test (dt_case.cpp:588) DT_OVERFLOW: either will do.     *)
Subtract(l, r, d) ==
  IF ~Defined(length, l) \/ ~Defined(length, r) \/ d = NULL
  THEN Refuse("DT_INVALID_ARGUMENT")
  ELSE /\ \/ Deliver(length, length', d, length[l] - length[r], Lengths)
          \/ /\ length[l] < length[r]
             /\ length' = [length EXCEPT ![d] = 0] /\ status' = "DT_OK"
       /\ UNCHANGED <<instant, offset, cmp, px>>

Multiply(l, d) ==
  IF ~Defined(length, l) \/ d = NULL
  THEN Refuse("DT_INVALID_ARGUMENT")
  ELSE /\ length' = [length EXCEPT ![d] = length'[d]]
       /\ status' \in {"DT_OK", "DT_OVERFLOW"}
       /\ UNCHANGED <<instant, offset, cmp, px>>

(* The client overwrites an offset of its own.                             *)
Fill(o) ==
  /\ offset' = [offset EXCEPT ![o] = offset'[o]]
  /\ UNCHANGED <<instant, length, cmp, px, status>>

Ptr(file) == file \cup {NULL}

Init ==
  /\ instant = [t \in TS |-> 0]
  /\ length = [i \in IV |-> 0]
  /\ offset = [o \in OFF |-> 0]
  /\ cmp = [c \in CMP |-> 0]
  /\ px = [p \in PX |-> [time |-> 0, nano_second |-> 0]]
  /\ fn = "client"
  /\ status = "DT_OK"

Next ==
  \/ fn' = "dt_now" /\ \E r \in Ptr(TS) : Now(r)
  \/ /\ fn' = "dt_posix_time_to_timestamp"
     /\ \E time \in Times, nano \in Words, r \in Ptr(TS) : FromPosix(time, nano, r)
  \/ /\ fn' = "dt_timestamp_to_posix_time"
     /\ \E t \in Ptr(TS), p, n \in Ptr(PX) : ToPosix(t, p, n)
  \/ /\ fn' = "dt_compare_timestamps"
     /\ \E l, r \in Ptr(TS), c \in Ptr(CMP) : Compare(instant, l, r, c)
  \/ /\ fn' = "dt_offset_between"
     /\ \E l, r \in Ptr(TS), o \in Ptr(OFF) : Between(l, r, o)
  \/ /\ fn' = "dt_apply_offset"
     /\ \E l, r \in Ptr(TS), o \in Ptr(OFF) : Apply(l, o, r)
  \/ /\ fn' = "dt_init_interval"
     /\ \E s, n \in Words, r \in Ptr(IV) : InitInterval(s, n, r)
  \/ /\ fn' = "dt_compare_intervals"
     /\ \E l, r \in Ptr(IV), c \in Ptr(CMP) : Compare(length, l, r, c)
  \/ fn' = "dt_sum_intervals" /\ \E l, r, d \in Ptr(IV) : Sum(l, r, d)
  \/ fn' = "dt_sub_intervals" /\ \E l, r, d \in Ptr(IV) : Subtract(l, r, d)
  \/ fn' = "dt_mul_interval" /\ \E l, d \in Ptr(IV) : Multiply(l, d)
  \/ fn' = "client" /\ \E o \in OFF : Fill(o)

Spec == Init /\ [][Next]_vars
=============================================================================
