------------------------------ MODULE DtArith ------------------------------
(***************************************************************************)
(* The timestamp, offset and interval arithmetic of src/src/dt.c (and the  *)
(* two clock functions of src/src/unix/dt_unix.c), driven by a client that *)
(* makes any sequence of calls on a small file of variables of its own.    *)
(*                                                                         *)
(* A call takes pointers: names of registers, or NULL.  Several arguments  *)
(* may name the same register (result aliasing an operand).  The first     *)
(* half of the module states what each function computes from the values   *)
(* it reads; the second half has one action per function of the API.       *)
(***************************************************************************)
EXTENDS DtWords

CONSTANTS
  TS,             \* the client's dt_timestamp_t variables
  IV,             \* the client's dt_interval_t variables
  OFF,            \* the client's dt_offset_t variables
  CMP,            \* the client's dt_compare_result_t variables
  PX,             \* the client's time_t / nano-second variables
  NULL,           \* the null pointer
  Words,          \* unsigned long arguments the client passes by value
  OffsetInputs,   \* dt_offset_t values the client fills in field by field
  ClockReadings,  \* what clock_gettime may return
  Multipliers,    \* double arguments [num, den]; not finite when den = 0
  NanoPointers    \* pointers passed for an optional nano-second result

ASSUME ArgumentAssumption ==
  /\ NULL \notin TS \cup IV \cup OFF \cup CMP \cup PX
  /\ Words \subseteq ULongInt
  /\ OffsetInputs \subseteq dt_offset_t
  /\ ClockReadings \subseteq [second : LongInt, nano_second : NanoPart]
  /\ Multipliers \subseteq [num : Int, den : Nat]
  /\ NanoPointers \subseteq PX \cup {NULL}

VARIABLES
  ts,      \* TS  -> dt_timestamp_t
  iv,      \* IV  -> dt_interval_t
  off,     \* OFF -> dt_offset_t
  cmp,     \* CMP -> dt_compare_result_t
  px,      \* PX  -> [time, nano_second]
  fn,      \* the function called last ("client" for the client's own code)
  status   \* the dt_status_t of the last call, or "SIGSEGV"

data == <<ts, iv, off, cmp, px>>
vars == <<ts, iv, off, cmp, px, fn, status>>

Functions == {"client", "dt_now", "dt_posix_time_to_timestamp",
              "dt_timestamp_to_posix_time", "dt_compare_timestamps",
              "dt_offset_between", "dt_apply_offset", "dt_init_interval",
              "dt_compare_intervals", "dt_sum_intervals", "dt_sub_intervals",
              "dt_mul_interval"}

Status == {"DT_OK", "DT_INVALID_ARGUMENT", "DT_SYSTEM_CALL_ERROR",
           "DT_OVERFLOW", "SIGSEGV"}

-----------------------------------------------------------------------------
(* Values.                                                                 *)

ValidTimestamp(t) == t.nano_second <= MAX_NANOSECONDS
ValidInterval(d)  == d.nano_seconds <= MAX_NANOSECONDS

Ok(v)    == [status |-> "DT_OK", value |-> v]
Overflow == [status |-> "DT_OVERFLOW"]

(* dt_compare_timestamps and dt_compare_intervals: seconds first.          *)
Lexicographic(ls, ln, rs, rn) ==
  IF ls > rs THEN 1 ELSE IF ls < rs THEN -1
  ELSE IF ln > rn THEN 1 ELSE IF ln < rn THEN -1 ELSE 0

(* A slip: nano-seconds forgotten.                                         *)
CompareTimestamps_Seconds(l, r) == Lexicographic(l.second, 0, r.second, 0)

CompareTimestamps(l, r) ==
  Lexicographic(l.second, l.nano_second, r.second, r.nano_second)

CompareIntervals(l, r) ==
  Lexicographic(l.seconds, l.nano_seconds, r.seconds, r.nano_seconds)

(* A slip: the second borrowed is not taken from the seconds.              *)
OffsetBetween_NoBorrow(l, r) ==
  LET cr      == CompareTimestamps(l, r)
      lower   == IF cr < 0 THEN l ELSE r
      higher  == IF cr < 0 THEN r ELSE l
      nanos   == higher.nano_second - lower.nano_second
  IN  [duration   |-> [seconds      |-> ULong(higher.second - lower.second),
                       nano_seconds |-> IF nanos < 0 THEN nanos + NANO ELSE nanos],
       is_forward |-> cr <= 0]

(***************************************************************************)
(* The subtraction of the two seconds is done on longs and may exceed      *)
(* LONG_MAX: the build emits the wrapping instruction, whose result read   *)
(* as unsigned long is the exact difference again.                         *)
(***************************************************************************)
OffsetBetween(l, r) ==
  LET cr      == CompareTimestamps(l, r)
      lower   == IF cr < 0 THEN l ELSE r
      higher  == IF cr < 0 THEN r ELSE l
      seconds == ULong(higher.second - lower.second)
      nanos   == higher.nano_second - lower.nano_second
      borrow  == nanos < 0
  IN  [duration   |-> [seconds      |-> IF borrow THEN ULong(seconds - 1) ELSE seconds,
                       nano_seconds |-> IF borrow THEN nanos + NANO ELSE nanos],
       is_forward |-> cr <= 0]

(* A slip: the second carried stays in the nano-seconds as well.           *)
dt_apply_interval_forward_NoModulo(lhs, duration) ==
  LET nano_seconds == ULong(lhs.nano_second + duration.nano_seconds)
      full         == ULong(duration.seconds + nano_seconds \div NANO)
  IN  IF full > ULong(LONG_MAX - lhs.second)
      THEN Overflow
      ELSE Ok([second |-> Long(ULong(full + lhs.second)), nano_second |-> nano_seconds])

dt_apply_interval_forward(lhs, duration) ==
  LET nano_seconds == ULong(lhs.nano_second + duration.nano_seconds)
      carry        == nano_seconds \div NANO
      full         == ULong(duration.seconds + carry)
  IN  IF \/ is_unsigned_long_sum_overflows(duration.seconds, carry)
         \/ full > ULong(LONG_MAX - lhs.second)
      THEN Overflow
      ELSE Ok([second      |-> Long(ULong(full + lhs.second)),
               nano_second |-> nano_seconds % NANO])

(* A slip: the room for the second borrowed is not checked.                *)
dt_apply_interval_backward_NoRoom(lhs, duration) ==
  LET room   == ULong((LONG_MAX + 1) + lhs.second)
      borrow == lhs.nano_second < duration.nano_seconds
  IN  IF duration.seconds > room
      THEN Overflow
      ELSE Ok([second      |-> Long(ULong(ULong(lhs.second - duration.seconds)
                                            - (IF borrow THEN 1 ELSE 0))),
               nano_second |-> lhs.nano_second - duration.nano_seconds
                                 + (IF borrow THEN NANO ELSE 0)])

dt_apply_interval_backward(lhs, duration) ==
  LET room == ULong((LONG_MAX + 1) + lhs.second)  \* (unsigned long)(-min) + lhs->second
  IN  IF lhs.nano_second >= duration.nano_seconds
      THEN IF duration.seconds > room
           THEN Overflow
           ELSE Ok([second      |-> Long(ULong(lhs.second - duration.seconds)),
                    nano_second |-> lhs.nano_second - duration.nano_seconds])
      ELSE IF lhs.second = LONG_MIN \/ duration.seconds > ULong(room - 1)
           THEN Overflow
           ELSE Ok([second      |-> Long(ULong(ULong(lhs.second - duration.seconds) - 1)),
                    nano_second |-> NANO - (duration.nano_seconds - lhs.nano_second)])

ApplyOffset(lhs, rhs) ==
  IF rhs.is_forward
  THEN dt_apply_interval_forward(lhs, rhs.duration)
  ELSE dt_apply_interval_backward(lhs, rhs.duration)

InitInterval(seconds, nano_seconds) ==
  LET seconds_delta == nano_seconds \div NANO
  IN  IF is_unsigned_long_sum_overflows(seconds, seconds_delta)
      THEN Overflow
      ELSE Ok([seconds |-> seconds + seconds_delta, nano_seconds |-> nano_seconds % NANO])

SumIntervals(lhs, rhs) ==
  LET nanos == lhs.nano_seconds + rhs.nano_seconds
      carry == nanos \div NANO
      full  == ULong(rhs.seconds + carry)
  IN  IF \/ is_unsigned_long_sum_overflows(rhs.seconds, carry)
         \/ is_unsigned_long_sum_overflows(lhs.seconds, full)
      THEN Overflow
      ELSE Ok([seconds |-> ULong(lhs.seconds + full), nano_seconds |-> nanos % NANO])

(* A slip: the second borrowed is not taken from the seconds.              *)
SubIntervals_NoBorrow(lhs, rhs) ==
  IF CompareIntervals(lhs, rhs) = -1
  THEN Overflow
  ELSE Ok([seconds      |-> ULong(lhs.seconds - rhs.seconds),
           nano_seconds |-> (NANO + lhs.nano_seconds - rhs.nano_seconds) % NANO])

SubIntervals(lhs, rhs) ==
  LET borrow == lhs.nano_seconds < rhs.nano_seconds
  IN  IF CompareIntervals(lhs, rhs) = -1
      THEN Overflow
      ELSE Ok([seconds      |-> ULong(ULong(lhs.seconds - rhs.seconds) - (IF borrow THEN 1 ELSE 0)),
               nano_seconds |-> IF borrow THEN (NANO + lhs.nano_seconds) - rhs.nano_seconds
                                ELSE lhs.nano_seconds - rhs.nano_seconds])

(***************************************************************************)
(* dt_mul_interval computes on doubles; here they are exact fractions.     *)
(* Product(d, m) is the product in units of 1/m.den nano-second.  Casting  *)
(* a double outside unsigned long is undefined: the builds produce 0, the  *)
(* largest value, or the low bits.  fmod has the sign of its operand.      *)
(***************************************************************************)
Product(d, m) == (d.seconds * NANO + d.nano_seconds) * m.num

FloorSeconds(p, m) == p \div (m.den * NANO)


FractionNanos(p, m) ==
  IF p >= 0 THEN (p % (m.den * NANO)) \div m.den
  ELSE (-((-p) % (m.den * NANO))) \div m.den

CastToULong(x) ==
  IF x \in ULongInt THEN {x} ELSE {0, ULONG_MAX, x % TwoToTheWord}

-----------------------------------------------------------------------------
(* Calls.                                                                  *)

dt_validate_timestamp(p) == p # NULL /\ ValidTimestamp(ts[p])
dt_validate_interval(p)  == p # NULL /\ ValidInterval(iv[p])
dt_validate_offset(p)    == p # NULL /\ ValidInterval(off[p].duration)

Alive == status # "SIGSEGV"

Return(f, s) == fn' = f /\ status' = s

Refuse(f, s) == Return(f, s) /\ UNCHANGED data

(* A call that has passed its checks stores its outcome in register r.     *)
Store(file, r, outcome) ==
  IF outcome.status = "DT_OK" THEN [file EXCEPT ![r] = outcome.value] ELSE file

dt_now(result) ==
  \/ result = NULL /\ Refuse("dt_now", "DT_INVALID_ARGUMENT")
  \/ result # NULL /\ Refuse("dt_now", "DT_SYSTEM_CALL_ERROR")
  \/ /\ result # NULL
     /\ \E t \in ClockReadings : ts' = [ts EXCEPT ![result] = t]
     /\ Return("dt_now", "DT_OK")
     /\ UNCHANGED <<iv, off, cmp, px>>

(* A slip: a negative time is let through.                                 *)
dt_posix_time_to_timestamp_Signed(time, nano_second, result) ==
  \/ /\ result = NULL
     /\ Refuse("dt_posix_time_to_timestamp", "DT_INVALID_ARGUMENT")
  \/ /\ result # NULL
     /\ ts' = [ts EXCEPT ![result] = [second |-> time, nano_second |-> nano_second]]
     /\ Return("dt_posix_time_to_timestamp", "DT_OK")
     /\ UNCHANGED <<iv, off, cmp, px>>

dt_posix_time_to_timestamp(time, nano_second, result) ==
  \/ /\ time < 0 \/ result = NULL
     /\ Refuse("dt_posix_time_to_timestamp", "DT_INVALID_ARGUMENT")
  \/ /\ time >= 0 /\ result # NULL
     /\ ts' = [ts EXCEPT ![result] = [second |-> time, nano_second |-> nano_second]]
     /\ Return("dt_posix_time_to_timestamp", "DT_OK")
     /\ UNCHANGED <<iv, off, cmp, px>>

(* *nano_second is written without a check: a NULL one kills the process.  *)
dt_timestamp_to_posix_time(timestamp, time, nano_second) ==
  \/ /\ ~dt_validate_timestamp(timestamp) \/ time = NULL
     /\ Refuse("dt_timestamp_to_posix_time", "DT_INVALID_ARGUMENT")
  \/ /\ dt_validate_timestamp(timestamp) /\ time # NULL
     /\ LET timeSet == [px EXCEPT ![time].time = ts[timestamp].second]
        IN IF nano_second = NULL
           THEN px' = timeSet /\ Return("dt_timestamp_to_posix_time", "SIGSEGV")
           ELSE /\ px' = [timeSet EXCEPT ![nano_second].nano_second = ts[timestamp].nano_second]
                /\ Return("dt_timestamp_to_posix_time", "DT_OK")
     /\ UNCHANGED <<ts, iv, off, cmp>>

dt_compare_timestamps(lhs, rhs, result) ==
  \/ /\ ~dt_validate_timestamp(lhs) \/ ~dt_validate_timestamp(rhs) \/ result = NULL
     /\ Refuse("dt_compare_timestamps", "DT_INVALID_ARGUMENT")
  \/ /\ dt_validate_timestamp(lhs) /\ dt_validate_timestamp(rhs) /\ result # NULL
     /\ cmp' = [cmp EXCEPT ![result] = CompareTimestamps(ts[lhs], ts[rhs])]
     /\ Return("dt_compare_timestamps", "DT_OK")
     /\ UNCHANGED <<ts, iv, off, px>>

dt_offset_between(lhs, rhs, result) ==
  \/ /\ ~dt_validate_timestamp(lhs) \/ ~dt_validate_timestamp(rhs) \/ result = NULL
     /\ Refuse("dt_offset_between", "DT_INVALID_ARGUMENT")
  \/ /\ dt_validate_timestamp(lhs) /\ dt_validate_timestamp(rhs) /\ result # NULL
     /\ off' = [off EXCEPT ![result] = OffsetBetween(ts[lhs], ts[rhs])]
     /\ Return("dt_offset_between", "DT_OK")
     /\ UNCHANGED <<ts, iv, cmp, px>>

dt_apply_offset(lhs, rhs, result) ==
  \/ /\ ~dt_validate_timestamp(lhs) \/ ~dt_validate_offset(rhs) \/ result = NULL
     /\ Refuse("dt_apply_offset", "DT_INVALID_ARGUMENT")
  \/ /\ dt_validate_timestamp(lhs) /\ dt_validate_offset(rhs) /\ result # NULL
     /\ LET outcome == ApplyOffset(ts[lhs], off[rhs])
        IN  Return("dt_apply_offset", outcome.status) /\ ts' = Store(ts, result, outcome)
     /\ UNCHANGED <<iv, off, cmp, px>>

dt_init_interval(seconds, nano_seconds, result) ==
  \/ result = NULL /\ Refuse("dt_init_interval", "DT_INVALID_ARGUMENT")
  \/ /\ result # NULL
     /\ LET outcome == InitInterval(seconds, nano_seconds)
        IN  Return("dt_init_interval", outcome.status) /\ iv' = Store(iv, result, outcome)
     /\ UNCHANGED <<ts, off, cmp, px>>

dt_compare_intervals(lhs, rhs, result) ==
  \/ /\ ~dt_validate_interval(lhs) \/ ~dt_validate_interval(rhs) \/ result = NULL
     /\ Refuse("dt_compare_intervals", "DT_INVALID_ARGUMENT")
  \/ /\ dt_validate_interval(lhs) /\ dt_validate_interval(rhs) /\ result # NULL
     /\ cmp' = [cmp EXCEPT ![result] = CompareIntervals(iv[lhs], iv[rhs])]
     /\ Return("dt_compare_intervals", "DT_OK")
     /\ UNCHANGED <<ts, iv, off, px>>

dt_sum_intervals(lhs, rhs, result) ==
  \/ /\ ~dt_validate_interval(lhs) \/ ~dt_validate_interval(rhs) \/ result = NULL
     /\ Refuse("dt_sum_intervals", "DT_INVALID_ARGUMENT")
  \/ /\ dt_validate_interval(lhs) /\ dt_validate_interval(rhs) /\ result # NULL
     /\ LET outcome == SumIntervals(iv[lhs], iv[rhs])
        IN  Return("dt_sum_intervals", outcome.status) /\ iv' = Store(iv, result, outcome)
     /\ UNCHANGED <<ts, off, cmp, px>>

dt_sub_intervals(lhs, rhs, result) ==
  \/ /\ ~dt_validate_interval(lhs) \/ ~dt_validate_interval(rhs) \/ result = NULL
     /\ Refuse("dt_sub_intervals", "DT_INVALID_ARGUMENT")
  \/ /\ dt_validate_interval(lhs) /\ dt_validate_interval(rhs) /\ result # NULL
     /\ LET outcome == SubIntervals(iv[lhs], iv[rhs])
        IN  Return("dt_sub_intervals", outcome.status) /\ iv' = Store(iv, result, outcome)
     /\ UNCHANGED <<ts, off, cmp, px>>

(* result->seconds is stored before the function decides on DT_OVERFLOW.   *)
dt_mul_interval(lhs, rhs, result) ==
  \/ /\ ~dt_validate_interval(lhs) \/ result = NULL
     /\ Refuse("dt_mul_interval", "DT_INVALID_ARGUMENT")
  \/ /\ dt_validate_interval(lhs) /\ result # NULL
     /\ rhs.den = 0
     /\ Refuse("dt_mul_interval", "DT_OVERFLOW")
  \/ /\ dt_validate_interval(lhs) /\ result # NULL
     /\ rhs.den # 0
     /\ LET p == Product(iv[lhs], rhs)
        IN \E s \in CastToULong(FloorSeconds(p, rhs)) :
             IF s = 0 /\ p # 0
             THEN /\ iv' = [iv EXCEPT ![result].seconds = s]
                  /\ Return("dt_mul_interval", "DT_OVERFLOW")
             ELSE /\ \E n \in CastToULong(FractionNanos(p, rhs)) :
                       iv' = [iv EXCEPT ![result] = [seconds |-> s, nano_seconds |-> n]]
                  /\ Return("dt_mul_interval", "DT_OK")
     /\ UNCHANGED <<ts, off, cmp, px>>

(* The client fills in an offset: the fields of dt_offset_t are public.    *)
FillOffset(o, value) ==
  /\ off' = [off EXCEPT ![o] = value]
  /\ Return("client", status)
  /\ UNCHANGED <<ts, iv, cmp, px>>

-----------------------------------------------------------------------------
Ptr(file) == file \cup {NULL}

Init ==
  /\ ts = [t \in TS |-> [second |-> 0, nano_second |-> 0]]
  /\ iv = [i \in IV |-> [seconds |-> 0, nano_seconds |-> 0]]
  /\ off = [o \in OFF |-> [duration   |-> [seconds |-> 0, nano_seconds |-> 0],
                           is_forward |-> FALSE]]
  /\ cmp = [c \in CMP |-> 0]
  /\ px = [p \in PX |-> [time |-> 0, nano_second |-> 0]]
  /\ fn = "client"
  /\ status = "DT_OK"

TimestampCall ==
  \/ \E r \in Ptr(TS) : dt_now(r)
  \/ \E time \in LongInt, nano \in Words, r \in Ptr(TS) :
       dt_posix_time_to_timestamp(time, nano, r)
  \/ \E t \in Ptr(TS), p \in Ptr(PX), n \in NanoPointers :
       dt_timestamp_to_posix_time(t, p, n)
  \/ \E l, r \in Ptr(TS), c \in Ptr(CMP) : dt_compare_timestamps(l, r, c)
  \/ \E l, r \in Ptr(TS), o \in Ptr(OFF) : dt_offset_between(l, r, o)
  \/ \E l \in Ptr(TS), o \in Ptr(OFF), r \in Ptr(TS) : dt_apply_offset(l, o, r)

IntervalCall ==
  \/ \E s, n \in Words, r \in Ptr(IV) : dt_init_interval(s, n, r)
  \/ \E l, r \in Ptr(IV), c \in Ptr(CMP) : dt_compare_intervals(l, r, c)
  \/ \E l, r, d \in Ptr(IV) : dt_sum_intervals(l, r, d)
  \/ \E l, r, d \in Ptr(IV) : dt_sub_intervals(l, r, d)
  \/ \E l, d \in Ptr(IV), m \in Multipliers : dt_mul_interval(l, m, d)

ClientStep == \E o \in OFF, v \in OffsetInputs : FillOffset(o, v)

Next == Alive /\ (TimestampCall \/ IntervalCall \/ ClientStep)

Spec == Init /\ [][Next]_vars

-----------------------------------------------------------------------------
(***************************************************************************)
(* Every variable of the client keeps the type the headers declare: the    *)
(* arithmetic never leaves the words, although it wraps (dt_types.h:72-87).*)
(***************************************************************************)
TypeOK ==
  /\ ts \in [TS -> dt_timestamp_t]
  /\ iv \in [IV -> dt_interval_t]
  /\ off \in [OFF -> dt_offset_t]
  /\ cmp \in [CMP -> -1 .. 1]
  /\ px \in [PX -> [time : LongInt, nano_second : ULongInt]]
  /\ fn \in Functions
  /\ status \in Status
=============================================================================
