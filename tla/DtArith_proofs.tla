--------------------------- MODULE DtArith_proofs ---------------------------
(***************************************************************************)
(* Proofs about DtArith for every word size, every number of nano-seconds  *)
(* per second and every set of client variables.                           *)
(***************************************************************************)
EXTENDS DtArithTimeline, TLAPS

(***************************************************************************)
(* A sum of two nano-second parts carries at most one second.              *)
(***************************************************************************)
LEMMA CarryLemma ==
  ASSUME NEW n \in Nat, n < 2 * NANO
  PROVE  /\ n \div NANO = IF n >= NANO THEN 1 ELSE 0
         /\ n % NANO = IF n >= NANO THEN n - NANO ELSE n
BY WordAssumption

(***************************************************************************)
(* Lexicographic order of (seconds, nano-seconds) is the order of exact    *)
(* quantities.                                                             *)
(***************************************************************************)
LEMMA QuantityOrder ==
  ASSUME NEW a \in Int, NEW b \in Int, NEW x \in NanoPart, NEW y \in NanoPart
  PROVE  /\ Quantity(a, x) \in Int
         /\ (Quantity(a, x) < Quantity(b, y)) <=> (a < b \/ (a = b /\ x < y))
         /\ (Quantity(a, x) = Quantity(b, y)) <=> (a = b /\ x = y)
<1>1. NANO \in Nat /\ NANO > 0 /\ x \in 0 .. NANO - 1 /\ y \in 0 .. NANO - 1
  BY WordAssumption DEF NanoPart, MAX_NANOSECONDS
<1>2. (a * NANO + x < b * NANO + y) <=> (a < b \/ (a = b /\ x < y))
  BY <1>1
<1>3. (b * NANO + y < a * NANO + x) <=> (b < a \/ (b = a /\ y < x))
  BY <1>1
<1> QED
  BY <1>1, <1>2, <1>3 DEF Quantity

(***************************************************************************)
(* The exact number of nano-seconds of integers is an integer.             *)
(***************************************************************************)
LEMMA QuantityInt ==
  ASSUME NEW a \in Int, NEW x \in Int
  PROVE  Quantity(a, x) \in Int
BY WordAssumption DEF Quantity

(***************************************************************************)
(* Quantities are additive.                                                *)
(***************************************************************************)
LEMMA QuantityAdd ==
  ASSUME NEW a \in Int, NEW b \in Int, NEW x \in Int, NEW y \in Int
  PROVE  /\ Quantity(a, x) + Quantity(b, y) = Quantity(a + b, x + y)
         /\ Quantity(a, x) - Quantity(b, y) = Quantity(a - b, x - y)
         /\ Quantity(a - 1, x + NANO) = Quantity(a, x)
         /\ Quantity(a + 1, x - NANO) = Quantity(a, x)
BY WordAssumption DEF Quantity

(***************************************************************************)
(* Two valid timestamps at the same instant are the same timestamp.        *)
(***************************************************************************)
LEMMA InstantInjective ==
  ASSUME NEW t \in dt_timestamp_t, NEW u \in dt_timestamp_t,
         ValidTimestamp(t), ValidTimestamp(u), InstantOf(t) = InstantOf(u)
  PROVE  t = u
<1>1. /\ t.second \in Int /\ u.second \in Int
      /\ t.nano_second \in NanoPart /\ u.nano_second \in NanoPart
  BY WordAssumption DEF dt_timestamp_t, ValidTimestamp, NanoPart, MAX_NANOSECONDS,
     LongInt, ULongInt, LONG_MIN, ULONG_MAX
<1>2. Quantity(t.second, t.nano_second) = Quantity(u.second, u.nano_second)
  BY DEF InstantOf
<1>3. t.second = u.second /\ t.nano_second = u.nano_second
  BY <1>1, <1>2, QuantityOrder
<1> QED
  BY <1>3 DEF dt_timestamp_t

(***************************************************************************)
(* dt_compare_timestamps decides the order of the instants.                *)
(***************************************************************************)
LEMMA CompareTimestampsExact ==
  ASSUME NEW l \in dt_timestamp_t, NEW r \in dt_timestamp_t
  PROVE  \/ /\ CompareTimestamps(l, r) = -1
            /\ l.second < r.second \/ (l.second = r.second /\ l.nano_second < r.nano_second)
         \/ /\ CompareTimestamps(l, r) = 0
            /\ l.second = r.second /\ l.nano_second = r.nano_second
         \/ /\ CompareTimestamps(l, r) = 1
            /\ r.second < l.second \/ (l.second = r.second /\ r.nano_second < l.nano_second)
BY WordAssumption DEF CompareTimestamps, Lexicographic, dt_timestamp_t, LongInt, ULongInt,
   LONG_MIN, ULONG_MAX

(***************************************************************************)
(* The distance stored for a lower and a higher timestamp, with the borrow *)
(* of one second when the nano-seconds run the other way.                  *)
(***************************************************************************)
LEMMA BorrowExact ==
  ASSUME NEW s1 \in LongInt, NEW n1 \in NanoPart, NEW s2 \in LongInt, NEW n2 \in NanoPart,
         s1 < s2 \/ (s1 = s2 /\ n1 <= n2),
         NEW secs, NEW nanos,
         secs = (IF n2 - n1 < 0 THEN ULong(ULong(s2 - s1) - 1) ELSE ULong(s2 - s1)),
         nanos = (IF n2 - n1 < 0 THEN (n2 - n1) + NANO ELSE n2 - n1)
  PROVE  /\ secs \in ULongInt /\ nanos \in NanoPart
         /\ Quantity(secs, nanos) = Quantity(s2, n2) - Quantity(s1, n1)
<1> USE WordAssumption DEF LongInt, ULongInt, LONG_MIN, ULONG_MAX, TwoToTheWord,
      NanoPart, MAX_NANOSECONDS
<1>1. ULong(s2 - s1) = s2 - s1
  BY DEF ULong
<1>2. CASE n2 - n1 < 0
  <2>1. ULong((s2 - s1) - 1) = (s2 - s1) - 1
    BY <1>2 DEF ULong
  <2>2. secs = (s2 - s1) - 1 /\ nanos = (n2 - n1) + NANO
    BY <1>1, <1>2, <2>1
  <2>3. Quantity((s2 - s1) - 1, (n2 - n1) + NANO) = Quantity(s2 - s1, n2 - n1)
    BY QuantityAdd
  <2>4. Quantity(s2 - s1, n2 - n1) = Quantity(s2, n2) - Quantity(s1, n1)
    BY QuantityAdd
  <2> QED
    BY <1>2, <2>2, <2>3, <2>4
<1>3. CASE ~(n2 - n1 < 0)
  <2>1. secs = s2 - s1 /\ nanos = n2 - n1
    BY <1>1, <1>3
  <2>2. Quantity(s2 - s1, n2 - n1) = Quantity(s2, n2) - Quantity(s1, n1)
    BY QuantityAdd
  <2> QED
    BY <1>3, <2>1, <2>2
<1> QED
  BY <1>2, <1>3

(***************************************************************************)
(* dt_offset_between: the offset is well-formed and is the exact distance. *)
(***************************************************************************)
LEMMA OffsetBetweenExact ==
  ASSUME NEW l \in dt_timestamp_t, NEW r \in dt_timestamp_t,
         ValidTimestamp(l), ValidTimestamp(r)
  PROVE  /\ OffsetBetween(l, r) \in dt_offset_t
         /\ ValidInterval(OffsetBetween(l, r).duration)
         /\ DistanceOf(OffsetBetween(l, r)) = InstantOf(r) - InstantOf(l)
<1> DEFINE o == OffsetBetween(l, r)
<1>1. /\ l.second \in LongInt /\ r.second \in LongInt
      /\ l.nano_second \in NanoPart /\ r.nano_second \in NanoPart
      /\ l.nano_second \in Int /\ r.nano_second \in Int
      /\ l.second \in Int /\ r.second \in Int
  BY WordAssumption DEF dt_timestamp_t, ValidTimestamp, MAX_NANOSECONDS, NanoPart,
     ULongInt, ULONG_MAX, LongInt, LONG_MIN
<1>2. \A d : d.seconds \in ULongInt /\ d.nano_seconds \in NanoPart =>
        /\ ValidInterval(d)
        /\ LengthOf(d) = Quantity(d.seconds, d.nano_seconds)
        /\ d.nano_seconds \in ULongInt
  BY WordAssumption DEF ValidInterval, LengthOf, NanoPart, MAX_NANOSECONDS, ULongInt, ULONG_MAX
<1>3. InstantOf(l) = Quantity(l.second, l.nano_second)
      /\ InstantOf(r) = Quantity(r.second, r.nano_second)
  BY DEF InstantOf
<1>4. /\ Quantity(l.second, l.nano_second) \in Int
      /\ Quantity(r.second, r.nano_second) \in Int
  BY <1>1, QuantityInt
<1>5. /\ o = [duration |-> [seconds |-> o.duration.seconds,
                            nano_seconds |-> o.duration.nano_seconds],
              is_forward |-> o.is_forward]
      /\ o.is_forward \in BOOLEAN
  BY DEF OffsetBetween
<1>a. o \in dt_offset_t <=> o.duration \in dt_interval_t
  BY <1>5 DEF dt_offset_t
<1>b. o.duration \in dt_interval_t <=> /\ o.duration.seconds \in ULongInt
                                       /\ o.duration.nano_seconds \in ULongInt
  BY <1>5 DEF dt_interval_t
<1>6. CASE CompareTimestamps(l, r) = -1
  <2>1. /\ o.duration.seconds = IF r.nano_second - l.nano_second < 0
                                THEN ULong(ULong(r.second - l.second) - 1)
                                ELSE ULong(r.second - l.second)
        /\ o.duration.nano_seconds = IF r.nano_second - l.nano_second < 0
                                     THEN (r.nano_second - l.nano_second) + NANO
                                     ELSE r.nano_second - l.nano_second
        /\ o.is_forward
    <3>1. CompareTimestamps(l, r) < 0 /\ CompareTimestamps(l, r) <= 0
      BY <1>6
    <3> QED
      BY <3>1 DEF OffsetBetween
  <2>2. l.second < r.second \/ (l.second = r.second /\ l.nano_second <= r.nano_second)
    BY <1>1, <1>6, CompareTimestampsExact
  <2>3. /\ o.duration.seconds \in ULongInt /\ o.duration.nano_seconds \in NanoPart
        /\ Quantity(o.duration.seconds, o.duration.nano_seconds)
             = Quantity(r.second, r.nano_second) - Quantity(l.second, l.nano_second)
    BY <1>1, <2>1, <2>2, BorrowExact
  <2>4. DistanceOf(o) = Quantity(o.duration.seconds, o.duration.nano_seconds)
    BY <1>2, <2>1, <2>3 DEF DistanceOf
  <2> QED
    BY <1>2, <1>3, <1>a, <1>b, <2>1, <2>3, <2>4
<1>7. CASE CompareTimestamps(l, r) # -1
  <2>0. CompareTimestamps(l, r) \in {0, 1}
    BY <1>7, CompareTimestampsExact
  <2>1. /\ o.duration.seconds = IF l.nano_second - r.nano_second < 0
                                THEN ULong(ULong(l.second - r.second) - 1)
                                ELSE ULong(l.second - r.second)
        /\ o.duration.nano_seconds = IF l.nano_second - r.nano_second < 0
                                     THEN (l.nano_second - r.nano_second) + NANO
                                     ELSE l.nano_second - r.nano_second
        /\ o.is_forward <=> (CompareTimestamps(l, r) = 0)
    <3>1. /\ ~(CompareTimestamps(l, r) < 0)
          /\ CompareTimestamps(l, r) <= 0 <=> CompareTimestamps(l, r) = 0
      BY <2>0
    <3> QED
      BY <3>1 DEF OffsetBetween
  <2>2. r.second < l.second \/ (l.second = r.second /\ r.nano_second <= l.nano_second)
    BY <1>1, <1>7, CompareTimestampsExact
  <2>3. /\ o.duration.seconds \in ULongInt /\ o.duration.nano_seconds \in NanoPart
        /\ Quantity(o.duration.seconds, o.duration.nano_seconds)
             = Quantity(l.second, l.nano_second) - Quantity(r.second, r.nano_second)
    BY <1>1, <2>1, <2>2, BorrowExact
  <2>4. LengthOf(o.duration) = InstantOf(l) - InstantOf(r) /\ ValidInterval(o.duration)
    BY <1>2, <1>3, <2>3
  <2>5. CASE CompareTimestamps(l, r) = 0
    <3>1. InstantOf(l) = InstantOf(r)
      BY <1>3, <2>5, CompareTimestampsExact
    <3>2. DistanceOf(o) = 0
      BY <1>3, <1>4, <2>1, <2>4, <2>5, <3>1 DEF DistanceOf
    <3> QED
      BY <1>2, <1>3, <1>4, <1>a, <1>b, <2>1, <2>3, <2>4, <3>1, <3>2
  <2>6. CASE CompareTimestamps(l, r) = 1
    <3>1. DistanceOf(o) = -(InstantOf(l) - InstantOf(r))
      BY <2>1, <2>4, <2>6 DEF DistanceOf
    <3> QED
      BY <1>2, <1>3, <1>4, <1>a, <1>b, <2>1, <2>3, <2>4, <3>1
  <2> QED
    BY <2>0, <2>5, <2>6
<1> QED
  BY <1>6, <1>7

-----------------------------------------------------------------------------
(***************************************************************************)
(* What a calculation must deliver for the exact instant or length x.      *)
(***************************************************************************)
ExactTimestamp(outcome, x) ==
  IF x \in Instants
  THEN /\ outcome = Ok(outcome.value)
       /\ outcome.value \in dt_timestamp_t
       /\ ValidTimestamp(outcome.value)
       /\ InstantOf(outcome.value) = x
  ELSE outcome = Overflow

ExactInterval(outcome, x) ==
  IF x \in Lengths
  THEN /\ outcome = Ok(outcome.value)
       /\ outcome.value \in dt_interval_t
       /\ ValidInterval(outcome.value)
       /\ LengthOf(outcome.value) = x
  ELSE outcome = Overflow

(***************************************************************************)
(* An exact instant is on the time line when its seconds fit a long, an    *)
(* exact length when its seconds fit an unsigned long.                     *)
(***************************************************************************)
LEMMA OnTheLine ==
  ASSUME NEW s \in Int, NEW n \in NanoPart
  PROVE  /\ s \in LongInt <=>
              Quantity(s, n) \in Instants
         /\ s \in ULongInt <=> Quantity(s, n) \in Lengths
<1>1. /\ LONG_MIN \in Int /\ LONG_MAX \in Int /\ ULONG_MAX \in Int /\ 0 \in Int
      /\ 0 \in NanoPart /\ MAX_NANOSECONDS \in NanoPart
      /\ n \in Int /\ MAX_NANOSECONDS \in Int /\ 0 <= n /\ n <= MAX_NANOSECONDS
  BY WordAssumption DEF LONG_MIN, ULONG_MAX, NanoPart, MAX_NANOSECONDS
<1>2. Quantity(0, 0) = 0
  BY WordAssumption DEF Quantity
<1>3. /\ Quantity(s, n) \in Int /\ Quantity(LONG_MIN, 0) \in Int
      /\ Quantity(LONG_MAX, MAX_NANOSECONDS) \in Int
      /\ Quantity(ULONG_MAX, MAX_NANOSECONDS) \in Int
  BY <1>1, QuantityInt
<1>4. /\ Quantity(s, n) < Quantity(LONG_MIN, 0) <=> s < LONG_MIN \/ (s = LONG_MIN /\ n < 0)
      /\ Quantity(s, n) < Quantity(0, 0) <=> s < 0 \/ (s = 0 /\ n < 0)
      /\ Quantity(LONG_MAX, MAX_NANOSECONDS) < Quantity(s, n)
           <=> LONG_MAX < s \/ (LONG_MAX = s /\ MAX_NANOSECONDS < n)
      /\ Quantity(ULONG_MAX, MAX_NANOSECONDS) < Quantity(s, n)
           <=> ULONG_MAX < s \/ (ULONG_MAX = s /\ MAX_NANOSECONDS < n)
  BY <1>1, QuantityOrder
<1> QED
  BY <1>1, <1>2, <1>3, <1>4 DEF LongInt, ULongInt, Instants, Lengths

(***************************************************************************)
(* The fields of a valid timestamp or interval, and back.                  *)
(***************************************************************************)
LEMMA TimestampFields ==
  ASSUME NEW t \in dt_timestamp_t, ValidTimestamp(t)
  PROVE  /\ t.second \in LongInt /\ t.second \in Int
         /\ t.nano_second \in NanoPart /\ t.nano_second \in Int
         /\ InstantOf(t) = Quantity(t.second, t.nano_second)
BY WordAssumption DEF dt_timestamp_t, ValidTimestamp, MAX_NANOSECONDS, NanoPart, InstantOf,
   ULongInt, ULONG_MAX, LongInt, LONG_MIN

(***************************************************************************)
(* The same of a valid interval.                                           *)
(***************************************************************************)
LEMMA IntervalFields ==
  ASSUME NEW d \in dt_interval_t, ValidInterval(d)
  PROVE  /\ d.seconds \in ULongInt /\ d.seconds \in Int
         /\ d.nano_seconds \in NanoPart /\ d.nano_seconds \in Int
         /\ LengthOf(d) = Quantity(d.seconds, d.nano_seconds)
BY WordAssumption DEF dt_interval_t, ValidInterval, MAX_NANOSECONDS, NanoPart, LengthOf,
   ULongInt, ULONG_MAX

(***************************************************************************)
(* Two words in range, put together, are a valid timestamp with that exact *)
(* value.                                                                  *)
(***************************************************************************)
LEMMA MakeTimestamp ==
  ASSUME NEW s \in LongInt, NEW n \in NanoPart
  PROVE  LET t == [second |-> s, nano_second |-> n]
         IN  t \in dt_timestamp_t /\ ValidTimestamp(t) /\ InstantOf(t) = Quantity(s, n)
BY WordAssumption DEF dt_timestamp_t, ValidTimestamp, MAX_NANOSECONDS, NanoPart, InstantOf,
   ULongInt, ULONG_MAX, LongInt, LONG_MIN

(***************************************************************************)
(* And a valid interval.                                                   *)
(***************************************************************************)
LEMMA MakeInterval ==
  ASSUME NEW s \in ULongInt, NEW n \in NanoPart
  PROVE  LET d == [seconds |-> s, nano_seconds |-> n]
         IN  d \in dt_interval_t /\ ValidInterval(d) /\ LengthOf(d) = Quantity(s, n)
BY WordAssumption DEF dt_interval_t, ValidInterval, MAX_NANOSECONDS, NanoPart, LengthOf,
   ULongInt, ULONG_MAX

(***************************************************************************)
(* A result given by seconds and nano-seconds is exact when the overflow   *)
(* test says whether the exact seconds fit the word.                       *)
(***************************************************************************)
LEMMA TimestampOutcome ==
  ASSUME NEW s \in Int, NEW n \in NanoPart, NEW outcome, NEW x, x = Quantity(s, n),
         outcome = IF s \in LongInt THEN Ok([second |-> s, nano_second |-> n]) ELSE Overflow
  PROVE  ExactTimestamp(outcome, x)
<1>1. CASE s \in LongInt
  <2>1. outcome = Ok([second |-> s, nano_second |-> n])
    BY <1>1
  <2>2. outcome.value = [second |-> s, nano_second |-> n]
    BY <2>1 DEF Ok
  <2> QED
    BY <1>1, <2>1, <2>2, MakeTimestamp, OnTheLine DEF ExactTimestamp
<1>2. CASE s \notin LongInt
  BY <1>2, OnTheLine DEF ExactTimestamp
<1> QED
  BY <1>1, <1>2

(***************************************************************************)
(* A calculation on intervals is exact when it delivers seconds that fit a *)
(* word, with a nano-second part in range, and reports an overflow when    *)
(* they do not fit.                                                        *)
(***************************************************************************)
LEMMA IntervalOutcome ==
  ASSUME NEW s \in Int, NEW n \in NanoPart, NEW outcome, NEW x, x = Quantity(s, n),
         outcome = IF s \in ULongInt THEN Ok([seconds |-> s, nano_seconds |-> n]) ELSE Overflow
  PROVE  ExactInterval(outcome, x)
<1>1. CASE s \in ULongInt
  <2>1. outcome = Ok([seconds |-> s, nano_seconds |-> n])
    BY <1>1
  <2>2. outcome.value = [seconds |-> s, nano_seconds |-> n]
    BY <2>1 DEF Ok
  <2> QED
    BY <1>1, <2>1, <2>2, MakeInterval, OnTheLine DEF ExactInterval
<1>2. CASE s \notin ULongInt
  BY <1>2, OnTheLine DEF ExactInterval
<1> QED
  BY <1>1, <1>2

(***************************************************************************)
(* Adding two nano-second parts: the carry and the remainder.              *)
(***************************************************************************)
LEMMA AddNanos ==
  ASSUME NEW a \in Int, NEW x \in NanoPart, NEW b \in Int, NEW y \in NanoPart
  PROVE  /\ x + y \in 0 .. ULONG_MAX
         /\ (x + y) \div NANO \in {0, 1}
         /\ (x + y) % NANO \in NanoPart
         /\ Quantity(a + b + (x + y) \div NANO, (x + y) % NANO) = Quantity(a, x) + Quantity(b, y)
<1>1. /\ x + y \in Nat /\ x + y < 2 * NANO /\ x + y <= ULONG_MAX
      /\ NANO \in Nat /\ x \in Int /\ y \in Int
  BY WordAssumption DEF NanoPart, MAX_NANOSECONDS, ULONG_MAX
<1>2. Quantity(a, x) + Quantity(b, y) = Quantity(a + b, x + y)
  BY <1>1, QuantityAdd
<1>3. CASE x + y >= NANO
  <2>1. (x + y) \div NANO = 1 /\ (x + y) % NANO = (x + y) - NANO
    BY <1>1, <1>3, CarryLemma
  <2>2. Quantity((a + b) + 1, (x + y) - NANO) = Quantity(a + b, x + y)
    BY <1>1, QuantityAdd
  <2> QED
    BY <1>1, <1>2, <1>3, <2>1, <2>2 DEF NanoPart, MAX_NANOSECONDS
<1>4. CASE ~(x + y >= NANO)
  <2>1. (x + y) \div NANO = 0 /\ (x + y) % NANO = x + y
    BY <1>1, <1>4, CarryLemma
  <2> QED
    BY <1>1, <1>2, <1>4, <2>1 DEF NanoPart, MAX_NANOSECONDS
<1> QED
  BY <1>3, <1>4

(***************************************************************************)
(* dt_apply_interval_forward is exact.                                     *)
(***************************************************************************)
LEMMA ForwardExact ==
  ASSUME NEW t \in dt_timestamp_t, ValidTimestamp(t),
         NEW d \in dt_interval_t, ValidInterval(d)
  PROVE  ExactTimestamp(dt_apply_interval_forward(t, d), InstantOf(t) + LengthOf(d))
<1> DEFINE n == t.nano_second + d.nano_seconds
           c == n \div NANO
           s == t.second + d.seconds + c
<1>1. /\ n \in 0 .. ULONG_MAX /\ c \in {0, 1} /\ n % NANO \in NanoPart
      /\ Quantity(s, n % NANO) = InstantOf(t) + LengthOf(d)
  BY TimestampFields, IntervalFields, AddNanos
<1>2. ULong(n) = n
  BY <1>1, WordAssumption DEF ULong, ULONG_MAX
<1> HIDE DEF n, c
<1>3. /\ t.second \in LongInt /\ d.seconds \in ULongInt /\ s \in Int
      /\ t.second \in Int /\ d.seconds \in Int /\ c \in Int
  BY <1>1, TimestampFields, IntervalFields
<1>4. \/ is_unsigned_long_sum_overflows(d.seconds, c)
      \/ ULong(d.seconds + c) > ULong(LONG_MAX - t.second)
      <=> s \notin LongInt
  BY <1>1, <1>3, WordAssumption DEF is_unsigned_long_sum_overflows, ULong, LongInt, ULongInt,
     LONG_MIN, ULONG_MAX, TwoToTheWord
<1>5. s \in LongInt => Long(ULong(ULong(d.seconds + c) + t.second)) = s
  BY <1>1, <1>3, WordAssumption DEF Long, ULong, LongInt, ULongInt, LONG_MIN, ULONG_MAX, TwoToTheWord
<1>6. dt_apply_interval_forward(t, d)
        = IF s \in LongInt THEN Ok([second |-> s, nano_second |-> n % NANO]) ELSE Overflow
  BY <1>2, <1>4, <1>5 DEF dt_apply_interval_forward, n, c
<1> QED
  BY <1>1, <1>3, <1>6, TimestampOutcome

(***************************************************************************)
(* dt_apply_interval_backward is exact.                                    *)
(***************************************************************************)
LEMMA BackwardExact ==
  ASSUME NEW t \in dt_timestamp_t, ValidTimestamp(t),
         NEW d \in dt_interval_t, ValidInterval(d)
  PROVE  ExactTimestamp(dt_apply_interval_backward(t, d), InstantOf(t) - LengthOf(d))
<1> DEFINE room == ULong((LONG_MAX + 1) + t.second)
           s == t.second - d.seconds
<1>1. /\ t.second \in LongInt /\ d.seconds \in ULongInt
      /\ t.second \in Int /\ d.seconds \in Int /\ s \in Int
      /\ t.nano_second \in NanoPart /\ d.nano_seconds \in NanoPart
      /\ t.nano_second \in Int /\ d.nano_seconds \in Int
  BY TimestampFields, IntervalFields
<1>2. InstantOf(t) - LengthOf(d) = Quantity(s, t.nano_second - d.nano_seconds)
  <2>1. Quantity(t.second, t.nano_second) - Quantity(d.seconds, d.nano_seconds)
          = Quantity(s, t.nano_second - d.nano_seconds)
    BY <1>1, WordAssumption DEF Quantity
  <2> QED
    BY <2>1, TimestampFields, IntervalFields
<1>3. room = (LONG_MAX + 1) + t.second
  BY <1>1, WordAssumption DEF ULong, LongInt, LONG_MIN, ULONG_MAX, TwoToTheWord
<1> HIDE DEF room
<1>4. CASE t.nano_second >= d.nano_seconds
  <2>1. t.nano_second - d.nano_seconds \in NanoPart
    BY <1>1, <1>4, WordAssumption DEF NanoPart, MAX_NANOSECONDS
  <2>2. d.seconds > room <=> s \notin LongInt
    BY <1>1, <1>3, WordAssumption DEF LongInt, ULongInt, LONG_MIN, ULONG_MAX
  <2>3. s \in LongInt => Long(ULong(t.second - d.seconds)) = s
    BY <1>1, WordAssumption DEF Long, ULong, LongInt, ULongInt, LONG_MIN, ULONG_MAX, TwoToTheWord
  <2>4. dt_apply_interval_backward(t, d)
          = IF s \in LongInt
            THEN Ok([second |-> s, nano_second |-> t.nano_second - d.nano_seconds])
            ELSE Overflow
    BY <1>4, <2>2, <2>3 DEF dt_apply_interval_backward, room
  <2> QED
    BY <1>1, <1>2, <2>1, <2>4, TimestampOutcome
<1>5. CASE ~(t.nano_second >= d.nano_seconds)
  <2> DEFINE m == NANO - (d.nano_seconds - t.nano_second)
  <2>1. m \in NanoPart /\ m = (t.nano_second - d.nano_seconds) + NANO
    BY <1>1, <1>5, WordAssumption DEF NanoPart, MAX_NANOSECONDS
  <2>2. s - 1 \in Int /\ Quantity(s - 1, m) = InstantOf(t) - LengthOf(d)
    <3> HIDE DEF s
    <3>1. Quantity(s - 1, (t.nano_second - d.nano_seconds) + NANO)
            = Quantity(s, t.nano_second - d.nano_seconds)
      BY <1>1, WordAssumption DEF Quantity
    <3> QED
      BY <1>1, <1>2, <2>1, <3>1
  <2>3. (t.second = LONG_MIN \/ d.seconds > ULong(room - 1)) <=> s - 1 \notin LongInt
    BY <1>1, <1>3, WordAssumption DEF ULong, LongInt, ULongInt, LONG_MIN, ULONG_MAX, TwoToTheWord
  <2>4. s - 1 \in LongInt => Long(ULong(ULong(t.second - d.seconds) - 1)) = s - 1
    BY <1>1, WordAssumption DEF Long, ULong, LongInt, ULongInt, LONG_MIN, ULONG_MAX, TwoToTheWord
  <2>5. dt_apply_interval_backward(t, d)
          = IF s - 1 \in LongInt THEN Ok([second |-> s - 1, nano_second |-> m]) ELSE Overflow
    BY <1>5, <2>3, <2>4 DEF dt_apply_interval_backward, room
  <2> QED
    BY <2>1, <2>2, <2>5, TimestampOutcome
<1> QED
  BY <1>4, <1>5

(***************************************************************************)
(* dt_apply_offset is exact.                                               *)
(***************************************************************************)
LEMMA ApplyOffsetExact ==
  ASSUME NEW t \in dt_timestamp_t, ValidTimestamp(t),
         NEW o \in dt_offset_t, ValidInterval(o.duration)
  PROVE  ExactTimestamp(ApplyOffset(t, o), InstantOf(t) + DistanceOf(o))
<1>1. o.duration \in dt_interval_t
  BY DEF dt_offset_t
<1>2. CASE o.is_forward
  <2>1. ApplyOffset(t, o) = dt_apply_interval_forward(t, o.duration)
        /\ DistanceOf(o) = LengthOf(o.duration)
    BY <1>2 DEF ApplyOffset, DistanceOf
  <2> QED
    BY <1>1, <2>1, ForwardExact
<1>3. CASE ~o.is_forward
  <2>1. ApplyOffset(t, o) = dt_apply_interval_backward(t, o.duration)
        /\ DistanceOf(o) = -LengthOf(o.duration)
    BY <1>3 DEF ApplyOffset, DistanceOf
  <2>2. InstantOf(t) \in Int /\ LengthOf(o.duration) \in Int
    BY <1>1, TimestampFields, IntervalFields, QuantityInt
  <2>3. InstantOf(t) + DistanceOf(o) = InstantOf(t) - LengthOf(o.duration)
    BY <2>1, <2>2
  <2> QED
    BY <1>1, <2>1, <2>3, BackwardExact
<1> QED
  BY <1>2, <1>3

(***************************************************************************)
(* A valid timestamp is one of the instants Timeline calls representable.  *)
(***************************************************************************)
LEMMA InstantOnTheLine ==
  ASSUME NEW t \in dt_timestamp_t, ValidTimestamp(t)
  PROVE  /\ InstantOf(t) \in Int
         /\ InstantOf(t) \in Instants
BY TimestampFields, OnTheLine, QuantityInt

(***************************************************************************)
(* Applying the offset between two timestamps to the first gives exactly   *)
(* the second.                                                             *)
(***************************************************************************)
LEMMA RoundTripLemma ==
  ASSUME NEW l \in dt_timestamp_t, NEW r \in dt_timestamp_t,
         ValidTimestamp(l), ValidTimestamp(r)
  PROVE  ApplyOffset(l, OffsetBetween(l, r)) = Ok(r)
<1> DEFINE o == OffsetBetween(l, r)
           outcome == ApplyOffset(l, o)
<1>1. o \in dt_offset_t /\ ValidInterval(o.duration)
      /\ DistanceOf(o) = InstantOf(r) - InstantOf(l)
  BY OffsetBetweenExact
<1>2. InstantOf(l) + DistanceOf(o) = InstantOf(r)
  BY <1>1, InstantOnTheLine
<1> HIDE DEF o
<1>3. ExactTimestamp(outcome, InstantOf(r))
  BY <1>1, <1>2, ApplyOffsetExact
<1> HIDE DEF outcome
<1>4. /\ outcome = Ok(outcome.value)
      /\ outcome.value \in dt_timestamp_t /\ ValidTimestamp(outcome.value)
      /\ InstantOf(outcome.value) = InstantOf(r)
  BY <1>3, InstantOnTheLine DEF ExactTimestamp
<1>5. outcome.value = r
  BY <1>4, InstantInjective
<1> QED
  BY <1>4, <1>5 DEF outcome, o

(***************************************************************************)
(* An offset and its opposite cancel.                                      *)
(***************************************************************************)
LEMMA UndoLemma ==
  ASSUME NEW t \in dt_timestamp_t, ValidTimestamp(t),
         NEW o \in dt_offset_t, ValidInterval(o.duration),
         ApplyOffset(t, o).status = "DT_OK"
  PROVE  ApplyOffset(ApplyOffset(t, o).value, [o EXCEPT !.is_forward = ~o.is_forward]) = Ok(t)
<1> DEFINE moved == ApplyOffset(t, o)
           back  == [o EXCEPT !.is_forward = ~o.is_forward]
           again == ApplyOffset(moved.value, back)
<1>1. /\ moved.value \in dt_timestamp_t /\ ValidTimestamp(moved.value)
      /\ InstantOf(moved.value) = InstantOf(t) + DistanceOf(o)
  <2>1. ExactTimestamp(moved, InstantOf(t) + DistanceOf(o))
    BY ApplyOffsetExact
  <2>2. moved # Overflow
    BY DEF Overflow
  <2> QED
    BY <2>1, <2>2 DEF ExactTimestamp
<1> HIDE DEF moved
<1>2. /\ back \in dt_offset_t /\ back.duration = o.duration
      /\ back.is_forward = ~o.is_forward
  BY DEF dt_offset_t
<1>3. DistanceOf(o) \in Int /\ DistanceOf(back) = -DistanceOf(o)
  <2>1. LengthOf(o.duration) \in Int
    BY IntervalFields, QuantityInt DEF dt_offset_t
  <2>a. ValidInterval(back.duration) /\ LengthOf(back.duration) = LengthOf(o.duration)
    BY <1>2
  <2>b. \A p : ValidInterval(p.duration) =>
          DistanceOf(p) = IF p.is_forward THEN LengthOf(p.duration) ELSE -LengthOf(p.duration)
    BY DEF DistanceOf
  <2> HIDE DEF back
  <2>2. CASE o.is_forward
    BY <1>2, <2>1, <2>2, <2>a, <2>b
  <2>3. CASE ~o.is_forward
    <3>1. DistanceOf(o) = -LengthOf(o.duration)
      BY <2>3, <2>b
    <3>2. DistanceOf(back) = LengthOf(o.duration)
      BY <1>2, <2>3, <2>a, <2>b
    <3> QED
      BY <2>1, <3>1, <3>2
  <2> QED
    BY <2>2, <2>3
<1> HIDE DEF back
<1>4. InstantOf(moved.value) + DistanceOf(back) = InstantOf(t)
  BY <1>1, <1>3, InstantOnTheLine
<1>5. ExactTimestamp(again, InstantOf(t))
  BY <1>1, <1>2, <1>4, ApplyOffsetExact
<1> HIDE DEF again
<1>6. /\ again = Ok(again.value)
      /\ again.value \in dt_timestamp_t /\ ValidTimestamp(again.value)
      /\ InstantOf(again.value) = InstantOf(t)
  BY <1>5, InstantOnTheLine DEF ExactTimestamp
<1>7. again.value = t
  BY <1>6, InstantInjective
<1> QED
  BY <1>6, <1>7 DEF again, moved, back

-----------------------------------------------------------------------------
(***************************************************************************)
(* dt_init_interval: any number of nano-seconds is folded into seconds.    *)
(***************************************************************************)
LEMMA InitIntervalExact ==
  ASSUME NEW s \in ULongInt, NEW n \in ULongInt
  PROVE  ExactInterval(InitInterval(s, n), Quantity(s, n))
<1> DEFINE c == n \div NANO
           m == n % NANO
<1>1. /\ s \in Nat /\ n \in Nat /\ c \in Nat /\ m \in NanoPart /\ n = NANO * c + m
      /\ m \in Int
  BY WordAssumption DEF ULongInt, ULONG_MAX, NanoPart, MAX_NANOSECONDS
<1> HIDE DEF c, m
<1>2. Quantity(s + c, m) = Quantity(s, n)
  BY <1>1, WordAssumption DEF Quantity
<1>3. is_unsigned_long_sum_overflows(s, c) <=> s + c \notin ULongInt
  BY <1>1, WordAssumption DEF is_unsigned_long_sum_overflows, ULongInt, ULONG_MAX
<1>4. InitInterval(s, n)
        = IF s + c \in ULongInt THEN Ok([seconds |-> s + c, nano_seconds |-> m]) ELSE Overflow
  BY <1>3 DEF InitInterval, c, m
<1> QED
  BY <1>1, <1>2, <1>4, IntervalOutcome

(***************************************************************************)
(* dt_sum_intervals is exact.                                              *)
(***************************************************************************)
LEMMA SumIntervalsExact ==
  ASSUME NEW l \in dt_interval_t, ValidInterval(l),
         NEW r \in dt_interval_t, ValidInterval(r)
  PROVE  ExactInterval(SumIntervals(l, r), LengthOf(l) + LengthOf(r))
<1> DEFINE n == l.nano_seconds + r.nano_seconds
           c == n \div NANO
           s == l.seconds + r.seconds + c
<1>1. /\ c \in {0, 1} /\ n % NANO \in NanoPart
      /\ Quantity(s, n % NANO) = LengthOf(l) + LengthOf(r)
  BY IntervalFields, AddNanos
<1> HIDE DEF n, c
<1>2. /\ l.seconds \in ULongInt /\ r.seconds \in ULongInt /\ s \in Int
      /\ l.seconds \in Int /\ r.seconds \in Int /\ c \in Int
  BY <1>1, IntervalFields
<1>3. \/ is_unsigned_long_sum_overflows(r.seconds, c)
      \/ is_unsigned_long_sum_overflows(l.seconds, ULong(r.seconds + c))
      <=> s \notin ULongInt
  BY <1>1, <1>2, WordAssumption DEF is_unsigned_long_sum_overflows, ULong, ULongInt, ULONG_MAX,
     TwoToTheWord
<1>4. s \in ULongInt => ULong(l.seconds + ULong(r.seconds + c)) = s
  BY <1>1, <1>2, WordAssumption DEF ULong, ULongInt, ULONG_MAX, TwoToTheWord
<1>5. SumIntervals(l, r)
        = IF s \in ULongInt THEN Ok([seconds |-> s, nano_seconds |-> n % NANO]) ELSE Overflow
  BY <1>3, <1>4 DEF SumIntervals, n, c
<1> QED
  BY <1>1, <1>2, <1>5, IntervalOutcome

(***************************************************************************)
(* dt_compare_timestamps and dt_compare_intervals give the sign of the     *)
(* difference.                                                             *)
(***************************************************************************)
LEMMA LexicographicSign ==
  ASSUME NEW a \in Int, NEW x \in NanoPart, NEW b \in Int, NEW y \in NanoPart
  PROVE  Lexicographic(a, x, b, y)
           = IF Quantity(a, x) > Quantity(b, y) THEN 1
             ELSE IF Quantity(a, x) < Quantity(b, y) THEN -1 ELSE 0
<1>1. x \in Int /\ y \in Int
  BY WordAssumption DEF NanoPart, MAX_NANOSECONDS
<1>2. Quantity(a, x) \in Int /\ Quantity(b, y) \in Int
  BY <1>1, QuantityInt
<1>3. /\ (Quantity(a, x) < Quantity(b, y)) <=> (a < b \/ (a = b /\ x < y))
      /\ (Quantity(b, y) < Quantity(a, x)) <=> (b < a \/ (b = a /\ y < x))
  BY QuantityOrder
<1> QED
  BY <1>1, <1>2, <1>3 DEF Lexicographic

(***************************************************************************)
(* dt_sub_intervals is exact, and refuses exactly the negative results.    *)
(***************************************************************************)
LEMMA SubIntervalsExact ==
  ASSUME NEW l \in dt_interval_t, ValidInterval(l),
         NEW r \in dt_interval_t, ValidInterval(r)
  PROVE  ExactInterval(SubIntervals(l, r), LengthOf(l) - LengthOf(r))
<1>1. /\ l.seconds \in ULongInt /\ l.seconds \in Int
      /\ r.seconds \in ULongInt /\ r.seconds \in Int
      /\ l.nano_seconds \in NanoPart /\ l.nano_seconds \in Int
      /\ r.nano_seconds \in NanoPart /\ r.nano_seconds \in Int
      /\ LengthOf(l) = Quantity(l.seconds, l.nano_seconds)
      /\ LengthOf(r) = Quantity(r.seconds, r.nano_seconds)
  BY IntervalFields
<1>2. LengthOf(l) \in Int /\ LengthOf(r) \in Int
  BY <1>1, QuantityInt
<1>3. CompareIntervals(l, r) = -1 <=> LengthOf(l) < LengthOf(r)
  BY <1>1, <1>2, LexicographicSign DEF CompareIntervals
<1>4. LengthOf(l) < LengthOf(r) <=>
        \/ l.seconds < r.seconds
        \/ l.seconds = r.seconds /\ l.nano_seconds < r.nano_seconds
  BY <1>1, QuantityOrder
<1>5. CASE LengthOf(l) < LengthOf(r)
  <2>1. SubIntervals(l, r) = Overflow
    BY <1>3, <1>5 DEF SubIntervals
  <2>2. LengthOf(l) - LengthOf(r) < 0
    BY <1>2, <1>5
  <2> QED
    BY <1>2, <2>1, <2>2 DEF ExactInterval, Lengths
<1>6. CASE ~(LengthOf(l) < LengthOf(r)) /\ l.nano_seconds < r.nano_seconds
  <2> DEFINE s == (l.seconds - r.seconds) - 1
             n == (NANO + l.nano_seconds) - r.nano_seconds
  <2>1. s \in ULongInt /\ s \in Int /\ n \in NanoPart
    BY <1>1, <1>4, <1>6, WordAssumption DEF ULongInt, ULONG_MAX, NanoPart, MAX_NANOSECONDS
  <2>2. ULong(ULong(l.seconds - r.seconds) - 1) = s
    BY <1>1, <1>4, <1>6, WordAssumption DEF ULong, ULongInt, ULONG_MAX
  <2>3. SubIntervals(l, r) = Ok([seconds |-> s, nano_seconds |-> n])
    BY <1>3, <1>6, <2>2 DEF SubIntervals
  <2>4. Quantity(s, n) = LengthOf(l) - LengthOf(r)
    BY <1>1, WordAssumption DEF Quantity
  <2> QED
    BY <2>1, <2>3, <2>4, IntervalOutcome
<1>7. CASE ~(LengthOf(l) < LengthOf(r)) /\ ~(l.nano_seconds < r.nano_seconds)
  <2> DEFINE s == l.seconds - r.seconds
             n == l.nano_seconds - r.nano_seconds
  <2>1. s \in ULongInt /\ s \in Int /\ n \in NanoPart
    BY <1>1, <1>4, <1>7, WordAssumption DEF ULongInt, ULONG_MAX, NanoPart, MAX_NANOSECONDS
  <2>2. ULong(ULong(l.seconds - r.seconds) - 0) = s
    BY <1>1, <1>4, <1>7, WordAssumption DEF ULong, ULongInt, ULONG_MAX
  <2>3. SubIntervals(l, r) = Ok([seconds |-> s, nano_seconds |-> n])
    BY <1>3, <1>7, <2>2 DEF SubIntervals
  <2>4. Quantity(s, n) = LengthOf(l) - LengthOf(r)
    BY <1>1, WordAssumption DEF Quantity
  <2> QED
    BY <2>1, <2>3, <2>4, IntervalOutcome
<1> QED
  BY <1>5, <1>6, <1>7

-----------------------------------------------------------------------------
(***************************************************************************)
(* What the calculations deliver has the C type of the register it is      *)
(* stored in, and what they report is one of two statuses.                 *)
(***************************************************************************)
LEMMA OutcomeTypes ==
  /\ \A t \in dt_timestamp_t, o \in dt_offset_t :
       ValidTimestamp(t) /\ ValidInterval(o.duration) =>
         /\ ApplyOffset(t, o).status \in {"DT_OK", "DT_OVERFLOW"}
         /\ ApplyOffset(t, o).status = "DT_OK" => ApplyOffset(t, o).value \in dt_timestamp_t
  /\ \A s, n \in ULongInt :
       /\ InitInterval(s, n).status \in {"DT_OK", "DT_OVERFLOW"}
       /\ InitInterval(s, n).status = "DT_OK" => InitInterval(s, n).value \in dt_interval_t
  /\ \A l, r \in dt_interval_t :
       ValidInterval(l) /\ ValidInterval(r) =>
         /\ SumIntervals(l, r).status \in {"DT_OK", "DT_OVERFLOW"}
         /\ SumIntervals(l, r).status = "DT_OK" => SumIntervals(l, r).value \in dt_interval_t
         /\ SubIntervals(l, r).status \in {"DT_OK", "DT_OVERFLOW"}
         /\ SubIntervals(l, r).status = "DT_OK" => SubIntervals(l, r).value \in dt_interval_t
<1>1. \A v, x : ExactTimestamp(v, x) =>
        /\ v.status \in {"DT_OK", "DT_OVERFLOW"}
        /\ v.status = "DT_OK" => v.value \in dt_timestamp_t
  <2>1. Overflow.status = "DT_OVERFLOW" /\ \A w : Ok(w).status = "DT_OK"
    BY DEF Overflow, Ok
  <2> QED
    BY <2>1 DEF ExactTimestamp
<1>2. \A v, x : ExactInterval(v, x) =>
        /\ v.status \in {"DT_OK", "DT_OVERFLOW"}
        /\ v.status = "DT_OK" => v.value \in dt_interval_t
  <2>1. Overflow.status = "DT_OVERFLOW" /\ \A w : Ok(w).status = "DT_OK"
    BY DEF Overflow, Ok
  <2> QED
    BY <2>1 DEF ExactInterval
<1> QED
  BY <1>1, <1>2, ApplyOffsetExact, InitIntervalExact, SumIntervalsExact, SubIntervalsExact

(***************************************************************************)
(* Storing an outcome in a register file keeps the file well-typed.        *)
(***************************************************************************)
LEMMA StoreType ==
  ASSUME NEW S, NEW T, NEW file \in [S -> T], NEW r \in S, NEW outcome,
         outcome.status = "DT_OK" => outcome.value \in T
  PROVE  Store(file, r, outcome) \in [S -> T]
BY DEF Store

(***************************************************************************)
(* Whatever a cast of a double out of range produces is an unsigned long.  *)
(***************************************************************************)
LEMMA CastType ==
  ASSUME NEW x \in Int
  PROVE  CastToULong(x) \subseteq ULongInt
<1>1. TwoToTheWord \in Nat /\ TwoToTheWord > 0 /\ ULONG_MAX = TwoToTheWord - 1
  BY WordAssumption DEF TwoToTheWord, ULONG_MAX
<1>2. x % TwoToTheWord \in ULongInt /\ 0 \in ULongInt /\ ULONG_MAX \in ULongInt
  BY <1>1 DEF ULongInt
<1> QED
  BY <1>2 DEF CastToULong

(***************************************************************************)
(* The two parts dt_mul_interval cuts from a product are integers.         *)
(***************************************************************************)
LEMMA ProductTypes ==
  ASSUME NEW d \in dt_interval_t, NEW m \in [num : Int, den : Nat], m.den # 0
  PROVE  /\ FloorSeconds(Product(d, m), m) \in Int
         /\ FractionNanos(Product(d, m), m) \in Int
<1> DEFINE p == Product(d, m)
<1>1. p \in Int
  BY WordAssumption DEF Product, dt_interval_t, ULongInt, ULONG_MAX
<1> HIDE DEF p
<1>2. /\ m.den \in Nat /\ m.den > 0 /\ m.den * NANO \in Nat /\ m.den * NANO > 0
  BY WordAssumption
<1>3. FloorSeconds(p, m) \in Int
  BY <1>1, <1>2 DEF FloorSeconds
<1>4. /\ p % (m.den * NANO) \in Int /\ (-p) % (m.den * NANO) \in Int
  BY <1>1, <1>2
<1>5. /\ (p % (m.den * NANO)) \div m.den \in Int
      /\ (-((-p) % (m.den * NANO))) \div m.den \in Int
  BY <1>2, <1>4
<1>6. FractionNanos(p, m) \in Int
  BY <1>5 DEF FractionNanos
<1> QED
  BY <1>3, <1>6 DEF p

(***************************************************************************)
(* The register files hold values of their C types after every call.       *)
(***************************************************************************)
LEMMA TypeInit == Init => TypeOK
<1> SUFFICES ASSUME Init PROVE TypeOK
  OBVIOUS
<1>1. 0 \in LongInt /\ 0 \in ULongInt
  BY WordAssumption DEF LongInt, ULongInt, LONG_MIN, ULONG_MAX
<1> QED
  BY <1>1 DEF Init, TypeOK, dt_timestamp_t, dt_interval_t, dt_offset_t, Functions, Status

(***************************************************************************)
(* Every call, and the client, leaves values of the declared types (TypeOK *)
(* is inductive as it stands).                                             *)
(***************************************************************************)
LEMMA TypeStep ==
  ASSUME TypeOK, [Next]_vars
  PROVE  TypeOK'
<1> USE ArgumentAssumption DEF TypeOK, Functions, Status, Ptr
<1>0. ASSUME NEW f \in Functions, NEW s \in Status, Refuse(f, s)
      PROVE  TypeOK'
  BY <1>0 DEF Refuse, Return, data
<1>1. ASSUME NEW r \in Ptr(TS), dt_now(r)
      PROVE  TypeOK'
  <2>1. ClockReadings \subseteq dt_timestamp_t
    BY WordAssumption DEF dt_timestamp_t, NanoPart, MAX_NANOSECONDS, ULongInt, ULONG_MAX
  <2> QED
    BY <1>0, <1>1, <2>1 DEF dt_now, Return
<1>2. ASSUME NEW time \in LongInt, NEW nano \in Words, NEW r \in Ptr(TS),
             dt_posix_time_to_timestamp(time, nano, r)
      PROVE  TypeOK'
  <2>1. [second |-> time, nano_second |-> nano] \in dt_timestamp_t
    BY DEF dt_timestamp_t
  <2> QED
    BY <1>0, <1>2, <2>1 DEF dt_posix_time_to_timestamp, Return
<1>3. ASSUME NEW t \in Ptr(TS), NEW p \in Ptr(PX), NEW n \in NanoPointers,
             dt_timestamp_to_posix_time(t, p, n)
      PROVE  TypeOK'
  <2>1. CASE ~dt_validate_timestamp(t) \/ p = NULL
    BY <1>0, <1>3, <2>1 DEF dt_timestamp_to_posix_time
  <2>2. CASE dt_validate_timestamp(t) /\ p # NULL
    <3> DEFINE timeSet == [px EXCEPT ![p].time = ts[t].second]
    <3>1. t \in TS /\ p \in PX /\ ts[t].second \in LongInt /\ ts[t].nano_second \in ULongInt
      BY <2>2 DEF dt_validate_timestamp, dt_timestamp_t
    <3>2. timeSet \in [PX -> [time : LongInt, nano_second : ULongInt]]
      BY <3>1
    <3> HIDE DEF timeSet
    <3>3. n \in PX => [timeSet EXCEPT ![n].nano_second = ts[t].nano_second]
                        \in [PX -> [time : LongInt, nano_second : ULongInt]]
      BY <3>1, <3>2
    <3>4. px' \in [PX -> [time : LongInt, nano_second : ULongInt]]
      BY <1>3, <2>2, <3>2, <3>3 DEF dt_timestamp_to_posix_time, timeSet
    <3> QED
      BY <1>3, <2>2, <3>4 DEF dt_timestamp_to_posix_time, Return
  <2> QED
    BY <2>1, <2>2
<1>4. ASSUME NEW l \in Ptr(TS), NEW r \in Ptr(TS), NEW c \in Ptr(CMP),
             dt_compare_timestamps(l, r, c)
      PROVE  TypeOK'
  <2>1. CASE ~dt_validate_timestamp(l) \/ ~dt_validate_timestamp(r) \/ c = NULL
    BY <1>0, <1>4, <2>1 DEF dt_compare_timestamps
  <2>2. CASE dt_validate_timestamp(l) /\ dt_validate_timestamp(r) /\ c # NULL
    <3>1. CompareTimestamps(ts[l], ts[r]) \in -1 .. 1
      BY DEF CompareTimestamps, Lexicographic
    <3> QED
      BY <1>4, <2>2, <3>1 DEF dt_compare_timestamps, Return
  <2> QED
    BY <2>1, <2>2
<1>5. ASSUME NEW l \in Ptr(TS), NEW r \in Ptr(TS), NEW o \in Ptr(OFF),
             dt_offset_between(l, r, o)
      PROVE  TypeOK'
  <2>1. CASE ~dt_validate_timestamp(l) \/ ~dt_validate_timestamp(r) \/ o = NULL
    BY <1>0, <1>5, <2>1 DEF dt_offset_between
  <2>2. CASE dt_validate_timestamp(l) /\ dt_validate_timestamp(r) /\ o # NULL
    <3>1. OffsetBetween(ts[l], ts[r]) \in dt_offset_t
      BY <2>2, OffsetBetweenExact DEF dt_validate_timestamp
    <3> QED
      BY <1>5, <2>2, <3>1 DEF dt_offset_between, Return
  <2> QED
    BY <2>1, <2>2
<1>6. ASSUME NEW l \in Ptr(TS), NEW o \in Ptr(OFF), NEW r \in Ptr(TS),
             dt_apply_offset(l, o, r)
      PROVE  TypeOK'
  <2>1. CASE ~dt_validate_timestamp(l) \/ ~dt_validate_offset(o) \/ r = NULL
    BY <1>0, <1>6, <2>1 DEF dt_apply_offset
  <2>2. CASE dt_validate_timestamp(l) /\ dt_validate_offset(o) /\ r # NULL
    <3> DEFINE outcome == ApplyOffset(ts[l], off[o])
    <3>1. /\ outcome.status \in {"DT_OK", "DT_OVERFLOW"}
          /\ outcome.status = "DT_OK" => outcome.value \in dt_timestamp_t
      BY <2>2, OutcomeTypes DEF dt_validate_timestamp, dt_validate_offset
    <3>2. /\ fn' = "dt_apply_offset" /\ status' = outcome.status
          /\ ts' = Store(ts, r, outcome) /\ UNCHANGED <<iv, off, cmp, px>>
      BY <1>6, <2>2 DEF dt_apply_offset, Return
    <3> HIDE DEF outcome
    <3> QED
      BY <2>2, <3>1, <3>2, StoreType
  <2> QED
    BY <2>1, <2>2
<1>7. ASSUME NEW s \in Words, NEW n \in Words, NEW r \in Ptr(IV), dt_init_interval(s, n, r)
      PROVE  TypeOK'
  <2>1. CASE r = NULL
    BY <1>0, <1>7, <2>1 DEF dt_init_interval
  <2>2. CASE r # NULL
    <3> DEFINE outcome == InitInterval(s, n)
    <3>1. /\ outcome.status \in {"DT_OK", "DT_OVERFLOW"}
          /\ outcome.status = "DT_OK" => outcome.value \in dt_interval_t
      BY OutcomeTypes
    <3>2. /\ fn' = "dt_init_interval" /\ status' = outcome.status
          /\ iv' = Store(iv, r, outcome) /\ UNCHANGED <<ts, off, cmp, px>>
      BY <1>7, <2>2 DEF dt_init_interval, Return
    <3> HIDE DEF outcome
    <3> QED
      BY <2>2, <3>1, <3>2, StoreType
  <2> QED
    BY <2>1, <2>2
<1>8. ASSUME NEW l \in Ptr(IV), NEW r \in Ptr(IV), NEW c \in Ptr(CMP),
             dt_compare_intervals(l, r, c)
      PROVE  TypeOK'
  <2>1. CASE ~dt_validate_interval(l) \/ ~dt_validate_interval(r) \/ c = NULL
    BY <1>0, <1>8, <2>1 DEF dt_compare_intervals
  <2>2. CASE dt_validate_interval(l) /\ dt_validate_interval(r) /\ c # NULL
    <3>1. CompareIntervals(iv[l], iv[r]) \in -1 .. 1
      BY DEF CompareIntervals, Lexicographic
    <3> QED
      BY <1>8, <2>2, <3>1 DEF dt_compare_intervals, Return
  <2> QED
    BY <2>1, <2>2
<1>9. ASSUME NEW l \in Ptr(IV), NEW r \in Ptr(IV), NEW d \in Ptr(IV),
             dt_sum_intervals(l, r, d)
      PROVE  TypeOK'
  <2>1. CASE ~dt_validate_interval(l) \/ ~dt_validate_interval(r) \/ d = NULL
    BY <1>0, <1>9, <2>1 DEF dt_sum_intervals
  <2>2. CASE dt_validate_interval(l) /\ dt_validate_interval(r) /\ d # NULL
    <3> DEFINE outcome == SumIntervals(iv[l], iv[r])
    <3>1. /\ outcome.status \in {"DT_OK", "DT_OVERFLOW"}
          /\ outcome.status = "DT_OK" => outcome.value \in dt_interval_t
      BY <2>2, OutcomeTypes DEF dt_validate_interval
    <3>2. /\ fn' = "dt_sum_intervals" /\ status' = outcome.status
          /\ iv' = Store(iv, d, outcome) /\ UNCHANGED <<ts, off, cmp, px>>
      BY <1>9, <2>2 DEF dt_sum_intervals, Return
    <3> HIDE DEF outcome
    <3> QED
      BY <2>2, <3>1, <3>2, StoreType
  <2> QED
    BY <2>1, <2>2
<1>10. ASSUME NEW l \in Ptr(IV), NEW r \in Ptr(IV), NEW d \in Ptr(IV),
              dt_sub_intervals(l, r, d)
       PROVE  TypeOK'
  <2>1. CASE ~dt_validate_interval(l) \/ ~dt_validate_interval(r) \/ d = NULL
    BY <1>0, <1>10, <2>1 DEF dt_sub_intervals
  <2>2. CASE dt_validate_interval(l) /\ dt_validate_interval(r) /\ d # NULL
    <3> DEFINE outcome == SubIntervals(iv[l], iv[r])
    <3>1. /\ outcome.status \in {"DT_OK", "DT_OVERFLOW"}
          /\ outcome.status = "DT_OK" => outcome.value \in dt_interval_t
      BY <2>2, OutcomeTypes DEF dt_validate_interval
    <3>2. /\ fn' = "dt_sub_intervals" /\ status' = outcome.status
          /\ iv' = Store(iv, d, outcome) /\ UNCHANGED <<ts, off, cmp, px>>
      BY <1>10, <2>2 DEF dt_sub_intervals, Return
    <3> HIDE DEF outcome
    <3> QED
      BY <2>2, <3>1, <3>2, StoreType
  <2> QED
    BY <2>1, <2>2
<1>11. ASSUME NEW l \in Ptr(IV), NEW d \in Ptr(IV), NEW m \in Multipliers,
              dt_mul_interval(l, m, d)
       PROVE  TypeOK'
  <2>1. CASE ~(dt_validate_interval(l) /\ d # NULL /\ m.den # 0)
    BY <1>0, <1>11, <2>1 DEF dt_mul_interval
  <2>2. CASE dt_validate_interval(l) /\ d # NULL /\ m.den # 0
    <3> DEFINE p == Product(iv[l], m)
    <3>1. l \in IV /\ d \in IV /\ m \in [num : Int, den : Nat] /\ iv[l] \in dt_interval_t
      BY <2>2 DEF dt_validate_interval
    <3>2. /\ CastToULong(FloorSeconds(p, m)) \subseteq ULongInt
          /\ CastToULong(FractionNanos(p, m)) \subseteq ULongInt
      BY <2>2, <3>1, ProductTypes, CastType
    <3> HIDE DEF p
    <3>3. PICK s \in CastToULong(FloorSeconds(p, m)) :
            IF s = 0 /\ p # 0
            THEN /\ iv' = [iv EXCEPT ![d].seconds = s]
                 /\ Return("dt_mul_interval", "DT_OVERFLOW")
            ELSE /\ \E n \in CastToULong(FractionNanos(p, m)) :
                      iv' = [iv EXCEPT ![d] = [seconds |-> s, nano_seconds |-> n]]
                 /\ Return("dt_mul_interval", "DT_OK")
      BY <1>11, <2>2 DEF dt_mul_interval, p
    <3>4. /\ iv' \in [IV -> dt_interval_t]
          /\ fn' = "dt_mul_interval" /\ status' \in {"DT_OK", "DT_OVERFLOW"}
      <4>1. CASE s = 0 /\ p # 0
        BY <3>1, <3>2, <3>3, <4>1 DEF Return, dt_interval_t
      <4>2. CASE ~(s = 0 /\ p # 0)
        BY <3>1, <3>2, <3>3, <4>2 DEF Return, dt_interval_t
      <4> QED
        BY <4>1, <4>2
    <3> QED
      BY <1>11, <2>2, <3>4 DEF dt_mul_interval, Refuse, Return
  <2> QED
    BY <2>1, <2>2
<1>12. ASSUME NEW o \in OFF, NEW v \in OffsetInputs, FillOffset(o, v)
       PROVE  TypeOK'
  BY <1>12 DEF FillOffset, Return
<1>13. CASE UNCHANGED vars
  BY <1>13 DEF vars
<1> QED
  BY <1>1, <1>2, <1>3, <1>4, <1>5, <1>6, <1>7, <1>8, <1>9, <1>10, <1>11, <1>12, <1>13
     DEF Next, TimestampCall, IntervalCall, ClientStep

(***************************************************************************)
(* In every behaviour every variable of the client holds a value of its C  *)
(* type: no calculation leaves the range of its words unnoticed.           *)
(***************************************************************************)
THEOREM TypeCorrect == Spec => []TypeOK
<1>1. TypeOK /\ [Next]_vars => TypeOK'
  BY TypeStep
<1> QED
  BY <1>1, TypeInit, PTL DEF Spec

(***************************************************************************)
(* dt_offset_between and dt_apply_offset are inverse of each other on all  *)
(* valid timestamps a client can ever hold.                                *)
(***************************************************************************)
THEOREM RoundTripCorrect == Spec => []RoundTrip
<1>1. TypeOK => RoundTrip
  BY RoundTripLemma DEF RoundTrip, TypeOK
<1> QED
  BY <1>1, TypeCorrect, PTL

(***************************************************************************)
(* An accepted offset can always be taken back.                            *)
(***************************************************************************)
THEOREM UndoCorrect == Spec => []Undo
<1>1. TypeOK => Undo
  BY UndoLemma DEF Undo, TypeOK
<1> QED
  BY <1>1, TypeCorrect, PTL
-----------------------------------------------------------------------------
(***************************************************************************)
(* A register has an exact value when its nano-second part is valid.       *)
(***************************************************************************)
LEMMA DefinedIffValid ==
  ASSUME TypeOK
  PROVE  /\ \A p \in Ptr(TS) : Exact!Defined(instantMap, p) <=> dt_validate_timestamp(p)
         /\ \A p \in Ptr(IV) : Exact!Defined(lengthMap, p) <=> dt_validate_interval(p)
         /\ \A p \in Ptr(OFF) : Exact!Defined(offsetMap, p) <=> dt_validate_offset(p)
<1>1. ASSUME NEW t \in TS
      PROVE  /\ instantMap[t] = InstantOf(ts[t])
             /\ InstantOf(ts[t]) # Undefined <=> ValidTimestamp(ts[t])
  <2>1. ts[t] \in dt_timestamp_t
    BY DEF TypeOK
  <2>2. ValidTimestamp(ts[t]) => InstantOf(ts[t]) \in Int
    BY <2>1, InstantOnTheLine
  <2> QED
    BY <2>2, UndefinedAssumption DEF InstantOf, instantMap
<1>2. ASSUME NEW d \in dt_interval_t, ValidInterval(d)
      PROVE  LengthOf(d) \in Int
  BY <1>2, IntervalFields, QuantityInt
<1>3. ASSUME NEW i \in IV
      PROVE  /\ lengthMap[i] = LengthOf(iv[i])
             /\ LengthOf(iv[i]) # Undefined <=> ValidInterval(iv[i])
  <2>1. ValidInterval(iv[i]) => LengthOf(iv[i]) \in Int
    BY <1>2 DEF TypeOK
  <2> QED
    BY <2>1, UndefinedAssumption DEF LengthOf, lengthMap
<1>4. ASSUME NEW o \in OFF
      PROVE  /\ offsetMap[o] = DistanceOf(off[o])
             /\ DistanceOf(off[o]) # Undefined <=> ValidInterval(off[o].duration)
  <2>1. ValidInterval(off[o].duration) => LengthOf(off[o].duration) \in Int
    BY <1>2 DEF TypeOK, dt_offset_t
  <2>2. ValidInterval(off[o].duration) => DistanceOf(off[o]) \in Int
    BY <2>1 DEF DistanceOf
  <2>3. ~ValidInterval(off[o].duration) => DistanceOf(off[o]) = Undefined
    BY DEF DistanceOf
  <2> QED
    BY <2>2, <2>3, UndefinedAssumption DEF offsetMap
<1> QED
  BY <1>1, <1>3, <1>4, ArgumentAssumption
     DEF Exact!Defined, dt_validate_timestamp, dt_validate_interval, dt_validate_offset, Ptr

(***************************************************************************)
(* A refused call is refused on the line too.                              *)
(***************************************************************************)
LEMMA RefuseRefined ==
  ASSUME NEW f, NEW s, Refuse(f, s)
  PROVE  Exact!Refuse(s) /\ fn' = f
BY DEF Refuse, Return, data, Exact!Refuse, Exact!data, instantMap, lengthMap, offsetMap

(***************************************************************************)
(* Storing an exact outcome in a register file delivers the exact value.   *)
(***************************************************************************)
LEMMA StoreInstant ==
  ASSUME TypeOK, NEW r \in TS, NEW outcome, NEW x, ExactTimestamp(outcome, x),
         ts' = Store(ts, r, outcome), status' = outcome.status
  PROVE  Exact!Deliver(instantMap, instantMap', r, x, Instants)
<1>1. Overflow.status = "DT_OVERFLOW" /\ \A w : Ok(w).status = "DT_OK"
  BY DEF Overflow, Ok
<1>2. CASE x \in Instants
  <2>1. outcome.status = "DT_OK" /\ InstantOf(outcome.value) = x
    BY <1>1, <1>2 DEF ExactTimestamp
  <2>2. ts' = [ts EXCEPT ![r] = outcome.value]
    BY <2>1 DEF Store
  <2>3. instantMap' = [instantMap EXCEPT ![r] = x]
    BY <2>1, <2>2 DEF instantMap, TypeOK
  <2> QED
    BY <1>2, <2>1, <2>3 DEF Exact!Deliver
<1>3. CASE x \notin Instants
  <2>1. outcome.status = "DT_OVERFLOW"
    BY <1>1, <1>3 DEF ExactTimestamp
  <2>2. ts' = ts
    BY <2>1 DEF Store
  <2>3. instantMap' = instantMap
    BY <2>2 DEF instantMap
  <2> QED
    BY <1>3, <2>1, <2>3 DEF Exact!Deliver
<1> QED
  BY <1>2, <1>3

(***************************************************************************)
(* The same for the intervals.                                             *)
(***************************************************************************)
LEMMA StoreLength ==
  ASSUME TypeOK, NEW r \in IV, NEW outcome, NEW x, ExactInterval(outcome, x),
         iv' = Store(iv, r, outcome), status' = outcome.status
  PROVE  Exact!Deliver(lengthMap, lengthMap', r, x, Lengths)
<1>1. Overflow.status = "DT_OVERFLOW" /\ \A w : Ok(w).status = "DT_OK"
  BY DEF Overflow, Ok
<1>2. CASE x \in Lengths
  <2>1. outcome.status = "DT_OK" /\ LengthOf(outcome.value) = x
    BY <1>1, <1>2 DEF ExactInterval
  <2>2. iv' = [iv EXCEPT ![r] = outcome.value]
    BY <2>1 DEF Store
  <2>3. lengthMap' = [lengthMap EXCEPT ![r] = x]
    BY <2>1, <2>2 DEF lengthMap, TypeOK
  <2> QED
    BY <1>2, <2>1, <2>3 DEF Exact!Deliver
<1>3. CASE x \notin Lengths
  <2>1. outcome.status = "DT_OVERFLOW"
    BY <1>1, <1>3 DEF ExactInterval
  <2>2. iv' = iv
    BY <2>1 DEF Store
  <2>3. lengthMap' = lengthMap
    BY <2>2 DEF lengthMap
  <2> QED
    BY <1>3, <2>1, <2>3 DEF Exact!Deliver
<1> QED
  BY <1>2, <1>3

-----------------------------------------------------------------------------
(***************************************************************************)
(* dt_now stores some representable instant, or nothing (dt_unix.c:43-57). *)
(***************************************************************************)
LEMMA NowRefined ==
  ASSUME TypeOK, NEW r \in Ptr(TS), dt_now(r)
  PROVE  Exact!Now(r) /\ fn' = "dt_now"
<1>1. CASE Refuse("dt_now", "DT_INVALID_ARGUMENT") /\ r = NULL
  BY <1>1, RefuseRefined DEF Exact!Now
<1>2. CASE Refuse("dt_now", "DT_SYSTEM_CALL_ERROR") /\ r # NULL
  BY <1>2, RefuseRefined DEF Exact!Now
<1>3. ASSUME r # NULL, NEW t \in ClockReadings, ts' = [ts EXCEPT ![r] = t],
             Return("dt_now", "DT_OK"), UNCHANGED <<iv, off, cmp, px>>
      PROVE  Exact!Now(r) /\ fn' = "dt_now"
  <2>1. r \in TS /\ t \in dt_timestamp_t /\ ValidTimestamp(t)
    BY <1>3, ArgumentAssumption, WordAssumption
       DEF dt_timestamp_t, ValidTimestamp, NanoPart, MAX_NANOSECONDS, ULongInt, ULONG_MAX, Ptr
  <2>2. InstantOf(t) \in Instants
    BY <2>1, InstantOnTheLine
  <2>3. instantMap' = [instantMap EXCEPT ![r] = InstantOf(t)] /\ instantMap'[r] = InstantOf(t)
    BY <1>3, <2>1 DEF instantMap, TypeOK
  <2> QED
    BY <1>3, <2>2, <2>3 DEF Exact!Now, Return, lengthMap, offsetMap
<1> QED
  BY <1>1, <1>2, <1>3 DEF dt_now

(***************************************************************************)
(* dt_posix_time_to_timestamp stores the exact instant, or an undefined    *)
(* one when its nano-second argument is out of range (dt_unix.c:59-68).    *)
(***************************************************************************)
LEMMA FromPosixRefined ==
  ASSUME TypeOK, NEW time \in LongInt, NEW nano \in Words, NEW r \in Ptr(TS),
         dt_posix_time_to_timestamp(time, nano, r)
  PROVE  Exact!FromPosix(time, nano, r) /\ fn' = "dt_posix_time_to_timestamp"
<1>0. time \in Int /\ nano \in Int
  BY ArgumentAssumption, WordAssumption DEF LongInt, LONG_MIN, ULongInt, ULONG_MAX
<1>1. CASE time < 0 \/ r = NULL
  <2>1. Refuse("dt_posix_time_to_timestamp", "DT_INVALID_ARGUMENT")
    BY <1>0, <1>1 DEF dt_posix_time_to_timestamp
  <2> QED
    BY <1>1, <2>1, RefuseRefined DEF Exact!FromPosix
<1>2. CASE ~(time < 0 \/ r = NULL)
  <2> DEFINE t == [second |-> time, nano_second |-> nano]
  <2>1. /\ r \in TS /\ ts' = [ts EXCEPT ![r] = t]
        /\ Return("dt_posix_time_to_timestamp", "DT_OK") /\ UNCHANGED <<iv, off, cmp, px>>
    BY <1>0, <1>2 DEF dt_posix_time_to_timestamp, Ptr
  <2>2. InstantOf(t) = IF nano < NANO THEN Exact!Quantity(time, nano) ELSE Undefined
    BY <1>0, WordAssumption DEF InstantOf, ValidTimestamp, MAX_NANOSECONDS, Quantity, Exact!Quantity
  <2>3. instantMap' = [instantMap EXCEPT ![r] = InstantOf(t)]
    BY <2>1 DEF instantMap, TypeOK
  <2> QED
    BY <1>2, <2>1, <2>2, <2>3 DEF Exact!FromPosix, Return, lengthMap, offsetMap
<1> QED
  BY <1>1, <1>2

(***************************************************************************)
(* dt_timestamp_to_posix_time splits an instant into the whole seconds     *)
(* before it and the rest (dt.c:587-596).                                  *)
(***************************************************************************)
LEMMA ToPosixRefined ==
  ASSUME TypeOK, NEW t \in Ptr(TS), NEW p \in Ptr(PX), NEW n \in NanoPointers,
         dt_timestamp_to_posix_time(t, p, n)
  PROVE  Exact!ToPosix(t, p, n) /\ fn' = "dt_timestamp_to_posix_time"
<1>1. CASE ~dt_validate_timestamp(t) \/ p = NULL
  <2>1. Refuse("dt_timestamp_to_posix_time", "DT_INVALID_ARGUMENT")
    BY <1>1 DEF dt_timestamp_to_posix_time
  <2> QED
    BY <1>1, <2>1, RefuseRefined, DefinedIffValid DEF Exact!ToPosix
<1>2. CASE dt_validate_timestamp(t) /\ p # NULL
  <2> DEFINE sec == ts[t].second
             nan == ts[t].nano_second
  <2>1. /\ t \in TS /\ p \in PX /\ ts[t] \in dt_timestamp_t /\ ValidTimestamp(ts[t])
        /\ n # NULL => n \in PX
    BY <1>2, ArgumentAssumption DEF dt_validate_timestamp, Ptr, TypeOK
  <2>2. /\ sec \in Int /\ nan \in NanoPart /\ nan \in Int
        /\ instantMap[t] = Quantity(sec, nan)
    BY <2>1, TimestampFields DEF instantMap
  <2>3. /\ Exact!Quantity(sec, 0) <= Quantity(sec, nan)
        /\ Quantity(sec, nan) < Exact!Quantity(sec + 1, 0)
        /\ Exact!Quantity(sec, nan) = Quantity(sec, nan)
    BY <2>2, WordAssumption DEF Exact!Quantity, Quantity, NanoPart, MAX_NANOSECONDS
  <2>4. UNCHANGED <<ts, iv, off, cmp>>
    BY <1>2 DEF dt_timestamp_to_posix_time
  <2>5. CASE n = NULL
    <3>1. /\ px' = [px EXCEPT ![p].time = sec]
          /\ Return("dt_timestamp_to_posix_time", "SIGSEGV")
      BY <1>2, <2>5 DEF dt_timestamp_to_posix_time
    <3>2. px'[p].time = sec
      BY <2>1, <3>1 DEF TypeOK
    <3> QED
      BY <1>2, <2>2, <2>3, <2>4, <2>5, <3>1, <3>2, DefinedIffValid
         DEF Exact!ToPosix, Return, instantMap, lengthMap, offsetMap
  <2>6. CASE n # NULL
    <3>1. /\ px' = [[px EXCEPT ![p].time = sec] EXCEPT ![n].nano_second = nan]
          /\ Return("dt_timestamp_to_posix_time", "DT_OK")
      BY <1>2, <2>6 DEF dt_timestamp_to_posix_time
    <3>2. px'[p].time = sec /\ px'[n].nano_second = nan
      BY <2>1, <2>6, <3>1 DEF TypeOK
    <3>3. px' = [px EXCEPT ![p].time = px'[p].time, ![n].nano_second = px'[n].nano_second]
      BY <3>1, <3>2
    <3> QED
      BY <1>2, <2>2, <2>3, <2>4, <2>6, <3>1, <3>2, <3>3, DefinedIffValid
         DEF Exact!ToPosix, Return, instantMap, lengthMap, offsetMap
  <2> QED
    BY <2>5, <2>6
<1> QED
  BY <1>1, <1>2

(***************************************************************************)
(* dt_compare_timestamps compares the instants (dt.c:115-139).             *)
(***************************************************************************)
LEMMA CompareTimestampsRefined ==
  ASSUME TypeOK, NEW l \in Ptr(TS), NEW r \in Ptr(TS), NEW c \in Ptr(CMP),
         dt_compare_timestamps(l, r, c)
  PROVE  Exact!Compare(instantMap, l, r, c) /\ fn' = "dt_compare_timestamps"
<1>1. CASE ~dt_validate_timestamp(l) \/ ~dt_validate_timestamp(r) \/ c = NULL
  <2>1. Refuse("dt_compare_timestamps", "DT_INVALID_ARGUMENT")
    BY <1>1 DEF dt_compare_timestamps
  <2> QED
    BY <1>1, <2>1, RefuseRefined, DefinedIffValid DEF Exact!Compare
<1>2. CASE dt_validate_timestamp(l) /\ dt_validate_timestamp(r) /\ c # NULL
  <2>1. /\ l \in TS /\ ts[l] \in dt_timestamp_t /\ ValidTimestamp(ts[l])
        /\ r \in TS /\ ts[r] \in dt_timestamp_t /\ ValidTimestamp(ts[r])
    BY <1>2 DEF dt_validate_timestamp, Ptr, TypeOK
  <2> DEFINE a == InstantOf(ts[l])
             b == InstantOf(ts[r])
  <2>2. instantMap[l] = a /\ instantMap[r] = b /\ a \in Int /\ b \in Int
    BY <2>1, InstantOnTheLine DEF instantMap
  <2>3. CompareTimestamps(ts[l], ts[r]) = IF a > b THEN 1 ELSE IF a < b THEN -1 ELSE 0
    BY <2>1, TimestampFields, LexicographicSign DEF CompareTimestamps
  <2> HIDE DEF a, b
  <2>4. CompareTimestamps(ts[l], ts[r]) = Exact!Sign(a - b)
    BY <2>2, <2>3 DEF Exact!Sign
  <2> QED
    BY <1>2, <2>2, <2>4, DefinedIffValid
       DEF dt_compare_timestamps, Exact!Compare, Return, instantMap, lengthMap, offsetMap
<1> QED
  BY <1>1, <1>2

(***************************************************************************)
(* dt_compare_intervals compares the lengths (dt.c:270-294).               *)
(***************************************************************************)
LEMMA CompareIntervalsRefined ==
  ASSUME TypeOK, NEW l \in Ptr(IV), NEW r \in Ptr(IV), NEW c \in Ptr(CMP),
         dt_compare_intervals(l, r, c)
  PROVE  Exact!Compare(lengthMap, l, r, c) /\ fn' = "dt_compare_intervals"
<1>1. CASE ~dt_validate_interval(l) \/ ~dt_validate_interval(r) \/ c = NULL
  <2>1. Refuse("dt_compare_intervals", "DT_INVALID_ARGUMENT")
    BY <1>1 DEF dt_compare_intervals
  <2> QED
    BY <1>1, <2>1, RefuseRefined, DefinedIffValid DEF Exact!Compare
<1>2. CASE dt_validate_interval(l) /\ dt_validate_interval(r) /\ c # NULL
  <2>1. /\ l \in IV /\ iv[l] \in dt_interval_t /\ ValidInterval(iv[l])
        /\ r \in IV /\ iv[r] \in dt_interval_t /\ ValidInterval(iv[r])
    BY <1>2 DEF dt_validate_interval, Ptr, TypeOK
  <2> DEFINE a == LengthOf(iv[l])
             b == LengthOf(iv[r])
  <2>2. lengthMap[l] = a /\ lengthMap[r] = b /\ a \in Int /\ b \in Int
    BY <2>1, IntervalFields, QuantityInt DEF lengthMap
  <2>3. CompareIntervals(iv[l], iv[r]) = IF a > b THEN 1 ELSE IF a < b THEN -1 ELSE 0
    BY <2>1, IntervalFields, LexicographicSign DEF CompareIntervals
  <2> HIDE DEF a, b
  <2>4. CompareIntervals(iv[l], iv[r]) = Exact!Sign(a - b)
    BY <2>2, <2>3 DEF Exact!Sign
  <2> QED
    BY <1>2, <2>2, <2>4, DefinedIffValid
       DEF dt_compare_intervals, Exact!Compare, Return, instantMap, lengthMap, offsetMap
<1> QED
  BY <1>1, <1>2

(***************************************************************************)
(* dt_offset_between stores the exact distance, however large              *)
(* (dt.c:141-183).                                                         *)
(***************************************************************************)
LEMMA BetweenRefined ==
  ASSUME TypeOK, NEW l \in Ptr(TS), NEW r \in Ptr(TS), NEW o \in Ptr(OFF),
         dt_offset_between(l, r, o)
  PROVE  Exact!Between(l, r, o) /\ fn' = "dt_offset_between"
<1>1. CASE ~dt_validate_timestamp(l) \/ ~dt_validate_timestamp(r) \/ o = NULL
  <2>1. Refuse("dt_offset_between", "DT_INVALID_ARGUMENT")
    BY <1>1 DEF dt_offset_between
  <2> QED
    BY <1>1, <2>1, RefuseRefined, DefinedIffValid DEF Exact!Between
<1>2. CASE dt_validate_timestamp(l) /\ dt_validate_timestamp(r) /\ o # NULL
  <2>1. /\ l \in TS /\ ts[l] \in dt_timestamp_t /\ ValidTimestamp(ts[l])
        /\ r \in TS /\ ts[r] \in dt_timestamp_t /\ ValidTimestamp(ts[r])
        /\ o \in OFF
    BY <1>2 DEF dt_validate_timestamp, Ptr, TypeOK
  <2>2. DistanceOf(OffsetBetween(ts[l], ts[r])) = instantMap[r] - instantMap[l]
    BY <2>1, OffsetBetweenExact DEF instantMap
  <2>3. /\ off' = [off EXCEPT ![o] = OffsetBetween(ts[l], ts[r])]
        /\ Return("dt_offset_between", "DT_OK") /\ UNCHANGED <<ts, iv, cmp, px>>
    BY <1>2 DEF dt_offset_between
  <2>4. offsetMap' = [offsetMap EXCEPT ![o] = instantMap[r] - instantMap[l]]
    BY <2>1, <2>2, <2>3 DEF offsetMap, TypeOK
  <2> QED
    BY <1>2, <2>3, <2>4, DefinedIffValid DEF Exact!Between, Return, instantMap, lengthMap
<1> QED
  BY <1>1, <1>2

(***************************************************************************)
(* dt_apply_offset moves an instant by exactly the offset, or reports that *)
(* the result is off the line (dt.c:193-249).                              *)
(***************************************************************************)
LEMMA ApplyRefined ==
  ASSUME TypeOK, NEW l \in Ptr(TS), NEW o \in Ptr(OFF), NEW r \in Ptr(TS),
         dt_apply_offset(l, o, r)
  PROVE  Exact!Apply(l, o, r) /\ fn' = "dt_apply_offset"
<1>1. CASE ~dt_validate_timestamp(l) \/ ~dt_validate_offset(o) \/ r = NULL
  <2>1. Refuse("dt_apply_offset", "DT_INVALID_ARGUMENT")
    BY <1>1 DEF dt_apply_offset
  <2> QED
    BY <1>1, <2>1, RefuseRefined, DefinedIffValid DEF Exact!Apply
<1>2. CASE dt_validate_timestamp(l) /\ dt_validate_offset(o) /\ r # NULL
  <2>1. /\ l \in TS /\ ts[l] \in dt_timestamp_t /\ ValidTimestamp(ts[l])
        /\ o \in OFF /\ off[o] \in dt_offset_t /\ ValidInterval(off[o].duration)
        /\ r \in TS
    BY <1>2 DEF dt_validate_timestamp, dt_validate_offset, Ptr, TypeOK
  <2> DEFINE outcome == ApplyOffset(ts[l], off[o])
  <2>2. ExactTimestamp(outcome, instantMap[l] + offsetMap[o])
    BY <2>1, ApplyOffsetExact DEF instantMap, offsetMap
  <2>3. /\ ts' = Store(ts, r, outcome) /\ Return("dt_apply_offset", outcome.status)
        /\ UNCHANGED <<iv, off, cmp, px>>
    BY <1>2 DEF dt_apply_offset
  <2> HIDE DEF outcome
  <2>4. Exact!Deliver(instantMap, instantMap', r, instantMap[l] + offsetMap[o], Instants)
    BY <2>1, <2>2, <2>3, StoreInstant DEF Return
  <2> QED
    BY <1>2, <2>3, <2>4, DefinedIffValid DEF Exact!Apply, Return, lengthMap, offsetMap
<1> QED
  BY <1>1, <1>2

(***************************************************************************)
(* dt_init_interval stores the exact length, or reports that no interval   *)
(* has it (dt.c:251-268).                                                  *)
(***************************************************************************)
LEMMA InitIntervalRefined ==
  ASSUME TypeOK, NEW s \in Words, NEW n \in Words, NEW r \in Ptr(IV),
         dt_init_interval(s, n, r)
  PROVE  Exact!InitInterval(s, n, r) /\ fn' = "dt_init_interval"
<1>1. CASE r = NULL
  <2>1. Refuse("dt_init_interval", "DT_INVALID_ARGUMENT")
    BY <1>1 DEF dt_init_interval
  <2> QED
    BY <1>1, <2>1, RefuseRefined DEF Exact!InitInterval
<1>2. CASE r # NULL
  <2> DEFINE outcome == InitInterval(s, n)
  <2>1. r \in IV /\ s \in ULongInt /\ n \in ULongInt
    BY <1>2, ArgumentAssumption DEF Ptr
  <2>2. Quantity(s, n) = Exact!Quantity(s, n)
    BY DEF Quantity, Exact!Quantity
  <2>3. ExactInterval(outcome, Exact!Quantity(s, n))
    BY <2>1, <2>2, InitIntervalExact
  <2>4. /\ iv' = Store(iv, r, outcome) /\ Return("dt_init_interval", outcome.status)
        /\ UNCHANGED <<ts, off, cmp, px>>
    BY <1>2 DEF dt_init_interval
  <2> HIDE DEF outcome
  <2>5. Exact!Deliver(lengthMap, lengthMap', r, Exact!Quantity(s, n), Lengths)
    BY <2>1, <2>3, <2>4, StoreLength DEF Return
  <2> QED
    BY <1>2, <2>4, <2>5 DEF Exact!InitInterval, Return, instantMap, offsetMap
<1> QED
  BY <1>1, <1>2

(***************************************************************************)
(* dt_sum_intervals adds lengths (dt.c:296-319).                           *)
(***************************************************************************)
LEMMA SumRefined ==
  ASSUME TypeOK, NEW l \in Ptr(IV), NEW r \in Ptr(IV), NEW d \in Ptr(IV),
         dt_sum_intervals(l, r, d)
  PROVE  Exact!Sum(l, r, d) /\ fn' = "dt_sum_intervals"
<1>1. CASE ~dt_validate_interval(l) \/ ~dt_validate_interval(r) \/ d = NULL
  <2>1. Refuse("dt_sum_intervals", "DT_INVALID_ARGUMENT")
    BY <1>1 DEF dt_sum_intervals
  <2> QED
    BY <1>1, <2>1, RefuseRefined, DefinedIffValid DEF Exact!Sum
<1>2. CASE dt_validate_interval(l) /\ dt_validate_interval(r) /\ d # NULL
  <2>1. /\ l \in IV /\ iv[l] \in dt_interval_t /\ ValidInterval(iv[l])
        /\ r \in IV /\ iv[r] \in dt_interval_t /\ ValidInterval(iv[r])
        /\ d \in IV
    BY <1>2 DEF dt_validate_interval, Ptr, TypeOK
  <2> DEFINE outcome == SumIntervals(iv[l], iv[r])
  <2>2. ExactInterval(outcome, lengthMap[l] + lengthMap[r])
    BY <2>1, SumIntervalsExact DEF lengthMap
  <2>3. /\ iv' = Store(iv, d, outcome) /\ Return("dt_sum_intervals", outcome.status)
        /\ UNCHANGED <<ts, off, cmp, px>>
    BY <1>2 DEF dt_sum_intervals
  <2> HIDE DEF outcome
  <2>4. Exact!Deliver(lengthMap, lengthMap', d, lengthMap[l] + lengthMap[r], Lengths)
    BY <2>1, <2>2, <2>3, StoreLength DEF Return
  <2> QED
    BY <1>2, <2>3, <2>4, DefinedIffValid DEF Exact!Sum, Return, instantMap, offsetMap
<1> QED
  BY <1>1, <1>2

(***************************************************************************)
(* dt_sub_intervals subtracts lengths, and reports an overflow exactly     *)
(* when the result would be negative (dt.c:321-352).                       *)
(***************************************************************************)
LEMMA SubRefined ==
  ASSUME TypeOK, NEW l \in Ptr(IV), NEW r \in Ptr(IV), NEW d \in Ptr(IV),
         dt_sub_intervals(l, r, d)
  PROVE  Exact!Subtract(l, r, d) /\ fn' = "dt_sub_intervals"
<1>1. CASE ~dt_validate_interval(l) \/ ~dt_validate_interval(r) \/ d = NULL
  <2>1. Refuse("dt_sub_intervals", "DT_INVALID_ARGUMENT")
    BY <1>1 DEF dt_sub_intervals
  <2> QED
    BY <1>1, <2>1, RefuseRefined, DefinedIffValid DEF Exact!Subtract
<1>2. CASE dt_validate_interval(l) /\ dt_validate_interval(r) /\ d # NULL
  <2>1. /\ l \in IV /\ iv[l] \in dt_interval_t /\ ValidInterval(iv[l])
        /\ r \in IV /\ iv[r] \in dt_interval_t /\ ValidInterval(iv[r])
        /\ d \in IV
    BY <1>2 DEF dt_validate_interval, Ptr, TypeOK
  <2> DEFINE outcome == SubIntervals(iv[l], iv[r])
  <2>2. ExactInterval(outcome, lengthMap[l] - lengthMap[r])
    BY <2>1, SubIntervalsExact DEF lengthMap
  <2>3. /\ iv' = Store(iv, d, outcome) /\ Return("dt_sub_intervals", outcome.status)
        /\ UNCHANGED <<ts, off, cmp, px>>
    BY <1>2 DEF dt_sub_intervals
  <2> HIDE DEF outcome
  <2>4. Exact!Deliver(lengthMap, lengthMap', d, lengthMap[l] - lengthMap[r], Lengths)
    BY <2>1, <2>2, <2>3, StoreLength DEF Return
  <2> QED
    BY <1>2, <2>3, <2>4, DefinedIffValid DEF Exact!Subtract, Return, instantMap, offsetMap
<1> QED
  BY <1>1, <1>2

(***************************************************************************)
(* dt_mul_interval changes its result register and nothing else, which is  *)
(* all Timeline says of it (dt.c:354-379).                                 *)
(***************************************************************************)
LEMMA MulRefined ==
  ASSUME TypeOK, NEW l \in Ptr(IV), NEW d \in Ptr(IV), NEW m \in Multipliers,
         dt_mul_interval(l, m, d)
  PROVE  Exact!Multiply(l, d) /\ fn' = "dt_mul_interval"
<1>1. CASE ~dt_validate_interval(l) \/ d = NULL
  <2>1. Refuse("dt_mul_interval", "DT_INVALID_ARGUMENT")
    BY <1>1 DEF dt_mul_interval
  <2> QED
    BY <1>1, <2>1, RefuseRefined, DefinedIffValid DEF Exact!Multiply
<1>2. CASE dt_validate_interval(l) /\ d # NULL
  <2>1. d \in IV
    BY <1>2 DEF Ptr
  <2>2. /\ fn' = "dt_mul_interval" /\ status' \in {"DT_OK", "DT_OVERFLOW"}
        /\ UNCHANGED <<ts, off, cmp, px>>
        /\ \E v : iv' = [iv EXCEPT ![d] = v]
    <3>1. CASE m.den = 0
      BY <1>2, <3>1, <2>1 DEF dt_mul_interval, Refuse, Return, data, TypeOK
    <3>2. CASE m.den # 0
      <4> DEFINE p == Product(iv[l], m)
      <4>1. PICK s \in CastToULong(FloorSeconds(p, m)) :
              IF s = 0 /\ p # 0
              THEN /\ iv' = [iv EXCEPT ![d].seconds = s]
                   /\ Return("dt_mul_interval", "DT_OVERFLOW")
              ELSE /\ \E n \in CastToULong(FractionNanos(p, m)) :
                        iv' = [iv EXCEPT ![d] = [seconds |-> s, nano_seconds |-> n]]
                   /\ Return("dt_mul_interval", "DT_OK")
        BY <1>2, <3>2 DEF dt_mul_interval
      <4>2. UNCHANGED <<ts, off, cmp, px>>
        BY <1>2, <3>2 DEF dt_mul_interval
      <4> HIDE DEF p
      <4>3. CASE s = 0 /\ p # 0
        <5>1. iv' = [iv EXCEPT ![d] = [iv[d] EXCEPT !.seconds = s]]
          BY <4>1, <4>3
        <5> QED
          BY <4>1, <4>2, <4>3, <5>1 DEF Return
      <4>4. CASE ~(s = 0 /\ p # 0)
        BY <4>1, <4>2, <4>4 DEF Return
      <4> QED
        BY <4>3, <4>4
    <3> QED
      BY <3>1, <3>2
  <2>3. lengthMap' = [lengthMap EXCEPT ![d] = lengthMap'[d]]
    BY <2>1, <2>2 DEF lengthMap, TypeOK
  <2> QED
    BY <1>2, <2>2, <2>3, DefinedIffValid DEF Exact!Multiply, instantMap, offsetMap
<1> QED
  BY <1>1, <1>2

(***************************************************************************)
(* The client's own assignment to an offset.                               *)
(***************************************************************************)
LEMMA FillRefined ==
  ASSUME TypeOK, NEW o \in OFF, NEW v, FillOffset(o, v)
  PROVE  Exact!Fill(o) /\ fn' = "client"
<1>1. offsetMap' = [offsetMap EXCEPT ![o] = offsetMap'[o]]
  BY DEF FillOffset, offsetMap, TypeOK
<1> QED
  BY <1>1 DEF FillOffset, Return, Exact!Fill, instantMap, lengthMap

-----------------------------------------------------------------------------
(***************************************************************************)
(* All registers start at zero, on the line too.                           *)
(***************************************************************************)
LEMMA InitRefined == Init => Exact!Init
<1> SUFFICES ASSUME Init PROVE Exact!Init
  OBVIOUS
<1>0. 0 * NANO + 0 = 0 /\ 0 <= NANO - 1
  BY WordAssumption
<1>1. Quantity(0, 0) = 0 /\ 0 <= MAX_NANOSECONDS
  BY <1>0 DEF Quantity, MAX_NANOSECONDS
<1>2. instantMap = [t \in TS |-> 0] /\ lengthMap = [i \in IV |-> 0]
  BY <1>1 DEF Init, instantMap, lengthMap, InstantOf, LengthOf, ValidTimestamp, ValidInterval
<1>3. offsetMap = [o \in OFF |-> 0]
  BY <1>1 DEF Init, offsetMap, DistanceOf, LengthOf, ValidInterval
<1> QED
  BY <1>2, <1>3 DEF Init, Exact!Init

(***************************************************************************)
(* Every call on machine words is the same call on exact integers.         *)
(***************************************************************************)
LEMMA StepRefined ==
  ASSUME TypeOK, [Next]_vars
  PROVE  [Exact!Next]_(Exact!vars)
<1>1. CASE UNCHANGED vars
  BY <1>1 DEF vars, Exact!vars, instantMap, lengthMap, offsetMap
<1>2. CASE TimestampCall
  <2>1. ASSUME NEW r \in Ptr(TS), dt_now(r) PROVE Exact!Next
    BY <2>1, NowRefined DEF Exact!Next, Exact!Ptr, Ptr
  <2>2. ASSUME NEW time \in LongInt, NEW nano \in Words, NEW r \in Ptr(TS),
               dt_posix_time_to_timestamp(time, nano, r)
        PROVE  Exact!Next
    BY <2>2, FromPosixRefined DEF Exact!Next, Exact!Ptr, Ptr
  <2>3. ASSUME NEW t \in Ptr(TS), NEW p \in Ptr(PX), NEW n \in NanoPointers,
               dt_timestamp_to_posix_time(t, p, n)
        PROVE  Exact!Next
    BY <2>3, ToPosixRefined, ArgumentAssumption DEF Exact!Next, Exact!Ptr, Ptr
  <2>4. ASSUME NEW l \in Ptr(TS), NEW r \in Ptr(TS), NEW c \in Ptr(CMP),
               dt_compare_timestamps(l, r, c)
        PROVE  Exact!Next
    BY <2>4, CompareTimestampsRefined DEF Exact!Next, Exact!Ptr, Ptr
  <2>5. ASSUME NEW l \in Ptr(TS), NEW r \in Ptr(TS), NEW o \in Ptr(OFF),
               dt_offset_between(l, r, o)
        PROVE  Exact!Next
    BY <2>5, BetweenRefined DEF Exact!Next, Exact!Ptr, Ptr
  <2>6. ASSUME NEW l \in Ptr(TS), NEW o \in Ptr(OFF), NEW r \in Ptr(TS),
               dt_apply_offset(l, o, r)
        PROVE  Exact!Next
    BY <2>6, ApplyRefined DEF Exact!Next, Exact!Ptr, Ptr
  <2> QED
    BY <1>2, <2>1, <2>2, <2>3, <2>4, <2>5, <2>6 DEF TimestampCall
<1>3. CASE IntervalCall
  <2>1. ASSUME NEW s \in Words, NEW n \in Words, NEW r \in Ptr(IV), dt_init_interval(s, n, r)
        PROVE  Exact!Next
    BY <2>1, InitIntervalRefined DEF Exact!Next, Exact!Ptr, Ptr
  <2>2. ASSUME NEW l \in Ptr(IV), NEW r \in Ptr(IV), NEW c \in Ptr(CMP),
               dt_compare_intervals(l, r, c)
        PROVE  Exact!Next
    BY <2>2, CompareIntervalsRefined DEF Exact!Next, Exact!Ptr, Ptr
  <2>3. ASSUME NEW l \in Ptr(IV), NEW r \in Ptr(IV), NEW d \in Ptr(IV),
               dt_sum_intervals(l, r, d)
        PROVE  Exact!Next
    BY <2>3, SumRefined DEF Exact!Next, Exact!Ptr, Ptr
  <2>4. ASSUME NEW l \in Ptr(IV), NEW r \in Ptr(IV), NEW d \in Ptr(IV),
               dt_sub_intervals(l, r, d)
        PROVE  Exact!Next
    BY <2>4, SubRefined DEF Exact!Next, Exact!Ptr, Ptr
  <2>5. ASSUME NEW l \in Ptr(IV), NEW d \in Ptr(IV), NEW m \in Multipliers,
               dt_mul_interval(l, m, d)
        PROVE  Exact!Next
    BY <2>5, MulRefined DEF Exact!Next, Exact!Ptr, Ptr
  <2> QED
    BY <1>3, <2>1, <2>2, <2>3, <2>4, <2>5 DEF IntervalCall
<1>4. CASE ClientStep
  <2>1. ASSUME NEW o \in OFF, NEW v \in OffsetInputs, FillOffset(o, v) PROVE Exact!Next
    BY <2>1, FillRefined DEF Exact!Next
  <2> QED
    BY <1>4, <2>1 DEF ClientStep
<1> QED
  BY <1>1, <1>2, <1>3, <1>4 DEF Next

(***************************************************************************)
(* The arithmetic of dt.c implements exact arithmetic, for every word size *)
(* and for any sequence of calls on any set of variables.                  *)
(***************************************************************************)
THEOREM TimelineImplemented == Spec => ImplementsTimeline
<1>1. Init => Exact!Init
  BY InitRefined
<1>2. TypeOK /\ [Next]_vars => [Exact!Next]_(Exact!vars)
  BY StepRefined
<1> QED
  BY <1>1, <1>2, TypeCorrect, PTL DEF Spec, ImplementsTimeline, Exact!Spec
=============================================================================
