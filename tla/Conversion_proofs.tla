------------------------- MODULE Conversion_proofs --------------------------
(***************************************************************************)
(* Proofs about LibTzMktime, and DtConversion and PosixTz above it, for    *)
(* every zone, every time_t and every name.  First libtz: what it reads is *)
(* right, the binary search ends, what it finds is right, and it finds     *)
(* what there is.  Then the functions that call it: no path leaves a zone  *)
(* behind that was looked up, what is converted is right, and what cannot  *)
(* be converted is an error.                                               *)
(***************************************************************************)
EXTENDS Conversion, CivilTime_proofs

(***************************************************************************)
(* What has been read is what localsub says of the instant; what is        *)
(* refused, localsub refused.                                              *)
(***************************************************************************)
ReadInv ==
  pc = "read" =>
    /\ sp \in Zones /\ instant \in Instants
    /\ localsub(sp, instant, ZeroTm).ok /\ tm = localsub(sp, instant, ZeroTm).tm

(* The reading b of the instant x is right.                                *)
ShownRight(z, x, b) ==
  /\ \E i \in 1 .. Len(z.ttis) :
       /\ z.ttis[i].isdst = b.isdst
       /\ LocalSeconds(b) = x + z.ttis[i].gmtoff - LeapSeconds(z, x)
  /\ b.wday = (Days(b) + EPOCH_WDAY) % DAYSPERWEEK
  /\ b.yday = Days(b) - Days([b EXCEPT !.mon = 0, !.mday = 1])
  /\ b.mon \in 0 .. 11 /\ b.mday \in 1 .. mon_lengths(b.year + TM_YEAR_BASE)[b.mon + 1]
  /\ b.hour \in 0 .. HOURSPERDAY - 1
  /\ b.min \in 0 .. MINSPERHOUR - 1
  /\ IF Showing(z, x) = {} THEN b.sec \in 0 .. SECSPERMIN - 1
     ELSE b.sec = SECSPERMIN - 1 + Cardinality(Showing(z, x))

(***************************************************************************)
(* What localsub writes is a right reading.                                *)
(***************************************************************************)
LEMMA ReadIsShown ==
  ASSUME NEW z, IsZone(z), SoundLeaps(z), NEW x \in Int, localsub(z, x, ZeroTm).ok,
         NEW b, b = localsub(z, x, ZeroTm).tm
  PROVE  ShownRight(z, x, b)
<1> DEFINE corr == Correction(z, x)
           hit == Hits(z, x)
           leap == LeapSeconds(z, x)
           shows == Showing(z, x)
<1>1. LeapsCounted(z, x)
  BY LeapsAreCounted
<1>2. /\ corr \in Int /\ hit \in Nat /\ hit = Cardinality(shows) /\ leap = corr - hit
      /\ shows = {} <=> hit = 0
      /\ shows # {} => (x + z.ttis[TypeAt(z, x)].gmtoff - corr) % SECSPERMIN = SECSPERMIN - 1
  BY <1>1 DEF LeapsCounted
<1>3. PICK i \in 1 .. Len(z.ttis) :
        /\ b.isdst = z.ttis[i].isdst
        /\ Counted(b, x + z.ttis[i].gmtoff - corr, hit)
        /\ z.lsis # <<>> => i = TypeAt(z, x)
  BY LocalsubRight
<1>4. shows # {} => z.lsis # <<>>
  <2> SUFFICES ASSUME z.lsis = <<>> PROVE shows = {}
    OBVIOUS
  <2>1. hit = 0
    BY NoLeaps
  <2> HIDE DEF shows, hit
  <2> QED BY <1>2, <2>1
<1> DEFINE off == z.ttis[i].gmtoff
           y == x + off - corr
<1>5. off \in Int
  BY DEF IsZone
<1>6. y \in Int /\ y + hit = x + off - leap /\ Counted(b, y, hit)
  <2> HIDE DEF corr, hit, leap, off, shows
  <2>1. y \in Int /\ y + hit = x + off - leap
    BY <1>2, <1>5
  <2> QED BY <2>1, <1>3 DEF off
<1>7. shows # {} => y % SECSPERMIN = SECSPERMIN - 1
  BY <1>2, <1>3, <1>4
<1> HIDE DEF corr, hit, leap, shows, y, off
<1>8. /\ b.mon \in 0 .. 11 /\ b.mday \in 1 .. mon_lengths(b.year + TM_YEAR_BASE)[b.mon + 1]
      /\ b.hour \in 0 .. HOURSPERDAY - 1 /\ b.min \in 0 .. MINSPERHOUR - 1
      /\ b.sec = (y % SECSPERMIN) + hit
      /\ b.wday = (Days(b) + EPOCH_WDAY) % DAYSPERWEEK
      /\ b.yday = Days(b) - Days([b EXCEPT !.mon = 0, !.mday = 1])
      /\ LocalSeconds(b) = y + hit
  BY <1>6 DEF Counted
<1>9. IF shows = {} THEN b.sec \in 0 .. SECSPERMIN - 1 ELSE b.sec = SECSPERMIN - 1 + Cardinality(shows)
  <2>1. y % SECSPERMIN \in 0 .. SECSPERMIN - 1 /\ SECSPERMIN \in Nat \ {0}
    BY <1>6, DivMod, Units
  <2> QED BY <1>2, <1>7, <1>8, <2>1
<1>10. LocalSeconds(b) = x + off - leap
  BY <1>6, <1>8
<1> QED BY <1>3, <1>8, <1>9, <1>10 DEF ShownRight, shows, leap, off

(***************************************************************************)
(* Every step keeps what was read, until something else is.                *)
(***************************************************************************)
LEMMA ReadStays ==
  ASSUME ReadInv, [Next]_vars
  PROVE  ReadInv'
<1> SUFFICES ASSUME pc' = "read" PROVE ReadInv'
  BY DEF ReadInv
<1>1. CASE Ask
  <2>1. PICK z \in Zones, x \in Instants : tz_localtime_r(z, x)
    BY <1>1 DEF Ask
  <2>2. localsub(z, x, ZeroTm).ok /\ tm' = localsub(z, x, ZeroTm).tm /\ sp' = z /\ instant' = x
    BY <2>1 DEF tz_localtime_r
  <2> QED BY <2>2 DEF ReadInv
<1>2. CASE AskFor \/ NextQuestion \/ MktimeStep
  <2>1. pc' # "read"
    BY <1>2 DEF AskFor, tz_mktime, NextQuestion, MktimeStep, time2sub, Probe, Narrow, NotFound, Match,
                Hunt, label, time2, time1, Return
  <2> QED BY <2>1
<1>3. CASE UNCHANGED vars
  BY <1>3 DEF ReadInv, vars
<1> QED BY <1>1, <1>2, <1>3 DEF Next

(***************************************************************************)
(* tz_localtime_r counts right (ClockRight), in every zone whose leap      *)
(* seconds are at the ends of minutes and for every time_t.                *)
(***************************************************************************)
THEOREM ClockIsRight == Spec => []ClockRight
<1>1. Init => ReadInv
  BY DEF Init, ReadInv
<1>2. ReadInv => ClockRight
  <2> SUFFICES ASSUME ReadInv, pc = "read" PROVE ClockRight
    BY DEF ClockRight
  <2>1. sp \in Zones /\ instant \in Instants
        /\ localsub(sp, instant, ZeroTm).ok /\ tm = localsub(sp, instant, ZeroTm).tm
    BY DEF ReadInv
  <2>2. IsZone(sp) /\ SoundLeaps(sp)
    BY <2>1, SearchAssumption, SoundLeapsAssumption
  <2>3. instant \in Int
    BY <2>1, SearchAssumption DEF TIME_T_MIN
  <2>4. ShownRight(sp, instant, tm)
    BY <2>1, <2>2, <2>3, ReadIsShown
  <2> QED BY <2>4 DEF ClockRight, ShownRight
<1> QED BY <1>1, <1>2, ReadStays, PTL DEF Spec

(* A day that is in its month.                                             *)
InMonth(p) == 1 <= p[3] /\ p[3] <= mon_lengths(p[1])[p[2] + 1]

(***************************************************************************)
(* The year whose February 29th a step of a year from the month passes     *)
(* (libtz.c:1730).                                                         *)
(***************************************************************************)
YearOfFebruary(y, mon) == IF 1 < mon THEN y + 1 ELSE y

(* One round of time2sub's loops over the days.                            *)
CarryNext(p) ==
  IF p[3] <= 0 THEN <<p[1] - 1, p[2], p[3] + year_lengths(YearOfFebruary(p[1] - 1, p[2]))>>
  ELSE IF p[3] > DAYSPERLYEAR THEN <<p[1] + 1, p[2], p[3] - year_lengths(YearOfFebruary(p[1], p[2]))>>
  ELSE IF p[2] = 11 THEN <<p[1] + 1, 0, p[3] - mon_lengths(p[1])[p[2] + 1]>>
  ELSE <<p[1], p[2] + 1, p[3] - mon_lengths(p[1])[p[2] + 1]>>

(* How far a day is from its month.                                        *)
CarryDistance(p) == IF p[3] <= 0 THEN 400 - p[3] ELSE p[3]

(* A year from a month on has the days that time2sub takes for it.         *)
YearOn(y, m) ==
  /\ YearStart(y + 1) + MonthStart[<<y + 1, m>>]
       = YearStart(y) + MonthStart[<<y, m>>] + year_lengths(YearOfFebruary(y, m))
  /\ year_lengths(YearOfFebruary(y, m)) \in {365, 366}
  /\ YearStart(y) \in Int /\ MonthStart[<<y, m>>] \in Int
  /\ YearStart(y + 1) \in Int /\ MonthStart[<<y + 1, m>>] \in Int

(***************************************************************************)
(* It has.                                                                 *)
(***************************************************************************)
LEMMA YearFromMonth ==
  ASSUME NEW y \in Int, NEW m \in 0 .. 11
  PROVE  YearOn(y, m)
<1> DEFINE a == LeapDay(y)
           b == LeapDay(y + 1)
           S(k) == MonthStart[<<y, k>>]
           R(k) == MonthStart[<<y + 1, k>>]
<1>1. y + 1 \in Int
  OBVIOUS
<1>2. StartsOfMonths(y, a) /\ StartsOfMonths(y + 1, b) /\ a \in {0, 1} /\ b \in {0, 1}
  BY <1>1, MonthStarts
<1>3. year_lengths(y) = 365 + a /\ year_lengths(y + 1) = 365 + b
  BY DEF year_lengths, LeapDay, DAYSPERLYEAR, DAYSPERNYEAR
<1>4. YearStart(y + 1) = YearStart(y) + year_lengths(y) /\ YearStart(y) \in Int /\ YearStart(y + 1) \in Int
  BY <1>1, YearStarts
<1> DEFINE Right(k) == R(k) - S(k) = (IF 1 < k THEN b - a ELSE 0) /\ S(k) \in Int /\ R(k) \in Int
<1>5. /\ Right(0) /\ Right(1) /\ Right(2) /\ Right(3) /\ Right(4) /\ Right(5)
      /\ Right(6) /\ Right(7) /\ Right(8) /\ Right(9) /\ Right(10) /\ Right(11)
  <2> HIDE DEF a, b
  <2> QED BY <1>2 DEF StartsOfMonths
<1>6. Right(m)
  <2> HIDE DEF Right
  <2> QED BY <1>5
<1>7. year_lengths(YearOfFebruary(y, m)) = 365 + (IF 1 < m THEN b ELSE a)
  BY <1>3 DEF YearOfFebruary
<1> HIDE DEF a, b
<1> QED BY <1>2, <1>3, <1>4, <1>6, <1>7 DEF YearOn

(***************************************************************************)
(* A round stays on the day, and comes closer.                             *)
(***************************************************************************)
LEMMA CarryCloser ==
  ASSUME NEW p \in Int \X (0 .. 11) \X Int, ~InMonth(p)
  PROVE  /\ CarryNext(p) \in Int \X (0 .. 11) \X Int
         /\ DaysTo(CarryNext(p)[1], CarryNext(p)[2], CarryNext(p)[3]) = DaysTo(p[1], p[2], p[3])
         /\ CarryDistance(CarryNext(p)) < CarryDistance(p)
<1> DEFINE y == p[1]
           m == p[2]
           d == p[3]
           len == mon_lengths(y)[m + 1]
           S(k) == MonthStart[<<y, k>>]
<1>1. y \in Int /\ m \in 0 .. 11 /\ d \in Int
  OBVIOUS
<1>2. len \in 28 .. 31 /\ S(m + 1) = S(m) + len /\ S(m) \in Nat
  <2> HIDE DEF y, m, d
  <2> QED BY <1>1, MonthLengths
<1>3. YearStart(y) \in Int /\ YearStart(y + 1) = YearStart(y) + year_lengths(y)
  BY <1>1, YearStarts
<1>4. CASE d <= 0
  <2> DEFINE n == year_lengths(YearOfFebruary(y - 1, m))
             w == y - 1
  <2>1. w \in Int /\ w + 1 = y
    BY <1>1
  <2>2. /\ YearStart(y) + S(m) = YearStart(w) + MonthStart[<<w, m>>] + n /\ n \in {365, 366}
        /\ YearStart(w) \in Int /\ MonthStart[<<w, m>>] \in Int
    <3>1. YearOn(w, m)
      <4> HIDE DEF w, m
      <4> QED BY <1>1, <2>1, YearFromMonth
    <3> QED BY <2>1, <3>1 DEF YearOn
  <2>3. CarryNext(p) = <<w, m, d + n>>
    BY <1>4 DEF CarryNext
  <2> HIDE DEF n, w, S, y, m, d
  <2>4. CarryNext(p) \in Int \X (0 .. 11) \X Int
    BY <1>1, <2>1, <2>2, <2>3
  <2>5. CarryNext(p)[1] = w /\ CarryNext(p)[2] = m /\ CarryNext(p)[3] = d + n
    BY <2>3
  <2>6. DaysTo(w, m, d + n) = DaysTo(y, m, d)
    BY <1>1, <1>2, <1>3, <2>2 DEF DaysTo, S
  <2>7. CarryDistance(CarryNext(p)) < CarryDistance(p)
    BY <1>1, <1>4, <2>2, <2>5 DEF CarryDistance, d
  <2> QED BY <2>4, <2>5, <2>6, <2>7 DEF y, m, d
<1>5. CASE d > DAYSPERLYEAR
  <2> DEFINE n == year_lengths(YearOfFebruary(y, m))
             w == y + 1
  <2>1. w \in Int
    BY <1>1
  <2>2. /\ YearStart(w) + MonthStart[<<w, m>>] = YearStart(y) + S(m) + n /\ n \in {365, 366}
        /\ YearStart(w) \in Int /\ MonthStart[<<w, m>>] \in Int
    <3>1. YearOn(y, m)
      <4> HIDE DEF m, y
      <4> QED BY <1>1, YearFromMonth
    <3> QED BY <3>1 DEF YearOn
  <2>3. CarryNext(p) = <<w, m, d - n>>
    BY <1>5, <1>1 DEF CarryNext, DAYSPERLYEAR
  <2> HIDE DEF n, w, S, y, m, d
  <2>4. CarryNext(p) \in Int \X (0 .. 11) \X Int
    BY <1>1, <2>1, <2>2, <2>3
  <2>5. CarryNext(p)[1] = w /\ CarryNext(p)[2] = m /\ CarryNext(p)[3] = d - n
    BY <2>3
  <2>6. DaysTo(w, m, d - n) = DaysTo(y, m, d)
    BY <1>1, <1>2, <1>3, <2>2 DEF DaysTo, S
  <2>7. CarryDistance(CarryNext(p)) < CarryDistance(p)
    BY <1>1, <1>5, <2>2, <2>5 DEF CarryDistance, d, DAYSPERLYEAR
  <2> QED BY <2>4, <2>5, <2>6, <2>7 DEF y, m, d
<1>6. CASE d > 0 /\ d <= DAYSPERLYEAR /\ m = 11
  <2>1. d > len
    BY <1>1, <1>2, <1>6 DEF InMonth
  <2>2. CarryNext(p) = <<y + 1, 0, d - len>>
    BY <1>1, <1>6 DEF CarryNext, DAYSPERLYEAR
  <2>3. MonthStart[<<y + 1, 0>>] = 0 /\ S(12) = year_lengths(y)
    <3>1. y + 1 \in Int
      BY <1>1
    <3>2. StartsOfMonths(y, LeapDay(y)) /\ StartsOfMonths(y + 1, LeapDay(y + 1)) /\ LeapDay(y) \in {0, 1}
      BY <1>1, <3>1, MonthStarts
    <3>3. year_lengths(y) = 365 + LeapDay(y)
      BY DEF year_lengths, LeapDay, DAYSPERLYEAR, DAYSPERNYEAR
    <3>4. S(12) = 365 + LeapDay(y) /\ MonthStart[<<y + 1, 0>>] = 0
      <4> HIDE DEF y
      <4> QED BY <3>2 DEF StartsOfMonths
    <3> QED BY <3>3, <3>4
  <2>4. S(12) = S(m) + len
    BY <1>2, <1>6
  <2> HIDE DEF len, S, y, m, d
  <2>5. CarryNext(p)[1] = y + 1 /\ CarryNext(p)[2] = 0 /\ CarryNext(p)[3] = d - len
    BY <2>2
  <2>6. CarryNext(p) \in Int \X (0 .. 11) \X Int
    BY <1>1, <1>2, <2>2
  <2>7. year_lengths(y) \in Int
    BY <1>1, YearStarts
  <2>8. DaysTo(y + 1, 0, d - len) = DaysTo(y, m, d)
    BY <1>1, <1>2, <1>3, <2>3, <2>4, <2>7 DEF DaysTo, S
  <2>9. CarryDistance(CarryNext(p)) < CarryDistance(p)
    BY <1>1, <1>2, <1>6, <2>1, <2>5 DEF CarryDistance, d
  <2> QED BY <2>5, <2>6, <2>8, <2>9 DEF y, m, d
<1>7. CASE d > 0 /\ d <= DAYSPERLYEAR /\ m # 11
  <2>1. d > len
    BY <1>1, <1>2, <1>7 DEF InMonth
  <2>2. CarryNext(p) = <<y, m + 1, d - len>>
    BY <1>1, <1>7 DEF CarryNext, DAYSPERLYEAR
  <2> HIDE DEF len, S, y, m, d
  <2>5. CarryNext(p)[1] = y /\ CarryNext(p)[2] = m + 1 /\ CarryNext(p)[3] = d - len
    BY <2>2
  <2>6. CarryNext(p) \in Int \X (0 .. 11) \X Int
    BY <1>1, <1>2, <1>7, <2>2
  <2>8. DaysTo(y, m + 1, d - len) = DaysTo(y, m, d)
    BY <1>1, <1>2, <1>3 DEF DaysTo, S
  <2>9. CarryDistance(CarryNext(p)) < CarryDistance(p)
    BY <1>1, <1>2, <1>7, <2>1, <2>5 DEF CarryDistance, d
  <2> QED BY <2>5, <2>6, <2>8, <2>9 DEF y, m, d
<1> QED
  <2>1. d <= 0 \/ d > DAYSPERLYEAR \/ (d > 0 /\ d <= DAYSPERLYEAR)
    BY <1>1 DEF DAYSPERLYEAR
  <2> QED BY <1>4, <1>5, <1>6, <1>7, <2>1

(***************************************************************************)
(* The loops end in the month of the day, and stay on the day.             *)
(***************************************************************************)
LEMMA CarryDaysRight ==
  ASSUME NEW p \in Int \X (0 .. 11) \X Int
  PROVE  /\ CarryDays[p] \in Int \X (0 .. 11) \X Int /\ InMonth(CarryDays[p])
         /\ DaysTo(CarryDays[p][1], CarryDays[p][2], CarryDays[p][3]) = DaysTo(p[1], p[2], p[3])
         /\ InMonth(p) => CarryDays[p] = p
<1> DEFINE D    == Int \X (0 .. 11) \X Int
           Home == {q \in D : InMonth(q)}
           nx   == [q \in D |-> IF InMonth(q) THEN q ELSE CarryNext(q)]
           mu   == [q \in D |-> CarryDistance(q)]
           val  == [q \in D |-> DaysTo(q[1], q[2], q[3])]
           Body(f, q) == IF q \in Home THEN q ELSE f[nx[q]]
           Step(f, q) ==
             LET y   == q[1]
                 mon == q[2]
                 mday == q[3]
                 leap(year) == IF 1 < mon THEN year + 1 ELSE year
                 len == mon_lengths(y)[mon + 1]
             IN  IF mday <= 0 THEN f[<<y - 1, mon, mday + year_lengths(leap(y - 1))>>]
                 ELSE IF mday > DAYSPERLYEAR THEN f[<<y + 1, mon, mday - year_lengths(leap(y))>>]
                 ELSE IF mday <= len THEN q
                 ELSE f[IF mon = 11 THEN <<y + 1, 0, mday - len>> ELSE <<y, mon + 1, mday - len>>]
<1>1. ASSUME NEW q \in D PROVE CarryDistance(q) \in Nat
  BY DEF CarryDistance
<1>2. nx \in [D -> D] /\ mu \in [D -> Nat]
  BY <1>1, CarryCloser
<1>3. \A q \in D \ Home : mu[nx[q]] < mu[q] /\ val[nx[q]] = val[q]
  <2> SUFFICES ASSUME NEW q \in D, ~InMonth(q)
               PROVE  /\ CarryNext(q) \in D
                      /\ CarryDistance(CarryNext(q)) < CarryDistance(q)
                      /\ DaysTo(CarryNext(q)[1], CarryNext(q)[2], CarryNext(q)[3]) = DaysTo(q[1], q[2], q[3])
    OBVIOUS
  <2> QED BY CarryCloser
<1>4. Falls(mu, nx, D, Home) /\ Home \subseteq D /\ Keeps(val, nx, D, Home)
  <2> HIDE DEF nx, mu, val
  <2> QED BY <1>2, <1>3 DEF Falls, Keeps
<1>5. ASSUME NEW f, NEW q \in D
      PROVE  Body(f, q) = Step(f, q)
  <2>1. mon_lengths(q[1])[q[2] + 1] \in 28 .. 31
    BY MonthLengths
  <2>2. CASE InMonth(q)
    BY <2>1, <2>2 DEF InMonth, DAYSPERLYEAR
  <2>3. CASE ~InMonth(q)
    <3>1. Body(f, q) = f[CarryNext(q)]
      BY <2>3
    <3>2. Step(f, q) = f[CarryNext(q)]
      BY <2>1, <2>3 DEF InMonth, CarryNext, YearOfFebruary
    <3> QED BY <3>1, <3>2
  <2> QED BY <2>2, <2>3
<1>6. PICK f : Walks(f, D, Home, {}, OVERFLOW, nx)
  <2> HIDE DEF nx, mu, Home, D
  <2> QED BY <1>4, WalkSolved
<1>7. \E g : g = [q \in D |-> Step(g, q)]
  <2>1. \A q \in D : f[q] = Step(f, q)
    <3>1. \A q \in D : f[q] = Body(f, q)
      <4> HIDE DEF D, nx, Home
      <4> QED BY <1>6 DEF Walks
    <3> HIDE DEF Body, Step, D
    <3> QED BY <1>5, <3>1
  <2>2. f = [q \in D |-> f[q]]
    BY <1>6 DEF Walks
  <2> HIDE DEF Body, Step, D
  <2>3. f = [q \in D |-> Step(f, q)]
    BY <2>1, <2>2
  <2> QED BY <2>3
<1>8. CarryDays = [q \in D |-> Step(CarryDays, q)]
  BY <1>7 DEF CarryDays
<1>9. ASSUME NEW out
      PROVE  Walks(CarryDays, D, Home, {}, out, nx)
  <2>1. ASSUME NEW q \in D
        PROVE  CarryDays[q] = Body(CarryDays, q)
    <3> HIDE DEF Body, Step, D
    <3> QED BY <1>5, <1>8
  <2>2. CarryDays = [q \in D |-> CarryDays[q]]
    <3> HIDE DEF Step, D
    <3> QED BY <1>8
  <2> HIDE DEF D, nx, Home
  <2> QED BY <2>1, <2>2 DEF Walks
<1>10. ASSUME NEW out
       PROVE  Arrives(CarryDays, val, D, Home, out)
  <2> HIDE DEF D, Home, nx, mu, val
  <2> QED BY <1>4, <1>9, WalkArrives
<1>11. CarryDays[p] \in Home /\ val[CarryDays[p]] = val[p]
  <2>1. ASSUME NEW out, CarryDays[p] # out
        PROVE  CarryDays[p] \in Home /\ val[CarryDays[p]] = val[p]
    <3> HIDE DEF Home, val
    <3> QED BY <1>10, <2>1 DEF Arrives
  <2>2. CarryDays[p] # 0 \/ CarryDays[p] # 1
    OBVIOUS
  <2> HIDE DEF Home, val
  <2> QED BY <2>1, <2>2
<1>12. InMonth(p) => CarryDays[p] = p
  <2>1. InMonth(p) => p \in Home
    OBVIOUS
  <2>2. p \in D
    OBVIOUS
  <2> HIDE DEF D, Home, nx
  <2>3. Walks(CarryDays, D, Home, {}, OVERFLOW, nx)
    BY <1>9
  <2> QED BY <2>1, <2>2, <2>3 DEF Walks
<1> QED BY <1>11, <1>12

(***************************************************************************)
(* A day of its month is left alone.                                       *)
(***************************************************************************)
LEMMA CarryDaysStays ==
  ASSUME NEW y \in Int, NEW m \in 0 .. 11, NEW d \in Int, 1 <= d, d <= mon_lengths(y)[m + 1]
  PROVE  CarryDays[<<y, m, d>>] = <<y, m, d>>
<1> DEFINE p == <<y, m, d>>
<1>1. p \in Int \X (0 .. 11) \X Int /\ InMonth(p)
  BY DEF InMonth
<1> HIDE DEF p
<1>2. CarryDays[p] = p
  BY <1>1, CarryDaysRight
<1> QED BY <1>2 DEF p

(***************************************************************************)
(* What is carried over from a unit to the next is not lost.               *)
(***************************************************************************)
LEMMA Carried ==
  ASSUME NEW B \in Nat \ {0}, NEW a \in Int, NEW u \in Int, NEW v \in Int, NEW q \in Int, NEW r \in Int,
         u = (a + q) * B, NEW x \in Int, x = B * q + r
  PROVE  u + r = a * B + x
<1>1. (a + q) * B = a * B + B * q /\ a * B \in Int /\ B * q \in Int
  <2>1. B * (a + q) = B * a + B * q /\ B * a = a * B /\ B * (a + q) = (a + q) * B /\ B * a \in Int /\ B * q \in Int
    BY Products
  <2> QED BY <2>1
<1> DEFINE c == a * B
           d == B * q
<1>2. u = c + d /\ x = d + r /\ c \in Int /\ d \in Int
  BY <1>1
<1> HIDE DEF c, d
<1>3. u + r = c + x
  BY <1>2
<1> QED BY <1>3 DEF c

(***************************************************************************)
(* Whole years and months, and the days are an integer.                    *)
(***************************************************************************)
LEMMA DaysOfMonth ==
  ASSUME NEW b, b \in StructTm
  PROVE  /\ Days(b) = DaysTo(b.year + b.mon \div 12 + TM_YEAR_BASE, b.mon % 12, b.mday)
         /\ Days(b) \in Int
         /\ b.year + b.mon \div 12 + TM_YEAR_BASE \in Int /\ b.mon % 12 \in 0 .. 11
<1> DEFINE y == b.year + b.mon \div 12 + TM_YEAR_BASE
           m == b.mon % 12
           c == [year |-> y - TM_YEAR_BASE, mon |-> m, mday |-> b.mday]
<1>1. b.year \in Int /\ b.mon \in Int /\ b.mday \in Int
  BY DEF StructTm
<1>2. y \in Int /\ m \in 0 .. 11
  <2>1. 12 \in Nat \ {0}
    OBVIOUS
  <2>2. b.mon \div 12 \in Int /\ b.mon % 12 \in 0 .. 12 - 1
    BY <1>1, <2>1, DivMod
  <2> QED BY <1>1, <2>2 DEF TM_YEAR_BASE
<1>3. c.year = y - TM_YEAR_BASE /\ c.mon = m /\ c.mday = b.mday
  OBVIOUS
<1>4. Days(c) = DaysTo(y, m, b.mday) /\ Days(c) \in Int
  <2> HIDE DEF c, y, m
  <2> QED BY <1>1, <1>2, <1>3, DaysOfDate
<1>5. Days(b) = Days(c)
  <2>1. TM_YEAR_BASE + b.year + b.mon \div 12 = y
    <3> DEFINE k == b.mon \div 12
    <3>1. k \in Int
      BY <1>1
    <3> HIDE DEF k
    <3>2. TM_YEAR_BASE + b.year + k = b.year + k + TM_YEAR_BASE
      BY <1>1, <3>1 DEF TM_YEAR_BASE
    <3> QED BY <3>2 DEF k
  <2>2. TM_YEAR_BASE + c.year + c.mon \div 12 = y /\ c.mon % 12 = m
    <3> HIDE DEF c, y, m
    <3>1. m \div 12 = 0 /\ m % 12 = m
      BY <1>2
    <3> QED BY <1>2, <1>3, <3>1 DEF TM_YEAR_BASE
  <2> DEFINE F(yy, mm, dd) == LET w == IF mm <= 1 THEN yy - 1 ELSE yy
                                  v == (mm + 10) % 12
                              IN  365 * w + w \div 4 - w \div 100 + w \div 400 + (153 * v + 2) \div 5 + dd - 719469
  <2>3. Days(b) = F(TM_YEAR_BASE + b.year + b.mon \div 12, b.mon % 12, b.mday)
    BY SMT DEF Days
  <2>4. Days(c) = F(TM_YEAR_BASE + c.year + c.mon \div 12, c.mon % 12, c.mday)
    BY SMT DEF Days
  <2> HIDE DEF F, c, y
  <2> QED BY <1>3, <2>1, <2>2, <2>3, <2>4
<1> HIDE DEF y, m, c
<1>6. Days(b) = DaysTo(y, m, b.mday) /\ Days(b) \in Int
  BY <1>4, <1>5
<1> QED BY <1>2, <1>6 DEF y, m

(* n is b in normal form, seconds apart unless they are normalised too.    *)
NormalizedOf(b, seconds, n) ==
  /\ n \in StructTm
  /\ n.mon \in 0 .. 11 /\ n.mday \in 1 .. mon_lengths(n.year + TM_YEAR_BASE)[n.mon + 1]
  /\ n.hour \in 0 .. HOURSPERDAY - 1 /\ n.min \in 0 .. MINSPERHOUR - 1
  /\ n.isdst = b.isdst
  /\ LocalSeconds(n) = LocalSeconds(b) /\ LocalSeconds(n) \in Int
  /\ IF seconds THEN n.sec \in 0 .. SECSPERMIN - 1 ELSE n.sec = b.sec

(***************************************************************************)
(* time2sub normalises the fields and stays on the second they stand for   *)
(* (libtz.c:1704-1758).                                                    *)
(***************************************************************************)
LEMMA NormalizedRight ==
  ASSUME NEW b, b \in StructTm, NEW seconds \in BOOLEAN, Normalized(b, seconds).ok
  PROVE  NormalizedOf(b, seconds, Normalized(b, seconds).tm)
<1> DEFINE q1 == IF seconds THEN b.sec \div SECSPERMIN ELSE 0
           s1 == IF seconds THEN b.sec % SECSPERMIN ELSE b.sec
           min == b.min + q1
           q2 == min \div MINSPERHOUR
           m1 == min % MINSPERHOUR
           hour == b.hour + q2
           q3 == hour \div HOURSPERDAY
           h1 == hour % HOURSPERDAY
           mday == b.mday + q3
           y0 == b.year + b.mon \div 12 + TM_YEAR_BASE
           mon0 == b.mon % 12
           date == CarryDays[<<y0, mon0, mday>>]
           year == date[1] - TM_YEAR_BASE
           n == [b EXCEPT !.year = year, !.mon = date[2], !.mday = date[3],
                          !.hour = h1, !.min = m1, !.sec = s1]
<1>1. /\ b.year \in Int /\ b.mon \in Int /\ b.mday \in Int /\ b.hour \in Int /\ b.min \in Int
      /\ b.sec \in Int /\ b.wday \in Int /\ b.yday \in Int /\ b.isdst \in Int
  BY DEF StructTm
<1>2. q1 \in Int /\ s1 \in Int /\ b.sec = SECSPERMIN * q1 + s1 /\ (seconds => s1 \in 0 .. SECSPERMIN - 1)
      /\ (~seconds => s1 = b.sec)
  <2>1. /\ b.sec \div SECSPERMIN \in Int /\ b.sec % SECSPERMIN \in 0 .. SECSPERMIN - 1
        /\ b.sec = SECSPERMIN * (b.sec \div SECSPERMIN) + (b.sec % SECSPERMIN)
    BY <1>1, Units, DivMod
  <2>2. SECSPERMIN * 0 + b.sec = b.sec
    BY <1>1, Units
  <2> QED BY <1>1, <2>1, <2>2
<1>3. min \in Int
  BY <1>1, <1>2
<1>4. q2 \in Int /\ m1 \in 0 .. MINSPERHOUR - 1 /\ min = MINSPERHOUR * q2 + m1
  <2> HIDE DEF min
  <2> QED BY <1>3, Units, DivMod
<1>5. hour \in Int
  BY <1>1, <1>4
<1>6. q3 \in Int /\ h1 \in 0 .. HOURSPERDAY - 1 /\ hour = HOURSPERDAY * q3 + h1
  <2> HIDE DEF hour
  <2> QED BY <1>5, Units, DivMod
<1>7. mday \in Int
  BY <1>1, <1>6
<1>8. Days(b) = DaysTo(y0, mon0, b.mday) /\ Days(b) \in Int /\ y0 \in Int /\ mon0 \in 0 .. 11
  BY DaysOfMonth
<1>9. Normalized(b, seconds) = Done(n)
  <2> DEFINE r == Normalized(b, seconds)
  <2>1. r = IF ~IsInt(min) \/ ~IsInt(hour) \/ ~IsInt(mday) \/ ~IsInt(year) THEN Null(b) ELSE Done(n)
    BY Zenon DEF Normalized, Tens, Left
  <2>2. r.ok
    OBVIOUS
  <2> HIDE DEF r, n, min, hour, mday, year
  <2> QED BY <2>1, <2>2 DEF Null, r
<1> HIDE DEF q1, s1, min, q2, m1, hour, q3, h1, mday, y0, mon0
<1>10. /\ date \in Int \X (0 .. 11) \X Int /\ InMonth(date)
       /\ DaysTo(date[1], date[2], date[3]) = DaysTo(y0, mon0, mday)
  <2> DEFINE p == <<y0, mon0, mday>>
  <2>1. p \in Int \X (0 .. 11) \X Int /\ p[1] = y0 /\ p[2] = mon0 /\ p[3] = mday
    BY <1>7, <1>8
  <2> HIDE DEF p
  <2>2. /\ CarryDays[p] \in Int \X (0 .. 11) \X Int /\ InMonth(CarryDays[p])
        /\ DaysTo(CarryDays[p][1], CarryDays[p][2], CarryDays[p][3]) = DaysTo(p[1], p[2], p[3])
    BY <2>1, CarryDaysRight
  <2> QED BY <2>1, <2>2 DEF p
<1> HIDE DEF date
<1>11. date[1] \in Int /\ date[2] \in 0 .. 11 /\ date[3] \in Int /\ 1 <= date[3]
       /\ date[3] <= mon_lengths(date[1])[date[2] + 1] /\ year \in Int /\ year + TM_YEAR_BASE = date[1]
       /\ mon_lengths(date[1])[date[2] + 1] \in 28 .. 31
  <2>1. date[1] \in Int /\ date[2] \in 0 .. 11 /\ date[3] \in Int
    BY <1>10
  <2>2. 1 <= date[3] /\ date[3] <= mon_lengths(date[1])[date[2] + 1]
    BY <1>10 DEF InMonth
  <2>3. mon_lengths(date[1])[date[2] + 1] \in 28 .. 31
    BY <2>1, MonthLengths
  <2> QED BY <2>1, <2>2, <2>3 DEF TM_YEAR_BASE
<1> HIDE DEF year
<1>12. /\ n.year = year /\ n.mon = date[2] /\ n.mday = date[3] /\ n.hour = h1 /\ n.min = m1 /\ n.sec = s1
       /\ n.isdst = b.isdst /\ n \in StructTm
  <2> DEFINE mm == date[2]
             dd == date[3]
  <2>1. year \in Int /\ mm \in Int /\ dd \in Int /\ h1 \in Int /\ m1 \in Int /\ s1 \in Int
    BY <1>2, <1>4, <1>6, <1>11
  <2> HIDE DEF mm, dd
  <2> DEFINE c1 == [b EXCEPT !.year = year]
             c2 == [c1 EXCEPT !.mon = mm]
             c3 == [c2 EXCEPT !.mday = dd]
             c4 == [c3 EXCEPT !.hour = h1]
             c5 == [c4 EXCEPT !.min = m1]
             c6 == [c5 EXCEPT !.sec = s1]
  <2>2. c1 \in StructTm /\ c1.year = year /\ c1.isdst = b.isdst
    BY <2>1 DEF StructTm
  <2> HIDE DEF c1
  <2>3. c2 \in StructTm /\ c2.year = year /\ c2.isdst = b.isdst /\ c2.mon = mm
    BY <2>1, <2>2 DEF StructTm
  <2> HIDE DEF c2
  <2>4. c3 \in StructTm /\ c3.year = year /\ c3.isdst = b.isdst /\ c3.mon = mm /\ c3.mday = dd
    BY <2>1, <2>3 DEF StructTm
  <2> HIDE DEF c3
  <2>5. c4 \in StructTm /\ c4.year = year /\ c4.isdst = b.isdst /\ c4.mon = mm /\ c4.mday = dd /\ c4.hour = h1
    BY <2>1, <2>4 DEF StructTm
  <2> HIDE DEF c4
  <2>6. c5 \in StructTm /\ c5.year = year /\ c5.isdst = b.isdst /\ c5.mon = mm /\ c5.mday = dd /\ c5.hour = h1
        /\ c5.min = m1
    BY <2>1, <2>5 DEF StructTm
  <2> HIDE DEF c5
  <2>7. c6 \in StructTm /\ c6.year = year /\ c6.isdst = b.isdst /\ c6.mon = mm /\ c6.mday = dd /\ c6.hour = h1
        /\ c6.min = m1 /\ c6.sec = s1
    BY <2>1, <2>6 DEF StructTm
  <2>8. n = c6
    BY DEF c1, c2, c3, c4, c5, mm, dd
  <2> HIDE DEF n, c6
  <2> QED BY <2>7, <2>8 DEF mm, dd
<1> HIDE DEF n
<1>13. Days(n) = Days(b) + q3
  <2>1. Days(n) = DaysTo(date[1], date[2], date[3])
    <3> DEFINE y == date[1]
               m == date[2]
    <3>1. y \in Int /\ m \in 0 .. 11 /\ n.year = y - TM_YEAR_BASE /\ n.mon = m /\ n.mday \in Int
      BY <1>11, <1>12 DEF year
    <3> HIDE DEF y, m
    <3>2. Days(n) = DaysTo(y, m, n.mday)
      BY <3>1, DaysOfDate
    <3> QED BY <1>12, <3>2 DEF y, m
  <2>2. DaysTo(y0, mon0, mday) = DaysTo(y0, mon0, b.mday) + q3
    <3>1. YearStart(y0) \in Int /\ MonthStart[<<y0, mon0>>] \in Int
      <4>1. MonthStart[<<y0, mon0>>] \in Nat
        BY <1>8, MonthLengths
      <4> QED BY <1>8, <4>1, YearStarts
    <3> QED BY <1>1, <1>6, <3>1 DEF DaysTo, mday
  <2> QED BY <1>8, <1>10, <2>1, <2>2
<1>14. LocalSeconds(n) = LocalSeconds(b) /\ LocalSeconds(n) \in Int
  <2> DEFINE D == Days(b)
             H == HOURSPERDAY
             M == MINSPERHOUR
             S == SECSPERMIN
             a1 == (D + q3) * H
             b1 == D * H + b.hour
             a2 == (b1 + q2) * M
             b2 == b1 * M + b.min
             a3 == (b2 + q1) * S
             b3 == b2 * S + b.sec
  <2>1. D \in Int /\ H \in Nat \ {0} /\ M \in Nat \ {0} /\ S \in Nat \ {0}
    BY <1>8, Units
  <2> HIDE DEF D, H, M, S
  <2>2. a1 \in Int /\ D * H \in Int /\ b1 \in Int
    <3>1. D + q3 \in Int /\ H \in Int
      BY <1>6, <2>1
    <3>2. a1 \in Int /\ D * H \in Int
      BY <2>1, <3>1, Products
    <3> HIDE DEF a1
    <3> QED BY <1>1, <3>2
  <2>3. a1 + h1 = D * H + hour
    <3>1. h1 \in Int /\ hour = H * q3 + h1
      BY <1>6, Units DEF H
    <3> HIDE DEF a1
    <3>2. a1 = (D + q3) * H
      BY DEF a1
    <3> QED BY <1>5, <1>6, <2>1, <2>2, <3>1, <3>2, Carried
  <2>4. a1 + h1 = b1 + q2
    <3> DEFINE e == D * H
    <3>1. e \in Int /\ a1 + h1 = e + hour /\ hour = b.hour + q2 /\ b1 = e + b.hour
      BY <2>2, <2>3 DEF hour
    <3> HIDE DEF e, a1, b1
    <3> QED BY <1>1, <1>4, <3>1
  <2> HIDE DEF a1, b1
  <2>5. a2 \in Int /\ b1 * M \in Int /\ b2 \in Int
    <3>1. b1 + q2 \in Int /\ M \in Int
      BY <1>4, <2>1, <2>2
    <3>2. a2 \in Int /\ b1 * M \in Int
      BY <2>2, <3>1, Products
    <3> HIDE DEF a2
    <3> QED BY <1>1, <3>2
  <2>6. a2 + m1 = b1 * M + min
    <3>1. m1 \in Int /\ min = M * q2 + m1
      BY <1>4, Units DEF M
    <3>2. a2 = (b1 + q2) * M
      OBVIOUS
    <3> HIDE DEF a2
    <3> QED BY <1>3, <1>4, <2>1, <2>2, <2>5, <3>1, <3>2, Carried
  <2>7. a2 + m1 = b2 + q1
    <3> DEFINE e == b1 * M
    <3>1. e \in Int /\ a2 + m1 = e + min /\ min = b.min + q1 /\ b2 = e + b.min
      BY <2>5, <2>6 DEF min
    <3> HIDE DEF e, a2, b2
    <3> QED BY <1>1, <1>2, <3>1
  <2>8. a3 \in Int /\ b2 * S \in Int
    <3> HIDE DEF b2
    <3>1. b2 + q1 \in Int /\ S \in Int
      BY <1>2, <2>1, <2>5
    <3> QED BY <2>5, <3>1, Products
  <2>9. a3 + s1 = b3
    <3>1. b.sec = S * q1 + s1
      BY <1>2 DEF S
    <3>2. a3 = (b2 + q1) * S
      OBVIOUS
    <3> HIDE DEF a3, b2
    <3> DEFINE x == b.sec
    <3>3. x \in Int /\ x = S * q1 + s1
      BY <1>1, <3>1
    <3> HIDE DEF x
    <3>4. a3 + s1 = b2 * S + x
      BY <1>2, <2>1, <2>5, <2>8, <3>2, <3>3, Carried
    <3> QED BY <3>4 DEF x
  <2>10. LocalSeconds(b) = b3
    BY DEF LocalSeconds, D, H, M, S, b1
  <2>11. LocalSeconds(n) = ((a1 + h1) * M + m1) * S + s1
    BY <1>12, <1>13 DEF LocalSeconds, D, H, M, S, a1
  <2>12. LocalSeconds(n) = a3 + s1
    <3> HIDE DEF b2
    <3> QED BY <2>4, <2>7, <2>11
  <2>13. b3 \in Int
    <3> HIDE DEF b2
    <3> QED BY <1>1, <2>8
  <2> QED BY <2>9, <2>10, <2>12, <2>13
<1>15. NormalizedOf(b, seconds, n)
  BY <1>2, <1>4, <1>6, <1>11, <1>12, <1>14 DEF NormalizedOf
<1> QED BY <1>9, <1>15 DEF Done

(***************************************************************************)
(* An instant at which a clock shows a date and time is one of its         *)
(* instants.                                                               *)
(***************************************************************************)
LEMMA ReadsInstant ==
  ASSUME NEW z, IsZone(z), SoundLeaps(z), NEW x \in Int, NEW b, LocalSeconds(b) \in Int, Reads(z, x, b)
  PROVE  x \in InstantsOf(z, b)
<1> DEFINE r == localsub(z, x, ZeroTm)
           corr == Correction(z, x)
           hit == Hits(z, x)
           leap == LeapSeconds(z, x)
           L == LocalSeconds(b)
<1>1. r.ok /\ LocalSeconds(r.tm) = L
  BY DEF Reads
<1>2. LeapsCounted(z, x)
  BY LeapsAreCounted
<1>3. PICK i \in 1 .. Len(z.ttis) : Counted(r.tm, x + z.ttis[i].gmtoff - corr, hit)
  BY <1>1, LocalsubRight
<1> DEFINE off == z.ttis[i].gmtoff
<1>4. LocalSeconds(r.tm) = x + off - corr + hit
  BY <1>3 DEF Counted
<1>5. off \in Int /\ corr \in Int /\ hit \in Nat /\ leap = corr - hit /\ L \in Int
  BY <1>2 DEF LeapsCounted, IsZone
<1>6. x = L - off + leap
  <2> HIDE DEF off, corr, hit, leap, L, r
  <2> QED BY <1>1, <1>4, <1>5
<1>7. leap \in Corrections(z)
  <2> DEFINE P == {j \in 1 .. Len(z.lsis) : z.lsis[j].trans <= x} \ Showing(z, x)
             last == Cardinality(P)
             n == Len(z.lsis)
  <2>1. leap = IF last = 0 THEN 0 ELSE z.lsis[last].corr
    BY DEF LeapSeconds
  <2>2. last \in 0 .. n
    <3>1. n \in Nat
      BY DEF IsZone
    <3>2. IsFiniteSet(1 .. n) /\ Cardinality(1 .. n) = n
      <4> HIDE DEF n
      <4>1. 1 \in Int /\ n \in Int
        BY <3>1
      <4>2. IsFiniteSet(1 .. n) /\ Cardinality(1 .. n) = IF 1 > n THEN 0 ELSE n - 1 + 1
        BY <4>1, FS_Interval
      <4> QED BY <3>1, <4>2
    <3>3. P \subseteq 1 .. n
      OBVIOUS
    <3>4. IsFiniteSet(P) /\ Cardinality(P) <= Cardinality(1 .. n)
      <4> HIDE DEF P, n
      <4> QED BY <3>2, <3>3, FS_Subset
    <3>5. Cardinality(P) \in Nat
      <4> HIDE DEF P
      <4> QED BY <3>4, FS_CardinalityType
    <3> HIDE DEF P, n
    <3> QED BY <3>1, <3>2, <3>4, <3>5
  <2>3. CASE last = 0
    BY <2>1, <2>3 DEF Corrections
  <2>4. CASE last # 0
    <3>1. last \in 1 .. n
      BY <2>2, <2>4
    <3> HIDE DEF last
    <3> QED BY <2>1, <2>4, <3>1 DEF Corrections
  <2> QED BY <2>3, <2>4
<1> QED
  <2> HIDE DEF leap
  <2>1. x \in {LocalSeconds(b) - z.ttis[j].gmtoff + c : j \in 1 .. Len(z.ttis), c \in Corrections(z)}
    BY <1>6, <1>7
  <2> QED BY <2>1 DEF InstantsOf

(***************************************************************************)
(* tmcomp finds no difference between the fields of one date and time only *)
(* (libtz.c:1664).                                                         *)
(***************************************************************************)
LEMMA SameCivil ==
  ASSUME NEW a \in StructTm, NEW b \in StructTm, tmcomp(a, b) = 0
  PROVE  Civil(a) = Civil(b)
<1> DEFINE x == Civil(a)
           y == Civil(b)
           Differs(i) == x[i] # y[i] /\ \A j \in 1 .. i - 1 : x[j] = y[j]
           k == CHOOSE i \in 1 .. 6 : Differs(i)
<1>1. /\ x[1] \in Int /\ x[2] \in Int /\ x[3] \in Int /\ x[4] \in Int /\ x[5] \in Int /\ x[6] \in Int
      /\ y[1] \in Int /\ y[2] \in Int /\ y[3] \in Int /\ y[4] \in Int /\ y[5] \in Int /\ y[6] \in Int
  BY DEF StructTm, Civil
<1>2. SUFFICES ASSUME x # y PROVE FALSE
  OBVIOUS
<1>3. x[k] - y[k] = 0
  BY <1>2 DEF tmcomp
<1>4. \E i \in 1 .. 6 : Differs(i)
  <2>1. x[1] # y[1] \/ x[2] # y[2] \/ x[3] # y[3] \/ x[4] # y[4] \/ x[5] # y[5] \/ x[6] # y[6]
    BY <1>2 DEF Civil
  <2> DEFINE S == {i \in 1 .. 6 : x[i] # y[i]}
  <2>2. S \in SUBSET Nat /\ S # {}
    <3>1. \E i \in 1 .. 6 : x[i] # y[i]
      <4> HIDE DEF x, y
      <4> QED BY <2>1
    <3> QED BY <3>1
  <2>3. PICK i \in S : \A j \in S : i <= j
    <3> HIDE DEF S
    <3> QED BY <2>2, LeastNatural
  <2>4. \A j \in 1 .. i - 1 : x[j] = y[j]
    <3> TAKE j \in 1 .. i - 1
    <3>1. j \in 1 .. 6 /\ ~(i <= j) /\ i \in 1 .. 6
      BY <2>3
    <3> HIDE DEF x, y
    <3> QED BY <2>3, <3>1
  <2> QED BY <2>3, <2>4
<1>5. k \in 1 .. 6 /\ Differs(k)
  <2> HIDE DEF Differs
  <2> QED BY <1>4
<1>6. x[k] # y[k]
  BY <1>5
<1> HIDE DEF k, x, y
<1>7. \A i \in 1 .. 6 : x[i] \in Int /\ y[i] \in Int
  BY <1>1
<1> QED BY <1>3, <1>5, <1>6, <1>7

(***************************************************************************)
(* The fields of the date and time decide the second.                      *)
(***************************************************************************)
LEMMA SameReading ==
  ASSUME NEW a \in StructTm, NEW b \in StructTm, Civil(a) = Civil(b)
  PROVE  LocalSeconds(a) = LocalSeconds(b)
<1>1. /\ a.year = b.year /\ a.mon = b.mon /\ a.mday = b.mday /\ a.hour = b.hour /\ a.min = b.min
      /\ a.sec = b.sec
  BY DEF Civil
<1>2. Days(a) = Days(b)
  BY <1>1, SameDays
<1> QED BY <1>1, <1>2 DEF LocalSeconds

(***************************************************************************)
(* localsub writes a struct tm.                                            *)
(***************************************************************************)
LEMMA LocalsubType ==
  ASSUME NEW z, IsZone(z), SoundLeaps(z), NEW x \in Int, NEW tmp, localsub(z, x, tmp).ok
  PROVE  localsub(z, x, tmp).tm \in StructTm
<1>1. \E i \in 1 .. Len(z.ttis) : Counted(localsub(z, x, tmp).tm, x + z.ttis[i].gmtoff - Correction(z, x), Hits(z, x))
  BY LocalsubRight
<1> QED BY <1>1 DEF Counted

(***************************************************************************)
(* What was in the struct tm does not matter.                              *)
(***************************************************************************)
LEMMA WhateverTm ==
  ASSUME NEW z, NEW x, NEW a, NEW b, localsub(z, x, a).ok
  PROVE  localsub(z, x, b) = localsub(z, x, a)
<1> DEFINE c == Cycles(z, x)
           newt == x + c * SECSPERREPEAT
           info == z.ttis[TypeAt(z, newt)]
           T(d) == timesub(newt, info.gmtoff, z, d)
           W(d) == WithType(info, z, newt, d)
<1> HIDE DEF c, newt, info
<1>1. \A d : localsub(z, x, d) = AfterCycles(z, newt, c, d)
  BY DEF localsub, c, newt
<1>2. ~(c # 0 /\ ~InTable(z, newt))
  <2>1. AfterCycles(z, newt, c, a).ok
    BY <1>1
  <2> QED BY <2>1 DEF AfterCycles, Null
<1>3. \A d : localsub(z, x, d) = CyclesBack(W(d), c)
  BY <1>1, <1>2 DEF AfterCycles, info
<1>4. W(a).ok
  <2> DEFINE w == W(a)
  <2>1. CyclesBack(w, c).ok
    BY <1>3
  <2> HIDE DEF w
  <2>2. w.ok
    BY <2>1 DEF CyclesBack
  <2> QED BY <2>2 DEF w
<1>5. T(a).ok /\ \A d : \E o, e : T(d) = [ok |-> o, tm |-> e]
  <2>1. \A d : \E o, e : T(d) = [ok |-> o, tm |-> e]
    BY DEF timesub, Written, Null, Done
  <2>2. W(a) = [T(a) EXCEPT !.tm.isdst = info.isdst]
    BY DEF WithType
  <2> HIDE DEF T, W
  <2> QED BY <1>4, <2>1, <2>2
<1>6. T(b) = T(a)
  <2> DEFINE tdays == CDiv(newt, SECSPERDAY)
             rem == newt - tdays * SECSPERDAY + info.gmtoff - Correction(z, newt)
             p == Later(FindYear[<<EPOCH_YEAR, tdays>>], rem \div SECSPERDAY)
             sod == rem % SECSPERDAY
             hit == Hits(z, newt)
  <2>1. \A d : T(d) = Written(p, sod, hit, d)
    BY Zenon DEF timesub
  <2> HIDE DEF p, sod, hit, T
  <2>2. Written(p, sod, hit, a).ok
    BY <1>5, <2>1
  <2>3. Written(p, sod, hit, b) = Written(p, sod, hit, a)
    BY <2>2 DEF Written, Null
  <2> QED BY <2>1, <2>3
<1>7. W(b) = W(a)
  BY <1>6 DEF WithType
<1> HIDE DEF W
<1> QED BY <1>3, <1>7

(***************************************************************************)
(* The highest pair there is.                                              *)
(***************************************************************************)
LEMMA HighestIsOne ==
  ASSUME NEW n \in Nat, NEW pairs \in SUBSET ((1 .. n) \X (1 .. n)), pairs # {}
  PROVE  Highest(pairs) \in pairs
<1> DEFINE A == {n - p[1] : p \in pairs}
<1>1. A \in SUBSET Nat /\ A # {}
  OBVIOUS
<1>2. PICK a \in A : \A c \in A : a <= c
  <2> HIDE DEF A
  <2> QED BY <1>1, LeastNatural
<1>3. PICK u \in pairs : a = n - u[1]
  OBVIOUS
<1> DEFINE B == {n - p[2] : p \in {q \in pairs : q[1] = u[1]}}
<1>4. B \in SUBSET Nat /\ B # {}
  OBVIOUS
<1>5. PICK b \in B : \A c \in B : b <= c
  <2> HIDE DEF B
  <2> QED BY <1>4, LeastNatural
<1>6. PICK v \in pairs : v[1] = u[1] /\ b = n - v[2]
  OBVIOUS
<1>7. \A q \in pairs : q[1] < v[1] \/ (q[1] = v[1] /\ q[2] <= v[2])
  <2> TAKE q \in pairs
  <2>1. q[1] \in 1 .. n /\ q[2] \in 1 .. n /\ v[1] \in 1 .. n /\ v[2] \in 1 .. n /\ u[1] \in 1 .. n
    OBVIOUS
  <2>2. a <= n - q[1]
    BY <1>2
  <2>3. CASE q[1] = u[1]
    <3>1. b <= n - q[2]
      BY <1>5, <2>3
    <3> QED BY <1>6, <2>1, <2>3, <3>1
  <2>4. CASE q[1] # u[1]
    BY <1>3, <1>6, <2>1, <2>2, <2>4
  <2> QED BY <2>3, <2>4
<1>8. \E p \in pairs : \A q \in pairs : q[1] < p[1] \/ (q[1] = p[1] /\ q[2] <= p[2])
  BY <1>7
<1> QED BY <1>8 DEF Highest

(* The type that time1 asks for.                                           *)
Kind(b) == IF b.isdst > 1 THEN 1 ELSE b.isdst

(***************************************************************************)
(* y is the struct tm that the search for b looks for, and s the seconds   *)
(* that are added when it is found.                                        *)
(***************************************************************************)
Sought(b, y, s) ==
  /\ y \in StructTm /\ s \in Int
  /\ LocalSeconds(y) \in Int /\ LocalSeconds(y) = LocalSeconds(b) - s
  /\ y.isdst = Kind(b)
  /\ InMinute(b) => s = 0
  /\ s = SavedSeconds(Normalized(b, FALSE).tm)
  /\ IsNormal(b) => Civil(y) = Civil(b)

(* The clock shows y at x, and is of the kind asked for.                   *)
Shows(z, x, y) ==
  LET sub == localsub(z, x, ZeroTm)
  IN  sub.ok /\ Civil(sub.tm) = Civil(y) /\ (y.isdst < 0 \/ sub.tm.isdst = y.isdst)

(* It shows what the search for b looks for.                               *)
ShownAt(z, x, b, s) == \E y : Sought(b, y, s) /\ Shows(z, x, y)

(***************************************************************************)
(* The first attempt, as long as time2 has not made a second try after     *)
(* seconds out of the minute.                                              *)
(***************************************************************************)
Trusted == pair = FIRST /\ (~norm \/ InMinute(asked))

(***************************************************************************)
(* What tz_mktime relies on while it is trusted: the search is for what    *)
(* was asked, what it has found the clock shows there, and what is put     *)
(* together at the end is that instant, or -1.                             *)
(***************************************************************************)
MktimeInv ==
  /\ pc \in {"time2sub", "search", "compare", "label", "time2", "done"}
       => /\ sp \in Zones /\ asked \in StructTm /\ norm \in BOOLEAN
          /\ asked.isdst < 0 /\ InMinute(asked) => pair = FIRST
  /\ Trusted =>
       /\ pc \in {"time2sub", "search", "compare", "label"} => tm = [asked EXCEPT !.isdst = Kind(asked)]
       /\ pc \in {"search", "compare", "label"} => Sought(asked, yourtm, saved)
       /\ pc \in {"search", "compare"} => lo \in Int /\ hi \in Int
       /\ pc = "compare" => t \in Int /\ mytm = localsub(sp, t, ZeroTm)
       /\ pc = "label" => t \in Int /\ Shows(sp, t, yourtm)
       /\ pc \in {"time2", "done"} /\ okay =>
            LET s == SavedSeconds(Normalized(asked, FALSE).tm)
            IN  result \in Int /\ result - s \in Int /\ ShownAt(sp, result - s, asked, s)
       /\ pc = "time2" /\ ~okay /\ InMinute(asked) => tm = [asked EXCEPT !.isdst = Kind(asked)]
       /\ pc \in {"time2", "done"} /\ ~okay /\ InMinute(asked) => result = WRONG

(***************************************************************************)
(* Asking for a type changes nothing of the date and time.                 *)
(***************************************************************************)
LEMMA Kinds ==
  ASSUME NEW b \in StructTm
  PROVE  /\ Kind(b) \in Int /\ [b EXCEPT !.isdst = Kind(b)] \in StructTm
         /\ LocalSeconds([b EXCEPT !.isdst = Kind(b)]) = LocalSeconds(b)
         /\ [b EXCEPT !.isdst = Kind(b)].sec = b.sec /\ [b EXCEPT !.isdst = Kind(b)].isdst = Kind(b)
         /\ Civil([b EXCEPT !.isdst = Kind(b)]) = Civil(b)
<1> DEFINE d == Kind(b)
           n == [b EXCEPT !.isdst = d]
<1>1. d \in Int
  BY DEF Kind, StructTm
<1> HIDE DEF d
<1>2. /\ n \in StructTm /\ n.year = b.year /\ n.mon = b.mon /\ n.mday = b.mday /\ n.hour = b.hour
      /\ n.min = b.min /\ n.sec = b.sec /\ n.isdst = d
  BY <1>1 DEF StructTm
<1> HIDE DEF n
<1>3. Civil(n) = Civil(b)
  BY <1>2 DEF Civil
<1>4. LocalSeconds(n) = LocalSeconds(b)
  BY <1>2, <1>3, SameReading
<1> QED BY <1>1, <1>2, <1>3, <1>4 DEF n, d

(***************************************************************************)
(* The seconds that are put aside are missing from what is searched for.   *)
(***************************************************************************)
LEMMA SavedRight ==
  ASSUME NEW n \in StructTm, LocalSeconds(n) \in Int, NEW y,
         y = [n EXCEPT !.sec = IF @ \in 0 .. SECSPERMIN - 1 THEN @
                               ELSE IF EarlyYear(n) THEN SECSPERMIN - 1 ELSE 0]
  PROVE  /\ y \in StructTm /\ y.isdst = n.isdst /\ SavedSeconds(n) \in Int
         /\ LocalSeconds(y) = LocalSeconds(n) - SavedSeconds(n) /\ LocalSeconds(y) \in Int
         /\ InMinute(n) => SavedSeconds(n) = 0
         /\ InMinute(y) /\ (InMinute(n) => Civil(y) = Civil(n))
<1> DEFINE s == IF n.sec \in 0 .. SECSPERMIN - 1 THEN n.sec ELSE IF EarlyYear(n) THEN SECSPERMIN - 1 ELSE 0
           v == SavedSeconds(n)
<1>1. n.sec \in Int /\ SECSPERMIN \in Nat \ {0}
  BY Units DEF StructTm
<1>2. s \in Int /\ v \in Int /\ n.sec - s = v /\ (InMinute(n) => v = 0) /\ s \in 0 .. SECSPERMIN - 1
  BY <1>1 DEF SavedSeconds, InMinute
<1> HIDE DEF s, v
<1>3. y = [n EXCEPT !.sec = s]
  BY DEF s
<1>4. /\ y \in StructTm /\ y.year = n.year /\ y.mon = n.mon /\ y.mday = n.mday /\ y.hour = n.hour
      /\ y.min = n.min /\ y.sec = s /\ y.isdst = n.isdst
  BY <1>2, <1>3 DEF StructTm
<1>5. Days(y) = Days(n)
  BY <1>4, SameDays
<1> DEFINE m == ((Days(n) * HOURSPERDAY + n.hour) * MINSPERHOUR + n.min) * SECSPERMIN
<1>6. LocalSeconds(n) = m + n.sec /\ LocalSeconds(y) = m + s
  BY <1>4, <1>5 DEF LocalSeconds
<1>7. m \in Int
  <2>1. Days(n) \in Int /\ n.hour \in Int /\ n.min \in Int
    BY DaysOfMonth DEF StructTm
  <2> DEFINE a == Days(n) * HOURSPERDAY
  <2>2. a \in Int
    BY <2>1, Units, Products
  <2> HIDE DEF a
  <2> DEFINE b == (a + n.hour) * MINSPERHOUR
  <2>3. b \in Int
    <3>1. a + n.hour \in Int /\ MINSPERHOUR \in Int
      BY <2>1, <2>2, Units
    <3> QED BY <3>1, Products
  <2> HIDE DEF b
  <2>4. (b + n.min) * SECSPERMIN \in Int
    <3>1. b + n.min \in Int /\ SECSPERMIN \in Int
      BY <2>1, <2>3, Units
    <3> QED BY <3>1, Products
  <2> QED BY <2>4 DEF a, b
<1> HIDE DEF m
<1>8. LocalSeconds(y) = LocalSeconds(n) - v /\ LocalSeconds(y) \in Int
  BY <1>1, <1>2, <1>6, <1>7
<1>9. InMinute(n) => Civil(y) = Civil(n)
  BY <1>2, <1>4 DEF Civil, InMinute, s
<1> QED BY <1>2, <1>4, <1>8, <1>9 DEF v, InMinute

(***************************************************************************)
(* A date and time in normal form is left alone.                           *)
(***************************************************************************)
LEMMA NormalStays ==
  ASSUME NEW b \in StructTm, IsNormal(b), NEW seconds \in BOOLEAN, Normalized(b, seconds).ok
  PROVE  Civil(Normalized(b, seconds).tm) = Civil(b)
<1> DEFINE q1 == IF seconds THEN b.sec \div SECSPERMIN ELSE 0
           s1 == IF seconds THEN b.sec % SECSPERMIN ELSE b.sec
           min == b.min + q1
           m1 == min % MINSPERHOUR
           hour == b.hour + min \div MINSPERHOUR
           h1 == hour % HOURSPERDAY
           mday == b.mday + hour \div HOURSPERDAY
           y0 == b.year + b.mon \div 12 + TM_YEAR_BASE
           mon0 == b.mon % 12
           date == CarryDays[<<y0, mon0, mday>>]
           year == date[1] - TM_YEAR_BASE
           n == [b EXCEPT !.year = year, !.mon = date[2], !.mday = date[3],
                          !.hour = h1, !.min = m1, !.sec = s1]
<1>1. /\ b.year \in Int /\ b.mon \in 0 .. 11 /\ b.mday \in Int /\ b.hour \in 0 .. HOURSPERDAY - 1
      /\ b.min \in 0 .. MINSPERHOUR - 1 /\ b.sec \in 0 .. SECSPERMIN - 1
      /\ b.mday \in 1 .. mon_lengths(b.year + TM_YEAR_BASE)[b.mon + 1]
  BY DEF StructTm, IsNormal, InMinute
<1>2. ASSUME NEW B \in Nat \ {0}, NEW x \in 0 .. B - 1
      PROVE  x \div B = 0 /\ x % B = x
  <2>1. Divided(x, B, 0, x)
    BY DEF Divided
  <2> QED BY <2>1, DivModUnique
<1>3. q1 = 0 /\ s1 = b.sec
  BY <1>1, <1>2, Units
<1>4. min = b.min
  BY <1>1, <1>3
<1>5. min \div MINSPERHOUR = 0 /\ m1 = b.min
  BY <1>1, <1>2, <1>4, Units
<1>6. hour = b.hour
  BY <1>1, <1>5, Units
<1>7. hour \div HOURSPERDAY = 0 /\ h1 = b.hour
  BY <1>1, <1>2, <1>6, Units
<1>8. mday = b.mday
  BY <1>1, <1>7
<1>9. b.mon \div 12 = 0 /\ mon0 = b.mon
  BY <1>1
<1>10. y0 = b.year + TM_YEAR_BASE /\ y0 \in Int
  <2>1. b.year + 0 = b.year
    BY <1>1
  <2> QED BY <1>1, <1>9, <2>1 DEF TM_YEAR_BASE
<1>11. Normalized(b, seconds) = Done(n)
  <2> DEFINE r == Normalized(b, seconds)
  <2>1. r = IF ~IsInt(min) \/ ~IsInt(hour) \/ ~IsInt(mday) \/ ~IsInt(year) THEN Null(b) ELSE Done(n)
    BY Zenon DEF Normalized, Tens, Left
  <2>2. r.ok
    OBVIOUS
  <2> HIDE DEF r, n, min, hour, mday, year
  <2> QED BY <2>1, <2>2 DEF Null, r
<1> HIDE DEF s1, m1, h1, mday, y0, mon0
<1>12. date = <<y0, mon0, mday>>
  <2>1. y0 \in Int /\ mon0 \in 0 .. 11 /\ mday \in Int /\ 1 <= mday /\ mday <= mon_lengths(y0)[mon0 + 1]
    <3>1. mon_lengths(y0)[mon0 + 1] \in 28 .. 31
      BY <1>1, <1>9, <1>10, MonthLengths
    <3> QED BY <1>1, <1>8, <1>9, <1>10, <3>1
  <2> QED BY <2>1, CarryDaysStays
<1> HIDE DEF date
<1>13. year = b.year /\ date[2] = b.mon /\ date[3] = b.mday
  <2>1. date[1] = y0 /\ date[2] = mon0 /\ date[3] = mday
    BY <1>12
  <2>2. year = b.year
    BY <1>1, <1>10, <2>1 DEF TM_YEAR_BASE
  <2> QED BY <1>8, <1>9, <2>1, <2>2
<1> HIDE DEF year
<1>14. Civil(n) = Civil(b)
  BY <1>3, <1>5, <1>7, <1>13 DEF Civil, StructTm
<1> HIDE DEF n
<1> QED BY <1>11, <1>14 DEF Done

(***************************************************************************)
(* Seconds in the minute are not put aside.                                *)
(***************************************************************************)
LEMMA NormalizedSecond ==
  ASSUME NEW b \in StructTm, InMinute(b)
  PROVE  SavedSeconds(Normalized(b, FALSE).tm) = 0
<1> DEFINE r == Normalized(b, FALSE)
<1>1. CASE r.ok
  <2>1. NormalizedOf(b, FALSE, r.tm)
    BY <1>1, NormalizedRight
  <2> HIDE DEF r
  <2>2. SavedSeconds(r.tm) = 0
    BY <2>1 DEF NormalizedOf, SavedSeconds, InMinute
  <2> QED BY <2>2 DEF r
<1>2. CASE ~r.ok
  <2>1. r = Null(b)
    BY <1>2 DEF Normalized, Done
  <2> HIDE DEF r
  <2>2. SavedSeconds(r.tm) = 0
    BY <2>1 DEF Null, SavedSeconds, InMinute
  <2> QED BY <2>2 DEF r
<1> QED BY <1>1, <1>2

(***************************************************************************)
(* tm_isdst has no part in it.                                             *)
(***************************************************************************)
LEMMA NormalizedKind ==
  ASSUME NEW b \in StructTm, NEW d \in Int
  PROVE  SavedSeconds(Normalized([b EXCEPT !.isdst = d], FALSE).tm) = SavedSeconds(Normalized(b, FALSE).tm)
<1> DEFINE n == [b EXCEPT !.isdst = d]
<1>1. /\ n \in StructTm /\ n.year = b.year /\ n.mon = b.mon /\ n.mday = b.mday /\ n.hour = b.hour
      /\ n.min = b.min /\ n.sec = b.sec
  BY DEF StructTm
<1> HIDE DEF n
<1> DEFINE q2 == b.min \div MINSPERHOUR
           hour == b.hour + q2
           mday == b.mday + hour \div HOURSPERDAY
           date == CarryDays[<<b.year + b.mon \div 12 + TM_YEAR_BASE, b.mon % 12, mday>>]
           year == date[1] - TM_YEAR_BASE
           bad == ~IsInt(b.min) \/ ~IsInt(hour) \/ ~IsInt(mday) \/ ~IsInt(year)
           New(c) == [c EXCEPT !.year = year, !.mon = date[2], !.mday = date[3],
                          !.hour = hour % HOURSPERDAY, !.min = b.min % MINSPERHOUR, !.sec = c.sec]
<1>2. b.min \in Int /\ b.min + 0 = b.min /\ n.min + 0 = b.min
  BY <1>1 DEF StructTm
<1>3. Normalized(b, FALSE) = IF bad THEN Null(b) ELSE Done(New(b))
  BY <1>2, Zenon DEF Normalized, Tens, Left
<1>4. Normalized(n, FALSE) = IF bad THEN Null(n) ELSE Done(New(n))
  BY <1>1, <1>2, Zenon DEF Normalized, Tens, Left
<1>5. New(n).sec = b.sec /\ New(b).sec = b.sec /\ New(n).year = year /\ New(b).year = year
  <2> HIDE DEF year, date, hour
  <2> QED BY <1>1 DEF StructTm
<1> HIDE DEF New, bad
<1> DEFINE u == Normalized(n, FALSE)
           v == Normalized(b, FALSE)
<1>6. u.tm.sec = v.tm.sec /\ u.tm.year = v.tm.year
  <2>1. v = (IF bad THEN Null(b) ELSE Done(New(b))) /\ u = (IF bad THEN Null(n) ELSE Done(New(n)))
    BY <1>3, <1>4
  <2> HIDE DEF u, v, year, date, mday, hour, q2
  <2>2. CASE bad
    <3>1. v = Null(b) /\ u = Null(n)
      BY <2>1, <2>2
    <3> QED BY <1>1, <3>1 DEF Null
  <2>3. CASE ~bad
    <3>1. v = Done(New(b)) /\ u = Done(New(n))
      BY <2>1, <2>3
    <3> QED BY <1>5, <3>1 DEF Done
  <2> QED BY <2>2, <2>3
<1> DEFINE e == u.tm
           f == v.tm
<1> HIDE DEF u, v
<1>7. SavedSeconds(e) = SavedSeconds(f)
  BY <1>6 DEF SavedSeconds, EarlyYear
<1> QED BY <1>7 DEF n, u, v

(***************************************************************************)
(* What the search looks for stands for the second asked for, less the     *)
(* seconds put aside.                                                      *)
(***************************************************************************)
LEMMA SoughtRight ==
  ASSUME NEW b \in StructTm, NEW seconds \in BOOLEAN, ~seconds \/ InMinute(b),
         NEW c, c = [b EXCEPT !.isdst = Kind(b)],
         NEW n, n = Normalized(c, seconds), n.ok,
         NEW y, y = [n.tm EXCEPT !.sec = IF @ \in 0 .. SECSPERMIN - 1 THEN @
                                         ELSE IF EarlyYear(n.tm) THEN SECSPERMIN - 1 ELSE 0]
  PROVE  Sought(b, y, SavedSeconds(n.tm))
<1>1. c \in StructTm /\ LocalSeconds(c) = LocalSeconds(b) /\ c.sec = b.sec /\ c.isdst = Kind(b) /\ Kind(b) \in Int
  BY Kinds
<1> DEFINE m == n.tm
           s == SavedSeconds(m)
<1>2. NormalizedOf(c, seconds, m)
  <2>1. Normalized(c, seconds).ok
    OBVIOUS
  <2>2. NormalizedOf(c, seconds, Normalized(c, seconds).tm)
    BY <1>1, <2>1, NormalizedRight
  <2> QED BY <2>2
<1> HIDE DEF m
<1>3. m \in StructTm /\ m.isdst = Kind(b) /\ LocalSeconds(m) = LocalSeconds(b) /\ LocalSeconds(m) \in Int
  BY <1>1, <1>2 DEF NormalizedOf
<1>4. y = [m EXCEPT !.sec = IF @ \in 0 .. SECSPERMIN - 1 THEN @
                            ELSE IF EarlyYear(m) THEN SECSPERMIN - 1 ELSE 0]
  BY DEF m
<1>5. /\ y \in StructTm /\ y.isdst = m.isdst /\ s \in Int
      /\ LocalSeconds(y) = LocalSeconds(m) - s /\ LocalSeconds(y) \in Int
      /\ InMinute(m) => s = 0
  BY <1>3, <1>4, SavedRight
<1>6. InMinute(b) => s = 0
  <2>1. InMinute(b) => InMinute(m)
    BY <1>1, <1>2 DEF NormalizedOf, InMinute
  <2> QED BY <1>5, <2>1
<1>7. s = SavedSeconds(Normalized(b, FALSE).tm)
  <2>1. CASE ~seconds
    <3>1. seconds = FALSE
      BY <2>1
    <3>2. SavedSeconds(Normalized(c, FALSE).tm) = SavedSeconds(Normalized(b, FALSE).tm)
      BY <1>1, NormalizedKind
    <3> QED BY <3>1, <3>2 DEF m
  <2>2. CASE InMinute(b)
    BY <1>6, <2>2, NormalizedSecond
  <2> QED BY <2>1, <2>2
<1>9. IsNormal(b) => Civil(y) = Civil(b)
  <2> SUFFICES ASSUME IsNormal(b) PROVE Civil(y) = Civil(b)
    OBVIOUS
  <2>1. IsNormal(c) /\ Civil(c) = Civil(b)
    <3>1. Civil(c) = Civil(b)
      BY Kinds
    <3>2. c.year = b.year /\ c.mon = b.mon /\ c.mday = b.mday /\ c.hour = b.hour /\ c.min = b.min /\ c.sec = b.sec
      BY <3>1 DEF Civil
    <3> QED BY <3>1, <3>2 DEF IsNormal, InMinute
  <2>2. Civil(Normalized(c, seconds).tm) = Civil(c)
    BY <1>1, <2>1, NormalStays
  <2>3. Civil(m) = Civil(b)
    BY <2>1, <2>2 DEF m
  <2>4. m.sec = b.sec
    BY <2>3 DEF Civil
  <2>5. InMinute(m)
    BY <2>4 DEF IsNormal, InMinute
  <2>6. InMinute(m) => Civil(y) = Civil(m)
    BY <1>3, <1>4, SavedRight
  <2> QED BY <2>3, <2>5, <2>6
<1>8. Sought(b, y, s)
  <2> HIDE DEF s
  <2> QED BY <1>3, <1>5, <1>6, <1>7, <1>9 DEF Sought
<1> QED BY <1>8 DEF m

(***************************************************************************)
(* A struct tm with fewer seconds is as much earlier.                      *)
(***************************************************************************)
LEMMA EarlierSeconds ==
  ASSUME NEW b \in StructTm, NEW s \in Int
  PROVE  LocalSeconds([b EXCEPT !.sec = @ - s]) = LocalSeconds(b) - s
<1> DEFINE k == b.sec - s
           n == [b EXCEPT !.sec = k]
           m == ((Days(b) * HOURSPERDAY + b.hour) * MINSPERHOUR + b.min) * SECSPERMIN
<1>1. b.sec \in Int /\ k \in Int
  BY DEF StructTm
<1>2. [b EXCEPT !.sec = @ - s] = n
  OBVIOUS
<1>3. /\ n.year = b.year /\ n.mon = b.mon /\ n.mday = b.mday /\ n.hour = b.hour
      /\ n.min = b.min /\ n.sec = k
  <2> HIDE DEF k
  <2> QED BY DEF StructTm
<1> HIDE DEF n
<1>4. Days(n) = Days(b)
  BY <1>3, SameDays
<1>5. LocalSeconds(n) = m + k /\ LocalSeconds(b) = m + b.sec
  BY <1>3, <1>4 DEF LocalSeconds
<1>6. m \in Int
  <2>1. Days(b) \in Int /\ b.hour \in Int /\ b.min \in Int
    BY DaysOfMonth DEF StructTm
  <2> DEFINE a == Days(b) * HOURSPERDAY
  <2>2. a \in Int
    BY <2>1, Units, Products
  <2> HIDE DEF a
  <2> DEFINE c == (a + b.hour) * MINSPERHOUR
  <2>3. c \in Int
    <3>1. a + b.hour \in Int /\ MINSPERHOUR \in Int
      BY <2>1, <2>2, Units
    <3> QED BY <3>1, Products
  <2> HIDE DEF c
  <2>4. (c + b.min) * SECSPERMIN \in Int
    <3>1. c + b.min \in Int /\ SECSPERMIN \in Int
      BY <2>1, <2>3, Units
    <3> QED BY <3>1, Products
  <2> QED BY <2>4 DEF a, c
<1> HIDE DEF m
<1> QED BY <1>1, <1>2, <1>5, <1>6

(***************************************************************************)
(* An instant at which the clock shows what was looked for is one of those *)
(* wanted.                                                                 *)
(***************************************************************************)
LEMMA FoundRight ==
  ASSUME NEW z, IsZone(z), SoundLeaps(z), NEW x \in Int, NEW b \in StructTm, NEW s, ShownAt(z, x, b, s)
  PROVE  x \in Wanted(z, [b EXCEPT !.sec = @ - s])
<1> DEFINE m == [b EXCEPT !.sec = @ - s]
           sub == localsub(z, x, ZeroTm)
<1>1. PICK y : Sought(b, y, s) /\ Shows(z, x, y)
  BY DEF ShownAt
<1>2. s \in Int /\ y \in StructTm /\ LocalSeconds(y) \in Int /\ LocalSeconds(y) = LocalSeconds(b) - s
      /\ y.isdst = Kind(b)
  BY <1>1 DEF Sought
<1>3. sub.ok /\ Civil(sub.tm) = Civil(y) /\ (y.isdst < 0 \/ sub.tm.isdst = y.isdst)
  BY <1>1 DEF Shows
<1>4. sub.tm \in StructTm
  BY <1>3, LocalsubType
<1>5. LocalSeconds(sub.tm) = LocalSeconds(y)
  <2> HIDE DEF sub
  <2> QED BY <1>2, <1>3, <1>4, SameReading
<1>6. LocalSeconds(m) = LocalSeconds(y)
  BY <1>2, EarlierSeconds
<1>7. m.isdst = b.isdst /\ b.isdst \in Int
  BY DEF StructTm
<1> HIDE DEF m
<1>8. Reads(z, x, m)
  BY <1>3, <1>5, <1>6 DEF Reads
<1>9. x \in InstantsOf(z, m)
  BY <1>2, <1>6, <1>8, ReadsInstant
<1>10. m.isdst < 0 \/ IsDst(z, x) = (IF m.isdst > 0 THEN 1 ELSE m.isdst)
  BY <1>2, <1>3, <1>7 DEF IsDst, Kind
<1> QED BY <1>9, <1>10 DEF Wanted, m

(***************************************************************************)
(* tz_mktime starts so.                                                    *)
(***************************************************************************)
LEMMA MktimeStarts ==
  ASSUME NEW b \in StructTm, sp \in Zones, tz_mktime(b)
  PROVE  MktimeInv'
<1>1. /\ tm' = [b EXCEPT !.isdst = Kind(b)] /\ asked' = b /\ pair' = FIRST /\ norm' = FALSE
      /\ pc' = "time2sub" /\ sp' = sp
  BY DEF tz_mktime, Kind
<1> QED BY <1>1 DEF MktimeInv

(***************************************************************************)
(* time2sub: normalised, and the search begins.                            *)
(***************************************************************************)
LEMMA Time2subKeeps ==
  ASSUME MktimeInv, time2sub
  PROVE  MktimeInv'
<1>1. /\ sp \in Zones /\ asked \in StructTm /\ norm \in BOOLEAN /\ pc = "time2sub"
      /\ UNCHANGED <<sp, asked, pair, norm>>
  BY DEF MktimeInv, time2sub
<1>2. pc' \in {"time2", "search"}
  BY DEF time2sub, NotFound
<1>3. SUFFICES ASSUME Trusted PROVE MktimeInv'
  BY <1>1 DEF MktimeInv, Trusted
<1> DEFINE c == [asked EXCEPT !.isdst = Kind(asked)]
           n == Normalized(tm, norm)
           s == SavedSeconds(n.tm)
           y == [n.tm EXCEPT !.sec = IF @ \in 0 .. SECSPERMIN - 1 THEN @
                                     ELSE IF EarlyYear(n.tm) THEN SECSPERMIN - 1 ELSE 0]
<1>4. tm = c
  BY <1>1, <1>3 DEF MktimeInv
<1>5. CASE ~n.ok \/ ~IsInt(s)
  <2>1. okay' = FALSE /\ result' = WRONG /\ pc' = "time2" /\ tm' = tm
    BY <1>5, Zenon DEF time2sub, NotFound
  <2> QED BY <1>1, <1>4, <2>1 DEF MktimeInv
<1>6. CASE ~(~n.ok \/ ~IsInt(s))
  <2>1. saved' = s /\ yourtm' = y /\ lo' = TIME_T_MIN /\ hi' = TIME_T_MAX /\ pc' = "search" /\ tm' = tm
    BY <1>6, Zenon DEF time2sub
  <2>2. Sought(asked, y, s)
    <3>1. c = [asked EXCEPT !.isdst = Kind(asked)] /\ n = Normalized(c, norm) /\ n.ok
          /\ (~norm \/ InMinute(asked))
      BY <1>3, <1>4, <1>6 DEF Trusted
    <3>2. y = [n.tm EXCEPT !.sec = IF @ \in 0 .. SECSPERMIN - 1 THEN @
                                   ELSE IF EarlyYear(n.tm) THEN SECSPERMIN - 1 ELSE 0]
      OBVIOUS
    <3> HIDE DEF c, n, y
    <3> QED BY <1>1, <3>1, <3>2, SoughtRight
  <2>3. TIME_T_MIN \in Int /\ TIME_T_MAX \in Int /\ TIME_T_MIN <= TIME_T_MAX
    BY SearchAssumption DEF TIME_T_MIN
  <2> HIDE DEF y, s, n
  <2> QED BY <1>1, <1>4, <2>1, <2>2, <2>3 DEF MktimeInv
<1> QED BY <1>5, <1>6

(***************************************************************************)
(* A probe is what the clock shows.                                        *)
(***************************************************************************)
LEMMA ProbeKeeps ==
  ASSUME MktimeInv, Probe
  PROVE  MktimeInv'
<1>1. /\ pc = "search" /\ pc' = "compare" /\ t' = Middle /\ mytm' = localsub(sp, Middle, ZeroTm)
      /\ UNCHANGED <<sp, instant, tm, asked, pair, norm, yourtm, saved, lo, hi, okay, result>>
  BY DEF Probe
<1>2. Trusted => Middle \in Int
  <2> SUFFICES ASSUME Trusted PROVE Middle \in Int
    OBVIOUS
  <2>1. lo \in Int /\ hi \in Int
    BY <1>1 DEF MktimeInv
  <2> QED BY <2>1 DEF Middle, CDiv
<1> QED BY <1>1, <1>2 DEF MktimeInv, Trusted

(***************************************************************************)
(* A probe that is too early or too late.                                  *)
(***************************************************************************)
LEMMA NarrowKeeps ==
  ASSUME MktimeInv, Narrow
  PROVE  MktimeInv'
<1>1. pc = "compare" /\ UNCHANGED <<sp, instant, asked, pair, norm, yourtm, saved, t, mytm>>
      /\ pc' \in {"search", "time2"}
  BY DEF Narrow, NotFound
<1>2. SUFFICES ASSUME Trusted PROVE MktimeInv'
  BY <1>1 DEF MktimeInv, Trusted
<1>3. lo \in Int /\ hi \in Int /\ t \in Int
  BY <1>1, <1>2 DEF MktimeInv
<1> DEFINE atLo == t = lo
           atHi == t # lo /\ t = hi
           next == IF atLo THEN t + 1 ELSE IF atHi THEN t - 1 ELSE t
           lo1  == IF atLo THEN lo + 1 ELSE lo
           hi1  == IF atHi THEN hi - 1 ELSE hi
<1>4. CASE pc' = "time2"
  <2>1. okay' = FALSE /\ result' = WRONG /\ UNCHANGED tm
    BY <1>4 DEF Narrow, NotFound
  <2> QED BY <1>1, <1>2, <1>4, <2>1 DEF MktimeInv
<1>5. CASE pc' = "search"
  <2>1. \/ lo' = lo1 /\ hi' = next
        \/ lo' = next /\ hi' = hi1
    <3>1. IF lo1 > hi1 THEN NotFound
          ELSE IF Direction > 0 THEN lo' = lo1 /\ hi' = next ELSE lo' = next /\ hi' = hi1
      BY Zenon DEF Narrow
    <3>2. ~NotFound
      BY <1>5 DEF NotFound
    <3> HIDE DEF lo1, hi1, next
    <3> QED BY <3>1, <3>2
  <2>2. lo' \in Int /\ hi' \in Int
    BY <1>3, <2>1
  <2>3. UNCHANGED tm
    BY <1>5 DEF Narrow, NotFound
  <2> HIDE DEF lo1, hi1, next
  <2> QED BY <1>1, <1>2, <1>5, <2>2, <2>3 DEF MktimeInv
<1> QED BY <1>1, <1>4, <1>5

(***************************************************************************)
(* A probe that is right, in each of the kinds.                            *)
(***************************************************************************)
LEMMA MatchKeeps ==
  ASSUME MktimeInv, Match
  PROVE  MktimeInv'
<1>1. /\ pc = "compare" /\ pc' = "label" /\ Direction = 0 /\ RightType
      /\ UNCHANGED <<sp, instant, tm, asked, pair, norm, yourtm, saved, lo, hi, t, mytm, okay, result>>
  BY DEF Match, search_vars
<1>2. SUFFICES ASSUME Trusted PROVE MktimeInv'
  BY <1>1 DEF MktimeInv, Trusted
<1>3. sp \in Zones /\ t \in Int /\ mytm = localsub(sp, t, ZeroTm) /\ Sought(asked, yourtm, saved)
  BY <1>1, <1>2 DEF MktimeInv
<1>4. mytm.ok /\ tmcomp(mytm.tm, yourtm) = 0
  BY <1>1, <1>3 DEF Direction
<1>5. mytm.tm \in StructTm /\ yourtm \in StructTm
  <2>1. IsZone(sp) /\ SoundLeaps(sp)
    BY <1>3, SearchAssumption, SoundLeapsAssumption
  <2>2. localsub(sp, t, ZeroTm).ok
    BY <1>3, <1>4
  <2>3. localsub(sp, t, ZeroTm).tm \in StructTm
    BY <1>3, <2>1, <2>2, LocalsubType
  <2> QED BY <1>3, <2>3 DEF Sought
<1>6. Civil(mytm.tm) = Civil(yourtm)
  BY <1>4, <1>5, SameCivil
<1>7. Shows(sp, t, yourtm)
  BY <1>1, <1>3, <1>4, <1>6 DEF Shows, RightType
<1> QED BY <1>1, <1>2, <1>3, <1>7 DEF MktimeInv

(***************************************************************************)
(* The other types, tried at the instant found.                            *)
(***************************************************************************)
LEMMA HuntKeeps ==
  ASSUME MktimeInv, Hunt
  PROVE  MktimeInv'
<1>1. /\ pc = "compare" /\ pc' \in {"label", "time2"}
      /\ UNCHANGED <<sp, instant, asked, pair, norm, yourtm, saved, lo, hi, mytm>>
      /\ IF Matching = {} THEN NotFound ELSE t' = Moved(Highest(Matching)) /\ pc' = "label" /\ UNCHANGED <<tm, okay, result>>
  BY DEF Hunt, NotFound
<1>2. SUFFICES ASSUME Trusted PROVE MktimeInv'
  BY <1>1 DEF MktimeInv, Trusted
<1>3. sp \in Zones /\ t \in Int /\ Sought(asked, yourtm, saved)
  BY <1>1, <1>2 DEF MktimeInv
<1>4. CASE Matching = {}
  <2>1. okay' = FALSE /\ result' = WRONG /\ pc' = "time2" /\ UNCHANGED tm
    BY <1>1, <1>4 DEF NotFound
  <2> QED BY <1>1, <1>2, <2>1 DEF MktimeInv
<1>5. CASE Matching # {}
  <2> DEFINE p == Highest(Matching)
             x == Moved(p)
             sub == localsub(sp, x, ZeroTm)
  <2>1. IsZone(sp) /\ SoundLeaps(sp)
    BY <1>3, SearchAssumption, SoundLeapsAssumption
  <2>2. p \in Matching
    <3>1. Len(sp.ttis) \in Nat
      BY <2>1 DEF IsZone
    <3>2. Matching \in SUBSET ((1 .. Len(sp.ttis)) \X (1 .. Len(sp.ttis)))
      BY DEF Matching
    <3> QED BY <1>5, <3>1, <3>2, HighestIsOne
  <2>3. p[1] \in 1 .. Len(sp.ttis) /\ p[2] \in 1 .. Len(sp.ttis) /\ Matches(sub)
    BY <2>2 DEF Matching
  <2> HIDE DEF p
  <2>4. x \in Int
    BY <1>3, <2>1, <2>3 DEF Moved, IsZone
  <2> HIDE DEF x
  <2>5. sub.ok /\ tmcomp(sub.tm, yourtm) = 0 /\ sub.tm.isdst = yourtm.isdst
    BY <2>3 DEF Matches
  <2>6. sub.tm \in StructTm /\ yourtm \in StructTm
    BY <1>3, <2>1, <2>4, <2>5, LocalsubType DEF Sought
  <2>7. Civil(sub.tm) = Civil(yourtm)
    <3> HIDE DEF sub
    <3> QED BY <2>5, <2>6, SameCivil
  <2>8. Shows(sp, x, yourtm)
    BY <2>5, <2>7 DEF Shows
  <2>9. t' = x /\ pc' = "label" /\ UNCHANGED <<tm, okay, result>>
    BY <1>1, <1>5 DEF x, p
  <2> QED BY <1>1, <1>2, <1>3, <2>4, <2>8, <2>9 DEF MktimeInv
<1> QED BY <1>4, <1>5

(***************************************************************************)
(* The seconds are put back.                                               *)
(***************************************************************************)
LEMMA LabelKeeps ==
  ASSUME MktimeInv, label
  PROVE  MktimeInv'
<1> DEFINE sub == localsub(sp, t + saved, tm)
<1>1. /\ pc = "label" /\ pc' = "time2" /\ tm' = sub.tm /\ okay' = sub.ok /\ result' = t + saved
      /\ UNCHANGED <<sp, asked, pair, norm>>
  BY DEF label
<1>2. SUFFICES ASSUME Trusted PROVE MktimeInv'
  BY <1>1 DEF MktimeInv, Trusted
<1>3. /\ sp \in Zones /\ asked \in StructTm /\ t \in Int /\ Shows(sp, t, yourtm)
      /\ Sought(asked, yourtm, saved)
  BY <1>1, <1>2 DEF MktimeInv
<1>4. IsZone(sp) /\ SoundLeaps(sp)
  BY <1>3, SearchAssumption, SoundLeapsAssumption
<1> DEFINE s == SavedSeconds(Normalized(asked, FALSE).tm)
<1>5. saved = s /\ saved \in Int /\ (InMinute(asked) => saved = 0)
  BY <1>3 DEF Sought
<1>6. ShownAt(sp, t, asked, saved)
  BY <1>3 DEF ShownAt
<1> HIDE DEF s
<1>7. result' - s = t /\ result' \in Int
  BY <1>1, <1>3, <1>5
<1>8. InMinute(asked) => okay'
  <2> SUFFICES ASSUME InMinute(asked) PROVE okay'
    OBVIOUS
  <2>1. t + saved = t
    BY <1>3, <1>5
  <2>2. localsub(sp, t, ZeroTm).ok
    BY <1>3 DEF Shows
  <2>3. sub = localsub(sp, t, ZeroTm)
    BY <2>1, <2>2, WhateverTm
  <2> HIDE DEF sub
  <2> QED BY <1>1, <2>2, <2>3
<1> HIDE DEF sub
<1>9. result' \in Int /\ result' - s \in Int /\ ShownAt(sp, result' - s, asked, s)
  BY <1>3, <1>5, <1>6, <1>7
<1> QED BY <1>1, <1>2, <1>3, <1>8, <1>9 DEF MktimeInv, s

(***************************************************************************)
(* time2 tries again, with the seconds normalised.                         *)
(***************************************************************************)
LEMMA SecondTryKeeps ==
  ASSUME MktimeInv, time2
  PROVE  MktimeInv'
<1>1. pc = "time2" /\ ~okay /\ ~norm /\ norm' = TRUE /\ pc' = "time2sub"
      /\ UNCHANGED <<sp, tm, asked, pair>>
  BY DEF time2
<1> QED BY <1>1 DEF MktimeInv, Trusted

(***************************************************************************)
(* time1 has its answer.                                                   *)
(***************************************************************************)
LEMMA ReturnKeeps ==
  ASSUME MktimeInv, Return
  PROVE  MktimeInv'
<1>1. pc = "time2" /\ pc' = "done" /\ UNCHANGED <<sp, tm, asked, pair, norm, okay, result>>
  BY DEF Return
<1> QED BY <1>1 DEF MktimeInv, Trusted

(***************************************************************************)
(* It has none, and guesses a type.                                        *)
(***************************************************************************)
LEMMA GuessKeeps ==
  ASSUME MktimeInv, time1
  PROVE  MktimeInv'
<1>1. /\ pc = "time2" /\ ~okay /\ norm /\ (pair # FIRST \/ tm.isdst >= 0) /\ pc' \in {"done", "time2sub"}
      /\ UNCHANGED <<sp, asked, okay>>
  BY DEF time1
<1>2. sp \in Zones /\ asked \in StructTm /\ norm \in BOOLEAN
  BY <1>1 DEF MktimeInv
<1>5. ~(asked.isdst < 0 /\ InMinute(asked))
  <2> SUFFICES ASSUME asked.isdst < 0, InMinute(asked) PROVE FALSE
    OBVIOUS
  <2>1. pair = FIRST
    BY <1>1 DEF MktimeInv
  <2>2. tm = [asked EXCEPT !.isdst = Kind(asked)]
    BY <1>1, <2>1 DEF MktimeInv, Trusted
  <2>3. tm.isdst = Kind(asked) /\ asked.isdst \in Int
    BY <1>2, <2>2, Kinds DEF StructTm
  <2> QED BY <1>1, <2>1, <2>3 DEF Kind
<1>3. CASE pc' = "done"
  <2>1. result' = WRONG /\ UNCHANGED <<pair, norm>>
    BY <1>3 DEF time1
  <2> QED BY <1>1, <1>2, <1>3, <1>5, <2>1 DEF MktimeInv
<1>4. CASE pc' = "time2sub"
  <2>1. PICK p \in Untried : pair' = p /\ norm' = FALSE
    BY <1>4 DEF time1
  <2>2. p[1] \in 1 .. Len(sp.ttis)
    <3>1. IsZone(sp)
      BY <1>2, SearchAssumption
    <3> QED BY <2>1, <3>1 DEF Untried, Seen, IsZone
  <2>3. pair' # FIRST
    BY <2>1, <2>2 DEF FIRST
  <2> QED BY <1>1, <1>2, <1>4, <1>5, <2>1, <2>3 DEF MktimeInv, Trusted
<1> QED BY <1>1, <1>3, <1>4

(***************************************************************************)
(* Every step of tz_mktime keeps it.                                       *)
(***************************************************************************)
LEMMA MktimeKeeps ==
  ASSUME MktimeInv, MktimeStep
  PROVE  MktimeInv'
BY Time2subKeeps, ProbeKeeps, NarrowKeeps, MatchKeeps, HuntKeeps, LabelKeeps, SecondTryKeeps,
   ReturnKeeps, GuessKeeps DEF MktimeStep

(***************************************************************************)
(* tz_mktime was not left to guess a type, nor to try again with seconds   *)
(* out of the minute.                                                      *)
(***************************************************************************)
Unguessed ==
  \/ asked.isdst < 0 /\ InMinute(asked)
  \/ pair = FIRST /\ (~norm \/ InMinute(asked))

(***************************************************************************)
(* So what is found is right.                                              *)
(***************************************************************************)
LEMMA FoundFollows ==
  ASSUME MktimeInv, Unguessed
  PROVE  FoundIsRight
<1> DEFINE s == SavedSeconds(Normalized(asked, FALSE).tm)
           m == [asked EXCEPT !.sec = @ - s]
<1>1. SUFFICES ASSUME pc = "done", okay
               PROVE  result - s \in Wanted(sp, m)
  BY Zenon DEF FoundIsRight
<1>2. sp \in Zones /\ asked \in StructTm /\ (asked.isdst < 0 /\ InMinute(asked) => pair = FIRST)
  BY <1>1 DEF MktimeInv
<1>3. Trusted
  BY <1>2 DEF Unguessed, Trusted
<1>4. result - s \in Int /\ ShownAt(sp, result - s, asked, s)
  BY <1>1, <1>3 DEF MktimeInv
<1>5. IsZone(sp) /\ SoundLeaps(sp)
  BY <1>2, SearchAssumption, SoundLeapsAssumption
<1> DEFINE x == result - s
<1> HIDE DEF s, x
<1>6. x \in Wanted(sp, [asked EXCEPT !.sec = @ - s])
  BY <1>2, <1>4, <1>5, FoundRight DEF x
<1> QED BY <1>6 DEF x

(***************************************************************************)
(* The client's fields are a struct tm.                                    *)
(***************************************************************************)
LEMMA EditedType ==
  ASSUME NEW b \in StructTm, NEW e, {e.year, e.mon, e.mday, e.hour, e.min, e.sec} \subseteq Int, NEW h \in Int
  PROVE  [Edited(b, e) EXCEPT !.isdst = h] \in StructTm
<1> DEFINE yy == b.year + e.year
           mm == b.mon + e.mon
           dd == b.mday + e.mday
           hh == b.hour + e.hour
           mi == b.min + e.min
           ss == b.sec + e.sec
           c1 == [b EXCEPT !.year = yy]
           c2 == [c1 EXCEPT !.mon = mm]
           c3 == [c2 EXCEPT !.mday = dd]
           c4 == [c3 EXCEPT !.hour = hh]
           c5 == [c4 EXCEPT !.min = mi]
           c6 == [c5 EXCEPT !.sec = ss]
<1>1. yy \in Int /\ mm \in Int /\ dd \in Int /\ hh \in Int /\ mi \in Int /\ ss \in Int
  <2>1. e.year \in Int /\ e.mon \in Int /\ e.mday \in Int /\ e.hour \in Int /\ e.min \in Int /\ e.sec \in Int
    OBVIOUS
  <2> QED BY <2>1 DEF StructTm
<1>2. Edited(b, e) = c6
  BY DEF Edited
<1> HIDE DEF yy, mm, dd, hh, mi, ss
<1>3. c1 \in StructTm
  BY <1>1 DEF StructTm
<1> HIDE DEF c1
<1>4. c2 \in StructTm
  BY <1>1, <1>3 DEF StructTm
<1> HIDE DEF c2
<1>5. c3 \in StructTm
  BY <1>1, <1>4 DEF StructTm
<1> HIDE DEF c3
<1>6. c4 \in StructTm
  BY <1>1, <1>5 DEF StructTm
<1> HIDE DEF c4
<1>7. c5 \in StructTm
  BY <1>1, <1>6 DEF StructTm
<1> HIDE DEF c5
<1>8. c6 \in StructTm
  BY <1>1, <1>7 DEF StructTm
<1> HIDE DEF c6
<1>9. [c6 EXCEPT !.isdst = h] \in StructTm
  BY <1>8 DEF StructTm
<1> QED BY <1>2, <1>9

(***************************************************************************)
(* What the client has read is a struct tm, in one of the zones.           *)
(***************************************************************************)
LEMMA ReadType ==
  ASSUME ReadInv, pc = "read"
  PROVE  sp \in Zones /\ tm \in StructTm
<1>1. sp \in Zones /\ instant \in Instants
      /\ localsub(sp, instant, ZeroTm).ok /\ tm = localsub(sp, instant, ZeroTm).tm
  BY DEF ReadInv
<1>2. IsZone(sp) /\ SoundLeaps(sp) /\ instant \in Int
  <2>1. IsZone(sp) /\ SoundLeaps(sp)
    BY <1>1, SearchAssumption, SoundLeapsAssumption
  <2> QED BY <1>1, <2>1, SearchAssumption DEF TIME_T_MIN
<1> QED BY <1>1, <1>2, LocalsubType

(***************************************************************************)
(* Every step of the client keeps it.                                      *)
(***************************************************************************)
LEMMA MktimeStays ==
  ASSUME ReadInv, MktimeInv, [Next]_vars
  PROVE  MktimeInv'
<1>1. CASE Ask \/ NextQuestion
  <2>1. pc' \in {"read", "failed", "idle"}
    BY <1>1 DEF Ask, tz_localtime_r, NextQuestion
  <2> QED BY <2>1 DEF MktimeInv
<1>2. CASE AskFor
  <2>1. PICK e \in Edits, h \in Hints : pc = "read" /\ tz_mktime([Edited(tm, e) EXCEPT !.isdst = h])
    BY <1>2 DEF AskFor
  <2> DEFINE b == [Edited(tm, e) EXCEPT !.isdst = h]
  <2>2. sp \in Zones /\ b \in StructTm
    <3>1. sp \in Zones /\ tm \in StructTm
      BY <2>1, ReadType
    <3> QED BY <2>1, <3>1, EditedType, SearchAssumption
  <2> HIDE DEF b
  <2> QED BY <2>1, <2>2, MktimeStarts DEF b
<1>3. CASE MktimeStep
  BY <1>3, MktimeKeeps
<1>4. CASE UNCHANGED vars
  BY <1>4 DEF MktimeInv, Trusted, vars, search_vars
<1> QED BY <1>1, <1>2, <1>3, <1>4 DEF Next

(***************************************************************************)
(* An instant that tz_mktime answers is one at which the clock shows what  *)
(* was asked for (FoundIsRight), in every zone whose leap seconds are at   *)
(* the ends of minutes, for every request that it neither guesses a type   *)
(* for nor tries again with seconds out of the minute.                     *)
(***************************************************************************)
THEOREM FoundOnTheClock == Spec => [](Unguessed => FoundIsRight)
<1>1. Init => ReadInv /\ MktimeInv
  BY DEF Init, ReadInv, MktimeInv
<1>2. ReadInv /\ MktimeInv /\ [Next]_vars => ReadInv' /\ MktimeInv'
  BY ReadStays, MktimeStays
<1>3. MktimeInv => (Unguessed => FoundIsRight)
  BY FoundFollows
<1> QED BY <1>1, <1>2, <1>3, PTL DEF Spec

(***************************************************************************)
(* The interval is never empty, and the instant tried is in it.            *)
(***************************************************************************)
SearchInv ==
  pc \in {"search", "compare"} =>
    /\ lo \in Int /\ hi \in Int /\ lo <= hi
    /\ pc = "compare" => t \in Int /\ lo <= t /\ t <= hi

(***************************************************************************)
(* The middle is an instant of the interval, although halves are rounded   *)
(* before they are added.                                                  *)
(***************************************************************************)
LEMMA MiddleInside ==
  ASSUME lo \in Int, hi \in Int, lo <= hi
  PROVE  Middle \in Int /\ lo <= Middle /\ Middle <= hi
BY DEF Middle, CDiv

(***************************************************************************)
(* A probe that is compared leaves an end of the interval behind, unless   *)
(* the search is over.                                                     *)
(***************************************************************************)
LEMMA NarrowNarrows ==
  ASSUME SearchInv, Narrow, pc' = "search"
  PROVE  /\ lo' \in Int /\ hi' \in Int
         /\ lo <= lo' /\ lo' <= hi' /\ hi' <= hi /\ hi' - lo' < hi - lo
<1>1. /\ lo \in Int /\ hi \in Int /\ t \in Int
      /\ lo <= t /\ t <= hi
  BY DEF SearchInv, Narrow
<1> DEFINE atLo == t = lo
           atHi == t # lo /\ t = hi
           next == IF atLo THEN t + 1 ELSE IF atHi THEN t - 1 ELSE t
           lo1  == IF atLo THEN lo + 1 ELSE lo
           hi1  == IF atHi THEN hi - 1 ELSE hi
<1>2. /\ lo1 <= hi1
      /\ \/ lo' = lo1 /\ hi' = next
         \/ lo' = next /\ hi' = hi1
  <2>1. IF lo1 > hi1 THEN NotFound
        ELSE IF Direction > 0 THEN lo' = lo1 /\ hi' = next ELSE lo' = next /\ hi' = hi1
    BY Zenon DEF Narrow
  <2>2. ~NotFound
    BY DEF NotFound
  <2>3. lo1 \in Int /\ hi1 \in Int
    BY <1>1
  <2> HIDE DEF lo1, hi1, next
  <2> QED
    BY <2>1, <2>2, <2>3
<1>3. CASE atLo
  BY <1>1, <1>2, <1>3
<1>4. CASE atHi
  BY <1>1, <1>2, <1>4
<1>5. CASE ~atLo /\ ~atHi
  BY <1>1, <1>2, <1>5
<1> QED
  BY <1>3, <1>4, <1>5

(***************************************************************************)
(* No other step goes on with the search.                                  *)
(***************************************************************************)
LEMMA SearchStays ==
  ASSUME SearchInv, [Next]_vars
  PROVE  SearchInv'
<1>1. CASE time2sub
  <2>1. TIME_T_MIN \in Int /\ TIME_T_MAX \in Int /\ TIME_T_MIN <= TIME_T_MAX
    BY SearchAssumption DEF TIME_T_MIN
  <2>2. pc' \in {"search", "compare"} => pc' = "search" /\ lo' = TIME_T_MIN /\ hi' = TIME_T_MAX
    BY <1>1 DEF time2sub, NotFound
  <2> QED
    BY <2>1, <2>2 DEF SearchInv
<1>2. CASE Probe
  <2>1. pc = "search" /\ t' = Middle /\ UNCHANGED <<lo, hi>>
    BY <1>2 DEF Probe
  <2>2. lo \in Int /\ hi \in Int /\ lo <= hi
    BY <2>1 DEF SearchInv
  <2> QED
    BY <2>1, <2>2, MiddleInside DEF SearchInv
<1>3. CASE Narrow
  <2>1. pc' \in {"search", "time2"}
    BY <1>3 DEF Narrow, NotFound
  <2> QED
    BY <1>3, <2>1, NarrowNarrows DEF SearchInv
<1>4. CASE Match \/ Hunt \/ label \/ time2 \/ time1 \/ Return
  BY <1>4 DEF SearchInv, Match, Hunt, NotFound, label, time2, time1, Return
<1>5. CASE Ask \/ AskFor \/ NextQuestion
  BY <1>5 DEF SearchInv, Ask, AskFor, tz_localtime_r, tz_mktime, NextQuestion
<1>6. CASE UNCHANGED vars
  BY <1>6 DEF SearchInv, vars, search_vars
<1> QED
  BY <1>1, <1>2, <1>3, <1>4, <1>5, <1>6 DEF Next, MktimeStep

(***************************************************************************)
(* The search of time2sub makes its interval smaller with each probe, and  *)
(* never looks outside of it: it ends, whatever localsub answers, for a    *)
(* time_t of any width (libtz.c:1783-1830).                                *)
(***************************************************************************)
THEOREM SearchEnds == Spec => SearchNarrows
<1>1. Init => SearchInv
  BY DEF Init, SearchInv
<1>2. SearchInv /\ [Next]_vars =>
        [pc = "compare" /\ pc' = "search" =>
           lo <= lo' /\ lo' <= hi' /\ hi' <= hi /\ hi' - lo' < hi - lo]_vars
  <2> SUFFICES ASSUME SearchInv, Next, pc = "compare", pc' = "search"
               PROVE  Narrow
    BY NarrowNarrows
  <2> QED
    BY DEF Next, Ask, AskFor, tz_localtime_r, tz_mktime, NextQuestion, MktimeStep, time2sub, Probe,
           Match, Hunt, NotFound, label, time2, time1, Return
<1> QED
  BY <1>1, <1>2, SearchStays, PTL DEF Spec, SearchNarrows

-----------------------------------------------------------------------------
(***************************************************************************)
(* What the search makes of the instant x when it looks for b: 0 when the  *)
(* clock shows b, a positive number when x is too late for b, a negative   *)
(* one when it is too early (libtz.c:1794-1806).                           *)
(***************************************************************************)
Side(z, x, b) ==
  LET sub == localsub(z, x, ZeroTm)
  IN  IF sub.ok THEN tmcomp(sub.tm, b) ELSE IF x > 0 THEN 1 ELSE -1

(* The instant x is too early, or too late; those that are no time_t are.  *)
TooEarly(z, x, b) == x < TIME_T_MIN \/ (x <= TIME_T_MAX /\ Side(z, x, b) < 0)
TooLate(z, x, b)  == x > TIME_T_MAX \/ (x >= TIME_T_MIN /\ Side(z, x, b) > 0)

(***************************************************************************)
(* The clock passes over b from one instant to the next. A clock that is   *)
(* put forward skips the hour in between, and a clock that is put back     *)
(* skips nothing; it may skip b although it shows b some other time, if it *)
(* is put forward and back again within the hour.                          *)
(***************************************************************************)
Skips(z, b) ==
  \E x \in TIME_T_MIN - 1 .. TIME_T_MAX : TooEarly(z, x, b) /\ TooLate(z, x + 1, b)

(***************************************************************************)
(* Of the fields that are different there is a first one.                  *)
(***************************************************************************)
LEMMA FirstDifference ==
  ASSUME NEW x, NEW y, \E i \in 1 .. 6 : x[i] # y[i]
  PROVE  \E i \in 1 .. 6 : x[i] # y[i] /\ \A j \in 1 .. i - 1 : x[j] = y[j]
<1> DEFINE S == {i \in 1 .. 6 : x[i] # y[i]}
<1>1. S \in SUBSET Nat /\ S # {}
  OBVIOUS
<1>2. PICK i \in S : \A j \in S : i <= j
  <2> HIDE DEF S
  <2> QED BY <1>1, LeastNatural
<1>3. \A j \in 1 .. i - 1 : x[j] = y[j]
  <2> TAKE j \in 1 .. i - 1
  <2>1. j \in 1 .. 6 /\ ~(i <= j) /\ i \in 1 .. 6
    BY <1>2
  <2> QED BY <1>2, <2>1
<1> QED BY <1>2, <1>3

(***************************************************************************)
(* tmcomp answers a number, 0 for the same date and time only              *)
(* (libtz.c:1664).                                                         *)
(***************************************************************************)
LEMMA ComparedIsNumber ==
  ASSUME NEW a \in StructTm, NEW b \in StructTm
  PROVE  tmcomp(a, b) \in Int /\ (tmcomp(a, b) = 0 <=> Civil(a) = Civil(b))
<1> DEFINE x == Civil(a)
           y == Civil(b)
           Differs(i) == x[i] # y[i] /\ \A j \in 1 .. i - 1 : x[j] = y[j]
           k == CHOOSE i \in 1 .. 6 : Differs(i)
<1>1. x = y => tmcomp(a, b) = 0
  BY DEF tmcomp
<1>2. tmcomp(a, b) = 0 => x = y
  BY SameCivil
<1>3. ASSUME x # y PROVE tmcomp(a, b) \in Int
  <2>1. tmcomp(a, b) = x[k] - y[k]
    BY <1>3 DEF tmcomp
  <2>2. /\ x[1] \in Int /\ x[2] \in Int /\ x[3] \in Int /\ x[4] \in Int /\ x[5] \in Int /\ x[6] \in Int
        /\ y[1] \in Int /\ y[2] \in Int /\ y[3] \in Int /\ y[4] \in Int /\ y[5] \in Int /\ y[6] \in Int
    BY DEF StructTm, Civil
  <2>3. \E i \in 1 .. 6 : Differs(i)
    <3>1. x[1] # y[1] \/ x[2] # y[2] \/ x[3] # y[3] \/ x[4] # y[4] \/ x[5] # y[5] \/ x[6] # y[6]
      BY <1>3 DEF Civil
    <3> HIDE DEF x, y
    <3> QED BY <3>1, FirstDifference
  <2>4. k \in 1 .. 6
    <3> HIDE DEF Differs
    <3> QED BY <2>3
  <2> HIDE DEF k, x, y
  <2>5. x[k] \in Int /\ y[k] \in Int
    BY <2>2, <2>4
  <2> QED BY <2>1, <2>5
<1> QED BY <1>1, <1>2, <1>3

(***************************************************************************)
(* So what the search decides by is one.                                   *)
(***************************************************************************)
LEMMA SideIsNumber ==
  ASSUME NEW z, IsZone(z), SoundLeaps(z), NEW x \in Int, NEW b \in StructTm
  PROVE  Side(z, x, b) \in Int
<1> DEFINE sub == localsub(z, x, ZeroTm)
<1>1. CASE ~sub.ok
  BY <1>1 DEF Side
<1>2. CASE sub.ok
  <2>1. sub.tm \in StructTm
    BY <1>2, LocalsubType
  <2> DEFINE a == sub.tm
  <2>2. Side(z, x, b) = tmcomp(a, b)
    BY <1>2 DEF Side
  <2> HIDE DEF sub, a
  <2>3. a \in StructTm
    BY <2>1 DEF a
  <2> QED BY <2>2, <2>3, ComparedIsNumber
<1> QED BY <1>1, <1>2

(***************************************************************************)
(* Between an instant that is too early and one that is too late there is  *)
(* one at which the clock shows b, unless it skips b: however often it     *)
(* goes back in between.                                                   *)
(***************************************************************************)
LEMMA Crossing ==
  ASSUME NEW z, IsZone(z), SoundLeaps(z), NEW b \in StructTm, ~Skips(z, b),
         NEW l \in Int, NEW h \in Int, l < h, TIME_T_MIN - 1 <= l, h <= TIME_T_MAX + 1,
         TooEarly(z, l, b), TooLate(z, h, b)
  PROVE  \E x \in l + 1 .. h - 1 : TIME_T_MIN <= x /\ x <= TIME_T_MAX /\ Side(z, x, b) = 0
<1>1. TIME_T_MIN \in Int /\ TIME_T_MAX \in Int /\ TIME_T_MIN <= TIME_T_MAX
  BY SearchAssumption DEF TIME_T_MIN
<1> DEFINE S == {n \in Nat : l + n <= h /\ ~TooEarly(z, l + n, b)}
<1>2. \A x \in Int : Side(z, x, b) \in Int
  BY SideIsNumber
<1>3. ~TooEarly(z, h, b)
  <2>1. Side(z, h, b) \in Int
    BY <1>2
  <2> QED BY <1>1, <2>1 DEF TooEarly, TooLate
<1>4. h - l \in S
  <2>1. h - l \in Nat /\ l + (h - l) = h
    OBVIOUS
  <2> QED BY <1>3, <2>1
<1>5. PICK n \in S : \A m \in S : n <= m
  <2>1. S \in SUBSET Nat /\ S # {}
    BY <1>4
  <2> HIDE DEF S
  <2> QED BY <2>1, LeastNatural
<1>6. n \in Nat /\ l + n <= h /\ ~TooEarly(z, l + n, b)
  OBVIOUS
<1>7. n # 0
  <2> SUFFICES ASSUME n = 0 PROVE FALSE
    OBVIOUS
  <2>1. l + n = l
    OBVIOUS
  <2> QED BY <1>6, <2>1
<1> DEFINE x == l + n
           y == x - 1
<1>8. x \in Int /\ y \in Int /\ y + 1 = x /\ y = l + (n - 1) /\ n - 1 \in Nat
  BY <1>6, <1>7
<1>9. TooEarly(z, y, b)
  <2> SUFFICES ASSUME ~TooEarly(z, y, b) PROVE FALSE
    OBVIOUS
  <2>1. l + (n - 1) <= h
    BY <1>6, <1>8
  <2>2. n - 1 \in S
    BY <1>8, <2>1
  <2>3. n <= n - 1
    BY <1>5, <2>2
  <2> QED BY <1>6, <2>3
<1>10. ~TooEarly(z, x, b)
  BY <1>6
<1> HIDE DEF S, x, y
<1>11. ~TooLate(z, x, b)
  <2> SUFFICES ASSUME TooLate(z, x, b) PROVE FALSE
    OBVIOUS
  <2>1. TIME_T_MIN - 1 <= y /\ y <= TIME_T_MAX
    <3>1. l <= y /\ y < h
      BY <1>6, <1>7, <1>8 DEF x
    <3> QED BY <1>1, <1>8, <3>1
  <2>2. y \in TIME_T_MIN - 1 .. TIME_T_MAX /\ TooLate(z, y + 1, b)
    BY <1>1, <1>8, <2>1
  <2> QED BY <1>9, <2>2 DEF Skips
<1>12. Side(z, x, b) \in Int
  BY <1>2, <1>8
<1>13. TIME_T_MIN <= x /\ x <= TIME_T_MAX /\ Side(z, x, b) = 0
  BY <1>1, <1>8, <1>10, <1>11, <1>12 DEF TooEarly, TooLate
<1>14. x \in l + 1 .. h - 1
  <2>1. x # h
    BY <1>11
  <2> QED BY <1>6, <1>7, <1>8, <2>1 DEF x
<1> QED BY <1>13, <1>14

(***************************************************************************)
(* timesub leaves a struct tm behind, also when it gives up.               *)
(***************************************************************************)
LEMMA TimesubTyped ==
  ASSUME NEW z, NEW x \in Int, NEW offset \in Int, NEW b \in StructTm,
         Correction(z, x) \in Int, Hits(z, x) \in Int
  PROVE  timesub(x, offset, z, b).tm \in StructTm
<1> DEFINE S == SECSPERDAY
           tdays == CDiv(x, S)
           rem == x - tdays * S + offset - Correction(z, x)
           hit == Hits(z, x)
           k == rem \div S
           sod == rem % S
           found == FindYear[<<EPOCH_YEAR, tdays>>]
           p == Later(found, k)
           r == timesub(x, offset, z, b)
<1>1. S \in Nat \ {0}
  BY Units
<1>2. tdays \in Int /\ rem \in Int
  <2> HIDE DEF S
  <2>1. tdays \in Int
    <3>1. x >= 0 => x \div S \in Int
      BY <1>1, DivMod
    <3>2. x < 0 => -x \in Int /\ (-x) \div S \in Int
      <4>1. -x \in Int
        OBVIOUS
      <4> QED BY <1>1, <4>1, DivMod
    <3> QED BY <3>1, <3>2 DEF CDiv
  <2> HIDE DEF tdays
  <2>2. tdays * S \in Int
    BY <1>1, <2>1, Products
  <2> QED BY <2>1, <2>2
<1>3. k \in Int
  <2> HIDE DEF S, rem
  <2> QED BY <1>1, <1>2, DivMod
<1>4. r = Written(p, sod, hit, b)
  BY DEF timesub
<1>5. CASE r.ok
  <2>1. Counted(r.tm, x + offset - Correction(z, x), Hits(z, x))
    BY <1>5, TimesubRight
  <2> QED BY <2>1 DEF Counted
<1>6. CASE ~r.ok
  <2>1. \/ r.tm = b
        \/ p # OVERFLOW /\ r.tm = [b EXCEPT !.year = p[1]]
    <3> HIDE DEF p, sod, hit, r
    <3> QED BY <1>4, <1>6 DEF Written, Null, Done
  <2>2. CASE p # OVERFLOW /\ r.tm = [b EXCEPT !.year = p[1]]
    <3>1. found \in Int \X Int
      <4>1. found # OVERFLOW
        BY <2>2 DEF Later
      <4>2. <<EPOCH_YEAR, tdays>> \in Int \X Int
        BY <1>2 DEF EPOCH_YEAR
      <4> HIDE DEF tdays
      <4> QED BY <4>1, <4>2, FindYearRight
    <3> DEFINE q == <<found[1], found[2] + k>>
    <3>2. found # OVERFLOW
      BY <2>2 DEF Later
    <3>3. p = StepYear[q] /\ q \in Int \X Int
      <4> HIDE DEF found, k
      <4> QED BY <1>3, <3>1, <3>2 DEF Later
    <3>4. p \in Int \X Int
      <4> HIDE DEF q, p
      <4> QED BY <2>2, <3>3, StepYearRight
    <3> DEFINE y == p[1]
    <3>5. y \in Int /\ r.tm = [b EXCEPT !.year = y]
      <4> HIDE DEF p, r
      <4> QED BY <2>2, <3>4
    <3> HIDE DEF y, r
    <3>6. r.tm \in StructTm
      BY <3>5 DEF StructTm
    <3> QED BY <3>6 DEF r
  <2> QED BY <2>1, <2>2
<1> QED BY <1>5, <1>6

(***************************************************************************)
(* So does localsub.                                                       *)
(***************************************************************************)
LEMMA LocalsubTyped ==
  ASSUME NEW z, IsZone(z), SoundLeaps(z), NEW x \in Int, NEW b \in StructTm
  PROVE  localsub(z, x, b).tm \in StructTm
<1> DEFINE c == Cycles(z, x)
           newt == x + c * SECSPERREPEAT
           i == TypeAt(z, newt)
           info == z.ttis[i]
           off == info.gmtoff
           sub == timesub(newt, off, z, b)
           typed == WithType(info, z, newt, b)
           r == localsub(z, x, b)
           newy == typed.tm.year - c * YEARSPERREPEAT
<1>1. c \in Int /\ newt \in Int
  <2>1. c \in Int
    BY CyclesKnown
  <2> HIDE DEF c
  <2>2. c * SECSPERREPEAT \in Int
    BY <2>1, Units, Products
  <2> QED BY <2>1, <2>2
<1>2. r = Null(b) \/ r = CyclesBack(typed, c)
  <2>1. r = AfterCycles(z, newt, c, b)
    BY DEF localsub
  <2> HIDE DEF newt, c
  <2> QED BY <2>1 DEF AfterCycles
<1>3. off \in Int /\ info.isdst \in {0, 1}
  <2>1. i \in 1 .. Len(z.ttis)
    <3> HIDE DEF newt
    <3> QED BY <1>1, TypeInZone
  <2> HIDE DEF i
  <2> QED BY <2>1 DEF IsZone
<1> HIDE DEF c, newt, i
<1>6. typed = [sub EXCEPT !.tm.isdst = info.isdst] /\ \E o, d : sub = [ok |-> o, tm |-> d]
  BY DEF WithType, timesub, Written, Null, Done
<1>7. typed.tm = [sub.tm EXCEPT !.isdst = info.isdst]
  <2>1. PICK o, d : sub = [ok |-> o, tm |-> d]
    BY <1>6
  <2> HIDE DEF sub, typed, info
  <2> QED BY <1>6, <2>1
<1>8. sub.tm \in StructTm
  <2>1. LeapsCounted(z, newt)
    BY <1>1, LeapsAreCounted
  <2>2. Correction(z, newt) \in Int /\ Hits(z, newt) \in Int
    BY <2>1 DEF LeapsCounted
  <2> HIDE DEF off
  <2> QED BY <1>1, <1>3, <2>2, TimesubTyped
<1>9. typed.tm \in StructTm
  <2> DEFINE d == info.isdst
             e == sub.tm
  <2>1. d \in Int /\ e \in StructTm /\ typed.tm = [e EXCEPT !.isdst = d]
    BY <1>3, <1>7, <1>8
  <2> HIDE DEF d, e, typed
  <2> QED BY <2>1 DEF StructTm
<1>10. CastInt(newy) \in Int
  <2>1. newy \in Int
    <3>1. typed.tm.year \in Int
      <4> HIDE DEF typed
      <4> QED BY <1>9 DEF StructTm
    <3> HIDE DEF typed
    <3> QED BY <1>1, <3>1 DEF YEARSPERREPEAT
  <2> DEFINE m == 2 * (INT_MAX + 1)
  <2>2. INT_MIN \in Int /\ m \in Nat \ {0}
    BY UnitAssumption DEF INT_MIN
  <2> HIDE DEF newy, m
  <2>3. (newy - INT_MIN) % m \in Int
    <3>1. newy - INT_MIN \in Int
      BY <2>1, <2>2
    <3>2. (newy - INT_MIN) % m \in 0 .. m - 1
      BY <2>2, <3>1, DivMod
    <3> QED BY <2>2, <3>2
  <2> QED BY <2>2, <2>3 DEF CastInt, m
<1>11. r.tm \in {b, typed.tm, [typed.tm EXCEPT !.year = CastInt(newy)]}
  <2>1. CyclesBack(typed, c).tm \in {typed.tm, [typed.tm EXCEPT !.year = CastInt(newy)]}
    <3> HIDE DEF typed
    <3> QED BY DEF CyclesBack
  <2> HIDE DEF typed, newy, r
  <2> QED BY <1>2, <2>1 DEF Null
<1>12. [typed.tm EXCEPT !.year = CastInt(newy)] \in StructTm
  <2> DEFINE e == typed.tm
             y == CastInt(newy)
  <2>1. e \in StructTm /\ y \in Int
    BY <1>9, <1>10
  <2> HIDE DEF e, y
  <2>2. [e EXCEPT !.year = y] \in StructTm
    BY <2>1 DEF StructTm
  <2> QED BY <2>2 DEF e, y
<1> QED
  <2> HIDE DEF r, typed, newy
  <2> QED BY <1>9, <1>11, <1>12 DEF r

(***************************************************************************)
(* Outside of the interval l .. h, or at its ends, the clock is too early  *)
(* for b on the one side and too late on the other.                        *)
(***************************************************************************)
Ends(z, b, l, h) ==
  /\ TooEarly(z, l - 1, b) \/ TooEarly(z, l, b)
  /\ TooLate(z, h, b) \/ TooLate(z, h + 1, b)

(***************************************************************************)
(* Where the search is: in a zone of the client, with a struct tm to look  *)
(* for and two types of the zone; and what is out of the interval is on    *)
(* its sides of b, unless the clock skips b.                               *)
(***************************************************************************)
RunInv ==
  /\ pc \in {"time2sub", "search", "compare", "label", "time2"} =>
       /\ sp \in Zones /\ tm \in StructTm /\ norm \in BOOLEAN
       /\ pair = FIRST \/ (pair[1] \in 1 .. Len(sp.ttis) /\ pair[2] \in 1 .. Len(sp.ttis))
  /\ pc \in {"search", "compare", "label"} =>
       yourtm \in StructTm /\ LocalSeconds(yourtm) \in Int /\ saved \in Int
  /\ pc \in {"search", "compare"} =>
       /\ TIME_T_MIN <= lo /\ hi <= TIME_T_MAX
       /\ ~Skips(sp, yourtm) => Ends(sp, yourtm, lo, hi)
  /\ pc = "compare" => mytm = localsub(sp, t, ZeroTm)
  /\ pc = "label" => t \in Int

(***************************************************************************)
(* Then the clock shows b within the interval.                             *)
(***************************************************************************)
LEMMA EndsMeet ==
  ASSUME NEW z, IsZone(z), SoundLeaps(z), NEW b \in StructTm, ~Skips(z, b),
         NEW l \in Int, NEW h \in Int, l <= h, TIME_T_MIN <= l, h <= TIME_T_MAX,
         Ends(z, b, l, h)
  PROVE  \E x \in l .. h : TIME_T_MIN <= x /\ x <= TIME_T_MAX /\ Side(z, x, b) = 0
<1>1. TIME_T_MIN \in Int /\ TIME_T_MAX \in Int /\ TIME_T_MIN <= TIME_T_MAX
  BY SearchAssumption DEF TIME_T_MIN
<1>2. PICK k \in {l - 1, l} : TooEarly(z, k, b)
  BY DEF Ends
<1>3. PICK m \in {h, h + 1} : TooLate(z, m, b)
  BY DEF Ends
<1>4. k \in Int /\ m \in Int /\ l - 1 <= k /\ k <= l /\ h <= m /\ m <= h + 1
  BY <1>2, <1>3
<1>5. ~(TooEarly(z, k, b) /\ TooLate(z, k, b))
  <2>1. Side(z, k, b) \in Int
  BY <1>4, SideIsNumber
  <2> QED BY <1>1, <1>4, <2>1 DEF TooEarly, TooLate
<1>6. k # m
  BY <1>2, <1>3, <1>5
<1>7. k < m
  BY <1>4, <1>6
<1>8. TIME_T_MIN - 1 <= k /\ m <= TIME_T_MAX + 1
  BY <1>1, <1>4
<1>9. \E x \in k + 1 .. m - 1 : TIME_T_MIN <= x /\ x <= TIME_T_MAX /\ Side(z, x, b) = 0
  BY <1>2, <1>3, <1>4, <1>7, <1>8, Crossing
<1>10. \A x \in k + 1 .. m - 1 : x \in l .. h
  BY <1>4
<1> QED BY <1>9, <1>10

(***************************************************************************)
(* What is neither too early nor too late is an instant of b.              *)
(***************************************************************************)
LEMMA ZeroShown ==
  ASSUME NEW z, IsZone(z), SoundLeaps(z), NEW x \in Int, NEW b \in StructTm, LocalSeconds(b) \in Int,
         Side(z, x, b) = 0
  PROVE  x \in InstantsOf(z, b)
<1> DEFINE sub == localsub(z, x, ZeroTm)
           a == sub.tm
<1>1. sub.ok /\ tmcomp(a, b) = 0
  BY DEF Side
<1>2. a \in StructTm
  BY <1>1, LocalsubType
<1>3. Civil(a) = Civil(b)
  <2> HIDE DEF a
  <2> QED BY <1>1, <1>2, ComparedIsNumber
<1>4. LocalSeconds(a) = LocalSeconds(b)
  <2> HIDE DEF a
  <2> QED BY <1>2, <1>3, SameReading
<1>5. Reads(z, x, b)
  BY <1>1, <1>4 DEF Reads
<1> QED BY <1>5, ReadsInstant

(***************************************************************************)
(* So the interval holds one.                                              *)
(***************************************************************************)
LEMMA RunBracketed ==
  ASSUME RunInv, SearchInv, ~Skips(sp, yourtm)
  PROVE  Bracketed
<1> SUFFICES ASSUME pc \in {"search", "compare"} PROVE \E x \in InstantsOf(sp, yourtm) : lo <= x /\ x <= hi
  BY DEF Bracketed
<1>1. /\ sp \in Zones /\ yourtm \in StructTm /\ LocalSeconds(yourtm) \in Int
      /\ lo \in Int /\ hi \in Int /\ lo <= hi
      /\ TIME_T_MIN <= lo /\ hi <= TIME_T_MAX /\ Ends(sp, yourtm, lo, hi)
  BY DEF RunInv, SearchInv
<1>2. IsZone(sp) /\ SoundLeaps(sp)
  BY <1>1, SearchAssumption, SoundLeapsAssumption
<1>3. PICK x \in lo .. hi : Side(sp, x, yourtm) = 0
  BY <1>1, <1>2, EndsMeet
<1>4. x \in InstantsOf(sp, yourtm)
  BY <1>1, <1>2, <1>3, ZeroShown
<1> QED BY <1>1, <1>4

(***************************************************************************)
(* tz_mktime starts so.                                                    *)
(***************************************************************************)
LEMMA RunStarts ==
  ASSUME NEW b \in StructTm, sp \in Zones, tz_mktime(b)
  PROVE  RunInv'
<1>1. /\ tm' = [b EXCEPT !.isdst = Kind(b)] /\ pair' = FIRST /\ norm' = FALSE
      /\ pc' = "time2sub" /\ sp' = sp
  BY DEF tz_mktime, Kind
<1>2. tm' \in StructTm
  BY <1>1, Kinds
<1> QED BY <1>1, <1>2 DEF RunInv

(***************************************************************************)
(* All of time_t is between too early and too late.                        *)
(***************************************************************************)
LEMMA RunTime2sub ==
  ASSUME RunInv, time2sub
  PROVE  RunInv'
<1>1. /\ sp \in Zones /\ tm \in StructTm /\ norm \in BOOLEAN /\ pc = "time2sub"
      /\ pair = FIRST \/ (pair[1] \in 1 .. Len(sp.ttis) /\ pair[2] \in 1 .. Len(sp.ttis))
      /\ UNCHANGED <<sp, tm, asked, pair, norm>>
  BY DEF RunInv, time2sub, NotFound
<1> DEFINE n == Normalized(tm, norm)
           s == SavedSeconds(n.tm)
           y == [n.tm EXCEPT !.sec = IF @ \in 0 .. SECSPERMIN - 1 THEN @
                                     ELSE IF EarlyYear(n.tm) THEN SECSPERMIN - 1 ELSE 0]
<1>2. CASE ~n.ok \/ ~IsInt(s)
  <2>1. pc' = "time2"
    BY <1>2, Zenon DEF time2sub, NotFound
  <2> QED BY <1>1, <2>1 DEF RunInv
<1>3. CASE ~(~n.ok \/ ~IsInt(s))
  <2>1. saved' = s /\ yourtm' = y /\ lo' = TIME_T_MIN /\ hi' = TIME_T_MAX /\ pc' = "search"
    BY <1>3, Zenon DEF time2sub
  <2> DEFINE m == n.tm
  <2>2. m \in StructTm /\ LocalSeconds(m) \in Int
    <3>1. Normalized(tm, norm).ok
      BY <1>3
    <3>2. NormalizedOf(tm, norm, Normalized(tm, norm).tm)
      BY <1>1, <3>1, NormalizedRight
    <3>3. NormalizedOf(tm, norm, m)
      BY <3>2
    <3> HIDE DEF m
    <3> QED BY <3>3 DEF NormalizedOf
  <2>3. y \in StructTm /\ s \in Int /\ LocalSeconds(y) \in Int
    <3>1. y = [m EXCEPT !.sec = IF @ \in 0 .. SECSPERMIN - 1 THEN @
                                ELSE IF EarlyYear(m) THEN SECSPERMIN - 1 ELSE 0] /\ s = SavedSeconds(m)
      OBVIOUS
    <3> HIDE DEF y, m, s
    <3> QED BY <2>2, <3>1, SavedRight
  <2>4. TIME_T_MIN \in Int /\ TIME_T_MAX \in Int /\ TIME_T_MIN <= TIME_T_MAX
    BY SearchAssumption DEF TIME_T_MIN
  <2>5. Ends(sp, yourtm', TIME_T_MIN, TIME_T_MAX)
    BY <2>4 DEF Ends, TooEarly, TooLate
  <2> HIDE DEF y, s, n
  <2> QED BY <1>1, <2>1, <2>3, <2>4, <2>5 DEF RunInv
<1> QED BY <1>2, <1>3

(***************************************************************************)
(* The instant that is tried is compared.                                  *)
(***************************************************************************)
LEMMA RunProbe ==
  ASSUME RunInv, Probe
  PROVE  RunInv'
<1>1. /\ pc = "search" /\ pc' = "compare" /\ t' = Middle /\ mytm' = localsub(sp, Middle, ZeroTm)
      /\ UNCHANGED <<sp, instant, tm, asked, pair, norm, yourtm, saved, lo, hi, okay, result>>
  BY DEF Probe
<1> QED BY <1>1 DEF RunInv

(***************************************************************************)
(* What is left behind is too early or too late, and the interval does not *)
(* become empty, unless the clock skips the time.                          *)
(***************************************************************************)
LEMMA RunNarrow ==
  ASSUME RunInv, SearchInv, Narrow
  PROVE  /\ RunInv'
         /\ ~Skips(sp, yourtm) => pc' = "search"
<1>1. pc = "compare" /\ UNCHANGED <<sp, instant, asked, pair, norm, yourtm, saved, t, mytm>>
      /\ pc' \in {"search", "time2"} /\ UNCHANGED tm
  BY DEF Narrow, NotFound
<1>2. /\ sp \in Zones /\ tm \in StructTm /\ norm \in BOOLEAN
      /\ pair = FIRST \/ (pair[1] \in 1 .. Len(sp.ttis) /\ pair[2] \in 1 .. Len(sp.ttis))
      /\ yourtm \in StructTm /\ LocalSeconds(yourtm) \in Int /\ saved \in Int
      /\ TIME_T_MIN <= lo /\ hi <= TIME_T_MAX
      /\ ~Skips(sp, yourtm) => Ends(sp, yourtm, lo, hi)
      /\ mytm = localsub(sp, t, ZeroTm)
  BY <1>1 DEF RunInv
<1>3. lo \in Int /\ hi \in Int /\ t \in Int /\ lo <= t /\ t <= hi
  BY <1>1 DEF SearchInv
<1>4. IsZone(sp) /\ SoundLeaps(sp)
  BY <1>2, SearchAssumption, SoundLeapsAssumption
<1>5. Direction = Side(sp, t, yourtm) /\ Direction \in Int /\ Direction # 0
  <2>1. Direction = Side(sp, t, yourtm)
    BY <1>2 DEF Direction, Side
  <2> QED BY <1>2, <1>3, <1>4, <2>1, SideIsNumber DEF Narrow
<1>6. TIME_T_MIN \in Int /\ TIME_T_MAX \in Int
  BY SearchAssumption DEF TIME_T_MIN
<1>7. Direction < 0 => TooEarly(sp, t, yourtm)
  BY <1>2, <1>3, <1>5, <1>6 DEF TooEarly
<1>8. Direction > 0 => TooLate(sp, t, yourtm)
  BY <1>2, <1>3, <1>5, <1>6 DEF TooLate
<1> DEFINE atLo == t = lo
           atHi == t # lo /\ t = hi
           next == IF atLo THEN t + 1 ELSE IF atHi THEN t - 1 ELSE t
           lo1  == IF atLo THEN lo + 1 ELSE lo
           hi1  == IF atHi THEN hi - 1 ELSE hi
           G == ~Skips(sp, yourtm)
(* The clock is neither too late where the interval begins nor too early where it ends. *)
<1>9. G /\ t = lo => Direction < 0
  <2> SUFFICES ASSUME G, t = lo, Direction > 0 PROVE FALSE
    BY <1>5
  <2>1. Ends(sp, yourtm, t, t)
    BY <1>2, <1>8 DEF Ends
  <2>2. \E x \in t .. t : Side(sp, x, yourtm) = 0
    <3>1. TIME_T_MIN <= t /\ t <= TIME_T_MAX
      BY <1>2, <1>3, <1>6
    <3> QED BY <1>2, <1>3, <1>4, <2>1, <3>1, EndsMeet
  <2> QED BY <1>3, <1>5, <2>2
<1>10. G /\ t = hi => Direction > 0
  <2> SUFFICES ASSUME G, t = hi, Direction < 0 PROVE FALSE
    BY <1>5
  <2>1. Ends(sp, yourtm, t, t)
    BY <1>2, <1>7 DEF Ends
  <2>2. \E x \in t .. t : Side(sp, x, yourtm) = 0
    <3>1. TIME_T_MIN <= t /\ t <= TIME_T_MAX
      BY <1>2, <1>3, <1>6
    <3> QED BY <1>2, <1>3, <1>4, <2>1, <3>1, EndsMeet
  <2> QED BY <1>3, <1>5, <2>2
<1>11. IF lo1 > hi1 THEN NotFound
       ELSE /\ IF Direction > 0 THEN lo' = lo1 /\ hi' = next ELSE lo' = next /\ hi' = hi1
            /\ pc' = "search"
  BY Zenon DEF Narrow
<1>12. G => ~(lo1 > hi1)
  BY <1>3, <1>5, <1>9, <1>10
<1>13. CASE lo1 > hi1
  <2>1. pc' = "time2"
    BY <1>11, <1>13 DEF NotFound
  <2> QED BY <1>1, <1>2, <1>12, <1>13, <2>1 DEF RunInv
<1>14. CASE ~(lo1 > hi1)
  <2>1. IF Direction > 0 THEN lo' = lo1 /\ hi' = next ELSE lo' = next /\ hi' = hi1
    BY <1>11, <1>14
  <2>2. pc' = "search"
    BY <1>11, <1>14
  <2>3. TIME_T_MIN <= lo' /\ hi' <= TIME_T_MAX
    BY <1>2, <1>3, <1>6, <1>14, <2>1
  <2>4. G => Ends(sp, yourtm, lo', hi')
    <3> SUFFICES ASSUME G PROVE Ends(sp, yourtm, lo', hi')
      OBVIOUS
    <3>1. CASE Direction < 0
      <4>1. hi' = hi /\ (t = lo => lo' = t + 1) /\ (t # lo => lo' = t)
        BY <1>3, <1>5, <1>10, <2>1, <3>1
      <4>2. TooEarly(sp, lo' - 1, yourtm) \/ TooEarly(sp, lo', yourtm)
        <5>1. t = lo => lo' - 1 = t
          BY <1>3, <4>1
        <5> QED BY <1>7, <3>1, <4>1, <5>1
      <4> QED BY <1>2, <4>1, <4>2 DEF Ends
    <3>2. CASE Direction > 0
      <4>1. lo' = lo /\ (t = hi => hi' = t - 1) /\ (t # hi => hi' = t)
        BY <1>3, <1>5, <1>9, <2>1, <3>2
      <4>2. TooLate(sp, hi', yourtm) \/ TooLate(sp, hi' + 1, yourtm)
        <5>1. t = hi => hi' + 1 = t
          BY <1>3, <4>1
        <5> QED BY <1>8, <3>2, <4>1, <5>1
      <4> QED BY <1>2, <4>1, <4>2 DEF Ends
    <3> QED BY <1>5, <3>1, <3>2
  <2> QED BY <1>1, <1>2, <2>2, <2>3, <2>4 DEF RunInv
<1> QED BY <1>13, <1>14

(***************************************************************************)
(* The instant is found.                                                   *)
(***************************************************************************)
LEMMA RunMatch ==
  ASSUME RunInv, SearchInv, Match
  PROVE  RunInv'
<1>1. /\ pc = "compare" /\ pc' = "label"
      /\ UNCHANGED <<sp, instant, tm, asked, pair, norm, yourtm, saved, lo, hi, t, mytm, okay, result>>
  BY DEF Match, search_vars
<1>2. t \in Int
  BY <1>1 DEF SearchInv
<1> QED BY <1>1, <1>2 DEF RunInv

(***************************************************************************)
(* Or another one, of the right type.                                      *)
(***************************************************************************)
LEMMA RunHunt ==
  ASSUME RunInv, SearchInv, Hunt
  PROVE  RunInv'
<1>1. /\ pc = "compare" /\ pc' \in {"label", "time2"}
      /\ UNCHANGED <<sp, instant, tm, asked, pair, norm, yourtm, saved, lo, hi, mytm>>
      /\ pc' = "label" => Matching # {} /\ t' = Moved(Highest(Matching))
  BY DEF Hunt, NotFound
<1>2. t \in Int /\ sp \in Zones
  BY <1>1 DEF SearchInv, RunInv
<1>3. ASSUME Matching # {} PROVE Moved(Highest(Matching)) \in Int
  <2> DEFINE p == Highest(Matching)
  <2>1. IsZone(sp)
    BY <1>2, SearchAssumption
  <2>2. p \in Matching
    <3>1. Len(sp.ttis) \in Nat
      BY <2>1 DEF IsZone
    <3>2. Matching \in SUBSET ((1 .. Len(sp.ttis)) \X (1 .. Len(sp.ttis)))
      BY DEF Matching
    <3> QED BY <1>3, <3>1, <3>2, HighestIsOne
  <2>3. p[1] \in 1 .. Len(sp.ttis) /\ p[2] \in 1 .. Len(sp.ttis)
    BY <2>2 DEF Matching
  <2> HIDE DEF p
  <2>4. Moved(p) \in Int
    BY <1>2, <2>1, <2>3 DEF Moved, IsZone
  <2> QED BY <2>4 DEF p
<1>4. pc' = "label" => t' \in Int
  BY <1>1, <1>3
<1> QED BY <1>1, <1>4 DEF RunInv

(***************************************************************************)
(* It is written to the struct tm.                                         *)
(***************************************************************************)
LEMMA RunLabel ==
  ASSUME RunInv, label
  PROVE  RunInv'
<1> DEFINE sub == localsub(sp, t + saved, tm)
<1>1. /\ pc = "label" /\ pc' = "time2" /\ tm' = sub.tm
      /\ UNCHANGED <<sp, asked, pair, norm>>
  BY DEF label
<1>2. /\ sp \in Zones /\ tm \in StructTm /\ norm \in BOOLEAN /\ t \in Int /\ saved \in Int
      /\ pair = FIRST \/ (pair[1] \in 1 .. Len(sp.ttis) /\ pair[2] \in 1 .. Len(sp.ttis))
  BY <1>1 DEF RunInv
<1>3. IsZone(sp) /\ SoundLeaps(sp)
  BY <1>2, SearchAssumption, SoundLeapsAssumption
<1>4. sub.tm \in StructTm
  <2> DEFINE x == t + saved
  <2>1. x \in Int
    BY <1>2
  <2> HIDE DEF x
  <2>2. localsub(sp, x, tm).tm \in StructTm
    BY <1>2, <1>3, <2>1, LocalsubTyped
  <2> QED BY <2>2 DEF x
<1> HIDE DEF sub
<1> QED BY <1>1, <1>2, <1>4 DEF RunInv

(***************************************************************************)
(* The second try, with the seconds normalised, and the return.            *)
(***************************************************************************)
LEMMA RunAgain ==
  ASSUME RunInv, time2 \/ Return
  PROVE  RunInv'
BY DEF RunInv, time2, Return, search_vars

(***************************************************************************)
(* The next two types.                                                     *)
(***************************************************************************)
LEMMA RunGuess ==
  ASSUME RunInv, time1
  PROVE  RunInv'
<1>1. /\ pc = "time2" /\ ~okay /\ norm /\ pc' \in {"done", "time2sub"}
      /\ UNCHANGED <<sp, asked, okay>>
  BY DEF time1
<1>2. /\ sp \in Zones /\ tm \in StructTm
      /\ pair = FIRST \/ (pair[1] \in 1 .. Len(sp.ttis) /\ pair[2] \in 1 .. Len(sp.ttis))
  BY <1>1 DEF RunInv
<1>3. IsZone(sp)
  BY <1>2, SearchAssumption
<1>4. CASE pc' = "done"
  BY <1>4 DEF RunInv
<1>5. CASE pc' = "time2sub"
  <2>1. PICK p \in Untried : pair' = p /\ norm' = FALSE
          /\ tm' = [Restored EXCEPT !.sec = @ + Shift(p), !.isdst = Flip(@)]
    BY <1>5 DEF time1
  <2>2. \A k \in Seen : k \in 1 .. Len(sp.ttis)
    BY <1>3 DEF Seen, IsZone
  <2>3. p[1] \in 1 .. Len(sp.ttis) /\ p[2] \in 1 .. Len(sp.ttis)
    BY <2>1, <2>2 DEF Untried
  <2>4. ASSUME NEW q, q[1] \in 1 .. Len(sp.ttis), q[2] \in 1 .. Len(sp.ttis)
        PROVE  Shift(q) \in Int
    BY <1>3, <2>4 DEF Shift, IsZone
  <2>5. ASSUME NEW b \in StructTm, NEW s \in Int PROVE [b EXCEPT !.sec = @ + s, !.isdst = Flip(@)] \in StructTm
    <3> DEFINE k == b.sec + s
               d == Flip(b.isdst)
               c == [b EXCEPT !.sec = k]
    <3>1. k \in Int /\ d \in Int
      BY DEF StructTm, Flip
    <3>2. [b EXCEPT !.sec = @ + s, !.isdst = Flip(@)] = [c EXCEPT !.isdst = d]
      BY DEF StructTm
    <3> HIDE DEF k, d
    <3>3. c \in StructTm
      BY <3>1 DEF StructTm
    <3> HIDE DEF c
    <3>4. [c EXCEPT !.isdst = d] \in StructTm
      BY <3>1, <3>3 DEF StructTm
    <3> QED BY <3>2, <3>4
  <2>6. Restored \in StructTm
    <3>1. CASE pair = FIRST
      BY <1>2, <3>1 DEF Restored
    <3>2. CASE pair # FIRST
      <4> DEFINE s == -Shift(pair)
      <4>1. s \in Int /\ Shift(pair) \in Int
        BY <1>2, <2>4, <3>2
      <4>2. Restored = [tm EXCEPT !.sec = @ + s, !.isdst = Flip(@)]
        <5>1. Restored = [tm EXCEPT !.sec = @ - Shift(pair), !.isdst = Flip(@)]
          BY <3>2 DEF Restored
        <5>2. tm.sec - Shift(pair) = tm.sec + s
          BY <1>2, <4>1 DEF StructTm
        <5> QED BY <5>1, <5>2
      <4> HIDE DEF s
      <4> QED BY <1>2, <2>5, <4>1, <4>2
    <3> QED BY <3>1, <3>2
  <2>7. tm' \in StructTm
    <3>1. Shift(p) \in Int
      BY <2>3, <2>4
    <3> DEFINE s == Shift(p)
               R == Restored
    <3> HIDE DEF s, R
    <3>2. tm' = [R EXCEPT !.sec = @ + s, !.isdst = Flip(@)] /\ R \in StructTm /\ s \in Int
      BY <2>1, <2>6, <3>1 DEF s, R
    <3> QED BY <2>5, <3>2
  <2> QED BY <1>1, <1>2, <1>5, <2>1, <2>3, <2>7 DEF RunInv
<1> QED BY <1>1, <1>4, <1>5

(***************************************************************************)
(* Every step of tz_mktime keeps it.                                       *)
(***************************************************************************)
LEMMA RunKeeps ==
  ASSUME RunInv, SearchInv, MktimeStep
  PROVE  RunInv'
BY RunTime2sub, RunProbe, RunNarrow, RunMatch, RunHunt, RunLabel, RunAgain, RunGuess DEF MktimeStep

(***************************************************************************)
(* So does every step of the client.                                       *)
(***************************************************************************)
LEMMA RunStays ==
  ASSUME ReadInv, RunInv, SearchInv, [Next]_vars
  PROVE  RunInv'
<1>1. CASE Ask \/ NextQuestion
  <2>1. pc' \in {"read", "failed", "idle"}
    BY <1>1 DEF Ask, tz_localtime_r, NextQuestion
  <2> QED BY <2>1 DEF RunInv
<1>2. CASE AskFor
  <2>1. PICK e \in Edits, h \in Hints : pc = "read" /\ tz_mktime([Edited(tm, e) EXCEPT !.isdst = h])
    BY <1>2 DEF AskFor
  <2> DEFINE b == [Edited(tm, e) EXCEPT !.isdst = h]
  <2>2. sp \in Zones /\ b \in StructTm
    <3>1. sp \in Zones /\ tm \in StructTm
      BY <2>1, ReadType
    <3> QED BY <2>1, <3>1, EditedType, SearchAssumption
  <2> HIDE DEF b
  <2> QED BY <2>1, <2>2, RunStarts DEF b
<1>3. CASE MktimeStep
  BY <1>3, RunKeeps
<1>4. CASE UNCHANGED vars
  BY <1>4 DEF RunInv, vars, search_vars
<1> QED BY <1>1, <1>2, <1>3, <1>4 DEF Next

(***************************************************************************)
(* While tz_mktime searches for a date and time, the interval holds one of *)
(* its instants if there is one (Bracketed), although the clock goes back  *)
(* in autumn: in every zone whose leap seconds are at the ends of minutes, *)
(* for every date and time that its clock does not pass over.              *)
(***************************************************************************)
THEOREM SearchIsBracketed == Spec => [](~Skips(sp, yourtm) => Bracketed)
<1>1. Init => ReadInv /\ SearchInv /\ RunInv
  BY DEF Init, ReadInv, SearchInv, RunInv
<1>2. ReadInv /\ SearchInv /\ RunInv /\ [Next]_vars => ReadInv' /\ SearchInv' /\ RunInv'
  BY ReadStays, SearchStays, RunStays
<1>3. SearchInv /\ RunInv => (~Skips(sp, yourtm) => Bracketed)
  BY RunBracketed
<1> QED BY <1>1, <1>2, <1>3, PTL DEF Spec

(***************************************************************************)
(* A later year begins after the earlier one has ended.                    *)
(***************************************************************************)
LEMMA YearsAscend ==
  ASSUME NEW y \in Int, NEW z \in Int, y < z
  PROVE  YearStart(y + 1) <= YearStart(z)
<1> DEFINE k == z - y - 1
           u == leaps_thru_end_of(y)
           v == leaps_thru_end_of(z - 1)
           w == leaps_thru_end_of(1969)
<1>1. k \in Nat /\ y + k = z - 1 /\ z - 1 \in Int
  OBVIOUS
<1>2. 0 <= v - u
  BY <1>1, LeapsBetween
<1>3. u \in Int /\ v \in Int /\ w \in Int
  BY <1>1, LeapsStep
<1>4. y + 1 - 1 = y
  OBVIOUS
<1>5. YearStart(y + 1) = 365 * (y + 1 - 1970) + u - w
  BY <1>4 DEF YearStart
<1>6. YearStart(z) = 365 * (z - 1970) + v - w
  BY DEF YearStart
<1> HIDE DEF u, v, w
<1> QED BY <1>2, <1>3, <1>5, <1>6

(***************************************************************************)
(* An earlier date is an earlier day.                                      *)
(***************************************************************************)
LEMMA EarlierDay ==
  ASSUME NEW a \in StructTm, NEW b \in StructTm, IsNormal(a), IsNormal(b),
         \/ a.year < b.year
         \/ a.year = b.year /\ a.mon < b.mon
         \/ a.year = b.year /\ a.mon = b.mon /\ a.mday < b.mday
  PROVE  Days(a) < Days(b) /\ Days(a) \in Int /\ Days(b) \in Int
<1> DEFINE y == a.year + TM_YEAR_BASE
           z == b.year + TM_YEAR_BASE
           da == Days(a)
           db == Days(b)
           S(k) == MonthStart[<<y, k>>]
           T(k) == MonthStart[<<z, k>>]
<1>1. /\ y \in Int /\ a.mon \in 0 .. 11
      /\ da = YearStart(y) + S(a.mon) + a.mday - 1
      /\ da \in Int /\ S(a.mon) \in Nat /\ YearStart(y) \in Int
      /\ YearStart(y) <= da /\ da < YearStart(y + 1)
      /\ da < YearStart(y) + S(a.mon + 1) /\ S(a.mon + 1) \in Nat
  BY DateInYear
<1>2. /\ z \in Int /\ b.mon \in 0 .. 11
      /\ db = YearStart(z) + T(b.mon) + b.mday - 1
      /\ db \in Int /\ T(b.mon) \in Nat /\ YearStart(z) \in Int
      /\ YearStart(z) <= db
  BY DateInYear
<1>3. a.year \in Int /\ b.year \in Int /\ a.mday \in Int /\ b.mday \in Int /\ b.mday >= 1
  BY DEF StructTm, IsNormal
<1>4. CASE a.year < b.year
  <2>1. y < z
    BY <1>3, <1>4 DEF TM_YEAR_BASE
  <2>2. YearStart(y + 1) <= YearStart(z)
    BY <1>1, <1>2, <2>1, YearsAscend
  <2>3. YearStart(y + 1) \in Int
    <3>1. y + 1 \in Int
      BY <1>1
    <3> QED BY <3>1, YearStarts
  <2> QED BY <1>1, <1>2, <2>2, <2>3
<1>5. CASE a.year = b.year /\ a.mon < b.mon
  <2>1. z = y
    BY <1>5
  <2>2. S(a.mon + 1) <= S(b.mon)
    BY <1>1, <1>2, <1>5, MonthsAscend
  <2> DEFINE s == S(a.mon + 1)
             q == S(b.mon)
             ys == YearStart(y)
  <2>3. da < ys + s /\ s <= q /\ db = ys + q + b.mday - 1 /\ s \in Nat /\ q \in Nat /\ ys \in Int
    BY <1>1, <1>2, <2>1, <2>2
  <2> HIDE DEF s, q, ys, da, db
  <2>4. da < db
    BY <1>1, <1>3, <2>3
  <2> QED BY <1>1, <1>2, <2>4 DEF da, db
<1>6. CASE a.year = b.year /\ a.mon = b.mon /\ a.mday < b.mday
  <2> DEFINE s == S(a.mon)
             ys == YearStart(y)
  <2>1. da = ys + s + a.mday - 1 /\ db = ys + s + b.mday - 1 /\ s \in Nat /\ ys \in Int
    BY <1>1, <1>2, <1>6
  <2> HIDE DEF s, ys, da, db
  <2>2. da < db
    BY <1>1, <1>3, <1>6, <2>1
  <2> QED BY <1>1, <1>2, <2>2 DEF da, db
<1> QED BY <1>4, <1>5, <1>6

(* The order of tmcomp: the first field that is different decides.         *)
EarlierIn(x, y) ==
  \E k \in 1 .. 6 : x[k] < y[k] /\ \A j \in 1 .. k - 1 : x[j] = y[j]

(***************************************************************************)
(* What is earlier in that order is an earlier second.                     *)
(***************************************************************************)
LEMMA EarlierSecond ==
  ASSUME NEW a \in StructTm, NEW b \in StructTm, IsNormal(a), IsNormal(b), EarlierIn(Civil(a), Civil(b))
  PROVE  LocalSeconds(a) < LocalSeconds(b)
<1> DEFINE x == Civil(a)
           y == Civil(b)
<1>1. PICK k \in 1 .. 6 : x[k] < y[k] /\ \A j \in 1 .. k - 1 : x[j] = y[j]
  BY DEF EarlierIn
<1>2. /\ x[1] = a.year /\ x[2] = a.mon /\ x[3] = a.mday /\ x[4] = a.hour /\ x[5] = a.min /\ x[6] = a.sec
      /\ y[1] = b.year /\ y[2] = b.mon /\ y[3] = b.mday /\ y[4] = b.hour /\ y[5] = b.min /\ y[6] = b.sec
  BY DEF Civil
<1>3. \/ k = 1 \/ k = 2 \/ k = 3 \/ k = 4 \/ k = 5 \/ k = 6
  BY <1>1
<1> HIDE DEF x, y
<1> DEFINE D == Days(a)
           E == Days(b)
<1>4. D \in Int /\ E \in Int
  BY DaysOfMonth
<1>5. /\ a.hour \in 0 .. HOURSPERDAY - 1 /\ a.min \in 0 .. MINSPERHOUR - 1 /\ a.sec \in 0 .. SECSPERMIN - 1
      /\ b.hour \in 0 .. HOURSPERDAY - 1 /\ b.min \in 0 .. MINSPERHOUR - 1 /\ b.sec \in 0 .. SECSPERMIN - 1
  BY DEF IsNormal, InMinute
<1>6. k \in 1 .. 3 => D < E
  <2>1. k = 1 => a.year < b.year
    BY <1>1, <1>2
  <2>2. k = 2 => a.year = b.year /\ a.mon < b.mon
    BY <1>1, <1>2
  <2>3. k = 3 => a.year = b.year /\ a.mon = b.mon /\ a.mday < b.mday
    BY <1>1, <1>2
  <2> QED BY <1>3, <2>1, <2>2, <2>3, EarlierDay
<1>7. k \notin 1 .. 3 => D = E
  <2>1. k \notin 1 .. 3 => a.year = b.year /\ a.mon = b.mon /\ a.mday = b.mday
    BY <1>1, <1>2, <1>3
  <2> QED BY <2>1, SameDays
<1> HIDE DEF D, E
<1> DEFINE h == D * HOURSPERDAY + a.hour
           i == E * HOURSPERDAY + b.hour
<1>8. h \in Int /\ i \in Int
  <2>1. D * HOURSPERDAY \in Int /\ E * HOURSPERDAY \in Int
    BY <1>4, Units, Products
  <2> QED BY <1>5, <2>1, Units
<1>9. k \in 1 .. 4 => h < i
  <2>1. D < E => h < i
    BY <1>4, <1>5, Units, HigherPlace
  <2>2. k = 4 => h < i
    <3> SUFFICES ASSUME k = 4 PROVE h < i
      OBVIOUS
    <3>1. a.hour < b.hour /\ D = E
      BY <1>1, <1>2, <1>7
    <3> DEFINE p == E * HOURSPERDAY
    <3>2. p \in Int /\ h = p + a.hour /\ i = p + b.hour
      BY <1>4, <3>1, Units, Products
    <3> HIDE DEF p, h, i
    <3> QED BY <1>5, <3>1, <3>2, Units
  <2> QED BY <1>3, <1>6, <2>1, <2>2
<1>10. k \notin 1 .. 4 => h = i
  BY <1>1, <1>2, <1>3, <1>7
<1> HIDE DEF h, i
<1> DEFINE m == h * MINSPERHOUR + a.min
           n == i * MINSPERHOUR + b.min
<1>11. m \in Int /\ n \in Int
  <2>1. h * MINSPERHOUR \in Int /\ i * MINSPERHOUR \in Int
    BY <1>8, Units, Products
  <2> QED BY <1>5, <2>1, Units
<1>12. k \in 1 .. 5 => m < n
  <2>1. h < i => m < n
    BY <1>5, <1>8, Units, HigherPlace
  <2>2. k = 5 => m < n
    <3> SUFFICES ASSUME k = 5 PROVE m < n
      OBVIOUS
    <3>1. a.min < b.min /\ h = i
      BY <1>1, <1>2, <1>10
    <3> DEFINE p == i * MINSPERHOUR
    <3>2. p \in Int /\ m = p + a.min /\ n = p + b.min
      BY <1>8, <3>1, Units, Products
    <3> HIDE DEF p, m, n
    <3> QED BY <1>5, <3>1, <3>2, Units
  <2> QED BY <1>3, <1>9, <2>1, <2>2
<1>13. k = 6 => m = n
  BY <1>1, <1>2, <1>10
<1> HIDE DEF m, n
<1>14. m * SECSPERMIN + a.sec < n * SECSPERMIN + b.sec
  <2>1. m < n => m * SECSPERMIN + a.sec < n * SECSPERMIN + b.sec
    BY <1>5, <1>11, Units, HigherPlace
  <2>2. k = 6 => m * SECSPERMIN + a.sec < n * SECSPERMIN + b.sec
    <3> SUFFICES ASSUME k = 6 PROVE m * SECSPERMIN + a.sec < n * SECSPERMIN + b.sec
      OBVIOUS
    <3>1. a.sec < b.sec /\ m = n
      BY <1>1, <1>2, <1>13
    <3> DEFINE p == n * SECSPERMIN
    <3>2. p \in Int /\ m * SECSPERMIN + a.sec = p + a.sec
      BY <1>11, <3>1, Units, Products
    <3> HIDE DEF p
    <3>3. p + a.sec < p + b.sec
      BY <1>5, <3>1, <3>2, Units
    <3> QED BY <3>2, <3>3 DEF p
  <2> QED BY <1>3, <1>12, <2>1, <2>2
<1> QED BY <1>14 DEF LocalSeconds, m, n, h, i, D, E

(***************************************************************************)
(* tmcomp orders dates and times as they follow each other.                *)
(***************************************************************************)
LEMMA ComparedRight ==
  ASSUME NEW a \in StructTm, NEW b \in StructTm, IsNormal(a), IsNormal(b)
  PROVE  /\ tmcomp(a, b) < 0 <=> LocalSeconds(a) < LocalSeconds(b)
         /\ tmcomp(a, b) = 0 <=> LocalSeconds(a) = LocalSeconds(b)
         /\ LocalSeconds(a) \in Int /\ LocalSeconds(b) \in Int
<1> DEFINE x == Civil(a)
           y == Civil(b)
           Differs(i) == x[i] # y[i] /\ \A j \in 1 .. i - 1 : x[j] = y[j]
           k == CHOOSE i \in 1 .. 6 : Differs(i)
           v == LocalSeconds(a)
           w == LocalSeconds(b)
<1>1. v \in Int /\ w \in Int
  <2>1. ASSUME NEW c \in StructTm, IsNormal(c) PROVE LocalSeconds(c) \in Int
    <3>1. Days(c) \in Int /\ c.hour \in Int /\ c.min \in Int /\ c.sec \in Int
      BY DaysOfMonth DEF StructTm
    <3> DEFINE p == Days(c) * HOURSPERDAY
    <3>2. p \in Int
      BY <3>1, Units, Products
    <3> HIDE DEF p
    <3> DEFINE q == (p + c.hour) * MINSPERHOUR
    <3>3. q \in Int
      <4>1. p + c.hour \in Int /\ MINSPERHOUR \in Int
        BY <3>1, <3>2, Units
      <4> QED BY <4>1, Products
    <3> HIDE DEF q
    <3>4. (q + c.min) * SECSPERMIN \in Int
      <4>1. q + c.min \in Int /\ SECSPERMIN \in Int
        BY <3>1, <3>3, Units
      <4> QED BY <4>1, Products
    <3>5. (q + c.min) * SECSPERMIN + c.sec \in Int
      BY <3>1, <3>4
    <3> QED BY <3>5 DEF LocalSeconds, p, q
  <2> QED BY <2>1
<1>2. CASE x = y
  <2>1. tmcomp(a, b) = 0
    BY <1>2 DEF tmcomp
  <2>2. v = w
    BY <1>2, SameReading
  <2> HIDE DEF v, w
  <2>3. /\ tmcomp(a, b) < 0 <=> v < w
        /\ tmcomp(a, b) = 0 <=> v = w
    BY <1>1, <2>1, <2>2
  <2> QED BY <1>1, <2>3 DEF v, w
<1>3. CASE x # y
  <2>1. tmcomp(a, b) = x[k] - y[k]
    BY <1>3 DEF tmcomp
  <2>2. /\ x[1] \in Int /\ x[2] \in Int /\ x[3] \in Int /\ x[4] \in Int /\ x[5] \in Int /\ x[6] \in Int
        /\ y[1] \in Int /\ y[2] \in Int /\ y[3] \in Int /\ y[4] \in Int /\ y[5] \in Int /\ y[6] \in Int
    BY DEF StructTm, Civil
  <2>3. \E i \in 1 .. 6 : Differs(i)
    <3>1. x[1] # y[1] \/ x[2] # y[2] \/ x[3] # y[3] \/ x[4] # y[4] \/ x[5] # y[5] \/ x[6] # y[6]
      BY <1>3 DEF Civil
    <3> HIDE DEF x, y
    <3> QED BY <3>1, FirstDifference
  <2>4. k \in 1 .. 6 /\ Differs(k)
    <3> HIDE DEF Differs
    <3> QED BY <2>3
  <2> HIDE DEF k
  <2>5. x[k] \in Int /\ y[k] \in Int /\ x[k] # y[k] /\ \A j \in 1 .. k - 1 : x[j] = y[j]
    <3>1. x[k] # y[k] /\ \A j \in 1 .. k - 1 : x[j] = y[j]
      BY <2>4
    <3> HIDE DEF x, y
    <3> QED BY <2>2, <2>4, <3>1
  <2> HIDE DEF x, y
  <2>6. CASE x[k] < y[k]
    <3>1. EarlierIn(x, y)
      BY <2>4, <2>5, <2>6 DEF EarlierIn
    <3>2. v < w
      BY <3>1, EarlierSecond DEF x, y
    <3> DEFINE d == tmcomp(a, b)
    <3>3. d < 0
      BY <2>1, <2>5, <2>6
    <3> HIDE DEF d, v, w
    <3>4. (d < 0 <=> v < w) /\ (d = 0 <=> v = w)
      BY <1>1, <3>2, <3>3
    <3> QED BY <1>1, <3>4 DEF d, v, w
  <2>7. CASE y[k] < x[k]
    <3>1. EarlierIn(y, x)
      BY <2>4, <2>5, <2>7 DEF EarlierIn
    <3>2. w < v
      BY <3>1, EarlierSecond DEF x, y
    <3> DEFINE d == tmcomp(a, b)
    <3>3. d > 0 /\ d \in Int
      BY <2>1, <2>5, <2>7
    <3> HIDE DEF d, v, w
    <3>4. (d < 0 <=> v < w) /\ (d = 0 <=> v = w)
      BY <1>1, <3>2, <3>3
    <3> QED BY <1>1, <3>4 DEF d, v, w
  <2> QED BY <2>5, <2>6, <2>7
<1> QED BY <1>2, <1>3

(***************************************************************************)
(* Only the fields of the date and time matter for what the clock skips.   *)
(***************************************************************************)
LEMMA SkipsCivil ==
  ASSUME NEW z, NEW a, NEW b, Civil(a) = Civil(b)
  PROVE  Skips(z, a) <=> Skips(z, b)
<1>1. \A x : tmcomp(x, a) = tmcomp(x, b)
  BY DEF tmcomp
<1>2. \A x : Side(z, x, a) = Side(z, x, b)
  BY <1>1 DEF Side
<1>3. \A x : (TooEarly(z, x, a) <=> TooEarly(z, x, b)) /\ (TooLate(z, x, a) <=> TooLate(z, x, b))
  BY <1>2 DEF TooEarly, TooLate
<1> QED BY <1>3 DEF Skips

(***************************************************************************)
(* Without leap seconds the fields that localsub writes are all in their   *)
(* ranges, and stand for the instant plus the offset of a type.            *)
(***************************************************************************)
LEMMA LocalsubNormal ==
  ASSUME NEW z, IsZone(z), SoundLeaps(z), z.lsis = <<>>, NEW x \in Int, localsub(z, x, ZeroTm).ok
  PROVE  \E i \in 1 .. Len(z.ttis) :
           /\ localsub(z, x, ZeroTm).tm \in StructTm /\ IsNormal(localsub(z, x, ZeroTm).tm)
           /\ localsub(z, x, ZeroTm).tm.isdst = z.ttis[i].isdst /\ z.ttis[i].isdst \in {0, 1}
           /\ LocalSeconds(localsub(z, x, ZeroTm).tm) = x + z.ttis[i].gmtoff
           /\ z.ttis[i].gmtoff \in Int /\ i = TypeAt(z, x + Cycles(z, x) * SECSPERREPEAT)
<1> DEFINE a == localsub(z, x, ZeroTm).tm
<1>1. Correction(z, x) = 0 /\ Hits(z, x) = 0
  BY NoLeaps
<1>2. PICK i \in 1 .. Len(z.ttis) :
           /\ a.isdst = z.ttis[i].isdst
           /\ Counted(a, x + z.ttis[i].gmtoff - Correction(z, x), Hits(z, x))
           /\ i = TypeAt(z, x + Cycles(z, x) * SECSPERREPEAT)
  BY LocalsubRight
<1> DEFINE off == z.ttis[i].gmtoff
<1>3. off \in Int /\ z.ttis[i].isdst \in {0, 1}
  BY DEF IsZone
<1> HIDE DEF a, off
<1>4. Counted(a, x + off - 0, 0)
  BY <1>1, <1>2 DEF off
<1>5. x + off - 0 = x + off /\ x + off + 0 = x + off /\ x + off \in Int
  BY <1>3
<1>6. (x + off) % SECSPERMIN \in 0 .. SECSPERMIN - 1
  BY <1>5, Units, DivMod
<1>7. /\ a \in StructTm /\ LocalSeconds(a) = x + off
      /\ a.mon \in 0 .. 11 /\ a.mday \in 1 .. mon_lengths(a.year + TM_YEAR_BASE)[a.mon + 1]
      /\ a.hour \in 0 .. HOURSPERDAY - 1 /\ a.min \in 0 .. MINSPERHOUR - 1
      /\ a.sec = ((x + off) % SECSPERMIN) + 0
  BY <1>4, <1>5 DEF Counted
<1>8. a.sec \in 0 .. SECSPERMIN - 1
  <2> DEFINE r == (x + off) % SECSPERMIN
  <2> HIDE DEF r
  <2>1. r \in 0 .. SECSPERMIN - 1 /\ a.sec = r + 0
    BY <1>6, <1>7 DEF r
  <2> QED BY <2>1, Units
<1>9. IsNormal(a)
  BY <1>7, <1>8 DEF IsNormal, InMinute
<1> QED BY <1>2, <1>3, <1>7, <1>9 DEF a, off

(***************************************************************************)
(* Seconds in the minute are the same whether or not time2sub normalises   *)
(* them, and tm_isdst has no part in it.                                   *)
(***************************************************************************)
LEMMA NormalizedInMinute ==
  ASSUME NEW b \in StructTm, InMinute(b), NEW d \in Int
  PROVE  /\ Normalized([b EXCEPT !.isdst = d], FALSE).ok <=> Normalized(b, TRUE).ok
         /\ Normalized(b, TRUE).ok =>
              Civil(Normalized([b EXCEPT !.isdst = d], FALSE).tm) = Civil(Normalized(b, TRUE).tm)
<1> DEFINE n == [b EXCEPT !.isdst = d]
<1>1. /\ n \in StructTm /\ n.year = b.year /\ n.mon = b.mon /\ n.mday = b.mday /\ n.hour = b.hour
      /\ n.min = b.min /\ n.sec = b.sec
  BY DEF StructTm
<1> HIDE DEF n
<1> DEFINE hour == b.hour + (b.min \div MINSPERHOUR)
           mday == b.mday + hour \div HOURSPERDAY
           date == CarryDays[<<b.year + b.mon \div 12 + TM_YEAR_BASE, b.mon % 12, mday>>]
           year == date[1] - TM_YEAR_BASE
           bad == ~IsInt(b.min) \/ ~IsInt(hour) \/ ~IsInt(mday) \/ ~IsInt(year)
           New(c, s) == [c EXCEPT !.year = year, !.mon = date[2], !.mday = date[3],
                          !.hour = hour % HOURSPERDAY, !.min = b.min % MINSPERHOUR, !.sec = s]
<1>2. b.min \in Int /\ b.min + 0 = b.min /\ n.min + 0 = b.min
  BY <1>1 DEF StructTm
<1>3. b.sec \div SECSPERMIN = 0 /\ b.sec % SECSPERMIN = b.sec
  <2>1. b.sec \in Int /\ Divided(b.sec, SECSPERMIN, 0, b.sec)
    BY Units DEF StructTm, InMinute, Divided
  <2> QED BY <2>1, Units, DivModUnique
<1>4. Normalized(b, TRUE) = IF bad THEN Null(b) ELSE Done(New(b, b.sec))
  BY <1>2, <1>3, Zenon DEF Normalized, Tens, Left
<1>5. Normalized(n, FALSE) = IF bad THEN Null(n) ELSE Done(New(n, n.sec))
  BY <1>1, <1>2, Zenon DEF Normalized, Tens, Left
<1>6. ASSUME NEW c \in StructTm, NEW s
      PROVE  Civil(New(c, s)) = <<year, date[2], date[3], hour % HOURSPERDAY, b.min % MINSPERHOUR, s>>
  <2> HIDE DEF year, date, hour
  <2> QED BY <1>6 DEF Civil, StructTm
<1>7. Civil(New(n, n.sec)) = Civil(New(b, b.sec))
  <2>1. Civil(New(n, n.sec)) = <<year, date[2], date[3], hour % HOURSPERDAY, b.min % MINSPERHOUR, n.sec>>
    BY <1>1, <1>6
  <2>2. Civil(New(b, b.sec)) = <<year, date[2], date[3], hour % HOURSPERDAY, b.min % MINSPERHOUR, b.sec>>
    BY <1>6
  <2> QED BY <1>1, <2>1, <2>2, Zenon
<1> HIDE DEF New, bad
<1> DEFINE u == Normalized(n, FALSE)
           v == Normalized(b, TRUE)
<1>8. v = (IF bad THEN Null(b) ELSE Done(New(b, b.sec))) /\ u = (IF bad THEN Null(n) ELSE Done(New(n, n.sec)))
  BY <1>4, <1>5
<1> HIDE DEF u, v, year, date, mday, hour
<1>9. (u.ok <=> v.ok) /\ (v.ok => Civil(u.tm) = Civil(v.tm))
  <2>1. CASE bad
    <3>1. ~u.ok /\ ~v.ok
      BY <1>8, <2>1 DEF Null
    <3> QED BY <3>1
  <2>2. CASE ~bad
    <3>1. v = Done(New(b, b.sec)) /\ u = Done(New(n, n.sec))
      BY <1>8, <2>2
    <3> QED BY <1>7, <3>1 DEF Done
  <2> QED BY <2>1, <2>2
<1> QED BY <1>9 DEF u, v, n

(***************************************************************************)
(* A request that tz_mktime is sure to find: the seconds are in the        *)
(* minute, the fields fit ints when they are normalised, the clock does    *)
(* not skip the time, and, when tm_isdst is given, it is that at one of    *)
(* the instants of the time and the zone has no leap seconds.              *)
(***************************************************************************)
Sure ==
  /\ InMinute(asked) /\ Normalized(asked, TRUE).ok
  /\ ~Skips(sp, Normalized(asked, TRUE).tm)
  /\ asked.isdst < 0 \/ (sp.lsis = <<>> /\ Wanted(sp, asked) # {})

(***************************************************************************)
(* The first attempt finds it: the search is for the fields that were      *)
(* asked for, and leads to them. Neither other types nor a second try are  *)
(* needed.                                                                 *)
(***************************************************************************)
SureInv ==
  pc \in {"time2sub", "search", "compare", "label", "time2", "done"} /\ Sure =>
    LET n == Normalized(asked, TRUE).tm
    IN  /\ pair = FIRST /\ ~norm
        /\ pc \in {"search", "compare", "label"} => IsNormal(yourtm) /\ Civil(yourtm) = Civil(n)
        /\ pc \in {"time2", "done"} => okay /\ Civil(tm) = Civil(n)

(***************************************************************************)
(* It is then a first attempt.                                             *)
(***************************************************************************)
LEMMA SureTrusted ==
  ASSUME SureInv, MktimeInv, Sure, pc \in {"time2sub", "search", "compare", "label", "time2", "done"}
  PROVE  /\ Trusted /\ pair = FIRST /\ ~norm /\ sp \in Zones /\ asked \in StructTm
         /\ IsZone(sp) /\ SoundLeaps(sp)
BY SearchAssumption, SoundLeapsAssumption DEF SureInv, Trusted, MktimeInv

(***************************************************************************)
(* tz_mktime starts so.                                                    *)
(***************************************************************************)
LEMMA SureStarts ==
  ASSUME NEW b, tz_mktime(b)
  PROVE  SureInv'
BY DEF tz_mktime, SureInv

(***************************************************************************)
(* time2sub does not give up: what it looks for are the fields,            *)
(* normalised.                                                             *)
(***************************************************************************)
LEMMA SureNormalizes ==
  ASSUME SureInv, MktimeInv, time2sub
  PROVE  SureInv'
<1>1. /\ pc = "time2sub" /\ pc' \in {"search", "time2"}
      /\ UNCHANGED <<sp, tm, asked, pair, norm>>
  BY DEF time2sub, NotFound
<1>2. Sure' <=> Sure
  BY <1>1 DEF Sure
<1> SUFFICES ASSUME Sure PROVE SureInv'
  BY <1>2 DEF SureInv
<1>3. Trusted /\ pair = FIRST /\ ~norm /\ asked \in StructTm
  BY <1>1, SureTrusted
<1> DEFINE d == Kind(asked)
           c == [asked EXCEPT !.isdst = d]
           n == Normalized(tm, norm)
           m == n.tm
           s == SavedSeconds(m)
           y == [m EXCEPT !.sec = IF @ \in 0 .. SECSPERMIN - 1 THEN @
                                  ELSE IF EarlyYear(m) THEN SECSPERMIN - 1 ELSE 0]
           q == Normalized(asked, TRUE)
<1>4. norm = FALSE /\ tm = c
  BY <1>1, <1>3 DEF MktimeInv
<1>5. c \in StructTm /\ d \in Int /\ c.sec = asked.sec
  BY <1>3, Kinds
<1>6. q.ok /\ InMinute(asked)
  BY DEF Sure
<1>7. n = Normalized(c, FALSE)
  BY <1>4
<1>8. n.ok /\ Civil(m) = Civil(q.tm)
  <2> HIDE DEF d
  <2>1. (Normalized(c, FALSE).ok <=> q.ok) /\ (q.ok => Civil(Normalized(c, FALSE).tm) = Civil(q.tm))
    BY <1>3, <1>5, <1>6, NormalizedInMinute
  <2> QED BY <1>6, <1>7, <2>1
<1>9. NormalizedOf(c, FALSE, m)
  <2>1. Normalized(c, FALSE).ok
    BY <1>7, <1>8
  <2>2. NormalizedOf(c, FALSE, Normalized(c, FALSE).tm)
    <3> HIDE DEF c
    <3> QED BY <1>5, <2>1, NormalizedRight
  <2> QED BY <1>7, <2>2
<1> HIDE DEF c, d, m, q
<1>10. /\ m \in StructTm /\ LocalSeconds(m) \in Int /\ InMinute(m)
       /\ m.mon \in 0 .. 11 /\ m.mday \in 1 .. mon_lengths(m.year + TM_YEAR_BASE)[m.mon + 1]
       /\ m.hour \in 0 .. HOURSPERDAY - 1 /\ m.min \in 0 .. MINSPERHOUR - 1
  BY <1>5, <1>6, <1>9 DEF NormalizedOf, InMinute
<1>11. s = 0 /\ y \in StructTm /\ InMinute(y) /\ Civil(y) = Civil(m)
  <2>1. y = [m EXCEPT !.sec = IF @ \in 0 .. SECSPERMIN - 1 THEN @
                                  ELSE IF EarlyYear(m) THEN SECSPERMIN - 1 ELSE 0]
    OBVIOUS
  <2> HIDE DEF y
  <2> QED BY <1>10, <2>1, SavedRight
<1>12. IsNormal(y)
  <2> HIDE DEF y
  <2>1. y.year = m.year /\ y.mon = m.mon /\ y.mday = m.mday /\ y.hour = m.hour /\ y.min = m.min
    BY <1>11 DEF Civil
  <2> QED BY <1>10, <1>11, <2>1 DEF IsNormal
<1>13. IsInt(s)
  BY <1>11, UnitAssumption DEF IsInt, INT_MIN
<1>14. yourtm' = y /\ pc' = "search"
  <2>1. ~(~n.ok \/ ~IsInt(SavedSeconds(n.tm)))
    BY <1>8, <1>13 DEF m
  <2>2. yourtm' = [n.tm EXCEPT !.sec = IF @ \in 0 .. SECSPERMIN - 1 THEN @
                                       ELSE IF EarlyYear(n.tm) THEN SECSPERMIN - 1 ELSE 0]
        /\ pc' = "search"
    BY <2>1, Zenon DEF time2sub
  <2> QED BY <2>2 DEF m
<1> HIDE DEF y, n
<1>15. Civil(y) = Civil(Normalized(asked, TRUE).tm)
  BY <1>8, <1>11 DEF q
<1> QED BY <1>1, <1>3, <1>12, <1>14, <1>15 DEF SureInv

(***************************************************************************)
(* A probe changes nothing of it.                                          *)
(***************************************************************************)
LEMMA SureProbes ==
  ASSUME SureInv, MktimeInv, Probe
  PROVE  SureInv'
BY DEF Probe, SureInv, Sure

(***************************************************************************)
(* The interval does not become empty.                                     *)
(***************************************************************************)
LEMMA SureNarrows ==
  ASSUME SureInv, MktimeInv, RunInv, SearchInv, Narrow
  PROVE  SureInv'
<1>1. /\ pc = "compare" /\ UNCHANGED <<sp, asked, pair, norm, yourtm>>
  BY DEF Narrow
<1>2. Sure' <=> Sure
  BY <1>1 DEF Sure
<1> SUFFICES ASSUME Sure PROVE SureInv'
  BY <1>2 DEF SureInv
<1>3. ~Skips(sp, yourtm)
  <2> DEFINE n == Normalized(asked, TRUE).tm
  <2>1. Civil(yourtm) = Civil(n)
    BY <1>1 DEF SureInv
  <2>2. ~Skips(sp, n)
    BY DEF Sure
  <2> HIDE DEF n
  <2> QED BY <2>1, <2>2, SkipsCivil
<1>4. pc' = "search"
  BY <1>3, RunNarrow
<1> QED BY <1>1, <1>4 DEF SureInv

(***************************************************************************)
(* The instant is found.                                                   *)
(***************************************************************************)
LEMMA SureMatches ==
  ASSUME SureInv, MktimeInv, Match
  PROVE  SureInv'
<1>1. pc = "compare" /\ pc' = "label" /\ UNCHANGED <<sp, asked, pair, norm, yourtm>>
  BY DEF Match, search_vars
<1> QED BY <1>1 DEF SureInv, Sure

(***************************************************************************)
(* Right time, wrong type: an instant of the right type is at the distance *)
(* of two offsets (libtz.c:1837-1866).                                     *)
(***************************************************************************)
LEMMA OtherType ==
  ASSUME NEW z, IsZone(z), SoundLeaps(z), z.lsis = <<>>, NEW b \in StructTm, IsNormal(b),
         NEW x \in Int, localsub(z, x, ZeroTm).ok, tmcomp(localsub(z, x, ZeroTm).tm, b) = 0,
         NEW w \in Int, localsub(z, w, ZeroTm).ok,
         LocalSeconds(localsub(z, w, ZeroTm).tm) = LocalSeconds(b)
  PROVE  \E i, j \in 1 .. Len(z.ttis) :
           /\ z.ttis[i].isdst = localsub(z, w, ZeroTm).tm.isdst
           /\ z.ttis[j].isdst = localsub(z, x, ZeroTm).tm.isdst
           /\ w = x + z.ttis[j].gmtoff - z.ttis[i].gmtoff
           /\ tmcomp(localsub(z, w, ZeroTm).tm, b) = 0
<1> DEFINE a == localsub(z, x, ZeroTm).tm
           c == localsub(z, w, ZeroTm).tm
<1>1. PICK j \in 1 .. Len(z.ttis) :
           /\ a \in StructTm /\ IsNormal(a) /\ a.isdst = z.ttis[j].isdst
           /\ LocalSeconds(a) = x + z.ttis[j].gmtoff /\ z.ttis[j].gmtoff \in Int
  BY LocalsubNormal
<1>2. PICK i \in 1 .. Len(z.ttis) :
           /\ c \in StructTm /\ IsNormal(c) /\ c.isdst = z.ttis[i].isdst
           /\ LocalSeconds(c) = w + z.ttis[i].gmtoff /\ z.ttis[i].gmtoff \in Int
  BY LocalsubNormal
<1>3. tmcomp(a, b) = 0 /\ LocalSeconds(c) = LocalSeconds(b)
  OBVIOUS
<1> HIDE DEF a, c
<1>4. LocalSeconds(a) = LocalSeconds(b)
  BY <1>1, <1>3, ComparedRight
<1>5. tmcomp(c, b) = 0
  BY <1>2, <1>3, ComparedRight
<1> DEFINE o == z.ttis[j].gmtoff
           p == z.ttis[i].gmtoff
<1>6. w = x + o - p
  <2>1. x + o = w + p /\ o \in Int /\ p \in Int
    BY <1>1, <1>2, <1>3, <1>4
  <2> HIDE DEF o, p
  <2> QED BY <2>1
<1> QED BY <1>1, <1>2, <1>5, <1>6 DEF a, c

(***************************************************************************)
(* So the search among the types of the zone finds one of the right type.  *)
(***************************************************************************)
LEMMA SureHunts ==
  ASSUME SureInv, MktimeInv, RunInv, SearchInv, Hunt
  PROVE  SureInv'
<1>1. /\ pc = "compare" /\ UNCHANGED <<sp, asked, pair, norm, yourtm>>
      /\ Direction = 0 /\ ~RightType /\ pc' \in {"label", "time2"}
      /\ Matching # {} => pc' = "label"
  BY DEF Hunt, NotFound
<1>2. Sure' <=> Sure
  BY <1>1 DEF Sure
<1> SUFFICES ASSUME Sure PROVE SureInv'
  BY <1>2 DEF SureInv
<1>3. Trusted /\ pair = FIRST /\ ~norm /\ sp \in Zones /\ asked \in StructTm /\ IsZone(sp) /\ SoundLeaps(sp)
  BY <1>1, SureTrusted
<1>4. IsNormal(yourtm) /\ yourtm \in StructTm /\ t \in Int /\ mytm = localsub(sp, t, ZeroTm)
  BY <1>1 DEF SureInv, RunInv, SearchInv
<1>5. mytm.ok /\ tmcomp(mytm.tm, yourtm) = 0
  BY <1>1 DEF Direction
<1>6. yourtm.isdst >= 0 /\ mytm.tm.isdst # yourtm.isdst
  BY <1>1, <1>4 DEF RightType, StructTm
<1>7. /\ yourtm.isdst = Kind(asked) /\ LocalSeconds(yourtm) = LocalSeconds(asked) - saved /\ saved \in Int
      /\ LocalSeconds(yourtm) \in Int /\ saved = 0
  <2>1. Sought(asked, yourtm, saved)
    BY <1>1, <1>3 DEF MktimeInv
  <2> QED BY <2>1 DEF Sought, Sure
<1>8. asked.isdst >= 0 /\ sp.lsis = <<>> /\ Wanted(sp, asked) # {}
  <2>1. asked.isdst >= 0
    BY <1>3, <1>6, <1>7 DEF Kind, StructTm
  <2> QED BY <1>3, <2>1 DEF Sure, StructTm
<1>9. LocalSeconds(asked) = LocalSeconds(yourtm)
  <2>1. LocalSeconds(asked) \in Int
    <3>1. yourtm.year \in Int
      BY <1>4 DEF StructTm
    <3>2. Days(asked) \in Int /\ asked.hour \in Int /\ asked.min \in Int /\ asked.sec \in Int
      BY <1>3, DaysOfMonth DEF StructTm
    <3> DEFINE p == Days(asked) * HOURSPERDAY
    <3>3. p \in Int
      BY <3>2, Units, Products
    <3> HIDE DEF p
    <3> DEFINE q == (p + asked.hour) * MINSPERHOUR
    <3>4. q \in Int
      <4>1. p + asked.hour \in Int /\ MINSPERHOUR \in Int
        BY <3>2, <3>3, Units
      <4> QED BY <4>1, Products
    <3> HIDE DEF q
    <3>5. (q + asked.min) * SECSPERMIN \in Int
      <4>1. q + asked.min \in Int /\ SECSPERMIN \in Int
        BY <3>2, <3>4, Units
      <4> QED BY <4>1, Products
    <3>6. (q + asked.min) * SECSPERMIN + asked.sec \in Int
      BY <3>2, <3>5
    <3> QED BY <3>6 DEF LocalSeconds, p, q
  <2> QED BY <1>7, <2>1
<1>10. PICK w \in Wanted(sp, asked) : TRUE
  BY <1>8
<1>11. /\ w \in Int /\ localsub(sp, w, ZeroTm).ok
       /\ LocalSeconds(localsub(sp, w, ZeroTm).tm) = LocalSeconds(yourtm)
       /\ localsub(sp, w, ZeroTm).tm.isdst = Kind(asked)
  <2>1. w \in InstantsOf(sp, asked) /\ IsDst(sp, w) = (IF asked.isdst > 0 THEN 1 ELSE asked.isdst)
    BY <1>3, <1>8, <1>10 DEF Wanted, StructTm
  <2>2. Reads(sp, w, asked)
    BY <2>1 DEF InstantsOf
  <2>3. w \in Int
    <3> DEFINE L == LocalSeconds(asked)
    <3>1. w \in {L - sp.ttis[i].gmtoff + c : i \in 1 .. Len(sp.ttis), c \in Corrections(sp)}
      BY <2>1 DEF InstantsOf
    <3>2. L \in Int
      BY <1>7, <1>9
    <3>3. Corrections(sp) = {0}
      BY <1>8 DEF Corrections
    <3> HIDE DEF L
    <3>4. PICK i \in 1 .. Len(sp.ttis) : w = L - sp.ttis[i].gmtoff + 0
      BY <3>1, <3>3
    <3>5. sp.ttis[i].gmtoff \in Int
      BY <1>3 DEF IsZone
    <3> QED BY <3>2, <3>4, <3>5
  <2>4. IF asked.isdst > 0 THEN Kind(asked) = 1 ELSE Kind(asked) = asked.isdst
    BY <1>3, <1>8 DEF Kind, StructTm
  <2> QED BY <1>9, <2>1, <2>2, <2>3, <2>4 DEF Reads, IsDst
<1>12. PICK i \in 1 .. Len(sp.ttis), j \in 1 .. Len(sp.ttis) :
           /\ sp.ttis[i].isdst = localsub(sp, w, ZeroTm).tm.isdst
           /\ sp.ttis[j].isdst = localsub(sp, t, ZeroTm).tm.isdst
           /\ w = t + sp.ttis[j].gmtoff - sp.ttis[i].gmtoff
           /\ tmcomp(localsub(sp, w, ZeroTm).tm, yourtm) = 0
  BY <1>3, <1>4, <1>5, <1>8, <1>11, OtherType
<1>13. <<i, j>> \in Matching
  <2> DEFINE p == <<i, j>>
  <2>1. Moved(p) = w
    BY <1>12 DEF Moved
  <2>2. Matches(localsub(sp, w, ZeroTm))
    BY <1>7, <1>11, <1>12 DEF Matches
  <2>3. sp.ttis[p[1]].isdst = yourtm.isdst /\ sp.ttis[p[2]].isdst # yourtm.isdst
    BY <1>4, <1>6, <1>7, <1>11, <1>12
  <2>4. p \in (1 .. Len(sp.ttis)) \X (1 .. Len(sp.ttis))
    OBVIOUS
  <2> HIDE DEF p
  <2> QED BY <2>1, <2>2, <2>3, <2>4 DEF Matching, p
<1>14. pc' = "label"
  BY <1>1, <1>13
<1> QED BY <1>1, <1>14 DEF SureInv

(***************************************************************************)
(* The clock shows it there, with no seconds put aside.                    *)
(***************************************************************************)
LEMMA SureLabels ==
  ASSUME SureInv, MktimeInv, label
  PROVE  SureInv'
<1> DEFINE sub == localsub(sp, t + saved, tm)
<1>1. /\ pc = "label" /\ pc' = "time2" /\ tm' = sub.tm /\ okay' = sub.ok
      /\ UNCHANGED <<sp, asked, pair, norm>>
  BY DEF label
<1>2. Sure' <=> Sure
  BY <1>1 DEF Sure
<1> SUFFICES ASSUME Sure PROVE SureInv'
  BY <1>2 DEF SureInv
<1>3. Trusted /\ pair = FIRST /\ ~norm
  BY <1>1, SureTrusted
<1>4. Sought(asked, yourtm, saved) /\ t \in Int /\ Shows(sp, t, yourtm)
  BY <1>1, <1>3 DEF MktimeInv
<1>5. t + saved = t
  <2>1. saved = 0
    BY <1>4 DEF Sought, Sure
  <2> QED BY <1>4, <2>1
<1>6. localsub(sp, t, ZeroTm).ok /\ Civil(localsub(sp, t, ZeroTm).tm) = Civil(yourtm)
  BY <1>4 DEF Shows
<1>7. sub = localsub(sp, t, ZeroTm)
  <2>1. localsub(sp, t, tm) = localsub(sp, t, ZeroTm)
    BY <1>6, WhateverTm
  <2> QED BY <1>5, <2>1
<1>8. okay' /\ Civil(tm') = Civil(yourtm)
  BY <1>1, <1>6, <1>7
<1> HIDE DEF sub
<1>9. Civil(yourtm) = Civil(Normalized(asked, TRUE).tm)
  BY <1>1 DEF SureInv
<1> QED BY <1>1, <1>3, <1>8, <1>9 DEF SureInv

(***************************************************************************)
(* tz_mktime returns what is found.                                        *)
(***************************************************************************)
LEMMA SureReturns ==
  ASSUME SureInv, MktimeInv, time2 \/ time1 \/ Return
  PROVE  SureInv'
<1>1. /\ pc = "time2" /\ UNCHANGED <<sp, asked>>
      /\ time2 \/ time1 => ~okay
  BY DEF time2, time1, Return
<1>2. Sure' <=> Sure
  BY <1>1 DEF Sure
<1> SUFFICES ASSUME Sure PROVE SureInv'
  BY <1>2 DEF SureInv
<1>3. okay
  BY <1>1 DEF SureInv
<1>4. Return
  BY <1>1, <1>3
<1>5. pc' = "done" /\ UNCHANGED <<tm, pair, norm, okay>>
  BY <1>4 DEF Return
<1> QED BY <1>1, <1>5 DEF SureInv

(***************************************************************************)
(* Every step of tz_mktime keeps it.                                       *)
(***************************************************************************)
LEMMA SureKeeps ==
  ASSUME SureInv, MktimeInv, RunInv, SearchInv, MktimeStep
  PROVE  SureInv'
BY SureNormalizes, SureProbes, SureNarrows, SureMatches, SureHunts, SureLabels, SureReturns DEF MktimeStep

(***************************************************************************)
(* So does every step of the client.                                       *)
(***************************************************************************)
LEMMA SureStays ==
  ASSUME ReadInv, MktimeInv, RunInv, SearchInv, SureInv, [Next]_vars
  PROVE  SureInv'
<1>1. CASE Ask \/ NextQuestion
  <2>1. pc' \in {"read", "failed", "idle"}
    BY <1>1 DEF Ask, tz_localtime_r, NextQuestion
  <2> QED BY <2>1 DEF SureInv
<1>2. CASE AskFor
  <2>1. PICK e \in Edits, h \in Hints : tz_mktime([Edited(tm, e) EXCEPT !.isdst = h])
    BY <1>2 DEF AskFor
  <2> QED BY <2>1, SureStarts
<1>3. CASE MktimeStep
  BY <1>3, SureKeeps
<1>4. CASE UNCHANGED vars
  BY <1>4 DEF SureInv, Sure, vars, search_vars
<1> QED BY <1>1, <1>2, <1>3, <1>4 DEF Next

(***************************************************************************)
(* What was asked for has its seconds in the minute, fits ints when it is  *)
(* normalised, and the clock does not pass over it. With tm_isdst given,   *)
(* the zone has no leap seconds.                                           *)
(***************************************************************************)
Unskipped ==
  /\ InMinute(asked) /\ Normalized(asked, TRUE).ok
  /\ ~Skips(sp, Normalized(asked, TRUE).tm)
  /\ asked.isdst < 0 \/ sp.lsis = <<>>

(* tz_mktime works in the zone, and after the instant, that was read.      *)
KeptInv ==
  pc \in {"time2sub", "search", "compare", "label", "time2", "done"} =>
    sp \in Zones /\ instant \in Instants /\ localsub(sp, instant, ZeroTm).ok

(***************************************************************************)
(* Every step keeps it.                                                    *)
(***************************************************************************)
LEMMA KeptStays ==
  ASSUME ReadInv, KeptInv, [Next]_vars
  PROVE  KeptInv'
<1>1. CASE Ask \/ NextQuestion
  <2>1. pc' \in {"read", "failed", "idle"}
    BY <1>1 DEF Ask, tz_localtime_r, NextQuestion
  <2> QED BY <2>1 DEF KeptInv
<1>2. CASE AskFor
  <2>1. pc = "read" /\ sp' = sp /\ instant' = instant
    BY <1>2 DEF AskFor, tz_mktime
  <2> QED BY <2>1 DEF ReadInv, KeptInv
<1>3. CASE MktimeStep
  <2>1. /\ pc \in {"time2sub", "search", "compare", "label", "time2"}
        /\ sp' = sp /\ instant' = instant
    BY <1>3 DEF MktimeStep, time2sub, Probe, Narrow, NotFound, Match, Hunt, label, time2, time1, Return
  <2> QED BY <2>1 DEF KeptInv
<1>4. CASE UNCHANGED vars
  BY <1>4 DEF KeptInv, vars
<1> QED BY <1>1, <1>2, <1>3, <1>4 DEF Next

(* The invariants of the search together.                                  *)
FoundInv == ReadInv /\ KeptInv /\ SearchInv /\ MktimeInv /\ RunInv /\ SureInv

(***************************************************************************)
(* They hold at first.                                                     *)
(***************************************************************************)
LEMMA FoundStarts ==
  ASSUME Init
  PROVE  FoundInv
BY DEF Init, FoundInv, ReadInv, KeptInv, SearchInv, MktimeInv, RunInv, SureInv

(***************************************************************************)
(* Every step keeps them.                                                  *)
(***************************************************************************)
LEMMA FoundStays ==
  ASSUME FoundInv, [Next]_vars
  PROVE  FoundInv'
BY ReadStays, KeptStays, SearchStays, MktimeStays, RunStays, SureStays DEF FoundInv

(***************************************************************************)
(* tz_mktime finds an instant if there is one (ExistingTimeFound): of the  *)
(* date and time, and of the kind tm_isdst asks for, although the clock    *)
(* the binary search relies on goes back in autumn. It holds for every     *)
(* such request that the clock does not pass over, in every zone whose     *)
(* leap seconds are at the ends of minutes.                                *)
(***************************************************************************)
THEOREM ExistingIsFound == Spec => [](Unskipped => ExistingTimeFound)
<1>1. FoundInv => (Unskipped => ExistingTimeFound)
  <2> SUFFICES ASSUME FoundInv, Unskipped, pc = "done", Wanted(sp, asked) # {}
               PROVE  okay
    BY DEF ExistingTimeFound
  <2>1. Sure
    BY DEF Sure, Unskipped
  <2> QED BY <2>1 DEF FoundInv, SureInv
<1> QED BY <1>1, FoundStarts, FoundStays, PTL DEF Spec

(***************************************************************************)
(* It does not have to guess for that.                                     *)
(***************************************************************************)
LEMMA SureIsUnguessed ==
  ASSUME FoundInv, Unskipped, pc = "done", asked.isdst < 0 \/ Wanted(sp, asked) # {}
  PROVE  Unguessed
<1>1. Sure
  BY DEF Sure, Unskipped
<1> QED BY <1>1 DEF FoundInv, SureInv, Unguessed

(***************************************************************************)
(* And what it finds then is right (FoundIsRight), without a word about    *)
(* how time1 and time2 come to it.                                         *)
(***************************************************************************)
THEOREM UnskippedIsRight == Spec => [](Unskipped => FoundIsRight)
<1>1. FoundInv => (Unskipped => FoundIsRight)
  <2> SUFFICES ASSUME FoundInv, Unskipped, pc = "done", asked.isdst < 0 \/ Wanted(sp, asked) # {}
               PROVE  FoundIsRight
    BY Zenon DEF FoundIsRight
  <2> QED BY SureIsUnguessed, FoundFollows DEF FoundInv
<1> QED BY <1>1, FoundStarts, FoundStays, PTL DEF Spec

(***************************************************************************)
(* A reading of the clock that is converted back is in normal form, and    *)
(* the instant it was read at is one of those wanted.                      *)
(***************************************************************************)
LEMMA ReadingIsWanted ==
  ASSUME NEW z, IsZone(z), SoundLeaps(z), NEW x \in Int, localsub(z, x, ZeroTm).ok,
         NEW b \in StructTm, Civil(b) = Civil(localsub(z, x, ZeroTm).tm), InMinute(b),
         b.isdst \in {-1, localsub(z, x, ZeroTm).tm.isdst}
  PROVE  IsNormal(b) /\ x \in Wanted(z, b)
<1> DEFINE a == localsub(z, x, ZeroTm).tm
<1>1. PICK i \in 1 .. Len(z.ttis) :
        /\ a.isdst = z.ttis[i].isdst
        /\ Counted(a, x + z.ttis[i].gmtoff - Correction(z, x), Hits(z, x))
  BY LocalsubRight
<1>2. a.isdst \in {0, 1} /\ z.ttis[i].gmtoff \in Int
  BY <1>1 DEF IsZone
<1> DEFINE y == x + z.ttis[i].gmtoff - Correction(z, x)
           hit == Hits(z, x)
<1>3. LeapsCounted(z, x)
  BY LeapsAreCounted
<1>4. y \in Int /\ hit \in Int
  BY <1>2, <1>3 DEF LeapsCounted
<1>5. Counted(a, y, hit)
  BY <1>1
<1> HIDE DEF a, y, hit
<1>6. /\ a \in StructTm /\ LocalSeconds(a) = y + hit
      /\ a.mon \in 0 .. 11 /\ a.mday \in 1 .. mon_lengths(a.year + TM_YEAR_BASE)[a.mon + 1]
      /\ a.hour \in 0 .. HOURSPERDAY - 1 /\ a.min \in 0 .. MINSPERHOUR - 1
  BY <1>5 DEF Counted
<1>7. Civil(b) = Civil(a)
  BY DEF a
<1>8. LocalSeconds(b) = LocalSeconds(a)
  BY <1>6, <1>7, SameReading
<1>9. /\ b.year = a.year /\ b.mon = a.mon /\ b.mday = a.mday /\ b.hour = a.hour /\ b.min = a.min
  BY <1>7 DEF Civil
<1>10. IsNormal(b)
  BY <1>6, <1>9 DEF IsNormal
<1>11. LocalSeconds(b) \in Int
  BY <1>4, <1>6, <1>8
<1>12. Reads(z, x, b)
  BY <1>8 DEF Reads, a
<1>13. x \in InstantsOf(z, b)
  BY <1>11, <1>12, ReadsInstant
<1>14. b.isdst < 0 \/ IsDst(z, x) = (IF b.isdst > 0 THEN 1 ELSE b.isdst)
  <2>1. IsDst(z, x) = a.isdst /\ b.isdst \in {-1, a.isdst}
    BY DEF IsDst, a
  <2> QED BY <1>2, <2>1
<1> QED BY <1>10, <1>13, <1>14 DEF Wanted

(***************************************************************************)
(* So it comes back.                                                       *)
(***************************************************************************)
LEMMA UnskippedComesBack ==
  ASSUME FoundInv, Unskipped
  PROVE  RoundTrip
<1> DEFINE read == localsub(sp, instant, ZeroTm).tm
<1> SUFFICES ASSUME pc = "done",
                    Civil(asked) = Civil(read), asked.isdst \in {-1, read.isdst}
             PROVE  okay /\ Civil(tm) = Civil(asked)
  BY DEF RoundTrip
<1>1. sp \in Zones /\ instant \in Instants /\ localsub(sp, instant, ZeroTm).ok /\ asked \in StructTm
  BY DEF FoundInv, KeptInv, MktimeInv
<1>2. IsZone(sp) /\ SoundLeaps(sp) /\ instant \in Int
  BY <1>1, SearchAssumption, SoundLeapsAssumption DEF TIME_T_MIN
<1>3. InMinute(asked) /\ Normalized(asked, TRUE).ok
  BY DEF Unskipped
<1>4. IsNormal(asked) /\ instant \in Wanted(sp, asked)
  BY <1>1, <1>2, <1>3, ReadingIsWanted
<1>5. Sure
  BY <1>4 DEF Sure, Unskipped
<1>6. okay /\ Civil(tm) = Civil(Normalized(asked, TRUE).tm)
  BY <1>5 DEF FoundInv, SureInv
<1>7. Civil(Normalized(asked, TRUE).tm) = Civil(asked)
  BY <1>1, <1>3, <1>4, NormalStays
<1> QED BY <1>6, <1>7

(***************************************************************************)
(* What the client reads it can convert back (RoundTrip), with its own     *)
(* tm_isdst or none: whenever the seconds are in the minute, the clock     *)
(* does not pass over that time, and with tm_isdst given the zone has no   *)
(* leap seconds.                                                           *)
(***************************************************************************)
THEOREM ReadingsComeBack == Spec => [](Unskipped => RoundTrip)
<1>1. FoundInv => (Unskipped => RoundTrip)
  BY UnskippedComesBack
<1> QED BY <1>1, FoundStarts, FoundStays, PTL DEF Spec

(***************************************************************************)
(* The transitions are in order.                                           *)
(***************************************************************************)
LEMMA AtsInOrder ==
  ASSUME NEW z, IsZone(z)
  PROVE  /\ Len(z.ats) \in Nat /\ \A i \in 1 .. Len(z.ats) : z.ats[i] \in Int
         /\ \A i, j \in 1 .. Len(z.ats) : i < j => z.ats[i] < z.ats[j]
<1> DEFINE n == Len(z.ats)
           v == z.ats
<1>1. n \in Nat /\ (\A k \in 1 .. n : v[k] \in Int) /\ \A k \in 1 .. n - 1 : v[k] < v[k + 1]
  BY DEF IsZone, Sorted
<1>2. \A i, j \in 1 .. n : i < j => v[i] < v[j]
  <2> HIDE DEF v, n
  <2> QED BY <1>1, Ascending
<1> QED BY <1>1, <1>2

(***************************************************************************)
(* Cycles more, less, and the other way.                                   *)
(***************************************************************************)
LEMMA Multiples ==
  ASSUME NEW R \in Nat, NEW d \in Int
  PROVE  /\ d * R \in Int /\ (-d) * R = -(d * R)
         /\ (d + 1) * R = d * R + R /\ (d - 1) * R = d * R - R
         /\ d >= 1 => d * R >= R
<1> DEFINE m == -1
           n == -d
           e == d - 1
           k == 1
           a == d * R
<1>1. m \in Int /\ n \in Int /\ e \in Int /\ R \in Int /\ k \in Int /\ d + m = e /\ d + n = 0
  OBVIOUS
<1>2. R * m = -R /\ R * k = R /\ R * 0 = 0
  BY <1>1
<1> HIDE DEF m, n, e, k
<1>3. /\ R * (d + m) = R * d + R * m /\ R * (d + n) = R * d + R * n /\ R * (d + k) = R * d + R * k
      /\ R * d = d * R /\ R * n = n * R /\ R * e = e * R /\ d * R \in Int /\ n * R \in Int /\ e * R \in Int
  BY <1>1, Products
<1> DEFINE p == n * R
           q == e * R
           u == (d + k) * R
<1>4. u = R * (d + k)
  <2>1. d + k \in Int
    BY <1>1
  <2> DEFINE w == d + k
  <2> HIDE DEF w
  <2> QED BY <1>1, <2>1, Products DEF w
<1>5. a + p = 0 /\ q = a - R /\ u = a + R /\ a \in Int /\ p \in Int
  <2>1. a + p = 0
    BY <1>1, <1>2, <1>3
  <2>2. q = a + (-R)
    BY <1>1, <1>2, <1>3
  <2>3. u = a + R
    BY <1>2, <1>3, <1>4
  <2>4. a \in Int /\ p \in Int
    BY <1>3
  <2> HIDE DEF a, p, q, u
  <2> QED BY <1>1, <2>1, <2>2, <2>3, <2>4
<1>6. d >= 1 => q >= 0
  <2>1. d >= 1 => e = 0 \/ e > 0
    BY <1>1 DEF e
  <2>2. e = 0 => q = 0
    BY <1>1
  <2>3. e > 0 => q >= 0
    <3>1. R = 0 \/ R > 0
      BY <1>1
    <3>2. R = 0 => q = 0
      BY <1>1
    <3>3. e > 0 /\ R > 0 => q > 0
      BY <1>1, Products
    <3> QED BY <1>3, <3>1, <3>2, <3>3
  <2> QED BY <2>1, <2>2, <2>3
<1>7. p = -a /\ q = a - R /\ u = a + R /\ (d >= 1 => a >= R)
  <2> HIDE DEF a, p, q, u
  <2> QED BY <1>1, <1>5, <1>6
<1> QED
  <2>1. (-d) * R = -(d * R)
    BY <1>7 DEF n
  <2>2. (d - 1) * R = d * R - R
    BY <1>7 DEF e
  <2>3. (d + 1) * R = d * R + R
    BY <1>7 DEF k
  <2>4. d >= 1 => d * R >= R
    BY <1>7
  <2>5. d * R \in Int
    BY <1>5
  <2> QED BY <2>1, <2>2, <2>3, <2>4, <2>5

(***************************************************************************)
(* An instant that was refused is one that localsub has no answer for.     *)
(***************************************************************************)
RefusedInv ==
  pc = "failed" => sp \in Zones /\ instant \in Instants /\ ~localsub(sp, instant, ZeroTm).ok

(***************************************************************************)
(* Every step keeps it.                                                    *)
(***************************************************************************)
LEMMA RefusedStays ==
  ASSUME RefusedInv, [Next]_vars
  PROVE  RefusedInv'
<1>1. CASE Ask
  BY <1>1 DEF Ask, tz_localtime_r, RefusedInv
<1>2. CASE AskFor \/ NextQuestion \/ MktimeStep
  BY <1>2 DEF RefusedInv, AskFor, tz_mktime, NextQuestion, MktimeStep, time2sub, Probe, Narrow, Match, Hunt,
              NotFound, label, time2, time1, Return
<1>3. CASE UNCHANGED vars
  BY <1>3 DEF RefusedInv, vars, search_vars
<1> QED BY <1>1, <1>2, <1>3 DEF Next

(***************************************************************************)
(* An instant that is refused has a year that is at the ends of int or     *)
(* beyond (RefusedIsExtreme): no step of timesub, neither an estimate nor a*)
(* year or a month counted, overflows for any other, nor does the year that*)
(* localsub takes back from a cycle, in every zone whose offsets are       *)
(* shorter than a year. So "cannot happen" does not (libtz.c:1262).        *)
(***************************************************************************)
THEOREM OnlyExtremesAreRefused ==
  ASSUME WideInts
  PROVE  Spec => [](Modest(sp) => RefusedIsExtreme)
<1>1. Init => RefusedInv
  BY DEF Init, RefusedInv
<1>2. RefusedInv => (Modest(sp) => RefusedIsExtreme)
  <2> SUFFICES ASSUME RefusedInv, Modest(sp), pc = "failed" PROVE RefusedIsExtreme
    BY DEF RefusedIsExtreme
  <2> DEFINE y == YearAbout(instant)
  <2>1. sp \in Zones /\ instant \in Instants /\ ~localsub(sp, instant, ZeroTm).ok
    BY DEF RefusedInv
  <2>2. IsZone(sp) /\ SoundLeaps(sp) /\ instant \in Int
    BY <2>1, SearchAssumption, SoundLeapsAssumption DEF TIME_T_MIN
  <2>3. ~InnerYear(y)
    BY <2>1, <2>2, InnerIsModerate, LocalsubAnswers
  <2> QED BY <2>3 DEF RefusedIsExtreme
<1> QED BY <1>1, <1>2, RefusedStays, PTL DEF Spec

(* The offset that localsub adds to x.                                     *)
Gmtoff(z, x) == z.ttis[TypeAt(z, x + Cycles(z, x) * SECSPERREPEAT)].gmtoff

(* No two offsets are further apart than k.                                *)
Lag(z, k) == k \in Nat /\ \E i, j \in 1 .. Len(z.ttis) : k <= z.ttis[i].gmtoff - z.ttis[j].gmtoff

(***************************************************************************)
(* When the offset changes, it is the same for as long before and after    *)
(* the change as two offsets of the zone are apart.                        *)
(***************************************************************************)
Settled(z) ==
  \A x \in Int : Gmtoff(z, x) # Gmtoff(z, x + 1) =>
    \A k \in Nat : Lag(z, k) => Gmtoff(z, x - k) = Gmtoff(z, x) /\ Gmtoff(z, x + 1 + k) = Gmtoff(z, x + 1)

(***************************************************************************)
(* It is the offset of a type.                                             *)
(***************************************************************************)
LEMMA GmtoffInZone ==
  ASSUME NEW z, IsZone(z), NEW x \in Int
  PROVE  Gmtoff(z, x) \in Int /\ \E i \in 1 .. Len(z.ttis) : Gmtoff(z, x) = z.ttis[i].gmtoff
<1> DEFINE c == Cycles(z, x)
           y == x + c * SECSPERREPEAT
<1>1. c \in Int
  BY CyclesKnown
<1> HIDE DEF c
<1>2. c * SECSPERREPEAT \in Int
  BY <1>1, Units, Products
<1>3. y \in Int
  BY <1>2
<1> HIDE DEF y
<1>4. TypeAt(z, y) \in 1 .. Len(z.ttis)
  BY <1>3, TypeInZone
<1> DEFINE i == TypeAt(z, y)
<1>5. Gmtoff(z, x) = z.ttis[i].gmtoff
  BY DEF Gmtoff, y, c
<1>6. i \in 1 .. Len(z.ttis)
  BY <1>4
<1> HIDE DEF i
<1>7. z.ttis[i].gmtoff \in Int
  BY <1>6 DEF IsZone
<1> QED BY <1>5, <1>6, <1>7

(***************************************************************************)
(* What the clock shows stands for the instant plus that offset.           *)
(***************************************************************************)
LEMMA ShownByGmtoff ==
  ASSUME NEW z, IsZone(z), SoundLeaps(z), z.lsis = <<>>, NEW x \in Int, localsub(z, x, ZeroTm).ok
  PROVE  LET a == localsub(z, x, ZeroTm).tm
         IN  a \in StructTm /\ IsNormal(a) /\ LocalSeconds(a) = x + Gmtoff(z, x)
<1>1. PICK i \in 1 .. Len(z.ttis) :
           /\ localsub(z, x, ZeroTm).tm \in StructTm /\ IsNormal(localsub(z, x, ZeroTm).tm)
           /\ LocalSeconds(localsub(z, x, ZeroTm).tm) = x + z.ttis[i].gmtoff
           /\ i = TypeAt(z, x + Cycles(z, x) * SECSPERREPEAT)
  BY LocalsubNormal
<1> QED BY <1>1, Zenon DEF Gmtoff

(***************************************************************************)
(* The seconds of a year that is neither the first nor the last, and of    *)
(* a year before and after.                                                *)
(***************************************************************************)
LEMMA InnerSeconds ==
  ASSUME WideInts, NEW b \in StructTm, IsNormal(b), InnerYear(b.year + TM_YEAR_BASE)
  PROVE  LET l == SECSPERDAY * YearStart(INT_MIN + TM_YEAR_BASE + 1)
             h == SECSPERDAY * YearStart(INT_MAX)
             v == LocalSeconds(b)
             n == SECSPERDAY * DAYSPERNYEAR
         IN  l \in Int /\ h \in Int /\ v \in Int /\ n \in Nat /\ l + n <= v /\ v + n < h
<1> DEFINE S == SECSPERDAY
           F == FIRST_YEAR + 1
           F2 == FIRST_YEAR + 2
           M == INT_MAX
           M1 == INT_MAX - 1
           y == b.year + TM_YEAR_BASE
           y1 == y + 1
           D == Days(b)
           v == LocalSeconds(b)
<1>1. S \in Nat \ {0} /\ F \in Int /\ F2 \in Int /\ F < F2 /\ M \in Int /\ M1 \in Int /\ M1 < M
  BY Units, YearsOfInts
<1>2. y \in Int /\ y1 \in Int /\ D \in Int /\ YearStart(y) <= D /\ D < YearStart(y1)
      /\ \E sod \in 0 .. S - 1 : v = S * D + sod
  <2> DEFINE w == b.year + TM_YEAR_BASE
  <2> HIDE DEF w
  <2>1. w \in Int /\ D \in Int /\ YearStart(w) <= D /\ D < YearStart(w + 1)
        /\ \E sod \in 0 .. S - 1 : v = S * D + sod
    BY NormalSecond DEF w
  <2> HIDE DEF D, v, S
  <2> QED BY <2>1 DEF w
<1>3. F2 <= y /\ y1 <= M1
  <2>1. INT_MIN + TM_YEAR_BASE + 2 <= y /\ y <= INT_MAX - 2
    BY DEF InnerYear
  <2>2. FIRST_YEAR = INT_MIN + TM_YEAR_BASE
    BY DEF FIRST_YEAR
  <2> HIDE DEF y
  <2> QED BY <1>2, <2>1, <2>2, YearsOfInts DEF TM_YEAR_BASE
<1> HIDE DEF S, F, F2, M, M1, y, y1, D, v
<1>4. YearStart(F) + 365 <= YearStart(F2) /\ YearStart(M1) + 365 <= YearStart(M)
      /\ YearStart(F) \in Int /\ YearStart(F2) \in Int /\ YearStart(M) \in Int /\ YearStart(M1) \in Int
  BY <1>1, YearsInOrder
<1>5. YearStart(F2) <= YearStart(y) /\ YearStart(y1) <= YearStart(M1) /\ YearStart(y) \in Int /\ YearStart(y1) \in Int
  BY <1>1, <1>2, <1>3, YearByStart
<1>6. YearStart(F) + 365 <= D /\ D + 366 <= YearStart(M)
  BY <1>2, <1>4, <1>5
<1>7. S \in Nat /\ YearStart(F) + 365 \in Int /\ D + 366 \in Int
  BY <1>1, <1>2, <1>4
<1>8. S * (YearStart(F) + 365) <= S * D /\ S * (D + 366) <= S * YearStart(M)
  <2> DEFINE a == YearStart(F) + 365
             c == D + 366
             e == YearStart(M)
  <2>1. a \in Int /\ c \in Int /\ e \in Int /\ a <= D /\ c <= e
    BY <1>4, <1>6, <1>7
  <2> HIDE DEF a, c, e
  <2>2. S * a <= S * D
    BY <1>2, <1>7, <2>1, ProductOrder
  <2>3. S * c <= S * e
    BY <1>7, <2>1, ProductOrder
  <2> QED BY <2>2, <2>3 DEF a, c, e
<1>9. /\ S * (YearStart(F) + 365) = S * YearStart(F) + S * 365 /\ S * (D + 366) = S * D + S * 366
      /\ S * 366 = S * 365 + S * 1 /\ S * 1 = S
      /\ S * YearStart(F) \in Int /\ S * 365 \in Int /\ S * D \in Int /\ S * 366 \in Int
      /\ S * YearStart(M) \in Int
  <2>1. S \in Int
    BY <1>7
  <2>2. S * (365 + 1) = S * 365 + S * 1 /\ 365 + 1 = 366 /\ S * 1 = S
    BY <2>1
  <2>3. S * YearStart(F) \in Int /\ S * D \in Int /\ S * YearStart(M) \in Int
        /\ S * (YearStart(F) + 365) = S * YearStart(F) + S * 365
        /\ S * (D + 366) = S * D + S * 366
    BY <1>2, <1>4, <2>1, Products
  <2> QED BY <2>1, <2>2, <2>3
<1>10. PICK sod \in 0 .. S - 1 : v = S * D + sod
  BY <1>2
<1> DEFINE l == S * YearStart(F)
           h == S * YearStart(M)
           d == S * D
           n == S * 365
<1>11. l \in Int /\ h \in Int /\ d \in Int /\ n \in Int /\ l + n <= d /\ d + (n + S) <= h /\ v = d + sod
       /\ n = S * 365
  <2> DEFINE q == S * 366
             g == S * (YearStart(F) + 365)
             k == S * (D + 366)
  <2>1. g <= d /\ k <= h /\ g = l + n /\ k = d + q /\ q = n + S
    BY <1>8, <1>9
  <2>2. l \in Int /\ h \in Int /\ d \in Int /\ n \in Int
    BY <1>9
  <2>3. v = d + sod
    BY <1>10
  <2> HIDE DEF q, g, k, l, h, d
  <2> QED BY <2>1, <2>2, <2>3
<1>12. n \in Nat
  BY <1>7
<1> HIDE DEF l, h, d, n
<1>13. l + n <= v /\ v + n < h /\ v \in Int
  BY <1>1, <1>10, <1>11, <1>12
<1>14. l = SECSPERDAY * YearStart(INT_MIN + TM_YEAR_BASE + 1) /\ h = SECSPERDAY * YearStart(INT_MAX)
       /\ v = LocalSeconds(b) /\ n = SECSPERDAY * DAYSPERNYEAR
  BY DEF l, h, v, n, S, F, M, FIRST_YEAR, DAYSPERNYEAR
<1> QED BY <1>11, <1>12, <1>13, <1>14

(***************************************************************************)
(* A time_t holds every instant that is moderate.                          *)
(***************************************************************************)
LEMMA ModerateIsTimeT ==
  ASSUME WideInts
  PROVE  LET l == SECSPERDAY * YearStart(INT_MIN + TM_YEAR_BASE + 1)
             h == SECSPERDAY * YearStart(INT_MAX)
         IN  /\ TIME_T_MIN \in Int /\ TIME_T_MAX \in Int /\ l \in Int /\ h \in Int
             /\ TIME_T_MIN <= l /\ l <= 0 /\ 0 < h /\ h <= TIME_T_MAX
<1> DEFINE S == SECSPERDAY
           a == YearStart(FIRST_YEAR + 1)
           c == YearStart(INT_MAX)
           W == (INT_MAX + TM_YEAR_BASE) * DAYSPERLYEAR
           m == -W
<1>1. S \in Nat \ {0} /\ a \in Int /\ c \in Int /\ a < 0 /\ 0 < c
  BY Units, YearsOfInts
<1>2. W \in Nat /\ W = (INT_MAX + 1900) * 366 /\ m \in Int /\ 0 \in Int
  BY YearsOfInts DEF TM_YEAR_BASE, DAYSPERLYEAR
<1>3. W * S <= TIME_T_MAX /\ TIME_T_MAX \in Nat /\ TIME_T_MIN = -TIME_T_MAX - 1
  BY SearchAssumption DEF TIME_T_MIN
<1>4. m <= a /\ c <= W
  <2>1. 400 * a >= 146097 * (FIRST_YEAR + 1 - 1970) - 600 /\ FIRST_YEAR = 1900 - INT_MAX - 1
        /\ 400 * c <= 146097 * (INT_MAX - 1970) + 600 /\ INT_MAX \in Nat
    BY YearsOfInts
  <2> HIDE DEF a, c
  <2> QED BY <1>1, <1>2, <2>1, SMT
<1> HIDE DEF S, a, c, W
<1>5. S * m <= S * a /\ S * m \in Int /\ S * a \in Int
  <2> HIDE DEF m
  <2> QED BY <1>1, <1>2, <1>4, ProductOrder
<1>6. S * c <= S * W /\ S * c \in Int /\ S * W \in Int
  BY <1>1, <1>2, <1>4, ProductOrder
<1>7. S * m = -(S * W) /\ S * W = W * S
  <2>1. S \in Int /\ W \in Int
    BY <1>1, <1>2
  <2>2. S * (W + m) = S * W + S * m /\ S * W = W * S
    <3> HIDE DEF m
    <3> QED BY <1>2, <2>1, Products
  <2>3. W + m = 0 /\ S * 0 = 0
    BY <2>1
  <2> DEFINE p == S * m
             q == S * W
  <2>4. q + p = 0
    <3>1. S * (W + m) = 0
      BY <2>3
    <3> QED BY <2>2, <3>1
  <2>5. p \in Int /\ q \in Int
    BY <1>5, <1>6
  <2> HIDE DEF p, q
  <2>6. p = -q
    BY <2>4, <2>5
  <2> QED BY <2>2, <2>6 DEF p, q
<1>8. S * a <= 0 /\ 0 < S * c
  <2> DEFINE z0 == 0
  <2>1. z0 \in Int /\ a <= z0
    BY <1>1
  <2>2. S * z0 = 0
    BY <1>1
  <2> HIDE DEF z0
  <2>3. S * a <= S * z0
    BY <1>1, <2>1, ProductOrder
  <2>4. S * c > 0
    BY <1>1, Products
  <2> QED BY <2>2, <2>3, <2>4
<1> DEFINE l == S * a
           h == S * c
           w == S * W
<1>9. TIME_T_MIN \in Int /\ TIME_T_MAX \in Int /\ l \in Int /\ h \in Int
      /\ TIME_T_MIN <= l /\ l <= 0 /\ 0 < h /\ h <= TIME_T_MAX
  <2>1. -w <= l /\ h <= w /\ w <= TIME_T_MAX /\ l \in Int /\ h \in Int /\ w \in Int /\ l <= 0 /\ 0 < h
    <3>1. S * m <= l /\ S * m = -w /\ w = W * S
      BY <1>5, <1>7
    <3>2. -w <= l
      BY <3>1
    <3>3. w <= TIME_T_MAX
      BY <1>3, <3>1
    <3> QED BY <1>5, <1>6, <1>8, <3>2, <3>3
  <2> HIDE DEF l, h, w
  <2> QED BY <1>3, <2>1
<1>10. l = SECSPERDAY * YearStart(INT_MIN + TM_YEAR_BASE + 1) /\ h = SECSPERDAY * YearStart(INT_MAX)
  BY DEF l, h, S, a, c, FIRST_YEAR
<1> QED BY <1>9, <1>10

(***************************************************************************)
(* Offsets are shorter than a year, leap seconds or not.                   *)
(***************************************************************************)
LEMMA ModestOffset ==
  ASSUME NEW z, IsZone(z), Modest(z), NEW x \in Int
  PROVE  /\ Gmtoff(z, x) \in Int
         /\ -(SECSPERDAY * DAYSPERNYEAR) <= Gmtoff(z, x) /\ Gmtoff(z, x) <= SECSPERDAY * DAYSPERNYEAR
<1>1. PICK i \in 1 .. Len(z.ttis) : Gmtoff(z, x) = z.ttis[i].gmtoff
  BY GmtoffInZone
<1>2. z.ttis[i].gmtoff \in Int
  BY DEF IsZone
<1>3. 0 \in Corrections(z)
  BY DEF Corrections
<1>4. -(SECSPERDAY * DAYSPERNYEAR) <= z.ttis[i].gmtoff - 0 /\ z.ttis[i].gmtoff - 0 <= SECSPERDAY * DAYSPERNYEAR
  BY <1>3 DEF Modest
<1> QED BY <1>1, <1>2, <1>4

(***************************************************************************)
(* At an instant that is too early for a year that is neither the first    *)
(* nor the last, the clock, moved on to that instant, is before it; at one *)
(* that is too late, after it.                                             *)
(***************************************************************************)
LEMMA EarlyIsBefore ==
  ASSUME WideInts, NEW z, IsZone(z), SoundLeaps(z), z.lsis = <<>>, Modest(z),
         NEW b \in StructTm, IsNormal(b), InnerYear(b.year + TM_YEAR_BASE), NEW x \in Int
  PROVE  /\ TooEarly(z, x, b) => x + Gmtoff(z, x) < LocalSeconds(b)
         /\ TooLate(z, x, b) => x + Gmtoff(z, x) > LocalSeconds(b)
         /\ LocalSeconds(b) \in Int /\ Gmtoff(z, x) \in Int
<1> DEFINE l == SECSPERDAY * YearStart(INT_MIN + TM_YEAR_BASE + 1)
           h == SECSPERDAY * YearStart(INT_MAX)
           n == SECSPERDAY * DAYSPERNYEAR
           v == LocalSeconds(b)
           g == Gmtoff(z, x)
           sub == localsub(z, x, ZeroTm)
<1>1. l \in Int /\ h \in Int /\ v \in Int /\ n \in Nat /\ l + n <= v /\ v + n < h
  BY InnerSeconds
<1>2. TIME_T_MIN \in Int /\ TIME_T_MAX \in Int /\ TIME_T_MIN <= l /\ l <= 0 /\ 0 < h /\ h <= TIME_T_MAX
  BY ModerateIsTimeT
<1>3. g \in Int /\ -n <= g /\ g <= n
  BY ModestOffset
<1>4. ~sub.ok => x < l \/ h <= x
  <2>1. ~sub.ok => ~Moderate(x)
    BY LocalsubAnswers
  <2> QED BY <1>1, <2>1 DEF Moderate
<1>5. ASSUME sub.ok
      PROVE  (Side(z, x, b) < 0 => x + g < v) /\ (Side(z, x, b) > 0 => x + g > v)
  <2> DEFINE a == sub.tm
             u == LocalSeconds(a)
             s == tmcomp(a, b)
  <2>1. a \in StructTm /\ IsNormal(a) /\ u = x + g
    BY <1>5, ShownByGmtoff
  <2>2. Side(z, x, b) = s
    BY <1>5 DEF Side
  <2> HIDE DEF a
  <2>3. (s < 0 <=> u < v) /\ (s = 0 <=> u = v) /\ u \in Int
    BY <2>1, ComparedRight
  <2>4. s \in Int
    BY <2>1, ComparedIsNumber
  <2> HIDE DEF u, s, v, g
  <2> QED BY <1>1, <1>3, <2>1, <2>2, <2>3, <2>4
<1>6. ~sub.ok => Side(z, x, b) = (IF x > 0 THEN 1 ELSE -1)
  BY DEF Side
<1>7. TooEarly(z, x, b) => x < TIME_T_MIN \/ Side(z, x, b) < 0
  BY DEF TooEarly
<1>8. TooLate(z, x, b) => x > TIME_T_MAX \/ Side(z, x, b) > 0
  BY DEF TooLate
<1> HIDE DEF l, h, n, v, g, sub
<1>9. x < l => x + g < v
  BY <1>1, <1>3
<1>10. h <= x => x + g > v
  BY <1>1, <1>3
<1>11. TooEarly(z, x, b) => x + g < v
  <2> SUFFICES ASSUME TooEarly(z, x, b) PROVE x + g < v
    OBVIOUS
  <2>1. CASE x < TIME_T_MIN
    <3>1. x < l
      BY <1>1, <1>2, <2>1
    <3> QED BY <1>9, <3>1
  <2>2. CASE Side(z, x, b) < 0 /\ sub.ok
    BY <1>5, <2>2
  <2>3. CASE Side(z, x, b) < 0 /\ ~sub.ok
    <3>1. ~(x > 0)
      BY <1>6, <2>3
    <3>2. x < l \/ h <= x
      BY <1>4, <2>3
    <3>3. ~(h <= x)
      BY <1>1, <1>2, <3>1
    <3> QED BY <1>9, <3>2, <3>3
  <2> QED BY <1>7, <2>1, <2>2, <2>3
<1>12. TooLate(z, x, b) => x + g > v
  <2> SUFFICES ASSUME TooLate(z, x, b) PROVE x + g > v
    OBVIOUS
  <2>1. CASE x > TIME_T_MAX
    <3>1. h <= x
      BY <1>1, <1>2, <2>1
    <3> QED BY <1>10, <3>1
  <2>2. CASE Side(z, x, b) > 0 /\ sub.ok
    BY <1>5, <2>2
  <2>3. CASE Side(z, x, b) > 0 /\ ~sub.ok
    <3>1. x > 0
      BY <1>6, <2>3
    <3>2. x < l \/ h <= x
      BY <1>4, <2>3
    <3>3. ~(x < l)
      BY <1>1, <1>2, <3>1
    <3> QED BY <1>10, <3>2, <3>3
  <2> QED BY <1>8, <2>1, <2>2, <2>3
<1> QED BY <1>1, <1>3, <1>11, <1>12 DEF v, g

(***************************************************************************)
(* A clock whose offset is settled passes over no date and time that it    *)
(* shows at some instant.                                                  *)
(***************************************************************************)
LEMMA ShownIsNotSkipped ==
  ASSUME WideInts, NEW z, IsZone(z), SoundLeaps(z), z.lsis = <<>>, Modest(z), Settled(z),
         NEW b \in StructTm, IsNormal(b), InnerYear(b.year + TM_YEAR_BASE), NEW w \in Int, Reads(z, w, b)
  PROVE  ~Skips(z, b)
<1> DEFINE G(x) == Gmtoff(z, x)
           v == LocalSeconds(b)
<1>1. SUFFICES ASSUME NEW x \in TIME_T_MIN - 1 .. TIME_T_MAX, TooEarly(z, x, b), TooLate(z, x + 1, b)
               PROVE  FALSE
  BY DEF Skips
<1>2. x \in Int /\ x + 1 \in Int
  BY ModerateIsTimeT
<1>3. x + G(x) < v /\ v \in Int /\ G(x) \in Int
  BY <1>1, <1>2, EarlyIsBefore
<1>4. x + 1 + G(x + 1) > v /\ G(x + 1) \in Int
  <2> DEFINE y == x + 1
  <2>1. y \in Int /\ TooLate(z, y, b)
    BY <1>1, <1>2
  <2> HIDE DEF y
  <2>2. y + G(y) > v /\ G(y) \in Int
    BY <2>1, EarlyIsBefore
  <2> QED BY <2>2 DEF y
<1>5. w + G(w) = v /\ G(w) \in Int
  <2>1. localsub(z, w, ZeroTm).ok /\ LocalSeconds(localsub(z, w, ZeroTm).tm) = v
    BY DEF Reads
  <2>2. LocalSeconds(localsub(z, w, ZeroTm).tm) = w + G(w)
    BY <2>1, ShownByGmtoff
  <2>3. G(w) \in Int
    BY GmtoffInZone
  <2> QED BY <2>1, <2>2, <2>3
<1>6. \A y \in Int : \E i \in 1 .. Len(z.ttis) : G(y) = z.ttis[i].gmtoff
  BY GmtoffInZone
<1>7. \A y, u \in Int : \A k \in Nat : k <= G(y) - G(u) => Lag(z, k)
  <2> TAKE y, u \in Int
  <2> TAKE k \in Nat
  <2>1. PICK i \in 1 .. Len(z.ttis) : G(y) = z.ttis[i].gmtoff
    BY <1>6
  <2>2. PICK j \in 1 .. Len(z.ttis) : G(u) = z.ttis[j].gmtoff
    BY <1>6
  <2> QED BY <2>1, <2>2 DEF Lag
<1>8. G(x) # G(x + 1)
  <2> DEFINE p == G(x)
             q == G(x + 1)
  <2> HIDE DEF p, q, v
  <2>1. x + p < v /\ x + 1 + q > v /\ p \in Int /\ q \in Int /\ v \in Int
    BY <1>3, <1>4 DEF p, q
  <2>2. p # q
    BY <1>2, <2>1
  <2> QED BY <2>2 DEF p, q
<1>9. \A k \in Nat : Lag(z, k) => G(x - k) = G(x) /\ G(x + 1 + k) = G(x + 1)
  BY <1>2, <1>8 DEF Settled
<1> HIDE DEF G, v
<1>10. CASE w <= x
  <2> DEFINE k == x - w
  <2>1. k \in Nat /\ x - k = w /\ k <= G(w) - G(x)
    BY <1>2, <1>3, <1>5, <1>10
  <2> HIDE DEF k
  <2>2. G(x - k) = G(x)
    BY <1>2, <1>7, <1>9, <2>1
  <2>3. G(w) = G(x)
    BY <2>1, <2>2
  <2> QED BY <1>2, <1>3, <1>5, <1>10, <2>3
<1>11. CASE w > x
  <2> DEFINE k == w - (x + 1)
             y == x + 1
  <2>1. k \in Nat /\ x + 1 + k = w /\ k <= G(y) - G(w) /\ y \in Int
    BY <1>2, <1>4, <1>5, <1>11
  <2> HIDE DEF k
  <2>2. G(x + 1 + k) = G(x + 1)
    <3>1. Lag(z, k)
      <4> HIDE DEF y
      <4> QED BY <1>7, <2>1
    <3> QED BY <1>9, <2>1, <3>1
  <2>3. G(w) = G(y)
    BY <2>1, <2>2
  <2> QED BY <1>2, <1>4, <1>5, <1>11, <2>3
<1> QED BY <1>2, <1>10, <1>11

(* The offset the table has for x.                                         *)
TableGmtoff(z, x) == z.ttis[TypeAt(z, x)].gmtoff

(* The first m transitions of the table are those that are past at x.      *)
Passed(z, x, m) ==
  /\ m \in 0 .. Len(z.ats)
  /\ m > 0 => z.ats[m] <= x
  /\ m < Len(z.ats) => x < z.ats[m + 1]

(***************************************************************************)
(* At every instant the first transitions are past.                        *)
(***************************************************************************)
LEMMA SomeArePassed ==
  ASSUME NEW z, IsZone(z), NEW x \in Int
  PROVE  \E m : Passed(z, x, m)
<1> DEFINE n == Len(z.ats)
           S == {i \in 1 .. n : z.ats[i] <= x}
           past == Cardinality(S)
<1>1. n \in Nat /\ (\A i \in 1 .. n : z.ats[i] \in Int) /\ \A i, j \in 1 .. n : i < j => z.ats[i] < z.ats[j]
  BY AtsInOrder
<1>2. ASSUME NEW i \in S, NEW j \in 1 .. n, j <= i PROVE j \in S
  <2>1. i \in 1 .. n /\ z.ats[i] <= x /\ z.ats[i] \in Int /\ z.ats[j] \in Int
    BY <1>1
  <2>2. j = i \/ j < i
    BY <1>2
  <2>3. z.ats[j] <= x
    BY <1>1, <2>1, <2>2
  <2> QED BY <2>3
<1>3. S \in SUBSET (1 .. n)
  OBVIOUS
<1>4. \A i \in 1 .. n : i \in S <=> z.ats[i] <= x
  OBVIOUS
<1> HIDE DEF S
<1>5. S = 1 .. past /\ past \in 0 .. n
  BY <1>1, <1>2, <1>3, Prefix
<1> HIDE DEF past, n
<1>6. past > 0 => z.ats[past] <= x
  <2> SUFFICES ASSUME past > 0 PROVE z.ats[past] <= x
    OBVIOUS
  <2>1. past \in S /\ past \in 1 .. n
    BY <1>1, <1>5
  <2> QED BY <1>4, <2>1
<1>7. past < n => x < z.ats[past + 1]
  <2> SUFFICES ASSUME past < n PROVE x < z.ats[past + 1]
    OBVIOUS
  <2>1. past + 1 \in 1 .. n /\ past + 1 \notin S
    BY <1>1, <1>5
  <2>2. ~(z.ats[past + 1] <= x) /\ z.ats[past + 1] \in Int
    BY <1>1, <1>4, <2>1
  <2> QED BY <2>2
<1>8. Passed(z, x, past)
  BY <1>5, <1>6, <1>7 DEF Passed, n
<1> QED BY <1>8

(***************************************************************************)
(* And the last of them tells the type.                                    *)
(***************************************************************************)
LEMMA PassedTells ==
  ASSUME NEW z, IsZone(z), NEW x \in Int, NEW m, Passed(z, x, m)
  PROVE  TypeAt(z, x) = IF m = 0 THEN FirstType(z) ELSE z.types[m]
<1> DEFINE n == Len(z.ats)
           S == {i \in 1 .. n : z.ats[i] <= x}
<1>1. n \in Nat /\ (\A i \in 1 .. n : z.ats[i] \in Int) /\ \A i, j \in 1 .. n : i < j => z.ats[i] < z.ats[j]
  BY AtsInOrder
<1>2. m \in 0 .. n /\ (m > 0 => z.ats[m] <= x) /\ (m < n => x < z.ats[m + 1])
  BY DEF Passed
<1>3. S = 1 .. m
  <2>1. ASSUME NEW i \in 1 .. n, i <= m PROVE z.ats[i] <= x
    <3>1. m \in 1 .. n /\ z.ats[m] <= x /\ (i = m \/ i < m)
      BY <1>1, <1>2, <2>1
    <3>2. z.ats[i] \in Int /\ z.ats[m] \in Int
      BY <1>1, <3>1
    <3> HIDE DEF n
    <3> QED BY <1>1, <3>1, <3>2
  <2>2. ASSUME NEW i \in 1 .. n, ~(i <= m) PROVE ~(z.ats[i] <= x)
    <3> DEFINE k == m + 1
    <3>1. k \in 1 .. n /\ x < z.ats[k] /\ (i = k \/ k < i)
      BY <1>1, <1>2, <2>2
    <3>2. z.ats[i] \in Int /\ z.ats[k] \in Int
      BY <1>1, <3>1
    <3> HIDE DEF n, k
    <3> QED BY <1>1, <3>1, <3>2
  <2> QED BY <1>1, <1>2, <2>1, <2>2
<1>4. Cardinality(1 .. m) = m
  <2>1. m \in Int /\ 1 \in Int /\ (1 > m => m = 0)
    BY <1>1, <1>2
  <2>2. Cardinality(1 .. m) = IF 1 > m THEN 0 ELSE m - 1 + 1
    BY <2>1, FS_Interval
  <2> QED BY <2>1, <2>2
<1>5. Cardinality(S) = m
  <2> HIDE DEF S
  <2> QED BY <1>3, <1>4
<1> QED BY <1>5 DEF TypeAt

(***************************************************************************)
(* So where the same transitions are past the table has the same offset.   *)
(***************************************************************************)
LEMMA PassedAlike ==
  ASSUME NEW z, IsZone(z), NEW x \in Int, NEW y \in Int, NEW m, Passed(z, x, m), Passed(z, y, m)
  PROVE  TableGmtoff(z, x) = TableGmtoff(z, y)
<1>1. TypeAt(z, x) = TypeAt(z, y)
  BY PassedTells
<1> QED BY <1>1 DEF TableGmtoff

(***************************************************************************)
(* Where the offset of the table changes there is a transition, and the    *)
(* transitions before and after it are far.                                *)
(***************************************************************************)
LEMMA TableChanges ==
  ASSUME NEW z, IsZone(z), Apart(z), NEW x \in Int, TableGmtoff(z, x) # TableGmtoff(z, x + 1)
  PROVE  \E m \in 1 .. Len(z.ats) :
           /\ z.ats[m] = x + 1
           /\ \A k \in Nat : Lag(z, k) =>
                /\ TableGmtoff(z, x - k) = TableGmtoff(z, x)
                /\ TableGmtoff(z, x + 1 + k) = TableGmtoff(z, x + 1)
                /\ m > 1 => z.ats[m - 1] <= x - k
                /\ m < Len(z.ats) => x + 1 + k < z.ats[m + 1]
<1> DEFINE n == Len(z.ats)
           y == x + 1
<1>1. n \in Nat /\ (\A i \in 1 .. n : z.ats[i] \in Int) /\ y \in Int
  BY AtsInOrder
<1>2. PICK p : Passed(z, x, p)
  BY SomeArePassed
<1>3. p \in 0 .. n /\ (p > 0 => z.ats[p] <= x) /\ (p < n => x < z.ats[p + 1])
  BY <1>2 DEF Passed
<1>4. ~Passed(z, y, p)
  <2> SUFFICES ASSUME Passed(z, y, p) PROVE FALSE
    OBVIOUS
  <2> HIDE DEF y
  <2>1. TableGmtoff(z, x) = TableGmtoff(z, y)
    BY <1>1, <1>2, PassedAlike
  <2> QED BY <2>1 DEF y
<1>5. p < n /\ z.ats[p + 1] <= y
  <2>1. p > 0 => z.ats[p] <= y
    <3> SUFFICES ASSUME p > 0 PROVE z.ats[p] <= y
      OBVIOUS
    <3>1. p \in 1 .. n
      BY <1>1, <1>3
    <3>2. z.ats[p] \in Int
      BY <1>1, <3>1
    <3> QED BY <1>3, <3>2
  <2>2. ~(p < n => y < z.ats[p + 1])
    BY <1>3, <1>4, <2>1 DEF Passed
  <2>3. p < n => z.ats[p + 1] \in Int
    BY <1>1, <1>3
  <2> QED BY <1>1, <2>2, <2>3
<1> DEFINE m == p + 1
<1>6. m \in 1 .. n /\ z.ats[m] = y
  <2>1. m \in 1 .. n
    BY <1>1, <1>3, <1>5
  <2>2. z.ats[m] \in Int
    BY <1>1, <2>1
  <2> QED BY <1>3, <1>5, <2>1, <2>2
<1>7. ASSUME NEW k \in Nat, Lag(z, k)
      PROVE  /\ TableGmtoff(z, x - k) = TableGmtoff(z, x)
             /\ TableGmtoff(z, y + k) = TableGmtoff(z, y)
             /\ m > 1 => z.ats[m - 1] <= x - k
             /\ m < n => y + k < z.ats[m + 1]
  <2>1. PICK i \in 1 .. Len(z.ttis), j \in 1 .. Len(z.ttis) : k <= z.ttis[i].gmtoff - z.ttis[j].gmtoff
    BY <1>7 DEF Lag
  <2> DEFINE d == z.ttis[i].gmtoff - z.ttis[j].gmtoff
  <2>2. d \in Int
    <3>1. z.ttis[i].gmtoff \in Int /\ z.ttis[j].gmtoff \in Int
      BY DEF IsZone
    <3> QED BY <3>1
  <2>3. \A q \in 1 .. n - 1 : z.ats[q] + d < z.ats[q + 1]
    BY DEF Apart
  <2>4. k <= d
    BY <2>1
  <2> HIDE DEF d
  <2>5. p > 0 => z.ats[p] <= x - k
    <3> SUFFICES ASSUME p > 0 PROVE z.ats[p] <= x - k
      OBVIOUS
    <3>1. p \in 1 .. n - 1 /\ p \in 1 .. n
      BY <1>1, <1>3, <1>5
    <3>2. z.ats[p] + d < z.ats[p + 1] /\ z.ats[p] \in Int
      BY <1>1, <2>3, <3>1
    <3> DEFINE u == z.ats[p]
    <3>3. u + d < y /\ u \in Int
      BY <1>6, <3>2
    <3> HIDE DEF u
    <3>4. u <= x - k
      BY <2>2, <2>4, <3>3
    <3> QED BY <3>4 DEF u
  <2>6. m < n => y + k < z.ats[m + 1]
    <3> SUFFICES ASSUME m < n PROVE y + k < z.ats[m + 1]
      OBVIOUS
    <3>1. m \in 1 .. n - 1 /\ m + 1 \in 1 .. n
      BY <1>1, <1>6
    <3> DEFINE u == z.ats[m + 1]
    <3>2. z.ats[m] + d < u /\ u \in Int
      BY <1>1, <2>3, <3>1
    <3>3. y + d < u
      BY <1>6, <3>2
    <3> HIDE DEF u
    <3>4. y + k < u
      BY <1>1, <2>2, <2>4, <3>2, <3>3
    <3> QED BY <3>4 DEF u
  <2>7. Passed(z, x - k, p)
    <3>1. x - k < z.ats[p + 1]
      BY <1>3, <1>5, <1>6
    <3> QED BY <1>3, <2>5, <3>1 DEF Passed
  <2>8. Passed(z, y, m) /\ Passed(z, y + k, m)
    <3> DEFINE u == y + k
    <3>1. y <= u /\ u \in Int
      BY <1>1
    <3>2. z.ats[m] <= y /\ z.ats[m] <= u /\ (m < n => u < z.ats[m + 1])
      BY <1>1, <1>6, <2>6, <3>1
    <3>3. m < n => y < z.ats[m + 1]
      <4> SUFFICES ASSUME m < n PROVE y < z.ats[m + 1]
        OBVIOUS
      <4>1. m + 1 \in 1 .. n
        BY <1>1, <1>6
      <4>2. z.ats[m + 1] \in Int
        BY <1>1, <4>1
      <4> QED BY <1>1, <3>1, <3>2, <4>2
    <3> QED BY <1>1, <1>6, <3>2, <3>3 DEF Passed
  <2>9. TableGmtoff(z, x - k) = TableGmtoff(z, x)
    <3> DEFINE u == x - k
    <3>1. u \in Int /\ Passed(z, u, p)
      BY <2>7
    <3> HIDE DEF u
    <3>2. TableGmtoff(z, u) = TableGmtoff(z, x)
      BY <1>2, <3>1, PassedAlike
    <3> QED BY <3>2 DEF u
  <2>10. TableGmtoff(z, y + k) = TableGmtoff(z, y)
    <3> DEFINE u == y + k
    <3>1. u \in Int /\ Passed(z, u, m) /\ Passed(z, y, m)
      BY <1>1, <2>8
    <3> HIDE DEF u, y, m
    <3>2. TableGmtoff(z, u) = TableGmtoff(z, y)
      BY <1>1, <3>1, PassedAlike
    <3> QED BY <3>2 DEF u
  <2>11. m > 1 => z.ats[m - 1] <= x - k
    <3>1. m - 1 = p
      BY <1>3
    <3> QED BY <1>3, <2>5, <3>1
  <2> QED BY <2>6, <2>9, <2>10, <2>11
<1> QED BY <1>6, <1>7 DEF y

(***************************************************************************)
(* At a transition the clock has the type of the transition.               *)
(***************************************************************************)
LEMMA AtTransition ==
  ASSUME NEW z, IsZone(z), NEW m \in 1 .. Len(z.ats)
  PROVE  z.ats[m] \in Int /\ TableGmtoff(z, z.ats[m]) = z.ttis[z.types[m]].gmtoff
<1> DEFINE n == Len(z.ats)
           x == z.ats[m]
<1>1. n \in Nat /\ (\A i \in 1 .. n : z.ats[i] \in Int) /\ \A i, j \in 1 .. n : i < j => z.ats[i] < z.ats[j]
  BY AtsInOrder
<1>2. m < n => x < z.ats[m + 1]
  <2> SUFFICES ASSUME m < n PROVE x < z.ats[m + 1]
    OBVIOUS
  <2>1. m + 1 \in 1 .. n /\ m < m + 1
    BY <1>1
  <2> QED BY <1>1, <2>1
<1>3. x \in Int
  BY <1>1
<1>4. Passed(z, x, m)
  BY <1>1, <1>2, <1>3 DEF Passed
<1> HIDE DEF x
<1>5. TypeAt(z, x) = z.types[m]
  <2>1. m # 0
    BY <1>1
  <2> QED BY <1>3, <1>4, <2>1, PassedTells
<1>6. TableGmtoff(z, x) = z.ttis[z.types[m]].gmtoff
  BY <1>5 DEF TableGmtoff
<1> QED BY <1>3, <1>6 DEF x

(***************************************************************************)
(* Within the table, or in a zone that does not repeat, the table tells.   *)
(***************************************************************************)
LEMMA TableTells ==
  ASSUME NEW z, NEW x \in Int, ~Beyond(z, x)
  PROVE  Gmtoff(z, x) = TableGmtoff(z, x)
<1> DEFINE c == Cycles(z, x)
<1>1. c = 0
  BY DEF Cycles
<1> HIDE DEF c
<1>2. x + c * SECSPERREPEAT = x
  <2>1. c * SECSPERREPEAT = 0
    BY <1>1, Units
  <2> QED BY <2>1
<1> QED BY <1>2 DEF Gmtoff, TableGmtoff, c

(***************************************************************************)
(* The cycles begun after a number of whole ones.                          *)
(***************************************************************************)
LEMMA CyclesBegun ==
  ASSUME NEW R \in Nat \ {0}, NEW c \in Nat \ {0}, NEW r \in 0 .. R - 1, NEW s \in Int, s = c * R + r + 1 - R
  PROVE  (s - 1) \div R + 1 = c
<1> DEFINE a == c * R
           q == c - 1
           u == s - 1
<1>1. a \in Int /\ R * q = a - R /\ q \in Int /\ R \in Int
  <2>1. a \in Int /\ q * R = a - R /\ q \in Int
    BY Multiples
  <2> HIDE DEF q, a
  <2> QED BY <2>1, Products
<1>2. u = R * q + r /\ u \in Int
  <2> DEFINE p == R * q
  <2>1. p = a - R /\ s = a + r + 1 - R
    BY <1>1
  <2> HIDE DEF p, a
  <2>2. u = p + r
    BY <1>1, <2>1
  <2> QED BY <2>2 DEF p
<1>3. Divided(u, R, q, r)
  BY <1>1, <1>2 DEF Divided
<1> HIDE DEF u, q
<1>4. u \div R = q
  BY <1>2, <1>3, DivModUnique
<1> QED BY <1>4 DEF u, q

(***************************************************************************)
(* After the table its last cycle is repeated.                             *)
(***************************************************************************)
LEMMA AheadRepeats ==
  ASSUME NEW z, IsZone(z), z.goahead, Recurs(z),
         NEW y \in Int, Last(z) - SECSPERREPEAT <= y, y <= Last(z), NEW c \in Nat
  PROVE  Gmtoff(z, y + c * SECSPERREPEAT) = TableGmtoff(z, y)
<1> DEFINE R == SECSPERREPEAT
           L == Last(z)
           F == First(z)
<1>1. R \in Nat \ {0} /\ L \in Int /\ F \in Int /\ F + R <= L
  BY Units, CycleInTable
<1> HIDE DEF R, L, F
<1>2. ASSUME NEW v \in Int, F <= v, v <= L PROVE Gmtoff(z, v) = TableGmtoff(z, v)
  <2>1. ~Beyond(z, v)
    BY <1>1, <1>2 DEF Beyond, F, L
  <2> QED BY <2>1, TableTells
<1>3. ASSUME NEW v \in Int, L - R < v, v <= L, NEW d \in Nat \ {0}
      PROVE  Gmtoff(z, v + d * R) = TableGmtoff(z, v)
  <2> DEFINE a == d * R
             x == v + a
             s == x - L
             r == v - L + R - 1
  <2>1. a \in Int /\ a >= R /\ (-d) * R = -a
    <3>1. d \in Int /\ d >= 1 /\ R \in Nat
      BY <1>1
    <3> QED BY <3>1, Multiples
  <2>2. x \in Int /\ s \in Int /\ r \in 0 .. R - 1 /\ s = a + r + 1 - R /\ x > L /\ ~(x < F)
    <3> HIDE DEF a
    <3> QED BY <1>1, <1>3, <2>1
  <2>3. (s - 1) \div R + 1 = d
    <3> HIDE DEF s, r
    <3> QED BY <1>1, <2>2, CyclesBegun
  <2>4. Cycles(z, x) = -d
    <3>1. Beyond(z, x)
      BY <2>2 DEF Beyond, L
    <3> QED BY <2>2, <2>3, <3>1 DEF Cycles, L, F, R
  <2>5. x + (-d) * R = v
    <3> HIDE DEF a
    <3> QED BY <2>1
  <2>6. Gmtoff(z, x) = TableGmtoff(z, v)
    <3>1. x + Cycles(z, x) * SECSPERREPEAT = v
      BY <2>4, <2>5 DEF R
    <3> HIDE DEF x
    <3> QED BY <3>1 DEF Gmtoff, TableGmtoff
  <2> QED BY <2>6
<1>4. TableGmtoff(z, L - R) = TableGmtoff(z, L)
  <2>1. PICK m \in 1 .. Len(z.ats) :
          z.ats[m] = L - R /\ z.ttis[z.types[m]].gmtoff = z.ttis[z.types[Len(z.ats)]].gmtoff
    BY DEF Recurs, L, R
  <2>2. Len(z.ats) \in 1 .. Len(z.ats) /\ L = z.ats[Len(z.ats)]
    BY CycleInTable DEF L
  <2>3. TableGmtoff(z, z.ats[m]) = z.ttis[z.types[m]].gmtoff
    BY AtTransition
  <2> DEFINE n == Len(z.ats)
  <2>4. TableGmtoff(z, z.ats[n]) = z.ttis[z.types[n]].gmtoff
    <3>1. n \in 1 .. Len(z.ats)
      BY <2>2
    <3> HIDE DEF n
    <3> QED BY <3>1, AtTransition
  <2> QED BY <2>1, <2>2, <2>3, <2>4
<1>5. L - R <= y /\ y <= L /\ F <= y
  <2>1. L - R <= y /\ y <= L
    BY DEF L, R
  <2> QED BY <1>1, <2>1
<1>6. Gmtoff(z, y + c * R) = TableGmtoff(z, y)
  <2>1. CASE c = 0
    <3>1. y + c * R = y
      <4>1. c * R = 0
        BY <1>1, <2>1
      <4> QED BY <4>1
    <3> QED BY <1>2, <1>5, <3>1
  <2>2. CASE c # 0 /\ y > L - R
    BY <1>1, <1>3, <1>5, <2>2
  <2>3. CASE c # 0 /\ y = L - R /\ c = 1
    <3>1. c * R = R
      BY <1>1, <2>3
    <3>2. y + c * R = L
      BY <1>1, <2>3, <3>1
    <3>3. Gmtoff(z, L) = TableGmtoff(z, L)
      BY <1>1, <1>2
    <3> QED BY <1>4, <2>3, <3>2, <3>3
  <2>4. CASE y = L - R /\ c # 0 /\ c # 1
    <3> DEFINE d == c - 1
               a == c * R
               b == d * R
    <3>1. d \in Nat \ {0} /\ c = d + 1
      BY <2>4
    <3>2. a \in Int /\ b \in Int /\ b = a - R
      BY <1>1, Multiples
    <3>3. a = b + R
      <4> HIDE DEF a, b
      <4> QED BY <1>1, <3>2
    <3> HIDE DEF a, b, d
    <3>4. y + a = L + b
      BY <1>1, <2>4, <3>2, <3>3
    <3>5. Gmtoff(z, L + d * R) = TableGmtoff(z, L)
      <4>1. L - R < L
        BY <1>1
      <4> QED BY <1>1, <1>3, <3>1, <4>1
    <3> QED BY <1>4, <2>4, <3>4, <3>5 DEF a, b
  <2> QED BY <1>1, <1>5, <2>1, <2>2, <2>3, <2>4
<1> QED BY <1>6 DEF R

(***************************************************************************)
(* Before the table its first cycle is repeated.                           *)
(***************************************************************************)
LEMMA BackRepeats ==
  ASSUME NEW z, IsZone(z), z.goback, Recurs(z),
         NEW y \in Int, First(z) <= y, y <= First(z) + SECSPERREPEAT, NEW c \in Nat
  PROVE  Gmtoff(z, y - c * SECSPERREPEAT) = TableGmtoff(z, y)
<1> DEFINE R == SECSPERREPEAT
           L == Last(z)
           F == First(z)
<1>1. R \in Nat \ {0} /\ L \in Int /\ F \in Int /\ F + R <= L
  BY Units, CycleInTable
<1>2. F <= y /\ y <= F + R
  OBVIOUS
<1> HIDE DEF R, L, F
<1>3. ASSUME NEW v \in Int, F <= v, v <= L PROVE Gmtoff(z, v) = TableGmtoff(z, v)
  <2>1. ~Beyond(z, v)
    BY <1>1, <1>3 DEF Beyond, F, L
  <2> QED BY <2>1, TableTells
<1>4. ASSUME NEW v \in Int, F <= v, v < F + R, NEW d \in Nat \ {0}
      PROVE  Gmtoff(z, v - d * R) = TableGmtoff(z, v)
  <2> DEFINE a == d * R
             x == v - a
             s == F - x
             r == R - 1 - (v - F)
  <2>1. a \in Int /\ a >= R
    <3>1. d \in Int /\ d >= 1 /\ R \in Nat
      BY <1>1
    <3> QED BY <3>1, Multiples
  <2>2. x \in Int /\ s \in Int /\ r \in 0 .. R - 1 /\ s = a + r + 1 - R /\ x < F
    <3> HIDE DEF a
    <3> QED BY <1>1, <1>4, <2>1
  <2>3. (s - 1) \div R + 1 = d
    <3> HIDE DEF s, r
    <3> QED BY <1>1, <2>2, CyclesBegun
  <2>4. Cycles(z, x) = d
    <3>1. Beyond(z, x)
      BY <2>2 DEF Beyond, F
    <3> QED BY <2>2, <2>3, <3>1 DEF Cycles, L, F, R
  <2>5. x + d * R = v
    <3> HIDE DEF a
    <3>1. x + a = v
      BY <2>1
    <3> QED BY <3>1 DEF a
  <2>6. Gmtoff(z, x) = TableGmtoff(z, v)
    <3>1. x + Cycles(z, x) * SECSPERREPEAT = v
      BY <2>4, <2>5 DEF R
    <3> HIDE DEF x
    <3> QED BY <3>1 DEF Gmtoff, TableGmtoff
  <2> QED BY <2>6
<1>5. TableGmtoff(z, F + R) = TableGmtoff(z, F)
  <2>1. PICK m \in 1 .. Len(z.ats) :
          z.ats[m] = F + R /\ z.ttis[z.types[m]].gmtoff = z.ttis[z.types[1]].gmtoff
    BY DEF Recurs, F, R
  <2> DEFINE n == 1
  <2>2. n \in 1 .. Len(z.ats) /\ F = z.ats[n]
    BY CycleInTable DEF F
  <2>3. TableGmtoff(z, z.ats[m]) = z.ttis[z.types[m]].gmtoff
    BY AtTransition
  <2>4. TableGmtoff(z, z.ats[n]) = z.ttis[z.types[n]].gmtoff
    <3> HIDE DEF n
    <3> QED BY <2>2, AtTransition
  <2> QED BY <2>1, <2>2, <2>3, <2>4
<1>6. Gmtoff(z, y - c * R) = TableGmtoff(z, y)
  <2>1. CASE c = 0
    <3>1. y - c * R = y
      <4>1. c * R = 0
        BY <1>1, <2>1
      <4> QED BY <4>1
    <3>2. y <= L
      BY <1>1, <1>2
    <3> QED BY <1>2, <1>3, <3>1, <3>2
  <2>2. CASE c # 0 /\ y < F + R
    BY <1>1, <1>2, <1>4, <2>2
  <2>3. CASE c # 0 /\ y = F + R /\ c = 1
    <3>1. c * R = R
      BY <1>1, <2>3
    <3>2. y - c * R = F
      BY <1>1, <2>3, <3>1
    <3>3. Gmtoff(z, F) = TableGmtoff(z, F)
      BY <1>1, <1>3
    <3> QED BY <1>5, <2>3, <3>2, <3>3
  <2>4. CASE y = F + R /\ c # 0 /\ c # 1
    <3> DEFINE d == c - 1
               a == c * R
               b == d * R
    <3>1. d \in Nat \ {0} /\ c = d + 1
      BY <2>4
    <3>2. a \in Int /\ b \in Int /\ b = a - R
      BY <1>1, Multiples
    <3> HIDE DEF a, b, d
    <3>3. y - a = F - b
      BY <1>1, <2>4, <3>2
    <3>4. Gmtoff(z, F - d * R) = TableGmtoff(z, F)
      <4>1. F < F + R
        BY <1>1
      <4> QED BY <1>1, <1>4, <3>1, <4>1
    <3> QED BY <1>5, <2>4, <3>3, <3>4 DEF a, b
  <2> QED BY <1>1, <1>2, <2>1, <2>2, <2>3, <2>4
<1> QED BY <1>6 DEF R

(* x is c cycles after an instant y of the cycle that begins at low.        *)
CyclesFrom(x, R, low, c, y) ==
  /\ c \in Int /\ y \in low .. low + R - 1 /\ x = y + c * R
  /\ x >= low => c \in Nat
  /\ x < low => -c \in Nat

(***************************************************************************)
(* Every instant is some cycles before or after one of the cycle.          *)
(***************************************************************************)
LEMMA WholeCycles ==
  ASSUME NEW R \in Nat \ {0}, NEW low \in Int, NEW x \in Int
  PROVE  \E c, y : CyclesFrom(x, R, low, c, y)
<1> DEFINE c == (x - low) \div R
           r == (x - low) % R
           y == low + r
           a == c * R
<1>1. c \in Int /\ r \in 0 .. R - 1 /\ x - low = R * c + r
  <2> DEFINE u == x - low
  <2>1. u \in Int
    OBVIOUS
  <2> HIDE DEF u
  <2>2. u \div R \in Int /\ u % R \in 0 .. R - 1 /\ u = R * (u \div R) + (u % R)
    BY <2>1, DivMod
  <2> QED BY <2>2 DEF u
<1> HIDE DEF c, r
<1>2. a \in Int /\ R * c = a /\ (c >= 1 => a >= R) /\ R \in Int
  BY <1>1, Products, Multiples
<1>3. -c >= 1 => -a >= R
  <2> DEFINE d == -c
  <2>1. d \in Int /\ c = -d
    BY <1>1
  <2> HIDE DEF d
  <2>2. d * R \in Int /\ (-d) * R = -(d * R) /\ (d >= 1 => d * R >= R)
    BY <2>1, Multiples
  <2> DEFINE b == d * R
  <2>3. a = -b /\ b \in Int /\ (d >= 1 => b >= R)
    BY <2>1, <2>2
  <2> HIDE DEF a, b
  <2>4. d >= 1 => -a >= R
    BY <2>3
  <2> QED BY <2>1, <2>4 DEF d
<1>4. y \in low .. low + R - 1 /\ x = y + a
  <2>1. x - low = a + r
    BY <1>1, <1>2
  <2> HIDE DEF a
  <2> QED BY <1>1, <1>2, <2>1
<1>5. (x >= low => c \in Nat) /\ (x < low => -c \in Nat)
  <2> HIDE DEF a, y
  <2>1. x >= low => ~(-c >= 1)
    BY <1>2, <1>3, <1>4
  <2>2. x < low => ~(c >= 1)
    BY <1>2, <1>4
  <2> QED BY <1>1, <2>1, <2>2
<1>6. CyclesFrom(x, R, low, c, y)
  BY <1>1, <1>4, <1>5 DEF CyclesFrom
<1> QED BY <1>6

(***************************************************************************)
(* After the last transition that has a twin a cycle earlier.              *)
(***************************************************************************)
LEMMA SettledAhead ==
  ASSUME NEW z, IsZone(z), Apart(z), Recurs(z), z.goahead, NEW x \in Int, Last(z) - SECSPERREPEAT <= x,
         Gmtoff(z, x) # Gmtoff(z, x + 1), NEW k \in Nat, Lag(z, k)
  PROVE  Gmtoff(z, x - k) = Gmtoff(z, x) /\ Gmtoff(z, x + 1 + k) = Gmtoff(z, x + 1)
<1> DEFINE R == SECSPERREPEAT
           L == Last(z)
           F == First(z)
           n == Len(z.ats)
           low == L - R
           T(u) == TableGmtoff(z, u)
           G(u) == Gmtoff(z, u)
<1>1. R \in Nat \ {0} /\ L \in Int /\ F \in Int /\ F + R <= L /\ n \in Nat \ {0} /\ L = z.ats[n] /\ low \in Int
  BY Units, CycleInTable
<1>2. (\A i \in 1 .. n : z.ats[i] \in Int) /\ \A i, j \in 1 .. n : i < j => z.ats[i] < z.ats[j]
  BY AtsInOrder
<1>3. low <= x
  OBVIOUS
<1>4. \A v \in low .. L, d \in Nat : G(v + d * R) = T(v)
  <2> TAKE v \in low .. L, d \in Nat
  <2>1. v \in Int /\ Last(z) - SECSPERREPEAT <= v /\ v <= Last(z)
    BY <1>1
  <2> QED BY <2>1, AheadRepeats
<1>5. PICK q \in 1 .. n : z.ats[q] = low /\ z.ttis[z.types[q]].gmtoff = z.ttis[z.types[n]].gmtoff
  BY DEF Recurs
<1>6. T(low) = T(L)
  <2>1. T(z.ats[q]) = z.ttis[z.types[q]].gmtoff
    BY AtTransition
  <2>2. T(z.ats[n]) = z.ttis[z.types[n]].gmtoff
    <3>1. n \in 1 .. Len(z.ats)
      BY <1>1
    <3> HIDE DEF n
    <3> QED BY <3>1, AtTransition
  <2> QED BY <1>1, <1>5, <2>1, <2>2
<1> HIDE DEF R, L, F, low, n
<1>7. PICK c, y : CyclesFrom(x, R, low, c, y)
  BY <1>1, WholeCycles
<1> DEFINE a == c * R
<1>8. c \in Nat /\ y \in Int /\ low <= y /\ y + 1 <= L /\ a \in Int /\ x = y + a
  <2>1. c \in Nat /\ y \in low .. low + R - 1 /\ x = y + a
    BY <1>3, <1>7 DEF CyclesFrom
  <2>2. a \in Int
    BY <1>1, <2>1, Multiples
  <2>3. low + R = L
    BY <1>1 DEF low
  <2> HIDE DEF a
  <2> QED BY <1>1, <2>1, <2>2, <2>3
<1> HIDE DEF a
<1>9. ASSUME NEW u \in Int, low <= u, u <= L PROVE G(u + a) = T(u)
  <2>1. u \in low .. L
    BY <1>9, <1>1
  <2> QED BY <1>4, <1>8, <2>1 DEF a
<1>10. G(x) = T(y) /\ G(x + 1) = T(y + 1)
  <2>1. G(y + a) = T(y)
    BY <1>1, <1>8, <1>9
  <2>2. G((y + 1) + a) = T(y + 1)
    BY <1>1, <1>8, <1>9
  <2>3. (y + 1) + a = x + 1
    BY <1>8
  <2> QED BY <1>8, <2>1, <2>2, <2>3
<1>11. T(y) # T(y + 1)
  BY <1>10
<1>12. PICK m \in 1 .. n :
           /\ z.ats[m] = y + 1
           /\ \A j \in Nat : Lag(z, j) =>
                /\ T(y - j) = T(y)
                /\ T(y + 1 + j) = T(y + 1)
                /\ m > 1 => z.ats[m - 1] <= y - j
                /\ m < n => y + 1 + j < z.ats[m + 1]
  BY <1>8, <1>11, TableChanges DEF n
<1>13. /\ T(y - k) = T(y) /\ T(y + 1 + k) = T(y + 1)
       /\ m > 1 => z.ats[m - 1] <= y - k
       /\ m < n => y + 1 + k < z.ats[m + 1]
  BY <1>12
<1> HIDE DEF G, T
<1>14. q < m
  <2> SUFFICES ASSUME m <= q PROVE FALSE
    BY <1>5, <1>12
  <2>1. z.ats[m] <= z.ats[q]
    BY <1>2, <1>5
  <2> QED BY <1>1, <1>5, <1>8, <1>12, <2>1
<1>15. low <= y - k
  <2>1. m > 1 /\ m - 1 \in 1 .. n /\ (q = m - 1 \/ q < m - 1)
    BY <1>1, <1>14
  <2>2. z.ats[q] <= z.ats[m - 1] /\ z.ats[m - 1] \in Int
    BY <1>1, <1>2, <1>5, <2>1
  <2>3. z.ats[m - 1] <= y - k
    BY <1>13, <2>1
  <2> QED BY <1>1, <1>5, <1>8, <2>2, <2>3
<1>16. G(x - k) = G(x)
  <2>1. G((y - k) + a) = T(y - k)
    BY <1>8, <1>9, <1>15, <1>1
  <2>2. (y - k) + a = x - k
    BY <1>8
  <2> QED BY <1>10, <1>13, <2>1, <2>2
<1>17. CASE m < n
  <2>1. m + 1 \in 1 .. n /\ (m + 1 = n \/ m + 1 < n)
    BY <1>1, <1>17
  <2>2. z.ats[m + 1] <= L /\ z.ats[m + 1] \in Int
    BY <1>1, <1>2, <2>1
  <2>3. y + 1 + k <= L /\ low <= y + 1 + k
    BY <1>1, <1>8, <1>13, <1>17, <2>2
  <2>4. G((y + 1 + k) + a) = T(y + 1 + k)
    BY <1>8, <1>9, <2>3
  <2>5. (y + 1 + k) + a = x + 1 + k
    BY <1>8
  <2> QED BY <1>10, <1>13, <1>16, <2>4, <2>5 DEF G
<1>18. CASE m = n
  <2>1. y + 1 = L
    BY <1>1, <1>12, <1>18
  <2>2. T(low + k) = T(low) /\ low + k <= L
    <3>1. Passed(z, low, q) /\ Passed(z, low + k, q) /\ low + k <= L
      <4>1. q \in 1 .. n - 1 /\ q + 1 \in 1 .. n /\ (q + 1 = n \/ q + 1 < n)
        BY <1>14, <1>18
      <4>2. low + k < z.ats[q + 1] /\ z.ats[q + 1] \in Int
        <5>1. PICK i \in 1 .. Len(z.ttis), j \in 1 .. Len(z.ttis) : k <= z.ttis[i].gmtoff - z.ttis[j].gmtoff
          BY DEF Lag
        <5> DEFINE d == z.ttis[i].gmtoff - z.ttis[j].gmtoff
        <5>2. d \in Int
          <6>1. z.ttis[i].gmtoff \in Int /\ z.ttis[j].gmtoff \in Int
            BY DEF IsZone
          <6> QED BY <6>1
        <5>3. z.ats[q] + d < z.ats[q + 1]
          BY <4>1 DEF Apart, n
        <5>4. z.ats[q + 1] \in Int /\ k <= d
          BY <1>2, <4>1, <5>1
        <5> DEFINE w == z.ats[q + 1]
        <5>5. low + d < w /\ w \in Int
          BY <1>5, <5>3, <5>4
        <5>6. k <= d
          BY <5>4
        <5> HIDE DEF d, w
        <5>7. low + k < w
          BY <1>1, <5>2, <5>5, <5>6
        <5> QED BY <5>5, <5>7 DEF w
      <4>3. z.ats[q + 1] <= L
        BY <1>1, <1>2, <4>1
      <4>4. low <= low + k /\ low < z.ats[q + 1] /\ low + k <= L
        BY <1>1, <4>2, <4>3
      <4>5. Passed(z, low, q)
        BY <1>1, <1>5, <4>4 DEF Passed, n
      <4>6. Passed(z, low + k, q)
        BY <1>1, <1>5, <4>2, <4>4 DEF Passed, n
      <4> QED BY <4>4, <4>5, <4>6
    <3> DEFINE u == low + k
    <3>2. u \in Int
      BY <1>1
    <3> HIDE DEF u
    <3>3. TableGmtoff(z, low) = TableGmtoff(z, u)
      <4>1. Passed(z, u, q)
        BY <3>1 DEF u
      <4> QED BY <1>1, <3>1, <3>2, <4>1, PassedAlike
    <3> QED BY <3>1, <3>3 DEF T, u
  <2> DEFINE d == c + 1
             b == d * R
  <2>3. b = a + R /\ b \in Int /\ d \in Nat
    <3>1. c \in Int /\ R \in Nat
      BY <1>1, <1>8
    <3>2. b = a + R
      BY <3>1, Multiples DEF a
    <3> QED BY <1>1, <1>8, <3>2
  <2>4. G((low + k) + b) = T(low + k)
    <3>1. low + k \in low .. L
      BY <1>1, <2>2
    <3> QED BY <1>4, <2>3, <3>1 DEF G, T
  <2> HIDE DEF b, d
  <2>5. (low + k) + b = x + 1 + k
    <3>1. low + R = L
      BY <1>1 DEF low
    <3>2. low \in Int /\ R \in Int /\ L \in Int /\ a \in Int /\ y \in Int /\ x = y + a
      BY <1>1, <1>8
    <3>3. b = a + R /\ b \in Int
      BY <2>3
    <3> QED BY <2>1, <3>1, <3>2, <3>3
  <2>6. G(x + 1 + k) = T(L) /\ G(x + 1) = T(L)
    BY <1>6, <1>10, <2>1, <2>2, <2>4, <2>5 DEF T
  <2>7. G(x + 1 + k) = G(x + 1)
    BY <2>6
  <2> QED BY <1>16, <2>7 DEF G
<1> QED BY <1>1, <1>12, <1>17, <1>18

(***************************************************************************)
(* Before the first transition.                                            *)
(***************************************************************************)
LEMMA SettledBack ==
  ASSUME NEW z, IsZone(z), Apart(z), Recurs(z), z.goback, NEW x \in Int, x < First(z),
         Gmtoff(z, x) # Gmtoff(z, x + 1), NEW k \in Nat, Lag(z, k)
  PROVE  Gmtoff(z, x - k) = Gmtoff(z, x) /\ Gmtoff(z, x + 1 + k) = Gmtoff(z, x + 1)
<1> DEFINE R == SECSPERREPEAT
           L == Last(z)
           F == First(z)
           n == Len(z.ats)
           high == F + R
           T(u) == TableGmtoff(z, u)
           G(u) == Gmtoff(z, u)
<1>1. R \in Nat \ {0} /\ L \in Int /\ F \in Int /\ F + R <= L /\ n \in Nat \ {0} /\ F = z.ats[1]
      /\ high \in Int /\ high = F + R
  BY Units, CycleInTable
<1>2. (\A i \in 1 .. n : z.ats[i] \in Int) /\ \A i, j \in 1 .. n : i < j => z.ats[i] < z.ats[j]
  BY AtsInOrder
<1>3. x < F
  OBVIOUS
<1>4. \A v \in F .. high, d \in Nat : G(v - d * R) = T(v)
  <2> TAKE v \in F .. high, d \in Nat
  <2>1. v \in Int /\ First(z) <= v /\ v <= First(z) + SECSPERREPEAT
    BY <1>1
  <2> QED BY <2>1, BackRepeats
<1>5. PICK q \in 1 .. n : z.ats[q] = high /\ z.ttis[z.types[q]].gmtoff = z.ttis[z.types[1]].gmtoff
  BY DEF Recurs
<1>6. T(high) = T(F)
  <2>1. T(z.ats[q]) = z.ttis[z.types[q]].gmtoff
    BY AtTransition
  <2> DEFINE o == 1
  <2>2. T(z.ats[o]) = z.ttis[z.types[o]].gmtoff
    <3>1. o \in 1 .. Len(z.ats)
      BY <1>1
    <3> HIDE DEF o
    <3> QED BY <3>1, AtTransition
  <2> QED BY <1>1, <1>5, <2>1, <2>2
<1> HIDE DEF R, L, F, high, n
<1>7. PICK e, y : CyclesFrom(x, R, F, e, y)
  BY <1>1, WholeCycles
<1> DEFINE c == -e
           a == c * R
<1>8. c \in Nat \ {0} /\ y \in Int /\ F <= y /\ y + 1 <= high /\ a \in Int /\ x = y - a
  <2>1. c \in Nat /\ e \in Int /\ y \in F .. F + R - 1 /\ x = y + e * R
    BY <1>3, <1>7 DEF CyclesFrom
  <2> DEFINE b == e * R
  <2>2. b \in Int /\ a = -b
    BY <1>1, <2>1, Multiples
  <2>3. c = 0 => b = 0
    <3>1. c = 0 => e = 0
      BY <2>1
    <3>2. e = 0 => b = 0
      BY <1>1
    <3> QED BY <3>1, <3>2
  <2>4. x = y + b
    BY <2>1
  <2> HIDE DEF a, b, c
  <2> QED BY <1>1, <1>3, <2>1, <2>2, <2>3, <2>4
<1> HIDE DEF a, c
<1>9. ASSUME NEW u \in Int, F <= u, u <= high PROVE G(u - a) = T(u)
  <2>1. u \in F .. high
    BY <1>9, <1>1
  <2> QED BY <1>4, <1>8, <2>1 DEF a
<1>10. G(x) = T(y) /\ G(x + 1) = T(y + 1)
  <2>1. G(y - a) = T(y)
    BY <1>1, <1>8, <1>9
  <2>2. G((y + 1) - a) = T(y + 1)
    BY <1>1, <1>8, <1>9
  <2>3. (y + 1) - a = x + 1
    BY <1>8
  <2> QED BY <1>8, <2>1, <2>2, <2>3
<1>11. T(y) # T(y + 1)
  BY <1>10
<1>12. PICK m \in 1 .. n :
           /\ z.ats[m] = y + 1
           /\ \A j \in Nat : Lag(z, j) =>
                /\ T(y - j) = T(y)
                /\ T(y + 1 + j) = T(y + 1)
                /\ m > 1 => z.ats[m - 1] <= y - j
                /\ m < n => y + 1 + j < z.ats[m + 1]
  BY <1>8, <1>11, TableChanges DEF n
<1>13. /\ T(y - k) = T(y) /\ T(y + 1 + k) = T(y + 1)
       /\ m > 1 => z.ats[m - 1] <= y - k
       /\ m < n => y + 1 + k < z.ats[m + 1]
  BY <1>12
<1> HIDE DEF G, T
<1>14. 1 < m /\ m <= q
  <2>1. m # 1
    BY <1>1, <1>8, <1>12
  <2>2. ~(q < m)
    <3> SUFFICES ASSUME q < m PROVE FALSE
      OBVIOUS
    <3>1. z.ats[q] < z.ats[m]
      BY <1>2, <1>5
    <3> QED BY <1>1, <1>5, <1>8, <1>12, <3>1
  <2> QED BY <1>1, <2>1, <2>2
<1>15. F <= y - k
  <2> DEFINE o == 1
             p == m - 1
  <2>1. m > 1 /\ p \in 1 .. n /\ o \in 1 .. n /\ (p = o \/ o < p)
    BY <1>1, <1>14
  <2>2. z.ats[p] <= y - k
    BY <1>13, <2>1
  <2>3. F = z.ats[o]
    BY <1>1
  <2> HIDE DEF o, p
  <2>4. z.ats[o] <= z.ats[p] /\ z.ats[p] \in Int /\ z.ats[o] \in Int
    BY <1>2, <2>1
  <2> QED BY <1>8, <2>2, <2>3, <2>4
<1>16. G(x - k) = G(x)
  <2>1. G((y - k) - a) = T(y - k)
    BY <1>8, <1>9, <1>15, <1>1
  <2>2. (y - k) - a = x - k
    BY <1>8
  <2> QED BY <1>10, <1>13, <2>1, <2>2
<1>17. CASE m < q
  <2>1. m + 1 \in 1 .. n /\ (m + 1 = q \/ m + 1 < q) /\ m < n
    BY <1>1, <1>17
  <2>2. z.ats[m + 1] <= high /\ z.ats[m + 1] \in Int
    BY <1>1, <1>2, <1>5, <2>1
  <2>3. y + 1 + k <= high /\ F <= y + 1 + k
    BY <1>1, <1>8, <1>13, <2>1, <2>2
  <2>4. G((y + 1 + k) - a) = T(y + 1 + k)
    BY <1>8, <1>9, <2>3
  <2>5. (y + 1 + k) - a = x + 1 + k
    BY <1>8
  <2> QED BY <1>10, <1>13, <1>16, <2>4, <2>5 DEF G
<1>18. CASE m = q
  <2>1. y + 1 = high
    BY <1>5, <1>12, <1>18
  <2>2. T(F + k) = T(F) /\ F + k <= high
    <3> DEFINE o == 1
    <3>1. Passed(z, F, o) /\ Passed(z, F + k, o) /\ F + k <= high
      <4> DEFINE p == o + 1
      <4>1. o \in 1 .. n /\ o \in 1 .. n - 1 /\ p \in 1 .. n /\ (p = q \/ p < q) /\ o \in 0 .. n
        BY <1>1, <1>14, <1>18
      <4>2. F = z.ats[o]
        BY <1>1
      <4> HIDE DEF o
      <4>3. F + k < z.ats[p] /\ z.ats[p] \in Int
        <5>1. PICK i \in 1 .. Len(z.ttis), j \in 1 .. Len(z.ttis) : k <= z.ttis[i].gmtoff - z.ttis[j].gmtoff
          BY DEF Lag
        <5> DEFINE d == z.ttis[i].gmtoff - z.ttis[j].gmtoff
        <5>2. d \in Int
          <6>1. z.ttis[i].gmtoff \in Int /\ z.ttis[j].gmtoff \in Int
            BY DEF IsZone
          <6> QED BY <6>1
        <5>3. z.ats[o] + d < z.ats[p]
          BY <4>1 DEF Apart, n
        <5> DEFINE w == z.ats[p]
        <5>4. w \in Int /\ F + d < w
          BY <1>2, <4>1, <4>2, <5>3
        <5>5. k <= d /\ F \in Int
          BY <1>1, <5>1
        <5> HIDE DEF d, w
        <5>6. F + k < w
          BY <5>2, <5>4, <5>5
        <5> QED BY <5>4, <5>6 DEF w
      <4>4. z.ats[p] <= high
        <5> HIDE DEF p
        <5> QED BY <1>1, <1>2, <1>5, <4>1, <4>3
      <4>5. F <= F + k /\ F < z.ats[p] /\ F + k <= high
        <5> DEFINE w == z.ats[p]
        <5>1. w \in Int /\ F + k < w /\ w <= high
          BY <4>3, <4>4
        <5> HIDE DEF w
        <5> QED BY <1>1, <5>1 DEF w
      <4>6. Passed(z, F, o)
        BY <1>1, <4>1, <4>2, <4>5 DEF Passed, n
      <4>7. Passed(z, F + k, o)
        BY <1>1, <4>1, <4>2, <4>3, <4>5 DEF Passed, n
      <4> QED BY <4>5, <4>6, <4>7
    <3> DEFINE u == F + k
    <3>2. u \in Int
      BY <1>1
    <3> HIDE DEF u, o
    <3>3. TableGmtoff(z, F) = TableGmtoff(z, u)
      <4>1. Passed(z, u, o)
        BY <3>1 DEF u
      <4> QED BY <1>1, <3>1, <3>2, <4>1, PassedAlike
    <3> QED BY <3>1, <3>3 DEF T, u
  <2> DEFINE d == c - 1
             b == d * R
  <2>3. b = a - R /\ b \in Int /\ d \in Nat
    <3>1. c \in Int /\ R \in Nat
      BY <1>1, <1>8
    <3>2. b = a - R
      BY <3>1, Multiples DEF a
    <3> HIDE DEF b
    <3> QED BY <1>1, <1>8, <3>2
  <2>4. G((F + k) - b) = T(F + k)
    <3>1. F + k \in F .. high
      BY <1>1, <2>2
    <3> QED BY <1>4, <2>3, <3>1 DEF G, T
  <2> HIDE DEF b, d
  <2>5. (F + k) - b = x + 1 + k
    <3>1. F \in Int /\ R \in Int /\ high = F + R /\ a \in Int /\ y \in Int /\ x = y - a
      BY <1>1, <1>8
    <3>2. b = a - R /\ b \in Int
      BY <2>3
    <3> QED BY <2>1, <3>1, <3>2
  <2>6. G(x + 1 + k) = T(F) /\ G(x + 1) = T(F)
    BY <1>6, <1>10, <2>1, <2>2, <2>4, <2>5 DEF T
  <2>7. G(x + 1 + k) = G(x + 1)
    BY <2>6
  <2> QED BY <1>16, <2>7 DEF G
<1> QED BY <1>1, <1>5, <1>12, <1>14, <1>17, <1>18

(***************************************************************************)
(* So the offset of an orderly zone is settled, in every cycle.            *)
(***************************************************************************)
LEMMA OrderlyIsSettled ==
  ASSUME NEW z, IsZone(z), Apart(z), Recurs(z)
  PROVE  Settled(z)
<1>1. SUFFICES ASSUME NEW x \in Int, Gmtoff(z, x) # Gmtoff(z, x + 1), NEW k \in Nat, Lag(z, k)
               PROVE  Gmtoff(z, x - k) = Gmtoff(z, x) /\ Gmtoff(z, x + 1 + k) = Gmtoff(z, x + 1)
  BY DEF Settled
<1> DEFINE F == First(z)
           L == Last(z)
           R == SECSPERREPEAT
           n == Len(z.ats)
           G(u) == Gmtoff(z, u)
           T(u) == TableGmtoff(z, u)
<1>2. z.goback \/ z.goahead =>
        F \in Int /\ L \in Int /\ F + R <= L /\ R \in Nat \ {0} /\ F = z.ats[1] /\ L = z.ats[n]
  BY Units, CycleInTable
<1>3. n \in Nat /\ (\A i \in 1 .. n : z.ats[i] \in Int) /\ \A i, j \in 1 .. n : i < j => z.ats[i] < z.ats[j]
  BY AtsInOrder
<1>4. CASE z.goahead /\ L - R <= x
  BY <1>1, <1>4, SettledAhead
<1>5. CASE z.goback /\ x < F
  BY <1>1, <1>5, SettledBack
<1>6. ASSUME z.goahead => ~(L - R <= x), z.goback => ~(x < F)
      PROVE  G(x - k) = G(x) /\ G(x + 1 + k) = G(x + 1)
  <2> HIDE DEF F, L, R, n
  <2>1. ASSUME NEW u \in Int, z.goback => F <= u, z.goahead => u <= L PROVE G(u) = T(u)
    <3>1. ~(z.goback /\ u < F)
      BY <1>2, <2>1
    <3>2. ~(z.goahead /\ u > L)
      BY <1>2, <2>1
    <3>3. ~Beyond(z, u)
      BY <3>1, <3>2 DEF Beyond, F, L
    <3> QED BY <3>3, TableTells
  <2>2. (z.goback => F <= x) /\ (z.goahead => x < L - R)
    BY <1>2, <1>6
  <2>3. (z.goback => F <= x + 1) /\ (z.goahead => x < L /\ x + 1 <= L)
    BY <1>2, <2>2
  <2>4. G(x) = T(x) /\ G(x + 1) = T(x + 1)
    <3>1. G(x) = T(x)
      <4>1. z.goahead => x <= L
        BY <1>2, <2>3
      <4> QED BY <2>1, <2>2, <4>1
    <3> DEFINE y == x + 1
    <3>2. y \in Int /\ (z.goback => F <= y) /\ (z.goahead => y <= L)
      BY <2>3
    <3> HIDE DEF y
    <3>3. G(y) = T(y)
      BY <2>1, <3>2
    <3> QED BY <3>1, <3>3 DEF y
  <2>5. PICK m \in 1 .. n :
           /\ z.ats[m] = x + 1
           /\ \A j \in Nat : Lag(z, j) =>
                /\ T(x - j) = T(x)
                /\ T(x + 1 + j) = T(x + 1)
                /\ m > 1 => z.ats[m - 1] <= x - j
                /\ m < n => x + 1 + j < z.ats[m + 1]
    <3>1. T(x) # T(x + 1)
      BY <1>1, <2>4
    <3> QED BY <3>1, TableChanges DEF n
  <2>6. /\ T(x - k) = T(x) /\ T(x + 1 + k) = T(x + 1)
        /\ m > 1 => z.ats[m - 1] <= x - k
        /\ m < n => x + 1 + k < z.ats[m + 1]
    BY <1>1, <2>5
  <2> HIDE DEF G, T
  <2>7. (z.goback => F <= x - k) /\ (z.goahead => x - k <= L)
    <3>1. z.goahead => x - k <= L
      BY <1>2, <2>3
    <3>2. z.goback => F <= x - k
      <4> SUFFICES ASSUME z.goback PROVE F <= x - k
        OBVIOUS
      <4>1. m # 1
        BY <1>2, <2>2, <2>5
      <4> DEFINE o == 1
                 p == m - 1
      <4>2. m > 1 /\ p \in 1 .. n /\ o \in 1 .. n /\ (p = o \/ o < p)
        BY <1>3, <4>1
      <4>3. z.ats[p] <= x - k /\ F = z.ats[o]
        BY <1>2, <2>6, <4>2
      <4> HIDE DEF o, p
      <4>4. z.ats[o] <= z.ats[p] /\ z.ats[p] \in Int /\ z.ats[o] \in Int
        BY <1>3, <4>2
      <4> QED BY <4>3, <4>4
    <3> QED BY <3>1, <3>2
  <2>8. G(x - k) = G(x)
    <3>1. x - k \in Int
      OBVIOUS
    <3>2. G(x - k) = T(x - k)
      BY <2>1, <2>7, <3>1
    <3> QED BY <2>4, <2>6, <3>2
  <2>9. (z.goback => F <= x + 1 + k) /\ (z.goahead => x + 1 + k <= L)
    <3>1. z.goback => F <= x + 1 + k
      BY <1>2, <2>3
    <3>2. z.goahead => x + 1 + k <= L
      <4> SUFFICES ASSUME z.goahead PROVE x + 1 + k <= L
        OBVIOUS
      <4>1. m # n
        BY <1>2, <2>2, <2>5
      <4> DEFINE p == m + 1
      <4>2. m < n /\ p \in 1 .. n /\ n \in 1 .. n /\ (p = n \/ p < n)
        BY <1>3, <4>1
      <4>3. x + 1 + k < z.ats[p] /\ L = z.ats[n]
        BY <1>2, <2>6, <4>2
      <4> HIDE DEF p
      <4>4. z.ats[p] <= z.ats[n] /\ z.ats[p] \in Int /\ z.ats[n] \in Int
        BY <1>3, <4>2
      <4> QED BY <4>3, <4>4
    <3> QED BY <3>1, <3>2
  <2>10. G(x + 1 + k) = G(x + 1)
    <3>1. x + 1 + k \in Int
      OBVIOUS
    <3>2. G(x + 1 + k) = T(x + 1 + k)
      BY <2>1, <2>9, <3>1
    <3> QED BY <2>4, <2>6, <3>2
  <2> QED BY <2>8, <2>10
<1> QED BY <1>4, <1>5, <1>6

(***************************************************************************)
(* A request whose seconds are in the minute, and whose fields fit ints    *)
(* when they are normalised, two years from the ends.                      *)
(***************************************************************************)
Regular(b) ==
  /\ InMinute(b) /\ Normalized(b, TRUE).ok
  /\ InnerYear(Normalized(b, TRUE).tm.year + TM_YEAR_BASE)

(***************************************************************************)
(* In an orderly zone the clock passes over none that it shows.            *)
(***************************************************************************)
LEMMA ShownIsUnskipped ==
  ASSUME WideInts, NEW z, IsZone(z), SoundLeaps(z), Orderly(z),
         NEW b \in StructTm, Regular(b), InstantsOf(z, b) # {}
  PROVE  ~Skips(z, Normalized(b, TRUE).tm)
<1> DEFINE n == Normalized(b, TRUE).tm
<1>1. NormalizedOf(b, TRUE, n)
  BY NormalizedRight DEF Regular
<1>2. InnerYear(n.year + TM_YEAR_BASE)
  BY DEF Regular
<1> HIDE DEF n
<1>3. n \in StructTm /\ IsNormal(n) /\ LocalSeconds(n) = LocalSeconds(b) /\ LocalSeconds(b) \in Int
  BY <1>1, Zenon DEF NormalizedOf, IsNormal, InMinute
<1>4. PICK w : w \in InstantsOf(z, b)
  OBVIOUS
<1>5. w \in Int /\ Reads(z, w, n)
  <2>1. PICK i \in 1 .. Len(z.ttis), c \in Corrections(z) : w = LocalSeconds(b) - z.ttis[i].gmtoff + c
    BY <1>4 DEF InstantsOf
  <2>2. z.ttis[i].gmtoff \in Int /\ c \in Int
    <3>1. z.lsis = <<>>
      BY DEF Orderly
    <3>2. c = 0
      BY <2>1, <3>1 DEF Corrections
    <3> QED BY <3>2 DEF IsZone
  <2>3. w \in Int
    BY <1>3, <2>1, <2>2
  <2> QED BY <1>3, <1>4, <2>3 DEF InstantsOf, Reads
<1>6. z.lsis = <<>> /\ Modest(z) /\ Settled(z)
  BY OrderlyIsSettled DEF Orderly
<1>7. ~Skips(z, n)
  BY <1>2, <1>3, <1>5, <1>6, ShownIsNotSkipped
<1> QED BY <1>7 DEF n

(* A regular request in an orderly zone.                                   *)
OrderlyRequest == Orderly(sp) /\ Regular(asked)

(***************************************************************************)
(* So the search is sure to find those that exist.                         *)
(***************************************************************************)
LEMMA OrderlyIsUnskipped ==
  ASSUME WideInts, MktimeInv, pc = "done", OrderlyRequest, InstantsOf(sp, asked) # {}
  PROVE  Unskipped
<1>1. IsZone(sp) /\ SoundLeaps(sp) /\ asked \in StructTm
  BY SearchAssumption, SoundLeapsAssumption DEF MktimeInv
<1>2. ~Skips(sp, Normalized(asked, TRUE).tm)
  BY <1>1, ShownIsUnskipped DEF OrderlyRequest
<1> QED BY <1>2 DEF Unskipped, OrderlyRequest, Orderly, Regular

(***************************************************************************)
(* tz_mktime finds an instant if there is one (ExistingTimeFound), in      *)
(* every orderly zone, whatever tm_isdst asks for: no word here about what *)
(* the binary search or the clock may pass over.                           *)
(***************************************************************************)
THEOREM OrderlyTimesAreFound ==
  ASSUME WideInts
  PROVE  Spec => [](OrderlyRequest => ExistingTimeFound)
<1>1. FoundInv => (OrderlyRequest => ExistingTimeFound)
  <2> SUFFICES ASSUME FoundInv, OrderlyRequest, pc = "done", Wanted(sp, asked) # {}
               PROVE  okay
    BY DEF ExistingTimeFound
  <2>1. InstantsOf(sp, asked) # {}
    BY DEF Wanted
  <2>2. Sure
    BY <2>1, OrderlyIsUnskipped DEF Sure, Unskipped, FoundInv
  <2> QED BY <2>2 DEF FoundInv, SureInv
<1> QED BY <1>1, FoundStarts, FoundStays, PTL DEF Spec

(***************************************************************************)
(* And a right one (FoundIsRight): there, with tm_isdst given, if the zone *)
(* has an instant of that kind; without it, at any rate.                   *)
(***************************************************************************)
THEOREM OrderlyTimesAreRight ==
  ASSUME WideInts
  PROVE  Spec => [](OrderlyRequest => FoundIsRight)
<1>1. FoundInv => (OrderlyRequest => FoundIsRight)
  <2> SUFFICES ASSUME FoundInv, OrderlyRequest, pc = "done", asked.isdst < 0 \/ Wanted(sp, asked) # {}
               PROVE  FoundIsRight
    BY Zenon DEF FoundIsRight
  <2>1. Unguessed
    <3>1. CASE asked.isdst < 0
      BY <3>1 DEF Unguessed, OrderlyRequest, Regular
    <3>2. CASE Wanted(sp, asked) # {}
      <4>1. InstantsOf(sp, asked) # {}
        BY <3>2 DEF Wanted
      <4> QED BY <4>1, OrderlyIsUnskipped, SureIsUnguessed DEF FoundInv
    <3> QED BY <3>1, <3>2
  <2> QED BY <2>1, FoundFollows DEF FoundInv
<1> QED BY <1>1, FoundStarts, FoundStays, PTL DEF Spec

(***************************************************************************)
(* What the client reads it can convert back (RoundTrip), with its own     *)
(* tm_isdst or none: in every orderly zone, for every reading in a year    *)
(* that is not one of the first or last two.                               *)
(***************************************************************************)
THEOREM OrderlyReadingsComeBack ==
  ASSUME WideInts
  PROVE  Spec => [](OrderlyRequest => RoundTrip)
<1>1. FoundInv => (OrderlyRequest => RoundTrip)
  <2> DEFINE read == localsub(sp, instant, ZeroTm).tm
  <2> SUFFICES ASSUME FoundInv, OrderlyRequest, pc = "done",
                      Civil(asked) = Civil(read), asked.isdst \in {-1, read.isdst}
               PROVE  okay /\ Civil(tm) = Civil(asked)
    BY DEF RoundTrip
  <2>1. sp \in Zones /\ instant \in Instants /\ localsub(sp, instant, ZeroTm).ok /\ asked \in StructTm
    BY DEF FoundInv, KeptInv, MktimeInv
  <2>2. IsZone(sp) /\ SoundLeaps(sp) /\ instant \in Int
    BY <2>1, SearchAssumption, SoundLeapsAssumption DEF TIME_T_MIN
  <2>3. InMinute(asked)
    BY DEF OrderlyRequest, Regular
  <2>4. instant \in Wanted(sp, asked)
    BY <2>1, <2>2, <2>3, ReadingIsWanted
  <2>5. InstantsOf(sp, asked) # {}
    BY <2>4 DEF Wanted
  <2>6. Unskipped
    BY <2>5, OrderlyIsUnskipped DEF FoundInv
  <2>7. RoundTrip
    BY <2>6, UnskippedComesBack
  <2> QED BY <2>7 DEF RoundTrip
<1> QED BY <1>1, FoundStarts, FoundStays, PTL DEF Spec

-----------------------------------------------------------------------------
(***************************************************************************)
(* What tm_isdst means.  The request in work is the caller's, or, while    *)
(* time1 tries the pair p of types, one moved by the difference of their   *)
(* offsets and of the other kind (libtz.c:1974-1980).                      *)
(***************************************************************************)
Difference(z, p) == z.ttis[p[2]].gmtoff - z.ttis[p[1]].gmtoff

InWork(z, b, p) ==
  IF p = FIRST THEN [b EXCEPT !.isdst = Kind(b)]
  ELSE [b EXCEPT !.sec = @ + Difference(z, p), !.isdst = Flip(Kind(b))]

(* The types of a pair: one of the kind asked for, and one of the other.   *)
PairFor(z, b, p) ==
  p = FIRST \/ /\ p[1] \in 1 .. Len(z.ttis) /\ p[2] \in 1 .. Len(z.ttis)
               /\ z.ttis[p[1]].isdst = Kind(b) /\ z.ttis[p[2]].isdst # Kind(b)

(* y is what the search for c looks for, s the seconds put aside.          *)
LooksFor(c, y, s) ==
  /\ y \in StructTm /\ s \in Int
  /\ LocalSeconds(y) \in Int /\ LocalSeconds(y) = LocalSeconds(c) - s
  /\ y.isdst = c.isdst

(* x is c on a clock with the offset of a type of its kind.                *)
OnAClock(z, c, x) ==
  \E i \in 1 .. Len(z.ttis) :
    z.ttis[i].isdst = c.isdst /\ x = LocalSeconds(c) - z.ttis[i].gmtoff

(* Within three years of b every year is an int, and no extreme one.       *)
Roomy(b) ==
  LET year == SECSPERDAY * DAYSPERNYEAR
  IN  \A x \in Int :
        LocalSeconds(b) - 3 * year <= x /\ x <= LocalSeconds(b) + 3 * year => InnerYear(YearAbout(x))

(* A request with tm_isdst, in a zone without leap seconds.                *)
Hinted == asked.isdst >= 0 /\ sp.lsis = <<>> /\ Modest(sp) /\ Roomy(asked)

(***************************************************************************)
(* Whatever time1 tries, tm is the request in work, from its start until   *)
(* an answer is found, the search is for that, and the answer is an        *)
(* instant at which a clock of its kind shows it.                          *)
(***************************************************************************)
HintInv ==
  pc \in {"time2sub", "search", "compare", "label", "time2", "done"} =>
    /\ sp \in Zones /\ asked \in StructTm /\ norm \in BOOLEAN
    /\ Hinted =>
         LET work == InWork(sp, asked, pair)
         IN  /\ PairFor(sp, asked, pair)
             /\ pc \in {"time2sub", "search", "compare", "label"} => tm = work
             /\ pc \in {"search", "compare", "label"} => LooksFor(work, yourtm, saved)
             /\ pc \in {"search", "compare"} => lo \in Int /\ hi \in Int
             /\ pc = "compare" => t \in Int /\ mytm = localsub(sp, t, ZeroTm)
             /\ pc = "label" => t \in Int /\ Shows(sp, t, yourtm)
             /\ pc = "time2" /\ ~okay => tm = work
             /\ pc \in {"time2", "done"} /\ okay => OnAClock(sp, work, result)

(***************************************************************************)
(* A struct tm stands for a second, whatever is in its fields.             *)
(***************************************************************************)
LEMMA SecondsAreNumbers ==
  ASSUME NEW b \in StructTm
  PROVE  LocalSeconds(b) \in Int
<1>1. Days(b) \in Int /\ b.hour \in Int /\ b.min \in Int /\ b.sec \in Int
  BY DaysOfMonth DEF StructTm
<1> DEFINE u == Days(b) * HOURSPERDAY
<1>2. u \in Int
  BY <1>1, Units, Products
<1> HIDE DEF u
<1> DEFINE v == (u + b.hour) * MINSPERHOUR
<1>3. v \in Int
  <2>1. u + b.hour \in Int /\ MINSPERHOUR \in Int
    BY <1>1, <1>2, Units
  <2> QED BY <2>1, Products
<1> HIDE DEF v
<1> DEFINE w == (v + b.min) * SECSPERMIN
<1>4. w \in Int
  <2>1. v + b.min \in Int /\ SECSPERMIN \in Int
    BY <1>1, <1>3, Units
  <2> QED BY <2>1, Products
<1>5. LocalSeconds(b) = w + b.sec
  BY DEF LocalSeconds, u, v
<1> HIDE DEF w
<1> QED BY <1>1, <1>4, <1>5

(***************************************************************************)
(* In a modest zone the request in work is a struct tm, not more than two  *)
(* years from what was asked for, and of a known kind.                     *)
(***************************************************************************)
LEMMA WorkIsNear ==
  ASSUME NEW z, IsZone(z), Modest(z), NEW b \in StructTm, b.isdst >= 0, NEW p, PairFor(z, b, p),
         NEW c, c = InWork(z, b, p)
  PROVE  LET year == SECSPERDAY * DAYSPERNYEAR
         IN  /\ c \in StructTm /\ c.isdst \in {0, 1}
             /\ c.isdst = (IF p = FIRST THEN Kind(b) ELSE Flip(Kind(b)))
             /\ LocalSeconds(c) = LocalSeconds(b) + (IF p = FIRST THEN 0 ELSE Difference(z, p))
             /\ LocalSeconds(c) \in Int
             /\ LocalSeconds(b) - 2 * year <= LocalSeconds(c) /\ LocalSeconds(c) <= LocalSeconds(b) + 2 * year
<1> DEFINE year == SECSPERDAY * DAYSPERNYEAR
<1>1. year \in Nat
  <2>1. SECSPERDAY \in Nat /\ DAYSPERNYEAR \in Nat
    BY Units DEF DAYSPERNYEAR
  <2> QED BY <2>1, Products
<1>2. Kind(b) \in {0, 1} /\ Flip(Kind(b)) \in {0, 1}
  BY DEF Kind, Flip, StructTm
<1>3. LocalSeconds(b) \in Int
  BY SecondsAreNumbers
<1>4. CASE p = FIRST
  <2>1. c = [b EXCEPT !.isdst = Kind(b)]
    BY <1>4 DEF InWork
  <2>2. c \in StructTm /\ LocalSeconds(c) = LocalSeconds(b) /\ c.isdst = Kind(b)
    BY <2>1, Kinds
  <2> HIDE DEF year
  <2>3. LocalSeconds(b) - 2 * year <= LocalSeconds(c) /\ LocalSeconds(c) <= LocalSeconds(b) + 2 * year
    BY <1>1, <1>3, <2>2
  <2> QED BY <1>2, <1>3, <1>4, <2>2, <2>3 DEF year
<1>5. CASE p # FIRST
  <2> DEFINE d == Difference(z, p)
             k == Flip(Kind(b))
             e == [b EXCEPT !.sec = @ - (-d)]
  <2>1. p[1] \in 1 .. Len(z.ttis) /\ p[2] \in 1 .. Len(z.ttis)
    BY <1>5 DEF PairFor
  <2>2. \A i \in 1 .. Len(z.ttis) : z.ttis[i].gmtoff \in Int /\ -year <= z.ttis[i].gmtoff /\ z.ttis[i].gmtoff <= year
    <3> SUFFICES ASSUME NEW i \in 1 .. Len(z.ttis)
                 PROVE  z.ttis[i].gmtoff \in Int /\ -year <= z.ttis[i].gmtoff /\ z.ttis[i].gmtoff <= year
      OBVIOUS
    <3>1. z.ttis[i].gmtoff \in Int
      BY DEF IsZone
    <3>2. 0 \in Corrections(z)
      BY DEF Corrections
    <3>3. -year <= z.ttis[i].gmtoff - 0 /\ z.ttis[i].gmtoff - 0 <= year
      BY <3>2 DEF Modest
    <3> HIDE DEF year
    <3> QED BY <1>1, <3>1, <3>3
  <2> HIDE DEF year
  <2>3. d \in Int /\ -(2 * year) <= d /\ d <= 2 * year
    <3> DEFINE f == z.ttis[p[2]].gmtoff
               g == z.ttis[p[1]].gmtoff
    <3>1. f \in Int /\ g \in Int /\ -year <= f /\ f <= year /\ -year <= g /\ g <= year
      BY <2>1, <2>2
    <3>2. d = f - g
      BY DEF Difference
    <3> HIDE DEF f, g, d
    <3> QED BY <1>1, <3>1, <3>2
  <2>4. c = [b EXCEPT !.sec = @ + d, !.isdst = k]
    BY <1>5 DEF InWork
  <2> HIDE DEF d, k
  <2>5. k \in {0, 1} /\ b.sec \in Int /\ b.sec + d \in Int /\ b.sec - (-d) = b.sec + d
    BY <1>2, <2>3 DEF k, StructTm
  <2>6. e \in StructTm /\ e.sec = b.sec + d
    BY <2>3, <2>5 DEF StructTm
  <2>7. c \in StructTm /\ c.isdst = k
    <3> DEFINE u == b.sec + d
               f == [b EXCEPT !.sec = u]
    <3>1. c = [f EXCEPT !.isdst = k] /\ u \in Int /\ k \in Int
      BY <2>4, <2>5
    <3> HIDE DEF u
    <3>2. f \in StructTm
      BY <3>1 DEF StructTm
    <3> HIDE DEF f
    <3> QED BY <3>1, <3>2 DEF StructTm
  <2>8. Civil(c) = Civil(e)
    BY <2>4, <2>5, <2>6 DEF Civil, StructTm
  <2>9. LocalSeconds(e) = LocalSeconds(b) - (-d)
    BY <2>3, EarlierSeconds
  <2> HIDE DEF e
  <2>10. LocalSeconds(c) = LocalSeconds(e)
    BY <2>6, <2>7, <2>8, SameReading
  <2>11. LocalSeconds(c) = LocalSeconds(b) + d
    BY <1>3, <2>3, <2>9, <2>10
  <2>12. LocalSeconds(b) - 2 * year <= LocalSeconds(c) /\ LocalSeconds(c) <= LocalSeconds(b) + 2 * year
         /\ LocalSeconds(c) \in Int
    BY <1>1, <1>3, <2>3, <2>11
  <2> QED BY <1>5, <2>5, <2>7, <2>11, <2>12 DEF d, k, year
<1> QED BY <1>4, <1>5

(***************************************************************************)
(* When the seconds are put back, the clock shows the request in work, but *)
(* for the seconds, and the instant is not refused.                        *)
(***************************************************************************)
LEMMA LabelIsOnAClock ==
  ASSUME WideInts, NEW z, IsZone(z), SoundLeaps(z), z.lsis = <<>>, Modest(z),
         NEW b \in StructTm, b.isdst >= 0, Roomy(b), NEW p, PairFor(z, b, p),
         NEW c, c = InWork(z, b, p), NEW y, NEW s, LooksFor(c, y, s), NEW x \in Int, Shows(z, x, y), NEW tmp
  PROVE  x + s \in Int /\ localsub(z, x + s, tmp).ok /\ OnAClock(z, c, x + s)
<1> DEFINE year == SECSPERDAY * DAYSPERNYEAR
           sub == localsub(z, x, ZeroTm)
<1>1. year \in Nat
  <2>1. SECSPERDAY \in Nat /\ DAYSPERNYEAR \in Nat
    BY Units DEF DAYSPERNYEAR
  <2> QED BY <2>1, Products
<1>2. /\ c \in StructTm /\ c.isdst \in {0, 1} /\ LocalSeconds(c) \in Int
      /\ LocalSeconds(b) - 2 * year <= LocalSeconds(c) /\ LocalSeconds(c) <= LocalSeconds(b) + 2 * year
  BY WorkIsNear
<1>3. LocalSeconds(b) \in Int
  BY SecondsAreNumbers
<1>4. y \in StructTm /\ s \in Int /\ LocalSeconds(y) = LocalSeconds(c) - s /\ y.isdst = c.isdst
  BY DEF LooksFor
<1>5. sub.ok /\ Civil(sub.tm) = Civil(y) /\ sub.tm.isdst = y.isdst
  BY <1>2, <1>4 DEF Shows
<1>6. PICK i \in 1 .. Len(z.ttis) :
           /\ sub.tm \in StructTm /\ sub.tm.isdst = z.ttis[i].isdst
           /\ LocalSeconds(sub.tm) = x + z.ttis[i].gmtoff /\ z.ttis[i].gmtoff \in Int
  BY <1>5, LocalsubNormal
<1>7. LocalSeconds(sub.tm) = LocalSeconds(y)
  <2> HIDE DEF sub
  <2> QED BY <1>4, <1>5, <1>6, SameReading
<1> DEFINE off == z.ttis[i].gmtoff
           lc == LocalSeconds(c)
           ly == LocalSeconds(y)
           lb == LocalSeconds(b)
<1>14. ly = lc - s /\ lc \in Int /\ s \in Int /\ off \in Int /\ ly = x + off
  BY <1>2, <1>4, <1>6, <1>7
<1>8. x + s = LocalSeconds(c) - z.ttis[i].gmtoff /\ x + s \in Int
  <2>1. x + s = lc - off /\ x + s \in Int
    <3> HIDE DEF off, lc, ly
    <3> QED BY <1>14
  <2> QED BY <2>1
<1>9. -year <= z.ttis[i].gmtoff /\ z.ttis[i].gmtoff <= year
  <2>1. 0 \in Corrections(z)
    BY DEF Corrections
  <2>2. -year <= z.ttis[i].gmtoff - 0 /\ z.ttis[i].gmtoff - 0 <= year
    BY <2>1 DEF Modest
  <2> HIDE DEF year
  <2> QED BY <1>1, <1>6, <2>2
<1>10. OnAClock(z, c, x + s)
  BY <1>4, <1>5, <1>6, <1>8 DEF OnAClock
<1> DEFINE v == x + s
<1>11. InnerYear(YearAbout(v))
  <2>1. v \in Int /\ LocalSeconds(b) - 3 * year <= v /\ v <= LocalSeconds(b) + 3 * year
    <3>1. /\ v = lc - off /\ lb \in Int /\ lb - 2 * year <= lc /\ lc <= lb + 2 * year
          /\ -year <= off /\ off <= year /\ lc \in Int /\ off \in Int
      BY <1>2, <1>3, <1>8, <1>9, <1>14
    <3>2. v \in Int /\ lb - 3 * year <= v /\ v <= lb + 3 * year
      <4> HIDE DEF year, lc, off, lb, v
      <4> QED BY <1>1, <3>1
    <3> QED BY <3>2
  <2> HIDE DEF v
  <2> QED BY <2>1 DEF Roomy
<1> HIDE DEF v
<1>12. v \in Int
  BY <1>8 DEF v
<1>13. localsub(z, v, tmp).ok
  BY <1>11, <1>12, InnerIsModerate, LocalsubAnswers
<1> QED BY <1>8, <1>10, <1>13 DEF v

(***************************************************************************)
(* tz_mktime starts with what the caller asked for.                        *)
(***************************************************************************)
LEMMA HintStarts ==
  ASSUME NEW b \in StructTm, sp \in Zones, tz_mktime(b)
  PROVE  HintInv'
<1>1. /\ tm' = [b EXCEPT !.isdst = Kind(b)] /\ asked' = b /\ pair' = FIRST /\ norm' = FALSE
      /\ pc' = "time2sub" /\ sp' = sp
  BY DEF tz_mktime, Kind
<1>2. PairFor(sp', b, FIRST) /\ InWork(sp', b, FIRST) = [b EXCEPT !.isdst = Kind(b)]
  BY DEF PairFor, InWork
<1> QED BY <1>1, <1>2 DEF HintInv

(***************************************************************************)
(* What the search looks for is the request in work, normalised.           *)
(***************************************************************************)
LEMMA WorkIsSought ==
  ASSUME NEW c \in StructTm, NEW seconds \in BOOLEAN, NEW n, n = Normalized(c, seconds), n.ok,
         NEW y, y = [n.tm EXCEPT !.sec = IF @ \in 0 .. SECSPERMIN - 1 THEN @
                                         ELSE IF EarlyYear(n.tm) THEN SECSPERMIN - 1 ELSE 0]
  PROVE  LooksFor(c, y, SavedSeconds(n.tm))
<1> DEFINE m == n.tm
<1>1. NormalizedOf(c, seconds, m)
  <2>1. Normalized(c, seconds).ok
    OBVIOUS
  <2>2. NormalizedOf(c, seconds, Normalized(c, seconds).tm)
    BY <2>1, NormalizedRight
  <2> QED BY <2>2
<1>2. y = [m EXCEPT !.sec = IF @ \in 0 .. SECSPERMIN - 1 THEN @
                            ELSE IF EarlyYear(m) THEN SECSPERMIN - 1 ELSE 0]
  OBVIOUS
<1> HIDE DEF m
<1>3. m \in StructTm /\ m.isdst = c.isdst /\ LocalSeconds(m) = LocalSeconds(c) /\ LocalSeconds(m) \in Int
  BY <1>1 DEF NormalizedOf
<1>4. /\ y \in StructTm /\ y.isdst = m.isdst /\ SavedSeconds(m) \in Int
      /\ LocalSeconds(y) = LocalSeconds(m) - SavedSeconds(m) /\ LocalSeconds(y) \in Int
  BY <1>2, <1>3, SavedRight
<1>5. LooksFor(c, y, SavedSeconds(m))
  BY <1>3, <1>4 DEF LooksFor
<1> QED BY <1>5 DEF m

(***************************************************************************)
(* time2sub: normalised, and the search begins.                            *)
(***************************************************************************)
LEMMA HintTime2sub ==
  ASSUME HintInv, time2sub
  PROVE  HintInv'
<1>1. /\ sp \in Zones /\ asked \in StructTm /\ norm \in BOOLEAN /\ pc = "time2sub"
      /\ UNCHANGED <<sp, asked, pair, norm>>
  BY DEF HintInv, time2sub
<1>2. pc' \in {"time2", "search"}
  BY DEF time2sub, NotFound
<1>3. SUFFICES ASSUME Hinted PROVE HintInv'
  BY <1>1 DEF HintInv, Hinted
<1> DEFINE c == InWork(sp, asked, pair)
           n == Normalized(tm, norm)
           s == SavedSeconds(n.tm)
           y == [n.tm EXCEPT !.sec = IF @ \in 0 .. SECSPERMIN - 1 THEN @
                                     ELSE IF EarlyYear(n.tm) THEN SECSPERMIN - 1 ELSE 0]
<1>4. tm = c /\ PairFor(sp, asked, pair)
  BY <1>1, <1>3 DEF HintInv
<1>5. CASE ~n.ok \/ ~IsInt(s)
  <2>1. okay' = FALSE /\ pc' = "time2" /\ tm' = tm
    BY <1>5, Zenon DEF time2sub, NotFound
  <2> QED BY <1>1, <1>4, <2>1 DEF HintInv
<1>6. CASE ~(~n.ok \/ ~IsInt(s))
  <2>1. saved' = s /\ yourtm' = y /\ lo' = TIME_T_MIN /\ hi' = TIME_T_MAX /\ pc' = "search" /\ tm' = tm
    BY <1>6, Zenon DEF time2sub
  <2>2. c \in StructTm
    <3>1. IsZone(sp)
      BY <1>1, SearchAssumption
    <3> QED BY <1>1, <1>3, <1>4, <3>1, WorkIsNear DEF Hinted
  <2>3. LooksFor(c, y, s)
    <3>1. n = Normalized(c, norm) /\ n.ok
      BY <1>4, <1>6
    <3>2. y = [n.tm EXCEPT !.sec = IF @ \in 0 .. SECSPERMIN - 1 THEN @
                                   ELSE IF EarlyYear(n.tm) THEN SECSPERMIN - 1 ELSE 0]
      OBVIOUS
    <3> HIDE DEF c, n, y
    <3> QED BY <1>1, <2>2, <3>1, <3>2, WorkIsSought
  <2>4. TIME_T_MIN \in Int /\ TIME_T_MAX \in Int
    BY SearchAssumption DEF TIME_T_MIN
  <2> HIDE DEF y, s, n
  <2> QED BY <1>1, <1>4, <2>1, <2>3, <2>4 DEF HintInv
<1> QED BY <1>5, <1>6

(***************************************************************************)
(* A probe is what the clock shows.                                        *)
(***************************************************************************)
LEMMA HintProbe ==
  ASSUME HintInv, Probe
  PROVE  HintInv'
<1>1. /\ pc = "search" /\ pc' = "compare" /\ t' = Middle /\ mytm' = localsub(sp, Middle, ZeroTm)
      /\ UNCHANGED <<sp, instant, tm, asked, pair, norm, yourtm, saved, lo, hi, okay, result>>
  BY DEF Probe
<1>2. Hinted => Middle \in Int
  <2> SUFFICES ASSUME Hinted PROVE Middle \in Int
    OBVIOUS
  <2>1. lo \in Int /\ hi \in Int
    BY <1>1 DEF HintInv
  <2> QED BY <2>1 DEF Middle, CDiv
<1> QED BY <1>1, <1>2 DEF HintInv, Hinted

(***************************************************************************)
(* A probe that is too early or too late.                                  *)
(***************************************************************************)
LEMMA HintNarrow ==
  ASSUME HintInv, Narrow
  PROVE  HintInv'
<1>1. pc = "compare" /\ UNCHANGED <<sp, instant, asked, pair, norm, yourtm, saved, t, mytm>>
      /\ pc' \in {"search", "time2"} /\ UNCHANGED tm
  BY DEF Narrow, NotFound
<1>2. SUFFICES ASSUME Hinted PROVE HintInv'
  BY <1>1 DEF HintInv, Hinted
<1>3. lo \in Int /\ hi \in Int /\ t \in Int
  BY <1>1, <1>2 DEF HintInv
<1> DEFINE atLo == t = lo
           atHi == t # lo /\ t = hi
           next == IF atLo THEN t + 1 ELSE IF atHi THEN t - 1 ELSE t
           lo1  == IF atLo THEN lo + 1 ELSE lo
           hi1  == IF atHi THEN hi - 1 ELSE hi
<1>4. CASE pc' = "time2"
  <2>1. okay' = FALSE
    BY <1>4 DEF Narrow, NotFound
  <2> QED BY <1>1, <1>2, <1>4, <2>1 DEF HintInv
<1>5. CASE pc' = "search"
  <2>1. \/ lo' = lo1 /\ hi' = next
        \/ lo' = next /\ hi' = hi1
    <3>1. IF lo1 > hi1 THEN NotFound
          ELSE IF Direction > 0 THEN lo' = lo1 /\ hi' = next ELSE lo' = next /\ hi' = hi1
      BY Zenon DEF Narrow
    <3>2. ~NotFound
      BY <1>5 DEF NotFound
    <3> HIDE DEF lo1, hi1, next
    <3> QED BY <3>1, <3>2
  <2>2. lo' \in Int /\ hi' \in Int
    BY <1>3, <2>1
  <2> HIDE DEF lo1, hi1, next
  <2> QED BY <1>1, <1>2, <1>5, <2>2 DEF HintInv
<1> QED BY <1>1, <1>4, <1>5

(***************************************************************************)
(* A probe that is right, in the kind in work.                             *)
(***************************************************************************)
LEMMA HintMatch ==
  ASSUME HintInv, Match
  PROVE  HintInv'
<1>1. /\ pc = "compare" /\ pc' = "label" /\ Direction = 0 /\ RightType
      /\ UNCHANGED <<sp, instant, tm, asked, pair, norm, yourtm, saved, lo, hi, t, mytm, okay, result>>
  BY DEF Match, search_vars
<1>2. SUFFICES ASSUME Hinted PROVE HintInv'
  BY <1>1 DEF HintInv, Hinted
<1>3. /\ sp \in Zones /\ asked \in StructTm /\ t \in Int /\ mytm = localsub(sp, t, ZeroTm)
      /\ LooksFor(InWork(sp, asked, pair), yourtm, saved)
  BY <1>1, <1>2 DEF HintInv
<1>4. mytm.ok /\ tmcomp(mytm.tm, yourtm) = 0
  BY <1>1, <1>3 DEF Direction
<1>5. mytm.tm \in StructTm /\ yourtm \in StructTm
  <2>1. IsZone(sp) /\ SoundLeaps(sp)
    BY <1>3, SearchAssumption, SoundLeapsAssumption
  <2>2. localsub(sp, t, ZeroTm).ok
    BY <1>3, <1>4
  <2>3. localsub(sp, t, ZeroTm).tm \in StructTm
    BY <1>3, <2>1, <2>2, LocalsubType
  <2> QED BY <1>3, <2>3 DEF LooksFor
<1>6. Civil(mytm.tm) = Civil(yourtm)
  BY <1>4, <1>5, SameCivil
<1>7. Shows(sp, t, yourtm)
  BY <1>1, <1>3, <1>4, <1>6 DEF Shows, RightType
<1> QED BY <1>1, <1>2, <1>3, <1>7 DEF HintInv

(***************************************************************************)
(* The other types, tried at the instant found.                            *)
(***************************************************************************)
LEMMA HintHunt ==
  ASSUME HintInv, Hunt
  PROVE  HintInv'
<1>1. /\ pc = "compare" /\ pc' \in {"label", "time2"}
      /\ UNCHANGED <<sp, instant, asked, pair, norm, yourtm, saved, lo, hi, mytm, tm>>
      /\ IF Matching = {} THEN NotFound ELSE t' = Moved(Highest(Matching)) /\ pc' = "label"
  BY DEF Hunt, NotFound
<1>2. SUFFICES ASSUME Hinted PROVE HintInv'
  BY <1>1 DEF HintInv, Hinted
<1>3. sp \in Zones /\ t \in Int /\ LooksFor(InWork(sp, asked, pair), yourtm, saved)
  BY <1>1, <1>2 DEF HintInv
<1>4. CASE Matching = {}
  <2>1. okay' = FALSE /\ pc' = "time2"
    BY <1>1, <1>4 DEF NotFound
  <2> QED BY <1>1, <1>2, <2>1 DEF HintInv
<1>5. CASE Matching # {}
  <2> DEFINE p == Highest(Matching)
             x == Moved(p)
             sub == localsub(sp, x, ZeroTm)
  <2>1. IsZone(sp) /\ SoundLeaps(sp)
    BY <1>3, SearchAssumption, SoundLeapsAssumption
  <2>2. p \in Matching
    <3>1. Len(sp.ttis) \in Nat
      BY <2>1 DEF IsZone
    <3>2. Matching \in SUBSET ((1 .. Len(sp.ttis)) \X (1 .. Len(sp.ttis)))
      BY DEF Matching
    <3> QED BY <1>5, <3>1, <3>2, HighestIsOne
  <2>3. p[1] \in 1 .. Len(sp.ttis) /\ p[2] \in 1 .. Len(sp.ttis) /\ Matches(sub)
    BY <2>2 DEF Matching
  <2> HIDE DEF p
  <2>4. x \in Int
    BY <1>3, <2>1, <2>3 DEF Moved, IsZone
  <2> HIDE DEF x
  <2>5. sub.ok /\ tmcomp(sub.tm, yourtm) = 0 /\ sub.tm.isdst = yourtm.isdst
    BY <2>3 DEF Matches
  <2>6. sub.tm \in StructTm /\ yourtm \in StructTm
    BY <1>3, <2>1, <2>4, <2>5, LocalsubType DEF LooksFor
  <2>7. Civil(sub.tm) = Civil(yourtm)
    <3> HIDE DEF sub
    <3> QED BY <2>5, <2>6, SameCivil
  <2>8. Shows(sp, x, yourtm)
    BY <2>5, <2>7 DEF Shows
  <2>9. t' = x /\ pc' = "label"
    BY <1>1, <1>5 DEF x, p
  <2> QED BY <1>1, <1>2, <1>3, <2>4, <2>8, <2>9 DEF HintInv
<1> QED BY <1>4, <1>5

(***************************************************************************)
(* The seconds are put back.                                               *)
(***************************************************************************)
LEMMA HintLabel ==
  ASSUME WideInts, HintInv, label
  PROVE  HintInv'
<1> DEFINE sub == localsub(sp, t + saved, tm)
           c == InWork(sp, asked, pair)
<1>1. /\ pc = "label" /\ pc' = "time2" /\ tm' = sub.tm /\ okay' = sub.ok /\ result' = t + saved
      /\ UNCHANGED <<sp, asked, pair, norm>>
  BY DEF label
<1>2. SUFFICES ASSUME Hinted PROVE HintInv'
  BY <1>1 DEF HintInv, Hinted
<1>3. /\ sp \in Zones /\ asked \in StructTm /\ t \in Int /\ Shows(sp, t, yourtm)
      /\ LooksFor(c, yourtm, saved) /\ PairFor(sp, asked, pair)
  BY <1>1, <1>2 DEF HintInv
<1>4. IsZone(sp) /\ SoundLeaps(sp)
  BY <1>3, SearchAssumption, SoundLeapsAssumption
<1>5. asked.isdst >= 0 /\ sp.lsis = <<>> /\ Modest(sp) /\ Roomy(asked)
  BY <1>2 DEF Hinted
<1>6. sub.ok /\ OnAClock(sp, c, t + saved)
  <2> HIDE DEF c
  <2>1. c = InWork(sp, asked, pair)
    BY DEF c
  <2> QED BY <1>3, <1>4, <1>5, <2>1, LabelIsOnAClock
<1> HIDE DEF sub
<1> QED BY <1>1, <1>2, <1>3, <1>6 DEF HintInv

(***************************************************************************)
(* time1 undoes one guess before it makes the next, so that its guesses    *)
(* do not add up.                                                          *)
(***************************************************************************)
LEMMA GuessIsUndone ==
  ASSUME NEW b \in StructTm, b.isdst >= 0, IsZone(sp), PairFor(sp, b, pair), tm = InWork(sp, b, pair)
  PROVE  Restored = [b EXCEPT !.isdst = Kind(b)]
<1>1. CASE pair = FIRST
  BY <1>1 DEF Restored, InWork
<1>2. CASE pair # FIRST
  <2> DEFINE d == Difference(sp, pair)
             k == Kind(b)
             u == b.sec + d
             f == [b EXCEPT !.sec = u]
  <2>1. pair[1] \in 1 .. Len(sp.ttis) /\ pair[2] \in 1 .. Len(sp.ttis)
    BY <1>2 DEF PairFor
  <2>2. d \in Int
    BY <2>1 DEF Difference, IsZone
  <2>3. k \in {0, 1} /\ Flip(Flip(k)) = k
    BY DEF Kind, Flip, StructTm
  <2>4. Shift(pair) = d
    BY DEF Shift, Difference
  <2>5. tm = [b EXCEPT !.sec = @ + d, !.isdst = Flip(k)]
    BY <1>2 DEF InWork
  <2> HIDE DEF d, k
  <2>6. Restored = [tm EXCEPT !.sec = @ - d, !.isdst = Flip(@)]
    BY <1>2, <2>4 DEF Restored
  <2>7. b.sec + d - d = b.sec /\ b.sec \in Int
    BY <2>2 DEF StructTm
  <2>8. tm.sec = b.sec + d /\ tm.isdst = Flip(k)
    BY <2>5 DEF StructTm
  <2>9. Restored = [tm EXCEPT !.sec = b.sec, !.isdst = k]
    <3>1. tm.sec - d = b.sec /\ Flip(tm.isdst) = k
      <4>1. tm.sec - d = b.sec
        BY <2>2, <2>7, <2>8
      <4>2. Flip(tm.isdst) = k
        BY <2>3, <2>8, Zenon
      <4> QED BY <4>1, <4>2
    <3> QED BY <2>6, <3>1, Zenon
  <2>10. [tm EXCEPT !.sec = b.sec, !.isdst = k] = [b EXCEPT !.isdst = k]
    BY <2>5 DEF StructTm
  <2> QED BY <2>9, <2>10 DEF k
<1> QED BY <1>1, <1>2

(***************************************************************************)
(* time1: no answer, or a guess.                                           *)
(***************************************************************************)
LEMMA HintTime1 ==
  ASSUME HintInv, time1
  PROVE  HintInv'
<1>1. /\ pc = "time2" /\ ~okay /\ pc' \in {"done", "time2sub"} /\ UNCHANGED <<sp, asked, okay>>
  BY DEF time1
<1>2. sp \in Zones /\ asked \in StructTm /\ norm \in BOOLEAN /\ IsZone(sp)
  BY <1>1, SearchAssumption DEF HintInv
<1>3. norm' \in BOOLEAN
  BY <1>2 DEF time1
<1>4. SUFFICES ASSUME Hinted PROVE HintInv'
  BY <1>1, <1>2, <1>3 DEF HintInv, Hinted
<1>5. tm = InWork(sp, asked, pair) /\ PairFor(sp, asked, pair) /\ asked.isdst >= 0
  BY <1>1, <1>4 DEF HintInv, Hinted
<1>6. Restored = [asked EXCEPT !.isdst = Kind(asked)]
  BY <1>2, <1>5, GuessIsUndone
<1>7. CASE pc' = "done"
  <2>1. UNCHANGED pair
    BY <1>7 DEF time1
  <2> QED BY <1>1, <1>2, <1>3, <1>5, <1>7, <2>1 DEF HintInv
<1>8. CASE pc' = "time2sub"
  <2>1. PICK p \in Untried : pair' = p /\ tm' = [Restored EXCEPT !.sec = @ + Shift(p), !.isdst = Flip(@)]
    BY <1>8 DEF time1
  <2>2. Restored.isdst = Kind(asked)
    BY <1>2, <1>6, Kinds
  <2>3. /\ p[1] \in 1 .. Len(sp.ttis) /\ p[2] \in 1 .. Len(sp.ttis)
        /\ sp.ttis[p[1]].isdst = Kind(asked) /\ sp.ttis[p[2]].isdst # Kind(asked)
    BY <1>2, <2>1, <2>2 DEF Untried, Seen, IsZone
  <2>4. p # FIRST
    BY <2>3 DEF FIRST
  <2>5. PairFor(sp, asked, p)
    BY <2>3 DEF PairFor
  <2>6. Shift(p) = Difference(sp, p)
    BY DEF Shift, Difference
  <2>7. tm' = [asked EXCEPT !.sec = @ + Difference(sp, p), !.isdst = Flip(Kind(asked))]
    BY <1>2, <1>6, <2>1, <2>6 DEF StructTm
  <2>8. tm' = InWork(sp, asked, p)
    BY <2>4, <2>7 DEF InWork
  <2> QED BY <1>1, <1>2, <1>3, <1>8, <2>1, <2>5, <2>8 DEF HintInv
<1> QED BY <1>1, <1>7, <1>8

(***************************************************************************)
(* time2 tries again, or time1 has its answer.                             *)
(***************************************************************************)
LEMMA HintReturns ==
  ASSUME HintInv, time2 \/ Return
  PROVE  HintInv'
<1>1. CASE time2
  <2>1. pc = "time2" /\ ~okay /\ norm' = TRUE /\ pc' = "time2sub" /\ UNCHANGED <<sp, tm, asked, pair>>
    BY <1>1 DEF time2
  <2> QED BY <2>1 DEF HintInv, Hinted
<1>2. CASE Return
  <2>1. pc = "time2" /\ pc' = "done" /\ UNCHANGED <<sp, tm, asked, pair, norm, okay, result>>
    BY <1>2 DEF Return
  <2> QED BY <2>1 DEF HintInv, Hinted
<1> QED BY <1>1, <1>2

(***************************************************************************)
(* Every step of the client keeps it.                                      *)
(***************************************************************************)
LEMMA HintStays ==
  ASSUME WideInts, ReadInv, HintInv, [Next]_vars
  PROVE  HintInv'
<1>1. CASE Ask \/ NextQuestion
  <2>1. pc' \in {"read", "failed", "idle"}
    BY <1>1 DEF Ask, tz_localtime_r, NextQuestion
  <2> QED BY <2>1 DEF HintInv
<1>2. CASE AskFor
  <2>1. PICK e \in Edits, h \in Hints : pc = "read" /\ tz_mktime([Edited(tm, e) EXCEPT !.isdst = h])
    BY <1>2 DEF AskFor
  <2> DEFINE b == [Edited(tm, e) EXCEPT !.isdst = h]
  <2>2. sp \in Zones /\ b \in StructTm
    <3>1. sp \in Zones /\ tm \in StructTm
      BY <2>1, ReadType
    <3> QED BY <2>1, <3>1, EditedType, SearchAssumption
  <2> HIDE DEF b
  <2> QED BY <2>1, <2>2, HintStarts DEF b
<1>3. CASE MktimeStep
  BY <1>3, HintTime2sub, HintProbe, HintNarrow, HintMatch, HintHunt, HintLabel, HintTime1, HintReturns
     DEF MktimeStep
<1>4. CASE UNCHANGED vars
  BY <1>4 DEF HintInv, Hinted, vars, search_vars
<1> QED BY <1>1, <1>2, <1>3, <1>4 DEF Next

(***************************************************************************)
(* With tm_isdst given, what tz_mktime answers is what a clock put forward *)
(* (or not) means (HintMeansOffset), also for times that are not of that   *)
(* kind or that no clock shows: whatever seconds are put aside, and        *)
(* however many pairs of types time1 tries.  With two types, a guess moves *)
(* the time by the difference of their offsets, and the clock of the other *)
(* type moves it back.                                                     *)
(***************************************************************************)
THEOREM HintsMeanOffsets ==
  ASSUME WideInts
  PROVE  Spec => [](Hinted => HintMeansOffset)
<1>1. Init => ReadInv /\ HintInv
  BY DEF Init, ReadInv, HintInv
<1>2. HintInv => (Hinted => HintMeansOffset)
  <2> SUFFICES ASSUME HintInv, Hinted, pc = "done", okay, asked.isdst >= 0, Len(sp.ttis) <= 2
               PROVE  \E i \in 1 .. Len(sp.ttis) :
                        /\ sp.ttis[i].isdst = (IF asked.isdst > 0 THEN 1 ELSE 0)
                        /\ result = LocalSeconds(asked) - sp.ttis[i].gmtoff
    BY DEF HintMeansOffset
  <2> DEFINE c == InWork(sp, asked, pair)
  <2>1. sp \in Zones /\ asked \in StructTm /\ PairFor(sp, asked, pair) /\ OnAClock(sp, c, result)
    BY DEF HintInv
  <2>2. IsZone(sp) /\ Modest(sp)
    BY <2>1, SearchAssumption DEF Hinted
  <2>3. /\ c.isdst = (IF pair = FIRST THEN Kind(asked) ELSE Flip(Kind(asked)))
        /\ LocalSeconds(c) = LocalSeconds(asked) + (IF pair = FIRST THEN 0 ELSE Difference(sp, pair))
    BY <2>1, <2>2, WorkIsNear
  <2>4. Kind(asked) = (IF asked.isdst > 0 THEN 1 ELSE 0) /\ Flip(Kind(asked)) # Kind(asked)
    BY <2>1 DEF Kind, Flip, StructTm
  <2>5. LocalSeconds(asked) \in Int
    BY <2>1, SecondsAreNumbers
  <2> HIDE DEF c
  <2>6. PICK i \in 1 .. Len(sp.ttis) :
             sp.ttis[i].isdst = c.isdst /\ result = LocalSeconds(c) - sp.ttis[i].gmtoff
    BY <2>1 DEF OnAClock
  <2>7. CASE pair = FIRST
    <3>1. LocalSeconds(c) = LocalSeconds(asked)
      BY <2>3, <2>5, <2>7
    <3> QED BY <2>3, <2>4, <2>6, <2>7, <3>1
  <2>8. CASE pair # FIRST
    <3> DEFINE p == pair[1]
               q == pair[2]
    <3>1. p \in 1 .. Len(sp.ttis) /\ q \in 1 .. Len(sp.ttis)
          /\ sp.ttis[p].isdst = Kind(asked) /\ sp.ttis[q].isdst # Kind(asked)
      BY <2>1, <2>8 DEF PairFor
    <3>2. i = q
      <4>1. i # p /\ q # p
        BY <2>3, <2>4, <2>6, <2>8, <3>1
      <4>2. Len(sp.ttis) \in Nat /\ i \in 1 .. Len(sp.ttis) /\ p \in 1 .. Len(sp.ttis) /\ q \in 1 .. Len(sp.ttis)
        BY <2>2, <3>1 DEF IsZone
      <4> HIDE DEF p, q
      <4> QED BY <4>1, <4>2
    <3>3. LocalSeconds(c) = LocalSeconds(asked) + (sp.ttis[q].gmtoff - sp.ttis[p].gmtoff)
      BY <2>3, <2>8 DEF Difference
    <3>4. result = LocalSeconds(asked) - sp.ttis[p].gmtoff
      <4> DEFINE u == sp.ttis[q].gmtoff
                 v == sp.ttis[p].gmtoff
                 l == LocalSeconds(asked)
      <4>1. u \in Int /\ v \in Int /\ l \in Int
        BY <2>2, <2>5, <3>1 DEF IsZone
      <4>2. result = (l + (u - v)) - u
        BY <2>6, <3>2, <3>3
      <4> HIDE DEF u, v, l
      <4>3. result = l - v
        BY <4>1, <4>2
      <4> QED BY <4>3 DEF l, v
    <3> QED BY <2>4, <3>1, <3>4
  <2> QED BY <2>7, <2>8
<1>3. HintInv /\ ReadInv /\ [Next]_vars => HintInv' /\ ReadInv'
  BY HintStays, ReadStays
<1> QED BY <1>1, <1>2, <1>3, PTL DEF Spec

-----------------------------------------------------------------------------

Searching == {"time2sub", "search", "compare", "label", "time2", "done"}

(***************************************************************************)
(* A zone is held only inside of the two functions, and it is the one that *)
(* cleanup is given: until localtime_tz has converted, and from the lookup *)
(* of mktime_tz until it is known that the fields are no date or tz_mktime *)
(* has returned.                                                           *)
(***************************************************************************)
HeldInv ==
  /\ call \in {"none", "null", "localtime_tz", "read", "looked_up", "mktime_tz", "answered"}
  /\ held = IF call \in {"localtime_tz", "looked_up", "mktime_tz"} THEN {tz} ELSE {}
  /\ call = "localtime_tz" => pc = "idle"
  /\ call = "looked_up" => pc = "read"
  /\ call = "mktime_tz" => pc \in Searching

(***************************************************************************)
(* tz_mktime stays in the search until it returns.                         *)
(***************************************************************************)
LEMMA SearchingStays ==
  ASSUME pc \in Searching, MktimeStep
  PROVE  pc' \in Searching
BY DEF Searching, MktimeStep, time2sub, Probe, Narrow, Match, Hunt, NotFound, label, time2, time1,
       Return

(***************************************************************************)
(* Every step keeps the account of the zones that are held.                *)
(***************************************************************************)
LEMMA HeldStays ==
  ASSUME HeldInv, [PosixNext]_everything
  PROVE  HeldInv'
<1>1. CASE call = "none" /\ DtNext /\ UNCHANGED posix_vars
  BY <1>1 DEF HeldInv, posix_vars
<1>2. CASE pc = "idle" /\ \E name \in Names, x \in Instants : localtime_tz(name, x)
  BY <1>2 DEF HeldInv, localtime_tz, Refused
<1>3. CASE LocaltimeReturns
  <2>1. held' = {} /\ call' \in {"null", "read"}
    BY <1>3 DEF HeldInv, LocaltimeReturns, Released, Refused
  <2> QED
    BY <2>1 DEF HeldInv
<1>4. ASSUME NEW name, NEW b, mktime_tz(name, b)
      PROVE  HeldInv'
  <2>1. call = "read" /\ held = {} /\ pc = "read"
    BY <1>4 DEF HeldInv, mktime_tz
  <2>2. CASE name = UNKNOWN
    <3>1. call' = "answered" /\ held' = {}
      BY <1>4, <2>1, <2>2 DEF mktime_tz, Answered
    <3> QED BY <3>1 DEF HeldInv
  <2>3. CASE name # UNKNOWN
    <3>1. call' = "looked_up" /\ held' = {name} /\ tz' = name /\ pc' = "read"
      BY <1>4, <2>1, <2>3 DEF mktime_tz
    <3> QED BY <3>1 DEF HeldInv
  <2> QED
    BY <2>2, <2>3
<1>9. CASE MktimeTzConverts
  <2>1. call = "looked_up" /\ held = {tz} /\ tz' = tz
    BY <1>9 DEF HeldInv, MktimeTzConverts
  <2>2. CASE IsDate(rep')
    <3>1. call' = "mktime_tz" /\ held' = {tz} /\ pc' = "time2sub"
      BY <1>9, <2>1, <2>2 DEF MktimeTzConverts, tz_mktime
    <3> QED BY <2>1, <3>1 DEF HeldInv, Searching
  <2>3. CASE ~IsDate(rep')
    <3>1. call' = "answered" /\ held' = {}
      BY <1>9, <2>1, <2>3 DEF MktimeTzConverts, Answered, Released
    <3> QED BY <3>1 DEF HeldInv
  <2> QED
    BY <2>2, <2>3
<1>5. CASE call = "mktime_tz" /\ MktimeStep /\ UNCHANGED <<dt_vars, posix_vars>>
  BY <1>5, SearchingStays DEF HeldInv, dt_vars, posix_vars
<1>6. CASE MktimeTzReturns
  BY <1>6 DEF HeldInv, MktimeTzReturns, Answered, Released
<1>7. CASE call # "none" /\ Forget /\ call' = "none" /\ UNCHANGED held
  BY <1>7 DEF HeldInv, Forget, Searching
<1>8. CASE UNCHANGED everything
  BY <1>8 DEF HeldInv, everything, all_vars, vars, dt_vars, posix_vars
<1> QED
  BY <1>1, <1>2, <1>3, <1>4, <1>5, <1>6, <1>7, <1>8, <1>9 DEF PosixNext

(***************************************************************************)
(* localtime_tz and mktime_tz clean up the zone they looked up, on each of *)
(* their paths (dt.c:512-585).                                             *)
(***************************************************************************)
THEOREM EveryPathCleansUp == PosixSpec => []ZonesReleased
<1>1. PosixInit => HeldInv
  BY DEF PosixInit, DtInit, HeldInv
<1>2. HeldInv => ZonesReleased
  BY DEF HeldInv, ZonesReleased
<1> QED
  BY <1>1, <1>2, HeldStays, PTL DEF PosixSpec

-----------------------------------------------------------------------------
(***************************************************************************)
(* What the answer x of tz_mktime means for the request b, if its seconds  *)
(* are in the minute.                                                      *)
(***************************************************************************)
Answers(x, b) ==
  /\ sp \in Zones /\ b \in StructTm
  /\ InMinute(b) => x = WRONG \/ (x \in Int /\ ShownAt(sp, x, b, 0))

(* The fields of a representation are not negative, whatever the year.     *)
Unsigned(r) ==
  /\ r.year \in Int
  /\ r.month \in Nat /\ r.day \in Nat /\ r.hour \in Nat /\ r.minute \in Nat /\ r.second \in Nat

(***************************************************************************)
(* The client's representation is that of the struct tm it has read, the   *)
(* search is for the one it has asked for, the timestamp is written when   *)
(* there is an answer, and what is answered is an instant of the request   *)
(* or -1, the only answer if the zone was not found.                       *)
(***************************************************************************)
ConvInv ==
  /\ call = "localtime_tz" => tz \in Zones /\ instant \in Instants
  /\ pc = "read" =>
       /\ rep = dt_tm_to_representation(tm, rep.nano_second)
       /\ rep.nano_second \in 0 .. MAX_NANOSECONDS
       /\ call = "read" => local \in StructTm
  /\ pc \in Searching => asked = Request /\ Unsigned(rep)
  /\ pc # "converted" => first = ZeroTimestamp
  /\ Converted =>
       /\ Answers(result, Request) /\ Unsigned(rep)
       /\ IF result = WRONG THEN status = "DT_INVALID_ARGUMENT" /\ first = ZeroTimestamp
          ELSE status = "DT_OK" /\ first = [second |-> result, nano_second |-> rep.nano_second]
  /\ call \in {"looked_up", "mktime_tz"} => tz # UNKNOWN
  /\ call \in {"looked_up", "mktime_tz", "answered"} => local \in StructTm
  /\ call = "mktime_tz" => rep = Shortened(local) /\ IsDate(rep)
  /\ call = "answered" =>
       \/ tz = UNKNOWN /\ answer = WRONG
       \/ /\ tz # UNKNOWN /\ rep = Shortened(local)
          /\ answer = WRONG \/ (IsDate(rep) /\ Answers(answer, Request))

(***************************************************************************)
(* dt_representation_to_tm makes a struct tm.                              *)
(***************************************************************************)
LEMMA RequestType ==
  ASSUME NEW r, r.year \in Int, r.month \in Int, r.day \in Int, r.hour \in Int, r.minute \in Int,
         r.second \in Int
  PROVE  dt_representation_to_tm(r) \in StructTm
BY DEF dt_representation_to_tm, StructTm

(***************************************************************************)
(* So it does of unsigned fields.                                          *)
(***************************************************************************)
LEMMA UnsignedRequest ==
  ASSUME NEW r, Unsigned(r)
  PROVE  dt_representation_to_tm(r) \in StructTm
BY RequestType DEF Unsigned

(***************************************************************************)
(* A struct tm that mktime_tz squeezes into unsigned shorts has such       *)
(* fields.                                                                 *)
(***************************************************************************)
LEMMA ShortenedType ==
  ASSUME NEW b \in StructTm
  PROVE  Unsigned(Shortened(b))
<1> DEFINE r == Shortened(b)
<1>1. USHRT_MAX + 1 \in Nat \ {0}
  BY ConversionAssumption
<1>2. \A x \in Int : UShort(x) \in Nat
  BY <1>1, DivMod DEF UShort
<1>3. b.year \in Int /\ b.mon + 1 \in Int /\ b.mday \in Int /\ b.hour \in Int /\ b.min \in Int /\ b.sec \in Int
  BY DEF StructTm
<1>4. /\ r.year \in Int /\ r.month \in Nat /\ r.day \in Nat /\ r.hour \in Nat /\ r.minute \in Nat
      /\ r.second \in Nat
  BY <1>2, <1>3 DEF Shortened
<1> QED BY <1>4 DEF Unsigned

(***************************************************************************)
(* A representation has such fields.                                       *)
(***************************************************************************)
LEMMA RepresentationType ==
  ASSUME NEW r \in Representation
  PROVE  Unsigned(r)
<1>1. USHRT_MAX \in Nat /\ INT_MAX \in Nat
  BY ConversionAssumption, UnitAssumption
<1> QED BY <1>1 DEF Representation, INT_MIN, Unsigned

(***************************************************************************)
(* When tz_mktime returns, it has answered the request: neither function   *)
(* asks for a type, so it never guesses one.                               *)
(***************************************************************************)
LEMMA DoneAnswers ==
  ASSUME MktimeInv, pc = "done", asked = Request
  PROVE  Answers(result, Request)
<1>1. sp \in Zones /\ asked \in StructTm /\ (asked.isdst < 0 /\ InMinute(asked) => pair = FIRST)
  BY DEF MktimeInv
<1>2. asked.isdst = -1
  BY DEF Request, dt_representation_to_tm
<1>3. SUFFICES ASSUME InMinute(asked) PROVE result = WRONG \/ (result \in Int /\ ShownAt(sp, result, asked, 0))
  BY <1>1 DEF Answers
<1>4. Trusted
  BY <1>1, <1>2, <1>3 DEF Trusted
<1>5. CASE ~okay
  BY <1>3, <1>4, <1>5 DEF MktimeInv
<1>6. CASE okay
  <2> DEFINE s == SavedSeconds(Normalized(asked, FALSE).tm)
  <2>1. result \in Int /\ ShownAt(sp, result - s, asked, s)
    BY <1>4, <1>6 DEF MktimeInv
  <2>2. s = 0
    BY <1>1, <1>3, NormalizedSecond
  <2> HIDE DEF s
  <2>3. result - s = result
    BY <2>1, <2>2
  <2> QED BY <2>1, <2>2, <2>3
<1> QED BY <1>5, <1>6

(***************************************************************************)
(* An answer that is not -1 is an instant of the request.                  *)
(***************************************************************************)
LEMMA AnsweredInstant ==
  ASSUME NEW x, NEW b, Answers(x, b), InMinute(b), x # WRONG
  PROVE  ShownAt(sp, x, b, 0) /\ x \in InstantsOf(sp, b)
<1>1. sp \in Zones /\ b \in StructTm /\ ShownAt(sp, x, b, 0) /\ x \in Int
  BY DEF Answers
<1>2. IsZone(sp) /\ SoundLeaps(sp)
  BY <1>1, SearchAssumption, SoundLeapsAssumption
<1>3. 0 \in Int
  OBVIOUS
<1>4. x \in Wanted(sp, [b EXCEPT !.sec = @ - 0])
  BY <1>1, <1>2, <1>3, FoundRight
<1>5. [b EXCEPT !.sec = @ - 0] = b
  <2>1. b.sec - 0 = b.sec
    BY <1>1 DEF StructTm
  <2> QED BY <1>1, <2>1 DEF StructTm
<1> QED BY <1>1, <1>4, <1>5 DEF Wanted

(***************************************************************************)
(* What has been read stays read, whichever function reads.                *)
(***************************************************************************)
LEMMA ReadStaysPosix ==
  ASSUME HeldInv, ReadInv, ConvInv, [PosixNext]_everything
  PROVE  ReadInv'
<1> SUFFICES ASSUME pc' = "read" PROVE ReadInv'
  BY DEF ReadInv
<1>1. ASSUME NEW z \in Zones, NEW x \in Instants, tz_localtime_r(z, x)
      PROVE  ReadInv'
  <2>1. localsub(z, x, ZeroTm).ok /\ tm' = localsub(z, x, ZeroTm).tm /\ sp' = z /\ instant' = x
    BY <1>1 DEF tz_localtime_r
  <2> QED BY <2>1 DEF ReadInv
<1>2. CASE Represent
  <2>1. PICK z \in TimeZones, x \in Instants, n \in NanoSeconds : dt_timestamp_to_representation(z, x, n)
    BY <1>2 DEF Represent
  <2>2. z # NO_STATE
    BY <2>1 DEF dt_timestamp_to_representation
  <2>3. ZoneOf(z) \in Zones
    BY <2>2, ConversionAssumption DEF ZoneOf, TimeZones
  <2>4. tz_localtime_r(ZoneOf(z), x)
    BY <2>1, <2>2 DEF dt_timestamp_to_representation
  <2> QED BY <1>1, <2>3, <2>4
<1>3. CASE LocaltimeReturns
  <2>1. tz_localtime_r(tz, instant) /\ call = "localtime_tz"
    BY <1>3 DEF LocaltimeReturns, Refused
  <2>2. tz \in Zones /\ instant \in Instants
    BY <2>1 DEF ConvInv
  <2> QED BY <1>1, <2>1, <2>2
<1>4. CASE MktimeStep
  BY <1>4 DEF MktimeStep, time2sub, Probe, Narrow, NotFound, Match, Hunt, label, time2, time1, Return
<1>5. CASE ConvertBack
  BY <1>5 DEF ConvertBack, dt_representation_to_timestamp, SystemAnswers, tz_mktime
<1>6. CASE ZoneAnswers \/ StateMissing \/ Forget
  BY <1>6 DEF ZoneAnswers, StateMissing, Forget
<1>7. ASSUME NEW name, NEW x, localtime_tz(name, x)
      PROVE  ReadInv'
  BY <1>7 DEF localtime_tz, Refused
<1>8. ASSUME NEW name, NEW b, mktime_tz(name, b)
      PROVE  ReadInv'
  BY <1>8, <1>1 DEF mktime_tz, Answered, ReadInv, search_vars
<1>11. CASE MktimeTzConverts
  BY <1>11 DEF MktimeTzConverts, tz_mktime, Answered
<1>9. CASE MktimeTzReturns
  BY <1>9 DEF MktimeTzReturns, Answered
<1>10. CASE UNCHANGED everything
  BY <1>10 DEF ReadInv, everything, all_vars, vars
<1> QED BY <1>2, <1>3, <1>4, <1>5, <1>6, <1>7, <1>8, <1>9, <1>10, <1>11 DEF PosixNext, DtNext

(***************************************************************************)
(* A step of the two layers is one of tz_mktime, starts it, is outside of  *)
(* it, or leaves its variables alone.                                      *)
(***************************************************************************)
LEMMA PosixSteps ==
  ASSUME HeldInv, ReadInv, ConvInv, [PosixNext]_everything
  PROVE  \/ MktimeStep
         \/ \E b \in StructTm : sp \in Zones /\ tz_mktime(b)
         \/ pc' \in {"idle", "read", "failed", "converted"}
         \/ UNCHANGED vars
<1> DEFINE Starts == \E b \in StructTm : sp \in Zones /\ tz_mktime(b)
           Leaves == pc' \in {"idle", "read", "failed", "converted"}
<1>1. ASSUME NEW b \in StructTm, tz_mktime(b)
      PROVE  Starts
  BY <1>1, ReadType DEF tz_mktime
<1> HIDE DEF Starts
<1>2. ASSUME Represent
      PROVE  Leaves
  BY <1>2 DEF Represent, dt_timestamp_to_representation, tz_localtime_r
<1>3. ASSUME ConvertBack
      PROVE  Starts \/ Leaves
  <2>1. PICK e \in Edits : \/ dt_representation_to_timestamp(EditedRep(rep, e))
                           \/ \E x \in LibcMktime : SystemAnswers(EditedRep(rep, e), x)
    BY <1>3 DEF ConvertBack
  <2> DEFINE r == EditedRep(rep, e)
  <2> HIDE DEF r
  <2>2. CASE dt_representation_to_timestamp(r)
    <3> DEFINE b == dt_representation_to_tm(r)
    <3>1. r \in Representation /\ tz_mktime(b)
      BY <2>2 DEF dt_representation_to_timestamp
    <3>2. b \in StructTm
      BY <3>1, RepresentationType, UnsignedRequest
    <3> HIDE DEF b
    <3> QED BY <1>1, <3>1, <3>2
  <2>3. CASE \E x \in LibcMktime : SystemAnswers(r, x)
    BY <2>3 DEF SystemAnswers
  <2> QED BY <2>1, <2>2, <2>3 DEF r
<1>4. ASSUME ZoneAnswers \/ StateMissing \/ Forget \/ LocaltimeReturns \/ MktimeTzReturns
      PROVE  Leaves
  BY <1>4 DEF ZoneAnswers, StateMissing, Forget, LocaltimeReturns, MktimeTzReturns, Refused, Answered,
              tz_localtime_r
<1>5. ASSUME NEW name, NEW x, localtime_tz(name, x)
      PROVE  Leaves
  BY <1>5 DEF localtime_tz, Refused
<1>6. ASSUME NEW name, NEW b, mktime_tz(name, b)
      PROVE  Leaves
  BY <1>6 DEF mktime_tz, Answered
<1>9. ASSUME MktimeTzConverts
      PROVE  Starts \/ Leaves
  <2>1. CASE IsDate(rep')
    <3>1. rep' = Shortened(local) /\ tz_mktime(dt_representation_to_tm(rep'))
      BY <1>9, <2>1 DEF MktimeTzConverts
    <3>2. local \in StructTm
      BY <1>9 DEF MktimeTzConverts, ConvInv
    <3>3. dt_representation_to_tm(rep') \in StructTm
      BY <3>1, <3>2, ShortenedType, UnsignedRequest
    <3> QED BY <1>1, <3>1, <3>3
  <2>2. CASE ~IsDate(rep')
    BY <1>9, <2>2 DEF MktimeTzConverts, Answered
  <2> QED BY <2>1, <2>2
<1>7. ASSUME UNCHANGED everything
      PROVE  UNCHANGED vars
  BY <1>7 DEF everything, all_vars
<1> HIDE DEF Leaves
<1>8. MktimeStep \/ Starts \/ Leaves \/ UNCHANGED vars
  BY <1>2, <1>3, <1>4, <1>5, <1>6, <1>7, <1>9 DEF PosixNext, DtNext
<1> QED BY <1>8 DEF Starts, Leaves

(***************************************************************************)
(* The search keeps its invariant, whichever function asks.                *)
(***************************************************************************)
LEMMA MktimeStaysPosix ==
  ASSUME HeldInv, ReadInv, MktimeInv, ConvInv, [PosixNext]_everything
  PROVE  MktimeInv'
<1>1. CASE MktimeStep
  BY <1>1, MktimeKeeps
<1>2. CASE \E b \in StructTm : sp \in Zones /\ tz_mktime(b)
  BY <1>2, MktimeStarts
<1>3. CASE pc' \in {"idle", "read", "failed", "converted"}
  BY <1>3 DEF MktimeInv
<1>4. CASE UNCHANGED vars
  BY <1>4 DEF MktimeInv, Trusted, vars, search_vars
<1> QED BY <1>1, <1>2, <1>3, <1>4, PosixSteps

(***************************************************************************)
(* The steps of tz_mktime leave alone what is not its own.                 *)
(***************************************************************************)
LEMMA MktimeLeaves ==
  ASSUME MktimeStep
  PROVE  pc \in Searching /\ pc' \in Searching /\ UNCHANGED <<sp, instant, asked>>
BY DEF Searching, MktimeStep, time2sub, Probe, Narrow, Match, Hunt, NotFound, label, time2, time1,
       Return

(***************************************************************************)
(* dt_timestamp_to_representation.                                         *)
(***************************************************************************)
LEMMA RepresentKeeps ==
  ASSUME ConvInv, call = "none", call' = "none", Represent
  PROVE  ConvInv'
<1>1. PICK z \in TimeZones, x \in Instants, n \in NanoSeconds : dt_timestamp_to_representation(z, x, n)
  BY DEF Represent
<1>2. pc' \in {"read", "failed"} /\ first' = first /\ pc = "idle"
  BY <1>1 DEF dt_timestamp_to_representation, tz_localtime_r
<1>3. first' = ZeroTimestamp
  BY <1>2 DEF ConvInv
<1>4. pc' = "read" => rep' = dt_tm_to_representation(tm', n)
  BY <1>1 DEF dt_timestamp_to_representation
<1>5. \A d : dt_tm_to_representation(d, n).nano_second = n
  BY DEF dt_tm_to_representation
<1>6. n \in 0 .. MAX_NANOSECONDS
  BY ConversionAssumption
<1>7. pc' = "read" => /\ rep' = dt_tm_to_representation(tm', rep'.nano_second)
                      /\ rep'.nano_second \in 0 .. MAX_NANOSECONDS
  BY <1>4, <1>5, <1>6
<1> QED BY <1>2, <1>3, <1>7 DEF ConvInv, Converted, Searching

(***************************************************************************)
(* dt_representation_to_timestamp starts tz_mktime, or asks the C library. *)
(***************************************************************************)
LEMMA ConvertBackKeeps ==
  ASSUME ConvInv, call = "none", call' = "none", ConvertBack
  PROVE  ConvInv'
<1>1. PICK e \in Edits : \/ dt_representation_to_timestamp(EditedRep(rep, e))
                         \/ \E x \in LibcMktime : SystemAnswers(EditedRep(rep, e), x)
  BY DEF ConvertBack
<1> DEFINE r == EditedRep(rep, e)
<1> HIDE DEF r
<1>2. CASE dt_representation_to_timestamp(r)
  <2>1. /\ pc = "read" /\ pc' = "time2sub" /\ rep' = r /\ asked' = dt_representation_to_tm(r)
        /\ first' = first /\ r \in Representation
    BY <1>2 DEF dt_representation_to_timestamp, tz_mktime
  <2>2. first' = ZeroTimestamp /\ asked' = dt_representation_to_tm(rep') /\ Unsigned(rep')
    BY <2>1, RepresentationType DEF ConvInv
  <2> QED BY <2>1, <2>2 DEF ConvInv, Converted, Searching, Request
<1>3. CASE \E x \in LibcMktime : SystemAnswers(r, x)
  BY <1>3 DEF SystemAnswers, ConvInv, Converted, Searching
<1> QED BY <1>1, <1>2, <1>3 DEF r

(***************************************************************************)
(* It writes the timestamp, or reports an error.                           *)
(***************************************************************************)
LEMMA ZoneAnswersKeeps ==
  ASSUME MktimeInv, ConvInv, call = "none", call' = "none", ZoneAnswers
  PROVE  ConvInv'
<1>1. /\ pc = "done" /\ pc' = "converted" /\ UNCHANGED <<rep, tz, sp, asked, result>>
      /\ IF result = WRONG THEN NoTimestamp("DT_INVALID_ARGUMENT") ELSE Timestamp(result)
  BY DEF ZoneAnswers
<1>2. asked = Request /\ first = ZeroTimestamp /\ Unsigned(rep)
  BY <1>1 DEF ConvInv, Searching
<1>3. Answers(result, Request)
  BY <1>1, <1>2, DoneAnswers
<1>4. Answers(result, Request)'
  BY <1>1, <1>3 DEF Answers, Request, ShownAt
<1>5. IF result' = WRONG THEN status' = "DT_INVALID_ARGUMENT" /\ first' = ZeroTimestamp
      ELSE status' = "DT_OK" /\ first' = [second |-> result', nano_second |-> rep'.nano_second]
  BY <1>1, <1>2 DEF NoTimestamp, Timestamp
<1> QED BY <1>1, <1>2, <1>4, <1>5 DEF ConvInv, Searching

(***************************************************************************)
(* localtime_tz looks the zone up.                                         *)
(***************************************************************************)
LEMMA LocaltimeTzKeeps ==
  ASSUME HeldInv, ReadInv, ConvInv, NEW name \in Names, NEW x \in Instants, localtime_tz(name, x)
  PROVE  ConvInv'
<1>1. /\ pc = "idle" /\ pc' \in {"idle", "failed"} /\ call' \in {"null", "localtime_tz"} /\ first' = first
      /\ instant' = x
      /\ call' = "localtime_tz" => tz' = name /\ name # UNKNOWN
  BY DEF localtime_tz, Refused
<1> QED BY <1>1 DEF ConvInv, Searching, Converted, Names

(***************************************************************************)
(* It fills the struct tm.                                                 *)
(***************************************************************************)
LEMMA LocaltimeReturnsKeeps ==
  ASSUME HeldInv, ReadInv, ConvInv, LocaltimeReturns, ReadInv'
  PROVE  ConvInv'
<1>1. call = "localtime_tz" /\ pc = "idle" /\ pc' \in {"read", "failed"} /\ first' = first /\ call' \in {"null", "read"}
  BY DEF LocaltimeReturns, Refused, tz_localtime_r, HeldInv
<1>2. first' = ZeroTimestamp
  BY <1>1 DEF ConvInv
<1>3. CASE pc' = "failed"
  BY <1>1, <1>2, <1>3 DEF ConvInv, Searching, Converted
<1>4. CASE pc' = "read"
  <2>1. rep' = dt_tm_to_representation(tm', 0) /\ local' = dt_representation_to_tm(rep')
    BY <1>4 DEF LocaltimeReturns, Refused
  <2>2. tm' \in StructTm
    <3>1. sp' \in Zones /\ instant' \in Instants /\ localsub(sp', instant', ZeroTm).ok /\ tm' = localsub(sp', instant', ZeroTm).tm
      BY <1>4 DEF ReadInv
    <3>2. IsZone(sp') /\ SoundLeaps(sp') /\ instant' \in Int
      <4>1. IsZone(sp') /\ SoundLeaps(sp')
        BY <3>1, SearchAssumption, SoundLeapsAssumption
      <4> QED BY <3>1, <4>1, SearchAssumption DEF TIME_T_MIN
    <3> QED BY <3>1, <3>2, LocalsubType
  <2>3. /\ rep'.nano_second = 0 /\ rep'.year \in Int /\ rep'.month \in Int /\ rep'.day \in Int
        /\ rep'.hour \in Int /\ rep'.minute \in Int /\ rep'.second \in Int
    BY <2>1, <2>2 DEF dt_tm_to_representation, StructTm
  <2>4. local' \in StructTm
    BY <2>1, <2>3, RequestType
  <2>5. 0 \in 0 .. MAX_NANOSECONDS
    <3>1. MAX_NANOSECONDS \in Nat
      BY SMT DEF MAX_NANOSECONDS
    <3> QED BY <3>1
  <2>6. rep' = dt_tm_to_representation(tm', rep'.nano_second) /\ rep'.nano_second \in 0 .. MAX_NANOSECONDS
    BY <2>1, <2>3, <2>5
  <2> QED BY <1>1, <1>2, <1>4, <2>4, <2>6 DEF ConvInv, Searching, Converted
<1> QED BY <1>1, <1>3, <1>4

(***************************************************************************)
(* mktime_tz finds the zone or not.                                        *)
(***************************************************************************)
LEMMA MktimeTzKeeps ==
  ASSUME ConvInv, NEW name, NEW b \in StructTm, mktime_tz(name, b)
  PROVE  ConvInv'
<1>1. /\ pc = "read" /\ call = "read" /\ local' = b /\ tz' = name
      /\ UNCHANGED <<sp, tm, asked, result, rep, first>>
  BY DEF mktime_tz
<1>2. first' = ZeroTimestamp
  BY <1>1 DEF ConvInv
<1>3. CASE name # UNKNOWN
  <2>1. pc' = "read" /\ call' = "looked_up"
    BY <1>1, <1>3 DEF mktime_tz
  <2>2. rep = dt_tm_to_representation(tm, rep.nano_second) /\ rep.nano_second \in 0 .. MAX_NANOSECONDS
    BY <1>1 DEF ConvInv
  <2> QED BY <1>1, <1>2, <1>3, <2>1, <2>2 DEF ConvInv, Searching, Converted
<1>4. CASE name = UNKNOWN
  <2>1. pc' = "converted" /\ call' = "answered" /\ answer' = WRONG
    BY <1>4 DEF mktime_tz, Answered
  <2> QED BY <1>1, <1>2, <1>4, <2>1 DEF ConvInv, Searching, Converted
<1> QED BY <1>3, <1>4

(***************************************************************************)
(* It starts tz_mktime, or refuses the fields.                             *)
(***************************************************************************)
LEMMA MktimeTzConvertsKeeps ==
  ASSUME ConvInv, MktimeTzConverts
  PROVE  ConvInv'
<1>1. pc = "read" /\ call = "looked_up" /\ rep' = Shortened(local) /\ UNCHANGED <<first, tz, local>>
  BY DEF MktimeTzConverts
<1>2. local \in StructTm /\ tz # UNKNOWN /\ first' = ZeroTimestamp
  BY <1>1 DEF ConvInv
<1>3. Unsigned(rep')
  BY <1>1, <1>2, ShortenedType
<1>4. CASE IsDate(rep')
  <2>1. pc' = "time2sub" /\ call' = "mktime_tz" /\ asked' = dt_representation_to_tm(rep')
    BY <1>4 DEF MktimeTzConverts, tz_mktime
  <2>2. IsDate(rep)'
    BY <1>4 DEF IsDate
  <2> QED BY <1>1, <1>2, <1>3, <2>1, <2>2 DEF ConvInv, Searching, Converted, Request
<1>5. CASE ~IsDate(rep')
  <2>1. pc' = "converted" /\ call' = "answered" /\ answer' = WRONG
    BY <1>5 DEF MktimeTzConverts, Answered
  <2> QED BY <1>1, <1>2, <2>1 DEF ConvInv, Searching, Converted
<1> QED BY <1>4, <1>5

(***************************************************************************)
(* It returns the answer.                                                  *)
(***************************************************************************)
LEMMA MktimeTzReturnsKeeps ==
  ASSUME HeldInv, MktimeInv, ConvInv, MktimeTzReturns
  PROVE  ConvInv'
<1>1. /\ call = "mktime_tz" /\ pc = "done" /\ pc' = "converted" /\ call' = "answered" /\ answer' = result
      /\ UNCHANGED <<sp, rep, first, local, tz>>
  BY DEF MktimeTzReturns, Answered, dt_vars
<1>2. asked = Request /\ local \in StructTm /\ rep = Shortened(local) /\ IsDate(rep)
  BY <1>1 DEF ConvInv, Searching
<1>3. Answers(result, Request)
  BY <1>1, <1>2, DoneAnswers
<1>4. Answers(answer, Request)'
  BY <1>1, <1>3 DEF Answers, Request, ShownAt
<1> QED BY <1>1, <1>2, <1>4 DEF ConvInv, Searching, Converted

(***************************************************************************)
(* Every step keeps the invariant.                                         *)
(***************************************************************************)
LEMMA ConvStays ==
  ASSUME HeldInv, ReadInv, MktimeInv, ConvInv, [PosixNext]_everything, ReadInv'
  PROVE  ConvInv'
<1>1. CASE call = "none" /\ DtNext /\ UNCHANGED posix_vars
  <2>1. call' = "none" /\ local' = local /\ answer' = answer
    BY <1>1 DEF posix_vars
  <2>2. CASE Represent
    BY <1>1, <2>1, <2>2, RepresentKeeps
  <2>3. CASE ConvertBack
    BY <1>1, <2>1, <2>3, ConvertBackKeeps
  <2>4. CASE MktimeStep /\ UNCHANGED dt_vars
    <3>1. pc \in Searching /\ pc' \in Searching /\ UNCHANGED <<sp, instant, asked>>
      BY <2>4, MktimeLeaves
    <3> QED BY <1>1, <2>1, <2>4, <3>1 DEF ConvInv, Searching, Converted, Request, dt_vars
  <2>5. CASE ZoneAnswers
    BY <1>1, <2>1, <2>5, ZoneAnswersKeeps
  <2>6. CASE StateMissing
    BY <1>1, <2>1, <2>6 DEF StateMissing, ConvInv, Searching, Converted
  <2>7. CASE Forget
    BY <1>1, <2>1, <2>7 DEF Forget, ConvInv, Searching, Converted
  <2> QED BY <1>1, <2>2, <2>3, <2>4, <2>5, <2>6, <2>7 DEF DtNext
<1>2. CASE pc = "idle" /\ \E name \in Names, x \in Instants : localtime_tz(name, x)
  BY <1>2, LocaltimeTzKeeps
<1>3. CASE LocaltimeReturns
  BY <1>3, LocaltimeReturnsKeeps
<1>4. ASSUME NEW name, NEW e \in PosixEdits, NEW h \in Hints,
             mktime_tz(name, [Edited(local, e) EXCEPT !.isdst = h])
      PROVE  ConvInv'
  <2>1. local \in StructTm
    BY <1>4 DEF mktime_tz, ConvInv
  <2>2. h \in Int /\ {e.year, e.mon, e.mday, e.hour, e.min, e.sec} \subseteq Int
    BY SearchAssumption, PosixAssumption
  <2>3. [Edited(local, e) EXCEPT !.isdst = h] \in StructTm
    BY <2>1, <2>2, EditedType
  <2> QED BY <1>4, <2>3, MktimeTzKeeps
<1>5. CASE call = "mktime_tz" /\ MktimeStep /\ UNCHANGED <<dt_vars, posix_vars>>
  <2>1. pc \in Searching /\ pc' \in Searching /\ UNCHANGED <<sp, instant, asked>>
    BY <1>5, MktimeLeaves
  <2> QED BY <1>5, <2>1 DEF ConvInv, Searching, Converted, Request, dt_vars, posix_vars
<1>6. CASE MktimeTzReturns
  BY <1>6, MktimeTzReturnsKeeps
<1>7. CASE call # "none" /\ Forget /\ call' = "none" /\ UNCHANGED held
  BY <1>7 DEF Forget, ConvInv, Searching, Converted
<1>8. CASE UNCHANGED everything
  BY <1>8 DEF ConvInv, Searching, Converted, Request, Answers, ShownAt, everything, all_vars, vars, dt_vars, posix_vars, search_vars
<1>9. CASE MktimeTzConverts
  BY <1>9, MktimeTzConvertsKeeps
<1> QED BY <1>1, <1>2, <1>3, <1>4, <1>5, <1>6, <1>7, <1>8, <1>9 DEF PosixNext

(***************************************************************************)
(* The parts of the invariant together.                                    *)
(***************************************************************************)
LEMMA PosixInvariant ==
  /\ PosixInit => HeldInv /\ ReadInv /\ MktimeInv /\ ConvInv
  /\ HeldInv /\ ReadInv /\ MktimeInv /\ ConvInv /\ [PosixNext]_everything => ReadInv' /\ MktimeInv' /\ ConvInv'
<1>1. PosixInit => HeldInv /\ ReadInv /\ MktimeInv /\ ConvInv
  BY DEF PosixInit, DtInit, Init, HeldInv, ReadInv, MktimeInv, ConvInv, Searching, Converted
<1>2. HeldInv /\ ReadInv /\ MktimeInv /\ ConvInv /\ [PosixNext]_everything => ReadInv'
  BY ReadStaysPosix
<1>3. HeldInv /\ ReadInv /\ MktimeInv /\ ConvInv /\ [PosixNext]_everything => MktimeInv'
  BY MktimeStaysPosix
<1>4. HeldInv /\ ReadInv /\ MktimeInv /\ ConvInv /\ [PosixNext]_everything => ConvInv'
  BY <1>2, ConvStays
<1> QED BY <1>1, <1>2, <1>3, <1>4

(***************************************************************************)
(* What the invariant says of a representation that is converted.          *)
(***************************************************************************)
LEMMA ConvertedFollows ==
  ASSUME ConvInv, Converted
  PROVE  /\ Answers(result, Request) /\ Unsigned(rep)
         /\ IF result = WRONG THEN status = "DT_INVALID_ARGUMENT" /\ first = ZeroTimestamp
            ELSE status = "DT_OK" /\ first = [second |-> result, nano_second |-> rep.nano_second]
BY DEF ConvInv

(***************************************************************************)
(* No instant, no timestamp.                                               *)
(***************************************************************************)
LEMMA SkippedFollows ==
  ASSUME ConvInv, rep.second < SECSPERMIN
  PROVE  SkippedIsError
<1> SUFFICES ASSUME Converted, InstantsOf(sp, Request) = {}
             PROVE  status = "DT_INVALID_ARGUMENT" /\ first = ZeroTimestamp
  BY DEF SkippedIsError
<1>1. /\ Answers(result, Request) /\ Unsigned(rep)
      /\ IF result = WRONG THEN status = "DT_INVALID_ARGUMENT" /\ first = ZeroTimestamp
         ELSE status = "DT_OK" /\ first = [second |-> result, nano_second |-> rep.nano_second]
  BY ConvertedFollows
<1>2. InMinute(Request)
  BY <1>1, Units DEF InMinute, Unsigned, Request, dt_representation_to_tm
<1>3. result = WRONG
  <2> SUFFICES ASSUME result # WRONG PROVE FALSE
    OBVIOUS
  <2>1. result \in InstantsOf(sp, Request)
    <3> DEFINE b == Request
    <3>1. Answers(result, b) /\ InMinute(b)
      BY <1>1, <1>2
    <3> HIDE DEF b
    <3>2. result \in InstantsOf(sp, b)
      BY <3>1, AnsweredInstant
    <3> QED BY <3>2 DEF b
  <2> QED BY <2>1
<1> QED BY <1>1, <1>3

(***************************************************************************)
(* The months of libtz and of dt_validate_representation are the same      *)
(* since the reform.                                                       *)
(***************************************************************************)
LEMMA SameMonths ==
  ASSUME NEW r, r.year \in Int, r.month \in 1 .. 12, r.day \in Int, Gregorian(r)
  PROVE  ValidDate(r.year, r.month, r.day) <=> r.day \in 1 .. mon_lengths(r.year)[r.month]
<1> DEFINE y == r.year
           m == r.month
           d == r.day
<1>1. y \in Int /\ m \in 1 .. 12 /\ d \in Int /\ y >= 1582 /\ ~Dropped(y, m, d)
  BY DEF Gregorian, Dropped
<1> HIDE DEF y, m, d
<1>2. dt_is_leap_year(y) <=> isleap(y)
  <2>1. y % 400 = 0 => y % 4 = 0
    BY <1>1
  <2> QED BY <1>1, <2>1 DEF dt_is_leap_year, isleap
<1>3. y # 0
  BY <1>1
<1>4. /\ mon_lengths(y)[m] = IF m = 2 /\ isleap(y) THEN 29 ELSE month_days[m]
      /\ month_days[m] \in Nat /\ (m = 2 => month_days[m] = 28)
  BY <1>1 DEF mon_lengths, month_days
<1>5. ValidDate(y, m, d) <=> d \in 1 .. mon_lengths(y)[m]
  BY <1>1, <1>2, <1>3, <1>4 DEF ValidDate
<1> QED BY <1>5 DEF y, m, d

(***************************************************************************)
(* The fields of a valid representation are in normal form: the clock      *)
(* shows the same ones at the instant found.                               *)
(***************************************************************************)
LEMMA BackFollows ==
  ASSUME ConvInv
  PROVE  BackAndForth
<1> SUFFICES ASSUME Converted, status = "DT_OK", Gregorian(rep), dt_validate_representation(rep),
                    rep.hour < HOURSPERDAY, rep.minute < MINSPERHOUR, rep.second < SECSPERMIN
             PROVE  Fields(Shown(first.second)) = Fields(rep) /\ first.nano_second = rep.nano_second
  BY DEF BackAndForth
<1> DEFINE b == Request
           s == first.second
<1>1. /\ Answers(result, b) /\ Unsigned(rep) /\ result # WRONG
      /\ first = [second |-> result, nano_second |-> rep.nano_second]
  BY ConvertedFollows
<1>2. /\ rep.year \in Int /\ rep.month \in Nat /\ rep.day \in Nat /\ rep.hour \in Nat
      /\ rep.minute \in Nat /\ rep.second \in Nat
  BY <1>1 DEF Unsigned
<1>3. /\ b.year = rep.year - 1900 /\ b.mon = rep.month - 1 /\ b.mday = rep.day /\ b.hour = rep.hour
      /\ b.min = rep.minute /\ b.sec = rep.second
  BY DEF Request, dt_representation_to_tm
<1>4. rep.month \in 1 .. 12 /\ rep.day \in 1 .. mon_lengths(rep.year)[rep.month]
  <2>1. ValidDate(rep.year, rep.month, rep.day)
    BY DEF dt_validate_representation
  <2>2. rep.month \in 1 .. 12 /\ rep.day \in Int
    BY <1>2, <2>1 DEF ValidDate
  <2> QED BY <1>2, <2>1, <2>2, SameMonths
<1> HIDE DEF b
<1>5. IsNormal(b)
  <2>1. b.year + TM_YEAR_BASE = rep.year /\ b.mon + 1 = rep.month
    BY <1>2, <1>3 DEF TM_YEAR_BASE
  <2> QED BY <1>2, <1>3, <1>4, <2>1, Units DEF IsNormal, InMinute
<1>6. ShownAt(sp, result, b, 0)
  <2>1. InMinute(b)
    BY <1>5 DEF IsNormal
  <2> QED BY <1>1, <2>1, AnsweredInstant
<1>7. PICK y : Sought(b, y, 0) /\ Shows(sp, result, y)
  BY <1>6 DEF ShownAt
<1> DEFINE r == localsub(sp, result, ZeroTm)
<1>8. Civil(r.tm) = Civil(b)
  BY <1>5, <1>7 DEF Sought, Shows
<1>9. s = result /\ first.nano_second = rep.nano_second
  BY <1>1
<1>10. Shown(s) = dt_tm_to_representation(r.tm, rep.nano_second)
  BY <1>9 DEF Shown
<1> HIDE DEF r, s
<1>11. Fields(dt_tm_to_representation(r.tm, rep.nano_second)) = Fields(rep)
  <2>1. /\ r.tm.year = rep.year - 1900 /\ r.tm.mon = rep.month - 1 /\ r.tm.mday = rep.day
        /\ r.tm.hour = rep.hour /\ r.tm.min = rep.minute /\ r.tm.sec = rep.second
    BY <1>3, <1>8 DEF Civil
  <2>2. 1900 + (rep.year - 1900) = rep.year /\ rep.month - 1 + 1 = rep.month
    BY <1>2
  <2> QED BY <2>1, <2>2 DEF Fields, dt_tm_to_representation
<1> QED BY <1>9, <1>10, <1>11 DEF s

(* Units of at most the usual sizes, and no leap second on the clock.      *)
UsualClock ==
  /\ SECSPERMIN <= 60 /\ MINSPERHOUR <= 60 /\ HOURSPERDAY <= 25
  /\ Showing(sp, instant) = {}

(***************************************************************************)
(* The fields of a clock, in their ranges, are valid.                      *)
(***************************************************************************)
LEMMA ValidFollows ==
  ASSUME ReadInv, ConvInv, UsualClock
  PROVE  ValidSinceReform
<1> SUFFICES ASSUME pc = "read", Gregorian(rep) PROVE dt_validate_representation(rep)
  BY DEF ValidSinceReform
<1>1. sp \in Zones /\ instant \in Instants
      /\ localsub(sp, instant, ZeroTm).ok /\ tm = localsub(sp, instant, ZeroTm).tm
  BY DEF ReadInv
<1>2. IsZone(sp) /\ SoundLeaps(sp)
  BY <1>1, SearchAssumption, SoundLeapsAssumption
<1>3. instant \in Int
  BY <1>1, SearchAssumption DEF TIME_T_MIN
<1>4. ShownRight(sp, instant, tm) /\ tm \in StructTm
  BY <1>1, <1>2, <1>3, ReadIsShown, LocalsubType
<1>5. /\ tm.mon \in 0 .. 11 /\ tm.mday \in 1 .. mon_lengths(tm.year + TM_YEAR_BASE)[tm.mon + 1]
      /\ tm.hour \in 0 .. HOURSPERDAY - 1 /\ tm.min \in 0 .. MINSPERHOUR - 1
      /\ tm.sec \in 0 .. SECSPERMIN - 1 /\ tm.year \in Int
  BY <1>4 DEF ShownRight, UsualClock, StructTm
<1>6. /\ rep = dt_tm_to_representation(tm, rep.nano_second)
      /\ rep.nano_second \in 0 .. MAX_NANOSECONDS
  BY DEF ConvInv
<1>7. /\ rep.year = 1900 + tm.year /\ rep.month = tm.mon + 1 /\ rep.day = tm.mday /\ rep.hour = tm.hour
      /\ rep.minute = tm.min /\ rep.second = tm.sec
  BY <1>6 DEF dt_tm_to_representation
<1>8. rep.day \in 1 .. mon_lengths(rep.year)[rep.month] /\ rep.year \in Int /\ rep.month \in 1 .. 12
  <2>1. rep.year = tm.year + TM_YEAR_BASE
    BY <1>5, <1>7 DEF TM_YEAR_BASE
  <2> QED BY <1>5, <1>7, <2>1 DEF TM_YEAR_BASE
<1>9. mon_lengths(rep.year)[rep.month] \in Nat
  <2> DEFINE y == rep.year
             m == rep.month - 1
  <2>1. y \in Int /\ m \in 0 .. 11 /\ m + 1 = rep.month
    BY <1>8
  <2> HIDE DEF y, m
  <2>2. mon_lengths(y)[m + 1] \in 28 .. 31
    BY <2>1, MonthLengths
  <2> QED BY <2>1, <2>2 DEF y
<1>10. ValidDate(rep.year, rep.month, rep.day)
  <2>1. rep.day \in Int
    BY <1>8, <1>9
  <2> QED BY <1>8, <2>1, SameMonths
<1>11. ValidTime(rep.hour, rep.minute, rep.second, rep.nano_second)
  <2>1. rep.hour <= 24 /\ rep.minute <= 59 /\ rep.second <= 59
    BY <1>5, <1>7, Units DEF UsualClock
  <2>2. rep.nano_second <= MAX_NANOSECONDS
    <3>1. MAX_NANOSECONDS \in Nat
      BY SMT DEF MAX_NANOSECONDS
    <3> QED BY <1>6, <3>1
  <2> QED BY <2>1, <2>2 DEF ValidTime
<1> QED BY <1>10, <1>11 DEF dt_validate_representation

(***************************************************************************)
(* What mktime_tz answers is an instant at which the clock shows the       *)
(* struct tm, whose fields are then those of a date, or -1.                *)
(* (LocalAnswered, without the claim that it finds one if there is any.)   *)
(***************************************************************************)
AnswerOnTheClock ==
  call = "answered" /\ InShorts(local) /\ local.sec < SECSPERMIN =>
    \/ answer = WRONG
    \/ /\ answer \in InstantsOf(sp, local)
       /\ ValidDate(1900 + local.year, local.mon + 1, local.mday)

(***************************************************************************)
(* Fields that are unsigned shorts are not changed on the way.             *)
(***************************************************************************)
LEMMA ShortsKept ==
  ASSUME NEW b \in StructTm, InShorts(b)
  PROVE  LET q == dt_representation_to_tm(Shortened(b))
         IN  /\ Civil(q) = Civil(b) /\ q \in StructTm
             /\ Shortened(b).year = 1900 + b.year /\ Shortened(b).month = b.mon + 1 /\ Shortened(b).day = b.mday
<1>1. USHRT_MAX \in Nat
  BY ConversionAssumption
<1>2. ASSUME NEW x \in 0 .. USHRT_MAX PROVE UShort(x) = x
  BY <1>1 DEF UShort
<1>3. /\ UShort(b.mon + 1) = b.mon + 1 /\ UShort(b.mday) = b.mday /\ UShort(b.hour) = b.hour
      /\ UShort(b.min) = b.min /\ UShort(b.sec) = b.sec
  BY <1>2 DEF InShorts
<1> DEFINE r == Shortened(b)
           q == dt_representation_to_tm(r)
<1>4. /\ r.year = 1900 + b.year /\ r.month = b.mon + 1 /\ r.day = b.mday /\ r.hour = b.hour
      /\ r.minute = b.min /\ r.second = b.sec
  BY <1>3 DEF Shortened
<1>5. Unsigned(r)
  BY ShortenedType
<1> HIDE DEF r
<1>7. q \in StructTm
  BY <1>5, UnsignedRequest
<1>8. Civil(q) = Civil(b)
  <2>1. b.year \in Int /\ b.mon \in Int
    BY DEF StructTm
  <2>2. /\ q.year = r.year - 1900 /\ q.mon = r.month - 1 /\ q.mday = r.day /\ q.hour = r.hour
        /\ q.min = r.minute /\ q.sec = r.second
    BY DEF dt_representation_to_tm
  <2> HIDE DEF q
  <2>3. q.year = b.year /\ q.mon = b.mon
    BY <1>4, <2>1, <2>2
  <2>4. q.mday = b.mday /\ q.hour = b.hour /\ q.min = b.min /\ q.sec = b.sec
    BY <1>4, <2>2
  <2> QED BY <2>3, <2>4 DEF Civil
<1> QED BY <1>4, <1>7, <1>8 DEF r

(***************************************************************************)
(* The answer is one to the client's struct tm.                            *)
(***************************************************************************)
LEMMA AnswerFollows ==
  ASSUME ConvInv
  PROVE  AnswerOnTheClock
<1> SUFFICES ASSUME call = "answered", InShorts(local), local.sec < SECSPERMIN, answer # WRONG
             PROVE  /\ answer \in InstantsOf(sp, local)
                    /\ ValidDate(1900 + local.year, local.mon + 1, local.mday)
  BY DEF AnswerOnTheClock
<1> DEFINE q == Request
<1>1. local \in StructTm /\ rep = Shortened(local) /\ IsDate(rep) /\ Answers(answer, q)
  BY DEF ConvInv
<1>2. /\ Civil(q) = Civil(local) /\ q \in StructTm
      /\ rep.year = 1900 + local.year /\ rep.month = local.mon + 1 /\ rep.day = local.mday
  <2> DEFINE b == local
             r == Shortened(b)
             p == dt_representation_to_tm(r)
  <2>1. b \in StructTm /\ InShorts(b)
    BY <1>1
  <2> HIDE DEF b
  <2>2. /\ Civil(p) = Civil(b) /\ p \in StructTm
        /\ r.year = 1900 + b.year /\ r.month = b.mon + 1 /\ r.day = b.mday
    BY <2>1, ShortsKept
  <2>3. q = p /\ rep = r
    BY <1>1 DEF Request, b
  <2> HIDE DEF p, q, r
  <2> QED BY <2>2, <2>3 DEF b
<1> HIDE DEF q
<1>3. InMinute(q)
  <2>1. q.sec = local.sec /\ local.sec \in Nat
    BY <1>1, <1>2, ConversionAssumption DEF Civil, InShorts
  <2> QED BY <2>1, Units DEF InMinute
<1>4. answer \in InstantsOf(sp, q)
  BY <1>1, <1>3, AnsweredInstant
<1>5. LocalSeconds(q) = LocalSeconds(local)
  BY <1>1, <1>2, SameReading
<1>6. answer \in InstantsOf(sp, local)
  BY <1>4, <1>5 DEF InstantsOf, Reads
<1> QED BY <1>1, <1>2, <1>6 DEF IsDate, dt_validate_representation

(***************************************************************************)
(* A time the clock skips is an error and leaves the timestamp alone       *)
(* (SkippedIsError), in every zone whose leap seconds are at the ends of   *)
(* minutes, for every representation whose second is in the minute:        *)
(* dt_representation_to_timestamp of dt_unix.c, with all of tz_mktime      *)
(* below it.                                                               *)
(***************************************************************************)
THEOREM SkippedTimesAreErrors == PosixSpec => [](rep.second < SECSPERMIN => SkippedIsError)
<1>1. ConvInv => (rep.second < SECSPERMIN => SkippedIsError)
  BY SkippedFollows
<1> QED BY <1>1, PosixInvariant, HeldStays, PTL DEF PosixSpec

(***************************************************************************)
(* A valid representation from the Gregorian reform on comes back the same *)
(* from the timestamp it is converted to (BackAndForth), in every such     *)
(* zone.                                                                   *)
(***************************************************************************)
THEOREM ConvertsBackAndForth == PosixSpec => []BackAndForth
BY BackFollows, PosixInvariant, HeldStays, PTL DEF PosixSpec

(***************************************************************************)
(* Since the reform dt_timestamp_to_representation makes valid             *)
(* representations (ValidSinceReform), for units up to the usual ones,     *)
(* unless the clock shows a leap second: that one                          *)
(* dt_validate_representation refuses.                                     *)
(***************************************************************************)
THEOREM ReadingsAreValid == PosixSpec => [](UsualClock => ValidSinceReform)
<1>1. ReadInv /\ ConvInv => (UsualClock => ValidSinceReform)
  BY ValidFollows
<1> QED BY <1>1, PosixInvariant, HeldStays, PTL DEF PosixSpec

(***************************************************************************)
(* mktime_tz answers rightly or not at all (AnswerOnTheClock), in every    *)
(* such zone and for every tm_isdst.                                       *)
(***************************************************************************)
THEOREM AnswersAreOnTheClock == PosixSpec => []AnswerOnTheClock
BY AnswerFollows, PosixInvariant, HeldStays, PTL DEF PosixSpec

-----------------------------------------------------------------------------
(* The invariants of the search together.                                  *)
SearchingInv == SearchInv /\ RunInv /\ SureInv

(***************************************************************************)
(* A step of tz_mktime keeps the interval.                                 *)
(***************************************************************************)
LEMMA StepKeepsSearch ==
  ASSUME SearchInv, MktimeStep
  PROVE  SearchInv'
BY SearchStays DEF Next

(***************************************************************************)
(* The search keeps them, whichever function asks.                         *)
(***************************************************************************)
LEMMA SearchingStaysPosix ==
  ASSUME HeldInv, ReadInv, MktimeInv, ConvInv, SearchingInv, [PosixNext]_everything
  PROVE  SearchingInv'
<1>1. CASE MktimeStep
  BY <1>1, StepKeepsSearch, RunKeeps, SureKeeps DEF SearchingInv
<1>2. CASE \E b \in StructTm : sp \in Zones /\ tz_mktime(b)
  <2>1. PICK b \in StructTm : sp \in Zones /\ tz_mktime(b)
    BY <1>2
  <2>2. pc' = "time2sub"
    BY <2>1 DEF tz_mktime
  <2>3. SearchInv'
    BY <2>2 DEF SearchInv
  <2> QED BY <2>1, <2>3, RunStarts, SureStarts DEF SearchingInv
<1>3. CASE pc' \in {"idle", "read", "failed", "converted"}
  BY <1>3 DEF SearchingInv, SearchInv, RunInv, SureInv
<1>4. CASE UNCHANGED vars
  BY <1>4 DEF SearchingInv, SearchInv, RunInv, SureInv, Sure, vars, search_vars
<1> QED BY <1>1, <1>2, <1>3, <1>4, PosixSteps

(***************************************************************************)
(* The seconds are in the minute, the fields fit ints when they are        *)
(* normalised, and the clock does not pass over the date and time.         *)
(***************************************************************************)
Showable(b) ==
  /\ InMinute(b) /\ Normalized(b, TRUE).ok
  /\ ~Skips(sp, Normalized(b, TRUE).tm)

(***************************************************************************)
(* Then tz_mktime has found an instant of it when it returns: neither      *)
(* function asks for a type.                                               *)
(***************************************************************************)
LEMMA DoneFinds ==
  ASSUME MktimeInv, SureInv, pc = "done", asked = Request, Showable(Request)
  PROVE  result \in InstantsOf(sp, Request)
<1> DEFINE b == Request
           s == SavedSeconds(Normalized(b, FALSE).tm)
<1>1. sp \in Zones /\ b \in StructTm /\ asked = b
  BY DEF MktimeInv
<1>2. b.isdst < 0
  BY DEF Request, dt_representation_to_tm
<1>3. Showable(b) /\ InMinute(b)
  BY DEF Showable
<1> HIDE DEF b
<1>4. Sure
  BY <1>1, <1>2, <1>3 DEF Sure, Showable
<1>5. Trusted /\ okay
  BY <1>4 DEF SureInv, Trusted
<1>6. result \in Int /\ ShownAt(sp, result - s, b, s)
  BY <1>1, <1>5 DEF MktimeInv
<1>7. s = 0
  BY <1>1, <1>3, NormalizedSecond
<1> HIDE DEF s
<1>8. ShownAt(sp, result, b, 0)
  <2>1. result - s = result
    BY <1>6, <1>7
  <2> QED BY <1>6, <1>7, <2>1
<1>9. result \in InstantsOf(sp, b)
  <2>1. IsZone(sp) /\ SoundLeaps(sp)
    BY <1>1, SearchAssumption, SoundLeapsAssumption
  <2>2. result \in Wanted(sp, [b EXCEPT !.sec = @ - 0])
    <3>1. 0 \in Int
      OBVIOUS
    <3> QED BY <1>1, <1>6, <1>8, <2>1, <3>1, FoundRight
  <2>3. [b EXCEPT !.sec = @ - 0] = b
    <3>1. b.sec - 0 = b.sec
      BY <1>1 DEF StructTm
    <3> QED BY <1>1, <3>1 DEF StructTm
  <2> QED BY <2>2, <2>3 DEF Wanted
<1> QED BY <1>9 DEF b

(* What both functions answer such a request is one of its instants.       *)
FindsInv ==
  /\ Converted /\ Showable(Request) => result \in InstantsOf(sp, Request)
  /\ call = "answered" /\ tz # UNKNOWN /\ IsDate(rep) =>
       /\ sp \in Zones /\ Request \in StructTm
       /\ Showable(Request) => answer \in InstantsOf(sp, Request)

(***************************************************************************)
(* Every step keeps it.                                                    *)
(***************************************************************************)
LEMMA FindsStays ==
  ASSUME HeldInv, MktimeInv, ConvInv, SureInv, FindsInv, [PosixNext]_everything
  PROVE  FindsInv'
<1>1. CASE call = "none" /\ DtNext /\ UNCHANGED posix_vars
  <2>1. call' = "none"
    BY <1>1 DEF posix_vars
  <2>2. CASE ZoneAnswers
    <3>1. pc = "done" /\ UNCHANGED <<rep, sp, result>>
      BY <2>2 DEF ZoneAnswers
    <3>2. asked = Request
      BY <3>1 DEF ConvInv, Searching
    <3>3. Showable(Request) => result \in InstantsOf(sp, Request)
      BY <3>1, <3>2, DoneFinds
    <3>4. Request' = Request
      BY <3>1 DEF Request
    <3>5. (Showable(Request) => result \in InstantsOf(sp, Request))'
      BY <3>1, <3>3, <3>4 DEF Showable
    <3> QED BY <2>1, <3>5 DEF FindsInv
  <2>3. CASE Represent \/ ConvertBack \/ (MktimeStep /\ UNCHANGED dt_vars) \/ StateMissing \/ Forget
    <3>1. ~Converted'
      <4>1. CASE Represent
        BY <4>1 DEF Represent, dt_timestamp_to_representation, tz_localtime_r, Converted
      <4>2. CASE ConvertBack
        BY <4>2 DEF ConvertBack, dt_representation_to_timestamp, SystemAnswers, tz_mktime, Converted
      <4>3. CASE MktimeStep
        BY <4>3, MktimeLeaves DEF Converted, Searching
      <4>4. CASE StateMissing \/ Forget
        BY <4>4 DEF StateMissing, Forget, Converted
      <4> QED BY <2>3, <4>1, <4>2, <4>3, <4>4
    <3> QED BY <2>1, <3>1 DEF FindsInv
  <2> QED BY <1>1, <2>2, <2>3 DEF DtNext
<1>2. CASE pc = "idle" /\ \E name \in Names, x \in Instants : localtime_tz(name, x)
  BY <1>2 DEF localtime_tz, Refused, FindsInv, Converted
<1>3. CASE LocaltimeReturns
  <2>1. call' \in {"null", "read"}
    BY <1>3 DEF LocaltimeReturns, Refused
  <2> QED BY <2>1 DEF FindsInv, Converted
<1>4. ASSUME NEW name, NEW b, mktime_tz(name, b)
      PROVE  FindsInv'
  <2>1. call' \in {"looked_up", "answered"} /\ (call' = "answered" => tz' = UNKNOWN)
    BY <1>4 DEF mktime_tz, Answered
  <2> QED BY <2>1 DEF FindsInv, Converted
<1>9. CASE MktimeTzConverts
  <2>1. call' \in {"mktime_tz", "answered"} /\ (call' = "answered" => ~IsDate(rep'))
    BY <1>9 DEF MktimeTzConverts, Answered
  <2>2. call' = "answered" => ~IsDate(rep)'
    BY <2>1 DEF IsDate
  <2> QED BY <2>1, <2>2 DEF FindsInv, Converted
<1>5. CASE call = "mktime_tz" /\ MktimeStep /\ UNCHANGED <<dt_vars, posix_vars>>
  BY <1>5 DEF FindsInv, Converted, posix_vars
<1>6. CASE MktimeTzReturns
  <2>1. /\ call = "mktime_tz" /\ pc = "done" /\ call' = "answered" /\ answer' = result
        /\ UNCHANGED <<sp, rep>>
    BY <1>6 DEF MktimeTzReturns, Answered, dt_vars
  <2>2. asked = Request
    BY <2>1 DEF ConvInv, Searching
  <2>3. Showable(Request) => result \in InstantsOf(sp, Request)
    BY <2>1, <2>2, DoneFinds
  <2>4. Request' = Request
    BY <2>1 DEF Request
  <2>5. (Showable(Request) => answer \in InstantsOf(sp, Request))'
    BY <2>1, <2>3, <2>4 DEF Showable
  <2>6. sp \in Zones /\ Request \in StructTm
    BY <2>1, <2>2 DEF MktimeInv
  <2>7. (sp \in Zones /\ Request \in StructTm)'
    BY <2>1, <2>4, <2>6
  <2> QED BY <2>1, <2>5, <2>7 DEF FindsInv, Converted
<1>7. CASE call # "none" /\ Forget /\ call' = "none" /\ UNCHANGED held
  BY <1>7 DEF Forget, FindsInv, Converted
<1>8. CASE UNCHANGED everything
  BY <1>8 DEF FindsInv, Converted, Showable, Request, everything, all_vars, vars, dt_vars, posix_vars
<1> QED BY <1>1, <1>2, <1>3, <1>4, <1>5, <1>6, <1>7, <1>8, <1>9 DEF PosixNext

(* The parts of the invariant together.                                    *)
WholeInv == HeldInv /\ ReadInv /\ MktimeInv /\ ConvInv /\ SearchingInv /\ FindsInv

(***************************************************************************)
(* They hold at first, and every step keeps them.                          *)
(***************************************************************************)
LEMMA WholeInvariant ==
  /\ PosixInit => WholeInv
  /\ WholeInv /\ [PosixNext]_everything => WholeInv'
<1>1. PosixInit => WholeInv
  <2> SUFFICES ASSUME PosixInit PROVE WholeInv
    OBVIOUS
  <2>1. pc = "idle" /\ call = "none"
    BY DEF PosixInit, DtInit, Init
  <2>2. SearchingInv /\ FindsInv
    BY <2>1 DEF SearchingInv, SearchInv, RunInv, SureInv, FindsInv, Converted
  <2> QED BY <2>2, PosixInvariant DEF WholeInv
<1>2. WholeInv /\ [PosixNext]_everything => WholeInv'
  <2> SUFFICES ASSUME WholeInv, [PosixNext]_everything PROVE WholeInv'
    OBVIOUS
  <2>1. HeldInv /\ ReadInv /\ MktimeInv /\ ConvInv /\ SearchingInv /\ FindsInv /\ SureInv
    BY DEF WholeInv, SearchingInv
  <2>2. HeldInv' /\ ReadInv' /\ MktimeInv' /\ ConvInv'
    BY <2>1, HeldStays, PosixInvariant
  <2>3. SearchingInv'
    BY <2>1, SearchingStaysPosix
  <2>4. FindsInv'
    BY <2>1, FindsStays
  <2> QED BY <2>2, <2>3, <2>4 DEF WholeInv
<1> QED BY <1>1, <1>2

(***************************************************************************)
(* A representation that is a time in the zone is converted                *)
(* (ExistingConverted), in every zone whose leap seconds are at the ends   *)
(* of minutes, unless the clock passes over it or its only number may be   *)
(* -1: dt_representation_to_timestamp with all of tz_mktime below it.      *)
(***************************************************************************)
THEOREM ExistingAreConverted == PosixSpec => [](Showable(Request) => ExistingConverted)
<1>1. WholeInv => (Showable(Request) => ExistingConverted)
  <2> SUFFICES ASSUME WholeInv, Showable(Request), Converted, WRONG \notin InstantsOf(sp, Request)
               PROVE  status = "DT_OK"
    BY DEF ExistingConverted
  <2>1. result \in InstantsOf(sp, Request)
    BY DEF WholeInv, FindsInv
  <2>2. result # WRONG
    BY <2>1
  <2> QED BY <2>2, ConvertedFollows DEF WholeInv
<1> QED BY <1>1, WholeInvariant, PTL DEF PosixSpec

(***************************************************************************)
(* What mktime_tz asks for is the client's struct tm, when its fields are  *)
(* unsigned shorts.                                                        *)
(***************************************************************************)
LEMMA AnsweredRequest ==
  ASSUME ConvInv, call = "answered", tz # UNKNOWN, InShorts(local)
  PROVE  /\ InstantsOf(sp, local) = InstantsOf(sp, Request)
         /\ dt_validate_representation([rep EXCEPT !.year = 1900 + local.year, !.month = local.mon + 1,
                                                   !.day = local.mday]) <=> IsDate(rep)
<1> DEFINE b == local
           r == Shortened(b)
           q == dt_representation_to_tm(r)
<1>1. b \in StructTm /\ InShorts(b) /\ rep = r /\ Request = q
  BY DEF ConvInv, Request
<1> HIDE DEF b
<1>2. /\ Civil(q) = Civil(b) /\ q \in StructTm
      /\ r.year = 1900 + b.year /\ r.month = b.mon + 1 /\ r.day = b.mday
  BY <1>1, ShortsKept
<1> HIDE DEF q
<1>3. InstantsOf(sp, b) = InstantsOf(sp, q)
  <2>1. LocalSeconds(q) = LocalSeconds(b)
    BY <1>1, <1>2, SameReading
  <2> QED BY <2>1 DEF InstantsOf, Reads
<1>4. [r EXCEPT !.year = 1900 + b.year, !.month = b.mon + 1, !.day = b.mday] = r
  <2>1. r = [year |-> r.year, month |-> r.month, day |-> r.day, hour |-> r.hour, minute |-> r.minute,
             second |-> r.second, nano_second |-> r.nano_second]
    BY DEF Shortened
  <2> HIDE DEF r
  <2>2. [r EXCEPT !.year = r.year] = r /\ [r EXCEPT !.month = r.month] = r /\ [r EXCEPT !.day = r.day] = r
    BY <2>1
  <2>3. [r EXCEPT !.year = r.year, !.month = r.month, !.day = r.day] = r
    BY <2>2
  <2> QED BY <1>2, <2>3
<1> HIDE DEF r
<1>5. [rep EXCEPT !.year = 1900 + b.year, !.month = b.mon + 1, !.day = b.mday] = rep
  BY <1>1, <1>4
<1> QED BY <1>1, <1>3, <1>5 DEF IsDate, b

(***************************************************************************)
(* In a zone that is not found nothing is answered.                        *)
(***************************************************************************)
LEMMA UnknownUnanswered ==
  ASSUME ConvInv, call = "answered", tz = UNKNOWN
  PROVE  answer = WRONG
BY DEF ConvInv

(***************************************************************************)
(* mktime_tz answers with an instant at which the clock shows the struct   *)
(* tm, if there is one, and with -1 if there is none or if the fields are  *)
(* not those of a date (LocalAnswered), whatever tm_isdst says.            *)
(***************************************************************************)
THEOREM LocalTimesAreAnswered == PosixSpec => [](Showable(Request) => LocalAnswered)
<1>1. WholeInv => (Showable(Request) => LocalAnswered)
  <2> DEFINE there == InstantsOf(sp, local)
             date  == dt_validate_representation(
                        [rep EXCEPT !.year = 1900 + local.year, !.month = local.mon + 1, !.day = local.mday])
  <2> SUFFICES ASSUME WholeInv, Showable(Request), call = "answered", InShorts(local), local.sec < SECSPERMIN
               PROVE  IF tz # UNKNOWN /\ date /\ there \ {WRONG} # {} THEN answer \in there ELSE answer = WRONG
    BY Zenon DEF LocalAnswered
  <2>5. CASE tz = UNKNOWN
    <3>1. answer = WRONG
      BY <2>5, UnknownUnanswered DEF WholeInv
    <3> QED BY <2>5, <3>1
  <2>6. CASE tz # UNKNOWN
    <3>1. there = InstantsOf(sp, Request) /\ (date <=> IsDate(rep))
      BY <2>6, AnsweredRequest DEF WholeInv
    <3>2. IsDate(rep) => answer \in InstantsOf(sp, Request)
      BY <2>6 DEF WholeInv, FindsInv
    <3>3. answer = WRONG \/ answer \in there
      BY AnswerFollows DEF AnswerOnTheClock, WholeInv
    <3>4. answer = WRONG \/ IsDate(rep)
      BY DEF WholeInv, ConvInv
    <3> HIDE DEF there, date
    <3> QED BY <2>6, <3>1, <3>2, <3>3, <3>4
  <2> QED BY <2>5, <2>6
<1> QED BY <1>1, WholeInvariant, PTL DEF PosixSpec

(* A regular request in an orderly zone.                                   *)
OrderlyRep == Orderly(sp) /\ Regular(Request)

(***************************************************************************)
(* The clock does not pass over it, if it shows it.                        *)
(***************************************************************************)
LEMMA OrderlyIsShowable ==
  ASSUME WideInts, sp \in Zones, Request \in StructTm, OrderlyRep, InstantsOf(sp, Request) # {}
  PROVE  Showable(Request)
<1> DEFINE b == Request
<1>1. b \in StructTm /\ Regular(b) /\ InstantsOf(sp, b) # {} /\ Orderly(sp)
  BY DEF OrderlyRep
<1> HIDE DEF b
<1>2. IsZone(sp) /\ SoundLeaps(sp)
  BY SearchAssumption, SoundLeapsAssumption
<1>3. ~Skips(sp, Normalized(b, TRUE).tm)
  BY <1>1, <1>2, ShownIsUnskipped
<1>4. Showable(b)
  BY <1>1, <1>3 DEF Showable, Regular
<1> QED BY <1>4 DEF b

(***************************************************************************)
(* A representation that is a time in the zone is converted                *)
(* (ExistingConverted), in every orderly zone: dt_representation_to_time-  *)
(* stamp with all of tz_mktime below it, and whatever it thinks of -1.     *)
(***************************************************************************)
THEOREM OrderlyTimesAreConverted ==
  ASSUME WideInts
  PROVE  PosixSpec => [](OrderlyRep => ExistingConverted)
<1>1. WholeInv => (OrderlyRep => ExistingConverted)
  <2> SUFFICES ASSUME WholeInv, OrderlyRep, Converted,
                      InstantsOf(sp, Request) # {}, WRONG \notin InstantsOf(sp, Request)
               PROVE  status = "DT_OK"
    BY DEF ExistingConverted
  <2>1. sp \in Zones /\ Request \in StructTm
    BY DEF WholeInv, ConvInv, Answers
  <2>2. Showable(Request)
    BY <2>1, OrderlyIsShowable
  <2>3. result \in InstantsOf(sp, Request)
    BY <2>2 DEF WholeInv, FindsInv
  <2>4. result # WRONG
    BY <2>3
  <2> QED BY <2>4, ConvertedFollows DEF WholeInv
<1> QED BY <1>1, WholeInvariant, PTL DEF PosixSpec

(***************************************************************************)
(* mktime_tz answers with an instant at which the clock shows the struct   *)
(* tm, if there is one, and with -1 if there is none (LocalAnswered), in   *)
(* every orderly zone.                                                     *)
(***************************************************************************)
THEOREM OrderlyTimesAreAnswered ==
  ASSUME WideInts
  PROVE  PosixSpec => [](OrderlyRep => LocalAnswered)
<1>1. WholeInv => (OrderlyRep => LocalAnswered)
  <2> DEFINE there == InstantsOf(sp, local)
             date  == dt_validate_representation(
                        [rep EXCEPT !.year = 1900 + local.year, !.month = local.mon + 1, !.day = local.mday])
  <2> SUFFICES ASSUME WholeInv, OrderlyRep, call = "answered", InShorts(local), local.sec < SECSPERMIN
               PROVE  IF tz # UNKNOWN /\ date /\ there \ {WRONG} # {} THEN answer \in there ELSE answer = WRONG
    BY Zenon DEF LocalAnswered
  <2>5. CASE tz = UNKNOWN
    <3>1. answer = WRONG
      BY <2>5, UnknownUnanswered DEF WholeInv
    <3> QED BY <2>5, <3>1
  <2>6. CASE tz # UNKNOWN
    <3>1. there = InstantsOf(sp, Request) /\ (date <=> IsDate(rep))
      BY <2>6, AnsweredRequest DEF WholeInv
    <3>2. answer = WRONG \/ answer \in there
      BY AnswerFollows DEF AnswerOnTheClock, WholeInv
    <3>3. answer = WRONG \/ IsDate(rep)
      BY DEF WholeInv, ConvInv
    <3>4. IsDate(rep) /\ there # {} => answer \in InstantsOf(sp, Request)
      <4> SUFFICES ASSUME IsDate(rep), InstantsOf(sp, Request) # {} PROVE answer \in InstantsOf(sp, Request)
        BY <3>1
      <4>1. sp \in Zones /\ Request \in StructTm
        BY <2>6 DEF WholeInv, FindsInv
      <4>2. Showable(Request)
        BY <4>1, OrderlyIsShowable
      <4> QED BY <2>6, <4>2 DEF WholeInv, FindsInv
    <3> HIDE DEF there, date
    <3> QED BY <2>6, <3>1, <3>2, <3>3, <3>4
  <2> QED BY <2>5, <2>6
<1> QED BY <1>1, WholeInvariant, PTL DEF PosixSpec
=============================================================================
