------------------------- MODULE DtCalendar_proofs -------------------------
(***************************************************************************)
(* Proofs about DtCalendar, for every walk through time: no day is lost,   *)
(* the day of the year is right, and the day of the week exactly where the *)
(* property says.                                                          *)
(***************************************************************************)
EXTENDS DtCalendarDays, TLAPS

(* The tomorrow of a valid date, given field by field.                     *)
LastDay(y, m) == IF m = 2 /\ dt_is_leap_year(y) THEN 29 ELSE month_days[m]

Tomorrow(y, m, d) ==
  IF y = 1582 /\ m = 10 /\ d = 4 THEN [year |-> 1582, month |-> 10, day |-> 15]
  ELSE IF d < LastDay(y, m) THEN [year |-> y, month |-> m, day |-> d + 1]
  ELSE IF m < 12 THEN [year |-> y, month |-> m + 1, day |-> 1]
  ELSE [year |-> IF y = -1 THEN 1 ELSE y + 1, month |-> 1, day |-> 1]

DateBefore(a, b) ==
  \/ a.year < b.year
  \/ a.year = b.year /\ a.month < b.month
  \/ a.year = b.year /\ a.month = b.month /\ a.day < b.day

Date == [year : Int, month : Int, day : Int]

(***************************************************************************)
(* The lengths of the months.                                              *)
(***************************************************************************)
LEMMA MonthLengths ==
  /\ month_days[1] = 31 /\ month_days[2] = 28 /\ month_days[3] = 31 /\ month_days[4] = 30
  /\ month_days[5] = 31 /\ month_days[6] = 30 /\ month_days[7] = 31 /\ month_days[8] = 31
  /\ month_days[9] = 30 /\ month_days[10] = 31 /\ month_days[11] = 30 /\ month_days[12] = 31
BY DEF month_days

(***************************************************************************)
(* A month number is one of twelve.                                        *)
(***************************************************************************)
LEMMA Months ==
  ASSUME NEW m \in Int, 1 <= m, m <= 12
  PROVE  \/ m = 1 \/ m = 2 \/ m = 3 \/ m = 4 \/ m = 5 \/ m = 6
         \/ m = 7 \/ m = 8 \/ m = 9 \/ m = 10 \/ m = 11 \/ m = 12
OBVIOUS

(***************************************************************************)
(* A date is valid when its day lies in the month, in a year that exists,  *)
(* and was not dropped.                                                    *)
(***************************************************************************)
LEMMA ValidDateIs ==
  ASSUME NEW y \in Int, NEW m \in Int, NEW d \in Int
  PROVE  ValidDate(y, m, d) <=>
           /\ y # 0 /\ 1 <= m /\ m <= 12 /\ 1 <= d /\ d <= LastDay(y, m)
           /\ ~Dropped(y, m, d)
<1>1. CASE 1 <= m /\ m <= 12
  <2>1. month_days[m] \in Int /\ (m = 2 => month_days[m] = 28)
    BY <1>1, Months, MonthLengths
  <2> QED
    BY <1>1, <2>1 DEF ValidDate, LastDay
<1>2. CASE ~(1 <= m /\ m <= 12)
  BY <1>2 DEF ValidDate
<1> QED
  BY <1>1, <1>2

(***************************************************************************)
(* Tomorrow is a valid date and a later one.                               *)
(***************************************************************************)
LEMMA TomorrowValid ==
  ASSUME NEW y \in Int, NEW m \in Int, NEW d \in Int, ValidDate(y, m, d)
  PROVE  LET t == Tomorrow(y, m, d)
         IN  /\ t \in Date
             /\ ValidDate(t.year, t.month, t.day)
             /\ t.day <= 31
             /\ DateBefore([year |-> y, month |-> m, day |-> d], t)
<1> DEFINE t == Tomorrow(y, m, d)
<1>1. /\ y # 0 /\ 1 <= m /\ m <= 12 /\ 1 <= d /\ d <= LastDay(y, m) /\ ~Dropped(y, m, d)
  BY ValidDateIs
<1>2. \A k \in Int, x \in Int : 1 <= k /\ k <= 12 =>
        LastDay(x, k) \in Int /\ 28 <= LastDay(x, k) /\ LastDay(x, k) <= 31
  BY Months, MonthLengths DEF LastDay
<1>3. LastDay(1582, 10) = 31
  BY MonthLengths DEF LastDay
<1>4. /\ t.year \in Int /\ t.month \in Int /\ t.day \in Int
      /\ t = [year |-> t.year, month |-> t.month, day |-> t.day]
      /\ t.year # 0 /\ 1 <= t.month /\ t.month <= 12
      /\ 1 <= t.day /\ t.day <= LastDay(t.year, t.month) /\ t.day <= 31
      /\ ~Dropped(t.year, t.month, t.day)
      /\ DateBefore([year |-> y, month |-> m, day |-> d], t)
  <2>1. CASE y = 1582 /\ m = 10 /\ d = 4
    BY <1>3, <2>1 DEF Tomorrow, Dropped, DateBefore
  <2>2. CASE ~(y = 1582 /\ m = 10 /\ d = 4) /\ d < LastDay(y, m)
    <3>1. t = [year |-> y, month |-> m, day |-> d + 1]
      BY <2>2 DEF Tomorrow
    <3>2. d + 1 <= LastDay(y, m) /\ d + 1 <= 31 /\ ~Dropped(y, m, d + 1)
      BY <1>1, <1>2, <2>2 DEF Dropped
    <3> HIDE DEF t
    <3> QED
      BY <1>1, <3>1, <3>2 DEF DateBefore
  <2>3. CASE ~(y = 1582 /\ m = 10 /\ d = 4) /\ ~(d < LastDay(y, m)) /\ m < 12
    BY <1>1, <1>2, <2>3 DEF Tomorrow, Dropped, DateBefore
  <2>4. CASE ~(y = 1582 /\ m = 10 /\ d = 4) /\ ~(d < LastDay(y, m)) /\ ~(m < 12)
    <3> DEFINE next == IF y = -1 THEN 1 ELSE y + 1
    <3>1. t = [year |-> next, month |-> 1, day |-> 1]
      BY <2>4 DEF Tomorrow
    <3>2. next \in Int /\ next # 0 /\ y < next
      BY <1>1
    <3>3. 1 <= LastDay(next, 1) /\ ~Dropped(next, 1, 1)
      BY <1>2, <3>2 DEF Dropped
    <3> HIDE DEF t, next
    <3> QED
      BY <1>1, <3>1, <3>2, <3>3 DEF DateBefore
  <2> QED
    BY <2>1, <2>2, <2>3, <2>4
<1>5. ValidDate(t.year, t.month, t.day)
  BY <1>4, ValidDateIs
<1> QED
  BY <1>4, <1>5 DEF Date

(***************************************************************************)
(* No valid date lies between a date and its tomorrow.                     *)
(***************************************************************************)
LEMMA TomorrowNext ==
  ASSUME NEW y \in Int, NEW m \in Int, NEW d \in Int, ValidDate(y, m, d),
         NEW c \in Date, ValidDate(c.year, c.month, c.day),
         DateBefore([year |-> y, month |-> m, day |-> d], c),
         ~DateBefore(Tomorrow(y, m, d), c)
  PROVE  c = Tomorrow(y, m, d)
<1> DEFINE t == Tomorrow(y, m, d)
<1>1. /\ y # 0 /\ 1 <= m /\ m <= 12 /\ 1 <= d /\ d <= LastDay(y, m) /\ ~Dropped(y, m, d)
  BY ValidDateIs
<1>2. /\ c.year \in Int /\ c.month \in Int /\ c.day \in Int
      /\ c = [year |-> c.year, month |-> c.month, day |-> c.day]
  BY DEF Date
<1>3. /\ c.year # 0 /\ 1 <= c.month /\ c.month <= 12 /\ 1 <= c.day
      /\ c.day <= LastDay(c.year, c.month) /\ ~Dropped(c.year, c.month, c.day)
  BY <1>2, ValidDateIs
<1>4. LastDay(y, m) \in Int
  BY <1>1, Months, MonthLengths DEF LastDay
<1>5. /\ t.year \in Int /\ t.month \in Int /\ t.day \in Int
      /\ t = [year |-> t.year, month |-> t.month, day |-> t.day]
  BY TomorrowValid DEF Date
<1>6. c.year = t.year /\ c.month = t.month /\ c.day = t.day
  <2>1. CASE y = 1582 /\ m = 10 /\ d = 4
    BY <1>1, <1>2, <1>3, <2>1 DEF Tomorrow, Dropped, DateBefore
  <2>2. CASE ~(y = 1582 /\ m = 10 /\ d = 4) /\ d < LastDay(y, m)
    BY <1>1, <1>2, <1>3, <1>4, <2>2 DEF Tomorrow, Dropped, DateBefore
  <2>3. CASE ~(y = 1582 /\ m = 10 /\ d = 4) /\ ~(d < LastDay(y, m)) /\ m < 12
    BY <1>1, <1>2, <1>3, <1>4, <2>3 DEF Tomorrow, Dropped, DateBefore
  <2>4. CASE ~(y = 1582 /\ m = 10 /\ d = 4) /\ ~(d < LastDay(y, m)) /\ ~(m < 12)
    BY <1>1, <1>2, <1>3, <1>4, <2>4 DEF Tomorrow, Dropped, DateBefore
  <2> QED
    BY <2>1, <2>2, <2>3, <2>4
<1> QED
  BY <1>2, <1>5, <1>6

(***************************************************************************)
(* The day number of a date, without hour and clock.                       *)
(***************************************************************************)
LEMMA DayNumberOfDate ==
  ASSUME NEW r, NEW s, r.year = s.year, r.month = s.month, r.day = s.day
  PROVE  DayNumber(r) = DayNumber(s)
BY DEF DayNumber

(***************************************************************************)
(* Tomorrow is one day later.                                              *)
(***************************************************************************)
LEMMA TomorrowCounts ==
  ASSUME NEW y \in Int, NEW m \in Int, NEW d \in Int, ValidDate(y, m, d)
  PROVE  DayNumber(Tomorrow(y, m, d)) = DayNumber([year |-> y, month |-> m, day |-> d]) + 1
<1>1. /\ y # 0 /\ 1 <= m /\ m <= 12 /\ 1 <= d /\ d <= LastDay(y, m) /\ ~Dropped(y, m, d)
  BY ValidDateIs
<1>2. CASE y = 1582 /\ m = 10 /\ d = 4
  BY <1>2 DEF Tomorrow, DayNumber
<1>3. CASE ~(y = 1582 /\ m = 10 /\ d = 4) /\ d < LastDay(y, m)
  <2>1. Tomorrow(y, m, d) = [year |-> y, month |-> m, day |-> d + 1]
    BY <1>3 DEF Tomorrow
  <2>2. ~(y = 1582 /\ m = 10) \/ d + 1 <= 4 \/ d > 4
    BY <1>1, <1>3
  <2> QED
    BY <1>1, <1>3, <2>1, <2>2 DEF DayNumber, Dropped
<1>4. CASE ~(y = 1582 /\ m = 10 /\ d = 4) /\ ~(d < LastDay(y, m)) /\ m < 12
  <2>1. Tomorrow(y, m, d) = [year |-> y, month |-> m + 1, day |-> 1]
    BY <1>4 DEF Tomorrow
  <2>2. d = LastDay(y, m)
    BY <1>1, <1>4, Months, MonthLengths DEF LastDay
  <2>3. CASE m = 2
    <3>1. d = IF dt_is_leap_year(y) THEN 29 ELSE 28
      BY <2>2, <2>3, MonthLengths DEF LastDay
    <3> QED
      BY <1>1, <2>1, <2>3, <3>1 DEF DayNumber, dt_is_leap_year
  <2>4. CASE m # 2
    <3>1. d = month_days[m]
      BY <2>2, <2>4 DEF LastDay
    <3> QED
      BY <1>1, <1>4, <2>1, <2>4, <3>1, Months, MonthLengths DEF DayNumber
  <2> QED
    BY <2>3, <2>4
<1>5. CASE ~(y = 1582 /\ m = 10 /\ d = 4) /\ ~(d < LastDay(y, m)) /\ ~(m < 12)
  <2>1. Tomorrow(y, m, d) = [year |-> IF y = -1 THEN 1 ELSE y + 1, month |-> 1, day |-> 1]
    BY <1>5 DEF Tomorrow
  <2>2. m = 12 /\ d = 31
    BY <1>1, <1>5, MonthLengths DEF LastDay
  <2> QED
    BY <1>1, <2>1, <2>2 DEF DayNumber
<1> QED
  BY <1>2, <1>3, <1>4, <1>5

(***************************************************************************)
(* DayOfWeek in a Gregorian year.  With year = 100 c + y, the code adds    *)
(* 6 c + 6 y / 100 where the congruence has 6 c.                           *)
(***************************************************************************)
LEMMA WeekdayLemma ==
  ASSUME NEW r, r.year \in Int, r.month \in Int, r.day \in Int,
         ValidDate(r.year, r.month, r.day), r.year > 1582
  PROVE  LET year == IF r.month <= 2 THEN r.year - 1 ELSE r.year
         IN  DayOfWeek(r) = Weekday(r) <=> year % 100 < 17
<1> DEFINE early == r.month = 1 \/ r.month = 2
           year  == IF early THEN r.year - 1 ELSE r.year
           month == IF early THEN r.month + 12 ELSE r.month
           shifted == IF early THEN r.month + 9 ELSE r.month - 3
           c     == year \div 100
           y     == year % 100
           z     == ((month + 1) * 26) \div 10
           n     == r.day + z + year + year \div 4 + 6 * c + year \div 400
           e     == (6 * y) \div 100
<1>1. /\ 1 <= r.month /\ r.month <= 12 /\ 1 <= r.day
      /\ early <=> r.month <= 2
      /\ early <=> r.month \in {1, 2}
  BY DEF ValidDate
<1>2. year \in Int /\ month \in Int /\ year > 0 /\ 3 <= month /\ month <= 14
  BY <1>1
<1>3. month = shifted + 3 /\ 0 <= shifted /\ shifted <= 11 /\ shifted \in Int
  BY <1>1
<1>4. (153 * shifted + 2) \div 5 = ((month + 1) * 26) \div 10 + 28 * shifted - 10
  <2> HIDE DEF shifted, month
  <2>1. \/ shifted = 0 \/ shifted = 1 \/ shifted = 2 \/ shifted = 3 \/ shifted = 4 \/ shifted = 5
        \/ shifted = 6 \/ shifted = 7 \/ shifted = 8 \/ shifted = 9 \/ shifted = 10 \/ shifted = 11
    BY <1>3
  <2> QED
    BY <1>3, <2>1
<1>5. /\ DayNumber(r) = 365 * year + year \div 4 - c + year \div 400 + 2
                         + (153 * shifted + 2) \div 5 + r.day
  BY <1>1 DEF DayNumber
<1>6. /\ n = r.day + z + year + year \div 4 + 6 * c + year \div 400
      /\ DayOfWeek(r) =
           LET d == CMod(r.day + CDiv((month + 1) * 26, 10) + year + CDiv(year, 4)
                          + CDiv(6 * year, 100) + CDiv(year, 400), 7)
           IN  IF d = 0 THEN 7 ELSE d
  BY <1>1 DEF DayOfWeek
<1> HIDE DEF early, year, month, shifted
<1>7. /\ c \in Int /\ y \in Int /\ 0 <= y /\ y <= 99 /\ year = 100 * c + y
  BY <1>2
<1> HIDE DEF c, y
<1>8. /\ e \in Int /\ 0 <= e /\ e <= 5 /\ (e = 0 <=> y < 17)
      /\ (6 * year) \div 100 = 6 * c + e
  BY <1>7
<1>9. c >= 0 /\ year \div 4 \in Nat /\ year \div 400 \in Nat /\ z \in Nat
  BY <1>2, <1>7
<1>10. /\ CDiv((month + 1) * 26, 10) = z
       /\ CDiv(year, 4) = year \div 4
       /\ CDiv(6 * year, 100) = 6 * c + e
       /\ CDiv(year, 400) = year \div 400
  BY <1>2, <1>8 DEF CDiv
<1> HIDE DEF e, z
<1> DEFINE q == year \div 4
           p == year \div 400
<1>11. q \in Nat /\ p \in Nat
  BY <1>9
<1>12. DayNumber(r) = (n - 1) + 7 * (52 * year - c + 4 * shifted - 1)
  <2>1. z + 28 * shifted - 10 = (153 * shifted + 2) \div 5
    BY <1>4 DEF z
  <2> HIDE DEF q, p
  <2> QED
    BY <1>1, <1>2, <1>3, <1>5, <1>6, <1>7, <1>9, <1>11, <2>1 DEF q, p
<1>13. n \in Nat /\ n > 0
  BY <1>1, <1>2, <1>6, <1>7, <1>9
<1>14. DayOfWeek(r) = IF (n + e) % 7 = 0 THEN 7 ELSE (n + e) % 7
  <2>1. r.day + z + year + q + (6 * c + e) + p = n + e
    BY <1>2, <1>6, <1>7, <1>8, <1>9, <1>11
  <2>2. CMod(n + e, 7) = (n + e) % 7
    BY <1>8, <1>13 DEF CMod, CDiv
  <2> QED
    BY <1>6, <1>10, <2>1, <2>2
<1>15. Weekday(r) = 1 + ((n - 1) % 7)
  <2>1. 52 * year - c + 4 * shifted - 1 \in Int
    BY <1>2, <1>3, <1>7
  <2>2. ASSUME NEW a \in Int, NEW k \in Int PROVE (a + 7 * k) % 7 = a % 7
    OBVIOUS
  <2> QED
    BY <1>12, <1>13, <2>1, <2>2 DEF Weekday
<1> HIDE DEF n
<1>16. DayOfWeek(r) = Weekday(r) <=> e = 0
  BY <1>8, <1>13, <1>14, <1>15
<1> QED
  BY <1>1, <1>8, <1>16 DEF year, y, early

-----------------------------------------------------------------------------
(* The days before a month of a common year.                               *)
MonthStart == <<0, 31, 59, 90, 120, 151, 181, 212, 243, 273, 304, 334, 365>>

LeapDay(y) == IF dt_is_leap_year(y) THEN 1 ELSE 0

(***************************************************************************)
(* They are the sums of the lengths of the months.                         *)
(***************************************************************************)
LEMMA MonthStarts ==
  /\ MonthStart[1] = 0 /\ MonthStart[2] = 31 /\ MonthStart[3] = 59 /\ MonthStart[4] = 90
  /\ MonthStart[5] = 120 /\ MonthStart[6] = 151 /\ MonthStart[7] = 181 /\ MonthStart[8] = 212
  /\ MonthStart[9] = 243 /\ MonthStart[10] = 273 /\ MonthStart[11] = 304 /\ MonthStart[12] = 334
  /\ MonthStart[13] = 365
BY DEF MonthStart

(***************************************************************************)
(* The loop over the months adds up a table, and the leap day from March   *)
(* on.                                                                     *)
(***************************************************************************)
LEMMA DaysBeforeIs ==
  ASSUME NEW y \in Int, NEW m \in Int, 1 <= m, m <= 13
  PROVE  DaysBefore[<<y, m>>] = MonthStart[m] + IF m > 2 THEN LeapDay(y) ELSE 0
<1> DEFINE D == Int \X (1 .. 13)
           Added(p) == IF p[2] = 3 /\ dt_is_leap_year(p[1]) THEN 29 ELSE month_days[p[2] - 1]
           Step(f, p) == IF p[2] = 1 THEN 0 ELSE f[<<p[1], p[2] - 1>>] + Added(p)
           Sum(p) == MonthStart[p[2]] + IF p[2] > 2 THEN LeapDay(p[1]) ELSE 0
           h == [p \in D |-> Sum(p)]
<1>1. ASSUME NEW p \in D PROVE h[p] = Step(h, p)
  <2>1. p[1] \in Int /\ p[2] \in 1 .. 13
    OBVIOUS
  <2>2. CASE p[2] = 1
    BY <2>1, <2>2, MonthStarts
  <2>3. CASE p[2] # 1
    <3>1. <<p[1], p[2] - 1>> \in D
      BY <2>1, <2>3
    <3>2. h[<<p[1], p[2] - 1>>] = MonthStart[p[2] - 1] + IF p[2] - 1 > 2 THEN LeapDay(p[1]) ELSE 0
      BY <3>1
    <3>3. p[2] = 2 \/ p[2] = 3 \/ p[2] - 1 \in 3 .. 12
      BY <2>1, <2>3
    <3>4. Sum(p) = MonthStart[p[2] - 1] + (IF p[2] - 1 > 2 THEN LeapDay(p[1]) ELSE 0) + Added(p)
      <4>1. CASE p[2] = 2
        BY <4>1, MonthStarts, MonthLengths
      <4>2. CASE p[2] = 3
        BY <4>2, MonthStarts, MonthLengths DEF LeapDay
      <4>3. CASE p[2] - 1 \in 3 .. 12
        <5> DEFINE k == p[2]
        <5>1. /\ k \in Int /\ k > 3 /\ LeapDay(p[1]) \in Int
              /\ MonthStart[k] = MonthStart[k - 1] + month_days[k - 1]
              /\ MonthStart[k - 1] \in Int /\ month_days[k - 1] \in Int
          <6>1. k \in Int /\ 4 <= k /\ k <= 13
            BY <2>1, <4>3
          <6>2. \/ k = 4 \/ k = 5 \/ k = 6 \/ k = 7 \/ k = 8 \/ k = 9 \/ k = 10 \/ k = 11 \/ k = 12 \/ k = 13
            <7> HIDE DEF k
            <7> QED BY <6>1
          <6> HIDE DEF k
          <6> QED BY <6>1, <6>2, MonthStarts, MonthLengths DEF LeapDay
        <5>2. Added(p) = month_days[k - 1] /\ Sum(p) = MonthStart[k] + LeapDay(p[1])
          BY <5>1
        <5> HIDE DEF Added, Sum
        <5> QED BY <5>1, <5>2
      <4> QED BY <3>3, <4>1, <4>2, <4>3
    <3> QED BY <2>3, <3>2, <3>4
  <2> QED BY <2>2, <2>3
<1>2. \E f : f = [p \in D |-> Step(f, p)]
  <2>1. h = [p \in D |-> h[p]]
    OBVIOUS
  <2> HIDE DEF h, Step, D
  <2>2. h = [p \in D |-> Step(h, p)]
    BY <1>1, <2>1
  <2> QED BY <2>2
<1>3. DaysBefore = [p \in D |-> Step(DaysBefore, p)]
  BY <1>2, Zenon DEF DaysBefore
<1>4. ASSUME NEW k \in Int, 1 <= k, k <= 13
      PROVE  /\ k = 1 => DaysBefore[<<y, k>>] = 0
             /\ k > 1 => DaysBefore[<<y, k>>] =
                           DaysBefore[<<y, k - 1>>]
                             + IF k = 3 /\ dt_is_leap_year(y) THEN 29 ELSE month_days[k - 1]
  <2>1. <<y, k>> \in D
    BY <1>4
  <2>2. DaysBefore[<<y, k>>] = Step(DaysBefore, <<y, k>>)
    <3> HIDE DEF Step, D
    <3> QED BY <1>3, <2>1
  <2> QED BY <1>4, <2>2
<1> HIDE DEF D, Added, Step, Sum, h
<1>5. /\ DaysBefore[<<y, 1>>] = 0 /\ DaysBefore[<<y, 2>>] = 31
      /\ DaysBefore[<<y, 3>>] = 59 + LeapDay(y) /\ DaysBefore[<<y, 4>>] = 90 + LeapDay(y)
  <2>1. DaysBefore[<<y, 1>>] = 0
    <3>1. 1 \in Int /\ 1 <= 1 /\ 1 <= 13 /\ 1 = 1
      OBVIOUS
    <3> QED BY ONLY <1>4, <3>1
  <2>2. DaysBefore[<<y, 2>>] = DaysBefore[<<y, 1>>] + month_days[1]
    BY <1>4
  <2>3. DaysBefore[<<y, 3>>] = DaysBefore[<<y, 2>>] + IF dt_is_leap_year(y) THEN 29 ELSE month_days[2]
    BY <1>4
  <2>4. DaysBefore[<<y, 4>>] = DaysBefore[<<y, 3>>] + month_days[3]
    BY <1>4
  <2> QED BY <2>1, <2>2, <2>3, <2>4, MonthLengths DEF LeapDay
<1>6. ASSUME NEW k \in Int, 4 <= k, k <= 12, DaysBefore[<<y, k>>] = MonthStart[k] + LeapDay(y)
      PROVE  DaysBefore[<<y, k + 1>>] = MonthStart[k + 1] + LeapDay(y)
  <2>1. DaysBefore[<<y, k + 1>>] = DaysBefore[<<y, k>>] + month_days[k]
    <3>1. k + 1 \in Int /\ 1 <= k + 1 /\ k + 1 <= 13 /\ k + 1 # 1 /\ k + 1 # 3 /\ k + 1 - 1 = k
      BY <1>6
    <3> QED BY <1>4, <3>1
  <2>2. MonthStart[k + 1] = MonthStart[k] + month_days[k] /\ MonthStart[k] \in Int /\ month_days[k] \in Int
    BY <1>6, Months, MonthStarts, MonthLengths
  <2>3. LeapDay(y) \in Int
    BY DEF LeapDay
  <2> QED BY <1>6, <2>1, <2>2, <2>3
<1> DEFINE P(k) == DaysBefore[<<y, k>>] = MonthStart[k] + LeapDay(y)
<1>7. P(4) /\ \A k \in Int : 4 <= k /\ k <= 12 /\ P(k) => P(k + 1)
  BY <1>5, <1>6, MonthStarts
<1>8. P(4) /\ P(5) /\ P(6) /\ P(7) /\ P(8) /\ P(9) /\ P(10) /\ P(11) /\ P(12) /\ P(13)
  <2> HIDE DEF P
  <2>1. P(4 + 1)
    BY <1>7
  <2>2. P(5 + 1)
    BY <1>7, <2>1
  <2>3. P(6 + 1)
    BY <1>7, <2>2
  <2>4. P(7 + 1)
    BY <1>7, <2>3
  <2>5. P(8 + 1)
    BY <1>7, <2>4
  <2>6. P(9 + 1)
    BY <1>7, <2>5
  <2>7. P(10 + 1)
    BY <1>7, <2>6
  <2>8. P(11 + 1)
    BY <1>7, <2>7
  <2>9. P(12 + 1)
    BY <1>7, <2>8
  <2> QED BY <1>7, <2>1, <2>2, <2>3, <2>4, <2>5, <2>6, <2>7, <2>8, <2>9
<1>9. CASE m <= 3
  <2>1. m = 1 \/ m = 2 \/ m = 3
    BY <1>9
  <2>2. LeapDay(y) \in Int
    BY DEF LeapDay
  <2> QED BY <1>5, <2>1, <2>2, MonthStarts
<1>10. CASE 4 <= m
  <2>1. \/ m = 4 \/ m = 5 \/ m = 6 \/ m = 7 \/ m = 8 \/ m = 9 \/ m = 10 \/ m = 11 \/ m = 12 \/ m = 13
    BY <1>10
  <2>2. P(m)
    <3> HIDE DEF P
    <3> QED BY <1>8, <2>1
  <2> QED BY <1>10, <2>2
<1> QED BY <1>9, <1>10

(***************************************************************************)
(* From one 1 January to the next, the day number counts the leap days.    *)
(***************************************************************************)
LEMMA LeapYearCounts ==
  ASSUME NEW y \in Int
  PROVE  /\ 0 < y /\ y <= 1582 => y \div 4 - (y - 1) \div 4 = LeapDay(y)
         /\ 1582 < y =>
              (y \div 4 - y \div 100 + y \div 400)
                - ((y - 1) \div 4 - (y - 1) \div 100 + (y - 1) \div 400) = LeapDay(y)
BY DEF LeapDay, dt_is_leap_year

(***************************************************************************)
(* The day of the year of a valid date, and the ten days of 1582.          *)
(***************************************************************************)
LEMMA DayOfYearLemma ==
  ASSUME NEW r, NEW f, NEW p,
         r.year \in Int, r.month \in Int, r.day \in Int, ValidDate(r.year, r.month, r.day),
         f.year = r.year, f.month = 1, f.day = 1, p.year = 1582, p.month = 10, p.day = 15
  PROVE  DayOfYear(r) = DayNumber(r) - DayNumber(f) + 1
           + IF r.year = 1582 /\ DayNumber(r) >= DayNumber(p) THEN 10 ELSE 0
<1> DEFINE y == r.year
           m == r.month
           d == r.day
           c == IF y < 0 THEN y + 1 ELSE y
           late == y = 1582 /\ (m > 10 \/ (m = 10 /\ d > 4))
           Julian(x) == IF x < 0 THEN 0 ELSE x \div 4
           Gregorian(x) == x \div 4 - x \div 100 + x \div 400 + 2
           Count(x) == IF y > 1582 \/ late THEN Gregorian(x) ELSE Julian(x)
           First == IF y > 1582 THEN Gregorian(c - 1) ELSE Julian(c - 1)
<1>1. /\ y \in Int /\ m \in Int /\ d \in Int /\ y # 0 /\ 1 <= m /\ m <= 12 /\ 1 <= d /\ d <= LastDay(y, m)
      /\ ~Dropped(y, m, d)
  BY ValidDateIs
<1>2. DayNumber(f) = 365 * (c - 1) + First + 307
  BY <1>1 DEF DayNumber
<1>3. /\ m <= 2 => DayNumber(r) = 365 * (c - 1) + Count(c - 1) + (153 * (m + 9) + 2) \div 5 + d
      /\ m > 2 => DayNumber(r) = 365 * c + Count(c) + (153 * (m - 3) + 2) \div 5 + d
  BY <1>1 DEF DayNumber
<1>4. DayOfYear(r) = MonthStart[m] + (IF m > 2 THEN LeapDay(y) ELSE 0) + d
  BY <1>1, DaysBeforeIs DEF DayOfYear
<1>5. /\ m = 1 => (153 * (m + 9) + 2) \div 5 = 306 + MonthStart[m]
      /\ m = 2 => (153 * (m + 9) + 2) \div 5 = 306 + MonthStart[m]
      /\ m > 2 => (153 * (m - 3) + 2) \div 5 = MonthStart[m] - 59
      /\ MonthStart[m] \in Int
  BY <1>1, Months, MonthStarts
<1>6. y = 1582 => (DayNumber(r) >= DayNumber(p) <=> late)
  <2> SUFFICES ASSUME y = 1582 PROVE DayNumber(r) >= DayNumber(p) <=> late
    OBVIOUS
  <2>1. DayNumber(p) = 578044
    BY DEF DayNumber
  <2> QED BY <1>1, <1>3, <1>5, <2>1, Months, MonthStarts, MonthLengths DEF LastDay, Dropped
<1>7. LeapDay(y) \in Int /\ (y < 0 => LeapDay(y) = 0)
  BY <1>1 DEF LeapDay, dt_is_leap_year
<1> DEFINE N == DayNumber(r)
           B == MonthStart[m]
           L == LeapDay(y)
           T == IF late THEN 10 ELSE 0
<1>8. m <= 2 => Count(c - 1) = First /\ T = 0
  BY <1>1
<1>9. m > 2 => Count(c) - First = L - T
  <2> HIDE DEF L
  <2>1. CASE y > 1582
    BY <1>1, <2>1, LeapYearCounts DEF L
  <2>2. CASE late
    <3>1. ~dt_is_leap_year(y)
      BY <1>1, <2>2 DEF dt_is_leap_year
    <3>2. L = 0 /\ c = 1582
      BY <2>2, <3>1 DEF L, LeapDay
    <3> QED BY <2>2, <3>2
  <2>3. CASE ~late /\ 0 < y /\ y <= 1582
    <3>1. Count(c) = y \div 4 /\ First = (y - 1) \div 4 /\ T = 0
      BY <2>3
    <3>2. y \div 4 - (y - 1) \div 4 = L
      BY <1>1, <2>3, LeapYearCounts DEF L
    <3> HIDE DEF Count, First, T, y, L
    <3> QED BY <1>1, <3>1, <3>2, <1>7
  <2>4. CASE y < 0
    BY <1>1, <1>7, <2>4 DEF L
  <2> QED BY <1>1, <2>1, <2>2, <2>3, <2>4
<1>10. /\ First \in Int /\ Count(c) \in Int /\ Count(c - 1) \in Int
       /\ c \in Int /\ B \in Int /\ L \in Int /\ T \in Int
  BY <1>1, <1>5, <1>7
<1>11. (IF r.year = 1582 /\ N >= DayNumber(p) THEN 10 ELSE 0) = T
  BY <1>6
<1>12. N - DayNumber(f) + 1 + T = B + (IF m > 2 THEN L ELSE 0) + d
  <2>1. CASE m <= 2
    <3>1. N = 365 * (c - 1) + First + (306 + B) + d
      BY <1>1, <1>3, <1>5, <1>8, <2>1
    <3> HIDE DEF N, B, L, T, c, First, m, d, y
    <3> QED BY <1>1, <1>2, <1>8, <1>10, <2>1, <3>1
  <2>2. CASE m > 2
    <3>1. N = 365 * c + Count(c) + (B - 59) + d
      BY <1>3, <1>5, <2>2
    <3> DEFINE C == Count(c)
    <3>2. C \in Int /\ C - First = L - T /\ N = 365 * c + C + (B - 59) + d
      BY <1>9, <1>10, <2>2, <3>1
    <3> HIDE DEF N, B, L, T, c, C, First, m, d, y
    <3> QED BY <1>1, <1>2, <1>10, <2>2, <3>2
  <2> QED BY <1>1, <2>1, <2>2
<1> QED BY <1>4, <1>11, <1>12

-----------------------------------------------------------------------------
(***************************************************************************)
(* The inductive invariant: what the client holds is the last hour before  *)
(* the candidate that the API accepts.  Without the second part, that      *)
(* nothing in between would have been accepted, NoDayLost does not follow. *)
(***************************************************************************)
GoodClock ==
  clock.minute <= 59 /\ clock.second <= 59 /\ clock.nano_second <= MAX_NANOSECONDS

GoodHour(c) == ValidDate(c.year, c.month, c.day) /\ c.hour <= 24

(* A dt_representation_t has these fields.                                 *)
Fields(r) ==
  r = [year |-> r.year, month |-> r.month, day |-> r.day, hour |-> r.hour,
       minute |-> r.minute, second |-> r.second, nano_second |-> r.nano_second]

Held ==
  /\ Fields(rep)
  /\ rep.year \in Int /\ rep.month \in Int /\ rep.day \in Int
  /\ rep.hour \in 0 .. LastHour
  /\ GoodHour(rep) /\ GoodClock
  /\ Before(rep, candidate)
  /\ \A c \in Candidate : Before(rep, c) /\ Before(c, candidate) => ~GoodHour(c)

WalkInv ==
  /\ candidate \in Candidate
  /\ rep # Unset => Held
  /\ dow # Unset => rep # Unset /\ dow = DayOfWeek(rep)
  /\ doy # Unset => rep # Unset /\ doy = DayOfYear(rep)

(***************************************************************************)
(* The candidates come in the order of their fields, and none is left out. *)
(***************************************************************************)
LEMMA CandidatesInOrder ==
  ASSUME NEW c \in Candidate
  PROVE  /\ NextCandidate(c) \in Candidate
         /\ Before(c, NextCandidate(c))
         /\ \A x \in Candidate : Before(x, NextCandidate(c)) => Before(x, c) \/ x = c
<1>1. LastHour \in Int /\ 0 <= LastHour
  BY WalkAssumption
<1>2. /\ c.year \in Int /\ c.month \in 0 .. 13 /\ c.day \in 0 .. 32 /\ c.hour \in 0 .. LastHour
      /\ c = [year |-> c.year, month |-> c.month, day |-> c.day, hour |-> c.hour]
  BY DEF Candidate
<1> DEFINE n == NextCandidate(c)
<1>3. /\ n.year \in Int /\ n.month \in 0 .. 13 /\ n.day \in 0 .. 32 /\ n.hour \in 0 .. LastHour
      /\ n \in Candidate
  <2>1. CASE c.hour < LastHour
    <3>1. n = [year |-> c.year, month |-> c.month, day |-> c.day, hour |-> c.hour + 1]
      BY <1>2, <2>1 DEF NextCandidate
    <3> QED
      BY <1>1, <1>2, <2>1, <3>1 DEF Candidate
  <2>2. CASE ~(c.hour < LastHour) /\ c.day < 32
    <3>1. n = [year |-> c.year, month |-> c.month, day |-> c.day + 1, hour |-> 0]
      BY <1>2, <2>2 DEF NextCandidate
    <3> QED
      BY <1>1, <1>2, <2>2, <3>1 DEF Candidate
  <2>3. CASE ~(c.hour < LastHour) /\ ~(c.day < 32) /\ c.month < 13
    <3>1. n = [year |-> c.year, month |-> c.month + 1, day |-> 0, hour |-> 0]
      BY <1>2, <2>3 DEF NextCandidate
    <3> QED
      BY <1>1, <1>2, <2>3, <3>1 DEF Candidate
  <2>4. CASE ~(c.hour < LastHour) /\ ~(c.day < 32) /\ ~(c.month < 13)
    <3>1. n = [year |-> c.year + 1, month |-> 0, day |-> 0, hour |-> 0]
      BY <2>4 DEF NextCandidate
    <3> QED
      BY <1>1, <1>2, <3>1 DEF Candidate
  <2> QED
    BY <2>1, <2>2, <2>3, <2>4
<1>4. Before(c, n)
  BY <1>1, <1>2 DEF NextCandidate, Before
<1>5. ASSUME NEW x \in Candidate, Before(x, n), ~Before(x, c)
      PROVE  x = c
  <2>1. /\ x.year \in Int /\ x.month \in 0 .. 13 /\ x.day \in 0 .. 32
        /\ x.hour \in 0 .. LastHour
        /\ x = [year |-> x.year, month |-> x.month, day |-> x.day, hour |-> x.hour]
    BY DEF Candidate
  <2>2. /\ x.year = c.year /\ x.month = c.month /\ x.day = c.day /\ x.hour = c.hour
    BY <1>1, <1>2, <1>5, <2>1 DEF NextCandidate, Before
  <2> QED
    BY <1>2, <2>1, <2>2
<1> QED
  BY <1>3, <1>4, <1>5

(***************************************************************************)
(* dt_init_representation accepts a candidate for its date and hour when   *)
(* the clock is good.                                                      *)
(***************************************************************************)
LEMMA OfferIs ==
  ASSUME Offer
  PROVE  \/ /\ status' = "DT_OK" /\ GoodHour(candidate) /\ GoodClock
            /\ rep'.year = candidate.year /\ rep'.month = candidate.month
            /\ rep'.day = candidate.day /\ rep'.hour = candidate.hour
            /\ Fields(rep')
         \/ /\ status' # "DT_OK" /\ rep' = rep
            /\ ~GoodHour(candidate) \/ ~GoodClock
BY DEF Offer, dt_init_representation, dt_validate_representation, ValidTime, GoodHour, GoodClock, Fields

(***************************************************************************)
(* The invariant is inductive.                                             *)
(***************************************************************************)
LEMMA WalkStep ==
  ASSUME WalkInv, [Next]_vars
  PROVE  WalkInv'
<1>1. CASE Offer
  <2>1. candidate \in Candidate /\ candidate' = NextCandidate(candidate) /\ clock' = clock
        /\ dow' = Unset /\ doy' = Unset
    BY <1>1 DEF WalkInv, Offer
  <2>2. /\ candidate' \in Candidate /\ Before(candidate, candidate')
        /\ \A x \in Candidate : Before(x, candidate') => Before(x, candidate) \/ x = candidate
    BY <2>1, CandidatesInOrder
  <2>3. /\ candidate.year \in Int /\ candidate.month \in 0 .. 13 /\ candidate.day \in 0 .. 32
        /\ candidate.hour \in 0 .. LastHour /\ LastHour \in Int
        /\ candidate'.year \in Int /\ candidate'.month \in 0 .. 13 /\ candidate'.day \in 0 .. 32
        /\ candidate'.hour \in 0 .. LastHour
        /\ \A x \in Candidate : /\ x.year \in Int /\ x.month \in Int
                                /\ x.day \in Int /\ x.hour \in Int
    BY <2>1, <2>2, WalkAssumption DEF Candidate
  <2>4. CASE status' = "DT_OK"
    <3>1. /\ GoodHour(candidate) /\ GoodClock
          /\ rep'.year = candidate.year /\ rep'.month = candidate.month
          /\ rep'.day = candidate.day /\ rep'.hour = candidate.hour
          /\ Fields(rep')
      BY <1>1, <2>4, OfferIs
    <3>2. GoodHour(rep') /\ Before(rep', candidate') /\ GoodClock'
      BY <2>1, <2>2, <3>1 DEF GoodHour, Before, GoodClock
    <3>3. ASSUME NEW x \in Candidate, Before(rep', x), Before(x, candidate') PROVE FALSE
      <4>1. Before(candidate, x) /\ (Before(x, candidate) \/ x = candidate)
        BY <2>2, <3>1, <3>3 DEF Before
      <4> QED
        BY <2>3, <4>1 DEF Before
    <3> QED
      BY <2>1, <2>2, <2>3, <3>1, <3>2, <3>3 DEF WalkInv, Held, GoodHour, Fields
  <2>5. CASE status' # "DT_OK"
    <3>1. rep' = rep /\ (~GoodHour(candidate) \/ ~GoodClock)
      BY <1>1, <2>5, OfferIs
    <3>2. ASSUME rep # Unset PROVE Held'
      <4>1. Held /\ ~GoodHour(candidate) /\ Before(rep, candidate)
        BY <3>1, <3>2 DEF WalkInv, Held
      <4>2. Before(rep, candidate')
        BY <2>2, <2>3, <4>1, WalkAssumption DEF Before, Held
      <4>3. ASSUME NEW x \in Candidate, Before(rep, x), Before(x, candidate') PROVE ~GoodHour(x)
        BY <2>2, <4>1, <4>3 DEF Held
      <4>4. GoodClock'
        BY <2>1, <4>1 DEF Held, GoodClock
      <4> QED
        BY <3>1, <4>1, <4>2, <4>3, <4>4 DEF Held, GoodHour, Fields
    <3> QED
      BY <2>1, <2>2, <3>1, <3>2 DEF WalkInv
  <2> QED
    BY <2>4, <2>5
<1>2. CASE Ask
  <2>1. /\ rep # Unset /\ rep' = rep /\ candidate' = candidate /\ clock' = clock
        /\ dow' = dow \/ dow' = DayOfWeek(rep)
        /\ doy' = doy \/ doy' = DayOfYear(rep)
    BY <1>2 DEF Ask, dt_representation_day_of_week, dt_representation_day_of_year,
                dt_representation_to_tm, dt_tm_to_representation
  <2> QED
    BY <2>1 DEF WalkInv, Held, GoodHour, GoodClock, Fields
<1>3. CASE UNCHANGED vars
  BY <1>3 DEF vars, WalkInv, Held, GoodHour, GoodClock, Fields
<1> QED
  BY <1>1, <1>2, <1>3 DEF Next

(***************************************************************************)
(* It holds at the start of a walk.                                        *)
(***************************************************************************)
LEMMA WalkInit == Init => WalkInv
BY WalkAssumption DEF Init, WalkInv

(***************************************************************************)
(* At every moment of every walk the invariant holds.                      *)
(***************************************************************************)
THEOREM WalkInvariant == Spec => []WalkInv
BY WalkInit, WalkStep, PTL DEF Spec

(***************************************************************************)
(* Of two representations with nothing acceptable in between, the second   *)
(* is the next hour tried on the same day, or the start of tomorrow.       *)
(***************************************************************************)
LEMMA NextGoodHour ==
  ASSUME NEW r, r.year \in Int, r.month \in Int, r.day \in Int, r.hour \in 0 .. LastHour,
         GoodHour(r),
         NEW c \in Candidate, GoodHour(c), Before(r, c),
         \A x \in Candidate : Before(r, x) /\ Before(x, c) => ~GoodHour(x)
  PROVE  \/ /\ DayNumber(c) = DayNumber(r)
            /\ c.hour = r.hour + 1
         \/ /\ DayNumber(c) = DayNumber(r) + 1
            /\ r.hour >= 23 \/ r.hour = LastHour
            /\ c.hour = 0
<1>1. /\ LastHour \in Int /\ 0 <= LastHour /\ r.hour \in Int /\ 0 <= r.hour
      /\ c.year \in Int /\ c.month \in Int /\ c.day \in Int
      /\ c.hour \in Int /\ 0 <= c.hour /\ c.hour <= LastHour /\ c.hour <= 24
      /\ ValidDate(c.year, c.month, c.day) /\ ValidDate(r.year, r.month, r.day)
  BY WalkAssumption DEF Candidate, GoodHour
<1>2. ASSUME NEW y \in Int, NEW m \in Int, NEW d \in Int, ValidDate(y, m, d)
      PROVE  m \in 0 .. 13 /\ d \in 0 .. 32
  <2>1. 1 <= m /\ m <= 12 /\ 1 <= d /\ d <= LastDay(y, m)
    BY <1>2, ValidDateIs
  <2>2. LastDay(y, m) <= 31 /\ LastDay(y, m) \in Int
    BY <2>1, Months, MonthLengths DEF LastDay
  <2> QED
    BY <2>1, <2>2
<1>3. CASE r.hour < LastHour /\ r.hour < 24
  <2> DEFINE n == [year |-> r.year, month |-> r.month, day |-> r.day, hour |-> r.hour + 1]
  <2>1. n \in Candidate /\ GoodHour(n) /\ Before(r, n)
    <3>1. r.month \in 0 .. 13 /\ r.day \in 0 .. 32
      BY <1>1, <1>2
    <3>2. r.hour + 1 \in 0 .. LastHour /\ r.hour + 1 <= 24
      BY <1>1, <1>3
    <3> QED
      BY <1>1, <3>1, <3>2 DEF Candidate, GoodHour, Before
  <2>2. ~Before(n, c)
    BY <2>1
  <2>3. c.year = r.year /\ c.month = r.month /\ c.day = r.day /\ c.hour = r.hour + 1
    BY <1>1, <2>2 DEF Before
  <2> QED
    BY <2>3, DayNumberOfDate
<1>4. CASE ~(r.hour < LastHour /\ r.hour < 24)
  <2> DEFINE t == Tomorrow(r.year, r.month, r.day)
             today == [year |-> r.year, month |-> r.month, day |-> r.day]
             date  == [year |-> c.year, month |-> c.month, day |-> c.day]
             n == [year |-> t.year, month |-> t.month, day |-> t.day, hour |-> 0]
  <2>1. /\ t \in Date /\ ValidDate(t.year, t.month, t.day) /\ DateBefore(today, t)
        /\ t.year \in Int /\ t.month \in Int /\ t.day \in Int
    BY <1>1, TomorrowValid DEF Date
  <2> HIDE DEF t
  <2>2. n \in Candidate /\ GoodHour(n) /\ Before(r, n)
    <3> DEFINE y == t.year
               m == t.month
               d == t.day
    <3>0. y \in Int /\ m \in Int /\ d \in Int /\ ValidDate(y, m, d)
      BY <2>1
    <3> HIDE DEF y, m, d
    <3>1. m \in 0 .. 13 /\ d \in 0 .. 32 /\ 0 \in 0 .. LastHour
      BY <1>1, <1>2, <3>0
    <3> USE DEF y, m, d
    <3> QED
      BY <1>1, <2>1, <3>1 DEF Candidate, GoodHour, Before, DateBefore
  <2>3. ~Before(n, c)
    BY <2>2
  <2>4. DateBefore(today, date) /\ ~DateBefore(t, date) /\ date \in Date
    BY <1>1, <1>4, <2>1, <2>3 DEF Before, DateBefore, Date
  <2>5. date = t
    BY <1>1, <2>4, TomorrowNext DEF t
  <2>6. c.hour = 0
    BY <1>1, <2>1, <2>3, <2>5 DEF Before
  <2>7. DayNumber(c) = DayNumber(date) /\ DayNumber(r) = DayNumber(today)
    BY DayNumberOfDate
  <2>8. DayNumber(date) = DayNumber(today) + 1
    BY <1>1, <2>5, TomorrowCounts DEF t
  <2> QED
    BY <1>1, <1>4, <2>6, <2>7, <2>8
<1> QED
  BY <1>3, <1>4

(***************************************************************************)
(* The dates the API accepts are consecutive days: all of them, in every   *)
(* year, and each one once.                                                *)
(***************************************************************************)
THEOREM NoDayIsLost == Spec => NoDayLost
<1>1. ASSUME WalkInv, [Next]_vars, Accepted, rep # Unset
      PROVE  \/ /\ DayNumber(rep') = DayNumber(rep)
                /\ rep'.hour = rep.hour + 1
             \/ /\ DayNumber(rep') = DayNumber(rep) + 1
                /\ rep.hour >= 23 \/ rep.hour = LastHour
                /\ rep'.hour = 0
  <2>1. Offer
    BY <1>1 DEF Accepted, Next, Ask, vars, dt_representation_day_of_week,
                dt_representation_day_of_year, dt_representation_to_tm, dt_tm_to_representation
  <2>2. /\ GoodHour(candidate)
        /\ rep'.year = candidate.year /\ rep'.month = candidate.month
        /\ rep'.day = candidate.day /\ rep'.hour = candidate.hour
    BY <1>1, <2>1, OfferIs DEF Accepted
  <2>3. candidate \in Candidate /\ Held
    BY <1>1 DEF WalkInv
  <2>4. DayNumber(rep') = DayNumber(candidate)
    BY <2>2, DayNumberOfDate
  <2> QED
    BY <2>2, <2>3, <2>4, NextGoodHour DEF Held
<1>2. WalkInv /\ [Next]_vars =>
        (Accepted /\ rep # Unset =>
           \/ /\ DayNumber(rep') = DayNumber(rep)
              /\ rep'.hour = rep.hour + 1
           \/ /\ DayNumber(rep') = DayNumber(rep) + 1
              /\ rep.hour >= 23 \/ rep.hour = LastHour
              /\ rep'.hour = 0)
  BY <1>1
<1> QED
  BY <1>2, WalkInvariant, PTL DEF Spec, NoDayLost

(***************************************************************************)
(* The day of the week is right in the years that end in 00 to 16, of any  *)
(* century since the reform.                                               *)
(***************************************************************************)
THEOREM WeekdayIsRight == Spec => []WeekdayRightEarlyInCentury
<1>1. WalkInv => WeekdayRightEarlyInCentury
  <2> SUFFICES ASSUME WalkInv, dow # Unset, rep.year > 1582
               PROVE  LET year == IF rep.month <= 2 THEN rep.year - 1 ELSE rep.year
                      IN  year % 100 < 17 => dow = Weekday(rep)
    BY DEF WeekdayRightEarlyInCentury
  <2>1. Held /\ dow = DayOfWeek(rep)
    BY DEF WalkInv
  <2> QED
    BY <2>1, WeekdayLemma DEF Held, GoodHour
<1> QED
  BY <1>1, WalkInvariant, PTL

(***************************************************************************)
(* The day of the year is counted right in every year: from 1 January on,  *)
(* and in 1582 with the ten days that were dropped.                        *)
(***************************************************************************)
THEOREM DayOfYearIsCounted == Spec => []DayOfYearCounts
<1>1. WalkInv => DayOfYearCounts
  <2> SUFFICES ASSUME WalkInv, doy # Unset PROVE DayOfYearCounts
    BY DEF DayOfYearCounts
  <2> DEFINE first   == [rep EXCEPT !.month = 1, !.day = 1]
             passage == [rep EXCEPT !.year = 1582, !.month = 10, !.day = 15]
  <2>1. Held /\ doy = DayOfYear(rep)
    BY DEF WalkInv
  <2>2. /\ first.year = rep.year /\ first.month = 1 /\ first.day = 1
        /\ passage.year = 1582 /\ passage.month = 10 /\ passage.day = 15
    <3>1. rep = [year |-> rep.year, month |-> rep.month, day |-> rep.day, hour |-> rep.hour,
                 minute |-> rep.minute, second |-> rep.second, nano_second |-> rep.nano_second]
      BY <2>1 DEF Held, Fields
    <3> QED BY <3>1
  <2> HIDE DEF first, passage
  <2>3. doy = DayNumber(rep) - DayNumber(first) + 1
          + IF rep.year = 1582 /\ DayNumber(rep) >= DayNumber(passage) THEN 10 ELSE 0
    BY <2>1, <2>2, DayOfYearLemma DEF Held, GoodHour
  <2> QED BY <2>3 DEF DayOfYearCounts, first, passage
<1> QED
  BY <1>1, WalkInvariant, PTL
=============================================================================
