----------------------------- MODULE PosixRules -----------------------------
(***************************************************************************)
(* The reference for tzparse: what a rule of a POSIX TZ string means, by   *)
(* the numbers of the days and sets of them, in place of the congruences,  *)
(* loops and tables of the program.                                        *)
(***************************************************************************)
EXTENDS TzString

(* The days from the epoch to a date, of a month from 1 to 13.             *)
DayNumber(year, month, day) ==
  LET m == (month + 9) % 12
      y == IF m >= 10 THEN year - 1 + month \div 13 ELSE year
  IN  365 * y + y \div 4 - y \div 100 + y \div 400 + (153 * m + 2) \div 5 + day - 719469

DayOfTheWeek(number) == (number + EPOCH_WDAY) % DAYSPERWEEK

(* The number of the day a rule names.                                     *)
InCommonYear(n) ==
  LET month == Max({m \in 1 .. 12 : DayNumber(1970, m, 1) < n})
  IN  <<month, n - DayNumber(1970, month, 1)>>

DaysCalled(year, month, wday) ==
  {d \in DayNumber(year, month, 1) .. DayNumber(year, month + 1, 1) - 1 : DayOfTheWeek(d) = wday}

DayNamed(rule, year) ==
  CASE rule.form = JULIAN_DAY ->
         DayNumber(year, InCommonYear(rule.nums[1])[1], InCommonYear(rule.nums[1])[2])
    [] rule.form = DAY_OF_YEAR -> DayNumber(year, 1, 1) + rule.nums[1]
    [] rule.form = MONTH_NTH_DAY_OF_WEEK ->
         LET days == DaysCalled(year, rule.nums[1], rule.nums[3])
         IN  CHOOSE d \in days :
               Cardinality({e \in days : e <= d}) = Min({rule.nums[2], Cardinality(days)})

-----------------------------------------------------------------------------
Number(hms) == hms[1] * SECSPERHOUR + (IF Len(hms) > 1 THEN hms[2] * SECSPERMIN ELSE 0)
                 + (IF Len(hms) > 2 THEN hms[3] ELSE 0)

(* Hours west of Greenwich, in a string that is spelled right.             *)
West(offset) == IF offset.neg THEN -Number(offset.hms) ELSE Number(offset.hms)
StdWest(tz)  == West(tz.off)
DstWest(tz)  == IF tz.dstoff = NONE THEN StdWest(tz) - SECSPERHOUR ELSE West(tz.dstoff)

TimeOfDay(rule) == IF rule.time = NONE THEN 2 * SECSPERHOUR ELSE Number(rule.time)

Begins(tz, year) ==
  DayNamed(tz.rules[1], year) * SECSPERDAY + TimeOfDay(tz.rules[1]) + StdWest(tz)
Ends(tz, year) ==
  DayNamed(tz.rules[2], year) * SECSPERDAY + TimeOfDay(tz.rules[2]) + DstWest(tz)

(* The years that matter: that of x, give or take one, and the one before. *)
YearsAbout(x) ==
  LET days == SECSPERREPEAT \div SECSPERDAY
      year == EPOCH_YEAR + ((x \div SECSPERDAY) * YEARSPERREPEAT) \div days
  IN  year - 2 .. year + 1

(* Daylight saving time has begun and not ended yet.                       *)
DstAt(tz, x) ==
  \E y \in YearsAbout(x) :
    /\ Begins(tz, y) <= x
    /\ \A z \in YearsAbout(x) : ~(Begins(tz, y) < Ends(tz, z) /\ Ends(tz, z) <= x)
=============================================================================
