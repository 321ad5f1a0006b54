------------------------------ MODULE DtDates ------------------------------
(***************************************************************************)
(* Which representations are dates and times: dt_is_leap_year and          *)
(* dt_validate_representation of src/src/dt.c.                             *)
(***************************************************************************)
EXTENDS Integers

month_days == <<31, 28, 31, 30, 31, 30, 31, 31, 30, 31, 30, 31>>

MAX_NANOSECONDS == 999999999

(* A slip: the Gregorian rule forgotten.                                   *)
dt_is_leap_year_Julian(year) == year > 0 /\ year % 4 = 0

(* A slip: half of the Gregorian rule forgotten.                           *)
dt_is_leap_year_NoFourHundred(year) ==
  /\ year > 0
  /\ year % 4 = 0
  /\ year >= 1582 => year % 100 # 0

dt_is_leap_year(year) ==
  /\ year > 0
  /\ IF year < 1582 THEN year % 4 = 0
     ELSE (year % 4 = 0 /\ year % 100 # 0) \/ year % 400 = 0

(* Passage from Julian to Gregorian calendar *)
Dropped(year, month, day) == year = 1582 /\ month = 10 /\ day \in 5 .. 14

ValidDate(year, month, day) ==
  /\ year # 0
  /\ month \in 1 .. 12
  /\ day >= 1
  /\ ~Dropped(year, month, day)
  /\ \/ dt_is_leap_year(year) /\ month = 2 /\ day = 29
     \/ day <= month_days[month]

ValidTime_ShortDay(hour, minute, second, nano_second) ==
  /\ hour < 23
  /\ minute <= 59
  /\ second <= 59
  /\ nano_second <= MAX_NANOSECONDS

ValidTime(hour, minute, second, nano_second) ==
  /\ hour <= 24
  /\ minute <= 59
  /\ second <= 59
  /\ nano_second <= MAX_NANOSECONDS

dt_validate_representation(r) ==
  ValidDate(r.year, r.month, r.day) /\ ValidTime(r.hour, r.minute, r.second, r.nano_second)
=============================================================================
