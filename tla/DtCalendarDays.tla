--------------------------- MODULE DtCalendarDays ---------------------------
(***************************************************************************)
(* The properties of DtCalendar.  The reference is a count of days: no     *)
(* leap year before the year 1, no year 0, Julian leap years up to         *)
(* 4 October 1582, and Gregorian ones from the next day, 15 October, on.   *)
(***************************************************************************)
EXTENDS DtCalendar

(***************************************************************************)
(* The number of the day on one continuous scale.  Years run from March to *)
(* February, so that a leap day is the last of its year: month March is 0  *)
(* and (153 m + 2) / 5 days have passed before month m.                    *)
(***************************************************************************)
DayNumber(r) ==
  LET counted == IF r.year < 0 THEN r.year + 1 ELSE r.year   \* 1 BC is 0
      year    == IF r.month <= 2 THEN counted - 1 ELSE counted
      month   == IF r.month <= 2 THEN r.month + 9 ELSE r.month - 3
      gregorian == \/ r.year > 1582
                   \/ r.year = 1582 /\ r.month > 10
                   \/ r.year = 1582 /\ r.month = 10 /\ r.day > 4
      leapDays == IF gregorian THEN year \div 4 - year \div 100 + year \div 400 + 2
                  ELSE IF year < 0 THEN 0 ELSE year \div 4
  IN  365 * year + leapDays + (153 * month + 2) \div 5 + r.day

(* 21 December 2012 was a Friday, the sixth day of the week.               *)
Weekday(r) == 1 + ((DayNumber(r)) % 7)

Accepted == candidate' # candidate /\ status' = "DT_OK"

-----------------------------------------------------------------------------
(***************************************************************************)
(* The representations accepted one after the other are consecutive: no    *)
(* day is refused that should exist and none exists twice, across the ends *)
(* of months, leap days, centuries, the missing year 0 and the ten days    *)
(* dropped in October 1582 (dt.c:61-72, 381-401).                          *)
(***************************************************************************)
NoDayLost ==
  [][Accepted /\ rep # Unset =>
       \/ /\ DayNumber(rep') = DayNumber(rep)
          /\ rep'.hour = rep.hour + 1
       \/ /\ DayNumber(rep') = DayNumber(rep) + 1
          /\ rep.hour >= 23 \/ rep.hour = LastHour
          /\ rep'.hour = 0]_vars

(***************************************************************************)
(* dt_representation_day_of_year counts the days since the first of        *)
(* January; in 1582 it also counts the ten days that were dropped ("only   *)
(* Gregorian is supported", dt.c:450).                                     *)
(***************************************************************************)
DayOfYearCounts ==
  doy # Unset =>
    LET first   == [rep EXCEPT !.month = 1, !.day = 1]
        passage == [rep EXCEPT !.year = 1582, !.month = 10, !.day = 15]
        dropped == IF rep.year = 1582 /\ DayNumber(rep) >= DayNumber(passage) THEN 10 ELSE 0
    IN  doy = DayNumber(rep) - DayNumber(first) + 1 + dropped

(***************************************************************************)
(* dt_representation_day_of_week gives "representation's day of week (1-7, *)
(* 1 is Sunday)" (dt.h:250) in the Gregorian years that end in 00 to 16,   *)
(* counted from March, as those of the tests do.  For later years of a     *)
(* century nothing is claimed: 6 * year / 100 is 6 * (year / 100) only as  *)
(* long as 6 * (year % 100) is below 100 (dt.c:442).                       *)
(***************************************************************************)
WeekdayRightEarlyInCentury ==
  dow # Unset /\ rep.year > 1582 =>
    LET year == IF rep.month <= 2 THEN rep.year - 1 ELSE rep.year
    IN  year % 100 < 17 => dow = Weekday(rep)

=============================================================================
