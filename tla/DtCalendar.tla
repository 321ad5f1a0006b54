----------------------------- MODULE DtCalendar -----------------------------
(***************************************************************************)
(* The calendar of src/src/dt.c: which representations are dates, what day *)
(* of the week and of the year they are, and their conversion to and from  *)
(* struct tm.                                                              *)
(*                                                                         *)
(* The client walks through time with nothing but the API: it offers       *)
(* dt_init_representation one candidate after the other, in the order of   *)
(* the fields and valid or not (month 0 to 13, day 0 to 32, year 0 too),   *)
(* keeps each one that is accepted in `rep`, and asks what day it is.      *)
(***************************************************************************)
EXTENDS DtDates, CInts

CONSTANTS
  Walks,      \* the client's walks, each [first : candidate, last : candidate]
  LastHour,   \* on each day the client tries the hours 0 .. LastHour
  Clocks,     \* the [minute, second, nano_second] of a walk
  Unset       \* a variable of the client that holds no result yet

Candidate == [year : Int, month : 0 .. 13, day : 0 .. 32, hour : 0 .. LastHour]

ASSUME WalkAssumption ==
  /\ LastHour \in 0 .. 25
  /\ Walks \subseteq [first : Candidate, last : Candidate]
  /\ Clocks \subseteq [minute : Nat, second : Nat, nano_second : Nat]

VARIABLES
  walk,        \* the walk chosen
  clock,       \* its time within the hour
  candidate,   \* the next date and hour to be offered
  rep,         \* dt_representation_t: the last one accepted
  tm,          \* struct tm, from dt_representation_to_tm
  back,        \* dt_representation_t, from dt_tm_to_representation
  dow, doy,    \* the int results of the two day functions
  status       \* the dt_status_t of the last call

vars == <<walk, clock, candidate, rep, tm, back, dow, doy, status>>

-----------------------------------------------------------------------------
(* unsigned short *)
UShort(x) == x % 65536

(* A slip: January and February counted with their own year.               *)
DayOfWeek_NoShift(r) ==
  LET d == CMod(r.day + CDiv((r.month + 1) * 26, 10) + r.year + CDiv(r.year, 4)
                  + CDiv(6 * r.year, 100) + CDiv(r.year, 400), 7)
  IN  IF d = 0 THEN 7 ELSE d

(* "Zeller's congruence", January and February counted with the year before. *)
DayOfWeek(r) ==
  LET early == r.month \in {1, 2}
      year  == IF early THEN r.year - 1 ELSE r.year
      month == IF early THEN r.month + 12 ELSE r.month
      d     == CMod(r.day + CDiv((month + 1) * 26, 10) + year + CDiv(year, 4)
                      + CDiv(6 * year, 100) + CDiv(year, 400), 7)
  IN  IF d = 0 THEN 7 ELSE d

(* Days in the months of the year p[1] before the month p[2], summed by    *)
(* the loop of the code.                                                   *)
DaysBefore[p \in Int \X (1 .. 13)] ==
  IF p[2] = 1 THEN 0
  ELSE DaysBefore[<<p[1], p[2] - 1>>]
         + IF p[2] = 3 /\ dt_is_leap_year(p[1]) THEN 29 ELSE month_days[p[2] - 1]

(* A slip: the leap day counted from February on.                          *)
DayOfYear_EarlyLeap(r) ==
  DaysBefore[<<r.year, r.month>>] + r.day
    + IF r.month = 2 /\ dt_is_leap_year(r.year) THEN 1 ELSE 0

DayOfYear(r) == DaysBefore[<<r.year, r.month>>] + r.day

-----------------------------------------------------------------------------
dt_init_representation(c, t) ==
  LET r == [year |-> c.year, month |-> c.month, day |-> c.day, hour |-> c.hour,
            minute |-> t.minute, second |-> t.second, nano_second |-> t.nano_second]
  IN  IF dt_validate_representation(r)
      THEN rep' = r /\ status' = "DT_OK"
      ELSE rep' = rep /\ status' = "DT_INVALID_ARGUMENT"

dt_representation_day_of_week ==
  /\ dow' = DayOfWeek(rep) /\ status' = "DT_OK"
  /\ UNCHANGED <<walk, clock, candidate, rep, tm, back, doy>>

dt_representation_day_of_year ==
  /\ doy' = DayOfYear(rep) /\ status' = "DT_OK"
  /\ UNCHANGED <<walk, clock, candidate, rep, tm, back, dow>>

(* The day of the week and of the year are left alone (the client's struct *)
(* is zeroed) when the representation is not valid.                        *)
dt_representation_to_tm ==
  /\ LET valid == dt_validate_representation(rep)
     IN  tm' = [tm_year |-> rep.year - 1900, tm_mon |-> rep.month - 1,
                tm_mday |-> rep.day, tm_hour |-> rep.hour, tm_min |-> rep.minute,
                tm_sec |-> rep.second, tm_isdst |-> -1,
                tm_wday |-> IF valid THEN DayOfWeek(rep) - 1 ELSE 0,
                tm_yday |-> IF valid THEN DayOfYear(rep) - 1 ELSE 0]
  /\ status' = "DT_OK"
  /\ UNCHANGED <<walk, clock, candidate, rep, back, dow, doy>>

dt_tm_to_representation(nano_second) ==
  /\ tm # Unset
  /\ back' = [year |-> 1900 + tm.tm_year, month |-> UShort(tm.tm_mon + 1),
              day |-> UShort(tm.tm_mday), hour |-> UShort(tm.tm_hour),
              minute |-> UShort(tm.tm_min), second |-> UShort(tm.tm_sec),
              nano_second |-> nano_second]
  /\ status' = "DT_OK"
  /\ UNCHANGED <<walk, clock, candidate, rep, tm, dow, doy>>

-----------------------------------------------------------------------------
Before(a, b) ==   \* in the order of the fields
  \/ a.year < b.year
  \/ a.year = b.year /\ a.month < b.month
  \/ a.year = b.year /\ a.month = b.month /\ a.day < b.day
  \/ a.year = b.year /\ a.month = b.month /\ a.day = b.day /\ a.hour < b.hour

NextCandidate(c) ==
  IF c.hour < LastHour THEN [c EXCEPT !.hour = @ + 1]
  ELSE IF c.day < 32 THEN [c EXCEPT !.day = @ + 1, !.hour = 0]
  ELSE IF c.month < 13 THEN [c EXCEPT !.month = @ + 1, !.day = 0, !.hour = 0]
  ELSE [year |-> c.year + 1, month |-> 0, day |-> 0, hour |-> 0]

(* Offer the candidate; results about the previous date are out of date.   *)
Offer ==
  /\ Before(candidate, walk.last)
  /\ dt_init_representation(candidate, clock)
  /\ candidate' = NextCandidate(candidate)
  /\ tm' = Unset /\ back' = Unset /\ dow' = Unset /\ doy' = Unset
  /\ UNCHANGED <<walk, clock>>

Init ==
  /\ walk \in Walks
  /\ clock \in Clocks
  /\ candidate = walk.first
  /\ rep = Unset /\ tm = Unset /\ back = Unset /\ dow = Unset /\ doy = Unset
  /\ status = "DT_OK"

Ask ==
  /\ rep # Unset
  /\ \/ dt_representation_day_of_week
     \/ dt_representation_day_of_year
     \/ dt_representation_to_tm
     \/ dt_tm_to_representation(clock.nano_second)

Next == Offer \/ Ask

Spec == Init /\ [][Next]_vars
=============================================================================
