----------------------------- MODULE LibTzClock -----------------------------
(***************************************************************************)
(* What time it is somewhere: localsub and timesub of                      *)
(* src/src/unix/libtz/libtz.c, from a time_t and a struct state to the     *)
(* fields of a struct tm.                                                  *)
(*                                                                         *)
(* The calendar is the real one, 400-year cycle included.  What is scaled  *)
(* down is the length of a day and the range of int.  Where the C code     *)
(* counts from 0 (ats, types, ttis, lsis) the sequences here count from 1. *)
(* A time_t is assumed to be wide enough for every year of an int, as the  *)
(* 64 bits of a Unix build are.                                            *)
(***************************************************************************)
EXTENDS CInts, Sequences, FiniteSets

CONSTANTS
  SECSPERMIN, MINSPERHOUR, HOURSPERDAY,
  INT_MAX

ASSUME UnitAssumption ==
  /\ SECSPERMIN \in Nat \ {0}
  /\ MINSPERHOUR \in Nat \ {0}
  /\ HOURSPERDAY \in Nat \ {0}
  /\ INT_MAX \in Nat

INT_MIN == -INT_MAX - 1
IsInt(x) == INT_MIN <= x /\ x <= INT_MAX

SECSPERHOUR  == SECSPERMIN * MINSPERHOUR
SECSPERDAY   == SECSPERHOUR * HOURSPERDAY
DAYSPERWEEK  == 7
DAYSPERNYEAR == 365
DAYSPERLYEAR == 366
TM_YEAR_BASE == 1900
EPOCH_YEAR   == 1970
EPOCH_WDAY   == 4

YEARSPERREPEAT == 400
SECSPERREPEAT  == 146097 * SECSPERDAY

-----------------------------------------------------------------------------
isleap(y) == y % 4 = 0 /\ (y % 100 # 0 \/ y % 400 = 0)

year_lengths(y) == IF isleap(y) THEN DAYSPERLYEAR ELSE DAYSPERNYEAR

mon_lengths(y) ==
  <<31, IF isleap(y) THEN 29 ELSE 28, 31, 30, 31, 30, 31, 31, 30, 31, 30, 31>>

(* Leap years through the end of y, 0 for the year 0.                      *)
leaps_thru_end_of(y) ==
  LET count(n) == n \div 4 - n \div 100 + n \div 400
  IN  IF y >= 0 THEN count(y) ELSE -(count(-(y + 1)) + 1)

(***************************************************************************)
(* The loops over years.  A place in time is <<y, days>>, days after the   *)
(* first of January of y; OVERFLOW is a year that is no int.               *)
(***************************************************************************)
OVERFLOW == <<>>

InYear(p) == 0 <= p[2] /\ p[2] < year_lengths(p[1])

(* From the epoch towards the year, by estimates that fall short of it.    *)
FindYear[p \in Int \X Int] ==
  LET tdelta == CDiv(p[2], DAYSPERLYEAR)
      idelta == IF tdelta # 0 THEN tdelta ELSE IF p[2] < 0 THEN -1 ELSE 1
      newy   == p[1] + idelta
  IN  IF InYear(p) THEN p
      ELSE IF ~IsInt(tdelta) \/ ~IsInt(newy) THEN OVERFLOW
      ELSE FindYear[<<newy, p[2] - idelta * DAYSPERNYEAR
                              - (leaps_thru_end_of(newy - 1) - leaps_thru_end_of(p[1] - 1))>>]

(* Year by year, when an offset has led out of it.                         *)
StepYear[p \in Int \X Int] ==
  LET newy == IF p[2] < 0 THEN p[1] - 1 ELSE p[1] + 1
  IN  IF InYear(p) THEN p
      ELSE IF ~IsInt(newy) THEN OVERFLOW
      ELSE StepYear[<<newy, IF p[2] < 0 THEN p[2] + year_lengths(newy)
                            ELSE p[2] - year_lengths(p[1])>>]

(* Days before the month p[2] + 1 of the year p[1].                        *)
MonthStart[p \in Int \X (0 .. 12)] ==
  IF p[2] = 0 THEN 0 ELSE MonthStart[<<p[1], p[2] - 1>>] + mon_lengths(p[1])[p[2]]

-----------------------------------------------------------------------------
(* A struct state, with its counts as the lengths of the sequences.        *)
Zone(ats, types, ttis, goback, goahead, lsis) ==
  [ats |-> ats, types |-> types, ttis |-> ttis,
   goback |-> goback, goahead |-> goahead, lsis |-> lsis]

ttinfo(gmtoff, isdst)   == [gmtoff |-> gmtoff, isdst |-> isdst]
lsinfo(trans, corr)     == [trans |-> trans, corr |-> corr]

Sorted(times) == \A i \in 1 .. Len(times) - 1 : times[i] < times[i + 1]

(* What a sound zone file makes of it.                                     *)
IsZone(z) ==
  /\ Len(z.ats) \in Nat /\ Len(z.types) = Len(z.ats)
  /\ Len(z.ttis) \in Nat \ {0} /\ Len(z.lsis) \in Nat
  /\ \A i \in 1 .. Len(z.ats) : z.ats[i] \in Int /\ z.types[i] \in 1 .. Len(z.ttis)
  /\ \A i \in 1 .. Len(z.ttis) : z.ttis[i].gmtoff \in Int /\ z.ttis[i].isdst \in {0, 1}
  /\ \A i \in 1 .. Len(z.lsis) : z.lsis[i].trans \in Int /\ z.lsis[i].corr \in Int
  /\ Sorted(z.ats)
  /\ z.goback \/ z.goahead => z.ats # <<>> /\ z.ats[Len(z.ats)] - z.ats[1] >= SECSPERREPEAT
  /\ \A i \in 1 .. Len(z.lsis) : i = 1 => z.lsis[i].corr > 0
  /\ \A i \in 1 .. Len(z.lsis) - 1 : z.lsis[i].trans < z.lsis[i + 1].trans

-----------------------------------------------------------------------------
(* The result of a conversion into the struct tm of the caller, which may  *)
(* have been written although the result is NULL.                          *)
Done(tm) == [ok |-> TRUE, tm |-> tm]
Null(tm) == [ok |-> FALSE, tm |-> tm]

(* A slip: a leap second ends before it is shown.                          *)
LeapAt_Late(sp, t) ==
  Cardinality({i \in 1 .. Len(sp.lsis) : sp.lsis[i].trans < t})

(* The last leap second not after t, or 0, and the seconds :60 it is.      *)
LeapAt(sp, t) ==
  Cardinality({i \in 1 .. Len(sp.lsis) : sp.lsis[i].trans <= t})

Hits(sp, t) ==
  LET l == LeapAt(sp, t)
      Follows(m) == /\ sp.lsis[m + 1].trans = sp.lsis[m].trans + 1
                    /\ sp.lsis[m + 1].corr = sp.lsis[m].corr + 1
  IN  IF l = 0 \/ sp.lsis[l].trans # t THEN 0
      ELSE IF l > 1 /\ sp.lsis[l].corr <= sp.lsis[l - 1].corr THEN 0
      ELSE Cardinality({i \in 1 .. l : \A m \in i .. l - 1 : Follows(m)})

Correction(sp, t) ==
  LET l == LeapAt(sp, t) IN IF l = 0 THEN 0 ELSE sp.lsis[l].corr

(* The fields of a date, and those of second sod of the day.               *)
DateFields[p \in Int \X Int] ==
  LET mon  == CHOOSE m \in 0 .. 11 : MonthStart[<<p[1], m>>] <= p[2] /\ p[2] < MonthStart[<<p[1], m + 1>>]
      wday == EPOCH_WDAY + CMod(p[1] - EPOCH_YEAR, DAYSPERWEEK) * (DAYSPERNYEAR % DAYSPERWEEK)
                + leaps_thru_end_of(p[1] - 1) - leaps_thru_end_of(EPOCH_YEAR - 1) + p[2]
  IN  [year |-> p[1] - TM_YEAR_BASE, mon |-> mon, mday |-> p[2] - MonthStart[<<p[1], mon>>] + 1,
       wday |-> wday % DAYSPERWEEK, yday |-> p[2]]

ClockFields(date, sod, hit) ==
  [year |-> date.year, mon |-> date.mon, mday |-> date.mday,
   hour |-> sod \div SECSPERHOUR, min |-> (sod % SECSPERHOUR) \div SECSPERMIN,
   sec |-> (sod % SECSPERMIN) + hit,
   wday |-> date.wday, yday |-> date.yday, isdst |-> 0]

Written(p, sod, hit, tmp) ==
  IF p = OVERFLOW THEN Null(tmp)
  ELSE IF ~IsInt(p[1] - TM_YEAR_BASE) THEN Null([tmp EXCEPT !.year = p[1]])
  ELSE Done(ClockFields(DateFields[p], sod, hit))

(* A slip: the offset moves the clock but not the date.                    *)
Later_SameDay(p, days) == p

(* p and some days more or less.                                           *)
Later(p, days) == IF p = OVERFLOW THEN p ELSE StepYear[<<p[1], p[2] + days>>]

timesub(t, offset, sp, tmp) ==
  LET tdays == CDiv(t, SECSPERDAY)
      rem   == t - tdays * SECSPERDAY + offset - Correction(sp, t)
  IN  Written(Later(FindYear[<<EPOCH_YEAR, tdays>>], rem \div SECSPERDAY),
              rem % SECSPERDAY, Hits(sp, t), tmp)

-----------------------------------------------------------------------------
First(sp) == sp.ats[1]
Last(sp)  == sp.ats[Len(sp.ats)]

(* Beyond the table, in a zone whose table repeats itself.                 *)
Beyond(sp, t) == (sp.goback /\ t < First(sp)) \/ (sp.goahead /\ t > Last(sp))

(* A slip: the last cycle, which is not a whole one, left out.             *)
Cycles_Short(sp, t) ==
  IF ~Beyond(sp, t) THEN 0
  ELSE IF t < First(sp) THEN (First(sp) - t) \div SECSPERREPEAT
  ELSE -((t - Last(sp)) \div SECSPERREPEAT)

(* The cycles to go, forward or back, to come to the table.                *)
Cycles(sp, t) ==
  LET beyond(seconds) == (seconds - 1) \div SECSPERREPEAT + 1
  IN  IF ~Beyond(sp, t) THEN 0
      ELSE IF t < First(sp) THEN beyond(First(sp) - t) ELSE -beyond(t - Last(sp))

(* The type before the first transition, and after the last one at or      *)
(* before t.                                                               *)
FirstType(sp) ==
  LET standard == {i \in 1 .. Len(sp.ttis) : sp.ttis[i].isdst = 0}
  IN  IF standard = {} THEN 1 ELSE CHOOSE i \in standard : \A j \in standard : i <= j

TypeAt(sp, t) ==
  LET past == Cardinality({i \in 1 .. Len(sp.ats) : sp.ats[i] <= t})
  IN  IF past = 0 THEN FirstType(sp) ELSE sp.types[past]

(* (int) of a value that does not fit drops the high bits.                 *)
CastInt(x) == ((x - INT_MIN) % (2 * (INT_MAX + 1))) + INT_MIN

WithType(info, sp, t, tmp) ==
  [timesub(t, info.gmtoff, sp, tmp) EXCEPT !.tm.isdst = info.isdst]

(* Slips: the year put back the wrong way, or not at all.                  *)
CyclesBack_Reversed(sub, cycles) ==
  LET newy == sub.tm.year + cycles * YEARSPERREPEAT
  IN  IF ~sub.ok THEN sub
      ELSE [ok |-> IsInt(newy), tm |-> [sub.tm EXCEPT !.year = CastInt(newy)]]

CyclesBack_Forgotten(sub, cycles) == sub

(* The year is put back by the cycles that t was moved.                    *)
CyclesBack(sub, cycles) ==
  LET newy == sub.tm.year - cycles * YEARSPERREPEAT
  IN  IF ~sub.ok THEN sub
      ELSE [ok |-> IsInt(newy), tm |-> [sub.tm EXCEPT !.year = CastInt(newy)]]

InTable(sp, t) == First(sp) <= t /\ t <= Last(sp)

(* localsub calls itself, once, for an instant that is moved; one that is  *)
(* still beyond the table "cannot happen".                                 *)
AfterCycles(sp, newt, cycles, tmp) ==
  IF cycles # 0 /\ ~InTable(sp, newt) THEN Null(tmp)
  ELSE CyclesBack(WithType(sp.ttis[TypeAt(sp, newt)], sp, newt, tmp), cycles)

localsub(sp, t, tmp) ==
  LET cycles == Cycles(sp, t)
  IN  AfterCycles(sp, t + cycles * SECSPERREPEAT, cycles, tmp)
=============================================================================
