----------------------------- MODULE CivilTime -----------------------------
(***************************************************************************)
(* The reference for LibTzClock counts: the units from the epoch to a      *)
(* date on the clock are the days, by the formula for the Gregorian        *)
(* calendar with years that begin in March, times the length of a day, and *)
(* so on, whether or not the fields are in their ranges.                   *)
(***************************************************************************)
EXTENDS LibTzClock

Days(b) ==
  LET year  == TM_YEAR_BASE + b.year + b.mon \div 12
      month == b.mon % 12
      y     == IF month <= 1 THEN year - 1 ELSE year
      m     == (month + 10) % 12
  IN  365 * y + y \div 4 - y \div 100 + y \div 400 + (153 * m + 2) \div 5 + b.mday - 719469

LocalSeconds(b) ==
  ((Days(b) * HOURSPERDAY + b.hour) * MINSPERHOUR + b.min) * SECSPERMIN + b.sec

(***************************************************************************)
(* Leap seconds: those a clock is showing, one after the other, as :60 and *)
(* on, and the seconds it has fallen behind by those that have passed.     *)
(***************************************************************************)
Inserted(z, i) == z.lsis[i].corr = 1 + (IF i = 1 THEN 0 ELSE z.lsis[i - 1].corr)

Showing(z, x) ==
  {i \in 1 .. Len(z.lsis) :
     /\ z.lsis[i].trans <= x
     /\ \A y \in z.lsis[i].trans .. x :
          \E j \in 1 .. Len(z.lsis) : z.lsis[j].trans = y /\ Inserted(z, j)}

LeapSeconds(z, x) ==
  LET passed == {i \in 1 .. Len(z.lsis) : z.lsis[i].trans <= x} \ Showing(z, x)
      last   == Cardinality(passed)
  IN  IF last = 0 THEN 0 ELSE z.lsis[last].corr

(* Leap seconds as they are: one at a time is inserted or left out, at the *)
(* end of a minute of the zone's clock when inserted, and not in the       *)
(* second after one was left out.  A table that repeats itself has none.   *)
SoundLeaps(z) ==
  /\ \A i \in 1 .. Len(z.lsis) :
       \/ /\ Inserted(z, i)
          /\ (z.lsis[i].trans + z.ttis[TypeAt(z, z.lsis[i].trans)].gmtoff - z.lsis[i].corr)
               % SECSPERMIN = SECSPERMIN - 1
       \/ i > 1 /\ z.lsis[i].corr = z.lsis[i - 1].corr - 1
  /\ \A i \in 1 .. Len(z.lsis) - 1 :
       z.lsis[i + 1].trans = z.lsis[i].trans + 1 /\ Inserted(z, i + 1) => Inserted(z, i)
  /\ z.goback \/ z.goahead => z.lsis = <<>>

Corrections(z) == {0} \cup {z.lsis[i].corr : i \in 1 .. Len(z.lsis)}

(* Ints of more than 16 bits, with room for what timesub estimates.        *)
WideInts == 40000 <= INT_MAX

(* The year of the instant x, or one next to it.                           *)
YearAbout(x) == EPOCH_YEAR + (x \div (SECSPERREPEAT \div YEARSPERREPEAT))

(* Years that are ints, two years from the first and from the last one.    *)
InnerYear(y) == INT_MIN + TM_YEAR_BASE + 2 <= y /\ y <= INT_MAX - 2

(***************************************************************************)
(* Zones as the tables of the tz database are.  Offsets, less the leap     *)
(* seconds, are shorter than a year, and a table that repeats itself ends  *)
(* in such years.                                                          *)
(***************************************************************************)
Modest(z) ==
  LET year == SECSPERDAY * DAYSPERNYEAR
  IN  /\ \A i \in 1 .. Len(z.ttis), c \in Corrections(z) :
           -year <= z.ttis[i].gmtoff - c /\ z.ttis[i].gmtoff - c <= year
      /\ z.goback \/ z.goahead => InnerYear(YearAbout(First(z))) /\ InnerYear(YearAbout(Last(z)))

(* The clock is not changed again before the hour that it was put forward  *)
(* or back has gone by.                                                    *)
Apart(z) ==
  \A m \in 1 .. Len(z.ats) - 1 : \A i, j \in 1 .. Len(z.ttis) :
    z.ats[m] + (z.ttis[i].gmtoff - z.ttis[j].gmtoff) < z.ats[m + 1]

(* A table that repeats itself does so: 400 years before its end (after    *)
(* its beginning) the clock is put to the same offset (libtz.c:568-588).   *)
Recurs(z) ==
  /\ z.goahead => \E m \in 1 .. Len(z.ats) :
       /\ z.ats[m] = Last(z) - SECSPERREPEAT
       /\ z.ttis[z.types[m]].gmtoff = z.ttis[z.types[Len(z.ats)]].gmtoff
  /\ z.goback => \E m \in 1 .. Len(z.ats) :
       /\ z.ats[m] = First(z) + SECSPERREPEAT
       /\ z.ttis[z.types[m]].gmtoff = z.ttis[z.types[1]].gmtoff

(* No leap seconds besides: a clock that shows a date and time at some     *)
(* instant does not pass over it at another.                               *)
Orderly(z) == z.lsis = <<>> /\ Modest(z) /\ Apart(z) /\ Recurs(z)
=============================================================================
