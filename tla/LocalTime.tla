----------------------------- MODULE LocalTime -----------------------------
(***************************************************************************)
(* The properties of LibTzMktime.                                          *)
(***************************************************************************)
EXTENDS CivilTime, LibTzMktime

ASSUME SoundLeapsAssumption == \A z \in Zones : SoundLeaps(z)

(* The instants at which a clock in zone z shows b, whatever its tm_isdst. *)
Reads(z, x, b) ==
  LET sub == localsub(z, x, ZeroTm)
  IN  sub.ok /\ LocalSeconds(sub.tm) = LocalSeconds(b)

InstantsOf(z, b) ==
  {x \in {LocalSeconds(b) - z.ttis[i].gmtoff + c : i \in 1 .. Len(z.ttis), c \in Corrections(z)} :
     Reads(z, x, b)}

IsDst(z, x) == localsub(z, x, ZeroTm).tm.isdst

Wanted(z, b) ==
  {x \in InstantsOf(z, b) : b.isdst < 0 \/ IsDst(z, x) = (IF b.isdst > 0 THEN 1 ELSE b.isdst)}

-----------------------------------------------------------------------------
(***************************************************************************)
(* tz_localtime_r counts right: the fields it sets stand for the instant   *)
(* plus the offset of one of the zone's types, less the leap seconds that  *)
(* have passed; a leap second is shown as the 61st of its minute; day of   *)
(* the week and of the year are those of the date, and the fields are in   *)
(* their ranges (timesub's estimates, loops, moduli and hits).             *)
(***************************************************************************)
ClockRight ==
  pc = "read" =>
    /\ \E i \in 1 .. Len(sp.ttis) :
         /\ sp.ttis[i].isdst = tm.isdst
         /\ LocalSeconds(tm) = instant + sp.ttis[i].gmtoff - LeapSeconds(sp, instant)
    /\ tm.wday = (Days(tm) + EPOCH_WDAY) % DAYSPERWEEK
    /\ tm.yday = Days(tm) - Days([tm EXCEPT !.mon = 0, !.mday = 1])
    /\ tm.mon \in 0 .. 11 /\ tm.mday \in 1 .. mon_lengths(tm.year + TM_YEAR_BASE)[tm.mon + 1]
    /\ tm.hour \in 0 .. HOURSPERDAY - 1
    /\ tm.min \in 0 .. MINSPERHOUR - 1
    /\ IF Showing(sp, instant) = {} THEN tm.sec \in 0 .. SECSPERMIN - 1
       ELSE tm.sec = SECSPERMIN - 1 + Cardinality(Showing(sp, instant))

(***************************************************************************)
(* An instant that is refused has a year no int holds (and "cannot happen" *)
(* does not, libtz.c:1262): those whose clock is two years from the limits *)
(* are converted.                                                          *)
(***************************************************************************)
RefusedIsExtreme == pc = "failed" => ~InnerYear(YearAbout(instant))

(***************************************************************************)
(* tz_mktime finds an instant if there is one: a date and time that exists *)
(* in the zone, of the kind tm_isdst asks for, is never refused, although  *)
(* the clock the binary search relies on goes back in autumn.  (Fields     *)
(* that overflow an int when they are normalised are refused, of course.)  *)
(***************************************************************************)
ExistingTimeFound ==
  pc = "done" /\ Normalized(asked, TRUE).ok /\ Wanted(sp, asked) # {} => okay

(***************************************************************************)
(* And it finds a right one: the clock shows then what was asked for, and  *)
(* is in the half of the year tm_isdst says if it is at all at that time.  *)
(* Seconds beyond the minute may be taken as seconds that pass after it,   *)
(* which is not the same when the clock is changed meanwhile.              *)
(***************************************************************************)
FoundIsRight ==
  LET seconds == SavedSeconds(Normalized(asked, FALSE).tm)
      minute  == [asked EXCEPT !.sec = @ - seconds]
  IN  pc = "done" /\ okay /\ (asked.isdst < 0 \/ Wanted(sp, asked) # {}) =>
        \/ result \in Wanted(sp, asked)
        \/ result - seconds \in Wanted(sp, minute)

(***************************************************************************)
(* With tm_isdst given, a time that is not of that kind, or that the clock *)
(* skips, is understood as shown by a clock that was (or was not) put      *)
(* forward, in a zone that has no more than one such clock.                *)
(***************************************************************************)
HintMeansOffset ==
  pc = "done" /\ okay /\ asked.isdst >= 0 /\ Len(sp.ttis) <= 2 =>
    \E i \in 1 .. Len(sp.ttis) :
      /\ sp.ttis[i].isdst = (IF asked.isdst > 0 THEN 1 ELSE 0)
      /\ result = LocalSeconds(asked) - sp.ttis[i].gmtoff

(***************************************************************************)
(* What the client reads it can convert back: unedited, and with its own   *)
(* tm_isdst or none, the reading leads to an instant with that reading,    *)
(* leap seconds included.                                                  *)
(***************************************************************************)
RoundTrip ==
  LET read == localsub(sp, instant, ZeroTm).tm
  IN  pc = "done" /\ Civil(asked) = Civil(read) /\ asked.isdst \in {-1, read.isdst}
        => okay /\ Civil(tm) = Civil(asked)

(***************************************************************************)
(* While it searches for a date and time that exists, the interval holds   *)
(* one of its instants.                                                    *)
(***************************************************************************)
Bracketed ==
  pc \in {"search", "compare"} =>
    LET there == InstantsOf(sp, yourtm)
    IN  there # {} => \E x \in there : lo <= x /\ x <= hi

(***************************************************************************)
(* The search ends: each probe makes the interval smaller, also when its   *)
(* middle is one of its ends, and none looks outside of it.                *)
(***************************************************************************)
SearchNarrows ==
  [][pc = "compare" /\ pc' = "search" =>
       lo <= lo' /\ lo' <= hi' /\ hi' <= hi /\ hi' - lo' < hi - lo]_vars
=============================================================================
