---------------------------- MODULE LibTzMktime ----------------------------
(***************************************************************************)
(* tz_mktime of src/src/unix/libtz/libtz.c: time1, time2 and time2sub, the *)
(* search for an instant at which a zone's clock shows a given struct tm.  *)
(* The client reads a clock with tz_localtime_r, does some arithmetic on   *)
(* the fields, and converts the result back.                               *)
(*                                                                         *)
(* long is assumed to hold whatever sums of ints it is used for, and       *)
(* time_t every year of an int, as both do with 64 bits: neither overflows *)
(* here, and neither does the difference of two years in tmcomp (the first *)
(* probe settles the sign of the time).                                    *)
(***************************************************************************)
EXTENDS LibTzClock

CONSTANTS
  TIME_T_MAX,
  Zones,       \* the zones of the client
  Instants,    \* the time_t values it converts
  Edits,       \* what it adds to the fields
  Hints        \* what it puts into tm_isdst

TIME_T_MIN == -TIME_T_MAX - 1

ASSUME SearchAssumption ==
  /\ TIME_T_MAX \in Nat
  /\ \A z \in Zones : IsZone(z)
  /\ Instants \subseteq TIME_T_MIN .. TIME_T_MAX
  /\ \A e \in Edits : {e.year, e.mon, e.mday, e.hour, e.min, e.sec} \subseteq Int
  /\ Hints \subseteq Int
  /\ (INT_MAX + TM_YEAR_BASE) * DAYSPERLYEAR * SECSPERDAY <= TIME_T_MAX

VARIABLES
  sp,        \* the zone in use
  instant,   \* the time_t that was converted to tm
  tm,        \* the client's struct tm
  asked,     \* a copy of it when tz_mktime was called
  pair,      \* time1: the two types of the attempt, or FIRST
  norm,      \* time2: do_norm_secs
  yourtm,    \* time2sub: the normalised struct tm
  saved,     \* time2sub: saved_seconds
  lo, hi,    \* time2sub: the interval that is searched
  t,         \* time2sub: the instant it tries
  mytm,      \* time2sub: what the clock shows then, or NULL
  okay,      \* time2sub: whether it found something
  result,    \* what time2sub, and in the end tz_mktime, returns
  pc         \* where the client or tz_mktime is

search_vars == <<yourtm, saved, lo, hi, t, mytm>>
vars == <<sp, instant, tm, asked, pair, norm, search_vars, okay, result, pc>>

FIRST == <<0, 0>>
WRONG == -1

ZeroTm ==
  [year |-> 0, mon |-> 0, mday |-> 0, hour |-> 0, min |-> 0, sec |-> 0,
   wday |-> 0, yday |-> 0, isdst |-> 0]

Civil(b) == <<b.year, b.mon, b.mday, b.hour, b.min, b.sec>>

-----------------------------------------------------------------------------
tmcomp(a, b) ==
  LET x == Civil(a)
      y == Civil(b)
      k == CHOOSE i \in 1 .. 6 : x[i] # y[i] /\ \A j \in 1 .. i - 1 : x[j] = y[j]
  IN  IF x = y THEN 0 ELSE x[k] - y[k]

(* Days of the month that are none are carried to the years and months.    *)
CarryDays[p \in Int \X (0 .. 11) \X Int] ==
  LET y   == p[1]
      mon == p[2]
      mday == p[3]
      leap(year) == IF 1 < mon THEN year + 1 ELSE year   \* whose February is passed
      len == mon_lengths(y)[mon + 1]
  IN  IF mday <= 0 THEN CarryDays[<<y - 1, mon, mday + year_lengths(leap(y - 1))>>]
      ELSE IF mday > DAYSPERLYEAR THEN CarryDays[<<y + 1, mon, mday - year_lengths(leap(y))>>]
      ELSE IF mday <= len THEN p
      ELSE CarryDays[IF mon = 11 THEN <<y + 1, 0, mday - len>> ELSE <<y, mon + 1, mday - len>>]

(* A slip: negative units are carried as C divides them.                   *)
Tens_Truncated(units, base) == CDiv(units, base)

(* normalize_overflow: the units that fill tens, and those that are left.  *)
Tens(units, base) == units \div base
Left(units, base) == units % base

(* The struct tm to look for, or NULL when one of its fields is no int.    *)
Normalized(b, seconds) ==
  LET min  == b.min + (IF seconds THEN Tens(b.sec, SECSPERMIN) ELSE 0)
      hour == b.hour + Tens(min, MINSPERHOUR)
      mday == b.mday + Tens(hour, HOURSPERDAY)
      date == CarryDays[<<b.year + Tens(b.mon, 12) + TM_YEAR_BASE, Left(b.mon, 12), mday>>]
      year == date[1] - TM_YEAR_BASE
  IN  IF ~IsInt(min) \/ ~IsInt(hour) \/ ~IsInt(mday) \/ ~IsInt(year) THEN Null(b)
      ELSE Done([b EXCEPT !.year = year, !.mon = date[2], !.mday = date[3],
                          !.hour = Left(hour, HOURSPERDAY), !.min = Left(min, MINSPERHOUR),
                          !.sec = IF seconds THEN Left(@, SECSPERMIN) ELSE @])

(* Seconds out of the minute are put aside until the minute is found.      *)
EarlyYear(b) == b.year + TM_YEAR_BASE < EPOCH_YEAR

(* A slip: the seconds put aside are lost.                                 *)
SavedSeconds_None(b) == 0

SavedSeconds(b) ==
  IF b.sec \in 0 .. SECSPERMIN - 1 THEN 0
  ELSE IF EarlyYear(b) THEN b.sec + 1 - SECSPERMIN ELSE b.sec

-----------------------------------------------------------------------------
(* The client.                                                             *)
tz_localtime_r(z, x) ==
  /\ pc = "idle"
  /\ \E sub \in {localsub(z, x, ZeroTm)} :
       /\ tm' = sub.tm
       /\ pc' = IF sub.ok THEN "read" ELSE "failed"
  /\ sp' = z
  /\ instant' = x
  /\ UNCHANGED <<asked, pair, norm, search_vars, okay, result>>

Edited(b, e) ==
  [b EXCEPT !.year = @ + e.year, !.mon = @ + e.mon, !.mday = @ + e.mday,
            !.hour = @ + e.hour, !.min = @ + e.min, !.sec = @ + e.sec]

tz_mktime(b) ==
  /\ pc = "read"
  /\ tm' = [b EXCEPT !.isdst = IF @ > 1 THEN 1 ELSE @]
  /\ asked' = b
  /\ pair' = FIRST
  /\ norm' = FALSE
  /\ pc' = "time2sub"
  /\ UNCHANGED <<sp, instant, search_vars, okay, result>>

(* The client has seen enough of a result.                                 *)
NextQuestion ==
  /\ pc \in {"failed", "done"}
  /\ sp' = CHOOSE z \in Zones : TRUE
  /\ tm' = ZeroTm /\ asked' = ZeroTm /\ yourtm' = ZeroTm
  /\ instant' = 0 /\ result' = 0 /\ saved' = 0 /\ lo' = 0 /\ hi' = 0
  /\ t' = 0 /\ mytm' = Null(ZeroTm)
  /\ pair' = FIRST /\ norm' = FALSE /\ okay' = FALSE
  /\ pc' = "idle"

-----------------------------------------------------------------------------
(* A slip: the last instant tried is returned all the same.                *)
NotFound_Nearest ==
  /\ okay' = TRUE
  /\ result' = t
  /\ pc' = "time2"
  /\ UNCHANGED tm

(* time2sub returns.                                                       *)
NotFound ==
  /\ okay' = FALSE
  /\ result' = WRONG
  /\ pc' = "time2"
  /\ UNCHANGED tm

time2sub ==
  /\ pc = "time2sub"
  /\ LET n == Normalized(tm, norm)
         s == SavedSeconds(n.tm)
     IN  IF ~n.ok \/ ~IsInt(s)
         THEN NotFound /\ UNCHANGED search_vars
         ELSE /\ saved' = s
              /\ yourtm' = [n.tm EXCEPT !.sec = IF @ \in 0 .. SECSPERMIN - 1 THEN @
                                                ELSE IF EarlyYear(n.tm) THEN SECSPERMIN - 1
                                                ELSE 0]
              /\ lo' = TIME_T_MIN /\ hi' = TIME_T_MAX
              /\ pc' = "search"
              /\ UNCHANGED <<t, mytm, tm, okay, result>>
  /\ UNCHANGED <<sp, instant, asked, pair, norm>>

Middle ==
  LET m == CDiv(lo, 2) + CDiv(hi, 2)
  IN  IF m < lo THEN lo ELSE IF m > hi THEN hi ELSE m

Probe ==
  /\ pc = "search"
  /\ t' = Middle
  /\ mytm' = localsub(sp, Middle, ZeroTm)
  /\ pc' = "compare"
  /\ UNCHANGED <<sp, instant, tm, asked, pair, norm, yourtm, saved, lo, hi, okay, result>>

(* A slip: every instant that is too extreme is taken for a late one.      *)
Direction_Late == IF mytm.ok THEN tmcomp(mytm.tm, yourtm) ELSE 1

(* An instant too extreme for a struct tm is on the far side.              *)
Direction ==
  IF mytm.ok THEN tmcomp(mytm.tm, yourtm) ELSE IF t > 0 THEN 1 ELSE -1

(* A slip: the ends of the interval are not left once they are tried.      *)
Narrow_Stuck ==
  /\ pc = "compare"
  /\ Direction # 0
  /\ IF Direction > 0 THEN lo' = lo /\ hi' = t ELSE lo' = t /\ hi' = hi
  /\ pc' = "search"
  /\ UNCHANGED <<sp, instant, tm, asked, pair, norm, yourtm, saved, t, mytm, okay, result>>

Narrow ==
  /\ pc = "compare"
  /\ Direction # 0
  /\ LET atLo == t = lo
         atHi == t # lo /\ t = hi
         next == IF atLo THEN t + 1 ELSE IF atHi THEN t - 1 ELSE t
         lo1  == IF atLo THEN lo + 1 ELSE lo
         hi1  == IF atHi THEN hi - 1 ELSE hi
     IN  IF lo1 > hi1 THEN NotFound /\ UNCHANGED <<lo, hi>>
         ELSE /\ IF Direction > 0 THEN lo' = lo1 /\ hi' = next ELSE lo' = next /\ hi' = hi1
              /\ pc' = "search"
              /\ UNCHANGED <<tm, okay, result>>
  /\ UNCHANGED <<sp, instant, asked, pair, norm, yourtm, saved, t, mytm>>

(* Slips: tm_isdst -1 taken literally; tm_isdst not looked at.             *)
RightType_Literal == mytm.tm.isdst = yourtm.isdst
RightType_Any     == TRUE

RightType == yourtm.isdst < 0 \/ mytm.tm.isdst = yourtm.isdst

Match ==
  /\ pc = "compare"
  /\ Direction = 0 /\ RightType
  /\ pc' = "label"
  /\ UNCHANGED <<sp, instant, tm, asked, pair, norm, search_vars, okay, result>>

(* "Right time, wrong type": the same reading at the distance of two       *)
(* offsets, types with high indexes first.                                 *)
Moved(p) == t + sp.ttis[p[2]].gmtoff - sp.ttis[p[1]].gmtoff

Matches(sub) == sub.ok /\ tmcomp(sub.tm, yourtm) = 0 /\ sub.tm.isdst = yourtm.isdst

Matching ==
  LET types == 1 .. Len(sp.ttis)
  IN  {p \in types \X types : /\ sp.ttis[p[1]].isdst = yourtm.isdst
                              /\ sp.ttis[p[2]].isdst # yourtm.isdst
                              /\ Matches(localsub(sp, Moved(p), ZeroTm))}

Highest(pairs) ==
  CHOOSE p \in pairs : \A q \in pairs : q[1] < p[1] \/ (q[1] = p[1] /\ q[2] <= p[2])

Hunt ==
  /\ pc = "compare"
  /\ Direction = 0 /\ ~RightType
  /\ \E pairs \in {Matching} :
       IF pairs = {} THEN NotFound /\ UNCHANGED t
       ELSE t' = Moved(Highest(pairs)) /\ pc' = "label" /\ UNCHANGED <<tm, okay, result>>
  /\ UNCHANGED <<sp, instant, asked, pair, norm, yourtm, saved, lo, hi, mytm>>

(* What is found is written to the caller's struct tm.                     *)
label ==
  /\ pc = "label"
  /\ \E sub \in {localsub(sp, t + saved, tm)} : tm' = sub.tm /\ okay' = sub.ok
  /\ result' = t + saved
  /\ pc' = "time2"
  /\ UNCHANGED <<sp, instant, asked, pair, norm, search_vars>>

-----------------------------------------------------------------------------
(* time2: a second try with the seconds normalised.                        *)
time2 ==
  /\ pc = "time2" /\ ~okay /\ ~norm
  /\ norm' = TRUE
  /\ pc' = "time2sub"
  /\ UNCHANGED <<sp, instant, tm, asked, pair, search_vars, okay, result>>

Return ==
  /\ pc = "time2"
  /\ okay \/ (norm /\ pair = FIRST /\ tm.isdst < 0)
  /\ pc' = "done"
  /\ UNCHANGED <<sp, instant, tm, asked, pair, norm, search_vars, okay, result>>

(***************************************************************************)
(* time1: "we're supposed to assume that somebody took a time of one type  *)
(* and did some math on it": the types of the table are tried two by two,  *)
(* the one used last first.                                                *)
(***************************************************************************)
Seen == {sp.types[i] : i \in 1 .. Len(sp.types)}

LastUse(k) ==
  CHOOSE i \in 1 .. Len(sp.types) :
    sp.types[i] = k /\ \A j \in i + 1 .. Len(sp.types) : sp.types[j] # k

Before(p, q) ==
  p # q /\ (LastUse(p[1]) > LastUse(q[1]) \/ (p[1] = q[1] /\ LastUse(p[2]) > LastUse(q[2])))

(* A slip: the difference of the offsets the wrong way round.              *)
Shift_Reversed(p) == sp.ttis[p[1]].gmtoff - sp.ttis[p[2]].gmtoff

Shift(p) == sp.ttis[p[2]].gmtoff - sp.ttis[p[1]].gmtoff

Flip(isdst) == IF isdst = 0 THEN 1 ELSE 0

Restored ==
  IF pair = FIRST THEN tm ELSE [tm EXCEPT !.sec = @ - Shift(pair), !.isdst = Flip(@)]

Untried ==
  {p \in Seen \X Seen : /\ sp.ttis[p[1]].isdst = Restored.isdst
                        /\ sp.ttis[p[2]].isdst # Restored.isdst
                        /\ pair = FIRST \/ Before(pair, p)}

time1 ==
  /\ pc = "time2" /\ ~okay /\ norm
  /\ pair # FIRST \/ tm.isdst >= 0
  /\ IF Untried = {}
     THEN /\ tm' = Restored
          /\ result' = WRONG
          /\ pc' = "done"
          /\ UNCHANGED <<pair, norm>>
     ELSE \E p \in Untried :
            /\ \A q \in Untried : q # p => Before(p, q)
            /\ tm' = [Restored EXCEPT !.sec = @ + Shift(p), !.isdst = Flip(@)]
            /\ pair' = p
            /\ norm' = FALSE
            /\ pc' = "time2sub"
            /\ UNCHANGED result
  /\ UNCHANGED <<sp, instant, asked, search_vars, okay>>

-----------------------------------------------------------------------------
Init ==
  /\ sp = CHOOSE z \in Zones : TRUE
  /\ tm = ZeroTm /\ asked = ZeroTm /\ yourtm = ZeroTm
  /\ instant = 0 /\ result = 0 /\ saved = 0 /\ lo = 0 /\ hi = 0
  /\ t = 0 /\ mytm = Null(ZeroTm)
  /\ pair = FIRST /\ norm = FALSE /\ okay = FALSE
  /\ pc = "idle"

MktimeStep == time2sub \/ Probe \/ Narrow \/ Match \/ Hunt \/ label \/ time2 \/ time1 \/ Return

Ask    == pc = "idle" /\ \E z \in Zones, x \in Instants : tz_localtime_r(z, x)
AskFor == pc = "read" /\ \E e \in Edits, h \in Hints : tz_mktime([Edited(tm, e) EXCEPT !.isdst = h])

Next ==
  \/ Ask
  \/ AskFor
  \/ MktimeStep
  \/ NextQuestion

Spec == Init /\ [][Next]_vars
=============================================================================
