------------------------------ MODULE TzString ------------------------------
(***************************************************************************)
(* tzparse of src/src/unix/libtz/libtz.c: a POSIX TZ string becomes the    *)
(* tables of a struct state; and the part of tzload that appends what the  *)
(* footer of a zone file says.                                             *)
(*                                                                         *)
(* A TZ string is given by its parts: two names, two offsets and any       *)
(* number of rules.  An offset is a sign and up to three numbers, a rule a *)
(* form of date, its numbers and a time.  NONE stands for a part that is   *)
(* left out, UNCLOSED for a name with a < that no > follows, and a part    *)
(* without its numbers for one that is spelled wrong.                      *)
(***************************************************************************)
EXTENDS TzFile

CONSTANTS NONE, UNCLOSED, length(_)

ASSUME NoneAssumption == NONE \notin Int /\ NONE # [neg |-> FALSE, hms |-> <<0>>]

TzText(std, off, dst, dstoff, rules) ==
  [std |-> std, off |-> off, dst |-> dst, dstoff |-> dstoff, rules |-> rules]

Offset(neg, hms)       == [neg |-> neg, hms |-> hms]
Rule(form, nums, time) == [form |-> form, nums |-> nums, time |-> time]

-----------------------------------------------------------------------------
Within(nums, ranges) ==
  /\ nums # <<>>
  /\ \A i \in 1 .. Len(nums) : nums[i] \in ranges[i]

(* hh[:mm[:ss]]; hours enough for a week, and a second for a leap second.  *)
getsecs(hms) ==
  LET ranges == <<0 .. HOURSPERDAY * DAYSPERWEEK - 1, 0 .. MINSPERHOUR - 1, 0 .. SECSPERMIN>>
      units  == <<SECSPERHOUR, SECSPERMIN, 1>>
      Part(i) == IF i <= Len(hms) THEN hms[i] * units[i] ELSE 0
  IN  IF Within(hms, ranges) THEN Part(1) + Part(2) + Part(3) ELSE NONE

(* A slip: the sign is read and forgotten.                                 *)
getoffset_Unsigned(offset) == IF offset = NONE THEN NONE ELSE getsecs(offset.hms)

getoffset(offset) ==
  IF offset = NONE \/ getsecs(offset.hms) = NONE THEN NONE
  ELSE IF offset.neg THEN -getsecs(offset.hms) ELSE getsecs(offset.hms)

JULIAN_DAY == "J"
DAY_OF_YEAR == "n"
MONTH_NTH_DAY_OF_WEEK == "M"

getrule(rule) ==
  LET ranges == CASE rule.form = JULIAN_DAY  -> <<1 .. DAYSPERNYEAR>>
                  [] rule.form = DAY_OF_YEAR -> <<0 .. DAYSPERLYEAR - 1>>
                  [] rule.form = MONTH_NTH_DAY_OF_WEEK -> <<1 .. 12, 1 .. 5, 0 .. DAYSPERWEEK - 1>>
      time   == IF rule.time = NONE THEN 2 * SECSPERHOUR ELSE getsecs(rule.time)
  IN  IF Len(rule.nums) = Len(ranges) /\ Within(rule.nums, ranges) /\ time # NONE
      THEN [rule EXCEPT !.time = time]
      ELSE NONE

-----------------------------------------------------------------------------
(* Zeller's congruence: the day of the week of the first of a month.       *)
FirstDayOfWeek(year, mon) ==
  LET m1  == ((mon + 9) % 12) + 1
      yy0 == IF mon <= 2 THEN year - 1 ELSE year
      yy1 == CDiv(yy0, 100)
      yy2 == CMod(yy0, 100)
  IN  ((26 * m1 - 2) \div 10 + 1 + yy2 + CDiv(yy2, 4) + CDiv(yy1, 4) - 2 * yy1) % DAYSPERWEEK

(* A slip: the fifth is looked for in months that have four of them.       *)
NthDayOfWeek_Beyond(year, mon, week, day) ==
  ((day - FirstDayOfWeek(year, mon)) % DAYSPERWEEK) + DAYSPERWEEK * (week - 1)

(* The week-th such day of the month, the first being 0, or the last one.  *)
NthDayOfWeek(year, mon, week, day) ==
  LET first == (day - FirstDayOfWeek(year, mon)) % DAYSPERWEEK
      more  == (mon_lengths(year)[mon] - 1 - first) \div DAYSPERWEEK
  IN  first + DAYSPERWEEK * Min({week - 1, more})

(* A slip: the extra day of a leap year is never added.                    *)
DayOfRule_NoLeapDay(year, rule) ==
  CASE rule.form = JULIAN_DAY  -> rule.nums[1] - 1
    [] rule.form = DAY_OF_YEAR -> rule.nums[1]
    [] rule.form = MONTH_NTH_DAY_OF_WEEK ->
         MonthStart[<<year, rule.nums[1] - 1>>]
           + NthDayOfWeek(year, rule.nums[1], rule.nums[2], rule.nums[3])

(* The days from the first of January to the day of the rule.              *)
DayOfRule(year, rule) ==
  CASE rule.form = JULIAN_DAY ->
         rule.nums[1] - 1 + IF isleap(year) /\ rule.nums[1] >= 60 THEN 1 ELSE 0
    [] rule.form = DAY_OF_YEAR -> rule.nums[1]
    [] rule.form = MONTH_NTH_DAY_OF_WEEK ->
         MonthStart[<<year, rule.nums[1] - 1>>]
           + NthDayOfWeek(year, rule.nums[1], rule.nums[2], rule.nums[3])

transtime(janfirst, year, rule, offset) ==
  janfirst + DayOfRule(year, rule) * SECSPERDAY + rule.time + offset

(* The loop adds up the lengths of the years before.                       *)
FirstOfJanuary(year) ==
  SECSPERDAY * (DAYSPERNYEAR * (year - EPOCH_YEAR)
                + leaps_thru_end_of(year - 1) - leaps_thru_end_of(EPOCH_YEAR - 1))

-----------------------------------------------------------------------------
(* The type of daylight saving time is the first one here ...              *)
RuleTypes(tz, stdoffset, dstoffset) ==
  <<TypeInfo(-dstoffset, 1, tz.dst, 0, 0), TypeInfo(-stdoffset, 0, tz.std, 0, 0)>>

InOrderOfTime(starttime, endtime) ==
  IF starttime > endtime
  THEN <<<<endtime, 2>>, <<starttime, 1>>>>
  ELSE <<<<starttime, 1>>, <<endtime, 2>>>>

(* A slip: the end of daylight saving time is taken as standard time.      *)
YearOfRules_StandardEnd(year, start, end, stdoffset, dstoffset) ==
  InOrderOfTime(transtime(FirstOfJanuary(year), year, start, stdoffset),
                transtime(FirstOfJanuary(year), year, end, stdoffset))

(* The two transitions of a year, each with its type.                      *)
YearOfRules(year, start, end, stdoffset, dstoffset) ==
  InOrderOfTime(transtime(FirstOfJanuary(year), year, start, stdoffset),
                transtime(FirstOfJanuary(year), year, end, dstoffset))

(* As many years from the epoch on as there is room for.                   *)
ByRules(sp, tz, start, end, stdoffset, dstoffset) ==
  LET years == TZ_MAX_TIMES \div 2
      pairs == [k \in 1 .. years |->
                  YearOfRules(EPOCH_YEAR + k - 1, start, end, stdoffset, dstoffset)]
      both  == [i \in 1 .. 2 * years |-> pairs[(i + 1) \div 2][IF i % 2 = 1 THEN 1 ELSE 2]]
  IN  [sp EXCEPT !.ats   = [i \in 1 .. 2 * years |-> both[i][1]],
                 !.types = [i \in 1 .. 2 * years |-> both[i][2]],
                 !.ttis  = RuleTypes(tz, stdoffset, dstoffset)]

(***************************************************************************)
(* ... and the second one here, where no rule is given: the transitions of *)
(* the default rules are moved to the offset of the zone.  isdst is never  *)
(* set in the loop, so that it is always the standard offset of both.      *)
(***************************************************************************)
StandardBefore(sp, i) ==
  LET standard == {k \in 1 .. Len(sp.ats) : sp.ttis[sp.types[k]].isdst = 0}
      before   == {k \in standard : k < i}
      k        == IF before # {} THEN Max(before) ELSE Min(standard)
  IN  IF standard = {} THEN 0 ELSE -sp.ttis[sp.types[k]].gmtoff

(* A slip: daylight saving time is in effect, where it is going to be.     *)
Moved_Forgotten(sp, i, stdoffset) == sp.ats[i] + stdoffset

Moved(sp, i, stdoffset) ==
  IF sp.ttis[sp.types[i]].ttisgmt = 1 THEN sp.ats[i]
  ELSE sp.ats[i] + stdoffset - StandardBefore(sp, i)

Borrowed(sp, tz, stdoffset, dstoffset) ==
  [sp EXCEPT !.ats   = [i \in 1 .. Len(sp.ats) |-> Moved(sp, i, stdoffset)],
             !.types = [i \in 1 .. Len(sp.ats) |-> 1 + sp.ttis[sp.types[i]].isdst],
             !.ttis  = <<TypeInfo(-stdoffset, 0, tz.std, 0, 0),
                         TypeInfo(-dstoffset, 1, tz.dst, 0, 0)>>]

OneType(sp, tz, stdoffset) ==
  [sp EXCEPT !.ats = <<>>, !.types = <<>>, !.ttis = <<TypeInfo(-stdoffset, 0, tz.std, 0, 0)>>]

-----------------------------------------------------------------------------
(* M4.1.0,M10.5.0                                                          *)
TZDEFRULESTRING ==
  <<Rule(MONTH_NTH_DAY_OF_WEEK, <<4, 1, 0>>, NONE), Rule(MONTH_NTH_DAY_OF_WEEK, <<10, 5, 0>>, NONE)>>

SizeOfChars == 2 * (255 + 1)

(* With the file of TZDEFRULES as default; its leap seconds are kept.      *)
WithDst(loaded, tz, stdoffset) ==
  LET sp        == loaded.sp
      dstoffset == IF tz.dstoff = NONE THEN stdoffset - SECSPERHOUR ELSE getoffset(tz.dstoff)
      rules     == IF tz.rules = <<>> /\ ~loaded.ok THEN TZDEFRULESTRING ELSE tz.rules
  IN  IF tz.dst = UNCLOSED \/ dstoffset = NONE THEN Outcome(FALSE, sp)
      ELSE IF rules = <<>> THEN Outcome(TRUE, Borrowed(sp, tz, stdoffset, dstoffset))
      ELSE IF Len(rules) = 2 /\ getrule(rules[1]) # NONE /\ getrule(rules[2]) # NONE
      THEN Outcome(TRUE, ByRules(sp, tz, getrule(rules[1]), getrule(rules[2]), stdoffset, dstoffset))
      ELSE Outcome(FALSE, sp)

Named(outcome, tz) ==
  LET charcnt == length(tz.std) + 1 + IF tz.dst = NONE THEN 0 ELSE length(tz.dst) + 1
  IN  [ok |-> outcome.ok /\ charcnt <= SizeOfChars, sp |-> [outcome.sp EXCEPT !.charcnt = charcnt]]

(* A slip: what was in leapcnt is not reset.                               *)
DefaultTables_LeapsKept(loaded) ==
  Outcome(loaded.ok, IF loaded.ok THEN Repeats(loaded.sp) ELSE loaded.sp)

DefaultTables(loaded) ==
  Outcome(loaded.ok, IF loaded.ok THEN Repeats(loaded.sp) ELSE [loaded.sp EXCEPT !.lsis = <<>>])

WithDefault(default, sp) == DefaultTables(ReadTables(default, sp))

(* Without a zone, the whole string is the name of standard time.          *)
LastDitch(name) == TzText(name, Offset(FALSE, <<0>>), NONE, NONE, <<>>)

tzparse(tz, default, sp) ==
  LET stdoffset == getoffset(tz.off)
      loaded    == WithDefault(default, sp)
  IN  IF tz.std = UNCLOSED \/ stdoffset = NONE THEN Outcome(FALSE, sp)
      ELSE IF tz.dst # NONE THEN Named(WithDst(loaded, tz, stdoffset), tz)
      ELSE Named(Outcome(TRUE, OneType(loaded.sp, tz, stdoffset)), tz)

-----------------------------------------------------------------------------
(* Without a transition it is the two ints before ats that are read, which *)
(* are goback and goahead, both FALSE by now.                              *)
LastAt(sp) == IF sp.ats = <<>> THEN 0 ELSE Last(sp)

(* A slip: what the table has already is appended again.                   *)
Following_Again(ts, sp) == 1

(* The first transition of ts that comes after the table of sp.            *)
Following(ts, sp) ==
  Min({i \in 1 .. Len(ts.ats) : ts.ats[i] > LastAt(sp)} \cup {Len(ts.ats) + 1})

(* A slip: the types of the footer are not moved behind those of the file. *)
TypeBehind_Same(sp, type) == type

TypeBehind(sp, type) == Len(sp.ttis) + type

Extended(sp, ts) ==
  LET from  == Following(ts, sp)
      count == Min({Len(ts.ats) - from + 1, TZ_MAX_TIMES - Len(sp.ats)})
      new   == SubSeq(ts.types, from, from + count - 1)
  IN  [sp EXCEPT !.ats     = @ \o SubSeq(ts.ats, from, from + count - 1),
                 !.types   = @ \o [i \in 1 .. count |-> TypeBehind(sp, new[i])],
                 !.ttis    = @ \o ts.ttis,
                 !.charcnt = @ + ts.charcnt]

WithFooter(sp, footer, parsed) ==
  IF /\ footer # NoFooter
     /\ Len(sp.ttis) + 2 <= TZ_MAX_TYPES
     /\ parsed.ok
     /\ Len(parsed.sp.ttis) = 2
     /\ sp.charcnt + parsed.sp.charcnt <= TZ_MAX_CHARS
  THEN Extended(sp, parsed.sp)
  ELSE sp

AfterTables(tables, file, default) ==
  IF tables.ok
  THEN Outcome(TRUE, Repeats(WithFooter(tables.sp, file.footer, tzparse(file.footer, default, Memory))))
  ELSE tables

(* tzload with doextend; tzparse calls it without, as WithDefault.         *)
tzload(file, default, sp) == AfterTables(ReadTables(file, sp), file, default)
=============================================================================
