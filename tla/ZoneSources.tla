---------------------------- MODULE ZoneSources ----------------------------
(***************************************************************************)
(* What tz_alloc makes of files and strings, whichever of them fail, and   *)
(* what gmtime shows while GMT is being loaded.                            *)
(***************************************************************************)
EXTENDS TzAlloc, PosixRules

CONSTANTS Moments(_)   \* the instants at which a zone is looked at

Made == pc = "done" /\ sp # NULL

NoTm == [year |-> 0, mon |-> 0, mday |-> 0, hour |-> 0, min |-> 0, sec |-> 0,
         wday |-> 0, yday |-> 0, isdst |-> 0]

(* What a clock in a zone without leap seconds is ahead of Greenwich.      *)
Clock(z, x) ==
  LET tm == localsub(z, x, NoTm).tm
  IN  [ahead |-> DayNumber(tm.year + TM_YEAR_BASE, tm.mon + 1, tm.mday) * SECSPERDAY
                   + tm.hour * SECSPERHOUR + tm.min * SECSPERMIN + tm.sec - x,
       isdst |-> tm.isdst]

(* The same by the rules of a string.                                      *)
ByRule(tz, x) ==
  IF DstAt(tz, x) THEN [ahead |-> -DstWest(tz), isdst |-> 1]
  ELSE [ahead |-> -StdWest(tz), isdst |-> 0]

-----------------------------------------------------------------------------
TableOf(file) == file.blocks[Len(file.blocks)]

(* The last two transitions of a file the wrong way round.                 *)
LastPairWrong(file) ==
  LET ats == TableOf(file).ats
  IN  Len(ats) > 1 /\ ats[Len(ats) - 1] > ats[Len(ats)]

(* The rules of TZDEFRULES go on for ever.                                 *)
GoesOn(default) == LET d == WithDefault(default, Memory) IN d.ok /\ (d.sp.goback \/ d.sp.goahead)

(* tzload does not look at the order of the last pair of transitions, and  *)
(* tzparse leaves goback and goahead as the default rules set them.        *)
Excepted(src) ==
  \/ src.of # "string" /\ src.file # NoFile /\ LastPairWrong(src.file)
  \/ src.of # "file" /\ GoesOn(src.default)

(* Whatever files are missing, refused or cut short, conversions get the   *)
(* zone they rely on, of all that SoundSources admits: types that exist,   *)
(* transitions in order, a table that spans 400 years if it repeats        *)
(* itself.  There are the two exceptions.                                  *)
ZoneAssumed == Made /\ name # FAST => IsZone(sp) \/ Excepted(source)

(***************************************************************************)
(* What that takes, and neither tzload nor tzparse looks at: leap seconds  *)
(* and transitions of files at different times; rules more than three      *)
(* weeks apart, which is what their times and offsets can move them; and   *)
(* default rules that offsets cannot move past each other.                 *)
(***************************************************************************)
IsSeq(s) == s \in Seq({s[i] : i \in DOMAIN s})

IsClock(hms)     == hms \in Seq(Int) /\ Len(hms) <= 3
IsOffset(offset) == offset = NONE \/ (offset.neg \in BOOLEAN /\ IsClock(offset.hms))

IsRule(rule) ==
  /\ rule = Rule(rule.form, rule.nums, rule.time)
  /\ rule.form \in {JULIAN_DAY, DAY_OF_YEAR, MONTH_NTH_DAY_OF_WEEK} /\ rule.nums \in Seq(Int)
  /\ rule.time = NONE \/ IsClock(rule.time)

Midnight(year, rule) == FirstOfJanuary(year) + DayOfRule(year, rule) * SECSPERDAY

WEEK == DAYSPERWEEK * SECSPERDAY

RulesApart(start, end) ==
  \A year \in EPOCH_YEAR - 1 .. EPOCH_YEAR + TZ_MAX_TIMES \div 2 :
    \A next \in year - 1 .. year + 1 :
      \/ Midnight(year, start) - Midnight(next, end) > 3 * WEEK
      \/ Midnight(next, end) - Midnight(year, start) > 3 * WEEK

IsText(tz) ==
  /\ IsOffset(tz.off) /\ IsOffset(tz.dstoff)
  /\ length(tz.std) \in Nat /\ (tz.dst # NONE => length(tz.dst) \in Nat)
  /\ IsSeq(tz.rules) /\ \A i \in 1 .. Len(tz.rules) : IsRule(tz.rules[i])
  /\ (Len(tz.rules) = 2 /\ \A i \in 1 .. 2 : getrule(tz.rules[i]) # NONE) => RulesApart(tz.rules[1], tz.rules[2])

IsBlock(b) ==
  /\ b.ats \in Seq(Int) /\ \A i \in 1 .. Len(b.ats) - 1 : b.ats[i] # b.ats[i + 1]
  /\ b.types \in Seq(Nat \ {0}) /\ Len(b.types) = Len(b.ats)
  /\ IsSeq(b.ttis) /\ \A i \in 1 .. Len(b.ttis) : b.ttis[i].gmtoff \in Int
  /\ b.lsis \in Seq([trans : Int, corr : Int])
  /\ \A i \in 1 .. Len(b.lsis) : i = 1 => b.lsis[i].corr > 0
  /\ \A i \in 1 .. Len(b.lsis) - 1 : b.lsis[i].trans < b.lsis[i + 1].trans
  /\ b.charcnt \in Nat

IsFile(file) ==
  file = NoFile \/ /\ IsSeq(file.blocks) /\ file.blocks # <<>>
                   /\ \A i \in 1 .. Len(file.blocks) : IsBlock(file.blocks[i])
                   /\ file.footer = NoFooter \/ IsText(file.footer)

Immovable(file) ==
  file = NoFile \/ LET table == TableOf(file)
                   IN  /\ \A i \in 1 .. Len(table.ttis) : table.ttis[i].gmtoff \in -WEEK .. WEEK
                       /\ \A i \in 1 .. Len(table.ats) - 1 : table.ats[i + 1] - table.ats[i] > 2 * WEEK

SoundSources ==
  /\ \A fs \in FileSystems :
       /\ \A f \in {GMT, TZDEFAULT, TZDEFRULES} \cup {n.file : n \in Names \ {NULL, FAST}} : IsFile(fs[f])
       /\ Immovable(fs[TZDEFRULES])
  /\ \A n \in Names \ {NULL, FAST} : IsText(n.tz)
  /\ length(GMT) \in Nat

(* The attempts to fill one object leave nothing of it undefined, however  *)
(* far each of them came; only the fast way, for an empty name, leaves     *)
(* goback and goahead as malloc does, and localsub reads them.             *)
CompleteUnlessFast ==
  Made => (UNSET \in {sp[f] : f \in DOMAIN sp} <=> name = FAST)

-----------------------------------------------------------------------------
HasRules(tz) == tz # NoFooter /\ tz.dst # NONE /\ Len(tz.rules) = 2

(* The footer took effect, and the table ends as the footer goes on.       *)
FollowsOn(file) ==
  /\ HasRules(file.footer)
  /\ Len(sp.ttis) = Len(TableOf(file).ttis) + 2
  /\ LET table == [FromBlock(TableOf(file)) EXCEPT !.lsis = <<>>]
     IN  ~LastPairWrong(file)
         /\ (table.ats # <<>> => Clock(table, Last(table)) = ByRule(file.footer, Last(table)))

(* After the transitions of its file a zone follows the rules of the       *)
(* footer, without a gap where the ones end and the others begin, and for  *)
(* ever: the table made of the rules is long enough to repeat itself.      *)
AfterTheTable ==
  Made /\ source.of = "file" /\ source.file.footer # NoFooter /\ FollowsOn(source.file) =>
    \A x \in {x \in Moments(sp) : x >= LastAt(FromBlock(TableOf(source.file)))} :
      Clock(sp, x) = ByRule(source.file.footer, x)

(***************************************************************************)
(* What that takes of a file whose footer has rules: a table without leap  *)
(* seconds that ends after the first years of the rules, and leaves their  *)
(* table 402 years of its own, the last of which are those that it begins  *)
(* with.                                                                   *)
(***************************************************************************)
Extensible(file) ==
  ReadTables(file, Memory).ok /\ HasRules(file.footer) =>
    LET table == FromBlock(TableOf(file))
        YEAR  == SECSPERDAY * DAYSPERNYEAR
    IN  /\ table.lsis = <<>>
        /\ \A i \in 1 .. Len(table.ttis) : table.ttis[i].gmtoff \in -YEAR .. YEAR
        /\ table.ats # <<>> => Last(table) >= FirstOfJanuary(EPOCH_YEAR + 2)
        /\ LastAt(table) < FirstOfJanuary(EPOCH_YEAR + TZ_MAX_TIMES \div 2 - 403)
        /\ Len(table.ats) + 803 <= TZ_MAX_TIMES

ExtensibleSources ==
  \A fs \in FileSystems :
    \A f \in {TZDEFAULT} \cup {n.file : n \in Names \ {NULL, FAST}} : Extensible(fs[f])

(* A zone made of a TZ string observes the rules in it, in all the years   *)
(* its table spans.                                                        *)
RulesObserved ==
  Made /\ source.of = "string" /\ HasRules(name.tz) /\ IsZone(sp) =>
    \A x \in {x \in Moments(sp) : First(sp) <= x /\ x <= Last(sp)} :
      Clock([sp EXCEPT !.lsis = <<>>], x) = ByRule(name.tz, x)

-----------------------------------------------------------------------------
Ahead(z, i) == z.ttis[IF i = 0 THEN FirstType(z) ELSE z.types[i]].gmtoff
IsDstType(z, i) == z.ttis[IF i = 0 THEN FirstType(z) ELSE z.types[i]].isdst = 1

(* What a wall clock shows when transition i comes.                        *)
Wall(z, i) == z.ats[i] + Ahead(z, i - 1)

(* What is saved, against the last standard time.                          *)
Saving(z, i) == Ahead(z, i) - Ahead(z, Max({j \in 0 .. i : ~IsDstType(z, j)}))

(* Before transition i the table has been in a standard time it keeps, and *)
(* not only in local mean time.                                            *)
StandardKnown(z, i) ==
  LET standard == {k \in 1 .. Len(z.ats) : ~IsDstType(z, k)}
  IN  standard # {} /\ (Min(standard) < i \/ Ahead(z, 0) = Ahead(z, Min(standard)))

(* Without rules in the string, the clocks are changed when they show what *)
(* they show where the default rules come from: in standard time always,   *)
(* and while something is saved if both zones save the same.  For others   *)
(* nothing is claimed, as the loop in tzparse forgets that daylight saving *)
(* time is in effect.                                                      *)
WallTimeKept ==
  Made /\ source.of = "string" /\ name.tz.dst # NONE /\ name.tz.rules = <<>>
       /\ ReadTables(source.default, Memory).ok =>
    LET theirs == FromBlock(TableOf(source.default))
    IN  \A i \in 1 .. Len(sp.ats) :
          theirs.ttis[theirs.types[i]].ttisgmt = 0 /\ StandardKnown(theirs, i) =>
            (~IsDstType(theirs, i - 1) \/ Saving(sp, i - 1) = Saving(theirs, i - 1)
               => Wall(sp, i) = Wall(theirs, i))

-----------------------------------------------------------------------------
(* gmtime_r is called "re-entrant".  It shows a wrong time, by the leap    *)
(* seconds of GMT, only to a thread that finds the flag set while another  *)
(* one is loading.                                                         *)
GmtRightUnlessLoading ==
  [][\A t \in Threads :
       Convert(t) =>
         \/ \E u \in Threads \ {t} : at[u] \in {"load", "leaps"}
         \/ timesub(timep[t], 0, [lsis |-> seen'[t]], NoTm)
              = timesub(timep[t], 0, [lsis |-> GmtLeaps], NoTm)]_vars
=============================================================================
