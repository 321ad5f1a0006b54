--------------------------- MODULE MCZoneSources ---------------------------
(***************************************************************************)
(* Files, TZ strings and instants for TLC.  An hour has 4 units, a day 3   *)
(* hours; a year is as long as it is.                                      *)
(***************************************************************************)
EXTENDS ZoneSources

CONSTANTS Thread1, Thread2

Hour == SECSPERHOUR
East(h) == Offset(TRUE, <<h>>)
Westward(h) == Offset(FALSE, <<h>>)
M(m, w, d, time) == Rule(MONTH_NTH_DAY_OF_WEEK, <<m, w, d>>, time)

-----------------------------------------------------------------------------
(* TZ strings.                                                             *)
Cet      == TzText("CET", East(1), "CEST", NONE, <<M(3, 5, 0, <<2>>), M(10, 5, 0, <<2, 1>>)>>)
South    == TzText("AEST", East(2), "AEDT", NONE, <<M(10, 1, 0, NONE), M(4, 1, 0, <<1>>)>>)
Julian   == TzText("XST", Westward(1), "XDT", East(1),
                   <<Rule(JULIAN_DAY, <<60>>, <<0>>), Rule(DAY_OF_YEAR, <<300>>, <<1, 1, 1>>)>>)
NoRules  == TzText("EST", Westward(2), "EDT", NONE, <<>>)
HalfHour == TzText("LHST", East(2), "LHDT", Offset(TRUE, <<2, 1>>), <<>>)
Standard == TzText("UTC", Westward(0), NONE, NONE, <<>>)
Wrongs   ==
  {TzText("Europe/Rome", NONE, NONE, NONE, <<>>), TzText(UNCLOSED, East(1), NONE, NONE, <<>>),
   TzText("CET", East(HOURSPERDAY * 7), NONE, NONE, <<>>), TzText("CET", East(1), UNCLOSED, NONE, <<>>),
   [Cet EXCEPT !.rules = <<M(3, 5, 0, NONE)>>], [Cet EXCEPT !.rules[1].nums = <<13, 1, 0>>],
   [Cet EXCEPT !.rules[2].time = <<0, 2>>], [Standard EXCEPT !.std = "Long"]}
Strings == {Cet, South, Julian, NoRules, HalfHour, Standard} \cup Wrongs

NameLength(text) == IF text = "Long" THEN SizeOfChars ELSE 3

-----------------------------------------------------------------------------
(* Blocks and files.                                                       *)
Std(h, abbr) == [gmtoff |-> h * Hour, isdst |-> 0, abbr |-> abbr]
Dst(h, abbr) == [gmtoff |-> h * Hour, isdst |-> 1, abbr |-> abbr]
CetTypes == <<Std(1, "CET"), Dst(2, "CEST")>>

Plain(ats, types, ttis) == Block(ats, types, ttis, 8, <<>>, <<>>, <<>>, TRUE)
File(block, footer)     == [blocks |-> <<Plain(<<>>, <<>>, <<Std(0, "old")>>), block>>, footer |-> footer]
OldFile(block)          == [blocks |-> <<block>>, footer |-> NoFooter]

TwoYears(tz, y) == <<Begins(tz, y), Ends(tz, y), Begins(tz, y + 1), Ends(tz, y + 1)>>
CetBlock  == Plain(TwoYears(Cet, 1975), <<2, 1, 2, 1>>, CetTypes)
CetFile   == File(CetBlock, Cet)

(* The switches of 1980, 1981 and 2380, 2381.                              *)
Centuries == TwoYears(Cet, 1980) \o TwoYears(Cet, 1980 + YEARSPERREPEAT)

Files ==
  {CetFile, File(CetBlock, NoFooter), OldFile(CetBlock), NoFile,
   File(Plain(<<>>, <<>>, <<Std(2, "AEST")>>), South),
   File(CetBlock, [Cet EXCEPT !.dst = UNCLOSED]), File(CetBlock, Standard), File(CetBlock, NoRules),
   File([CetBlock EXCEPT !.charcnt = TZ_MAX_CHARS], Cet),
   OldFile(Plain(Centuries, <<2, 1, 2, 1, 2, 1, 2, 1>>, CetTypes)),
   OldFile(Plain(Centuries, <<2, 1, 2, 3, 1, 1, 2, 1>>, Append(CetTypes, Std(2, "EET")))),
   File([CetBlock EXCEPT !.ats = <<@[1], @[3], @[2], @[4]>>], Cet),
   File([CetBlock EXCEPT !.ats = <<@[1], @[2], @[4], @[3]>>], Cet),
   OldFile([CetBlock EXCEPT !.types[4] = 3]), File([CetBlock EXCEPT !.ttis[1].isdst = 2], Cet),
   File([CetBlock EXCEPT !.ttis[1].abbr = OUTSIDE], Cet), File([CetBlock EXCEPT !.whole = FALSE], Cet),
   File([CetBlock EXCEPT !.stds = <<1>>], Cet), File([CetBlock EXCEPT !.gmts = <<1, 2>>], Cet),
   File([CetBlock EXCEPT !.stds = <<0, 1>>, !.gmts = <<0, 1>>], Cet),
   File([CetBlock EXCEPT !.ttis = <<>>], Cet)}

LeapBlock == [Plain(<<>>, <<>>, <<Std(0, "GMT")>>) EXCEPT !.lsis = <<lsinfo(30, 1), lsinfo(70, 2)>>]

(* Default rules, in the types of an American zone, with a time in UTC.    *)
NewYork == TzText("EST", Westward(1), "EDT", NONE, <<M(4, 5, 0, NONE), M(10, 5, 0, NONE)>>)
American ==
  OldFile([Plain(TwoYears(NewYork, 1970), <<1, 2, 1, 3>>,
                 <<Dst(0, "EDT"), Std(-1, "EST"), Std(-1, "EST")>>) EXCEPT !.gmts = <<0, 0, 1>>])
Eternal  == OldFile(Plain(Centuries, <<2, 1, 2, 1, 2, 1, 2, 1>>, CetTypes))

System(zone, rules, g) == [f \in {"zone", TZDEFAULT, TZDEFRULES, GMT} |->
  CASE f = "zone" -> zone [] f = TZDEFAULT -> CetFile [] f = TZDEFRULES -> rules [] f = GMT -> g]

Systems ==
  {System(zone, American, NoFile) : zone \in Files} \cup {System(CetFile, rules, OldFile(LeapBlock)) :
    rules \in {NoFile, American, Eternal, OldFile(LeapBlock)}} \cup {System(NoFile, Eternal, NoFile)}

Requests == {NULL, FAST, TzName("zone", Standard, TRUE)} \cup {TzName("zone", tz, FALSE) : tz \in Strings}

-----------------------------------------------------------------------------
Around(x, n) == (x - n) .. (x + n)

(* The switches of some years near and far, and the ends of the table.     *)
Years == {1970, 1971, 1972, 1976, 2000, 2100, 2372, 2377, 2379, 2771}
Switches(z) ==
  IF z.ats = <<>> THEN {0}
  ELSE Around(First(z), 1) \cup Around(Last(z), 1)
       \cup UNION {Around(Begins(tz, y), 1) \cup Around(Ends(tz, y), 1) : tz \in {Cet, Julian}, y \in Years}

TwoThreads == {Thread1, Thread2}
Readings   == {80}

ASSUME SourcesAssumption == SoundSources /\ ExtensibleSources
=============================================================================
