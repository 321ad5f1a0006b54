------------------------------ MODULE WinZones ------------------------------
(***************************************************************************)
(* What the lookups and conversions of a Windows build are good for.       *)
(***************************************************************************)
EXTENDS WinTimezone

CONSTANTS Representations, Clocks   \* what is converted, and instants in ticks

Longs == -LONG_MAX - 1 .. LONG_MAX

(* dt.h: cleanup "frees resources connected with timezone object".  So it  *)
(* does with the rules, and the lookup with the name of the key, once and  *)
(* whichever calls fail.  Never more is left than one path for each lookup *)
(* without a readable Dynamic DST key, and for the others a table and, if  *)
(* it lists a year, the years; and nothing is freed twice.                 *)
NothingMoreLeaks ==
  pc = "idle" =>
    /\ heap["dtzi"] = IF owned THEN 1 ELSE 0
    /\ heap["subkey"] = 0
    /\ heap["keyPath"] \in 0 .. lookups["missing"] + lookups["denied"]
    /\ heap["data"] \in 0 .. lookups["none"] + lookups["years"]
    /\ heap["years"] \in 0 .. lookups["years"]

(* A lookup comes to its end, unless the key it enumerates is deleted: all *)
(* errors but the one at the end of the values are taken for progress, and *)
(* then it never does.                                                     *)
LookupEnds ==
  /\ pc # "idle" ~> pc = "idle" \/ gone
  /\ [](gone => pc = "enumerate")

(* The years with rules of their own that the registry has for a zone.     *)
YearsOf(name) ==
  IF Registry[name].dynamic = "readable" THEN {v \in ToSet(Registry[name].values) : IsYear(v)} ELSE {}

(* A lookup that succeeds leaves the rules of the zone that was asked for, *)
(* and where the registry has none for single years they are those of      *)
(* every year (testTimeZoneWithoutHistoricalLawInfo, posixcase.cpp:139).   *)
RulesOfTheZone ==
  owned /\ Registry[native].TZI # UNREADABLE /\ YearsOf(native) = {} =>
    \A year \in FIRST_YEAR .. FIRST_YEAR + 600 :
      GetTimeZoneInformationForYearLower(year, timezone) = Registry[native].TZI

(* Where it has some, each of these years has its own: what a test asks    *)
(* for, with the Windows name of Moscow in 2009, 2011 and 2013             *)
(* (historic_tz_check, posixcase.cpp:94).                                  *)
YearsHaveTheirRules ==
  owned => \A year \in YearsOf(native) :
    GetTimeZoneInformationForYearLower(year, timezone) = Registry[native].rules[year]

-----------------------------------------------------------------------------
Shows(zone, x, r) == dt_timestamp_to_representation(x, zone) = OK(r)

(* A representation with an instant within a long gets one that shows it,  *)
(* in the hours that come twice too; but for the second before 1970.       *)
(* Nothing is claimed of the zone of the system if that has daylight       *)
(* saving time: dt.h:228 and a test (dt_case.cpp:682) promise it, and      *)
(* every conversion is refused (dt_win32.c:249, :308).                     *)
InstantRightIfAny ==
  owned => \A zone \in {HERE, timezone}, r \in Representations :
    \A answer \in dt_representation_to_timestamp(r, zone) :
      /\ zone # HERE \/ ~HasDaylight(LocalRules)
      /\ \E x \in Longs : Shows(zone, x, r)
      /\ ~Shows(zone, -1, r)
      => answer.status = "DT_OK" /\ Shows(zone, answer.value, r)

(***************************************************************************)
(* What that takes: a long that lies within the ticks and the years of     *)
(* Windows, as one of 32 bits does; biases that are numbers; and no hour   *)
(* that comes twice and is cut in two by an end of a long.                 *)
(***************************************************************************)
EPOCH == (1970 - FIRST_YEAR) * YEAR

WideTicks ==
  /\ LONG_MAX < EPOCH
  /\ (LONG_MAX + EPOCH) * TICKS < UINT64 \div 2
  /\ wYear(LONG_MAX + EPOCH) <= MAX_YEAR /\ MAX_YEAR < WORD

AllRules ==
  {LocalRules} \cup {GetTziFromKey(Registry[name].TZI) : name \in Names \ {NOT_MAPPED, NO_ALIAS}}

UsualRules ==
  \A tzi \in AllRules :
    /\ tzi.Bias \in Int /\ tzi.DaylightBias \in Int
    /\ \A r \in Representations :
         LET local == Seconds([wYear |-> r.year, rest |-> r.rest])
             taken == TzSpecificLocalTimeToSystemTime(tzi, local)
         IN  \A s, u \in taken :
               SystemTimeToTzSpecificLocalTime(tzi, s) = local /\ s - EPOCH \in Longs
                 => u - EPOCH \in Longs

(* dt.h: dt_now "returns a current timestamp", one that represents what    *)
(* the clock of the system shows.                                          *)
NowIsNow ==
  owned => \A ft \in Clocks :
    \A r \in {Representation(wYear(s), s % YEAR) :
                s \in {SystemTimeToTzSpecificLocalTime(timezone.dtzi, ft \div TICKS)}} :
      Shows(timezone, dt_now(ft).value, r)
=============================================================================
