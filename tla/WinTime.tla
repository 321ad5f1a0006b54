------------------------------ MODULE WinTime ------------------------------
(***************************************************************************)
(* Instants, clocks and zones of src/src/win32/dt_win32.c, and what the    *)
(* Windows API does for it.                                                *)
(*                                                                         *)
(* Windows counts ticks from 1601, the library seconds from 1970, in a     *)
(* long of 32 bits.  A year is scaled down to YEAR seconds and has no      *)
(* months: a SYSTEMTIME is a wYear of 16 bits and a second of that year,   *)
(* kept as the seconds from 1601 where it is a valid one.                  *)
(***************************************************************************)
EXTENDS CInts, Sequences, FiniteSets

CONSTANTS
  YEAR, TICKS,       \* seconds of a year, ticks of a second
  UINT64, LONG_MAX,  \* the number of values of the one, the last of the other
  MAX_YEAR,          \* the last year of a SYSTEMTIME that is valid
  NEVER,             \* the date of a zone without daylight saving time
  HERE, LocalRules   \* NULL for a dt_timezone_t, and the zone of the system

ASSUME WinAssumption ==
  /\ YEAR \in Nat \ {0} /\ TICKS \in Nat \ {0}
  /\ UINT64 \in Nat \ {0} /\ LONG_MAX \in Nat
  /\ MAX_YEAR \in Nat

WORD == 65536
FIRST_YEAR == 1601
JAN1970 == (1970 - FIRST_YEAR) * YEAR * TICKS

CastLong(x) == ((x + LONG_MAX + 1) % (2 * (LONG_MAX + 1))) - LONG_MAX - 1

wYear(s) == FIRST_YEAR + s \div YEAR

Representation(year, rest) == [year |-> year, rest |-> rest]
OK(value)      == [status |-> "DT_OK", value |-> value]
Refuse(status) == [status |-> status]

-----------------------------------------------------------------------------
(* Ticks from 1601 to seconds: dt_now does not go on to 1970.              *)
dt_filetime_to_timestamp(ft) == CastLong(ft \div TICKS)

dt_now(ft) == OK(dt_filetime_to_timestamp(ft))

dt_posix_time_to_timestamp(time) ==
  IF time = -1 THEN Refuse("DT_INVALID_ARGUMENT") ELSE OK(CastLong(time))

UnixTimeToFileTime(t) == (t * TICKS + JAN1970) % UINT64

(* A slip: the difference is taken without a sign.                         *)
SystemTimeToUnixTime_Unsigned(s) == ((s * TICKS - JAN1970) % UINT64) \div TICKS

SystemTimeToUnixTime(s) == CDiv(s * TICKS - JAN1970, TICKS)

(* FileTimeToSystemTime takes the ticks for a number with a sign.          *)
UnixTimeToSystemTime(t) ==
  IF UnixTimeToFileTime(t) < UINT64 \div 2
  THEN OK(UnixTimeToFileTime(t) \div TICKS)
  ELSE Refuse("EXIT_FAILURE")

TmFromSystemTime(s) == [tm_year |-> wYear(s) - 1900, rest |-> s % YEAR]

(* A year that has more than 16 bits loses those.                          *)
SystemTimeFromTm(tm) == [wYear |-> (tm.tm_year + 1900) % WORD, rest |-> tm.rest]

IsSystemTime(st) == FIRST_YEAR <= st.wYear /\ st.wYear <= MAX_YEAR
Seconds(st)      == (st.wYear - FIRST_YEAR) * YEAR + st.rest

-----------------------------------------------------------------------------
(***************************************************************************)
(* A zone as Windows knows it: daylight saving time begins and ends at two *)
(* dates, each by the clocks that are in use before it.                    *)
(***************************************************************************)
TimeZoneInformation(Bias, DaylightBias, DaylightDate, StandardDate) ==
  [Bias |-> Bias, DaylightBias |-> DaylightBias, DaylightDate |-> DaylightDate,
   StandardDate |-> StandardDate]

Utc == TimeZoneInformation(0, 0, NEVER, NEVER)

HasDaylight(tzi) == tzi.DaylightDate # NEVER

IsDaylight(tzi, s) ==
  LET date == (s - tzi.Bias) % YEAR
      end  == tzi.StandardDate + tzi.DaylightBias
  IN  /\ HasDaylight(tzi)
      /\ IF tzi.DaylightDate < end THEN tzi.DaylightDate <= date /\ date < end
         ELSE tzi.DaylightDate <= date \/ date < end

SystemTimeToTzSpecificLocalTime(tzi, s) ==
  s - tzi.Bias - IF IsDaylight(tzi, s) THEN tzi.DaylightBias ELSE 0

(* The instants a local time may be taken for: of those at which a clock   *)
(* shows it any one, and if there is none either reading.                  *)
TzSpecificLocalTimeToSystemTime(tzi, local) ==
  LET readings == {local + tzi.Bias, local + tzi.Bias + tzi.DaylightBias}
      right    == {s \in readings : SystemTimeToTzSpecificLocalTime(tzi, s) = local}
  IN  IF right = {} THEN readings ELSE right

(* TIME_ZONE_ID_UNKNOWN, or else STANDARD or DAYLIGHT.                     *)
GetTimeZoneInformation == IF HasDaylight(LocalRules) THEN {1, 2} ELSE {0}

-----------------------------------------------------------------------------
(* The rules of the latest year with some that is not after this one, or   *)
(* else of the earliest; the years are in order.                           *)
GetTimeZoneInformationForYearLower(year, timezone) ==
  LET data  == timezone.reg_tz_data
      until == Cardinality({i \in 1 .. Len(data) : data[i].year <= year})
  IN  IF data = <<>> THEN timezone.dtzi ELSE data[IF until = 0 THEN 1 ELSE until].data

RulesOf(timezone, year) ==
  IF timezone = HERE THEN LocalRules ELSE GetTimeZoneInformationForYearLower(year, timezone)

Unknown(timezone) == timezone = HERE /\ GetTimeZoneInformation # {0}

(* The rules are those of the year in Greenwich ...                        *)
dt_timestamp_to_representation(second, timezone) ==
  LET utc   == UnixTimeToSystemTime(second)
      local == SystemTimeToTzSpecificLocalTime(RulesOf(timezone, wYear(utc.value)), utc.value)
      tm    == TmFromSystemTime(local)
  IN  IF Unknown(timezone) THEN Refuse("DT_TIMEZONE_NOT_FOUND")
      ELSE IF utc.status # "DT_OK" \/ local < 0 \/ wYear(local) > MAX_YEAR
      THEN Refuse("DT_INVALID_ARGUMENT")
      ELSE OK(Representation(1900 + tm.tm_year, tm.rest))

(* ... and here those of the year in the zone.                             *)
dt_representation_to_timestamp(representation, timezone) ==
  LET tm      == [tm_year |-> representation.year - 1900, rest |-> representation.rest]
      local   == SystemTimeFromTm(tm)
      instant == TzSpecificLocalTimeToSystemTime(RulesOf(timezone, local.wYear), Seconds(local))
  IN  IF Unknown(timezone) \/ (timezone # HERE /\ local.wYear < FIRST_YEAR)
      THEN {Refuse("DT_TIMEZONE_NOT_FOUND")}
      ELSE IF ~IsSystemTime(local) THEN {Refuse("DT_INVALID_ARGUMENT")}
      ELSE {IF 0 <= s /\ wYear(s) <= MAX_YEAR
            THEN dt_posix_time_to_timestamp(SystemTimeToUnixTime(s))
            ELSE Refuse("DT_INVALID_ARGUMENT") : s \in instant}
=============================================================================
