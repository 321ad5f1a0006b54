---------------------------- MODULE DtConversion ----------------------------
(***************************************************************************)
(* dt_timestamp_to_representation and dt_representation_to_timestamp of    *)
(* src/src/unix/dt_unix.c, with the conversions between representation and *)
(* struct tm of src/src/dt.c, on top of tz_localtime_r and tz_mktime.  The *)
(* client converts a timestamp, works on the fields it gets, and converts  *)
(* them back.                                                              *)
(*                                                                         *)
(* The C library's localtime_r and mktime, which are used when the time    *)
(* zone is NULL, are external: the one reads a clock like any other, the   *)
(* other may answer or not.  NULL pointers for the results, refused at     *)
(* once, are left out.                                                     *)
(***************************************************************************)
EXTENDS LibTzMktime, DtDates

CONSTANTS
  NULL,          \* no time zone: the system's
  NO_STATE,      \* a dt_timezone_t without a state
  SystemZone,    \* the zone of the system
  NanoSeconds,   \* nano_second values of the timestamps
  USHRT_MAX

ASSUME ConversionAssumption ==
  /\ SystemZone \in Zones
  /\ {NULL, NO_STATE} \cap Zones = {}
  /\ NanoSeconds \subseteq 0 .. MAX_NANOSECONDS
  /\ USHRT_MAX \in Nat

VARIABLES
  tz,        \* the time zone argument
  rep,       \* the client's dt_representation_t
  first,     \* *first_timestamp
  status     \* the dt_status_t of the last call

dt_vars == <<tz, rep, first, status>>
all_vars == <<vars, dt_vars>>

TimeZones == Zones \cup {NULL, NO_STATE}

Representation ==
  [year : INT_MIN .. INT_MAX, month : 0 .. USHRT_MAX, day : 0 .. USHRT_MAX, hour : 0 .. USHRT_MAX,
   minute : 0 .. USHRT_MAX, second : 0 .. USHRT_MAX, nano_second : Nat]

ZeroRep ==
  [year |-> 0, month |-> 0, day |-> 0, hour |-> 0, minute |-> 0, second |-> 0, nano_second |-> 0]
ZeroTimestamp == [second |-> 0, nano_second |-> 0]

-----------------------------------------------------------------------------
(* Slips: months of struct tm counted from 1; counted down.                *)
dt_representation_to_tm_MonthsFromOne(r) ==
  [year |-> r.year - 1900, mon |-> r.month, mday |-> r.day, hour |-> r.hour,
   min |-> r.minute, sec |-> r.second, isdst |-> -1, wday |-> 0, yday |-> 0]

dt_tm_to_representation_MonthsBack(b, nano) ==
  [year |-> 1900 + b.year, month |-> b.mon - 1, day |-> b.mday, hour |-> b.hour,
   minute |-> b.min, second |-> b.sec, nano_second |-> nano]

(* Days of the week and the year, set for valid dates, are not used.       *)
dt_representation_to_tm(r) ==
  [year |-> r.year - 1900, mon |-> r.month - 1, mday |-> r.day, hour |-> r.hour,
   min |-> r.minute, sec |-> r.second, isdst |-> -1, wday |-> 0, yday |-> 0]

dt_tm_to_representation(b, nano) ==
  [year |-> 1900 + b.year, month |-> b.mon + 1, day |-> b.mday, hour |-> b.hour,
   minute |-> b.min, second |-> b.sec, nano_second |-> nano]

-----------------------------------------------------------------------------
(* localtime_r for the system's zone, tz_localtime_r for another.          *)
ZoneOf(z) == IF z = NULL THEN SystemZone ELSE z

dt_timestamp_to_representation(z, second, nano) ==
  /\ tz' = z
  /\ IF z = NO_STATE
     THEN /\ pc = "idle"
          /\ pc' = "failed"
          /\ status' = "DT_INVALID_ARGUMENT"
          /\ UNCHANGED <<sp, instant, tm, asked, pair, norm, search_vars, okay, result, rep>>
     ELSE /\ tz_localtime_r(ZoneOf(z), second)
          /\ IF pc' = "read"
             THEN rep' = dt_tm_to_representation(tm', nano) /\ status' = "DT_OK"
             ELSE /\ status' = IF z = NULL THEN "DT_SYSTEM_CALL_ERROR" ELSE "DT_INVALID_ARGUMENT"
                  /\ UNCHANGED rep
  /\ UNCHANGED first

(* The client changes the fields, which are unsigned shorts but the year.  *)
EditedRep(r, e) ==
  [r EXCEPT !.year = @ + e.year, !.month = @ + e.mon, !.day = @ + e.mday,
            !.hour = @ + e.hour, !.minute = @ + e.min, !.second = @ + e.sec]

(* tz_mktime starts.                                                       *)
dt_representation_to_timestamp(r) ==
  /\ r \in Representation
  /\ tz # NULL
  /\ tz_mktime(dt_representation_to_tm(r))
  /\ rep' = r
  /\ UNCHANGED <<tz, first, status>>

NoTimestamp(s) == status' = s /\ UNCHANGED first
Timestamp(x)   == status' = "DT_OK" /\ first' = [second |-> x, nano_second |-> rep'.nano_second]

(* Slips: every negative time_t is an error; none is.                      *)
ZoneAnswers_PositiveOnly ==
  /\ pc = "done"
  /\ pc' = "converted"
  /\ UNCHANGED rep
  /\ IF result < 0 THEN NoTimestamp("DT_INVALID_ARGUMENT") ELSE Timestamp(result)
  /\ UNCHANGED <<sp, instant, tm, asked, pair, norm, search_vars, okay, result, tz>>

ZoneAnswers_Unchecked ==
  /\ pc = "done"
  /\ pc' = "converted"
  /\ UNCHANGED rep
  /\ Timestamp(result)
  /\ UNCHANGED <<sp, instant, tm, asked, pair, norm, search_vars, okay, result, tz>>

(* tz_mktime has returned.                                                 *)
ZoneAnswers ==
  /\ pc = "done"
  /\ pc' = "converted"
  /\ UNCHANGED rep
  /\ IF result = WRONG THEN NoTimestamp("DT_INVALID_ARGUMENT") ELSE Timestamp(result)
  /\ UNCHANGED <<sp, instant, tm, asked, pair, norm, search_vars, okay, result, tz>>

(* A zone object without a state, after one that has been used.            *)
StateMissing ==
  /\ pc = "read"
  /\ pc' = "converted"
  /\ tz' = NO_STATE
  /\ NoTimestamp("DT_INVALID_ARGUMENT")
  /\ UNCHANGED <<sp, instant, tm, asked, pair, norm, search_vars, okay, result, rep>>

(* mktime of the C library finds something or does not.                    *)
LibcMktime == {instant, WRONG}

SystemAnswers(r, x) ==
  /\ pc = "read" /\ tz = NULL
  /\ r \in Representation
  /\ x \in LibcMktime
  /\ rep' = r
  /\ pc' = "converted"
  /\ IF x = WRONG THEN NoTimestamp("DT_SYSTEM_CALL_ERROR") ELSE Timestamp(x)
  /\ UNCHANGED <<sp, instant, tm, asked, pair, norm, search_vars, okay, result, tz>>

Forget ==
  /\ pc \in {"failed", "converted"}
  /\ tz' = NULL /\ rep' = ZeroRep /\ first' = ZeroTimestamp /\ status' = "DT_OK"
  /\ sp' = CHOOSE z \in Zones : TRUE
  /\ tm' = ZeroTm /\ asked' = ZeroTm /\ yourtm' = ZeroTm
  /\ instant' = 0 /\ result' = 0 /\ saved' = 0 /\ lo' = 0 /\ hi' = 0
  /\ t' = 0 /\ mytm' = Null(ZeroTm)
  /\ pair' = FIRST /\ norm' = FALSE /\ okay' = FALSE
  /\ pc' = "idle"

-----------------------------------------------------------------------------
DtInit ==
  /\ Init
  /\ tz = NULL /\ rep = ZeroRep /\ first = ZeroTimestamp /\ status = "DT_OK"

Represent ==
  /\ pc = "idle"
  /\ \E z \in TimeZones, x \in Instants, n \in NanoSeconds : dt_timestamp_to_representation(z, x, n)

ConvertBack ==
  /\ pc = "read"
  /\ \E e \in Edits : \/ dt_representation_to_timestamp(EditedRep(rep, e))
                    \/ \E x \in LibcMktime : SystemAnswers(EditedRep(rep, e), x)

DtNext ==
  \/ Represent
  \/ ConvertBack
  \/ MktimeStep /\ UNCHANGED dt_vars
  \/ ZoneAnswers
  \/ StateMissing
  \/ Forget

DtSpec == DtInit /\ [][DtNext]_all_vars
=============================================================================
