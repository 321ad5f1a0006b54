----------------------------- MODULE Conversion -----------------------------
(***************************************************************************)
(* The properties of DtConversion and of PosixTz, with the reference of    *)
(* CivilTime.                                                              *)
(***************************************************************************)
EXTENDS PosixTz, LocalTime

Converted == call = "none" /\ pc = "converted" /\ tz \notin {NULL, NO_STATE}

Request == dt_representation_to_tm(rep)

Fields(r) == <<r.year, r.month, r.day, r.hour, r.minute, r.second>>

Shown(x) == dt_tm_to_representation(localsub(sp, x, ZeroTm).tm, rep.nano_second)

-----------------------------------------------------------------------------
(***************************************************************************)
(* A representation that is a time in the zone is converted, whichever of  *)
(* two layers could object to it, unless the instant may be the one whose  *)
(* number, -1, is the error code of tz_mktime.                             *)
(***************************************************************************)
ExistingConverted ==
  LET there == InstantsOf(sp, Request)
  IN  Converted /\ there # {} /\ WRONG \notin there => status = "DT_OK"

(***************************************************************************)
(* A time the clock skips is an error and leaves the timestamp alone: what *)
(* a test asks for (src/test/dt_case.cpp:1071).                            *)
(***************************************************************************)
SkippedIsError ==
  Converted /\ InstantsOf(sp, Request) = {} =>
    status = "DT_INVALID_ARGUMENT" /\ first = ZeroTimestamp

Gregorian(r) ==
  r.year > 1582 \/ (r.year = 1582 /\ (r.month > 10 \/ (r.month = 10 /\ r.day >= 15)))

(***************************************************************************)
(* Back and forth: a valid representation from the Gregorian reform on     *)
(* comes back the same from the timestamp it is converted to, nanoseconds  *)
(* included.  (Hours, minutes and seconds as far as the clock shows them.) *)
(***************************************************************************)
BackAndForth ==
  Converted /\ status = "DT_OK" /\ Gregorian(rep)
  /\ dt_validate_representation(rep)
  /\ rep.hour < HOURSPERDAY /\ rep.minute < MINSPERHOUR /\ rep.second < SECSPERMIN =>
    /\ Fields(Shown(first.second)) = Fields(rep)
    /\ first.nano_second = rep.nano_second

(***************************************************************************)
(* The two calendars agree since the reform: what dt_timestamp_to_repre-   *)
(* sentation computes with libtz is valid for dt_validate_representation,  *)
(* leap days and month ends included.                                      *)
(***************************************************************************)
ValidSinceReform ==
  pc = "read" /\ Gregorian(rep) => dt_validate_representation(rep)

-----------------------------------------------------------------------------
(***************************************************************************)
(* localtime_tz and mktime_tz clean up the zone they looked up, on every   *)
(* path out of them: also for a time before the epoch, a struct tm that is *)
(* no date, and a time the clock skips.  Between the lookup and each of    *)
(* these ways out the zone is held.                                        *)
(***************************************************************************)
ZonesReleased == call \in {"none", "null", "read", "answered"} => held = {}

InShorts(b) ==
  /\ b.mon + 1 \in 0 .. USHRT_MAX /\ b.mday \in 0 .. USHRT_MAX
  /\ b.hour \in 0 .. USHRT_MAX /\ b.min \in 0 .. USHRT_MAX /\ b.sec \in 0 .. USHRT_MAX

(***************************************************************************)
(* mktime_tz answers with an instant at which the clock shows the struct   *)
(* tm, if there is one, and with -1 if there is none, if the fields are not *)
(* those of a date or if the zone is not found; whatever tm_isdst says.  So *)
(* a struct tm that localtime_tz made is taken back, in the hour that comes *)
(* twice too.  The fields are unsigned shorts on the way: one that is none *)
(* may be taken for another.  (Seconds in the minute, which is shorter     *)
(* here.)                                                                  *)
(***************************************************************************)
LocalAnswered ==
  call = "answered" /\ InShorts(local) /\ local.sec < SECSPERMIN =>
    LET there == InstantsOf(sp, local)
        date  == dt_validate_representation(
                   [rep EXCEPT !.year = 1900 + local.year, !.month = local.mon + 1, !.day = local.mday])
    IN  IF tz # UNKNOWN /\ date /\ there \ {WRONG} # {} THEN answer \in there ELSE answer = WRONG
=============================================================================
