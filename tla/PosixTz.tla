------------------------------ MODULE PosixTz ------------------------------
(***************************************************************************)
(* localtime_tz and mktime_tz of src/src/dt.c: localtime and mktime with   *)
(* the name of a time zone.  Each looks the zone up, converts by way of a  *)
(* dt_representation_t, and cleans the zone up.  The client reads a clock  *)
(* with the one, works on the struct tm, and passes it to the other.       *)
(*                                                                         *)
(* NULL arguments, refused at once, are left out, and so are tm_wday and   *)
(* tm_yday, which the one sets as DtCalendar says and the other ignores.   *)
(***************************************************************************)
EXTENDS DtConversion

CONSTANTS
  UNKNOWN,     \* a name dt_timezone_lookup does not find
  PosixEdits   \* what the client adds to the fields of a struct tm

ASSUME PosixAssumption ==
  \A e \in PosixEdits : {e.year, e.mon, e.mday, e.hour, e.min, e.sec} \subseteq Int

VARIABLES
  call,     \* where the client is, "none" outside these two functions
  held,     \* the time zones looked up and not cleaned up
  local,    \* the client's struct tm
  answer    \* what mktime_tz returned

posix_vars == <<call, held, local, answer>>
everything == <<all_vars, posix_vars>>

Names == Zones \cup {UNKNOWN}

-----------------------------------------------------------------------------
Refused(next) == pc' = "failed" /\ call' = next /\ UNCHANGED <<local, answer>>

(* -1 is refused before, a time before the epoch after the lookup.         *)
localtime_tz(name, x) ==
  /\ pc = "idle" /\ call = "none"
  /\ instant' = x
  /\ IF x = WRONG \/ name = UNKNOWN
     THEN Refused("null") /\ UNCHANGED <<held, tz>>
     ELSE /\ held' = held \cup {name}
          /\ tz' = name
          /\ call' = "localtime_tz"
          /\ UNCHANGED <<pc, local, answer>>
  /\ UNCHANGED <<sp, tm, asked, pair, norm, search_vars, okay, result, rep, first, status>>

(* Slips: a time before the epoch, or fields that are no date, are refused *)
(* without cleaning up.                                                    *)
Released_Late == IF instant < 0 THEN held ELSE held \ {tz}

Released_NoDate == IF call = "looked_up" THEN held ELSE held \ {tz}

Released == held \ {tz}

(* tm_isdst is always -1, "not known".                                     *)
LocaltimeReturns ==
  /\ call = "localtime_tz"
  /\ held' = Released
  /\ IF instant < 0
     THEN /\ Refused("null")
          /\ UNCHANGED <<sp, instant, tm, asked, pair, norm, search_vars, okay, result, rep>>
     ELSE /\ tz_localtime_r(tz, instant)
          /\ UNCHANGED answer
          /\ IF pc' = "failed"
             THEN call' = "null" /\ UNCHANGED <<rep, local>>
             ELSE /\ rep' = dt_tm_to_representation(tm', 0)
                  /\ local' = dt_representation_to_tm(rep')
                  /\ call' = "read"
  /\ UNCHANGED <<tz, first, status>>

-----------------------------------------------------------------------------
UShort(x) == x % (USHRT_MAX + 1)

(* A representation has unsigned shorts; tm_isdst is lost.                 *)
Shortened(b) ==
  [year |-> 1900 + b.year, month |-> UShort(b.mon + 1), day |-> UShort(b.mday),
   hour |-> UShort(b.hour), minute |-> UShort(b.min), second |-> UShort(b.sec),
   nano_second |-> 0]

Answered(x) == pc' = "converted" /\ call' = "answered" /\ answer' = x

(* A slip: the fields are not validated.                                   *)
IsDate_Always(r) == TRUE

IsDate(r) == dt_validate_representation(r)

(* The client passes its struct tm on with the name of the zone it is of,  *)
(* or with a name that is not found.                                       *)
mktime_tz(name, b) ==
  /\ pc = "read" /\ call = "read"
  /\ local' = b
  /\ tz' = name
  /\ IF name = UNKNOWN
     THEN Answered(WRONG) /\ UNCHANGED held
     ELSE call' = "looked_up" /\ held' = held \cup {name} /\ UNCHANGED <<pc, answer>>
  /\ UNCHANGED <<sp, instant, tm, asked, pair, norm, search_vars, okay, result, rep, first, status>>

(* The conversion and, unless the fields are refused, the start of         *)
(* tz_mktime.                                                              *)
MktimeTzConverts ==
  /\ pc = "read" /\ call = "looked_up"
  /\ rep' = Shortened(local)
  /\ IF IsDate(rep')
     THEN /\ tz_mktime(dt_representation_to_tm(rep'))
          /\ call' = "mktime_tz"
          /\ UNCHANGED <<held, answer>>
     ELSE /\ held' = Released
          /\ Answered(WRONG)
          /\ UNCHANGED <<sp, instant, tm, asked, pair, norm, search_vars, okay, result>>
  /\ UNCHANGED <<tz, first, status, local>>

(* dt_representation_to_timestamp and dt_timestamp_to_posix_time pass on   *)
(* what tz_mktime found, or -1 if that is what it returned.                *)
MktimeTzReturns ==
  /\ call = "mktime_tz" /\ pc = "done"
  /\ Answered(result)
  /\ held' = Released
  /\ UNCHANGED <<sp, instant, tm, asked, pair, norm, search_vars, okay, result, dt_vars, local>>

-----------------------------------------------------------------------------
PosixInit ==
  /\ DtInit
  /\ call = "none" /\ held = {} /\ local = ZeroTm /\ answer = 0

PosixNext ==
  \/ call = "none" /\ DtNext /\ UNCHANGED posix_vars
  \/ pc = "idle" /\ \E name \in Names, x \in Instants : localtime_tz(name, x)
  \/ LocaltimeReturns
  \/ pc = "read" /\ \E name \in {tz, UNKNOWN}, e \in PosixEdits, h \in Hints :
                     mktime_tz(name, [Edited(local, e) EXCEPT !.isdst = h])
  \/ MktimeTzConverts
  \/ call = "mktime_tz" /\ MktimeStep /\ UNCHANGED <<dt_vars, posix_vars>>
  \/ MktimeTzReturns
  \/ call # "none" /\ Forget /\ call' = "none" /\ local' = ZeroTm /\ answer' = 0 /\ UNCHANGED held

PosixSpec == PosixInit /\ [][PosixNext]_everything
=============================================================================
