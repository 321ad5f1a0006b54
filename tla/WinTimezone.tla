---------------------------- MODULE WinTimezone ----------------------------
(***************************************************************************)
(* dt_timezone_lookup and dt_timezone_cleanup of src/src/win32/dt_win32.c: *)
(* a zone is read from the registry, its rules of single years by an       *)
(* enumeration of values that are called by their years.                   *)
(*                                                                         *)
(* The client is a careful one, and malloc does not fail.  Meanwhile the   *)
(* key that is open may be deleted: then every call for it fails.          *)
(***************************************************************************)
EXTENDS WinTime, SequencesExt

CONSTANTS
  Names,            \* what tzmap has for the names of the client: Windows names,
  NOT_MAPPED,       \* nothing,
  NO_ALIAS,         \* or aliases without a Windows name
  Registry,         \* what there is for each Windows name
  UNREADABLE,       \* a TZI value that cannot be had
  FIRST_ENTRY, LAST_ENTRY, EMPTY, TEXT, TOO_LONG,   \* value names that are no years
  YEARS_ARRAY_SEED,
  MaxLookups        \* bound: lookups that come to the registry

ASSUME RegistryAssumption ==
  /\ YEARS_ARRAY_SEED \in Nat \ {0} /\ MaxLookups \in Nat
  /\ \A name \in Names \ {NOT_MAPPED, NO_ALIAS} :
       LET tzi == Registry[name].TZI
       IN  tzi = UNREADABLE \/ tzi = TimeZoneInformation(tzi.Bias, tzi.DaylightBias,
                                                        tzi.DaylightDate, tzi.StandardDate)

VARIABLES
  timezone,      \* the dt_timezone_t of the client
  owned,         \* he has to clean it up
  heap,          \* how many blocks of each kind are not freed
  pc, native,    \* where the lookup is, and for which Windows name
  dwEnumIndex, yearValueName,
  lastYear,      \* wYear of createYearsArray
  yearsArray,    \* the array it fills
  gone,          \* the key that is open has been deleted
  lookups        \* of each outcome, for the properties only

enum_vars == <<dwEnumIndex, yearValueName, lastYear, yearsArray, gone>>
vars == <<timezone, owned, heap, pc, native, enum_vars, lookups>>

YEARS_ARRAY == [years |-> <<>>, size |-> 0]

(* Years are the only names sscanf finds a number in.                      *)
IsYear(valueName) == valueName \notin {FIRST_ENTRY, LAST_ENTRY, EMPTY, TEXT, TOO_LONG}

(* sscanf_s returns EOF for an empty name only: for a text it returns 0.   *)
Skipped(valueName) == valueName \in {FIRST_ENTRY, LAST_ENTRY, EMPTY}

Change(kind, n, h) == [h EXCEPT ![kind] = @ + n]

Outcome(kind) == lookups' = [lookups EXCEPT ![kind] = @ + 1]

-----------------------------------------------------------------------------
dt_timezone_lookup(name) ==
  /\ pc = "idle" /\ ~owned
  /\ \A kind \in DOMAIN lookups : lookups[kind] < MaxLookups
  /\ IF name \in {NOT_MAPPED, NO_ALIAS}
     THEN /\ timezone' = [timezone EXCEPT !.reg_tz_data = <<>>]
          /\ UNCHANGED <<heap, pc, native>>
     ELSE /\ timezone' = [dtzi |-> Utc, reg_tz_data |-> <<>>]
          /\ heap' = Change("dtzi", 1, Change("subkey", 1, heap))
          /\ native' = name /\ pc' = "name"
  /\ UNCHANGED <<owned, enum_vars, lookups>>

(* A value that cannot be had leaves the zeros it was set to.              *)
GetTziFromKey(tzi) == IF tzi = UNREADABLE THEN Utc ELSE tzi

(* A slip: the two dates change places.                                    *)
RegTziToDynamicTimeZoneInfo_Swapped(regtzi) ==
  TimeZoneInformation(regtzi.Bias, regtzi.DaylightBias, regtzi.StandardDate, regtzi.DaylightDate)

RegTziToDynamicTimeZoneInfo(regtzi) ==
  TimeZoneInformation(regtzi.Bias, regtzi.DaylightBias, regtzi.DaylightDate, regtzi.StandardDate)

Rules(tzi) == RegTziToDynamicTimeZoneInfo(GetTziFromKey(tzi))

(* A slip: the name of the key is not freed where a value is missing.      *)
ByName_KeepsSubkey ==
  /\ pc = "name"
  /\ IF Registry[native].complete
     THEN /\ timezone' = [timezone EXCEPT !.dtzi = Rules(Registry[native].TZI)]
          /\ heap' = Change("subkey", -1, Change("keyPath", 1, heap))
          /\ pc' = "open"
     ELSE /\ heap' = Change("dtzi", -1, heap)
          /\ pc' = "idle"
          /\ UNCHANGED timezone
  /\ UNCHANGED <<owned, native, enum_vars, lookups>>

(* GetTimeZoneInformationByName: without the key or one of the names the   *)
(* lookup fails, without the rules it does not.                            *)
ByName ==
  /\ pc = "name"
  /\ IF Registry[native].complete
     THEN /\ timezone' = [timezone EXCEPT !.dtzi = Rules(Registry[native].TZI)]
          /\ heap' = Change("subkey", -1, Change("keyPath", 1, heap))
          /\ pc' = "open"
     ELSE /\ heap' = Change("subkey", -1, Change("dtzi", -1, heap))
          /\ pc' = "idle"
          /\ UNCHANGED timezone
  /\ UNCHANGED <<owned, native, enum_vars, lookups>>

(* dt_timezone_read_registry.  keyPath is freed only where there is a key. *)
OpenDynamicDst ==
  /\ pc = "open"
  /\ \/ Registry[native].dynamic = "missing" /\ owned' = TRUE /\ pc' = "idle"
        /\ Outcome("missing") /\ UNCHANGED heap
     \/ Registry[native].dynamic = "denied" /\ heap' = Change("dtzi", -1, heap) /\ pc' = "idle"
        /\ Outcome("denied") /\ UNCHANGED owned
     \/ Registry[native].dynamic = "readable" /\ pc' = "enumerate" /\ UNCHANGED <<owned, heap, lookups>>
  /\ UNCHANGED <<timezone, native, enum_vars>>

-----------------------------------------------------------------------------
InsertYearToArray(year, array) ==
  IF year \in ToSet(array.years) THEN array
  ELSE [years |-> Append(array.years, year),
        size  |-> array.size + IF Len(array.years) >= array.size THEN YEARS_ARRAY_SEED ELSE 0]

(* A text leaves wYear as it is, and it is inserted all the same.          *)
Inserted(valueName) ==
  /\ lastYear' = IF IsYear(valueName) THEN valueName ELSE lastYear
  /\ yearsArray' = IF Skipped(valueName) THEN yearsArray ELSE InsertYearToArray(lastYear', yearsArray)
  /\ heap' = IF yearsArray.size = 0 /\ yearsArray'.size > 0 THEN Change("years", 1, heap) ELSE heap

Values == Registry[native].values

(* A slip: the index is not counted up past a name that is no year.        *)
NextValue_Stays ==
  /\ pc = "enumerate" /\ ~gone /\ dwEnumIndex < Len(Values)
  /\ dwEnumIndex' = dwEnumIndex + IF IsYear(Values[dwEnumIndex + 1]) THEN 1 ELSE 0
  /\ yearValueName' = Values[dwEnumIndex + 1]
  /\ Inserted(yearValueName')
  /\ UNCHANGED <<timezone, owned, pc, native, gone, lookups>>

(* A name that does not fit is an error, and the one before it stays.      *)
NextValue ==
  /\ pc = "enumerate" /\ ~gone /\ dwEnumIndex < Len(Values)
  /\ dwEnumIndex' = dwEnumIndex + 1
  /\ yearValueName' = IF Values[dwEnumIndex + 1] = TOO_LONG THEN yearValueName
                      ELSE Values[dwEnumIndex + 1]
  /\ Inserted(yearValueName')
  /\ UNCHANGED <<timezone, owned, pc, native, gone, lookups>>

(* Any error but that there are no more values, and the loop goes on.      *)
NoValue ==
  /\ pc = "enumerate" /\ gone
  /\ UNCHANGED vars

NoMoreValues ==
  /\ pc = "enumerate" /\ ~gone /\ dwEnumIndex = Len(Values)
  /\ Inserted(yearValueName)
  /\ pc' = "read"
  /\ UNCHANGED <<timezone, owned, native, dwEnumIndex, yearValueName, gone, lookups>>

-----------------------------------------------------------------------------
(* A year without a value has the zeros the table was set to.              *)
readYearTZDataFromRegistry(year) ==
  [year |-> year,
   data |-> IF year \in DOMAIN Registry[native].rules
            THEN GetTziFromKey(Registry[native].rules[year]) ELSE Utc]

(* The array is handed over by value: the caller's own is still empty.     *)
AfterCall(theirs, ours) == ours

ReadYears ==
  LET array == AfterCall(yearsArray, YEARS_ARRAY)
  IN  /\ pc = "read"
      /\ timezone' = [timezone EXCEPT !.reg_tz_data =
                        [i \in 1 .. Len(array.years) |-> readYearTZDataFromRegistry(array.years[i])]]
      /\ heap' = Change("data", 1, Change("keyPath", -1,
                        Change("years", IF array.size > 0 THEN -1 ELSE 0, heap)))
      /\ owned' = TRUE /\ pc' = "idle"
      /\ Outcome(IF yearsArray.size = 0 THEN "none" ELSE "years")
      /\ dwEnumIndex' = 0 /\ yearValueName' = EMPTY /\ lastYear' = 0 /\ yearsArray' = YEARS_ARRAY
      /\ UNCHANGED <<native, gone>>

(* A table of no size is not freed.                                        *)
dt_timezone_cleanup ==
  /\ pc = "idle" /\ owned
  /\ heap' = Change("dtzi", -1, IF timezone.reg_tz_data # <<>> THEN Change("data", -1, heap) ELSE heap)
  /\ timezone' = [timezone EXCEPT !.reg_tz_data = <<>>]
  /\ owned' = FALSE
  /\ UNCHANGED <<pc, native, enum_vars, lookups>>

KeyDeleted ==
  /\ pc = "enumerate" /\ ~gone
  /\ gone' = TRUE
  /\ UNCHANGED <<timezone, owned, heap, pc, native, dwEnumIndex, yearValueName, lastYear, yearsArray,
                 lookups>>

-----------------------------------------------------------------------------
Init ==
  /\ timezone = [dtzi |-> Utc, reg_tz_data |-> <<>>]
  /\ owned = FALSE
  /\ heap = [kind \in {"dtzi", "subkey", "keyPath", "years", "data"} |-> 0]
  /\ pc = "idle" /\ native = NO_ALIAS
  /\ dwEnumIndex = 0 /\ yearValueName = EMPTY /\ lastYear = 0
  /\ yearsArray = YEARS_ARRAY /\ gone = FALSE
  /\ lookups = [outcome \in {"missing", "denied", "none", "years"} |-> 0]

Step == ByName \/ OpenDynamicDst \/ NextValue \/ NoMoreValues \/ ReadYears

Next ==
  \/ \E name \in Names : dt_timezone_lookup(name)
  \/ Step \/ NoValue
  \/ dt_timezone_cleanup
  \/ KeyDeleted

(* A call that has begun goes on.                                          *)
Spec == Init /\ [][Next]_vars /\ WF_vars(Step)
=============================================================================
