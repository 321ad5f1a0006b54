------------------------------ MODULE GmtState ------------------------------
(***************************************************************************)
(* gmtload and gmtsub of src/src/unix/libtz/libtz.c.  gmtime and gmtime_r  *)
(* are called by several threads: one that finds gmt_is_set unset sets it  *)
(* and then loads the state that all of them read, without a lock.         *)
(*                                                                         *)
(* Of that state timesub reads the leap seconds: their number, which is    *)
(* written with the header, and their table, which is written later.       *)
(***************************************************************************)
EXTENDS TzString

CONSTANTS
  Threads,
  Times,               \* what the threads convert
  GMT, TZDEFRULES      \* names of files

ASSUME GmtAssumption == GMT # UNCLOSED

VARIABLES
  files,       \* the zone files there are
  gmt_is_set,
  gmtmem,      \* the number and the table of leap seconds, zero at first
  at,          \* where each thread is
  timep,       \* what it converts
  seen         \* the leap seconds timesub has found

gmt_vars == <<gmt_is_set, gmtmem, at, timep, seen>>

(* A file that is there may still not be read.                             *)
Readable(name) == {files[name], NoFile}

OrLastDitch(loaded, default) ==
  IF loaded.ok THEN loaded.sp ELSE tzparse(LastDitch(GMT), default, loaded.sp).sp

gmtload(file, default, sp) == OrLastDitch(tzload(file, default, sp), default)

(* What each of the threads loads: a file that one of them can read and    *)
(* another cannot is left out here.                                        *)
GmtLeaps == gmtload(files[GMT], files[TZDEFRULES], Memory).lsis

-----------------------------------------------------------------------------
GmtInit ==
  /\ gmt_is_set = FALSE
  /\ gmtmem = [leapcnt |-> 0, lsis |-> <<>>]
  /\ at = [t \in Threads |-> "out"]
  /\ timep = [t \in Threads |-> 0]
  /\ seen = [t \in Threads |-> <<>>]

Goes(t, from, to) == at[t] = from /\ at' = [at EXCEPT ![t] = to]

gmtsub(t, x) ==
  /\ Goes(t, "out", IF gmt_is_set THEN "convert" ELSE "set")
  /\ timep' = [timep EXCEPT ![t] = x]
  /\ UNCHANGED <<gmt_is_set, gmtmem, seen>>

(* A slip: whoever sets the flag relies on another to load.                *)
SetFlag_NoLoad(t) ==
  /\ Goes(t, "set", IF gmt_is_set THEN "load" ELSE "convert")
  /\ gmt_is_set' = TRUE
  /\ UNCHANGED <<gmtmem, timep, seen>>

SetFlag(t) ==
  /\ Goes(t, "set", "load")
  /\ gmt_is_set' = TRUE
  /\ UNCHANGED <<gmtmem, timep, seen>>

LoadCount(t) ==
  /\ Goes(t, "load", "leaps")
  /\ gmtmem' = [gmtmem EXCEPT !.leapcnt = Len(GmtLeaps)]
  /\ UNCHANGED <<gmt_is_set, timep, seen>>

LoadTable(t) ==
  /\ Goes(t, "leaps", "convert")
  /\ gmtmem' = [leapcnt |-> Len(GmtLeaps), lsis |-> GmtLeaps]
  /\ UNCHANGED <<gmt_is_set, timep, seen>>

(* Where nothing is written yet, leap seconds at the epoch that correct    *)
(* nothing.                                                                *)
InMemory ==
  [i \in 1 .. gmtmem.leapcnt |->
     IF i <= Len(gmtmem.lsis) THEN gmtmem.lsis[i] ELSE lsinfo(0, 0)]

Convert(t) ==
  /\ Goes(t, "convert", "done")
  /\ seen' = [seen EXCEPT ![t] = InMemory]
  /\ UNCHANGED <<gmt_is_set, gmtmem, timep>>

Return(t) ==
  /\ Goes(t, "done", "out")
  /\ timep' = [timep EXCEPT ![t] = 0]
  /\ seen' = [seen EXCEPT ![t] = <<>>]
  /\ UNCHANGED <<gmt_is_set, gmtmem>>

GmtStep(t) == SetFlag(t) \/ LoadCount(t) \/ LoadTable(t) \/ Convert(t) \/ Return(t)
=============================================================================
