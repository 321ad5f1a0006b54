------------------------------ MODULE TzAlloc ------------------------------
(***************************************************************************)
(* tz_alloc of src/src/unix/libtz/libtz.c: where a struct state comes from *)
(* when zone files may be missing, unreadable or refused.  One object is   *)
(* filled by up to three attempts, one after the other.                    *)
(*                                                                         *)
(* A name is what there is to it: the file it leads to, the TZ string it   *)
(* is otherwise, and whether a colon comes first.  tz_alloc writes nothing *)
(* but the object it has allocated, so that its steps commute with those   *)
(* of gmtsub: either the one or the other is at work here.                 *)
(***************************************************************************)
EXTENDS GmtState

CONSTANTS
  NULL, FAST,          \* no name, and the empty one
  TZDEFAULT,
  Names,               \* what the client asks for, these two among them
  FileSystems          \* what files may hold

ASSUME FilesAssumption ==
  \A fs \in FileSystems, f \in {GMT, TZDEFRULES} :
    fs[f] = NoFile \/ fs[f].blocks[Len(fs[f].blocks)].lsis \in Seq([trans : Int, corr : Int])

ASSUME RequestAssumption == NULL # FAST

VARIABLES
  pc,       \* "idle", the attempt that comes next, or "done"
  name,
  sp,       \* the object, NULL if there is none
  source    \* the files it was made from, for the properties only

alloc_vars == <<pc, name, sp, source>>
vars == <<files, gmt_vars, alloc_vars>>

TzName(file, tz, colon) == [file |-> file, tz |-> tz, colon |-> colon]

NoSource == [of |-> "nothing", file |-> NoFile, default |-> NoFile]
Source(of, file, default) == [of |-> of, file |-> file, default |-> default]

-----------------------------------------------------------------------------
Calls(n) ==
  CASE n = NULL -> "tzsetwall" [] n = FAST -> "done" [] OTHER -> "tzload"

(* goback, goahead and charcnt stay as malloc left them, and so does what  *)
(* the one type says of its rules.  typecnt is 0 and not 1: a conversion   *)
(* finds the first type without it, and there is no other to look for.     *)
RatherThanRight ==
  [Memory EXCEPT !.lsis = <<>>, !.ats = <<>>, !.types = <<>>,
                 !.ttis = <<TypeInfo(0, 0, GMT, UNSET, UNSET)>>]

tz_alloc(n) ==
  /\ pc = "idle" /\ \A t \in Threads : at[t] = "out"
  /\ name' = n
  /\ source' = NoSource
  /\ \/ pc' = "done" /\ sp' = NULL
     \/ pc' = Calls(n) /\ sp' = IF n = FAST THEN RatherThanRight ELSE Memory
  /\ UNCHANGED <<files, gmt_vars>>

Attempt(outcome, tried, otherwise) ==
  /\ sp' = outcome.sp
  /\ source' = IF outcome.ok THEN tried ELSE NoSource
  /\ pc' = IF outcome.ok THEN "done" ELSE otherwise
  /\ UNCHANGED <<files, gmt_vars, name>>

Load(file, default) ==
  /\ pc = "tzload"
  /\ Attempt(tzload(file, default, sp), Source("file", file, default),
             IF name.colon THEN "gmtload" ELSE "tzparse")

tzsetwall(file, default) ==
  /\ pc = "tzsetwall"
  /\ Attempt(tzload(file, default, sp), Source("file", file, default), "gmtload")

Parse(default) ==
  /\ pc = "tzparse"
  /\ Attempt(tzparse(name.tz, default, sp), Source("string", NoFile, default), "gmtload")

LoadGmt(file, default) ==
  /\ pc = "gmtload"
  /\ Attempt(Outcome(TRUE, gmtload(file, default, sp)), Source("gmt", file, default), "done")

Free ==
  /\ pc = "done"
  /\ pc' = "idle" /\ name' = NULL /\ sp' = NULL /\ source' = NoSource
  /\ UNCHANGED <<files, gmt_vars>>

-----------------------------------------------------------------------------
Init ==
  /\ files \in FileSystems
  /\ GmtInit
  /\ pc = "idle" /\ name = NULL /\ sp = NULL /\ source = NoSource

Next ==
  \/ \E n \in Names : tz_alloc(n)
  \/ \E default \in Readable(TZDEFRULES) :
       \/ pc = "tzload" /\ \E file \in Readable(name.file) : Load(file, default)
       \/ \E file \in Readable(TZDEFAULT) : tzsetwall(file, default)
       \/ Parse(default)
       \/ \E file \in Readable(GMT) : LoadGmt(file, default)
  \/ Free
  \/ /\ pc = "idle"
     /\ \E t \in Threads : GmtStep(t) \/ \E x \in Times : gmtsub(t, x)
     /\ UNCHANGED <<files, alloc_vars>>

Spec == Init /\ [][Next]_vars
=============================================================================
