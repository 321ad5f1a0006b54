------------------------------- MODULE TzFile -------------------------------
(***************************************************************************)
(* What tzload of src/src/unix/libtz/libtz.c takes from a zone file.       *)
(*                                                                         *)
(* A file has a block of tables for times of 4 bytes and, in its later     *)
(* versions, a second one for times of 8 bytes with a TZ string behind it, *)
(* the footer.  The counts of a header are the lengths of the sequences    *)
(* here, and what the program would read beyond the end of the file makes  *)
(* a block that is not whole.  Types count from 1, an abbreviation stands  *)
(* for the index tt_abbrind of it, and OUTSIDE for an index too large.     *)
(***************************************************************************)
EXTENDS LibTzClock, FiniteSetsExt

CONSTANTS
  TZ_MAX_TIMES, TZ_MAX_TYPES, TZ_MAX_CHARS, TZ_MAX_LEAPS,
  OUTSIDE,
  UNSET        \* what memory holds that nobody has written

ASSUME SizeAssumption ==
  /\ TZ_MAX_TIMES \in Nat /\ TZ_MAX_TYPES \in Nat \ {0}
  /\ TZ_MAX_CHARS \in Nat /\ TZ_MAX_LEAPS \in Nat

-----------------------------------------------------------------------------
TypeInfo(gmtoff, isdst, abbr, ttisstd, ttisgmt) ==
  [gmtoff |-> gmtoff, isdst |-> isdst, abbr |-> abbr, ttisstd |-> ttisstd, ttisgmt |-> ttisgmt]

(* The types of a block have no flags yet: stds and gmts are the tables of *)
(* flags behind them, which may be empty.                                  *)
Block(ats, types, ttis, charcnt, lsis, stds, gmts, whole) ==
  [ats |-> ats, types |-> types, ttis |-> ttis, charcnt |-> charcnt, lsis |-> lsis,
   stds |-> stds, gmts |-> gmts, whole |-> whole]

NoFooter == [none |-> TRUE]
NoFile   == [blocks |-> <<>>, footer |-> NoFooter]

(* A struct state fresh from malloc, or on the stack.                      *)
Memory ==
  [ats |-> UNSET, types |-> UNSET, ttis |-> UNSET, goback |-> UNSET, goahead |-> UNSET,
   lsis |-> UNSET, charcnt |-> UNSET]

-----------------------------------------------------------------------------
CountsFit(b) ==
  /\ Len(b.lsis) <= TZ_MAX_LEAPS
  /\ b.ttis # <<>> /\ Len(b.ttis) <= TZ_MAX_TYPES
  /\ Len(b.ats) <= TZ_MAX_TIMES
  /\ b.charcnt <= TZ_MAX_CHARS
  /\ Len(b.stds) \in {0, Len(b.ttis)}
  /\ Len(b.gmts) \in {0, Len(b.ttis)}
  /\ b.whole

(* A slip: a type that is the number of types passes.                      *)
ValuesFit_OneMore(b) ==
  /\ \A i \in 1 .. Len(b.types) : b.types[i] <= Len(b.ttis) + 1
  /\ \A i \in 1 .. Len(b.ttis) : b.ttis[i].isdst \in {0, 1} /\ b.ttis[i].abbr # OUTSIDE
  /\ \A i \in 1 .. Len(b.stds) : b.stds[i] \in {0, 1}
  /\ \A i \in 1 .. Len(b.gmts) : b.gmts[i] \in {0, 1}

ValuesFit(b) ==
  /\ \A i \in 1 .. Len(b.types) : b.types[i] <= Len(b.ttis)
  /\ \A i \in 1 .. Len(b.ttis) : b.ttis[i].isdst \in {0, 1} /\ b.ttis[i].abbr # OUTSIDE
  /\ \A i \in 1 .. Len(b.stds) : b.stds[i] \in {0, 1}
  /\ \A i \in 1 .. Len(b.gmts) : b.gmts[i] \in {0, 1}

(* A slip: the check stops one pair earlier still.                         *)
InOrder_Shorter(ats) ==
  LET drops == {i \in 1 .. Len(ats) - 3 : ats[i] > ats[i + 1]}
  IN  IF drops = {} THEN Len(ats) ELSE Min(drops)

(* Transitions are kept up to one that is followed by an earlier one; the  *)
(* last pair is not looked at.                                             *)
InOrder(ats) ==
  LET drops == {i \in 1 .. Len(ats) - 2 : ats[i] > ats[i + 1]}
  IN  IF drops = {} THEN Len(ats) ELSE Min(drops)

Flag(flags, i) == IF flags = <<>> THEN 0 ELSE flags[i]

FromBlock(b) ==
  [ats   |-> SubSeq(b.ats, 1, InOrder(b.ats)),
   types |-> SubSeq(b.types, 1, InOrder(b.ats)),
   ttis  |-> [i \in 1 .. Len(b.ttis) |->
                TypeInfo(b.ttis[i].gmtoff, b.ttis[i].isdst, b.ttis[i].abbr,
                         Flag(b.stds, i), Flag(b.gmts, i))],
   goback |-> FALSE, goahead |-> FALSE, lsis |-> b.lsis, charcnt |-> b.charcnt]

(***************************************************************************)
(* Reading without the footer.  Every block overwrites what the one before *)
(* it gave.  A file that is not there leaves all but goback and goahead as *)
(* it was, one that is refused leaves it half written.                     *)
(***************************************************************************)
Outcome(ok, sp) == [ok |-> ok, sp |-> sp]

ReadTables(file, sp) ==
  LET flagged == [sp EXCEPT !.goback = FALSE, !.goahead = FALSE]
      wrecked == [Memory EXCEPT !.goback = FALSE, !.goahead = FALSE]
  IN  IF file = NoFile THEN Outcome(FALSE, flagged)
      ELSE IF \A i \in 1 .. Len(file.blocks) : CountsFit(file.blocks[i]) /\ ValuesFit(file.blocks[i])
      THEN Outcome(TRUE, FromBlock(file.blocks[Len(file.blocks)]))
      ELSE Outcome(FALSE, wrecked)

-----------------------------------------------------------------------------
typesequiv(sp, a, b) == sp.ttis[a] = sp.ttis[b]

differ_by_repeat(t1, t0) == t1 - t0 = SECSPERREPEAT

(* A table repeats itself if its first, or its last, transition is there   *)
(* again 400 years away.                                                   *)
Repeats(sp) ==
  LET n == Len(sp.ats)
      Again(i, j) == differ_by_repeat(sp.ats[j], sp.ats[i]) /\ typesequiv(sp, sp.types[i], sp.types[j])
  IN  [sp EXCEPT !.goback  = \E i \in 2 .. n : Again(1, i),
                 !.goahead = \E i \in 1 .. n - 1 : Again(i, n)]
=============================================================================
