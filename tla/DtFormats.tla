----------------------------- MODULE DtFormats -----------------------------
(***************************************************************************)
(* The properties of DtFormat.  The reference prints item by item, without *)
(* looking for placeholders.                                               *)
(***************************************************************************)
EXTENDS DtFormat

Fractions == {<<"%", "f">>} \cup {<<"%", DigitChars[d + 1], "f">> : d \in 0 .. 9}

Digits(item) == IF Len(item) = 2 \/ item[2] = "0" THEN 9 ELSE Value(item[2])

Fraction(item, r) ==
  LET shown == r.nano_second \div Pow10[9 - Digits(item)]
  IN  [i \in 1 .. Digits(item) |-> DigitChars[((shown \div Pow10[Digits(item) - i]) % 10) + 1]]

ItemText(item, r) ==
  IF item \in Fractions THEN Fraction(item, r) ELSE Text(item, r.year)

Expected == FlattenSeq([i \in 1 .. Len(items) |-> ItemText(items[i], rep)])

(* A part of the format between two fractions that prints nothing.         *)
Silent ==
  \E i, j \in 1 .. Len(items) :
    /\ \A k \in i .. j : items[k] \notin Fractions /\ ItemText(items[k], rep) = <<>>
    /\ i <= j
    /\ i = 1 \/ items[i - 1] \in Fractions
    /\ j = Len(items) \/ items[j + 1] \in Fractions

-----------------------------------------------------------------------------
(***************************************************************************)
(* dt_to_string never writes beyond the buffer, however short it is and    *)
(* whichever of its four places is the one that runs out of room; what it  *)
(* returns with DT_OK is a string (but for the empty format, with which it *)
(* leaves the buffer as it was).                                           *)
(***************************************************************************)
WithinBuffer ==
  /\ DOMAIN buf = 0 .. size - 1
  /\ pc = "printed" /\ fmt # <<>> =>
       buf[eos] = NUL /\ \A i \in 0 .. eos - 1 : buf[i] \notin {NUL, Junk}

(***************************************************************************)
(* In a buffer that is long enough it prints what the items of the format  *)
(* mean: the placeholders are told from percent signs that stand for       *)
(* themselves, before a digit and an f as well.  The format may not have a *)
(* part that prints nothing: strftime returns 0 for it, as for a failure.  *)
(***************************************************************************)
PrintedRight ==
  /\ pc = "printed" /\ ~Silent /\ Len(Expected) < size => Printed = Expected
  /\ status = "DT_OVERFLOW" /\ str = <<>> /\ rep # Unset =>
       Silent \/ Len(Expected) >= size \/ Len(fmt) >= FMT_BUFFER

FractionPlaces == {i \in 1 .. Len(items) : items[i] \in Fractions}

(***************************************************************************)
(* What it has printed is parsed back with the same format: the year, if   *)
(* the format has one, and the nano-seconds to as many places as the last  *)
(* of its fractions has.                                                   *)
(***************************************************************************)
BackAgain ==
  pc = "returned" /\ rep # Unset /\ str = Expected /\ str # <<>> /\ ~Silent =>
    /\ status = "DT_OK"
    /\ parsed.year = IF \E i \in 1 .. Len(items) : items[i] = <<"%", "Y">> THEN rep.year ELSE 0
    /\ parsed.nano_second =
         IF FractionPlaces = {} THEN 0
         ELSE LET last == items[CHOOSE i \in FractionPlaces : \A j \in FractionPlaces : j <= i]
              IN  rep.nano_second - (rep.nano_second % Pow10[9 - Digits(last)])
=============================================================================
