------------------------------ MODULE DtFormat ------------------------------
(***************************************************************************)
(* dt_to_string and dt_from_string of src/src/dt.c: the formats of         *)
(* strftime and strptime, plus %f and %1f to %9f for fractions of a        *)
(* second, in buffers that may be too short.                               *)
(*                                                                         *)
(* Strings are sequences of characters, without the 0 at their end.  Of a  *)
(* representation only the year and the nano-seconds are looked at: the    *)
(* other fields are printed and parsed by the C library just as the year.  *)
(* Its strftime and strptime are external, for these formats: %Y prints    *)
(* four digits, %p nothing (as in a locale without AM and PM), %% a        *)
(* percent sign, anything else itself.  NULL arguments are left out.       *)
(***************************************************************************)
EXTENDS Integers, Sequences, SequencesExt

CONSTANTS
  Formats,     \* formats of the client, as sequences of items
  Reps,        \* representations it prints, [year, nano_second]
  Sizes,       \* sizes of its buffers
  Strings,     \* strings it parses, besides those it has printed
  FMT_BUFFER,  \* sizeof(fmt_buffer)
  Junk         \* a char that was not written

NUL == "NUL"
DigitChars == <<"0", "1", "2", "3", "4", "5", "6", "7", "8", "9">>

(* What strings are made of: no 0, which ends them.                        *)
Chars == STRING \ {NUL, Junk}

ASSUME CharsAssumption ==
  /\ \A f \in Formats : FlattenSeq(f) \in Seq(Chars)
  /\ \A d \in 1 .. 10 : DigitChars[d] \in Chars

ASSUME FormatAssumption ==
  /\ Sizes \subseteq Nat \ {0}
  /\ \A r \in Reps : r.year \in 1000 .. 9999 /\ r.nano_second \in Nat
  /\ FMT_BUFFER \in Nat

ASSUME FractionAssumption == \A r \in Reps : r.nano_second < 1000000000

VARIABLES
  items,     \* the format as the client made it
  fmt,       \* and its characters
  rep,       \* the representation it prints
  buf,       \* str_buffer, from 0 to its end or to the last char written
  eos,       \* str_buffer_eos_pos
  str, at,   \* the string that is parsed; str_ptr
  tm,        \* struct tm: its year
  nano,      \* nano_second
  parsed,    \* *representation of dt_from_string
  size,      \* str_buffer_size
  pos,       \* fmt_start_pos
  pc, status

printing == <<rep, buf, eos, size>>
parsing == <<str, at, tm, nano, parsed>>
vars == <<items, fmt, printing, parsing, pos, pc, status>>

rest == SubSeq(fmt, pos + 1, Len(fmt))

isdigit(c) == \E d \in 0 .. 9 : DigitChars[d + 1] = c
Value(c)   == CHOOSE d \in 0 .. 9 : DigitChars[d + 1] = c
Pow10      == [k \in 0 .. 9 |-> IF k = 9 THEN 1000000000 ELSE
                 <<1, 10, 100, 1000, 10000, 100000, 1000000, 10000000, 100000000>>[k + 1]]

-----------------------------------------------------------------------------
NONE == [start |-> -1, length |-> 0, precision |-> 0]

(* A slip: a percent sign that stands for itself begins a placeholder.     *)
FractionalFormat_Escaped(s) ==
  LET starts == {p \in 1 .. Len(s) - 1 : s[p] = "%" /\ s[p + 1] = "f"}
  IN  IF starts = {} THEN NONE
      ELSE [start |-> (CHOOSE p \in starts : \A q \in starts : p <= q) - 1,
            length |-> 2, precision |-> 0]

(* dt_parse_fractional_seconds_format: the first placeholder and what is   *)
(* before it, by an automaton over the characters.                         *)
FractionalFormat(s) ==
  LET Scan[q \in (1 .. Len(s) + 1) \X {"initial", "percent", "digit"}] ==
        LET p     == q[1]
            state == q[2]
        IN  IF p > Len(s) THEN NONE
            ELSE IF state = "initial"
                 THEN Scan[<<p + 1, IF s[p] = "%" THEN "percent" ELSE "initial">>]
            ELSE IF s[p] = "f" /\ state = "percent" THEN
                   [start |-> p - 2, length |-> 2, precision |-> 0]
            ELSE IF s[p] = "f" THEN
                   [start |-> p - 3, length |-> 3, precision |-> Value(s[p - 1])]
            ELSE Scan[<<p + 1, IF state = "percent" /\ isdigit(s[p]) THEN "digit" ELSE "initial">>]
  IN  Scan[<<1, "initial">>]

Precision(spec) == IF spec.precision = 0 THEN 9 ELSE spec.precision

-----------------------------------------------------------------------------
(* External: the text strftime makes.                                      *)
YearDigits(year) == [k \in 1 .. 4 |-> DigitChars[((year \div Pow10[4 - k]) % 10) + 1]]

Conversion(c, year) ==
  CASE c = "Y" -> YearDigits(year)
    [] c = "p" -> <<>>
    [] OTHER   -> <<c>>

Text(f, year) ==
  LET From[i \in 1 .. Len(f) + 2] ==
        IF i > Len(f) THEN <<>>
        ELSE IF f[i] = "%" /\ i < Len(f) THEN Conversion(f[i + 1], year) \o From[i + 2]
        ELSE <<f[i]>> \o From[i + 1]
  IN  From[1]

(* chars at the place `at` of the buffer, or beyond its end.               *)
Put(b, place, chars) ==
  [i \in DOMAIN b \cup place .. place + Len(chars) - 1 |->
     IF i \in place .. place + Len(chars) - 1 THEN chars[i - place + 1] ELSE b[i]]

(* External: text that does not fit leaves what it likes.                  *)
Fits(text) == Len(text) < size - eos
strftime(text) ==
  IF Fits(text) THEN Put(buf, eos, Append(text, NUL))
  ELSE Put(buf, eos, [i \in 1 .. size - eos |-> Junk])

(* External: strptime of s from place p, the place after what matched and  *)
(* the year, or FALSE.  Digits are taken as long as they may make a year.  *)
YearAt(s, p) ==
  LET Take[n \in 0 .. 4] ==   \* place and value after n digits
        IF n = 0 THEN [ok |-> p <= Len(s) /\ isdigit(s[p]), at |-> p, year |-> 0]
        ELSE LET before == Take[n - 1]
             IN  IF before.ok /\ before.at <= Len(s) /\ isdigit(s[before.at])
                 THEN [before EXCEPT !.at = @ + 1, !.year = @ * 10 + Value(s[before.at])]
                 ELSE before
  IN  Take[4]

strptime(s, p, f, year) ==
  LET Match[i \in 1 .. Len(f) + 2, place \in 1 .. Len(s) + 1, y \in Nat] ==
        LET number == YearAt(s, place)
            char   == IF f[i] = "%" /\ i < Len(f) THEN f[i + 1] ELSE f[i]
            next   == IF f[i] = "%" /\ i < Len(f) THEN i + 2 ELSE i + 1
        IN  IF i > Len(f) THEN [ok |-> TRUE, at |-> place - 1, year |-> y]
            ELSE IF next = i + 2 /\ char = "p" THEN Match[next, place, y]
            ELSE IF next = i + 2 /\ char = "Y"
                 THEN IF number.ok THEN Match[next, number.at, number.year] ELSE [ok |-> FALSE]
            ELSE IF place <= Len(s) /\ s[place] = char THEN Match[next, place + 1, y]
            ELSE [ok |-> FALSE]
  IN  Match[1, p + 1, year]

-----------------------------------------------------------------------------
Ended(s) == status' = s /\ pc' = IF s = "DT_OK" /\ pc = "print" THEN "printed" ELSE "returned"

dt_to_string(f, r, n) ==
  /\ items' = f /\ fmt' = FlattenSeq(f) /\ rep' = r /\ size' = n
  /\ buf' = [i \in 0 .. n - 1 |-> Junk]
  /\ eos' = 0 /\ pos' = 0
  /\ IF Len(fmt') >= FMT_BUFFER
     THEN status' = "DT_OVERFLOW" /\ pc' = "returned"
     ELSE pc' = "print" /\ UNCHANGED status
  /\ UNCHANGED parsing

PrintAny == pc = "idle" /\ \E f \in Formats, r \in Reps, n \in Sizes : dt_to_string(f, r, n)

Placeholder == FractionalFormat(rest)

PrintEnd ==
  /\ pc = "print" /\ pos >= Len(fmt)
  /\ Ended("DT_OK")
  /\ UNCHANGED <<items, fmt, printing, parsing, pos>>

(* A slip: no room is left for the 0 after the character copied.           *)
RoomToCopy_Tight == Len(rest) <= size - eos

RoomToCopy == Len(rest) < size - eos

(* A format without placeholders: if strftime makes nothing of it, its     *)
(* first character is copied, unless the format is longer than the buffer. *)
PrintRest ==
  /\ pc = "print" /\ pos < Len(fmt)
  /\ Placeholder = NONE
  /\ LET text == Text(rest, rep.year)
     IN  IF text # <<>> /\ Fits(text)
         THEN /\ buf' = strftime(text) /\ eos' = eos + Len(text)
              /\ Ended("DT_OK")
              /\ UNCHANGED pos
         ELSE IF RoomToCopy
         THEN /\ buf' = Put(strftime(text), eos, <<rest[1], NUL>>)
              /\ eos' = eos + 1
              /\ pos' = pos + 1
              /\ UNCHANGED <<pc, status>>
         ELSE Ended("DT_OVERFLOW") /\ buf' = strftime(text) /\ UNCHANGED <<eos, pos>>
  /\ UNCHANGED <<items, fmt, rep, size, parsing>>

FractionDigits(precision) ==
  [i \in 1 .. precision |-> DigitChars[((rep.nano_second \div Pow10[9 - i]) % 10) + 1]]

(* A slip: no room is left for the 0 after the digits.                     *)
Room_Tight(from) == size - from

Room(from) == size - 1 - from

(* What is before a placeholder, and the digits: as many as there is room  *)
(* for, with a place for the 0.                                            *)
PrintFraction ==
  /\ pc = "print" /\ pos < Len(fmt)
  /\ Placeholder # NONE
  /\ LET spec   == Placeholder
         text   == Text(SubSeq(rest, 1, spec.start), rep.year)
         lead   == IF spec.start = 0 THEN buf ELSE strftime(text)
         digits == FractionDigits(Precision(spec))
         from   == eos + Len(text)
         room   == Room(from)
     IN  IF spec.start > 0 /\ (text = <<>> \/ ~Fits(text))
         THEN Ended("DT_OVERFLOW") /\ buf' = lead /\ UNCHANGED <<eos, pos>>
         ELSE /\ pos' = pos + spec.start + spec.length
              /\ IF Len(digits) > room
                 THEN /\ buf' = Put(lead, from, SubSeq(digits, 1, room))
                      /\ eos' = from + room
                      /\ Ended("DT_OVERFLOW")
                 ELSE /\ buf' = Put(lead, from, Append(digits, NUL))
                      /\ eos' = from + Len(digits)
                      /\ UNCHANGED <<pc, status>>
  /\ UNCHANGED <<items, fmt, rep, size, parsing>>

-----------------------------------------------------------------------------
Unset == [year |-> 0, nano_second |-> 0]

(* The printed string is parsed with the format it was printed with, some  *)
(* other string with any.                                                  *)
dt_from_string(f, s) ==
  /\ items' = f /\ fmt' = FlattenSeq(f) /\ str' = s
  /\ pos' = 0 /\ at' = 0 /\ tm' = 0 /\ nano' = 0
  /\ IF Len(fmt') >= FMT_BUFFER
     THEN status' = "DT_OVERFLOW" /\ pc' = "returned"
     ELSE pc' = "parse" /\ UNCHANGED status
  /\ UNCHANGED <<printing, parsed>>

Printed == [i \in 1 .. eos |-> buf[i - 1]]

ParsePrinted == pc = "printed" /\ fmt # <<>> /\ dt_from_string(items, Printed)
ParseOther   == pc = "idle" /\ \E f \in Formats, s \in Strings : dt_from_string(f, s)

(* *representation is written when all is parsed.                          *)
Stored(year) ==
  /\ parsed' = [year |-> year, nano_second |-> nano]
  /\ Ended("DT_OK")

ParseEnd ==
  /\ pc = "parse"
  /\ (pos >= Len(fmt) \/ at >= Len(str))
  /\ IF pos < Len(fmt) \/ at < Len(str) THEN Ended("DT_INVALID_ARGUMENT") /\ UNCHANGED parsed
     ELSE Stored(tm)
  /\ UNCHANGED <<items, fmt, printing, str, at, tm, nano, pos>>

More == pc = "parse" /\ pos < Len(fmt) /\ at < Len(str)

ParseRest ==
  /\ More /\ Placeholder = NONE
  /\ LET match == strptime(str, at, rest, tm)
     IN  IF match.ok /\ match.at = Len(str) THEN Stored(match.year)
         ELSE Ended("DT_INVALID_ARGUMENT") /\ UNCHANGED parsed
  /\ UNCHANGED <<items, fmt, printing, str, at, tm, nano, pos>>

(* The digits from place p on, no more than precision.                     *)
DigitsAt(s, p, precision) ==
  LET counts == {n \in 0 .. precision : /\ p + n <= Len(s)
                                        /\ \A i \in 1 .. n : isdigit(s[p + i])}
  IN  SubSeq(s, p + 1, p + CHOOSE n \in counts : \A m \in counts : m <= n)

Number(digits) ==
  LET Upto[n \in 0 .. Len(digits)] ==
        IF n = 0 THEN 0 ELSE 10 * Upto[n - 1] + Value(digits[n])
  IN  Upto[Len(digits)]

(* A slip: a short fraction not scaled.                                    *)
Scaled_Short(digits) == Number(digits)

Scaled(digits) == Number(digits) * Pow10[9 - Len(digits)]

ParseFraction ==
  /\ More /\ Placeholder # NONE
  /\ LET spec   == Placeholder
         match  == IF spec.start = 0 THEN [ok |-> TRUE, at |-> at, year |-> tm]
                   ELSE strptime(str, at, SubSeq(rest, 1, spec.start), tm)
         digits == IF match.ok THEN DigitsAt(str, match.at, Precision(spec)) ELSE <<>>
     IN  IF digits = <<>>
         THEN Ended("DT_INVALID_ARGUMENT") /\ UNCHANGED <<at, tm, nano, pos>>
         ELSE /\ nano' = Scaled(digits)
              /\ at' = match.at + Len(digits)
              /\ tm' = match.year
              /\ pos' = pos + spec.start + spec.length
              /\ UNCHANGED <<pc, status>>
  /\ UNCHANGED <<items, fmt, printing, str, parsed>>

-----------------------------------------------------------------------------
Init ==
  /\ items = <<>> /\ fmt = <<>> /\ rep = Unset /\ buf = [i \in {0} |-> Junk] /\ eos = 0 /\ size = 1
  /\ str = <<>> /\ at = 0 /\ tm = 0 /\ nano = 0 /\ parsed = Unset
  /\ pos = 0 /\ status = "DT_OK"
  /\ pc = "idle"

Forget ==
  /\ pc \in {"printed", "returned"}
  /\ items' = <<>> /\ fmt' = <<>> /\ rep' = Unset /\ buf' = [i \in {0} |-> Junk] /\ eos' = 0 /\ size' = 1
  /\ str' = <<>> /\ at' = 0 /\ tm' = 0 /\ nano' = 0 /\ parsed' = Unset
  /\ pos' = 0 /\ status' = "DT_OK"
  /\ pc' = "idle"

Step == PrintEnd \/ PrintRest \/ PrintFraction \/ ParseEnd \/ ParseRest \/ ParseFraction

Next == PrintAny \/ ParsePrinted \/ ParseOther \/ Step \/ Forget

Spec == Init /\ [][Next]_vars
=============================================================================
