-------------------------- MODULE DtFormats_proofs --------------------------
(***************************************************************************)
(* Proofs about DtFormat, for every format, buffer and representation:     *)
(* dt_to_string stays within its buffer.                                   *)
(***************************************************************************)
EXTENDS DtFormats, WellFoundedInduction, TLAPS

(***************************************************************************)
(* Induction on the natural numbers, for a set.                            *)
(***************************************************************************)
LEMMA Counting ==
  ASSUME NEW P \in SUBSET Nat, 0 \in P, \A n \in P : n + 1 \in P
  PROVE  P = Nat
<1> DEFINE Bad == Nat \ P
<1> SUFFICES ASSUME Bad # {} PROVE FALSE
  OBVIOUS
<1>1. \A x, y \in Nat : <<y, x>> \in OpToRel(<, Nat) <=> y < x
  BY DEF OpToRel
<1>2. \E R : IsWellFoundedOn(R, Nat) /\ \A x, y \in Nat : <<y, x>> \in R <=> y < x
  BY <1>1, NatLessThanWellFounded, Zenon
<1>3. PICK R : IsWellFoundedOn(R, Nat) /\ \A x, y \in Nat : <<y, x>> \in R <=> y < x
  BY <1>2
<1>4. IsWellFoundedOn(R, Bad)
  <2>1. Bad \subseteq Nat
    OBVIOUS
  <2> HIDE DEF Bad
  <2> QED BY <1>3, <2>1, IsWellFoundedOnSubset
<1>5. PICK n \in Bad : \A m \in Bad : ~ (<<m, n>> \in R)
  <2> HIDE DEF Bad
  <2> QED BY <1>4, WFMin
<1>6. n \in Nat /\ n # 0 /\ n - 1 \in Nat /\ n - 1 < n /\ n - 1 + 1 = n
  OBVIOUS
<1>7. n - 1 \in P
  BY <1>3, <1>5, <1>6
<1> QED BY <1>6, <1>7

(***************************************************************************)
(* Digits are what strings are made of, and the powers of ten are numbers. *)
(***************************************************************************)
LEMMA DigitsAreChars ==
  ASSUME NEW x \in Int
  PROVE  DigitChars[(x % 10) + 1] \in Chars
<1>1. \A d \in 1 .. 10 : DigitChars[d] \in Chars
  BY CharsAssumption
<1>2. (x % 10) + 1 \in 1 .. 10
  OBVIOUS
<1> QED BY <1>1, <1>2

(***************************************************************************)
(* The digits of a fraction.                                               *)
(***************************************************************************)
LEMMA FractionsAreTexts ==
  ASSUME NEW n \in 1 .. 9, rep.nano_second \in Nat
  PROVE  FractionDigits(n) \in Seq(Chars) /\ Len(FractionDigits(n)) = n
<1>1. ASSUME NEW i \in 1 .. n
      PROVE  rep.nano_second \div Pow10[9 - i] \in Int
  <2>1. 9 - i \in 0 .. 8
    OBVIOUS
  <2>2. Pow10[9 - i] \in Nat \ {0}
    BY <2>1, SMT DEF Pow10
  <2> QED BY <2>2
<1>2. \A i \in 1 .. n : DigitChars[((rep.nano_second \div Pow10[9 - i]) % 10) + 1] \in Chars
  BY <1>1, DigitsAreChars
<1> QED BY <1>2 DEF FractionDigits

(***************************************************************************)
(* What one conversion of strftime makes is a text.                        *)
(***************************************************************************)
LEMMA ConversionsAreTexts ==
  ASSUME NEW c \in Chars, NEW year \in Nat
  PROVE  Conversion(c, year) \in Seq(Chars)
<1>1. YearDigits(year) \in Seq(Chars)
  <2>1. ASSUME NEW k \in 1 .. 4
        PROVE  DigitChars[((year \div Pow10[4 - k]) % 10) + 1] \in Chars
    <3>1. 4 - k \in 0 .. 3
      OBVIOUS
    <3>2. Pow10[4 - k] \in Nat \ {0}
      BY <3>1, SMT DEF Pow10
    <3>3. year \div Pow10[4 - k] \in Int
      BY <3>2
    <3> QED BY <3>3, DigitsAreChars
  <2> QED BY <2>1 DEF YearDigits
<1>2. <<>> \in Seq(Chars) /\ <<c>> \in Seq(Chars)
  OBVIOUS
<1> QED BY <1>1, <1>2 DEF Conversion

(***************************************************************************)
(* The text strftime makes of a format.                                    *)
(***************************************************************************)
LEMMA TextsAreTexts ==
  ASSUME NEW f \in Seq(Chars), NEW year \in Nat
  PROVE  Text(f, year) \in Seq(Chars) /\ (f = <<>> => Text(f, year) = <<>>)
<1> DEFINE n == Len(f)
           D == 1 .. n + 2
           Part(g, i) == IF i > n THEN <<>>
                         ELSE IF f[i] = "%" /\ i < n THEN Conversion(f[i + 1], year) \o g[i + 2]
                         ELSE <<f[i]>> \o g[i + 1]
           Upon(g, k) == g \in [D -> Seq(Chars)] /\ \A i \in D : i > n - k => g[i] = Part(g, i)
           P == {k \in Nat : k <= n => \E g : Upon(g, k)}
<1>1. n \in Nat /\ \A i \in 1 .. n : f[i] \in Chars
  OBVIOUS
<1>2. 0 \in P
  <2> DEFINE g == [i \in D |-> <<>>]
  <2>1. Upon(g, 0)
    BY <1>1
  <2> QED BY <2>1
<1>3. ASSUME NEW g \in [D -> Seq(Chars)], NEW i \in D
      PROVE  Part(g, i) \in Seq(Chars)
  <2>1. CASE i > n
    BY <2>1
  <2>2. CASE ~(i > n) /\ f[i] = "%" /\ i < n
    <3>1. f[i + 1] \in Chars /\ i + 2 \in D
      BY <1>1, <2>2
    <3>2. Conversion(f[i + 1], year) \in Seq(Chars) /\ g[i + 2] \in Seq(Chars)
      BY <3>1, ConversionsAreTexts
    <3> QED BY <2>2, <3>2
  <2>3. CASE ~(i > n) /\ ~(f[i] = "%" /\ i < n)
    <3>1. f[i] \in Chars /\ i + 1 \in D
      BY <1>1, <2>3
    <3> QED BY <2>3, <3>1
  <2> QED BY <2>1, <2>2, <2>3
<1>4. ASSUME NEW k \in P PROVE k + 1 \in P
  <2> SUFFICES ASSUME k + 1 <= n PROVE \E g : Upon(g, k + 1)
    BY <1>4
  <2>1. PICK g : Upon(g, k)
    BY <1>1, <1>4
  <2> DEFINE j == n - k
             h == [i \in D |-> IF i = j THEN Part(g, j) ELSE g[i]]
  <2>2. j \in D /\ j \in Int /\ k \in Nat
    BY <1>1, <1>4
  <2>3. h \in [D -> Seq(Chars)]
    BY <1>3, <2>1, <2>2
  <2>4. ASSUME NEW i \in D, i >= j PROVE Part(h, i) = Part(g, i)
    <3>1. i <= n => i + 1 \in D /\ i + 2 \in D /\ i + 1 # j /\ i + 2 # j
      BY <1>1, <2>2, <2>4
    <3>2. i <= n => h[i + 1] = g[i + 1] /\ h[i + 2] = g[i + 2]
      BY <3>1
    <3> HIDE DEF h
    <3> QED BY <1>1, <3>2
  <2>5. ASSUME NEW i \in D, i > n - (k + 1) PROVE h[i] = Part(h, i)
    <3>1. i >= j /\ (i = j \/ i > n - k)
      BY <1>1, <2>2, <2>5
    <3>2. h[i] = Part(g, i)
      <4> HIDE DEF Part
      <4> QED BY <2>1, <3>1
    <3> HIDE DEF Part, h, j
    <3> QED BY <2>4, <3>1, <3>2
  <2>6. Upon(h, k + 1)
    <3> HIDE DEF Part, h, D
    <3> QED BY <2>3, <2>5
  <2> QED BY <2>6
<1>5. P = Nat
  <2>1. P \in SUBSET Nat
    OBVIOUS
  <2> HIDE DEF P
  <2> QED BY <1>2, <1>4, <2>1, Counting
<1>6. PICK g : Upon(g, n)
  <2>1. n \in P /\ n <= n
    <3> HIDE DEF P
    <3> QED BY <1>1, <1>5
  <2> HIDE DEF Upon, n
  <2> QED BY <2>1
<1>7. \E h : h = [i \in D |-> Part(h, i)]
  <2>1. \A i \in D : i > n - n
    BY <1>1
  <2>2. g = [i \in D |-> g[i]] /\ \A i \in D : g[i] = Part(g, i)
    BY <1>6, <2>1
  <2> HIDE DEF Part, D
  <2>3. g = [i \in D |-> Part(g, i)]
    BY <2>2
  <2> QED BY <2>3
<1> DEFINE From == CHOOSE h : h = [i \in D |-> Part(h, i)]
<1>8. From = [i \in D |-> Part(From, i)]
  <2> HIDE DEF Part, D
  <2> QED BY <1>7
<1>9. Text(f, year) = From[1]
  BY Zenon DEF Text
<1> HIDE DEF From
<1>10. \A i \in D : From[i] = Part(From, i)
  <2> HIDE DEF Part, D
  <2> QED BY <1>8
<1> DEFINE Q == {k \in Nat : \A i \in D : i > n - k => From[i] \in Seq(Chars)}
<1>11. 0 \in Q
  <2>1. ASSUME NEW i \in D, i > n - 0 PROVE From[i] \in Seq(Chars)
    <3>1. From[i] = Part(From, i)
      <4> HIDE DEF Part
      <4> QED BY <1>10
    <3>2. i > n
      BY <1>1, <2>1
    <3> QED BY <3>1, <3>2
  <2> QED BY <2>1
<1>12. ASSUME NEW k \in Q PROVE k + 1 \in Q
  <2> SUFFICES ASSUME NEW i \in D, i > n - (k + 1) PROVE From[i] \in Seq(Chars)
    BY <1>12
  <2>1. CASE i > n
    BY <1>10, <2>1
  <2>2. CASE ~(i > n)
    <3>1. i + 1 \in D /\ i + 2 \in D /\ i + 1 > n - k /\ i + 2 > n - k /\ f[i] \in Chars
      BY <1>1, <1>12, <2>2
    <3>2. From[i + 1] \in Seq(Chars) /\ From[i + 2] \in Seq(Chars)
      BY <1>12, <3>1
    <3>3. i < n => Conversion(f[i + 1], year) \in Seq(Chars)
      <4>1. i < n => f[i + 1] \in Chars
        BY <1>1
      <4> QED BY <4>1, ConversionsAreTexts
    <3>4. From[i] = Part(From, i)
      BY <1>10
    <3>5. CASE f[i] = "%" /\ i < n
      BY <2>2, <3>2, <3>3, <3>4, <3>5
    <3>6. CASE ~(f[i] = "%" /\ i < n)
      BY <2>2, <3>1, <3>2, <3>4, <3>6
    <3> QED BY <3>5, <3>6
  <2> QED BY <2>1, <2>2
<1>13. Q = Nat
  <2>1. Q \in SUBSET Nat
    OBVIOUS
  <2> HIDE DEF Q
  <2> QED BY <1>11, <1>12, <2>1, Counting
<1>14. n \in Q /\ 1 \in D /\ 1 > n - n
  BY <1>1, <1>13
<1>15. From[1] \in Seq(Chars)
  BY <1>14
<1>16. f = <<>> => From[1] = <<>>
  <2> SUFFICES ASSUME f = <<>> PROVE From[1] = <<>>
    OBVIOUS
  <2>1. 1 > n
    OBVIOUS
  <2>2. From[1] = Part(From, 1)
    BY <1>10, <1>14
  <2> QED BY <2>1, <2>2
<1> QED BY <1>9, <1>15, <1>16

(* A placeholder in s.                                                     *)
Inside(spec, s) ==
  /\ spec.start \in Nat /\ spec.length \in {2, 3} /\ spec.start + spec.length <= Len(s)
  /\ spec.precision \in 0 .. 9

(***************************************************************************)
(* The automaton finds a placeholder within the format, or none.           *)
(***************************************************************************)
LEMMA PlaceholdersInside ==
  ASSUME NEW s \in Seq(Chars)
  PROVE  FractionalFormat(s) = NONE \/ Inside(FractionalFormat(s), s)
<1> DEFINE n == Len(s)
           States == {"initial", "percent", "digit"}
           D == (1 .. n + 1) \X States
           Part(g, p, state) ==
             IF p > n THEN NONE
             ELSE IF state = "initial" THEN g[<<p + 1, IF s[p] = "%" THEN "percent" ELSE "initial">>]
             ELSE IF s[p] = "f" /\ state = "percent" THEN
                    [start |-> p - 2, length |-> 2, precision |-> 0]
             ELSE IF s[p] = "f" THEN
                    [start |-> p - 3, length |-> 3, precision |-> Value(s[p - 1])]
             ELSE g[<<p + 1, IF state = "percent" /\ isdigit(s[p]) THEN "digit" ELSE "initial">>]
           Upon(g, k) == /\ g = [q \in D |-> g[q]]
                         /\ \A q \in D : q[1] > n - k => g[q] = Part(g, q[1], q[2])
           P == {k \in Nat : k <= n => \E g : Upon(g, k)}
<1>1. n \in Nat
  OBVIOUS
<1>2. 0 \in P
  <2> DEFINE g == [q \in D |-> NONE]
  <2>1. \A q \in D : q[1] > n - 0 => g[q] = Part(g, q[1], q[2])
    BY <1>1
  <2>2. g = [q \in D |-> g[q]]
    OBVIOUS
  <2> HIDE DEF g, Part, D
  <2>3. Upon(g, 0)
    BY <2>1, <2>2
  <2> QED BY <2>3
<1>3. ASSUME NEW k \in P PROVE k + 1 \in P
  <2> SUFFICES ASSUME k + 1 <= n PROVE \E g : Upon(g, k + 1)
    <3> HIDE DEF Upon, n
    <3> QED BY <1>1, <1>3
  <2>1. PICK g : Upon(g, k)
    <3>1. k \in P /\ (k \in P => k \in Nat)
      <4>1. P \subseteq Nat
        OBVIOUS
      <4> HIDE DEF P
      <4> QED BY <1>3, <4>1
    <3>2. k <= n
      <4> HIDE DEF P, n
      <4> QED BY <1>1, <3>1
    <3> HIDE DEF Upon, n
    <3> QED BY <3>1, <3>2
  <2> DEFINE j == n - k
             h == [q \in D |-> IF q[1] = j THEN Part(g, q[1], q[2]) ELSE g[q]]
  <2>2. j \in Int /\ k \in Nat
    BY <1>1, <1>3
  <2>3. h = [q \in D |-> h[q]]
    OBVIOUS
  <2>4. ASSUME NEW p \in 1 .. n + 1, NEW state \in States, p >= j
        PROVE  Part(h, p, state) = Part(g, p, state)
    <3>1. ASSUME p <= n, NEW u \in States PROVE h[<<p + 1, u>>] = g[<<p + 1, u>>]
      <4>1. <<p + 1, u>> \in D /\ p + 1 # j
        BY <1>1, <2>2, <2>4, <3>1
      <4> QED BY <4>1
    <3> DEFINE a == IF s[p] = "%" THEN "percent" ELSE "initial"
               b == IF state = "percent" /\ isdigit(s[p]) THEN "digit" ELSE "initial"
    <3>2. a \in States /\ b \in States
      OBVIOUS
    <3> HIDE DEF h, a, b, States
    <3>3. p <= n => h[<<p + 1, a>>] = g[<<p + 1, a>>] /\ h[<<p + 1, b>>] = g[<<p + 1, b>>]
      BY <3>1, <3>2
    <3> QED BY <1>1, <3>3 DEF a, b
  <2>5. ASSUME NEW q \in D, q[1] > n - (k + 1) PROVE h[q] = Part(h, q[1], q[2])
    <3>1. q[1] \in 1 .. n + 1 /\ q[2] \in States /\ q[1] >= j /\ (q[1] = j \/ q[1] > n - k)
      BY <1>1, <2>2, <2>5
    <3>2. h[q] = Part(g, q[1], q[2])
      <4> HIDE DEF Part
      <4> QED BY <2>1, <3>1
    <3> HIDE DEF Part, h, j, D
    <3> QED BY <2>4, <3>1, <3>2
  <2>6. Upon(h, k + 1)
    <3> HIDE DEF Part, h, D
    <3> QED BY <2>3, <2>5
  <2> QED BY <2>6
<1>4. P = Nat
  <2>1. P \in SUBSET Nat
    OBVIOUS
  <2> HIDE DEF P
  <2> QED BY <1>2, <1>3, <2>1, Counting
<1>5. PICK g : Upon(g, n)
  <2>1. n \in P /\ n <= n
    <3> HIDE DEF P
    <3> QED BY <1>1, <1>4
  <2> HIDE DEF Upon, n
  <2> QED BY <2>1
<1>6. \E h : h = [q \in D |-> Part(h, q[1], q[2])]
  <2>1. \A q \in D : g[q] = Part(g, q[1], q[2])
    <3>1. \A q \in D : q[1] > n - n
      BY <1>1
    <3> HIDE DEF Part, D
    <3> QED BY <1>5, <3>1
  <2> HIDE DEF Part, D
  <2>2. g = [q \in D |-> Part(g, q[1], q[2])]
    BY <1>5, <2>1
  <2> QED BY <2>2
<1> DEFINE Scan == CHOOSE h : h = [q \in D |-> Part(h, q[1], q[2])]
<1>7. Scan = [q \in D |-> Part(Scan, q[1], q[2])]
  <2> HIDE DEF Part, D
  <2> QED BY <1>6
<1>8. FractionalFormat(s) = Scan[<<1, "initial">>]
  BY Zenon DEF FractionalFormat
<1> HIDE DEF Scan
<1>9. \A q \in D : Scan[q] = Part(Scan, q[1], q[2])
  <2> HIDE DEF Part, D
  <2> QED BY <1>7
(* Where the automaton can be in a state.                                  *)
<1> DEFINE Reached(p, state) ==
             /\ state = "percent" => p >= 2
             /\ state = "digit" => p >= 3 /\ isdigit(s[p - 1])
           Right(v) == v = NONE \/ Inside(v, s)
           Q == {k \in Nat : \A p \in 1 .. n + 1, state \in States :
                    p > n - k /\ Reached(p, state) => Right(Scan[<<p, state>>])}
<1>10. ASSUME NEW p \in 1 .. n + 1, NEW state \in States
       PROVE  Scan[<<p, state>>] = Part(Scan, p, state)
  <2>1. <<p, state>> \in D /\ <<p, state>>[1] = p /\ <<p, state>>[2] = state
    OBVIOUS
  <2> HIDE DEF Part, D
  <2> QED BY <1>9, <2>1
<1>11. 0 \in Q
  <2>1. ASSUME NEW p \in 1 .. n + 1, NEW state \in States, p > n - 0
        PROVE  Right(Scan[<<p, state>>])
    <3>1. p > n
      BY <1>1, <2>1
    <3>2. Part(Scan, p, state) = NONE
      BY <3>1
    <3> HIDE DEF Part
    <3> QED BY <1>10, <3>2
  <2> HIDE DEF Right, Reached
  <2> QED BY <2>1
<1>12. ASSUME NEW k \in Q PROVE k + 1 \in Q
  <2>1. ASSUME NEW p \in 1 .. n + 1, NEW state \in States, p > n - (k + 1), Reached(p, state), p <= n
        PROVE  Right(Part(Scan, p, state))
    <3> DEFINE a == IF s[p] = "%" THEN "percent" ELSE "initial"
               b == IF state = "percent" /\ isdigit(s[p]) THEN "digit" ELSE "initial"
    <3>1. p + 1 \in 1 .. n + 1 /\ p + 1 > n - k /\ a \in States /\ b \in States
      BY <1>1, <1>12, <2>1
    <3>2. Reached(p + 1, a) /\ Reached(p + 1, b)
      BY <1>1, <2>1
    <3>3. Right(Scan[<<p + 1, a>>]) /\ Right(Scan[<<p + 1, b>>])
      <4> HIDE DEF a, b, Right, Reached, States, n
      <4> QED BY <1>12, <3>1, <3>2
    <3>4. CASE state = "initial"
      <4>1. Part(Scan, p, state) = Scan[<<p + 1, a>>]
        BY <1>1, <2>1, <3>4
      <4> HIDE DEF Right, Part, a
      <4> QED BY <3>3, <4>1
    <3>5. CASE state # "initial" /\ ~(s[p] = "f")
      <4>1. Part(Scan, p, state) = Scan[<<p + 1, b>>]
        BY <1>1, <2>1, <3>5
      <4> HIDE DEF Right, Part, b
      <4> QED BY <3>3, <4>1
    <3>6. CASE state = "percent" /\ s[p] = "f"
      <4>1. Part(Scan, p, state) = [start |-> p - 2, length |-> 2, precision |-> 0]
        BY <1>1, <2>1, <3>6
      <4>2. Inside([start |-> p - 2, length |-> 2, precision |-> 0], s)
        BY <1>1, <2>1, <3>6 DEF Inside
      <4> HIDE DEF Part
      <4> QED BY <4>1, <4>2
    <3>7. CASE state = "digit" /\ s[p] = "f"
      <4>1. Part(Scan, p, state) = [start |-> p - 3, length |-> 3, precision |-> Value(s[p - 1])]
        BY <1>1, <2>1, <3>7
      <4>2. Value(s[p - 1]) \in 0 .. 9
        BY <2>1, <3>7 DEF Value, isdigit
      <4>3. Inside([start |-> p - 3, length |-> 3, precision |-> Value(s[p - 1])], s)
        BY <1>1, <2>1, <3>7, <4>2 DEF Inside
      <4> HIDE DEF Part
      <4> QED BY <4>1, <4>3
    <3> HIDE DEF Right, Part
    <3> QED BY <3>4, <3>5, <3>6, <3>7
  <2>2. ASSUME NEW p \in 1 .. n + 1, NEW state \in States, p > n
        PROVE  Right(Part(Scan, p, state))
    BY <2>2
  <2>3. ASSUME NEW p \in 1 .. n + 1, NEW state \in States, p > n - (k + 1), Reached(p, state)
        PROVE  Right(Scan[<<p, state>>])
    <3>1. p <= n \/ p > n
      BY <1>1
    <3> HIDE DEF Right, Part, Reached, States, n
    <3> QED BY <1>10, <2>1, <2>2, <2>3, <3>1
  <2>4. k \in Nat
    BY <1>12
  <2> HIDE DEF Right, Reached, States, n
  <2> QED BY <2>3, <2>4
<1>13. Q = Nat
  <2>1. Q \in SUBSET Nat
    OBVIOUS
  <2> HIDE DEF Q
  <2> QED BY <1>11, <1>12, <2>1, Counting
<1>14. Right(Scan[<<1, "initial">>])
  <2>1. 1 \in 1 .. n + 1 /\ 1 > n - n /\ "initial" \in States /\ Reached(1, "initial")
    BY <1>1
  <2>2. n \in Q
    <3> HIDE DEF Q
    <3> QED BY <1>1, <1>13
  <2> HIDE DEF Right, Reached, States, n
  <2> QED BY <2>1, <2>2
<1> QED BY <1>8, <1>14

-----------------------------------------------------------------------------
(* The buffer has its size, and chars up to e.                             *)
Filled(b, e) ==
  /\ DOMAIN b = 0 .. size - 1
  /\ \A i \in 0 .. size - 1 : i < e => b[i] \in Chars

(***************************************************************************)
(* What is put where there is room for it changes nothing else.            *)
(***************************************************************************)
LEMMA PutInside ==
  ASSUME size \in Nat, NEW b, DOMAIN b = 0 .. size - 1, NEW place \in Nat,
         NEW chars, NEW l \in Nat, l = Len(chars), place + l <= size
  PROVE  /\ DOMAIN Put(b, place, chars) = 0 .. size - 1
         /\ \A i \in 0 .. size - 1 : i < place => Put(b, place, chars)[i] = b[i]
         /\ \A i \in 0 .. size - 1 : place <= i /\ i < place + l =>
               Put(b, place, chars)[i] = chars[i - place + 1]
<1> DEFINE w == place .. place + l - 1
<1>1. DOMAIN b \cup w = 0 .. size - 1
  OBVIOUS
<1>2. \A i \in 0 .. size - 1 : (i < place => i \notin w) /\ (place <= i /\ i < place + l => i \in w)
  OBVIOUS
<1>3. Put(b, place, chars) = [i \in 0 .. size - 1 |-> IF i \in w THEN chars[i - place + 1] ELSE b[i]]
  BY <1>1 DEF Put
<1> HIDE DEF w
<1> QED BY <1>2, <1>3

(***************************************************************************)
(* A text, with a 0 at its end, and chars before it.                       *)
(***************************************************************************)
LEMMA EndedPut ==
  ASSUME size \in Nat, NEW b, NEW e \in Nat, Filled(b, e), NEW a, NEW l \in Nat,
         Len(a) = l + 1, a[l + 1] = NUL, \A i \in 1 .. l : a[i] \in Chars, e + l < size
  PROVE  Filled(Put(b, e, a), e + l) /\ Put(b, e, a)[e + l] = NUL
<1> DEFINE c == Put(b, e, a)
<1>1. l \in Nat /\ Len(a) = l + 1 /\ a[l + 1] = NUL /\ \A i \in 1 .. l : a[i] \in Chars
  OBVIOUS
<1>2. DOMAIN b = 0 .. size - 1 /\ l + 1 \in Nat /\ e + (l + 1) <= size
  BY <1>1 DEF Filled
<1>3. /\ DOMAIN c = 0 .. size - 1
      /\ \A i \in 0 .. size - 1 : i < e => c[i] = b[i]
      /\ \A i \in 0 .. size - 1 : e <= i /\ i < e + (l + 1) => c[i] = a[i - e + 1]
  BY <1>1, <1>2, PutInside
<1> HIDE DEF c
<1>4. ASSUME NEW i \in 0 .. size - 1, i < e + l PROVE c[i] \in Chars
  <2>1. i \in 0 .. size - 1 /\ i < e + (l + 1)
    BY <1>1, <1>4
  <2>2. CASE i < e
    BY <1>3, <2>1, <2>2 DEF Filled
  <2>3. CASE e <= i
    <3>1. c[i] = a[i - e + 1] /\ i - e + 1 \in 1 .. l
      BY <1>1, <1>3, <1>4, <2>1, <2>3
    <3> QED BY <1>1, <3>1
  <2> QED BY <2>2, <2>3
<1>5. c[e + l] = NUL
  <2>1. e + l \in 0 .. size - 1 /\ e <= e + l /\ e + l < e + (l + 1) /\ e + l - e + 1 = l + 1
    BY <1>1, <1>2
  <2> QED BY <1>1, <1>3, <2>1
<1>6. Filled(c, e + l)
  BY <1>3, <1>4 DEF Filled
<1> QED BY <1>5, <1>6 DEF c

(***************************************************************************)
(* So does a text with its 0.                                              *)
(***************************************************************************)
LEMMA TextPut ==
  ASSUME size \in Nat, NEW b, NEW e \in Nat, Filled(b, e),
         NEW text \in Seq(Chars), e + Len(text) < size
  PROVE  LET c == Put(b, e, Append(text, NUL))
         IN  Filled(c, e + Len(text)) /\ c[e + Len(text)] = NUL
<1> DEFINE a == Append(text, NUL)
           l == Len(text)
<1>1. l \in Nat /\ Len(a) = l + 1 /\ a[l + 1] = NUL /\ \A i \in 1 .. l : a[i] \in Chars
  OBVIOUS
<1>2. e + l < size
  OBVIOUS
<1> HIDE DEF a, l
<1>3. Filled(Put(b, e, a), e + l) /\ Put(b, e, a)[e + l] = NUL
  BY <1>1, <1>2, EndedPut
<1> QED BY <1>3 DEF a, l

(***************************************************************************)
(* strftime keeps what is in the buffer, and stays within it.              *)
(***************************************************************************)
LEMMA StrftimeInside ==
  ASSUME size \in Nat, eos \in 0 .. size - 1, Filled(buf, eos), NEW text \in Seq(Chars)
  PROVE  /\ Filled(strftime(text), eos)
         /\ Fits(text) => /\ eos + Len(text) \in 0 .. size - 1
                          /\ Filled(strftime(text), eos + Len(text))
                          /\ strftime(text)[eos + Len(text)] = NUL
<1>0. Len(text) \in Nat /\ eos \in Nat
  OBVIOUS
<1>1. CASE Fits(text)
  <2>1. eos + Len(text) < size
    BY <1>0, <1>1 DEF Fits
  <2>2. strftime(text) = Put(buf, eos, Append(text, NUL))
    BY <1>1 DEF strftime
  <2>3. Filled(strftime(text), eos + Len(text)) /\ strftime(text)[eos + Len(text)] = NUL
    BY <1>0, <2>1, <2>2, TextPut
  <2>4. Filled(strftime(text), eos)
    BY <1>0, <2>3 DEF Filled
  <2> QED BY <1>0, <2>1, <2>3, <2>4
<1>2. CASE ~Fits(text)
  <2> DEFINE l == size - eos
             junk == [i \in 1 .. l |-> Junk]
             c == Put(buf, eos, junk)
  <2>1. l \in Nat /\ l = Len(junk) /\ eos + l <= size /\ DOMAIN buf = 0 .. size - 1
    BY DEF Filled
  <2>2. strftime(text) = c
    BY <1>2 DEF strftime
  <2> HIDE DEF l, junk
  <2>3. DOMAIN c = 0 .. size - 1 /\ \A i \in 0 .. size - 1 : i < eos => c[i] = buf[i]
    BY <1>0, <2>1, PutInside
  <2> HIDE DEF c
  <2>4. Filled(c, eos)
    BY <1>0, <2>3 DEF Filled
  <2> QED BY <1>2, <2>2, <2>4
<1> QED BY <1>1, <1>2

-----------------------------------------------------------------------------
(***************************************************************************)
(* The inductive invariant: while it prints, what is in the buffer up to   *)
(* eos are chars of the text, there is room for the 0, and the 0 is        *)
(* written with each part.                                                 *)
(***************************************************************************)
PrintInv ==
  /\ size \in Nat \ {0}
  /\ DOMAIN buf = 0 .. size - 1
  /\ pc = "print" =>
       /\ fmt \in Seq(Chars) /\ rep \in Reps /\ pos \in Nat
       /\ eos \in 0 .. size - 1 /\ Filled(buf, eos)
       /\ pos > 0 => buf[eos] = NUL
  /\ pc = "printed" /\ fmt # <<>> => buf[eos] = NUL /\ Filled(buf, eos)

(***************************************************************************)
(* What is left of the format.                                             *)
(***************************************************************************)
LEMMA RestIs ==
  ASSUME fmt \in Seq(Chars), pos \in Nat, pos < Len(fmt)
  PROVE  rest \in Seq(Chars) /\ Len(rest) = Len(fmt) - pos /\ rest[1] \in Chars
<1>1. Len(fmt) \in Nat /\ pos + 1 \in 1 .. Len(fmt)
  OBVIOUS
<1>2. rest \in Seq(Chars) /\ Len(rest) = Len(fmt) - pos
  BY <1>1 DEF rest
<1>3. Len(rest) >= 1
  BY <1>1, <1>2
<1> QED BY <1>2, <1>3

(***************************************************************************)
(* A representation that is printed.                                       *)
(***************************************************************************)
LEMMA RepsAre ==
  ASSUME rep \in Reps
  PROVE  rep.year \in Nat /\ rep.nano_second \in Nat
<1> DEFINE Years == 1000 .. 9999
<1>1. \A y \in Years : y \in Nat
  OBVIOUS
<1>2. rep.year \in Years /\ rep.nano_second \in Nat
  BY FormatAssumption
<1> HIDE DEF Years
<1> QED BY <1>1, <1>2

(***************************************************************************)
(* The calls begin with an empty buffer.                                   *)
(***************************************************************************)
LEMMA PrintAnyKeeps ==
  ASSUME PrintAny
  PROVE  PrintInv'
<1>1. PICK f \in Formats, r \in Reps, n \in Sizes : dt_to_string(f, r, n)
  BY DEF PrintAny
<1>2. n \in Nat \ {0}
  BY FormatAssumption
<1>3. fmt' \in Seq(Chars)
  BY <1>1, CharsAssumption DEF dt_to_string
<1>4. /\ rep' = r /\ size' = n /\ buf' = [i \in 0 .. n - 1 |-> Junk] /\ eos' = 0 /\ pos' = 0
      /\ pc' \in {"print", "returned"}
  BY <1>1 DEF dt_to_string
<1> QED BY <1>2, <1>3, <1>4 DEF PrintInv, Filled

(***************************************************************************)
(* Without placeholders.                                                   *)
(***************************************************************************)
LEMMA PrintRestKeeps ==
  ASSUME PrintInv, PrintRest
  PROVE  PrintInv'
<1> DEFINE text == Text(rest, rep.year)
           b == strftime(text)
<1>1. /\ pc = "print" /\ pos < Len(fmt) /\ fmt \in Seq(Chars) /\ rep \in Reps /\ pos \in Nat
      /\ size \in Nat /\ size # 0 /\ eos \in 0 .. size - 1 /\ Filled(buf, eos)
  BY DEF PrintInv, PrintRest
<1>2. /\ fmt' = fmt /\ rep' = rep /\ size' = size
      /\ \/ /\ Fits(text) /\ buf' = b /\ eos' = eos + Len(text) /\ pc' = "printed"
         \/ /\ RoomToCopy
            /\ buf' = Put(b, eos, <<rest[1], NUL>>) /\ eos' = eos + 1 /\ pos' = pos + 1 /\ pc' = pc
         \/ pc' = "returned" /\ buf' = b
  BY <1>1 DEF PrintRest, Ended
<1>3. rest \in Seq(Chars) /\ Len(rest) = Len(fmt) - pos /\ rest[1] \in Chars /\ Len(fmt) \in Nat
  BY <1>1, RestIs
<1>4. text \in Seq(Chars)
  BY <1>1, <1>3, RepsAre, TextsAreTexts
<1> HIDE DEF text
<1>5. /\ Filled(b, eos)
      /\ Fits(text) => /\ eos + Len(text) \in 0 .. size - 1
                       /\ Filled(b, eos + Len(text)) /\ b[eos + Len(text)] = NUL
  BY <1>1, <1>4, StrftimeInside
<1> HIDE DEF b
<1>6. CASE Fits(text) /\ buf' = b /\ eos' = eos + Len(text) /\ pc' = "printed"
  BY <1>1, <1>2, <1>5, <1>6 DEF PrintInv, Filled
<1>7. CASE /\ RoomToCopy
           /\ buf' = Put(b, eos, <<rest[1], NUL>>) /\ eos' = eos + 1 /\ pos' = pos + 1 /\ pc' = pc
  <2> DEFINE two == <<rest[1], NUL>>
             l == 1
  <2>1. /\ Len(two) = l + 1 /\ two[l + 1] = NUL /\ l \in Nat
        /\ \A i \in 1 .. l : two[i] \in Chars
    BY <1>3
  <2>2. eos + l < size /\ eos \in Nat /\ Filled(b, eos)
    BY <1>1, <1>3, <1>5, <1>7 DEF RoomToCopy
  <2>3. Filled(buf', eos + 1) /\ buf'[eos + 1] = NUL
    <3> HIDE DEF two, l
    <3>1. Filled(Put(b, eos, two), eos + l) /\ Put(b, eos, two)[eos + l] = NUL
      BY <1>1, <2>1, <2>2, EndedPut
    <3>2. Put(b, eos, two) = buf'
      BY <1>7 DEF two
    <3> QED BY <3>1, <3>2 DEF l
  <2>4. eos + 1 \in 0 .. size - 1 /\ pos + 1 \in Nat
    BY <1>1, <2>2
  <2> QED BY <1>1, <1>2, <1>7, <2>3, <2>4 DEF PrintInv, Filled
<1>8. CASE pc' = "returned" /\ buf' = b
  BY <1>1, <1>2, <1>5, <1>8 DEF PrintInv, Filled
<1> QED BY <1>2, <1>6, <1>7, <1>8

(***************************************************************************)
(* With a placeholder: what is before it, and the digits there is room     *)
(* for.                                                                    *)
(***************************************************************************)
LEMMA PrintFractionKeeps ==
  ASSUME PrintInv, PrintFraction
  PROVE  PrintInv'
<1> DEFINE spec == Placeholder
           text == Text(SubSeq(rest, 1, spec.start), rep.year)
           lead == IF spec.start = 0 THEN buf ELSE strftime(text)
           digits == FractionDigits(Precision(spec))
           from == eos + Len(text)
           room == Room(from)
<1>1. /\ pc = "print" /\ pos < Len(fmt) /\ fmt \in Seq(Chars) /\ rep \in Reps /\ pos \in Nat
      /\ size \in Nat /\ size # 0 /\ eos \in 0 .. size - 1 /\ Filled(buf, eos)
  BY DEF PrintInv, PrintFraction
<1>2. /\ fmt' = fmt /\ rep' = rep /\ size' = size /\ Placeholder # NONE
      /\ IF spec.start > 0 /\ (text = <<>> \/ ~Fits(text))
         THEN pc' = "returned" /\ buf' = lead
         ELSE /\ pos' = pos + spec.start + spec.length
              /\ IF Len(digits) > room
                 THEN pc' = "returned" /\ buf' = Put(lead, from, SubSeq(digits, 1, room))
                 ELSE /\ buf' = Put(lead, from, Append(digits, NUL)) /\ eos' = from + Len(digits)
                      /\ pc' = pc
  BY <1>1 DEF PrintFraction, Ended
<1>3. rest \in Seq(Chars) /\ Len(rest) = Len(fmt) - pos /\ Len(fmt) \in Nat
  BY <1>1, RestIs
<1>4. /\ spec.start \in Nat /\ spec.length \in {2, 3} /\ spec.start + spec.length <= Len(rest)
      /\ spec.precision \in 0 .. 9
  BY <1>2, <1>3, PlaceholdersInside DEF Inside, Placeholder
<1>5. text \in Seq(Chars) /\ (spec.start = 0 => text = <<>>)
  <2> DEFINE before == SubSeq(rest, 1, spec.start)
  <2>1. before \in Seq(Chars) /\ (spec.start = 0 => before = <<>>)
    BY <1>3, <1>4
  <2> HIDE DEF before
  <2>2. Text(before, rep.year) \in Seq(Chars) /\ (before = <<>> => Text(before, rep.year) = <<>>)
    BY <1>1, <2>1, RepsAre, TextsAreTexts
  <2> QED BY <2>1, <2>2 DEF before
<1>6. Precision(spec) \in 1 .. 9
  BY <1>4 DEF Precision
<1>7. digits \in Seq(Chars) /\ Len(digits) \in 1 .. 9
  <2> DEFINE n == Precision(spec)
  <2>1. n \in 1 .. 9 /\ rep.nano_second \in Nat
    BY <1>1, <1>6, RepsAre
  <2> HIDE DEF n
  <2>2. FractionDigits(n) \in Seq(Chars) /\ Len(FractionDigits(n)) = n
    BY <2>1, FractionsAreTexts
  <2> QED BY <2>1, <2>2 DEF n
<1> HIDE DEF spec, text, digits
<1>8. /\ Filled(strftime(text), eos)
      /\ Fits(text) => eos + Len(text) \in 0 .. size - 1 /\ Filled(strftime(text), eos + Len(text))
  BY <1>1, <1>5, StrftimeInside
<1>9. DOMAIN lead = 0 .. size - 1
  BY <1>1, <1>8 DEF Filled
<1>10. CASE spec.start > 0 /\ (text = <<>> \/ ~Fits(text))
  <2>1. pc' = "returned" /\ buf' = lead
    BY <1>2, <1>10
  <2> HIDE DEF lead
  <2> QED BY <1>1, <1>2, <1>9, <2>1 DEF PrintInv
<1>11. CASE ~(spec.start > 0 /\ (text = <<>> \/ ~Fits(text)))
  <2>1. from \in 0 .. size - 1 /\ Filled(lead, from)
    <3>1. CASE spec.start = 0
      <4>1. Len(text) = 0
        BY <1>5, <3>1
      <4>2. from = eos
        BY <1>1, <4>1
      <4> QED BY <1>1, <3>1, <4>2
    <3>2. CASE spec.start # 0
      BY <1>4, <1>8, <1>11, <3>2
    <3> QED BY <3>1, <3>2
  <2>2. /\ pos' = pos + spec.start + spec.length
        /\ IF Len(digits) > room
           THEN pc' = "returned" /\ buf' = Put(lead, from, SubSeq(digits, 1, room))
           ELSE /\ buf' = Put(lead, from, Append(digits, NUL)) /\ eos' = from + Len(digits)
                /\ pc' = pc
    BY <1>2, <1>11
  <2> HIDE DEF lead, from
  <2>3. room = size - 1 - from /\ room \in Nat /\ from \in Nat
    BY <1>1, <2>1 DEF Room
  <2> HIDE DEF room
  <2>4. CASE Len(digits) > room
    <3> DEFINE some == SubSeq(digits, 1, room)
    <3>1. Len(some) = room /\ from + room <= size
      BY <1>1, <1>7, <2>3, <2>4
    <3> HIDE DEF some
    <3>2. DOMAIN Put(lead, from, some) = 0 .. size - 1
      BY <1>1, <1>9, <2>3, <3>1, PutInside
    <3>3. pc' = "returned" /\ buf' = Put(lead, from, some)
      BY <2>2, <2>4 DEF some
    <3> QED BY <1>1, <1>2, <3>2, <3>3 DEF PrintInv
  <2>5. CASE ~(Len(digits) > room)
    <3>1. from + Len(digits) < size /\ from + Len(digits) \in 0 .. size - 1
      BY <1>1, <1>7, <2>3, <2>5
    <3>2. buf' = Put(lead, from, Append(digits, NUL)) /\ eos' = from + Len(digits) /\ pc' = pc
      BY <2>2, <2>5
    <3>3. Filled(buf', eos') /\ buf'[eos'] = NUL
      BY <1>1, <1>7, <2>1, <2>3, <3>1, <3>2, TextPut
    <3>4. pos' \in Nat
      BY <1>1, <1>4, <2>2
    <3> QED BY <1>1, <1>2, <3>1, <3>2, <3>3, <3>4 DEF PrintInv, Filled
  <2> QED BY <2>4, <2>5
<1> QED BY <1>10, <1>11

(***************************************************************************)
(* The invariant is inductive.                                             *)
(***************************************************************************)
LEMMA PrintStep ==
  ASSUME PrintInv, [Next]_vars
  PROVE  PrintInv'
<1>1. CASE PrintAny
  BY <1>1, PrintAnyKeeps
<1>2. CASE PrintRest
  BY <1>2, PrintRestKeeps
<1>3. CASE PrintFraction
  BY <1>3, PrintFractionKeeps
<1>4. CASE PrintEnd
  <2>1. /\ pc = "print" /\ pos >= Len(fmt) /\ pc' = "printed"
        /\ fmt' = fmt /\ buf' = buf /\ eos' = eos /\ size' = size
    BY <1>4 DEF PrintEnd, Ended, printing
  <2>2. fmt # <<>> => pos > 0
    BY <2>1 DEF PrintInv
  <2> QED BY <2>1, <2>2 DEF PrintInv, Filled
<1>5. CASE ParsePrinted \/ ParseOther \/ ParseEnd \/ ParseRest \/ ParseFraction
  <2>1. buf' = buf /\ size' = size
    BY <1>5 DEF ParsePrinted, ParseOther, ParseEnd, ParseRest, ParseFraction, dt_from_string, printing
  <2>2. pc' \notin {"print", "printed"}
    BY <1>5 DEF ParsePrinted, ParseOther, ParseEnd, ParseRest, ParseFraction, More, dt_from_string, Ended, Stored
  <2> QED BY <2>1, <2>2 DEF PrintInv
<1>6. CASE Forget
  <2>1. pc' = "idle" /\ size' = 1 /\ DOMAIN buf' = {0}
    BY <1>6 DEF Forget
  <2> QED BY <2>1 DEF PrintInv
<1>7. CASE UNCHANGED vars
  BY <1>7 DEF vars, printing, PrintInv, Filled
<1> QED BY <1>1, <1>2, <1>3, <1>4, <1>5, <1>6, <1>7 DEF Next, Step

(***************************************************************************)
(* Whatever the format, the buffer and the representation, dt_to_string    *)
(* never writes beyond its buffer, and what it returns is a string.        *)
(***************************************************************************)
THEOREM NothingIsWrittenBeyond == Spec => []WithinBuffer
<1>1. Init => PrintInv
  BY DEF Init, PrintInv
<1>2. PrintInv /\ [Next]_vars => PrintInv'
  BY PrintStep
<1>3. PrintInv => WithinBuffer
  BY DEF PrintInv, WithinBuffer, Filled, Chars
<1> QED BY <1>1, <1>2, <1>3, PTL DEF Spec
=============================================================================
