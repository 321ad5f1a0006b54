-------------------------- MODULE CivilTime_proofs --------------------------
(***************************************************************************)
(* Proofs about the calendar of LibTzClock, for every zone and every       *)
(* integer: what timesub and localsub compute is what the definitions of   *)
(* CivilTime say, and where they answer.                                   *)
(*                                                                         *)
(* The recursive functions of these modules are loops: the first section   *)
(* shows that they are what their definitions say, and that what every     *)
(* round of a loop keeps, the loop keeps.                                  *)
(***************************************************************************)
EXTENDS CivilTime, FiniteSetTheorems, WellFoundedInduction, TLAPS

(***************************************************************************)
(* A set of natural numbers has a least one.                               *)
(***************************************************************************)
LEMMA LeastNatural ==
  ASSUME NEW S \in SUBSET Nat, S # {}
  PROVE  \E n \in S : \A m \in S : n <= m
<1>1. \A x, y \in Nat : <<y, x>> \in OpToRel(<, Nat) <=> y < x
  BY DEF OpToRel
<1>2. \E R : IsWellFoundedOn(R, Nat) /\ \A x, y \in Nat : <<y, x>> \in R <=> y < x
  BY <1>1, NatLessThanWellFounded, Zenon
<1>3. PICK R : IsWellFoundedOn(R, Nat) /\ \A x, y \in Nat : <<y, x>> \in R <=> y < x
  BY <1>2
<1>4. IsWellFoundedOn(R, S)
  BY <1>3, IsWellFoundedOnSubset
<1>5. PICK n \in S : \A m \in S : ~ (<<m, n>> \in R)
  BY <1>4, WFMin
<1>6. ASSUME NEW m \in S
      PROVE  n <= m
  <2>1. m \in Nat /\ n \in Nat
    OBVIOUS
  <2>2. ~(m < n)
    BY <1>3, <1>5, <2>1
  <2> QED
    BY <2>1, <2>2
<1> QED BY <1>6

(***************************************************************************)
(* Induction on the natural numbers, for a set.                            *)
(***************************************************************************)
LEMMA Counting ==
  ASSUME NEW P \in SUBSET Nat, 0 \in P, \A n \in P : n + 1 \in P
  PROVE  P = Nat
<1> DEFINE Bad == Nat \ P
<1> SUFFICES ASSUME Bad # {} PROVE FALSE
  OBVIOUS
<1>1. PICK n \in Bad : \A m \in Bad : n <= m
  <2>1. Bad \in SUBSET Nat
    OBVIOUS
  <2> HIDE DEF Bad
  <2> QED BY <2>1, LeastNatural
<1>2. n - 1 \in Nat /\ ~(n <= n - 1)
  OBVIOUS
<1>3. n - 1 \in P
  BY <1>1, <1>2
<1>4. n - 1 + 1 \in P
  BY <1>3
<1>5. n - 1 + 1 = n
  OBVIOUS
<1> QED BY <1>4, <1>5

(***************************************************************************)
(* A set that with each number has the smaller ones is 1 .. n.             *)
(***************************************************************************)
LEMMA Prefix ==
  ASSUME NEW n \in Nat, NEW S \in SUBSET (1 .. n), \A i \in S, j \in 1 .. n : j <= i => j \in S
  PROVE  S = 1 .. Cardinality(S) /\ Cardinality(S) \in 0 .. n
<1> DEFINE Bounds == {k \in Nat : S \subseteq 1 .. k}
<1>1. PICK k \in Bounds : \A m \in Bounds : k <= m
  <2>1. Bounds \in SUBSET Nat /\ n \in Bounds
    OBVIOUS
  <2> HIDE DEF Bounds
  <2> QED BY <2>1, LeastNatural
<1>2. k \in Nat /\ k <= n /\ S \subseteq 1 .. k
  <2>1. n \in Bounds
    OBVIOUS
  <2> QED BY <1>1, <2>1
<1>3. S = 1 .. k
  <2>1. CASE k = 0
    BY <1>2, <2>1
  <2>2. CASE k # 0
    <3>1. k - 1 \in Nat /\ ~(k <= k - 1)
      BY <1>2, <2>2
    <3>2. ~(S \subseteq 1 .. k - 1)
      BY <1>1, <3>1
    <3>3. PICK i \in S : i \notin 1 .. k - 1
      BY <3>2
    <3>4. i = k
      BY <1>2, <3>1, <3>3
    <3>5. k \in S /\ k \in 1 .. n
      BY <3>3, <3>4
    <3>6. \A j \in 1 .. k : j \in 1 .. n /\ j <= k
      BY <1>2
    <3>7. \A j \in 1 .. k : j \in S
      BY <3>5, <3>6
    <3> QED BY <1>2, <3>7
  <2> QED BY <2>1, <2>2
<1>4. Cardinality(1 .. k) = k
  <2>1. k \in Int /\ 1 \in Int /\ (1 > k => k = 0)
    BY <1>2
  <2>2. Cardinality(1 .. k) = IF 1 > k THEN 0 ELSE k - 1 + 1
    BY <2>1, FS_Interval
  <2> QED BY <1>2, <2>2
<1> QED BY <1>2, <1>3, <1>4

(***************************************************************************)
(* Numbers of which each is less than the next are in order.               *)
(***************************************************************************)
LEMMA Ascending ==
  ASSUME NEW n \in Nat, NEW v, \A i \in 1 .. n : v[i] \in Int, \A i \in 1 .. n - 1 : v[i] < v[i + 1]
  PROVE  \A i, j \in 1 .. n : i < j => v[i] < v[j]
<1> SUFFICES ASSUME NEW i \in 1 .. n, NEW j \in 1 .. n, i < j PROVE v[i] < v[j]
  OBVIOUS
<1> DEFINE P == {d \in Nat : i + 1 + d <= n => v[i] < v[i + 1 + d]}
<1>1. 0 \in P
  OBVIOUS
<1>2. ASSUME NEW d \in P PROVE d + 1 \in P
  <2> SUFFICES ASSUME i + 1 + (d + 1) <= n PROVE v[i] < v[i + 1 + (d + 1)]
    OBVIOUS
  <2> DEFINE k == i + 1 + d
  <2>1. k \in 1 .. n - 1 /\ k \in 1 .. n /\ k + 1 \in 1 .. n /\ i + 1 + (d + 1) = k + 1
    OBVIOUS
  <2>2. v[i] < v[k]
    BY <1>2, <2>1
  <2> HIDE DEF k
  <2>3. v[k] < v[k + 1] /\ v[i] \in Int /\ v[k] \in Int /\ v[k + 1] \in Int
    BY <2>1
  <2> QED BY <2>1, <2>2, <2>3
<1>3. P = Nat
  <2>1. P \in SUBSET Nat
    OBVIOUS
  <2> HIDE DEF P
  <2> QED BY <1>1, <1>2, <2>1, Counting
<1>4. j - i - 1 \in Nat
  OBVIOUS
<1>5. j - i - 1 \in P
  BY <1>3, <1>4
<1>6. i + 1 + (j - i - 1) = j
  OBVIOUS
<1> QED BY <1>5, <1>6

(***************************************************************************)
(* The loop that goes from p to nx[p] until it is in Stop comes to an end: *)
(* a measure falls.                                                        *)
(***************************************************************************)
Falls(mu, nx, D, Stop) ==
  /\ nx \in [D -> D]
  /\ mu \in [D -> Nat]
  /\ \A p \in D \ Stop : mu[nx[p]] < mu[p]

(* f is a function that computes with it, from res at the end.             *)
Solves(f, D, V, Stop, res, nx, G) ==
  /\ f \in [D -> V]
  /\ \A p \in D : f[p] = IF p \in Stop THEN res[p] ELSE G[p][f[nx[p]]]

(***************************************************************************)
(* So there is a function that is equal to its recursive definition.       *)
(* (TLA+ defines it with CHOOSE.)                                          *)
(***************************************************************************)
LEMMA RecursionSolved ==
  ASSUME NEW D, NEW V, NEW Stop, NEW res \in [D -> V], NEW nx, NEW G \in [D -> [V -> V]],
         NEW mu, Falls(mu, nx, D, Stop)
  PROVE  \E f : Solves(f, D, V, Stop, res, nx, G)
<1>0. nx \in [D -> D] /\ mu \in [D -> Nat] /\ \A p \in D \ Stop : mu[nx[p]] < mu[p]
  BY DEF Falls
<1> USE <1>0
<1> DEFINE Below(n) == {p \in D : mu[p] < n}
           IsFcn(f, n) == /\ f \in [D -> V]
                          /\ \A p \in Below(n) : f[p] = IF p \in Stop THEN res[p] ELSE G[p][f[nx[p]]]
           Bad == {n \in Nat : ~ \E f : IsFcn(f, n)}
<1>1. Bad = {}
  <2> SUFFICES ASSUME Bad # {} PROVE FALSE
    OBVIOUS
  <2>1. PICK n \in Bad : \A m \in Bad : n <= m
    BY LeastNatural
  <2>2. IsFcn(res, 0)
    <3>1. Below(0) = {}
      OBVIOUS
    <3> QED BY <3>1
  <2>3. n \in Nat /\ n # 0
    BY <2>2
  <2>4. PICK g : IsFcn(g, n - 1)
    <3>1. n - 1 \in Nat /\ ~(n <= n - 1)
      BY <2>3
    <3> QED BY <2>1, <3>1
  <2> DEFINE h == [p \in D |-> IF p \in Stop THEN res[p] ELSE G[p][g[nx[p]]]]
  <2>5. h \in [D -> V]
    <3>1. g \in [D -> V] BY <2>4
    <3>2. \A p \in D : nx[p] \in D OBVIOUS
    <3>3. \A p \in D : g[nx[p]] \in V BY <3>1, <3>2
    <3>4. \A p \in D : G[p] \in [V -> V] OBVIOUS
    <3>5. \A p \in D : G[p][g[nx[p]]] \in V BY <3>3, <3>4
    <3>6. \A p \in D : res[p] \in V OBVIOUS
    <3> QED BY <3>5, <3>6
  <2>6. ASSUME NEW p \in Below(n), p \notin Stop
        PROVE  h[nx[p]] = g[nx[p]]
    <3>1. nx[p] \in Below(n - 1)
      <4>1. p \in D /\ nx[p] \in D /\ mu[p] \in Nat /\ mu[nx[p]] \in Nat
        OBVIOUS
      <4>2. mu[nx[p]] < mu[p] /\ mu[p] < n
        BY <2>6
      <4> QED BY <2>3, <4>1, <4>2
    <3>2. g[nx[p]] = IF nx[p] \in Stop THEN res[nx[p]] ELSE G[nx[p]][g[nx[nx[p]]]]
      BY <2>4, <3>1
    <3> QED BY <3>1, <3>2
  <2>7. IsFcn(h, n)
    BY <2>5, <2>6
  <2> QED BY <2>1, <2>7
<1>2. PICK F : \A n \in Nat : IsFcn(F[n], n)
  <2> DEFINE F == [n \in Nat |-> CHOOSE f : IsFcn(f, n)]
  <2>1. ASSUME NEW n \in Nat PROVE IsFcn(F[n], n)
    <3>1. \E f : IsFcn(f, n) BY <1>1
    <3>2. F[n] = CHOOSE f : IsFcn(f, n) OBVIOUS
    <3> HIDE DEF IsFcn, F
    <3> QED BY <3>1, <3>2
  <2> HIDE DEF IsFcn, F
  <2> QED BY <2>1
<1>3. ASSUME NEW f, NEW g, NEW n \in Nat, NEW k \in Nat, n <= k, IsFcn(f, n), IsFcn(g, k)
      PROVE  \A p \in Below(n) : f[p] = g[p]
  <2> DEFINE Differ == {p \in Below(n) : f[p] # g[p]}
             Sizes == {mu[p] : p \in Differ}
  <2> SUFFICES ASSUME Differ # {} PROVE FALSE
    OBVIOUS
  <2>1. Sizes \in SUBSET Nat /\ Sizes # {}
    OBVIOUS
  <2>2. PICK s \in Sizes : \A r \in Sizes : s <= r
    <3> HIDE DEF Sizes
    <3> QED BY <2>1, LeastNatural
  <2>3. PICK p \in Differ : mu[p] = s
    OBVIOUS
  <2>4. p \in Below(k) /\ p \in Below(n)
    BY <1>3
  <2>5. p \notin Stop
    BY <1>3, <2>4
  <2>6. nx[p] \in Below(n) /\ mu[nx[p]] < s
    BY <2>3, <2>4, <2>5
  <2>7. f[nx[p]] = g[nx[p]]
    <3>1. mu[nx[p]] \in Nat /\ s \in Nat BY <2>3
    <3>2. nx[p] \notin Differ
      <4> SUFFICES ASSUME nx[p] \in Differ PROVE FALSE
        OBVIOUS
      <4>1. mu[nx[p]] \in Sizes
        OBVIOUS
      <4> HIDE DEF Sizes
      <4>2. s <= mu[nx[p]]
        BY <2>2, <4>1
      <4> QED BY <2>6, <3>1, <4>2
    <3> QED BY <2>6, <3>2
  <2> QED BY <1>3, <2>4, <2>5, <2>7
<1> DEFINE f == [p \in D |-> F[mu[p] + 1][p]]
<1>4. ASSUME NEW p \in D
      PROVE  /\ F[mu[p] + 1][p] \in V
             /\ F[mu[p] + 1][p] = IF p \in Stop THEN res[p] ELSE G[p][F[mu[nx[p]] + 1][nx[p]]]
  <2>1. mu[p] \in Nat /\ mu[p] + 1 \in Nat /\ p \in Below(mu[p] + 1)
    OBVIOUS
  <2>2. IsFcn(F[mu[p] + 1], mu[p] + 1)
    BY <1>2, <2>1
  <2>3. CASE p \in Stop
    BY <2>1, <2>2, <2>3
  <2>4. CASE p \notin Stop
    <3>1. nx[p] \in D /\ mu[nx[p]] \in Nat /\ mu[nx[p]] < mu[p]
      BY <2>4
    <3>2. mu[nx[p]] + 1 \in Nat /\ mu[nx[p]] + 1 <= mu[p] + 1 /\ nx[p] \in Below(mu[nx[p]] + 1)
      BY <2>1, <3>1
    <3>3. IsFcn(F[mu[nx[p]] + 1], mu[nx[p]] + 1)
      BY <1>2, <3>2
    <3>4. F[mu[nx[p]] + 1][nx[p]] = F[mu[p] + 1][nx[p]]
      <4> HIDE DEF IsFcn, Below
      <4> QED BY <1>3, <2>1, <2>2, <3>2, <3>3
    <3> QED BY <2>1, <2>2, <2>4, <3>4
  <2> QED BY <2>3, <2>4
<1>5. f \in [D -> V]
  BY <1>4
<1>6. \A p \in D : f[p] = IF p \in Stop THEN res[p] ELSE G[p][f[nx[p]]]
  BY <1>4
<1> QED BY <1>5, <1>6 DEF Solves

(***************************************************************************)
(* Induction on a measure.                                                 *)
(***************************************************************************)
LEMMA MeasureInduction ==
  ASSUME NEW D, NEW mu \in [D -> Nat], NEW Good \in SUBSET D,
         \A p \in D : (\A q \in D : mu[q] < mu[p] => q \in Good) => p \in Good
  PROVE  Good = D
<1> DEFINE Bad == D \ Good
           Sizes == {mu[p] : p \in Bad}
<1> SUFFICES ASSUME Bad # {} PROVE FALSE
  OBVIOUS
<1>1. Sizes \in SUBSET Nat /\ Sizes # {}
  OBVIOUS
<1>2. PICK s \in Sizes : \A r \in Sizes : s <= r
  <2> HIDE DEF Sizes
  <2> QED BY <1>1, LeastNatural
<1>3. PICK p \in Bad : mu[p] = s
  OBVIOUS
<1>4. ASSUME NEW q \in D, mu[q] < mu[p]
      PROVE  q \in Good
  <2> SUFFICES ASSUME q \in Bad PROVE FALSE
    OBVIOUS
  <2>1. mu[q] \in Sizes
    OBVIOUS
  <2> HIDE DEF Sizes
  <2>2. s <= mu[q]
    BY <1>2, <2>1
  <2>3. mu[q] \in Nat /\ mu[p] \in Nat
    OBVIOUS
  <2> QED BY <1>3, <1>4, <2>2, <2>3
<1> QED BY <1>4

(***************************************************************************)
(* f goes from p to nx[p] until it is in Home, or gives up when it is      *)
(* Over.                                                                   *)
(***************************************************************************)
Walks(f, D, Home, Over, out, nx) ==
  /\ f = [p \in D |-> f[p]]
  /\ \A p \in D : f[p] = IF p \in Home THEN p ELSE IF p \in Over THEN out ELSE f[nx[p]]

(***************************************************************************)
(* There is such an f, if the measure falls outside of Home.               *)
(***************************************************************************)
LEMMA WalkSolved ==
  ASSUME NEW D, NEW Home, Home \subseteq D, NEW Over, NEW out, NEW nx, NEW mu, Falls(mu, nx, D, Home)
  PROVE  \E f : Walks(f, D, Home, Over, out, nx)
<1> DEFINE V    == D \cup {out}
           Stop == Home \cup Over
           res  == [p \in D |-> IF p \in Home THEN p ELSE out]
           G    == [p \in D |-> [v \in V |-> v]]
<1>1. res \in [D -> V] /\ G \in [D -> [V -> V]]
  OBVIOUS
<1>2. Falls(mu, nx, D, Stop)
  BY DEF Falls
<1>3. PICK f : Solves(f, D, V, Stop, res, nx, G)
  <2> HIDE DEF V, Stop, res, G
  <2> QED BY <1>1, <1>2, RecursionSolved
<1>4. ASSUME NEW p \in D
      PROVE  f[p] = IF p \in Home THEN p ELSE IF p \in Over THEN out ELSE f[nx[p]]
  <2>0. nx[p] \in D
    BY DEF Falls
  <2>1. f[nx[p]] \in V
    <3> HIDE DEF V
    <3> QED BY <1>3, <2>0 DEF Solves
  <2>2. G[p][f[nx[p]]] = f[nx[p]]
    BY <2>1
  <2>3. f[p] = IF p \in Stop THEN res[p] ELSE G[p][f[nx[p]]]
    <3> HIDE DEF Stop, res, G, V
    <3> QED BY <1>3 DEF Solves
  <2> HIDE DEF G, V
  <2> QED BY <2>2, <2>3
<1>5. f = [p \in D |-> f[p]]
  BY <1>3 DEF Solves
<1> QED BY <1>4, <1>5 DEF Walks

(* What each step of a walk keeps ...                                      *)
Keeps(val, nx, D, Home) == \A p \in D \ Home : val[nx[p]] = val[p]
(***************************************************************************)
(* ... is kept by the whole of it, and it ends in Home unless it gives up. *)
(***************************************************************************)
Arrives(f, val, D, Home, out) ==
  \A p \in D : f[p] # out => f[p] \in Home /\ val[f[p]] = val[p]

(***************************************************************************)
(* It does so.                                                             *)
(***************************************************************************)
LEMMA WalkArrives ==
  ASSUME NEW D, NEW Home, Home \subseteq D, NEW Over,
         NEW nx, NEW mu, Falls(mu, nx, D, Home), NEW val, Keeps(val, nx, D, Home),
         NEW out, NEW f, Walks(f, D, Home, Over, out, nx)
  PROVE  Arrives(f, val, D, Home, out)
<1> DEFINE Good == {p \in D : f[p] = out \/ (f[p] \in Home /\ val[f[p]] = val[p])}
<1>1. ASSUME NEW p \in D, \A r \in D : mu[r] < mu[p] => r \in Good
      PROVE  p \in Good
  <2>1. f[p] = IF p \in Home THEN p ELSE IF p \in Over THEN out ELSE f[nx[p]]
    BY DEF Walks
  <2>2. CASE p \in Home \/ p \in Over
    BY <2>1, <2>2
  <2>3. CASE ~(p \in Home \/ p \in Over)
    <3>1. nx[p] \in Good
      BY <1>1, <2>3 DEF Falls
    <3> QED BY <2>1, <2>3, <3>1 DEF Keeps
  <2> QED BY <2>2, <2>3
<1>2. Good = D
  <2>1. Good \in SUBSET D
    OBVIOUS
  <2>2. mu \in [D -> Nat]
    BY DEF Falls
  <2> HIDE DEF Good
  <2> QED BY <1>1, <2>1, <2>2, MeasureInduction
<1> QED BY <1>2 DEF Arrives

(***************************************************************************)
(* leaps_thru_end_of counts the years that 4 divides, less those that 100  *)
(* does, with those that 400 does.                                         *)
(***************************************************************************)
LEMMA LeapsCount ==
  ASSUME NEW y \in Int
  PROVE  leaps_thru_end_of(y) = y \div 4 - y \div 100 + y \div 400
BY DEF leaps_thru_end_of

(***************************************************************************)
(* It counts the leap years (libtz.c leaps_thru_end_of).                   *)
(***************************************************************************)
LEMMA LeapsStep ==
  ASSUME NEW y \in Int
  PROVE  /\ leaps_thru_end_of(y) \in Int
         /\ leaps_thru_end_of(y) - leaps_thru_end_of(y - 1) = IF isleap(y) THEN 1 ELSE 0
<1>1. y \div 4 - (y - 1) \div 4 = IF y % 4 = 0 THEN 1 ELSE 0
  OBVIOUS
<1>2. y \div 100 - (y - 1) \div 100 = IF y % 100 = 0 THEN 1 ELSE 0
  OBVIOUS
<1>3. y \div 400 - (y - 1) \div 400 = IF y % 400 = 0 THEN 1 ELSE 0
  OBVIOUS
<1>4. (y % 100 = 0 => y % 4 = 0) /\ (y % 400 = 0 => y % 100 = 0)
  OBVIOUS
<1>5. y - 1 \in Int OBVIOUS
<1>6. leaps_thru_end_of(y) = y \div 4 - y \div 100 + y \div 400
  BY LeapsCount
<1>7. leaps_thru_end_of(y - 1) = (y - 1) \div 4 - (y - 1) \div 100 + (y - 1) \div 400
  BY <1>5, LeapsCount
<1> QED
  BY <1>1, <1>2, <1>3, <1>4, <1>6, <1>7 DEF isleap

(* The days of a year before its months.                                   *)
MonthTable(y, m) ==
  <<0, 31, 59, 90, 120, 151, 181, 212, 243, 273, 304, 334, 365>>[m + 1]
    + (IF m >= 2 /\ isleap(y) THEN 1 ELSE 0)

(***************************************************************************)
(* MonthStart, which adds the lengths of the months, computes them.        *)
(***************************************************************************)
LEMMA MonthStartTable ==
  ASSUME NEW y \in Int, NEW m \in 0 .. 12
  PROVE  MonthStart[<<y, m>>] = MonthTable(y, m)
<1> DEFINE Table(k) == <<0, 31, 59, 90, 120, 151, 181, 212, 243, 273, 304, 334, 365>>[k + 1]
           D == Int \X (0 .. 12)
           f == [p \in D |-> Table(p[2]) + (IF p[2] >= 2 /\ isleap(p[1]) THEN 1 ELSE 0)]
           Body(g, p) == IF p[2] = 0 THEN 0 ELSE g[<<p[1], p[2] - 1>>] + mon_lengths(p[1])[p[2]]
<1>1. ASSUME NEW p \in D
      PROVE  f[p] = Body(f, p)
  <2>1. p[1] \in Int /\ p[2] \in 0 .. 12 OBVIOUS
  <2>2. CASE p[2] = 0
    BY <2>1, <2>2
  <2>3. CASE p[2] # 0
    <3>1. <<p[1], p[2] - 1>> \in D
      BY <2>1, <2>3
    <3>2. f[<<p[1], p[2] - 1>>] = Table(p[2] - 1) + (IF p[2] - 1 >= 2 /\ isleap(p[1]) THEN 1 ELSE 0)
      BY <3>1
    <3>3. f[p] = Table(p[2]) + (IF p[2] >= 2 /\ isleap(p[1]) THEN 1 ELSE 0)
      OBVIOUS
    <3>4. Body(f, p) = f[<<p[1], p[2] - 1>>] + mon_lengths(p[1])[p[2]]
      BY <2>3
    <3>5. ASSUME NEW k \in 1 .. 12, NEW year \in Int
          PROVE  Table(k) + (IF k >= 2 /\ isleap(year) THEN 1 ELSE 0)
                   = Table(k - 1) + (IF k - 1 >= 2 /\ isleap(year) THEN 1 ELSE 0) + mon_lengths(year)[k]
      BY DEF mon_lengths
    <3>6. p[2] \in 1 .. 12
      BY <2>1, <2>3
    <3> HIDE DEF f, Table, Body
    <3> QED BY <2>1, <3>2, <3>3, <3>4, <3>5, <3>6
  <2> QED BY <2>2, <2>3
<1>2. f = [p \in D |-> f[p]]
  OBVIOUS
<1>3. f = [p \in D |-> Body(f, p)]
  <2> HIDE DEF f, Body, D
  <2> QED BY <1>1, <1>2
<1>4. MonthStart = [p \in D |-> Body(MonthStart, p)]
  <2> HIDE DEF f
  <2> QED BY <1>3 DEF MonthStart
<1>5. ASSUME NEW p \in D
      PROVE  MonthStart[p] = Body(MonthStart, p)
  <2> HIDE DEF D, Body
  <2> QED BY <1>4
<1> DEFINE Right(k) == MonthStart[<<y, k>>] = Table(k) + (IF k >= 2 /\ isleap(y) THEN 1 ELSE 0)
<1>6. Right(0)
  <2>1. <<y, 0>> \in D OBVIOUS
  <2>2. Body(MonthStart, <<y, 0>>) = 0 OBVIOUS
  <2>3. MonthStart[<<y, 0>>] = 0
    <3> HIDE DEF D, Body
    <3> QED BY <1>5, <2>1, <2>2
  <2> QED BY <2>3
<1>7. ASSUME NEW k \in 0 .. 11, Right(k)
      PROVE  Right(k + 1)
  <2>1. <<y, k + 1>> \in D OBVIOUS
  <2>2. MonthStart[<<y, k + 1>>] = MonthStart[<<y, k>>] + mon_lengths(y)[k + 1]
    BY <1>5, <2>1
  <2> QED BY <1>7, <2>2 DEF mon_lengths
<1>8. \A k \in 0 .. 12 : Right(k)
  <2> HIDE DEF Right
  <2> QED BY <1>6, <1>7
<1> QED BY <1>8 DEF MonthTable

(***************************************************************************)
(* The day a year begins, counted from 1970; the day that is meant by a    *)
(* year and a day in it, or far from it.                                   *)
(***************************************************************************)
YearStart(y) == 365 * (y - 1970) + leaps_thru_end_of(y - 1) - leaps_thru_end_of(1969)
DayOf(p) == YearStart(p[1]) + p[2]

(***************************************************************************)
(* In k years there are at most k leap years.                              *)
(***************************************************************************)
LEMMA LeapsBetween ==
  ASSUME NEW y \in Int, NEW k \in Nat
  PROVE  0 <= leaps_thru_end_of(y + k) - leaps_thru_end_of(y) /\ leaps_thru_end_of(y + k) - leaps_thru_end_of(y) <= k
<1> DEFINE Diff(n) == leaps_thru_end_of(y + n) - leaps_thru_end_of(y)
           Good == {n \in Nat : 0 <= Diff(n) /\ Diff(n) <= n}
           mu == [n \in Nat |-> n]
<1>1. ASSUME NEW n \in Nat, \A q \in Nat : mu[q] < mu[n] => q \in Good
      PROVE  n \in Good
  <2>1. CASE n = 0
    BY <2>1, LeapsStep
  <2>2. CASE n # 0
    <3>1. n - 1 \in Nat /\ mu[n - 1] < mu[n]
      BY <2>2
    <3>2. n - 1 \in Good
      BY <1>1, <3>1
    <3>3. y + n \in Int /\ y + (n - 1) = y + n - 1 /\ y + n - 1 \in Int
      OBVIOUS
    <3>4. leaps_thru_end_of(y + n) - leaps_thru_end_of(y + (n - 1)) \in {0, 1}
      BY <3>3, LeapsStep
    <3>5. leaps_thru_end_of(y + n) \in Int /\ leaps_thru_end_of(y + (n - 1)) \in Int /\ leaps_thru_end_of(y) \in Int
      BY <3>3, LeapsStep
    <3> QED BY <3>2, <3>4, <3>5
  <2> QED BY <2>1, <2>2
<1>2. Good = Nat
  <2>1. mu \in [Nat -> Nat] /\ Good \in SUBSET Nat OBVIOUS
  <2> HIDE DEF mu, Good
  <2> QED BY <1>1, <2>1, MeasureInduction
<1> QED BY <1>2

(***************************************************************************)
(* A year begins where the one before it ends.                             *)
(***************************************************************************)
LEMMA YearStarts ==
  ASSUME NEW y \in Int
  PROVE  /\ YearStart(y) \in Int
         /\ YearStart(y + 1) = YearStart(y) + year_lengths(y)
         /\ YearStart(y) = YearStart(y - 1) + year_lengths(y - 1)
         /\ year_lengths(y) \in {365, 366}
<1>1. /\ leaps_thru_end_of(y) \in Int /\ leaps_thru_end_of(y - 1) \in Int /\ leaps_thru_end_of(1969) \in Int
      /\ leaps_thru_end_of(y - 2) \in Int
  BY LeapsStep
<1>2. leaps_thru_end_of(y) - leaps_thru_end_of(y - 1) = IF isleap(y) THEN 1 ELSE 0
  BY LeapsStep
<1>3. leaps_thru_end_of(y - 1) - leaps_thru_end_of(y - 2) = IF isleap(y - 1) THEN 1 ELSE 0
  <2>1. y - 1 \in Int /\ y - 1 - 1 = y - 2 OBVIOUS
  <2> QED BY <2>1, LeapsStep
<1>4. y + 1 - 1 = y /\ y - 1 - 1 = y - 2
  OBVIOUS
<1> QED
  BY <1>1, <1>2, <1>3, <1>4 DEF YearStart, year_lengths, DAYSPERLYEAR, DAYSPERNYEAR

(* One round of timesub's loop over the years.                             *)
FindNext(p) ==
  LET tdelta == CDiv(p[2], DAYSPERLYEAR)
      idelta == IF tdelta # 0 THEN tdelta ELSE IF p[2] < 0 THEN -1 ELSE 1
      newy   == p[1] + idelta
  IN  <<newy, p[2] - idelta * DAYSPERNYEAR
                              - (leaps_thru_end_of(newy - 1) - leaps_thru_end_of(p[1] - 1))>>

(***************************************************************************)
(* It stays on the day, and comes closer to the year of it.                *)
(***************************************************************************)
LEMMA FindCloser ==
  ASSUME NEW p \in Int \X Int, ~InYear(p)
  PROVE  /\ FindNext(p) \in Int \X Int
         /\ DayOf(FindNext(p)) = DayOf(p)
         /\ IF p[2] < 0 THEN (p[2] < FindNext(p)[2] /\ FindNext(p)[2] <= 0) \/ InYear(FindNext(p))
            ELSE 0 <= FindNext(p)[2] /\ FindNext(p)[2] < p[2]
<1> DEFINE y == p[1]
           d == p[2]
           tdelta == CDiv(d, DAYSPERLYEAR)
           idelta == IF tdelta # 0 THEN tdelta ELSE IF d < 0 THEN -1 ELSE 1
           newy == y + idelta
           Leaps(n) == leaps_thru_end_of(n - 1)
           newd == d - idelta * 365 - (Leaps(newy) - Leaps(y))
<1>1. y \in Int /\ d \in Int /\ idelta \in Int /\ newy \in Int
  BY DEF CDiv, DAYSPERLYEAR
<1>2. Leaps(newy) \in Int /\ Leaps(y) \in Int /\ leaps_thru_end_of(1969) \in Int
  <2>1. newy - 1 \in Int /\ y - 1 \in Int BY <1>1
  <2> HIDE DEF newy, y
  <2> QED BY <2>1, LeapsStep
<1>3. FindNext(p) = <<newy, newd>>
  BY DEF FindNext, DAYSPERNYEAR
<1>4. newd \in Int
  BY <1>1, <1>2
<1>5. DayOf(FindNext(p)) = DayOf(p)
  <2> HIDE DEF idelta
  <2> QED
  BY <1>1, <1>2, <1>3, <1>4 DEF DayOf, YearStart
<1>6. year_lengths(y) \in {365, 366}
  BY <1>1, YearStarts
<1>7. CASE d < 0
  <2> DEFINE k == -idelta
  <2> DEFINE q == (-d) \div 366
  <2>1. -d \in Nat /\ q \in Nat /\ 366 * q <= -d /\ -d < 366 * q + 366
    BY <1>1, <1>7
  <2>2. tdelta = -q
    BY <1>1, <1>7 DEF CDiv, DAYSPERLYEAR
  <2>3. k = IF q # 0 THEN q ELSE 1
    <3> HIDE DEF q, tdelta, d
    <3> QED BY <1>7, <2>1, <2>2
  <2>4. k \in Nat /\ k >= 1 /\ idelta = -k
    <3> HIDE DEF q, idelta
    <3> QED BY <1>1, <2>1, <2>3
  <2>5. 0 <= Leaps(y) - Leaps(newy) /\ Leaps(y) - Leaps(newy) <= k
    <3>1. newy - 1 \in Int /\ newy - 1 + k = y - 1
      BY <1>1
    <3> HIDE DEF k, newy, y
    <3> QED BY <2>4, <3>1, LeapsBetween
  <2>6. newd = d + 365 * k + (Leaps(y) - Leaps(newy))
    <3> HIDE DEF k, idelta, Leaps, newy, y, d
    <3> QED BY <1>1, <1>2, <2>4
  <2>7. CASE q # 0
    <3>1. d < newd /\ newd <= 0
      <4> HIDE DEF k, q, idelta, Leaps, newy, newd, y, d
      <4> QED BY <1>1, <1>2, <1>4, <1>7, <2>1, <2>3, <2>4, <2>5, <2>6, <2>7
    <3> QED BY <1>3, <1>4, <1>5, <1>1, <1>7, <3>1
  <2>8. CASE q = 0
    <3>1. newy = y - 1 /\ -d < 366
      <4> HIDE DEF k, q, idelta
      <4> QED BY <1>1, <2>1, <2>3, <2>4, <2>8
    <3>2. Leaps(y) - Leaps(newy) = IF isleap(newy) THEN 1 ELSE 0
      BY <1>1, <3>1, LeapsStep
    <3>3. newd = d + year_lengths(newy)
      <4> HIDE DEF k, q, idelta, Leaps, newy, newd, y, d
      <4> QED BY <1>1, <1>2, <2>3, <2>6, <2>8, <3>2 DEF year_lengths, DAYSPERLYEAR, DAYSPERNYEAR
    <3>4. year_lengths(newy) \in {365, 366}
      BY <1>1, YearStarts
    <3>5. InYear(<<newy, newd>>)
      <4> HIDE DEF k, q, idelta, Leaps, newy, newd, y, d
      <4> QED BY <1>1, <1>4, <1>7, <3>1, <3>3, <3>4 DEF InYear
    <3> QED BY <1>3, <1>4, <1>5, <1>1, <1>7, <3>5
  <2> QED BY <2>7, <2>8
<1>8. CASE d >= 0
  <2>1. d >= 365
    BY <1>1, <1>6, <1>8 DEF InYear
  <2>2. idelta \in Nat /\ idelta >= 1 /\ (d >= 366 => 366 * idelta <= d) /\ (d = 365 => idelta = 1)
    BY <1>1, <1>8, <2>1 DEF CDiv, DAYSPERLYEAR
  <2>3. 0 <= Leaps(newy) - Leaps(y) /\ Leaps(newy) - Leaps(y) <= idelta
    <3>1. y - 1 \in Int /\ y - 1 + idelta = newy - 1
      BY <1>1
    <3> HIDE DEF idelta, newy, y
    <3> QED BY <2>2, <3>1, LeapsBetween
  <2>4. d = 365 => Leaps(newy) - Leaps(y) = 0
    <3> SUFFICES ASSUME d = 365 PROVE Leaps(newy) - Leaps(y) = 0
      OBVIOUS
    <3>1. ~isleap(y)
      BY <1>1 DEF InYear, year_lengths, DAYSPERLYEAR
    <3>2. newy - 1 = y
      BY <1>1, <2>2
    <3>3. leaps_thru_end_of(y) - leaps_thru_end_of(y - 1) = 0
      BY <1>1, <3>1, LeapsStep
    <3> HIDE DEF newy, y
    <3> QED BY <3>2, <3>3
  <2> HIDE DEF idelta
  <2> QED BY <1>1, <1>2, <1>3, <1>4, <1>5, <1>8, <2>1, <2>2, <2>3, <2>4
<1> QED BY <1>1, <1>7, <1>8

(* How far a day is from its year.                                         *)
Distance(p) == IF InYear(p) THEN 0 ELSE IF p[2] < 0 THEN -p[2] ELSE p[2]

(* The places timesub's loop over the years ends at, those it gives up at, *)
(* and its rounds.                                                         *)
YearHome == {q \in Int \X Int : InYear(q)}
FindOver == {q \in Int \X Int : ~IsInt(CDiv(q[2], DAYSPERLYEAR)) \/ ~IsInt(FindNext(q)[1])}
FindMove == [q \in Int \X Int |-> IF InYear(q) THEN q ELSE FindNext(q)]
YearsOff == [q \in Int \X Int |-> Distance(q)]
TheDays  == [q \in Int \X Int |-> DayOf(q)]

(***************************************************************************)
(* How far it is counts down.                                              *)
(***************************************************************************)
LEMMA DistanceCounts ==
  ASSUME NEW q \in Int \X Int
  PROVE  Distance(q) \in Nat /\ (~InYear(q) => Distance(q) > 0)
<1>1. year_lengths(q[1]) \in {365, 366}
  BY YearStarts
<1> QED BY <1>1 DEF Distance, InYear

(***************************************************************************)
(* The loop is a walk from year to year that ends.                         *)
(***************************************************************************)
LEMMA FindYearWalks ==
  /\ Falls(YearsOff, FindMove, Int \X Int, YearHome)
  /\ Keeps(TheDays, FindMove, Int \X Int, YearHome)
  /\ Walks(FindYear, Int \X Int, YearHome, FindOver, OVERFLOW, FindMove)
<1> DEFINE D    == Int \X Int
           tdelta(q) == CDiv(q[2], DAYSPERLYEAR)
           Body(f, q) == IF q \in YearHome THEN q ELSE IF q \in FindOver THEN OVERFLOW ELSE f[FindMove[q]]
<1>1. FindMove \in [D -> D] /\ YearsOff \in [D -> Nat]
  BY DistanceCounts, FindCloser DEF FindMove, YearsOff
<1>2. \A q \in D \ YearHome : YearsOff[FindMove[q]] < YearsOff[q] /\ TheDays[FindMove[q]] = TheDays[q]
  <2> SUFFICES ASSUME NEW q \in D, ~InYear(q)
               PROVE  /\ FindNext(q) \in D
                      /\ Distance(FindNext(q)) < Distance(q) /\ DayOf(FindNext(q)) = DayOf(q)
    BY DEF YearHome, FindMove, YearsOff, TheDays
  <2> QED BY DistanceCounts, FindCloser DEF Distance
<1>3. Falls(YearsOff, FindMove, D, YearHome) /\ Keeps(TheDays, FindMove, D, YearHome) /\ YearHome \subseteq D
  BY <1>1, <1>2 DEF Falls, Keeps, YearHome
<1> DEFINE Step(f, q) == IF InYear(q) THEN q
                         ELSE IF ~IsInt(tdelta(q)) \/ ~IsInt(FindNext(q)[1]) THEN OVERFLOW
                         ELSE f[FindNext(q)]
<1>4. ASSUME NEW f, NEW q \in D
      PROVE  Body(f, q) = Step(f, q)
  BY DEF YearHome, FindOver, FindMove
<1>5. PICK f : Walks(f, D, YearHome, FindOver, OVERFLOW, FindMove)
  BY <1>3, WalkSolved
<1>6. \E g : g = [q \in D |-> Step(g, q)]
  <2>1. \A q \in D : f[q] = Step(f, q)
    BY <1>4, <1>5 DEF Walks
  <2>2. f = [q \in D |-> f[q]]
    BY <1>5 DEF Walks
  <2> HIDE DEF Body, Step, D
  <2>3. f = [q \in D |-> Step(f, q)]
    BY <2>1, <2>2
  <2> QED BY <2>3
<1>7. FindYear = [q \in D |-> Step(FindYear, q)]
  BY <1>6 DEF FindYear, FindNext
<1>8. Walks(FindYear, D, YearHome, FindOver, OVERFLOW, FindMove)
  <2>1. ASSUME NEW q \in D
        PROVE  FindYear[q] = Body(FindYear, q)
    <3> HIDE DEF Body, Step, D
    <3> QED BY <1>4, <1>7
  <2>2. FindYear = [q \in D |-> FindYear[q]]
    <3> HIDE DEF Step, D
    <3> QED BY <1>7
  <2> QED BY <2>1, <2>2 DEF Walks
<1> QED BY <1>3, <1>8

(***************************************************************************)
(* timesub's estimates end in the year of the day, unless the year is none *)
(* an int holds.                                                           *)
(***************************************************************************)
LEMMA FindYearRight ==
  ASSUME NEW p \in Int \X Int, FindYear[p] # OVERFLOW
  PROVE  FindYear[p] \in Int \X Int /\ InYear(FindYear[p]) /\ DayOf(FindYear[p]) = DayOf(p)
<1>1. YearHome \subseteq Int \X Int
  BY DEF YearHome
<1>2. Arrives(FindYear, TheDays, Int \X Int, YearHome, OVERFLOW)
  BY <1>1, FindYearWalks, WalkArrives
<1> QED BY <1>2 DEF Arrives, TheDays, YearHome

(* MonthTable, month by month.                                             *)
StartsOfMonths(y, leap) ==
  LET S(m) == MonthStart[<<y, m>>]
  IN  /\ S(0) = 0 /\ S(1) = 31 /\ S(2) = 59 + leap /\ S(3) = 90 + leap
      /\ S(4) = 120 + leap /\ S(5) = 151 + leap /\ S(6) = 181 + leap /\ S(7) = 212 + leap
      /\ S(8) = 243 + leap /\ S(9) = 273 + leap /\ S(10) = 304 + leap /\ S(11) = 334 + leap
      /\ S(12) = 365 + leap

LeapDay(y) == IF isleap(y) THEN 1 ELSE 0

(***************************************************************************)
(* The months begin there.                                                 *)
(***************************************************************************)
LEMMA MonthStarts ==
  ASSUME NEW y \in Int
  PROVE  StartsOfMonths(y, LeapDay(y)) /\ LeapDay(y) \in {0, 1}
<1> DEFINE f(m) == MonthTable(y, m)
           S(m) == MonthStart[<<y, m>>]
<1>1. ASSUME NEW m \in 0 .. 12 PROVE S(m) = f(m)
  BY MonthStartTable
<1>2. /\ f(0) = 0 /\ f(1) = 31 /\ f(2) = 59 + LeapDay(y) /\ f(3) = 90 + LeapDay(y)
      /\ f(4) = 120 + LeapDay(y) /\ f(5) = 151 + LeapDay(y) /\ f(6) = 181 + LeapDay(y)
      /\ f(7) = 212 + LeapDay(y) /\ f(8) = 243 + LeapDay(y) /\ f(9) = 273 + LeapDay(y)
      /\ f(10) = 304 + LeapDay(y) /\ f(11) = 334 + LeapDay(y) /\ f(12) = 365 + LeapDay(y)
  BY DEF LeapDay, MonthTable
<1>3. /\ S(0) = f(0) /\ S(1) = f(1) /\ S(2) = f(2) /\ S(3) = f(3) /\ S(4) = f(4) /\ S(5) = f(5)
      /\ S(6) = f(6) /\ S(7) = f(7) /\ S(8) = f(8) /\ S(9) = f(9) /\ S(10) = f(10) /\ S(11) = f(11)
      /\ S(12) = f(12)
  <2> HIDE DEF f, S
  <2> QED BY <1>1
<1>4. StartsOfMonths(y, LeapDay(y))
  <2> HIDE DEF f
  <2> QED BY <1>2, <1>3 DEF StartsOfMonths
<1> QED BY <1>4 DEF LeapDay

(***************************************************************************)
(* A month begins where the one before it ends, and has 28 to 31 days.     *)
(***************************************************************************)
LEMMA MonthLengths ==
  ASSUME NEW y \in Int, NEW m \in 0 .. 11
  PROVE  /\ MonthStart[<<y, m + 1>>] = MonthStart[<<y, m>>] + mon_lengths(y)[m + 1]
         /\ MonthStart[<<y, m>>] \in Nat
         /\ mon_lengths(y)[m + 1] \in 28 .. 31
<1> DEFINE S(k) == MonthStart[<<y, k>>]
           leap == LeapDay(y)
<1>1. leap \in {0, 1}
  BY DEF LeapDay
<1>2. /\ mon_lengths(y)[1] = 31 /\ mon_lengths(y)[2] = 28 + leap /\ mon_lengths(y)[3] = 31
      /\ mon_lengths(y)[4] = 30 /\ mon_lengths(y)[5] = 31 /\ mon_lengths(y)[6] = 30
      /\ mon_lengths(y)[7] = 31 /\ mon_lengths(y)[8] = 31 /\ mon_lengths(y)[9] = 30
      /\ mon_lengths(y)[10] = 31 /\ mon_lengths(y)[11] = 30 /\ mon_lengths(y)[12] = 31
  BY DEF mon_lengths, LeapDay
<1>3. StartsOfMonths(y, leap)
  BY MonthStarts
<1> DEFINE Right(k) == S(k + 1) = S(k) + mon_lengths(y)[k + 1] /\ S(k) \in Nat /\ mon_lengths(y)[k + 1] \in 28 .. 31
<1>4. Right(0) /\ Right(1) /\ Right(2) /\ Right(3) /\ Right(4) /\ Right(5)
  <2> HIDE DEF leap
  <2> QED BY <1>1, <1>2, <1>3 DEF StartsOfMonths
<1>5. Right(6) /\ Right(7) /\ Right(8) /\ Right(9) /\ Right(10) /\ Right(11)
  <2> HIDE DEF leap
  <2> QED BY <1>1, <1>2, <1>3 DEF StartsOfMonths
<1>6. \A k \in 0 .. 11 : Right(k)
  <2> HIDE DEF Right
  <2> QED BY <1>4, <1>5
<1> QED BY <1>6

(***************************************************************************)
(* A day of the year is in one of its months.                              *)
(***************************************************************************)
LEMMA MonthFound ==
  ASSUME NEW p \in Int \X Int, InYear(p)
  PROVE  \E m \in 0 .. 11 : MonthStart[<<p[1], m>>] <= p[2] /\ p[2] < MonthStart[<<p[1], m + 1>>]
<1> DEFINE S(k) == MonthStart[<<p[1], k>>]
           leap == LeapDay(p[1])
           d == p[2]
<1>1. leap \in {0, 1} /\ d \in Int /\ 0 <= d /\ d < 365 + leap
  BY DEF InYear, year_lengths, DAYSPERLYEAR, DAYSPERNYEAR, LeapDay
<1>2. p[1] \in Int
  OBVIOUS
<1>3. StartsOfMonths(p[1], leap)
  BY <1>2, MonthStarts
<1> DEFINE In(k) == S(k) <= d /\ d < S(k + 1)
<1>4. \/ In(0) \/ In(1) \/ In(2) \/ In(3) \/ In(4) \/ In(5)
      \/ In(6) \/ In(7) \/ In(8) \/ In(9) \/ In(10) \/ In(11)
  <2> HIDE DEF leap, d
  <2> QED BY <1>1, <1>3 DEF StartsOfMonths
<1>5. \E m \in 0 .. 11 : In(m)
  <2> HIDE DEF In
  <2> QED BY <1>4
<1> QED BY <1>5

(* The days up to a date, by the arithmetic of timesub ...                 *)
DaysTo(y, m, mday) == YearStart(y) + MonthStart[<<y, m>>] + mday - 1

(***************************************************************************)
(* ... and by the calendar's definition: they are the same.                *)
(***************************************************************************)
LEMMA DaysOfDate ==
  ASSUME NEW b, NEW y \in Int, NEW m \in 0 .. 11, b.mday \in Int,
         b.year = y - TM_YEAR_BASE, b.mon = m
  PROVE  Days(b) = DaysTo(y, m, b.mday) /\ Days(b) \in Int
<1> DEFINE S(k) == MonthStart[<<y, k>>]
           leap == LeapDay(y)
           count(n) == 365 * n + leaps_thru_end_of(n)
<1>1. leap \in {0, 1} /\ leaps_thru_end_of(y) \in Int /\ leaps_thru_end_of(y - 1) \in Int
      /\ leaps_thru_end_of(y) = leaps_thru_end_of(y - 1) + leap
  <2>1. y - 1 \in Int OBVIOUS
  <2> QED BY <2>1, LeapsStep DEF LeapDay
<1>2. /\ leaps_thru_end_of(y) = y \div 4 - y \div 100 + y \div 400
      /\ leaps_thru_end_of(y - 1) = (y - 1) \div 4 - (y - 1) \div 100 + (y - 1) \div 400
  <2>1. y - 1 \in Int OBVIOUS
  <2> QED BY <2>1, LeapsCount
<1>3. leaps_thru_end_of(1969) = 477
  BY LeapsCount
<1>4. StartsOfMonths(y, leap)
  BY MonthStarts
<1>5. TM_YEAR_BASE + b.year + b.mon \div 12 = y /\ b.mon % 12 = m
  BY DEF TM_YEAR_BASE
<1>6. Days(b) = count(IF m <= 1 THEN y - 1 ELSE y) + (153 * ((m + 10) % 12) + 2) \div 5 + b.mday - 719469
  <2> DEFINE yy == IF m <= 1 THEN y - 1 ELSE y
  <2>1. yy \in Int
    OBVIOUS
  <2>2. Days(b) = 365 * yy + yy \div 4 - yy \div 100 + yy \div 400
                   + (153 * ((m + 10) % 12) + 2) \div 5 + b.mday - 719469
    BY <1>5, SMT DEF Days
  <2>3. leaps_thru_end_of(yy) = yy \div 4 - yy \div 100 + yy \div 400
    <3> HIDE DEF yy
    <3> QED BY <2>1, LeapsCount
  <2>4. (153 * ((m + 10) % 12) + 2) \div 5 \in Int
    OBVIOUS
  <2> HIDE DEF S, leap, yy
  <2>5. Days(b) = count(yy) + (153 * ((m + 10) % 12) + 2) \div 5 + b.mday - 719469
    BY <2>1, <2>2, <2>3, <2>4, SMT
  <2> QED BY <2>5, SMT DEF yy
<1>7. YearStart(y) = 365 * (y - 1970) + leaps_thru_end_of(y - 1) - 477
  BY <1>3 DEF YearStart
<1> DEFINE March(k) == (153 * ((k + 10) % 12) + 2) \div 5
           Right(k) == count(IF k <= 1 THEN y - 1 ELSE y) + March(k) - 719469 = YearStart(y) + S(k) - 1
<1> HIDE DEF leap, S
<1>8. /\ March(0) = 306 /\ March(1) = 337 /\ March(2) = 0 /\ March(3) = 31
      /\ March(4) = 61 /\ March(5) = 92 /\ March(6) = 122 /\ March(7) = 153
      /\ March(8) = 184 /\ March(9) = 214 /\ March(10) = 245 /\ March(11) = 275
  OBVIOUS
<1>9. Right(0) /\ Right(1)
  <2> HIDE DEF March
  <2> QED BY <1>1, <1>4, <1>7, <1>8, SMT DEF StartsOfMonths, S
<1>10. Right(2) /\ Right(3) /\ Right(4) /\ Right(5) /\ Right(6) /\ Right(7) /\ Right(8) /\ Right(9)
       /\ Right(10) /\ Right(11)
  <2> HIDE DEF March
  <2> QED BY <1>1, <1>4, <1>7, <1>8, SMT DEF StartsOfMonths, S
<1>11. Right(m)
  <2> HIDE DEF Right
  <2> QED BY <1>9, <1>10, SMT
<1>12. S(m) \in Int /\ YearStart(y) \in Int
  <2>1. MonthStart[<<y, m>>] \in Nat
    BY MonthLengths
  <2> QED BY <2>1, YearStarts DEF S
<1> QED
  BY <1>1, <1>6, <1>11, <1>12, SMT DEF S, DaysTo

(***************************************************************************)
(* Products of integers, for the provers.                                  *)
(***************************************************************************)
LEMMA Products ==
  ASSUME NEW a \in Int, NEW b \in Int
  PROVE  /\ a * b \in Int /\ a * b = b * a
         /\ a > 0 /\ b > 0 => a * b > 0
         /\ \A c \in Int : a * (b + c) = a * b + a * c /\ (a * b) * c = a * (b * c)
BY SMT

(***************************************************************************)
(* Quotient and remainder.                                                 *)
(***************************************************************************)
LEMMA DivMod ==
  ASSUME NEW a \in Int, NEW b \in Nat \ {0}
  PROVE  /\ a \div b \in Int /\ a % b \in 0 .. b - 1
         /\ a = b * (a \div b) + (a % b)
<1>1. a \div b \in Int /\ a % b \in 0 .. b - 1
  BY SMT
<1>2. b * (a \div b) \in Int
  BY SMT
<1>3. a % b = a - b * (a \div b)
  BY SMT
<1> DEFINE p == b * (a \div b)
           r == a % b
<1>4. r = a - p /\ p \in Int /\ r \in Int
  BY <1>1, <1>2, <1>3
<1>5. a = p + r
  <2> HIDE DEF p, r
  <2> QED BY <1>4
<1> QED BY <1>1, <1>5

Divided(a, b, q, r) == q \in Int /\ r \in 0 .. b - 1 /\ a = b * q + r

(***************************************************************************)
(* There is one quotient and one remainder.                                *)
(***************************************************************************)
LEMMA DivModUnique ==
  ASSUME NEW a \in Int, NEW b \in Nat \ {0}, NEW q, NEW r, Divided(a, b, q, r)
  PROVE  a \div b = q /\ a % b = r
BY SMT DEF Divided

(***************************************************************************)
(* A quotient is as small as the dividend says.                            *)
(***************************************************************************)
LEMMA DivBelow ==
  ASSUME NEW a \in Nat, NEW b \in Nat \ {0}, NEW c \in Nat \ {0}, a < b * c
  PROVE  a \div b \in 0 .. c - 1
BY SMT

(* A second of the day, as hours, minutes and seconds.                     *)
ClockShows(sod, M, S, hour, min, sec, H) ==
  /\ hour \in 0 .. H - 1 /\ min \in 0 .. M - 1 /\ sec \in 0 .. S - 1
  /\ sod = (hour * M + min) * S + sec

(***************************************************************************)
(* timesub's divisions and remainders take it apart.                       *)
(***************************************************************************)
LEMMA ClockCounts ==
  ASSUME NEW M \in Nat \ {0}, NEW S \in Nat \ {0}, NEW H \in Nat \ {0}, NEW sod \in 0 .. S * M * H - 1
  PROVE  ClockShows(sod, M, S, sod \div (S * M), (sod % (S * M)) \div S, sod % S, H)
<1> DEFINE SM == S * M
           hour == sod \div SM
           rest == sod % SM
           min  == rest \div S
<1>1. SM \in Nat \ {0} /\ sod \in Nat /\ sod < SM * H
  BY SMT
<1>2. hour \in Int /\ rest \in 0 .. SM - 1 /\ sod = SM * hour + rest
  <2> HIDE DEF SM
  <2> QED BY <1>1, DivMod
<1>3. hour \in 0 .. H - 1
  <2> HIDE DEF SM
  <2> QED BY <1>1, DivBelow
<1>4. min \in 0 .. M - 1
  <2>1. rest \in Nat /\ rest < S * M
    BY <1>1, <1>2
  <2> HIDE DEF rest
  <2> QED BY <2>1, DivBelow
<1>5. rest % S \in 0 .. S - 1 /\ rest = S * min + (rest % S)
  <2>1. rest \in Int
    BY <1>1, <1>2
  <2> HIDE DEF rest
  <2> QED BY <2>1, DivMod
<1> DEFINE q == M * hour + min
           r == rest % S
<1>6. sod = S * q + r /\ q \in Int /\ q = hour * M + min /\ S * q = q * S
  <2> HIDE DEF min, rest, hour
  <2>1. hour \in Int /\ min \in Int /\ S \in Int /\ M \in Int
    BY <1>3, <1>4
  <2>2. M * hour \in Int /\ M * hour = hour * M /\ SM * hour = S * (M * hour)
    BY <2>1, Products
  <2> DEFINE mh == M * hour
  <2>3. S * (mh + min) = S * mh + S * min /\ S * mh \in Int /\ S * min \in Int
    <3> HIDE DEF mh
    <3> QED BY <2>1, <2>2, Products DEF mh
  <2>4. sod = S * mh + rest /\ rest = S * min + r /\ r \in Int
    BY <1>2, <1>5, <2>2
  <2> DEFINE a == S * mh
             b == S * min
             c == S * (mh + min)
  <2>5. sod = c + r
    <3>1. sod = a + rest /\ rest = b + r /\ c = a + b /\ a \in Int /\ b \in Int /\ r \in Int
      BY <2>3, <2>4
    <3> HIDE DEF a, b, c, r
    <3> QED BY <3>1
  <2>6. S * q = q * S /\ q \in Int
    <3>1. q \in Int
      BY <2>1, <2>2
    <3> HIDE DEF q
    <3> QED BY <2>1, <3>1, Products
  <2> QED BY <2>2, <2>5, <2>6
<1>7. sod % S = r
  <2>1. r \in 0 .. S - 1
    BY <1>5
  <2> HIDE DEF q, r, SM
  <2>2. Divided(sod, S, q, r)
    BY <1>6, <2>1 DEF Divided
  <2> QED BY <1>1, <2>2, DivModUnique
<1> QED
  <2>1. sod = q * S + r /\ q = hour * M + min
    <3> HIDE DEF q, r, SM, hour, min
    <3> QED BY <1>6
  <2> HIDE DEF q, r, min, rest, hour
  <2>2. sod = (hour * M + min) * S + r
    BY <2>1, Zenon
  <2>3. ClockShows(sod, M, S, hour, min, r, H)
    BY <1>3, <1>4, <1>5, <1>7, <2>2 DEF r, ClockShows
  <2> QED BY <1>7, <2>3 DEF hour, min, rest

(* A struct tm, with fields of any size.                                   *)
StructTm ==
  [year : Int, mon : Int, mday : Int, hour : Int, min : Int, sec : Int,
   wday : Int, yday : Int, isdst : Int]

(***************************************************************************)
(* timesub's loop over the months and its day of the week are those of the *)
(* day.                                                                    *)
(***************************************************************************)
LEMMA DateRight ==
  ASSUME NEW p \in Int \X Int, InYear(p)
  PROVE  LET date == DateFields[p]
         IN  /\ date.year = p[1] - TM_YEAR_BASE /\ date.yday = p[2]
             /\ date.mon \in 0 .. 11 /\ date.mday \in 1 .. mon_lengths(p[1])[date.mon + 1]
             /\ p[2] = MonthStart[<<p[1], date.mon>>] + date.mday - 1
             /\ date.wday = (DayOf(p) + EPOCH_WDAY) % DAYSPERWEEK
<1> DEFINE date == DateFields[p]
           y == p[1]
           d == p[2]
           mon == CHOOSE m \in 0 .. 11 : MonthStart[<<y, m>>] <= d /\ d < MonthStart[<<y, m + 1>>]
           wday == EPOCH_WDAY + CMod(y - EPOCH_YEAR, DAYSPERWEEK) * (DAYSPERNYEAR % DAYSPERWEEK)
                     + leaps_thru_end_of(y - 1) - leaps_thru_end_of(EPOCH_YEAR - 1) + d
<1>1. date = [year |-> y - TM_YEAR_BASE, mon |-> mon, mday |-> d - MonthStart[<<y, mon>>] + 1,
              wday |-> wday % DAYSPERWEEK, yday |-> d]
  BY DEF DateFields
<1>2. mon \in 0 .. 11 /\ MonthStart[<<y, mon>>] <= d /\ d < MonthStart[<<y, mon + 1>>]
  BY MonthFound
<1>3. y \in Int /\ d \in Int
  OBVIOUS
<1> HIDE DEF mon
<1>4. date.mday \in 1 .. mon_lengths(y)[date.mon + 1] /\ d = MonthStart[<<y, date.mon>>] + date.mday - 1
  <2>1. /\ MonthStart[<<y, mon + 1>>] = MonthStart[<<y, mon>>] + mon_lengths(y)[mon + 1]
        /\ MonthStart[<<y, mon>>] \in Nat
        /\ mon_lengths(y)[mon + 1] \in 28 .. 31
    <3> HIDE DEF y
    <3> QED BY <1>2, <1>3, MonthLengths
  <2>2. date.mon = mon /\ date.mday = d - MonthStart[<<y, mon>>] + 1
    BY <1>1
  <2> HIDE DEF date, y, d
  <2> QED BY <1>2, <1>3, <2>1, <2>2
<1>5. date.wday = (DayOf(p) + EPOCH_WDAY) % DAYSPERWEEK
  <2> DEFINE n == y - EPOCH_YEAR
             leaps == leaps_thru_end_of(y - 1) - leaps_thru_end_of(EPOCH_YEAR - 1)
             a == 4 + CMod(n, 7) + leaps + d
             b == 4 + 365 * n + leaps + d
  <2>1. leaps \in Int
    <3>1. y - 1 \in Int /\ EPOCH_YEAR - 1 \in Int
      BY <1>3 DEF EPOCH_YEAR
    <3> HIDE DEF y
    <3> QED BY <3>1, LeapsStep
  <2>2. n \in Int
    BY <1>3 DEF EPOCH_YEAR
  <2>3. CDiv(n, 7) \in Int /\ CMod(n, 7) = n - 7 * CDiv(n, 7)
    <3> HIDE DEF n
    <3> QED BY <2>2 DEF CDiv, CMod
  <2>4. wday = a
    <3>1. 365 % 7 = 1
      OBVIOUS
    <3>2. CMod(n, 7) \in Int
      <4> HIDE DEF n
      <4> QED BY <2>2, <2>3
    <3>3. wday = 4 + CMod(n, 7) * 1 + leaps_thru_end_of(y - 1) - leaps_thru_end_of(EPOCH_YEAR - 1) + d
      BY <3>1 DEF EPOCH_WDAY, DAYSPERWEEK, DAYSPERNYEAR
    <3>4. leaps_thru_end_of(y - 1) \in Int /\ leaps_thru_end_of(EPOCH_YEAR - 1) \in Int
      <4>1. y - 1 \in Int /\ EPOCH_YEAR - 1 \in Int
        BY <1>3 DEF EPOCH_YEAR
      <4> HIDE DEF y
      <4> QED BY <4>1, LeapsStep
    <3> HIDE DEF n, y, d
    <3> QED BY <1>3, <3>2, <3>3, <3>4
  <2>5. DayOf(p) + EPOCH_WDAY = b
    <3>1. EPOCH_YEAR = 1970 /\ EPOCH_YEAR - 1 = 1969
      BY DEF EPOCH_YEAR
    <3> HIDE DEF y, d
    <3>2. leaps_thru_end_of(y - 1) \in Int /\ leaps_thru_end_of(1969) \in Int
      <4>1. y - 1 \in Int
        BY <1>3
      <4> QED BY <4>1, LeapsStep
    <3> QED BY <1>3, <2>1, <3>1, <3>2 DEF DayOf, YearStart, EPOCH_WDAY, y, d
  <2>6. a % 7 = b % 7
    <3> DEFINE k == CDiv(n, 7)
    <3>1. b - a = 7 * (52 * n + k) /\ k \in Int
      <4> HIDE DEF n, leaps, k, d
      <4> QED BY <1>3, <2>1, <2>2, <2>3 DEF k
    <3>2. a \in Int /\ b \in Int
      <4> HIDE DEF n, leaps, k, d
      <4> QED BY <1>3, <2>1, <2>2, <2>3 DEF k
    <3> HIDE DEF a, b, k, n
    <3> QED BY <2>2, <3>1, <3>2
  <2>7. date.wday = wday % DAYSPERWEEK
    BY <1>1
  <2> QED BY <2>4, <2>5, <2>6, <2>7 DEF DAYSPERWEEK
<1>6. date.year = y - TM_YEAR_BASE /\ date.yday = d /\ date.mon = mon
  BY <1>1
<1> QED
  <2> HIDE DEF date
  <2> QED BY <1>2, <1>4, <1>5, <1>6 DEF date

(* One round of the loop that goes year by year.                           *)
StepNext(p) ==
  LET newy == IF p[2] < 0 THEN p[1] - 1 ELSE p[1] + 1
  IN  <<newy, IF p[2] < 0 THEN p[2] + year_lengths(newy) ELSE p[2] - year_lengths(p[1])>>

(***************************************************************************)
(* It stays on the day, and comes closer.                                  *)
(***************************************************************************)
LEMMA StepCloser ==
  ASSUME NEW p \in Int \X Int, ~InYear(p)
  PROVE  /\ StepNext(p) \in Int \X Int
         /\ DayOf(StepNext(p)) = DayOf(p)
         /\ Distance(StepNext(p)) < Distance(p)
         /\ Distance(StepNext(p)) \in Nat /\ Distance(p) \in Nat
<1> DEFINE y == p[1]
           d == p[2]
           newy == IF d < 0 THEN y - 1 ELSE y + 1
           next == <<newy, IF d < 0 THEN d + year_lengths(newy) ELSE d - year_lengths(y)>>
<1>0. StepNext(p) = next
  BY DEF StepNext
<1>1. y \in Int /\ d \in Int /\ newy \in Int
  OBVIOUS
<1>2. /\ YearStart(y) \in Int /\ YearStart(newy) \in Int
      /\ YearStart(y + 1) = YearStart(y) + year_lengths(y)
      /\ YearStart(y) = YearStart(y - 1) + year_lengths(y - 1)
      /\ year_lengths(y) \in {365, 366} /\ year_lengths(newy) \in {365, 366}
  <2> HIDE DEF y, newy
  <2> QED BY <1>1, YearStarts
<1> HIDE DEF y, d
<1>3. ~(0 <= d /\ d < year_lengths(y))
  BY DEF InYear, y, d
<1>4. DayOf(next) = DayOf(p)
  <2>1. DayOf(p) = YearStart(y) + d
    BY DEF DayOf, y, d
  <2>2. DayOf(next) = YearStart(newy) + next[2]
    BY DEF DayOf
  <2> QED BY <1>1, <1>2, <2>1, <2>2
<1>5. next \in Int \X Int
  BY <1>1, <1>2
<1>6. Distance(p) = IF d < 0 THEN -d ELSE d
  BY DEF Distance, d
<1>7. Distance(next) = IF 0 <= next[2] /\ next[2] < year_lengths(newy) THEN 0
                       ELSE IF next[2] < 0 THEN -next[2] ELSE next[2]
  BY DEF Distance, InYear
<1> DEFINE Goal == /\ next \in Int \X Int
                   /\ DayOf(next) = DayOf(p)
                   /\ Distance(next) < Distance(p)
                   /\ Distance(next) \in Nat /\ Distance(p) \in Nat
<1>8. ASSUME d < 0 PROVE Goal
  BY <1>1, <1>2, <1>4, <1>5, <1>6, <1>7, <1>8 DEF y, d
<1>9. ASSUME d >= 0 PROVE Goal
  BY <1>1, <1>2, <1>3, <1>4, <1>5, <1>6, <1>7, <1>9 DEF y, d
<1>10. Goal
  <2> HIDE DEF next, Goal
  <2> QED BY <1>1, <1>8, <1>9
<1> QED
  <2> HIDE DEF next
  <2> QED BY <1>0, <1>10

(* The loop over single years: where it gives up, and its rounds.          *)
StepOver == {q \in Int \X Int : ~IsInt(StepNext(q)[1])}
StepMove == [q \in Int \X Int |-> IF InYear(q) THEN q ELSE StepNext(q)]

(***************************************************************************)
(* It is such a walk too.                                                  *)
(***************************************************************************)
LEMMA StepYearWalks ==
  /\ Falls(YearsOff, StepMove, Int \X Int, YearHome)
  /\ Keeps(TheDays, StepMove, Int \X Int, YearHome)
  /\ Walks(StepYear, Int \X Int, YearHome, StepOver, OVERFLOW, StepMove)
<1> DEFINE D    == Int \X Int
           Body(f, q) == IF q \in YearHome THEN q ELSE IF q \in StepOver THEN OVERFLOW ELSE f[StepMove[q]]
<1>1. StepMove \in [D -> D] /\ YearsOff \in [D -> Nat]
  BY DistanceCounts, StepCloser DEF StepMove, YearsOff
<1>2. \A q \in D \ YearHome : YearsOff[StepMove[q]] < YearsOff[q] /\ TheDays[StepMove[q]] = TheDays[q]
  <2> SUFFICES ASSUME NEW q \in D, ~InYear(q)
               PROVE  /\ StepNext(q) \in D
                      /\ Distance(StepNext(q)) < Distance(q) /\ DayOf(StepNext(q)) = DayOf(q)
    BY DEF YearHome, StepMove, YearsOff, TheDays
  <2> QED BY DistanceCounts, StepCloser DEF Distance
<1>3. Falls(YearsOff, StepMove, D, YearHome) /\ Keeps(TheDays, StepMove, D, YearHome) /\ YearHome \subseteq D
  BY <1>1, <1>2 DEF Falls, Keeps, YearHome
<1> DEFINE Step(f, q) == IF InYear(q) THEN q
                         ELSE IF ~IsInt(StepNext(q)[1]) THEN OVERFLOW
                         ELSE f[StepNext(q)]
<1>4. ASSUME NEW f, NEW q \in D
      PROVE  Body(f, q) = Step(f, q)
  BY DEF YearHome, StepOver, StepMove
<1>5. PICK f : Walks(f, D, YearHome, StepOver, OVERFLOW, StepMove)
  BY <1>3, WalkSolved
<1>6. \E g : g = [q \in D |-> Step(g, q)]
  <2>1. \A q \in D : f[q] = Step(f, q)
    BY <1>4, <1>5 DEF Walks
  <2>2. f = [q \in D |-> f[q]]
    BY <1>5 DEF Walks
  <2> HIDE DEF Body, Step, D
  <2>3. f = [q \in D |-> Step(f, q)]
    BY <2>1, <2>2
  <2> QED BY <2>3
<1>7. StepYear = [q \in D |-> Step(StepYear, q)]
  BY <1>6 DEF StepYear, StepNext
<1>8. Walks(StepYear, D, YearHome, StepOver, OVERFLOW, StepMove)
  <2>1. ASSUME NEW q \in D
        PROVE  StepYear[q] = Body(StepYear, q)
    <3> HIDE DEF Body, Step, D
    <3> QED BY <1>4, <1>7
  <2>2. StepYear = [q \in D |-> StepYear[q]]
    <3> HIDE DEF Step, D
    <3> QED BY <1>7
  <2> QED BY <2>1, <2>2 DEF Walks
<1> QED BY <1>3, <1>8

(***************************************************************************)
(* It ends in the year of the day.                                         *)
(***************************************************************************)
LEMMA StepYearRight ==
  ASSUME NEW p \in Int \X Int, StepYear[p] # OVERFLOW
  PROVE  StepYear[p] \in Int \X Int /\ InYear(StepYear[p]) /\ DayOf(StepYear[p]) = DayOf(p)
<1>1. YearHome \subseteq Int \X Int
  BY DEF YearHome
<1>2. Arrives(StepYear, TheDays, Int \X Int, YearHome, OVERFLOW)
  BY <1>1, StepYearWalks, WalkArrives
<1> QED BY <1>2 DEF Arrives, TheDays, YearHome

(***************************************************************************)
(* The units of time, as timesub multiplies them.                          *)
(***************************************************************************)
LEMMA Units ==
  /\ SECSPERMIN \in Nat \ {0} /\ MINSPERHOUR \in Nat \ {0} /\ HOURSPERDAY \in Nat \ {0}
  /\ SECSPERHOUR \in Nat \ {0} /\ SECSPERDAY \in Nat \ {0} /\ SECSPERREPEAT \in Nat \ {0}
  /\ SECSPERDAY = (SECSPERMIN * MINSPERHOUR) * HOURSPERDAY
  /\ \E k \in Int : SECSPERDAY = SECSPERMIN * k
<1>1. SECSPERMIN \in Nat \ {0} /\ MINSPERHOUR \in Nat \ {0} /\ HOURSPERDAY \in Nat \ {0}
  BY UnitAssumption
<1>2. SECSPERMIN * MINSPERHOUR \in Nat \ {0}
  BY <1>1, Products
<1>3. SECSPERHOUR * HOURSPERDAY \in Nat \ {0}
  BY <1>1, <1>2, Products DEF SECSPERHOUR
<1>4. 146097 * (SECSPERHOUR * HOURSPERDAY) \in Nat \ {0}
  BY <1>3
<1>5. (SECSPERMIN * MINSPERHOUR) * HOURSPERDAY = SECSPERMIN * (MINSPERHOUR * HOURSPERDAY)
  BY <1>1, Products
<1>6. MINSPERHOUR * HOURSPERDAY \in Int
  BY <1>1, Products
<1> QED
  BY <1>1, <1>2, <1>3, <1>4, <1>5, <1>6 DEF SECSPERHOUR, SECSPERDAY, SECSPERREPEAT

(***************************************************************************)
(* Days, hours, minutes and seconds make seconds.                          *)
(***************************************************************************)
LEMMA CountedRight ==
  ASSUME NEW D \in Int, NEW hour \in Int, NEW min \in Int, NEW sec \in Int
  PROVE  ((D * HOURSPERDAY + hour) * MINSPERHOUR + min) * SECSPERMIN + sec
           = SECSPERDAY * D + ((hour * MINSPERHOUR + min) * SECSPERMIN + sec)
<1> DEFINE S == SECSPERMIN
           M == MINSPERHOUR
           H == HOURSPERDAY
           a == D * H
           b == a * M
           c == hour * M
<1>1. S \in Int /\ M \in Int /\ H \in Int
  BY Units
<1> HIDE DEF S, M, H
<1>2. a \in Int
  BY <1>1, Products
<1>3. (a + hour) * M = b + c /\ b \in Int /\ c \in Int
  <2>1. a + hour \in Int
    BY <1>2
  <2>2. (a + hour) * M = M * (a + hour) /\ a * M = M * a /\ hour * M = M * hour /\ M * (a + hour) = M * a + M * hour
    <3> HIDE DEF a
    <3> QED BY <1>1, <1>2, <2>1, Products
  <2>3. a * M \in Int /\ hour * M \in Int
    <3> HIDE DEF a
    <3> QED BY <1>1, <1>2, Products
  <2> QED BY <2>2, <2>3
<1>4. (b + (c + min)) * S = b * S + (c + min) * S /\ b * S \in Int /\ (c + min) * S \in Int
  <2> DEFINE e == c + min
  <2>1. e \in Int
    BY <1>3
  <2> HIDE DEF b, c, e
  <2>2. (b + e) * S = S * (b + e) /\ b * S = S * b /\ e * S = S * e /\ S * (b + e) = S * b + S * e
    <3>1. b + e \in Int
      BY <1>3, <2>1
    <3> QED BY <1>1, <1>3, <2>1, <3>1, Products
  <2>3. b * S \in Int /\ e * S \in Int
    BY <1>1, <1>3, <2>1, Products
  <2> QED BY <2>2, <2>3 DEF e
<1>5. b * S = ((S * M) * H) * D
  <2>1. b * S = S * b /\ b = M * a /\ a = H * D
    <3>1. b * S = S * b
      <4> HIDE DEF b
      <4> QED BY <1>1, <1>3, Products
    <3>2. b = M * a
      <4> HIDE DEF a
      <4> QED BY <1>1, <1>2, Products
    <3> QED BY <1>1, <3>1, <3>2, Products
  <2>2. (S * M) * (H * D) = S * (M * (H * D))
    <3>1. H * D \in Int
      BY <1>1, Products
    <3> DEFINE e == H * D
    <3> HIDE DEF e
    <3> QED BY <1>1, <3>1, Products DEF e
  <2>3. ((S * M) * H) * D = (S * M) * (H * D)
    <3> DEFINE e == S * M
    <3>1. e \in Int
      BY <1>1, Products
    <3> HIDE DEF e
    <3>2. (e * H) * D = e * (H * D)
      BY <1>1, <3>1, Products
    <3> QED BY <3>2 DEF e
  <2> QED BY <2>1, <2>2, <2>3, Zenon
<1> DEFINE x == b * S
           e == c + min
           y == e * S
           left == ((D * H + hour) * M + min) * S
<1>6. left = x + y /\ x \in Int /\ y \in Int
  <2>1. b + c + min = b + (c + min)
    <3> HIDE DEF b, c
    <3> QED BY <1>3
  <2>2. left = (b + c + min) * S
    <3> HIDE DEF b, c
    <3> QED BY <1>3, Zenon DEF a
  <2> QED BY <1>4, <2>1, <2>2, Zenon
<1>7. x + y + sec = x + (y + sec)
  <2> HIDE DEF x, y
  <2> QED BY <1>6
<1>8. SECSPERDAY * D = x
  BY <1>5, Units, Zenon DEF S, M, H
<1>9. left + sec = x + (y + sec)
  BY <1>6, <1>7, Zenon
<1> QED
  <2>1. left = ((D * HOURSPERDAY + hour) * MINSPERHOUR + min) * SECSPERMIN
    BY DEF S, M, H
  <2>2. y = (hour * MINSPERHOUR + min) * SECSPERMIN
    BY DEF S, M, H
  <2> HIDE DEF left, x, y
  <2> QED BY <1>8, <1>9, <2>1, <2>2, Zenon

(***************************************************************************)
(* A day is whole minutes.                                                 *)
(***************************************************************************)
LEMMA SameSecond ==
  ASSUME NEW x \in Int, NEW y \in Int, NEW k \in Int, x = SECSPERDAY * k + y
  PROVE  x % SECSPERMIN = y % SECSPERMIN
<1>1. SECSPERMIN \in Nat \ {0}
  BY Units
<1>2. PICK u \in Int : SECSPERDAY = SECSPERMIN * u
  BY Units
<1> DEFINE q == y \div SECSPERMIN
           r == y % SECSPERMIN
           uk == u * k
<1>3. q \in Int /\ r \in 0 .. SECSPERMIN - 1 /\ y = SECSPERMIN * q + r
  BY <1>1, DivMod
<1>4. SECSPERDAY * k = SECSPERMIN * uk /\ uk \in Int
  BY <1>1, <1>2, Products
<1>5. SECSPERMIN * (uk + q) = SECSPERMIN * uk + SECSPERMIN * q /\ SECSPERMIN * uk \in Int /\ SECSPERMIN * q \in Int
  <2> HIDE DEF uk, q
  <2> QED BY <1>1, <1>3, <1>4, Products
<1>6. uk + q \in Int
  <2> HIDE DEF uk, q
  <2> QED BY <1>3, <1>4
<1>7. x = SECSPERMIN * (uk + q) + r
  <2> DEFINE a == SECSPERMIN * uk
             b == SECSPERMIN * q
  <2>1. x = a + (b + r) /\ a \in Int /\ b \in Int /\ r \in Int
    BY <1>3, <1>4, <1>5
  <2>2. x = (a + b) + r
    <3> HIDE DEF a, b, r
    <3> QED BY <2>1
  <2> QED BY <1>5, <2>2, Zenon
<1> DEFINE w == uk + q
<1>8. x = SECSPERMIN * w + r /\ w \in Int
  BY <1>6, <1>7
<1>9. x % SECSPERMIN = r
  <2>1. Divided(x, SECSPERMIN, w, r)
    BY <1>3, <1>8 DEF Divided
  <2> HIDE DEF w, r
  <2> QED BY <1>1, <2>1, DivModUnique
<1> QED BY <1>9

(***************************************************************************)
(* b is the date and time of the second x of the calendar, hit seconds of  *)
(* the minute further.                                                     *)
(***************************************************************************)
Counted(b, x, hit) ==
  /\ b \in StructTm
  /\ b.mon \in 0 .. 11 /\ b.mday \in 1 .. mon_lengths(b.year + TM_YEAR_BASE)[b.mon + 1]
  /\ b.hour \in 0 .. HOURSPERDAY - 1 /\ b.min \in 0 .. MINSPERHOUR - 1
  /\ b.sec = (x % SECSPERMIN) + hit
  /\ b.wday = (Days(b) + EPOCH_WDAY) % DAYSPERWEEK
  /\ b.yday = Days(b) - Days([b EXCEPT !.mon = 0, !.mday = 1])
  /\ Days(b) \in Int /\ LocalSeconds(b) = x + hit

(***************************************************************************)
(* What timesub writes for a day and a second of it.                       *)
(***************************************************************************)
LEMMA WrittenRight ==
  ASSUME NEW p \in Int \X Int, InYear(p), NEW sod \in 0 .. SECSPERDAY - 1, NEW hit \in Int
  PROVE  /\ Counted(ClockFields(DateFields[p], sod, hit), SECSPERDAY * DayOf(p) + sod, hit)
         /\ ClockFields(DateFields[p], sod, hit).isdst = 0
<1> DEFINE date == DateFields[p]
           b == ClockFields(date, sod, hit)
           D == DayOf(p)
           x == SECSPERDAY * D + sod
<1>1. /\ date.year = p[1] - TM_YEAR_BASE /\ date.yday = p[2]
      /\ date.mon \in 0 .. 11 /\ date.mday \in 1 .. mon_lengths(p[1])[date.mon + 1]
      /\ p[2] = MonthStart[<<p[1], date.mon>>] + date.mday - 1
      /\ date.wday = (DayOf(p) + EPOCH_WDAY) % DAYSPERWEEK
  BY DateRight
<1> HIDE DEF date
<1>2. /\ b.year = date.year /\ b.mon = date.mon /\ b.mday = date.mday
      /\ b.hour = sod \div SECSPERHOUR /\ b.min = (sod % SECSPERHOUR) \div SECSPERMIN
      /\ b.sec = (sod % SECSPERMIN) + hit
      /\ b.wday = date.wday /\ b.yday = date.yday /\ b.isdst = 0
  BY DEF ClockFields
<1>3. /\ b.hour \in 0 .. HOURSPERDAY - 1 /\ b.min \in 0 .. MINSPERHOUR - 1
      /\ sod % SECSPERMIN \in 0 .. SECSPERMIN - 1
      /\ sod = (b.hour * MINSPERHOUR + b.min) * SECSPERMIN + (sod % SECSPERMIN)
  <2>1. sod \in 0 .. SECSPERMIN * MINSPERHOUR * HOURSPERDAY - 1
    BY Units, Zenon
  <2> HIDE DEF b
  <2>2. ClockShows(sod, MINSPERHOUR, SECSPERMIN, sod \div (SECSPERMIN * MINSPERHOUR),
                   (sod % (SECSPERMIN * MINSPERHOUR)) \div SECSPERMIN, sod % SECSPERMIN, HOURSPERDAY)
    BY <2>1, Units, ClockCounts
  <2>3. ClockShows(sod, MINSPERHOUR, SECSPERMIN, b.hour, b.min, sod % SECSPERMIN, HOURSPERDAY)
    BY <1>2, <2>2, Zenon DEF SECSPERHOUR
  <2> QED BY <2>3 DEF ClockShows
<1> HIDE DEF b
<1>4. p[1] \in Int /\ p[2] \in Int /\ mon_lengths(p[1])[date.mon + 1] \in 28 .. 31 /\ b.mday \in Int
      /\ b.year + TM_YEAR_BASE = p[1]
  <2>1. p[1] \in Int /\ p[2] \in Int
    OBVIOUS
  <2>2. mon_lengths(p[1])[date.mon + 1] \in 28 .. 31
    BY <1>1, <2>1, MonthLengths
  <2>3. b.mday \in Int
    BY <1>1, <1>2, <2>2
  <2>4. b.year + TM_YEAR_BASE = p[1]
    BY <1>1, <1>2, <2>1 DEF TM_YEAR_BASE
  <2> QED BY <2>1, <2>2, <2>3, <2>4
<1>5. Days(b) = D /\ D \in Int
  <2>1. Days(b) = YearStart(p[1]) + MonthStart[<<p[1], b.mon>>] + b.mday - 1 /\ Days(b) \in Int
    <3> DEFINE y == p[1]
               m == b.mon
    <3>1. y \in Int /\ m \in 0 .. 11 /\ b.mday \in Int /\ b.year = y - TM_YEAR_BASE /\ b.mon = m
      BY <1>1, <1>2, <1>4
    <3> HIDE DEF y, m
    <3>2. Days(b) = DaysTo(y, m, b.mday) /\ Days(b) \in Int
      BY <3>1, DaysOfDate
    <3> QED BY <3>2 DEF DaysTo, y, m
  <2>2. MonthStart[<<p[1], b.mon>>] \in Nat /\ YearStart(p[1]) \in Int
    BY <1>1, <1>2, <1>4, MonthLengths, YearStarts
  <2>3. YearStart(p[1]) + MonthStart[<<p[1], b.mon>>] + b.mday - 1 = YearStart(p[1]) + p[2]
    BY <1>1, <1>2, <1>4, <2>2
  <2> QED BY <2>1, <2>3 DEF DayOf
<1>6. b.yday = Days(b) - Days([b EXCEPT !.mon = 0, !.mday = 1])
  <2> DEFINE c == [b EXCEPT !.mon = 0, !.mday = 1]
  <2>0. c.mon = 0 /\ c.mday = 1 /\ c.year = b.year
    BY DEF b, ClockFields
  <2>1. Days(c) = YearStart(p[1]) + MonthStart[<<p[1], 0>>] + 1 - 1
    <3>1. c.year = p[1] - TM_YEAR_BASE /\ c.mday \in Int
      BY <1>1, <1>2, <2>0
    <3> DEFINE y == p[1]
    <3>2. y \in Int /\ 0 \in 0 .. 11 /\ c.year = y - TM_YEAR_BASE
      BY <1>4, <3>1
    <3> HIDE DEF c, y
    <3>3. Days(c) = DaysTo(y, 0, c.mday)
      BY <2>0, <3>1, <3>2, DaysOfDate
    <3> QED BY <2>0, <3>3 DEF DaysTo, y
  <2>2. MonthStart[<<p[1], 0>>] = 0 /\ YearStart(p[1]) \in Int
    <3> DEFINE y == p[1]
    <3>1. y \in Int
      BY <1>4
    <3> HIDE DEF y
    <3>2. StartsOfMonths(y, LeapDay(y)) /\ YearStart(y) \in Int
      BY <3>1, MonthStarts, YearStarts
    <3> QED BY <3>2 DEF StartsOfMonths, y
  <2>3. Days(b) = YearStart(p[1]) + p[2]
    BY <1>5 DEF DayOf
  <2>4. Days(c) = YearStart(p[1])
    BY <2>1, <2>2
  <2> HIDE DEF c
  <2>5. b.yday = Days(b) - Days(c)
    BY <1>1, <1>2, <1>4, <2>2, <2>3, <2>4
  <2> QED BY <2>5 DEF c
<1>7. LocalSeconds(b) = x + hit /\ x \in Int /\ b.sec \in Int
  <2>1. b.hour \in Int /\ b.min \in Int /\ b.sec \in Int /\ sod % SECSPERMIN \in Int
    BY <1>2, <1>3
  <2>2. LocalSeconds(b) = SECSPERDAY * D + ((b.hour * MINSPERHOUR + b.min) * SECSPERMIN + b.sec)
    <3> HIDE DEF D
    <3> QED BY <1>5, <2>1, CountedRight DEF LocalSeconds
  <2>3. (b.hour * MINSPERHOUR + b.min) * SECSPERMIN \in Int
    <3> DEFINE e == b.hour * MINSPERHOUR + b.min
    <3>1. e \in Int
      BY <2>1, Units
    <3> HIDE DEF e
    <3>2. e * SECSPERMIN \in Int
      BY <3>1, Units, Products
    <3> QED BY <3>2 DEF e
  <2>4. SECSPERDAY * D \in Int
    <3> HIDE DEF D
    <3> QED BY <1>5, Units, Products
  <2> DEFINE h == (b.hour * MINSPERHOUR + b.min) * SECSPERMIN
             w == SECSPERDAY * D
             r == sod % SECSPERMIN
  <2>5. LocalSeconds(b) = w + (h + (r + hit)) /\ sod = h + r /\ h \in Int /\ w \in Int /\ r \in Int
    BY <1>2, <1>3, <2>1, <2>2, <2>3, <2>4, Zenon
  <2>6. LocalSeconds(b) = (w + sod) + hit /\ w + sod \in Int
    <3> HIDE DEF h, w, r
    <3> QED BY <2>5
  <2> QED BY <2>1, <2>6
<1>8. b.sec = (x % SECSPERMIN) + hit
  <2>1. x % SECSPERMIN = sod % SECSPERMIN
    <3> DEFINE z == SECSPERDAY * D + sod
    <3>1. z \in Int /\ sod \in Int
      BY <1>7
    <3> HIDE DEF z, D
    <3>2. z % SECSPERMIN = sod % SECSPERMIN
      BY <1>5, <3>1, SameSecond DEF z
    <3> QED BY <3>2 DEF z
  <2> QED BY <1>2, <2>1
<1>9. b \in StructTm
  <2>1. date.wday \in Int
    <3> HIDE DEF D
    <3> QED BY <1>1, <1>5 DEF EPOCH_WDAY, DAYSPERWEEK, D
  <2> QED BY <1>1, <1>2, <1>3, <1>4, <1>7, <2>1 DEF b, ClockFields, StructTm, TM_YEAR_BASE
<1>10. b.wday = (Days(b) + EPOCH_WDAY) % DAYSPERWEEK
  BY <1>1, <1>2, <1>5
<1>11. b.mon \in 0 .. 11 /\ b.mday \in 1 .. mon_lengths(b.year + TM_YEAR_BASE)[b.mon + 1]
  BY <1>1, <1>2, <1>4
<1> QED
  <2> HIDE DEF D, x
  <2>1. Counted(b, x, hit)
    BY <1>3, <1>5, <1>6, <1>7, <1>8, <1>9, <1>10, <1>11 DEF Counted
  <2> QED BY <1>1, <1>2, <2>1 DEF b, date, x, D

(***************************************************************************)
(* timesub writes the fields of the instant, moved by the offset, less the *)
(* corrections, with the leap seconds it hits (libtz.c:1429-1571).         *)
(***************************************************************************)
LEMMA TimesubRight ==
  ASSUME NEW z, NEW x \in Int, NEW offset \in Int, NEW tmp,
         Correction(z, x) \in Int, Hits(z, x) \in Int,
         timesub(x, offset, z, tmp).ok
  PROVE  /\ Counted(timesub(x, offset, z, tmp).tm, x + offset - Correction(z, x), Hits(z, x))
         /\ timesub(x, offset, z, tmp).tm.isdst = 0
<1> DEFINE S == SECSPERDAY
           tdays == CDiv(x, S)
           rem == x - tdays * S + offset - Correction(z, x)
           hit == Hits(z, x)
           k == rem \div S
           sod == rem % S
           found == FindYear[<<EPOCH_YEAR, tdays>>]
           p == Later(found, k)
<1>1. S \in Nat \ {0}
  BY Units
<1>2. tdays \in Int /\ tdays * S \in Int /\ rem \in Int /\ tdays * S = S * tdays
  <2> HIDE DEF S
  <2>1. tdays \in Int
    <3>1. x >= 0 => x \div S \in Int
      BY <1>1, DivMod
    <3>2. x < 0 => -x \in Int /\ (-x) \div S \in Int
      <4>1. -x \in Int
        OBVIOUS
      <4> QED BY <1>1, <4>1, DivMod
    <3> QED BY <3>1, <3>2 DEF CDiv
  <2> HIDE DEF tdays
  <2>2. tdays * S \in Int /\ tdays * S = S * tdays
    BY <1>1, <2>1, Products
  <2> QED BY <2>1, <2>2
<1>3. k \in Int /\ sod \in 0 .. S - 1 /\ rem = S * k + sod
  <2> HIDE DEF S, rem
  <2> QED BY <1>1, <1>2, DivMod
<1>4. timesub(x, offset, z, tmp) = Written(p, sod, hit, tmp)
  BY DEF timesub
<1>5. p # OVERFLOW /\ timesub(x, offset, z, tmp).tm = ClockFields(DateFields[p], sod, hit)
  <2> HIDE DEF p, sod, hit
  <2> QED BY <1>4 DEF Written, Null, Done
<1>6. found \in Int \X Int /\ InYear(found) /\ DayOf(found) = tdays
  <2>1. found # OVERFLOW
    BY <1>5 DEF Later
  <2>2. <<EPOCH_YEAR, tdays>> \in Int \X Int
    BY <1>2 DEF EPOCH_YEAR
  <2>3. DayOf(<<EPOCH_YEAR, tdays>>) = tdays
    <3>1. leaps_thru_end_of(1969) \in Int
      BY LeapsStep
    <3> HIDE DEF tdays
    <3> QED BY <1>2, <3>1 DEF DayOf, YearStart, EPOCH_YEAR
  <2> HIDE DEF tdays
  <2> QED BY <2>1, <2>2, <2>3, FindYearRight
<1>7. p \in Int \X Int /\ InYear(p) /\ DayOf(p) = tdays + k
  <2> DEFINE q == <<found[1], found[2] + k>>
  <2>1. p = StepYear[q]
    <3> HIDE DEF found, k
    <3> QED BY <1>5 DEF Later
  <2>2. q \in Int \X Int /\ DayOf(q) = DayOf(found) + k
    <3> HIDE DEF found, k
    <3>1. found[1] \in Int /\ found[2] \in Int /\ YearStart(found[1]) \in Int
      BY <1>6, YearStarts
    <3> QED BY <1>3, <3>1 DEF DayOf
  <2> HIDE DEF q, p, found, k
  <2> QED BY <1>5, <1>6, <2>1, <2>2, StepYearRight
<1>8. /\ Counted(ClockFields(DateFields[p], sod, hit), S * (tdays + k) + sod, hit)
      /\ ClockFields(DateFields[p], sod, hit).isdst = 0
  <2> HIDE DEF p, sod, hit, tdays, k
  <2>1. sod \in 0 .. SECSPERDAY - 1 /\ hit \in Int
    BY <1>3 DEF hit
  <2>2. /\ Counted(ClockFields(DateFields[p], sod, hit), SECSPERDAY * DayOf(p) + sod, hit)
        /\ ClockFields(DateFields[p], sod, hit).isdst = 0
    BY <1>7, <2>1, WrittenRight
  <2> QED BY <1>7, <2>2, Zenon
<1>9. S * (tdays + k) + sod = x + offset - Correction(z, x)
  <2> HIDE DEF S, tdays, k, sod
  <2>1. S * (tdays + k) = S * tdays + S * k /\ S * tdays \in Int /\ S * k \in Int
    BY <1>1, <1>2, <1>3, Products
  <2> DEFINE a == S * tdays
             b == S * k
             c == S * (tdays + k)
             d == Correction(z, x)
  <2>2. c = a + b /\ a \in Int /\ b \in Int /\ sod \in Int /\ d \in Int
    BY <1>3, <2>1
  <2>3. x - a + offset - d = b + sod
    BY <1>2, <1>3, Zenon
  <2>4. c + sod = x + offset - d
    <3> HIDE DEF a, b, c, d
    <3> QED BY <2>2, <2>3
  <2> QED BY <2>4
<1> QED BY <1>5, <1>8, <1>9, Zenon

(* The days of 400 years.                                                  *)
CycleDays == 146097

(***************************************************************************)
(* They are whole weeks.                                                   *)
(***************************************************************************)
LEMMA CycleFacts ==
  /\ CycleDays \in Int
  /\ CycleDays = 365 * 400 + 97
  /\ \E k \in Int : CycleDays = 7 * k
  /\ SECSPERREPEAT = CycleDays * SECSPERDAY
<1>1. CycleDays = 7 * 20871
  BY SMT DEF CycleDays
<1> QED BY <1>1, SMT DEF CycleDays, SECSPERREPEAT

(* The calendar is the same after c cycles of 400 years.                   *)
SameInCycle(y, c, w) ==
  /\ isleap(w) <=> isleap(y)
  /\ YearStart(w) = YearStart(y) - c * CycleDays
  /\ \A m \in 0 .. 11 : MonthStart[<<w, m>>] = MonthStart[<<y, m>>]
  /\ mon_lengths(w) = mon_lengths(y)

(***************************************************************************)
(* It is.                                                                  *)
(***************************************************************************)
LEMMA SameInEveryCycle ==
  ASSUME NEW y \in Int, NEW c \in Int
  PROVE  SameInCycle(y, c, y - c * YEARSPERREPEAT)
<1> DEFINE w == y - c * 400
<1>1. w \in Int
  OBVIOUS
<1>2. isleap(w) <=> isleap(y)
  BY DEF isleap
<1>3. YearStart(w) = YearStart(y) - c * CycleDays
  <2>1. leaps_thru_end_of(w - 1) = leaps_thru_end_of(y - 1) - c * 97
    <3>1. leaps_thru_end_of(w - 1) = (w - 1) \div 4 - (w - 1) \div 100 + (w - 1) \div 400
      <4>1. w - 1 \in Int
        BY <1>1
      <4> HIDE DEF w
      <4> QED BY <4>1, LeapsCount
    <3>2. leaps_thru_end_of(y - 1) = (y - 1) \div 4 - (y - 1) \div 100 + (y - 1) \div 400
      <4>1. y - 1 \in Int
        OBVIOUS
      <4> QED BY <4>1, LeapsCount
    <3> QED BY <3>1, <3>2
  <2>2. leaps_thru_end_of(y - 1) \in Int /\ leaps_thru_end_of(1969) \in Int
    <3>1. y - 1 \in Int
      OBVIOUS
    <3> QED BY <3>1, LeapsStep
  <2> QED BY <2>1, <2>2, CycleFacts DEF YearStart
<1>4. ASSUME NEW m \in 0 .. 11 PROVE MonthStart[<<w, m>>] = MonthStart[<<y, m>>]
  <2> HIDE DEF w
  <2>1. m \in 0 .. 12
    OBVIOUS
  <2>2. MonthStart[<<w, m>>] = MonthTable(w, m) /\ MonthStart[<<y, m>>] = MonthTable(y, m)
    BY <1>1, <2>1, MonthStartTable
  <2> QED BY <1>2, <2>2 DEF MonthTable
<1>5. mon_lengths(w) = mon_lengths(y)
  <2> HIDE DEF w
  <2> QED BY <1>2 DEF mon_lengths
<1> QED
  <2> HIDE DEF w
  <2>1. y - c * YEARSPERREPEAT = w
    BY DEF w, YEARSPERREPEAT
  <2>2. SameInCycle(y, c, w)
    BY <1>2, <1>3, <1>4, <1>5 DEF SameInCycle
  <2> QED BY <2>1, <2>2

(***************************************************************************)
(* localsub may go whole cycles back and forth and change the year alone   *)
(* (libtz.c:1231-1275).                                                    *)
(***************************************************************************)
LEMMA CyclesBackRight ==
  ASSUME NEW b, NEW x \in Int, NEW hit \in Int, Counted(b, x, hit), NEW c \in Int,
         NEW newyear, newyear = b.year - c * YEARSPERREPEAT
  PROVE  Counted([b EXCEPT !.year = newyear], x - c * SECSPERREPEAT, hit)
<1> DEFINE n == [b EXCEPT !.year = newyear]
           y == b.year + TM_YEAR_BASE
           w == y - c * YEARSPERREPEAT
<1>1. /\ b \in StructTm
      /\ b.mon \in 0 .. 11 /\ b.mday \in 1 .. mon_lengths(y)[b.mon + 1]
      /\ b.hour \in 0 .. HOURSPERDAY - 1 /\ b.min \in 0 .. MINSPERHOUR - 1
      /\ b.sec = (x % SECSPERMIN) + hit
      /\ b.wday = (Days(b) + EPOCH_WDAY) % DAYSPERWEEK
      /\ b.yday = Days(b) - Days([b EXCEPT !.mon = 0, !.mday = 1])
      /\ Days(b) \in Int /\ LocalSeconds(b) = x + hit
  BY DEF Counted
<1>2. /\ b.year \in Int /\ b.mon \in Int /\ b.mday \in Int /\ b.hour \in Int /\ b.min \in Int /\ b.sec \in Int
      /\ y \in Int /\ w \in Int /\ newyear \in Int /\ newyear + TM_YEAR_BASE = w /\ newyear = w - TM_YEAR_BASE
  BY <1>1 DEF StructTm, TM_YEAR_BASE, YEARSPERREPEAT
<1>3. /\ n \in StructTm /\ n.year = newyear /\ n.mon = b.mon /\ n.mday = b.mday /\ n.hour = b.hour
      /\ n.min = b.min /\ n.sec = b.sec /\ n.wday = b.wday /\ n.yday = b.yday
  BY <1>1, <1>2 DEF StructTm
<1>4. SameInCycle(y, c, w) /\ YearStart(y) \in Int
  <2> HIDE DEF y
  <2> QED BY <1>2, SameInEveryCycle, YearStarts
<1>14. c * CycleDays \in Int
  BY CycleFacts, Products
<1>5. ASSUME NEW m \in 0 .. 11, NEW d \in Int
      PROVE  DaysTo(w, m, d) = DaysTo(y, m, d) - c * CycleDays /\ DaysTo(y, m, d) \in Int
  <2> HIDE DEF y, w
  <2>1. MonthStart[<<w, m>>] = MonthStart[<<y, m>>] /\ YearStart(w) = YearStart(y) - c * CycleDays
    BY <1>4 DEF SameInCycle
  <2>2. MonthStart[<<y, m>>] \in Nat /\ y \in Int
    <3>1. y \in Int
      BY <1>2
    <3> QED BY <3>1, MonthLengths
  <2> QED BY <1>4, <1>14, <2>1, <2>2 DEF DaysTo
<1>6. ASSUME NEW e \in StructTm, e.year = b.year, e.mon \in 0 .. 11,
             NEW f, f.year = newyear, f.mon = e.mon, f.mday = e.mday
      PROVE  Days(f) = Days(e) - c * CycleDays
  <2> DEFINE m == e.mon
  <2>1. e.year = y - TM_YEAR_BASE /\ f.year = w - TM_YEAR_BASE /\ e.mday \in Int /\ f.mday \in Int
        /\ m \in 0 .. 11 /\ e.mon = m /\ f.mon = m
    BY <1>2, <1>6 DEF StructTm, TM_YEAR_BASE
  <2> HIDE DEF y, w, m
  <2>2. Days(e) = DaysTo(y, m, e.mday)
    BY <1>2, <2>1, DaysOfDate
  <2>3. Days(f) = DaysTo(w, m, f.mday)
    BY <1>2, <2>1, DaysOfDate
  <2> QED BY <1>5, <1>6, <2>1, <2>2, <2>3
<1>7. Days(n) = Days(b) - c * CycleDays
  <2> HIDE DEF n
  <2> QED BY <1>1, <1>3, <1>6
<1>8. n.yday = Days(n) - Days([n EXCEPT !.mon = 0, !.mday = 1])
  <2> DEFINE e == [b EXCEPT !.mon = 0, !.mday = 1]
             f == [n EXCEPT !.mon = 0, !.mday = 1]
  <2>1. e \in StructTm /\ e.year = b.year /\ e.mon = 0 /\ e.mday = 1
    <3>0. b \in StructTm
      BY <1>1
    <3>1. e \in StructTm
      <4> DEFINE a == [b EXCEPT !.mon = 0]
      <4>1. a \in StructTm
        BY <3>0 DEF StructTm
      <4>2. e = [a EXCEPT !.mday = 1]
        BY <3>0 DEF StructTm
      <4> HIDE DEF a
      <4>3. [a EXCEPT !.mday = 1] \in StructTm
        BY <4>1 DEF StructTm
      <4> QED BY <4>2, <4>3
    <3> QED BY <1>1, <3>1 DEF StructTm
  <2>2. f.year = newyear /\ f.mon = 0 /\ f.mday = 1
    <3> HIDE DEF n
    <3> QED BY <1>3 DEF StructTm
  <2>3. Days(f) = Days(e) - c * CycleDays /\ Days(e) \in Int
    <3> HIDE DEF e, f
    <3>1. Days(f) = Days(e) - c * CycleDays
      BY <1>6, <2>1, <2>2
    <3>2. Days(e) \in Int
      <4>1. e.year = y - TM_YEAR_BASE /\ 0 \in 0 .. 11 /\ e.mday \in Int
        BY <1>2, <2>1 DEF TM_YEAR_BASE
      <4> HIDE DEF y
      <4> QED BY <1>2, <2>1, <4>1, DaysOfDate
    <3> QED BY <3>1, <3>2
  <2>4. b.yday = Days(b) - Days(e)
    BY <1>1
  <2> HIDE DEF e, f, n
  <2>5. n.yday = Days(n) - Days(f)
    BY <1>1, <1>3, <1>7, <1>14, <2>3, <2>4
  <2> QED BY <2>5 DEF f
<1>9. n.wday = (Days(n) + EPOCH_WDAY) % DAYSPERWEEK
  <2> HIDE DEF n
  <2>1. (Days(b) + 4) % 7 = (Days(b) - c * CycleDays + 4) % 7
    <3> DEFINE d == Days(b)
    <3>1. d \in Int
      BY <1>1
    <3> HIDE DEF d
    <3>2. (d + 4) % 7 = (d - c * CycleDays + 4) % 7
      <4>0. PICK j \in Int : CycleDays = 7 * j
        BY CycleFacts
      <4> DEFINE u == d + 4
                 v == d - c * CycleDays + 4
                 k == j * c
      <4>1. c * CycleDays = 7 * k /\ k \in Int
        <5>1. c * (7 * j) = 7 * (j * c) /\ j * c \in Int
          OBVIOUS
        <5> QED BY <4>0, <5>1
      <4>2. u \in Int /\ v \in Int /\ k \in Int /\ u = v + 7 * k
        <5> HIDE DEF k
        <5>1. u \in Int /\ v = d - 7 * k + 4
          BY <3>1, <4>1
        <5> QED BY <3>1, <4>1, <5>1
      <4> HIDE DEF u, v, k
      <4>3. u % 7 = v % 7
        BY <4>2
      <4> QED BY <4>3 DEF u, v
    <3> QED BY <3>2 DEF d
  <2> QED BY <1>1, <1>3, <1>7, <2>1 DEF EPOCH_WDAY, DAYSPERWEEK
<1>10. LocalSeconds(n) = x - c * SECSPERREPEAT + hit /\ x - c * SECSPERREPEAT \in Int
       /\ \E k \in Int : x = SECSPERDAY * k + (x - c * SECSPERREPEAT)
  <2> HIDE DEF n
  <2> DEFINE D == Days(b)
             rest == (b.hour * MINSPERHOUR + b.min) * SECSPERMIN + b.sec
             S == SECSPERDAY
             ck == c * CycleDays
  <2>1. LocalSeconds(b) = S * D + rest
    <3> HIDE DEF D
    <3> QED BY <1>1, <1>2, CountedRight DEF LocalSeconds, D
  <2>2. LocalSeconds(n) = S * (D - ck) + rest
    <3>1. D - ck \in Int
      BY <1>1, <1>14
    <3> DEFINE E == D - ck
    <3>2. Days(n) = E
      BY <1>7
    <3> HIDE DEF E
    <3>3. LocalSeconds(n) = S * E + rest
      BY <1>2, <1>3, <3>1, <3>2, CountedRight DEF LocalSeconds, E
    <3> QED BY <3>3 DEF E
  <2>3. S * (D - ck) = S * D - S * ck /\ S * D \in Int /\ S * ck \in Int
    <3>1. S \in Int /\ D \in Int /\ ck \in Int /\ -ck \in Int
      BY <1>1, <1>14, Units
    <3> HIDE DEF S, D, ck
    <3>2. S * (D + (-ck)) = S * D + S * (-ck) /\ S * D \in Int /\ S * ck \in Int
      BY <3>1, Products
    <3>3. D + (-ck) = D - ck
      BY <3>1
    <3>4. S * (-ck) = -(S * ck)
      BY <3>1
    <3> QED BY <3>2, <3>3, <3>4
  <2>4. S * ck = c * SECSPERREPEAT
    <3>1. S \in Int /\ CycleDays \in Int /\ SECSPERREPEAT = CycleDays * S
      BY Units, CycleFacts
    <3> HIDE DEF S
    <3>2. S * (c * CycleDays) = (c * CycleDays) * S /\ (c * CycleDays) * S = c * (CycleDays * S)
      BY <1>14, <3>1, Products
    <3> QED BY <3>1, <3>2
  <2>5. rest \in Int
    <3> DEFINE u == b.hour * MINSPERHOUR
    <3>1. u \in Int
      BY <1>2, Units, Products
    <3> HIDE DEF u
    <3> DEFINE v == u + b.min
    <3>2. v \in Int
      BY <1>2, <3>1
    <3> HIDE DEF v
    <3>3. v * SECSPERMIN \in Int
      BY <3>2, Units, Products
    <3> QED BY <1>2, <3>3 DEF u, v
  <2> DEFINE a == S * D
             e == S * ck
             g == S * (D - ck)
  <2>6. /\ LocalSeconds(n) = g + rest /\ g = a - e /\ a + rest = x + hit /\ a \in Int /\ e \in Int
        /\ e = c * SECSPERREPEAT
    BY <1>1, <2>1, <2>2, <2>3, <2>4, Zenon
  <2>7. LocalSeconds(n) = x - e + hit /\ x - e \in Int
    <3> HIDE DEF a, e, g, rest
    <3> QED BY <2>5, <2>6
  <2>8. x = S * ck + (x - e) /\ ck \in Int
    <3>1. ck \in Int
      BY <1>14
    <3>2. x = e + (x - e)
      <4> HIDE DEF e
      <4> QED BY <2>6
    <3> QED BY <3>1, <3>2
  <2> QED BY <2>6, <2>7, <2>8, Zenon
<1>11. n.sec = ((x - c * SECSPERREPEAT) % SECSPERMIN) + hit
  <2> DEFINE v == x - c * SECSPERREPEAT
  <2>1. PICK k \in Int : x = SECSPERDAY * k + v
    BY <1>10
  <2>2. v \in Int
    BY <1>10
  <2> HIDE DEF v
  <2>3. x % SECSPERMIN = v % SECSPERMIN
    BY <2>1, <2>2, SameSecond
  <2> QED BY <1>1, <1>3, <2>3 DEF v
<1>12. n.mday \in 1 .. mon_lengths(n.year + TM_YEAR_BASE)[n.mon + 1]
  BY <1>1, <1>2, <1>3, <1>4 DEF SameInCycle
<1>13. Days(n) \in Int
  BY <1>1, <1>7, <1>14
<1> QED
  <2> HIDE DEF n
  <2>1. Counted(n, x - c * SECSPERREPEAT, hit)
    BY <1>1, <1>3, <1>8, <1>9, <1>10, <1>11, <1>12, <1>13 DEF Counted
  <2> QED BY <2>1 DEF n

(***************************************************************************)
(* The type localsub takes is one of the zone's.                           *)
(***************************************************************************)
LEMMA TypeInZone ==
  ASSUME NEW z, IsZone(z), NEW x \in Int
  PROVE  TypeAt(z, x) \in 1 .. Len(z.ttis)
<1> DEFINE n == Len(z.ats)
           S == {i \in 1 .. n : z.ats[i] <= x}
           past == Cardinality(S)
<1>1. n \in Nat /\ \A i \in 1 .. n : z.ats[i] \in Int /\ z.types[i] \in 1 .. Len(z.ttis)
  BY DEF IsZone
<1>2. ASSUME NEW i \in S, NEW j \in 1 .. n, j <= i PROVE j \in S
  <2>1. \A k \in 1 .. n - 1 : z.ats[k] < z.ats[k + 1]
    BY DEF IsZone, Sorted
  <2> DEFINE v == z.ats
  <2>2. \A a, b \in 1 .. n : a < b => v[a] < v[b]
    <3>1. \A k \in 1 .. n : v[k] \in Int
      BY <1>1
    <3>2. \A k \in 1 .. n - 1 : v[k] < v[k + 1]
      BY <2>1
    <3> HIDE DEF v, n
    <3> QED BY <1>1, <3>1, <3>2, Ascending
  <2>3. v[i] \in Int /\ v[j] \in Int /\ i \in 1 .. n /\ v[i] <= x
    BY <1>1
  <2>4. j = i \/ j < i
    BY <1>2
  <2>5. v[j] <= x
    <3> HIDE DEF v, n
    <3> QED BY <2>2, <2>3, <2>4
  <2> QED BY <2>5
<1>3. past \in 0 .. n
  <2>1. S \in SUBSET (1 .. n)
    OBVIOUS
  <2> HIDE DEF S, n
  <2> QED BY <1>1, <1>2, <2>1, Prefix
<1>4. CASE past = 0
  <2>1. TypeAt(z, x) = FirstType(z)
    BY <1>4 DEF TypeAt
  <2> DEFINE standard == {i \in 1 .. Len(z.ttis) : z.ttis[i].isdst = 0}
  <2>2. CASE standard = {}
    <3>1. 1 \in 1 .. Len(z.ttis)
      BY DEF IsZone
    <3> QED BY <2>1, <2>2, <3>1 DEF FirstType
  <2>3. CASE standard # {}
    <3>1. standard \in SUBSET Nat
      BY DEF IsZone
    <3>2. \E i \in standard : \A j \in standard : i <= j
      <4> HIDE DEF standard
      <4> QED BY <2>3, <3>1, LeastNatural
    <3>3. FirstType(z) = CHOOSE i \in standard : \A j \in standard : i <= j
      BY <2>3 DEF FirstType
    <3>4. FirstType(z) \in standard
      <4> HIDE DEF standard
      <4> QED BY <3>2, <3>3
    <3> QED BY <2>1, <3>4
  <2> QED BY <2>2, <2>3
<1>5. CASE past # 0
  <2>1. TypeAt(z, x) = z.types[past]
    BY <1>5 DEF TypeAt
  <2>2. past \in 1 .. n
    BY <1>1, <1>3, <1>5
  <2> QED BY <1>1, <2>1, <2>2
<1> QED BY <1>4, <1>5

(* The leap seconds of a zone that are not after x are its first ones.     *)
LeapsKnown(z, x) ==
  LET l == LeapAt(z, x)
  IN  /\ l \in 0 .. Len(z.lsis) /\ Len(z.lsis) \in Nat
      /\ \A i \in 1 .. Len(z.lsis) : z.lsis[i].trans \in Int /\ z.lsis[i].corr \in Int
      /\ {i \in 1 .. Len(z.lsis) : z.lsis[i].trans <= x} = 1 .. l
      /\ \A i, j \in 1 .. Len(z.lsis) : i < j => z.lsis[i].trans < z.lsis[j].trans

(***************************************************************************)
(* They are, as those of a zone are in order.                              *)
(***************************************************************************)
LEMMA LeapsInOrder ==
  ASSUME NEW z, IsZone(z), NEW x \in Int
  PROVE  LeapsKnown(z, x)
<1> DEFINE n == Len(z.lsis)
           v == [i \in 1 .. n |-> z.lsis[i].trans]
           S == {i \in 1 .. n : z.lsis[i].trans <= x}
<1>1. n \in Nat /\ \A i \in 1 .. n : z.lsis[i].trans \in Int /\ z.lsis[i].corr \in Int
  BY DEF IsZone
<1>2. \A i, j \in 1 .. n : i < j => v[i] < v[j]
  <2>1. \A i \in 1 .. n : v[i] \in Int
    BY <1>1
  <2>2. ASSUME NEW i \in 1 .. n - 1 PROVE v[i] < v[i + 1]
    <3>1. i \in 1 .. n /\ i + 1 \in 1 .. n
      BY <1>1
    <3>2. z.lsis[i].trans < z.lsis[i + 1].trans
      BY DEF IsZone
    <3> QED BY <3>1, <3>2
  <2> HIDE DEF v, n
  <2> QED BY <1>1, <2>1, <2>2, Ascending
<1>3. \A i, j \in 1 .. n : i < j => z.lsis[i].trans < z.lsis[j].trans
  <2> SUFFICES ASSUME NEW i \in 1 .. n, NEW j \in 1 .. n, i < j PROVE z.lsis[i].trans < z.lsis[j].trans
    OBVIOUS
  <2>1. v[i] < v[j]
    <3> HIDE DEF v, n
    <3> QED BY <1>2
  <2> QED BY <2>1
<1>4. S = 1 .. Cardinality(S) /\ Cardinality(S) \in 0 .. n
  <2>1. S \in SUBSET (1 .. n)
    OBVIOUS
  <2>2. ASSUME NEW i \in S, NEW j \in 1 .. n, j <= i PROVE j \in S
    <3>1. z.lsis[i].trans \in Int /\ z.lsis[j].trans \in Int /\ i \in 1 .. n /\ z.lsis[i].trans <= x
      BY <1>1
    <3>2. j = i \/ z.lsis[j].trans < z.lsis[i].trans
      BY <1>3, <2>2, <3>1
    <3>3. z.lsis[j].trans <= x
      BY <3>1, <3>2
    <3> QED BY <3>3
  <2> HIDE DEF S, n
  <2> QED BY <1>1, <2>1, <2>2, Prefix
<1>5. LeapAt(z, x) = Cardinality(S)
  BY DEF LeapAt
<1> QED
  <2> HIDE DEF n
  <2>1. S = 1 .. LeapAt(z, x) /\ LeapAt(z, x) \in 0 .. n
    BY <1>4, <1>5
  <2> QED BY <1>1, <1>3, <2>1 DEF LeapsKnown, n

(* A leap second that follows the one before it without a gap.             *)
Follows(z, m) ==
  z.lsis[m + 1].trans = z.lsis[m].trans + 1 /\ z.lsis[m + 1].corr = z.lsis[m].corr + 1

(* Those up to the l-th that do so.                                        *)
Run(z, l) == {i \in 1 .. l : \A m \in i .. l - 1 : Follows(z, m)}

(***************************************************************************)
(* They are an interval.                                                   *)
(***************************************************************************)
LEMMA RunShape ==
  ASSUME NEW z, NEW l \in Nat \ {0}
  PROVE  \E s \in 1 .. l : Run(z, l) = s .. l
<1> DEFINE R == Run(z, l)
           S == (1 .. l) \ R
<1>1. ASSUME NEW i \in S, NEW j \in 1 .. l, j <= i PROVE j \in S
  <2> SUFFICES ASSUME j \in R PROVE FALSE
    OBVIOUS
  <2>1. \A m \in j .. l - 1 : Follows(z, m)
    BY DEF Run
  <2>2. \A m \in i .. l - 1 : m \in j .. l - 1
    BY <1>1
  <2>3. i \in R
    BY <2>1, <2>2 DEF Run
  <2> QED BY <2>3
<1>2. S = 1 .. Cardinality(S) /\ Cardinality(S) \in 0 .. l
  <2>1. S \in SUBSET (1 .. l)
    OBVIOUS
  <2> HIDE DEF S
  <2> QED BY <1>1, <2>1, Prefix
<1>3. l \in R
  BY DEF Run
<1> DEFINE c == Cardinality(S)
<1>4. c \in 0 .. l - 1
  <2>1. l \notin S
    BY <1>3
  <2> HIDE DEF S, R
  <2> QED BY <1>2, <2>1
<1>5. R = c + 1 .. l
  <2>1. R = (1 .. l) \ S
    BY DEF Run
  <2>2. (1 .. l) \ (1 .. c) = c + 1 .. l
    <3> HIDE DEF S
    <3> QED BY <1>4
  <2>3. S = 1 .. c
    BY <1>2
  <2> HIDE DEF S, R
  <2> QED BY <2>1, <2>2, <2>3
<1>6. c + 1 \in 1 .. l
  <2> HIDE DEF S
  <2> QED BY <1>4
<1> QED
  <2> HIDE DEF S
  <2> QED BY <1>5, <1>6

(***************************************************************************)
(* Along a run the leap seconds and the corrections go up one by one.      *)
(***************************************************************************)
LEMMA RunCounts ==
  ASSUME NEW z, NEW l \in Nat, NEW s \in 1 .. l, \A m \in s .. l - 1 : Follows(z, m),
         \A i \in 1 .. l : z.lsis[i].trans \in Int /\ z.lsis[i].corr \in Int
  PROVE  \A i \in s .. l : z.lsis[i].trans = z.lsis[s].trans + (i - s) /\ z.lsis[i].corr = z.lsis[s].corr + (i - s)
<1> DEFINE P == {d \in Nat : s + d <= l => /\ z.lsis[s + d].trans = z.lsis[s].trans + d
                                           /\ z.lsis[s + d].corr = z.lsis[s].corr + d}
<1>0. z.lsis[s].trans \in Int /\ z.lsis[s].corr \in Int
  OBVIOUS
<1>1. 0 \in P
  BY <1>0
<1>2. ASSUME NEW d \in P PROVE d + 1 \in P
  <2> SUFFICES ASSUME s + (d + 1) <= l
               PROVE  /\ z.lsis[s + (d + 1)].trans = z.lsis[s].trans + (d + 1)
                      /\ z.lsis[s + (d + 1)].corr = z.lsis[s].corr + (d + 1)
    OBVIOUS
  <2> DEFINE m == s + d
  <2>1. m \in s .. l - 1 /\ m \in 1 .. l /\ s + (d + 1) = m + 1
    OBVIOUS
  <2>2. z.lsis[m].trans = z.lsis[s].trans + d /\ z.lsis[m].corr = z.lsis[s].corr + d
    BY <1>2, <2>1
  <2> HIDE DEF m
  <2>3. Follows(z, m)
    BY <2>1
  <2> QED BY <1>0, <2>1, <2>2, <2>3 DEF Follows
<1>3. P = Nat
  <2>1. P \in SUBSET Nat
    OBVIOUS
  <2> HIDE DEF P
  <2> QED BY <1>1, <1>2, <2>1, Counting
<1> SUFFICES ASSUME NEW i \in s .. l
             PROVE  z.lsis[i].trans = z.lsis[s].trans + (i - s) /\ z.lsis[i].corr = z.lsis[s].corr + (i - s)
  OBVIOUS
<1>4. i - s \in Nat /\ s + (i - s) = i
  OBVIOUS
<1>5. i - s \in P
  BY <1>3, <1>4
<1> QED BY <1>4, <1>5

(* A leap second is shown at x.                                            *)
LeapShown(z, x) ==
  LET l == LeapAt(z, x) IN l # 0 /\ z.lsis[l].trans = x /\ Inserted(z, l)

(***************************************************************************)
(* timesub's loop counts the leap seconds that are shown together.         *)
(***************************************************************************)
LEMMA HitsRight ==
  ASSUME NEW z, IsZone(z), SoundLeaps(z), NEW x \in Int
  PROVE  Hits(z, x) = IF LeapShown(z, x) THEN Cardinality(Run(z, LeapAt(z, x))) ELSE 0
<1> DEFINE l == LeapAt(z, x)
<1>1. LeapsKnown(z, x)
  BY LeapsInOrder
<1>2. l \in 0 .. Len(z.lsis) /\ Len(z.lsis) \in Nat
      /\ \A i \in 1 .. Len(z.lsis) : z.lsis[i].trans \in Int /\ z.lsis[i].corr \in Int
  BY <1>1 DEF LeapsKnown
<1>3. CASE l = 0 \/ z.lsis[l].trans # x
  BY <1>3 DEF Hits, LeapShown
<1>4. CASE ~(l = 0 \/ z.lsis[l].trans # x)
  <2>1. l \in 1 .. Len(z.lsis)
    BY <1>2, <1>4
  <2>2. Run(z, l) = {i \in 1 .. l : \A m \in i .. l - 1 :
                       /\ z.lsis[m + 1].trans = z.lsis[m].trans + 1
                       /\ z.lsis[m + 1].corr = z.lsis[m].corr + 1}
    BY DEF Run, Follows
  <2>3. Inserted(z, l) <=> ~(l > 1 /\ z.lsis[l].corr <= z.lsis[l - 1].corr)
    <3>1. Inserted(z, l) \/ (l > 1 /\ z.lsis[l].corr = z.lsis[l - 1].corr - 1)
      BY <2>1 DEF SoundLeaps
    <3>2. CASE l = 1
      BY <2>1, <3>1, <3>2
    <3>3. CASE l > 1
      <4>1. l - 1 \in 1 .. Len(z.lsis)
        BY <1>2, <3>3
      <4>2. z.lsis[l].corr \in Int /\ z.lsis[l - 1].corr \in Int
        BY <1>2, <2>1, <4>1
      <4>3. Inserted(z, l) <=> z.lsis[l].corr = 1 + z.lsis[l - 1].corr
        BY <2>1, <3>3 DEF Inserted
      <4> HIDE DEF l
      <4> QED BY <3>1, <3>3, <4>2, <4>3
    <3> QED BY <1>2, <2>1, <3>2, <3>3
  <2>4. Hits(z, x) = IF l > 1 /\ z.lsis[l].corr <= z.lsis[l - 1].corr THEN 0 ELSE Cardinality(Run(z, l))
    BY <1>4, <2>2 DEF Hits
  <2>5. LeapShown(z, x) <=> Inserted(z, l)
    BY <1>4 DEF LeapShown
  <2> HIDE DEF l
  <2>6. Hits(z, x) = IF LeapShown(z, x) THEN Cardinality(Run(z, l)) ELSE 0
    BY <2>3, <2>4, <2>5
  <2> QED BY <2>6 DEF l
<1> QED BY <1>3, <1>4

(***************************************************************************)
(* So does the reference of CivilTime.                                     *)
(***************************************************************************)
LEMMA ShowingRight ==
  ASSUME NEW z, IsZone(z), SoundLeaps(z), NEW x \in Int
  PROVE  Showing(z, x) = IF LeapShown(z, x) THEN Run(z, LeapAt(z, x)) ELSE {}
<1> DEFINE l == LeapAt(z, x)
           n == Len(z.lsis)
<1>1. LeapsKnown(z, x)
  BY LeapsInOrder
<1>2. /\ l \in 0 .. n /\ n \in Nat
      /\ \A i \in 1 .. n : z.lsis[i].trans \in Int /\ z.lsis[i].corr \in Int
      /\ {i \in 1 .. n : z.lsis[i].trans <= x} = 1 .. l
      /\ \A i, j \in 1 .. n : i < j => z.lsis[i].trans < z.lsis[j].trans
  BY <1>1 DEF LeapsKnown
<1>3. \A i \in 1 .. n : z.lsis[i].trans <= x <=> i <= l
  <2> TAKE i \in 1 .. n
  <2>1. i \in {k \in 1 .. n : z.lsis[k].trans <= x} <=> i \in 1 .. l
    BY <1>2
  <2> HIDE DEF l, n
  <2> QED BY <1>2, <2>1
<1>4. \A i, j \in 1 .. n : z.lsis[i].trans <= z.lsis[j].trans => i <= j
  <2> TAKE i, j \in 1 .. n
  <2>1. j < i => z.lsis[j].trans < z.lsis[i].trans
    BY <1>2
  <2>2. z.lsis[i].trans \in Int /\ z.lsis[j].trans \in Int
    BY <1>2
  <2> HIDE DEF l, n
  <2> QED BY <1>2, <2>1, <2>2
<1>5. ASSUME NEW i \in Showing(z, x)
      PROVE  i \in 1 .. n /\ i <= l /\ LeapShown(z, x) /\ i \in Run(z, l)
  <2>1. /\ i \in 1 .. n /\ z.lsis[i].trans <= x /\ z.lsis[i].trans \in Int
        /\ \A y \in z.lsis[i].trans .. x : \E j \in 1 .. n : z.lsis[j].trans = y /\ Inserted(z, j)
    BY <1>2 DEF Showing
  <2>2. i <= l
    <3> HIDE DEF l, n
    <3> QED BY <1>3, <2>1
  <2>3. l \in 1 .. n
    <3> HIDE DEF l, n
    <3> QED BY <1>2, <2>1, <2>2
  <2>4. PICK j \in 1 .. n : z.lsis[j].trans = x /\ Inserted(z, j)
    <3>1. x \in z.lsis[i].trans .. x
      BY <2>1
    <3> QED BY <2>1, <3>1
  <2>5. j = l
    <3>1. j <= l
      <4> HIDE DEF l, n
      <4> QED BY <1>3, <2>4
    <3>2. z.lsis[l].trans <= x
      <4> HIDE DEF l, n
      <4> QED BY <1>2, <1>3, <2>3
    <3>3. l <= j
      <4> HIDE DEF l, n
      <4> QED BY <1>4, <2>3, <2>4, <3>2
    <3> HIDE DEF l, n
    <3> QED BY <1>2, <3>1, <3>3
  <2>6. LeapShown(z, x)
    <3>1. l # 0
      BY <1>2, <2>3
    <3> QED BY <2>4, <2>5, <3>1 DEF LeapShown
  <2>7. ASSUME NEW m \in i .. l - 1 PROVE Follows(z, m)
    <3> HIDE DEF l, n
    <3>1. m \in 1 .. n /\ m + 1 \in 1 .. n /\ m \in Nat /\ m + 1 <= l
      BY <1>2, <2>1, <2>3
    <3>2. z.lsis[i].trans <= z.lsis[m].trans
      <4>1. i = m \/ z.lsis[i].trans < z.lsis[m].trans
        BY <1>2, <2>1, <3>1
      <4>2. z.lsis[i].trans \in Int /\ z.lsis[m].trans \in Int
        BY <1>2, <2>1, <3>1
      <4> QED BY <4>1, <4>2
    <3>3. z.lsis[m + 1].trans <= x /\ z.lsis[m].trans < z.lsis[m + 1].trans
      BY <1>2, <1>3, <3>1
    <3>4. z.lsis[m].trans \in Int /\ z.lsis[m + 1].trans \in Int /\ z.lsis[m].corr \in Int /\ z.lsis[m + 1].corr \in Int
      BY <1>2, <3>1
    <3> DEFINE y == z.lsis[m].trans + 1
    <3>5. y \in z.lsis[i].trans .. x
      BY <2>1, <3>2, <3>3, <3>4
    <3>6. PICK k \in 1 .. n : z.lsis[k].trans = y /\ Inserted(z, k)
      BY <2>1, <3>5
    <3>7. k = m + 1
      <4>1. k <= m + 1
        <5>1. z.lsis[k].trans <= z.lsis[m + 1].trans
          BY <3>3, <3>4, <3>6
        <5> QED BY <1>4, <3>1, <5>1
      <4>2. m + 1 <= k
        <5>1. ~(z.lsis[k].trans <= z.lsis[m].trans)
          BY <3>4, <3>6
        <5>2. ~(k <= m)
          <6> SUFFICES ASSUME k <= m PROVE FALSE
            OBVIOUS
          <6>1. k = m \/ z.lsis[k].trans < z.lsis[m].trans
            BY <1>2, <3>1
          <6> QED BY <3>4, <3>6, <5>1, <6>1
        <5> QED BY <3>1, <5>2
      <4> QED BY <3>1, <4>1, <4>2
    <3>8. z.lsis[m + 1].corr = 1 + z.lsis[m].corr
      <4>1. Inserted(z, m + 1) /\ m + 1 # 1 /\ m + 1 - 1 = m
        BY <3>1, <3>6, <3>7
      <4> QED BY <4>1 DEF Inserted
    <3> QED BY <3>4, <3>6, <3>7, <3>8 DEF Follows
  <2>8. i \in Run(z, l)
    <3>1. i \in 1 .. l
      BY <1>2, <2>1, <2>2
    <3> HIDE DEF l
    <3> QED BY <2>7, <3>1 DEF Run
  <2> QED BY <2>1, <2>2, <2>6, <2>8
<1>6. ASSUME LeapShown(z, x), NEW s \in Run(z, l)
      PROVE  s \in Showing(z, x)
  <2>1. l # 0 /\ z.lsis[l].trans = x /\ Inserted(z, l)
    BY <1>6 DEF LeapShown
  <2>2. s \in 1 .. l /\ \A m \in s .. l - 1 : Follows(z, m)
    BY DEF Run
  <2> HIDE DEF l, n
  <2>3. l \in 1 .. n /\ s \in 1 .. n /\ l \in Nat /\ n \in Nat /\ l <= n
    BY <1>2, <2>1, <2>2
  <2>4. \A i \in s .. l : z.lsis[i].trans = z.lsis[s].trans + (i - s) /\ z.lsis[i].corr = z.lsis[s].corr + (i - s)
    <3>1. \A i \in 1 .. l : z.lsis[i].trans \in Int /\ z.lsis[i].corr \in Int
      BY <1>2, <2>3
    <3> QED BY <2>2, <2>3, <3>1, RunCounts
  <2>5. \A m \in s .. l - 1 : Inserted(z, m + 1)
    <3> TAKE m \in s .. l - 1
    <3>1. z.lsis[m + 1].corr = z.lsis[m].corr + 1 /\ m \in 1 .. n /\ m + 1 # 1 /\ m + 1 - 1 = m /\ z.lsis[m].corr \in Int
      BY <1>2, <2>2, <2>3 DEF Follows
    <3> QED BY <3>1 DEF Inserted
  <2>6. Inserted(z, s)
    <3>1. CASE s = l
      BY <2>1, <3>1
    <3>2. CASE s # l
      <4>1. s \in s .. l - 1 /\ s \in 1 .. n - 1
        BY <2>2, <2>3, <3>2
      <4>2. z.lsis[s + 1].trans = z.lsis[s].trans + 1 /\ Inserted(z, s + 1)
        BY <2>2, <2>5, <4>1 DEF Follows
      <4> QED BY <4>1, <4>2 DEF SoundLeaps, n
    <3> QED BY <3>1, <3>2
  <2>7. z.lsis[s].trans \in Int /\ x = z.lsis[s].trans + (l - s)
    <3>1. l \in s .. l
      BY <2>2, <2>3
    <3> QED BY <1>2, <2>1, <2>3, <2>4, <3>1
  <2>8. ASSUME NEW y \in z.lsis[s].trans .. x
        PROVE  \E j \in 1 .. n : z.lsis[j].trans = y /\ Inserted(z, j)
    <3> DEFINE j == s + (y - z.lsis[s].trans)
    <3>1. j \in s .. l /\ j \in 1 .. n /\ j - s = y - z.lsis[s].trans
      <4> DEFINE a == z.lsis[s].trans
      <4>1. a \in Int /\ x = a + (l - s) /\ y \in a .. x
        BY <2>7
      <4>2. s \in Int /\ 1 <= s /\ s <= l
        BY <2>2, <2>3
      <4> HIDE DEF a
      <4>3. s + (y - a) \in s .. l /\ s + (y - a) \in 1 .. n /\ s + (y - a) - s = y - a
        BY <2>3, <4>1, <4>2
      <4>4. j = s + (y - a)
        BY DEF a
      <4> HIDE DEF j
      <4>5. j \in s .. l /\ j \in 1 .. n /\ j - s = y - a
        BY <2>3, <4>1, <4>2, <4>4
      <4> QED BY <4>5 DEF a
    <3>2. z.lsis[j].trans = y
      <4>1. z.lsis[j].trans = z.lsis[s].trans + (j - s)
        <5> HIDE DEF j
        <5> QED BY <2>4, <3>1
      <4> HIDE DEF j
      <4> QED BY <2>7, <3>1, <4>1
    <3>3. Inserted(z, j)
      <4> HIDE DEF j
      <4>1. CASE j = s
        BY <2>6, <4>1
      <4>2. CASE j # s
        <5>1. j - 1 \in s .. l - 1 /\ j - 1 + 1 = j
          BY <2>2, <2>3, <3>1, <4>2
        <5>2. Inserted(z, j - 1 + 1)
          BY <2>5, <5>1
        <5> QED BY <5>1, <5>2
      <4> QED BY <4>1, <4>2
    <3> QED BY <3>1, <3>2, <3>3
  <2>9. z.lsis[s].trans <= x
    BY <2>2, <2>3, <2>7
  <2> QED BY <2>3, <2>8, <2>9 DEF Showing, n
<1>7. Showing(z, x) \subseteq Run(z, l) /\ (~LeapShown(z, x) => Showing(z, x) = {})
  <2> HIDE DEF l, n
  <2> QED BY <1>5
<1>8. LeapShown(z, x) => Run(z, l) \subseteq Showing(z, x)
  <2> HIDE DEF l, n
  <2> QED BY <1>6
<1> QED
  <2> HIDE DEF l, n
  <2>1. Showing(z, x) = IF LeapShown(z, x) THEN Run(z, l) ELSE {}
    BY <1>7, <1>8
  <2> QED BY <2>1 DEF l

(***************************************************************************)
(* Where the leap seconds are at the ends of minutes, the corrections and  *)
(* the hits of timesub are the leap seconds of the reference.              *)
(***************************************************************************)
LEMMA LeapsRight ==
  ASSUME NEW z, IsZone(z), SoundLeaps(z), NEW x \in Int
  PROVE  /\ Correction(z, x) \in Int /\ Hits(z, x) \in Nat
         /\ Hits(z, x) = Cardinality(Showing(z, x))
         /\ LeapSeconds(z, x) = Correction(z, x) - Hits(z, x)
         /\ Showing(z, x) = {} <=> Hits(z, x) = 0
         /\ Showing(z, x) # {} =>
              (x + z.ttis[TypeAt(z, x)].gmtoff - Correction(z, x)) % SECSPERMIN = SECSPERMIN - 1
<1> DEFINE l == LeapAt(z, x)
           n == Len(z.lsis)
           passed == (1 .. l) \ Showing(z, x)
           last == Cardinality(passed)
<1>1. /\ l \in 0 .. n /\ n \in Nat
      /\ \A i \in 1 .. n : z.lsis[i].trans \in Int /\ z.lsis[i].corr \in Int
      /\ {i \in 1 .. n : z.lsis[i].trans <= x} = 1 .. l
  BY LeapsInOrder DEF LeapsKnown
<1>2. Correction(z, x) = IF l = 0 THEN 0 ELSE z.lsis[l].corr
  BY DEF Correction
<1>3. Correction(z, x) \in Int
  <2> HIDE DEF l, n
  <2> QED BY <1>1, <1>2
<1>4. LeapSeconds(z, x) = IF last = 0 THEN 0 ELSE z.lsis[last].corr
  <2>1. LeapSeconds(z, x) = LET p == {i \in 1 .. n : z.lsis[i].trans <= x} \ Showing(z, x)
                                c == Cardinality(p)
                            IN  IF c = 0 THEN 0 ELSE z.lsis[c].corr
    BY DEF LeapSeconds
  <2> HIDE DEF l, n
  <2> QED BY <1>1, <2>1
<1> HIDE DEF l, n, passed, last
<1>5. Hits(z, x) = (IF LeapShown(z, x) THEN Cardinality(Run(z, l)) ELSE 0)
      /\ Showing(z, x) = (IF LeapShown(z, x) THEN Run(z, l) ELSE {})
  BY HitsRight, ShowingRight DEF l
<1>6. CASE ~LeapShown(z, x)
  <2>1. Hits(z, x) = 0 /\ Showing(z, x) = {}
    BY <1>5, <1>6
  <2>2. last = l
    <3>1. passed = 1 .. l
      BY <2>1 DEF passed
    <3>2. l \in Int /\ (1 > l => l = 0)
      BY <1>1
    <3>3. Cardinality(1 .. l) = IF 1 > l THEN 0 ELSE l - 1 + 1
      BY <3>2, FS_Interval
    <3> QED BY <1>1, <3>1, <3>2, <3>3 DEF last
  <2>3. Cardinality(Showing(z, x)) = 0
    BY <2>1, FS_EmptySet
  <2>4. LeapSeconds(z, x) = Correction(z, x)
    BY <1>2, <1>4, <2>2
  <2> QED BY <1>3, <2>1, <2>3, <2>4
<1>7. CASE LeapShown(z, x)
  <2>1. l # 0 /\ z.lsis[l].trans = x /\ Inserted(z, l) /\ l \in 1 .. n /\ l \in Nat \ {0} /\ n \in Nat /\ l <= n
    BY <1>1, <1>7 DEF LeapShown, l
  <2>2. PICK s \in 1 .. l : Run(z, l) = s .. l
    BY <2>1, RunShape
  <2>3. Showing(z, x) = s .. l /\ Hits(z, x) = Cardinality(s .. l)
    BY <1>5, <1>7, <2>2
  <2>4. Hits(z, x) = l - s + 1
    <3>1. s \in Int /\ l \in Int /\ ~(s > l)
      BY <2>1, <2>2
    <3>2. Cardinality(s .. l) = IF s > l THEN 0 ELSE l - s + 1
      BY <3>1, FS_Interval
    <3> QED BY <2>3, <3>1, <3>2
  <2>5. last = s - 1
    <3>1. passed = 1 .. s - 1
      BY <2>1, <2>2, <2>3 DEF passed
    <3>2. s - 1 \in Int /\ 1 \in Int
      BY <2>2
    <3>3. Cardinality(1 .. s - 1) = IF 1 > s - 1 THEN 0 ELSE s - 1 - 1 + 1
      BY <3>2, FS_Interval
    <3> QED BY <2>1, <2>2, <3>1, <3>3 DEF last
  <2>6. s \in Run(z, l) /\ s \in Showing(z, x)
    BY <2>1, <2>2, <2>3
  <2>7. \A m \in s .. l - 1 : Follows(z, m)
    BY <2>6 DEF Run
  <2>8. z.lsis[l].corr = z.lsis[s].corr + (l - s) /\ z.lsis[s].corr \in Int
    <3>1. \A i \in 1 .. l : z.lsis[i].trans \in Int /\ z.lsis[i].corr \in Int
      BY <1>1, <2>1
    <3>2. l \in s .. l /\ l \in Nat /\ s \in 1 .. l
      BY <2>1, <2>2
    <3>3. \A i \in s .. l : z.lsis[i].trans = z.lsis[s].trans + (i - s) /\ z.lsis[i].corr = z.lsis[s].corr + (i - s)
      BY <2>7, <3>1, <3>2, RunCounts
    <3> QED BY <3>1, <3>2, <3>3
  <2>9. Inserted(z, s)
    <3>1. \E j \in 1 .. n : z.lsis[j].trans = z.lsis[s].trans /\ Inserted(z, j)
      <4>1. z.lsis[s].trans <= x /\ z.lsis[s].trans \in Int
        BY <1>1, <2>1, <2>2, <2>6 DEF Showing
      <4>2. z.lsis[s].trans \in z.lsis[s].trans .. x
        BY <4>1
      <4> QED BY <2>6, <4>2 DEF Showing, n
    <3>2. PICK j \in 1 .. n : z.lsis[j].trans = z.lsis[s].trans /\ Inserted(z, j)
      BY <3>1
    <3>3. j = s
      <4>1. \A a, b \in 1 .. n : a < b => z.lsis[a].trans < z.lsis[b].trans
        BY LeapsInOrder DEF LeapsKnown, n
      <4>2. s \in 1 .. n /\ z.lsis[s].trans \in Int /\ z.lsis[j].trans \in Int
        BY <1>1, <2>1, <2>2
      <4>3. ~(s < j) /\ ~(j < s)
        BY <3>2, <4>1, <4>2
      <4> QED BY <4>2, <4>3
    <3> QED BY <3>2, <3>3
  <2>10. LeapSeconds(z, x) = Correction(z, x) - Hits(z, x)
    <3>1. CASE s = 1
      <4>1. z.lsis[s].corr = 1
        BY <2>9, <3>1 DEF Inserted
      <4>2. LeapSeconds(z, x) = 0 /\ Correction(z, x) = z.lsis[l].corr
        BY <1>2, <1>4, <2>1, <2>5, <3>1
      <4> QED BY <2>1, <2>4, <2>8, <3>1, <4>1, <4>2
    <3>2. CASE s # 1
      <4>1. s - 1 \in 1 .. n /\ z.lsis[s - 1].corr \in Int
        BY <1>1, <2>1, <2>2, <3>2
      <4>2. z.lsis[s].corr = 1 + z.lsis[s - 1].corr
        BY <2>9, <3>2 DEF Inserted
      <4>3. LeapSeconds(z, x) = z.lsis[s - 1].corr /\ Correction(z, x) = z.lsis[l].corr
        BY <1>2, <1>4, <2>1, <2>2, <2>5, <3>2
      <4> DEFINE a == z.lsis[s - 1].corr
                 b == z.lsis[s].corr
                 c == z.lsis[l].corr
      <4>4. a \in Int /\ b = 1 + a /\ c = b + (l - s) /\ s \in Int /\ l \in Int
        BY <2>1, <2>2, <2>8, <4>1, <4>2
      <4> HIDE DEF a, b, c
      <4>5. a = c - (l - s + 1)
        BY <4>4
      <4> QED BY <2>4, <4>3, <4>5 DEF a, c
    <3> QED BY <3>1, <3>2
  <2>11. (x + z.ttis[TypeAt(z, x)].gmtoff - Correction(z, x)) % SECSPERMIN = SECSPERMIN - 1
    <3>1. Correction(z, x) = z.lsis[l].corr
      BY <1>2, <2>1
    <3>2. (z.lsis[l].trans + z.ttis[TypeAt(z, z.lsis[l].trans)].gmtoff - z.lsis[l].corr) % SECSPERMIN
             = SECSPERMIN - 1
      <4>1. l \in 1 .. Len(z.lsis)
        BY <2>1 DEF n
      <4>2. ~(l > 1 /\ z.lsis[l].corr = z.lsis[l - 1].corr - 1)
        <5> SUFFICES ASSUME l > 1 PROVE z.lsis[l].corr # z.lsis[l - 1].corr - 1
          OBVIOUS
        <5>1. z.lsis[l - 1].corr \in Int
          BY <1>1, <2>1
        <5>2. z.lsis[l].corr = 1 + z.lsis[l - 1].corr
          BY <2>1 DEF Inserted
        <5> QED BY <5>1, <5>2
      <4> QED BY <4>1, <4>2 DEF SoundLeaps
    <3> QED BY <2>1, <3>1, <3>2
  <2>12. Hits(z, x) \in Nat /\ Hits(z, x) # 0 /\ Showing(z, x) # {}
    BY <2>1, <2>2, <2>4, <2>6
  <2> QED BY <1>3, <2>3, <2>10, <2>11, <2>12
<1> QED BY <1>6, <1>7

(***************************************************************************)
(* Days depends on the date.                                               *)
(***************************************************************************)
LEMMA SameDays ==
  ASSUME NEW a, NEW b, a.year = b.year, a.mon = b.mon, a.mday = b.mday
  PROVE  Days(a) = Days(b)
BY SMT DEF Days

(***************************************************************************)
(* A number that an int holds is not changed by a cast.                    *)
(***************************************************************************)
LEMMA CastRight ==
  ASSUME NEW n \in Int, IsInt(n)
  PROVE  CastInt(n) = n
<1> DEFINE m == 2 * (INT_MAX + 1)
           d == n - INT_MIN
<1>1. INT_MAX \in Nat /\ INT_MIN = -INT_MAX - 1
  BY UnitAssumption DEF INT_MIN
<1>2. m \in Nat \ {0} /\ d \in 0 .. m - 1 /\ n = d + INT_MIN
  BY <1>1 DEF IsInt
<1>3. Divided(d, m, 0, d)
  BY <1>2 DEF Divided
<1>4. d % m = d
  <2>1. d \in Int
    BY <1>2
  <2> HIDE DEF d, m
  <2> QED BY <1>2, <1>3, <2>1, DivModUnique
<1> QED BY <1>2, <1>4 DEF CastInt

(***************************************************************************)
(* tm_isdst is written after the rest.                                     *)
(***************************************************************************)
LEMMA CountedOfType ==
  ASSUME NEW b, NEW x \in Int, NEW hit \in Int, Counted(b, x, hit), NEW d \in Int
  PROVE  Counted([b EXCEPT !.isdst = d], x, hit) /\ [b EXCEPT !.isdst = d].isdst = d
<1> DEFINE n == [b EXCEPT !.isdst = d]
<1>1. b \in StructTm
  BY DEF Counted
<1>2. /\ n \in StructTm /\ n.year = b.year /\ n.mon = b.mon /\ n.mday = b.mday /\ n.hour = b.hour
      /\ n.min = b.min /\ n.sec = b.sec /\ n.wday = b.wday /\ n.yday = b.yday /\ n.isdst = d
  BY <1>1 DEF StructTm
<1>3. Days(n) = Days(b)
  <2> HIDE DEF n
  <2> QED BY <1>2, SameDays
<1>4. Days([n EXCEPT !.mon = 0, !.mday = 1]) = Days([b EXCEPT !.mon = 0, !.mday = 1])
  <2> DEFINE e == [n EXCEPT !.mon = 0, !.mday = 1]
             f == [b EXCEPT !.mon = 0, !.mday = 1]
  <2>1. e.mon = 0 /\ e.mday = 1 /\ e.year = n.year
    <3> HIDE DEF n
    <3> QED BY <1>2 DEF StructTm
  <2>2. f.mon = 0 /\ f.mday = 1 /\ f.year = b.year
    BY <1>1 DEF StructTm
  <2> HIDE DEF e, f, n
  <2>3. Days(e) = Days(f)
    BY <1>2, <2>1, <2>2, SameDays
  <2> QED BY <2>3 DEF e, f
<1>5. LocalSeconds(n) = LocalSeconds(b)
  <2> HIDE DEF n
  <2> QED BY <1>2, <1>3 DEF LocalSeconds
<1>6. Counted(n, x, hit)
  <2> HIDE DEF n
  <2> QED BY <1>2, <1>3, <1>4, <1>5 DEF Counted
<1> QED BY <1>2, <1>6

(***************************************************************************)
(* A zone without leap seconds.                                            *)
(***************************************************************************)
LEMMA NoLeaps ==
  ASSUME NEW z, z.lsis = <<>>, NEW x \in Int
  PROVE  Correction(z, x) = 0 /\ Hits(z, x) = 0
<1>1. {i \in 1 .. Len(z.lsis) : z.lsis[i].trans <= x} = {}
  OBVIOUS
<1>2. LeapAt(z, x) = 0
  BY <1>1, FS_EmptySet DEF LeapAt
<1> QED BY <1>2 DEF Correction, Hits

(***************************************************************************)
(* The instants that localsub moves by cycles are those of zones that      *)
(* repeat.                                                                 *)
(***************************************************************************)
LEMMA CyclesKnown ==
  ASSUME NEW z, IsZone(z), NEW x \in Int
  PROVE  Cycles(z, x) \in Int /\ (Cycles(z, x) # 0 => z.goback \/ z.goahead)
<1>1. CASE ~Beyond(z, x)
  BY <1>1 DEF Cycles
<1>2. CASE Beyond(z, x)
  <2>1. z.goback \/ z.goahead
    BY <1>2 DEF Beyond
  <2>2. First(z) \in Int /\ Last(z) \in Int
    <3>1. z.ats # <<>> /\ Len(z.ats) \in Nat /\ \A i \in 1 .. Len(z.ats) : z.ats[i] \in Int
          /\ z.ats[Len(z.ats)] - z.ats[1] >= SECSPERREPEAT
      BY <2>1 DEF IsZone
    <3>2. Len(z.ats) # 0
      <4> SUFFICES ASSUME Len(z.ats) = 0 PROVE FALSE
        OBVIOUS
      <4>1. z.ats \in Int \/ TRUE
        OBVIOUS
      <4> QED BY <3>1
    <3> QED BY <3>1, <3>2 DEF First, Last
  <2>3. ASSUME NEW s \in Int PROVE (s - 1) \div SECSPERREPEAT \in Int
    <3>1. s - 1 \in Int
      OBVIOUS
    <3> QED BY <3>1, Units, DivMod
  <2>4. First(z) - x \in Int /\ x - Last(z) \in Int
    BY <2>2
  <2>5. (First(z) - x - 1) \div SECSPERREPEAT \in Int
    BY <2>3, <2>4
  <2>6. (x - Last(z) - 1) \div SECSPERREPEAT \in Int
    BY <2>3, <2>4
  <2> QED BY <1>2, <2>1, <2>5, <2>6 DEF Cycles
<1> QED BY <1>1, <1>2

(* What corrections and hits are to a clock.                               *)
LeapsCounted(z, x) ==
  /\ Correction(z, x) \in Int /\ Hits(z, x) \in Nat
  /\ Hits(z, x) = Cardinality(Showing(z, x))
  /\ LeapSeconds(z, x) = Correction(z, x) - Hits(z, x)
  /\ Showing(z, x) = {} <=> Hits(z, x) = 0
  /\ Showing(z, x) # {} =>
       (x + z.ttis[TypeAt(z, x)].gmtoff - Correction(z, x)) % SECSPERMIN = SECSPERMIN - 1

(***************************************************************************)
(* A sound zone's are so.                                                  *)
(***************************************************************************)
LEMMA LeapsAreCounted ==
  ASSUME NEW z, IsZone(z), SoundLeaps(z), NEW x \in Int
  PROVE  LeapsCounted(z, x)
BY LeapsRight DEF LeapsCounted

(***************************************************************************)
(* localsub writes the fields of the instant in one of the zone's types,   *)
(* whichever cycle it computes them in.                                    *)
(***************************************************************************)
LEMMA LocalsubRight ==
  ASSUME NEW z, IsZone(z), SoundLeaps(z), NEW x \in Int, NEW tmp, localsub(z, x, tmp).ok
  PROVE  \E i \in 1 .. Len(z.ttis) :
           /\ localsub(z, x, tmp).tm.isdst = z.ttis[i].isdst
           /\ Counted(localsub(z, x, tmp).tm, x + z.ttis[i].gmtoff - Correction(z, x), Hits(z, x))
           /\ z.lsis # <<>> => i = TypeAt(z, x)
           /\ i = TypeAt(z, x + Cycles(z, x) * SECSPERREPEAT)
<1> DEFINE c == Cycles(z, x)
           newt == x + c * SECSPERREPEAT
           i == TypeAt(z, newt)
           info == z.ttis[i]
           off == info.gmtoff
           sub == timesub(newt, off, z, tmp)
           typed == WithType(info, z, newt, tmp)
           r == localsub(z, x, tmp)
           newy == typed.tm.year - c * YEARSPERREPEAT
<1>1. c \in Int /\ newt \in Int /\ c * SECSPERREPEAT \in Int /\ (c # 0 => z.lsis = <<>>)
  <2>1. c \in Int /\ (c # 0 => z.goback \/ z.goahead)
    BY CyclesKnown
  <2> HIDE DEF c
  <2>2. c * SECSPERREPEAT \in Int
    BY <2>1, Units, Products
  <2>3. z.goback \/ z.goahead => z.lsis = <<>>
    BY DEF SoundLeaps
  <2> QED BY <2>1, <2>2, <2>3
<1>2. r = CyclesBack(typed, c)
  <2>1. r = AfterCycles(z, newt, c, tmp)
    BY DEF localsub
  <2> HIDE DEF newt, c
  <2> QED BY <2>1 DEF AfterCycles, Null
<1>3. i \in 1 .. Len(z.ttis) /\ off \in Int /\ info.isdst \in {0, 1}
  <2>1. i \in 1 .. Len(z.ttis)
    <3> HIDE DEF newt
    <3> QED BY <1>1, TypeInZone
  <2> HIDE DEF i
  <2> QED BY <2>1 DEF IsZone
<1> HIDE DEF c, newt, i
<1>4. typed.ok
  <2>1. r.ok
    OBVIOUS
  <2> HIDE DEF typed, r
  <2> QED BY <1>2, <2>1 DEF CyclesBack
<1>5. r.tm = [typed.tm EXCEPT !.year = CastInt(newy)] /\ IsInt(newy)
  <2>1. r.ok
    OBVIOUS
  <2> HIDE DEF typed, r
  <2> QED BY <1>2, <1>4, <2>1 DEF CyclesBack
<1>6. typed = [sub EXCEPT !.tm.isdst = info.isdst] /\ \E o, b : sub = [ok |-> o, tm |-> b]
  BY DEF WithType, timesub, Written, Null, Done
<1>7. sub.ok /\ typed.tm = [sub.tm EXCEPT !.isdst = info.isdst]
  <2>1. PICK o, b : sub = [ok |-> o, tm |-> b]
    BY <1>6
  <2> HIDE DEF sub, typed, info
  <2>2. typed.ok = o /\ typed.tm = [b EXCEPT !.isdst = info.isdst]
    BY <1>6, <2>1
  <2> QED BY <1>4, <2>1, <2>2
<1>8. Correction(z, newt) \in Int /\ Hits(z, newt) \in Int
  <2>1. LeapsCounted(z, newt)
    BY <1>1, LeapsAreCounted
  <2> QED BY <2>1 DEF LeapsCounted
<1>9. Counted(sub.tm, newt + off - Correction(z, newt), Hits(z, newt))
  <2> HIDE DEF off
  <2>1. timesub(newt, off, z, tmp).ok
    BY <1>7
  <2> QED BY <1>1, <1>3, <1>7, <1>8, <2>1, TimesubRight
<1> DEFINE y == newt + off - Correction(z, newt)
           hit == Hits(z, newt)
<1>10. Counted(typed.tm, y, hit) /\ typed.tm.isdst = info.isdst /\ y \in Int
  <2>1. y \in Int /\ info.isdst \in Int
    BY <1>1, <1>3, <1>8
  <2> DEFINE d == info.isdst
  <2> HIDE DEF y, sub, typed, d
  <2>2. Counted([sub.tm EXCEPT !.isdst = d], y, hit) /\ [sub.tm EXCEPT !.isdst = d].isdst = d
    BY <1>8, <1>9, <2>1, CountedOfType DEF y, d
  <2> QED BY <1>7, <2>1, <2>2 DEF d
<1>11. r.tm = [typed.tm EXCEPT !.year = newy] /\ newy \in Int
  <2>1. typed.tm.year \in Int
    <3> HIDE DEF typed
    <3> QED BY <1>10 DEF Counted, StructTm
  <2>2. newy \in Int
    BY <1>1, <2>1 DEF YEARSPERREPEAT
  <2> HIDE DEF newy, typed, r
  <2> QED BY <1>5, <2>2, CastRight
<1>12. Counted(r.tm, y - c * SECSPERREPEAT, hit)
  <2> DEFINE b == typed.tm
  <2>1. newy = b.year - c * YEARSPERREPEAT
    OBVIOUS
  <2> HIDE DEF y, hit, r, newy, b
  <2>2. Counted([b EXCEPT !.year = newy], y - c * SECSPERREPEAT, hit)
    BY <1>1, <1>8, <1>10, <1>11, <2>1, CyclesBackRight DEF b, hit
  <2> QED BY <1>11, <2>2 DEF b
<1>13. r.tm.isdst = info.isdst
  <2>1. typed.tm \in StructTm
    BY <1>10 DEF Counted
  <2> HIDE DEF typed, newy, r
  <2> QED BY <1>10, <1>11, <2>1 DEF StructTm
<1>14. y - c * SECSPERREPEAT = x + off - Correction(z, x) /\ hit = Hits(z, x) /\ (z.lsis # <<>> => i = TypeAt(z, x))
  <2>1. CASE c = 0
    <3>1. newt = x
      BY <2>1, <1>1, Units DEF newt
    <3>2. y - c * SECSPERREPEAT = y
      <4>1. c * SECSPERREPEAT = 0
        BY <2>1, Units
      <4> HIDE DEF y
      <4> QED BY <1>10, <4>1
    <3> QED BY <3>1, <3>2 DEF i
  <2>2. CASE c # 0
    <3>1. z.lsis = <<>>
      BY <1>1, <2>2
    <3>2. Correction(z, x) = 0 /\ Hits(z, x) = 0 /\ Correction(z, newt) = 0 /\ Hits(z, newt) = 0
      BY <1>1, <3>1, NoLeaps
    <3>3. newt = x + c * SECSPERREPEAT
      BY DEF newt
    <3> DEFINE a == c * SECSPERREPEAT
    <3>4. newt = x + a /\ a \in Int /\ y = newt + off - 0
      BY <1>1, <3>2, <3>3
    <3>5. y - a = x + off - 0
      <4> HIDE DEF a, y, off
      <4> QED BY <1>3, <3>4
    <3> QED BY <3>1, <3>2, <3>5
  <2> QED BY <2>1, <2>2
<1>15. /\ i \in 1 .. Len(z.ttis)
       /\ r.tm.isdst = z.ttis[i].isdst
       /\ Counted(r.tm, x + z.ttis[i].gmtoff - Correction(z, x), Hits(z, x))
       /\ z.lsis # <<>> => i = TypeAt(z, x)
       /\ i = TypeAt(z, x + Cycles(z, x) * SECSPERREPEAT)
  <2>1. i = TypeAt(z, x + Cycles(z, x) * SECSPERREPEAT)
    BY DEF i, newt, c
  <2> HIDE DEF y, hit, r
  <2> QED BY <1>3, <1>12, <1>13, <1>14, <2>1, Zenon
<1> QED
  <2> HIDE DEF r
  <2>1. \E j \in 1 .. Len(z.ttis) :
           /\ r.tm.isdst = z.ttis[j].isdst
           /\ Counted(r.tm, x + z.ttis[j].gmtoff - Correction(z, x), Hits(z, x))
           /\ z.lsis # <<>> => j = TypeAt(z, x)
           /\ j = TypeAt(z, x + Cycles(z, x) * SECSPERREPEAT)
    BY <1>15
  <2> QED BY <2>1 DEF r

(***************************************************************************)
(* A year begins close to its number times the mean length of a year.      *)
(***************************************************************************)
LEMMA YearStartNear ==
  ASSUME NEW y \in Int
  PROVE  /\ 146097 * (y - 1970) - 600 <= 400 * YearStart(y)
         /\ 400 * YearStart(y) <= 146097 * (y - 1970) + 600
<1> DEFINE n == y - 1
           a == n \div 4
           b == n \div 100
           c == n \div 400
<1>1. leaps_thru_end_of(y - 1) = a - b + c
  <2>1. y - 1 \in Int
    OBVIOUS
  <2> QED BY <2>1, LeapsCount
<1>2. leaps_thru_end_of(1969) = 477
  <2>1. 1969 \in Int
    OBVIOUS
  <2>2. leaps_thru_end_of(1969) = 1969 \div 4 - 1969 \div 100 + 1969 \div 400
    BY <2>1, LeapsCount
  <2> QED BY <2>2
<1>3. /\ a \in Int /\ b \in Int /\ c \in Int
      /\ 4 * a <= n /\ n <= 4 * a + 3 /\ 100 * b <= n /\ n <= 100 * b + 99
      /\ 400 * c <= n /\ n <= 400 * c + 399
  BY SMT
<1>4. 25 * b <= a /\ a <= 25 * b + 24
  <2> HIDE DEF a, b, c
  <2> QED BY <1>3
<1> HIDE DEF a, b, c
<1>5. YearStart(y) = 365 * (y - 1970) + a - b + c - 477
  BY <1>1, <1>2, <1>3 DEF YearStart
<1> QED BY <1>3, <1>4, <1>5, SMT

(***************************************************************************)
(* Years begin one after the other.                                        *)
(***************************************************************************)
LEMMA YearsInOrder ==
  ASSUME NEW y \in Int, NEW w \in Int, y < w
  PROVE  YearStart(y) + 365 <= YearStart(w) /\ YearStart(y) \in Int /\ YearStart(w) \in Int
<1>1. YearStart(y) \in Int /\ YearStart(w) \in Int
  BY YearStarts
<1>2. leaps_thru_end_of(y - 1) <= leaps_thru_end_of(w - 1)
  <2> DEFINE m == y - 1
             k == w - y
  <2>1. m \in Int /\ k \in Nat /\ m + k = w - 1
    OBVIOUS
  <2> HIDE DEF m, k
  <2>2. 0 <= leaps_thru_end_of(m + k) - leaps_thru_end_of(m)
    BY <2>1, LeapsBetween
  <2>3. leaps_thru_end_of(m + k) \in Int /\ leaps_thru_end_of(m) \in Int
    <3>1. m + k \in Int
      BY <2>1
    <3> QED BY <2>1, <3>1, LeapsStep
  <2> QED BY <2>1, <2>2, <2>3 DEF m
<1>3. leaps_thru_end_of(y - 1) \in Int /\ leaps_thru_end_of(w - 1) \in Int /\ leaps_thru_end_of(1969) \in Int
  <2>1. y - 1 \in Int /\ w - 1 \in Int /\ 1969 \in Int
    OBVIOUS
  <2> QED BY <2>1, LeapsStep
<1> QED BY <1>1, <1>2, <1>3 DEF YearStart

(***************************************************************************)
(* The years low to high are those of the day D, and ints.                    *)
(***************************************************************************)
WithinYears(D, low, high) ==
  /\ D \in Int /\ low \in Int /\ high \in Int
  /\ INT_MIN <= low /\ low <= EPOCH_YEAR /\ EPOCH_YEAR <= high /\ high <= INT_MAX
  /\ YearStart(low) <= D /\ D < YearStart(high + 1)

(* Between the epoch and the year of the day D.                            *)
OnTheWay(p, D) ==
  /\ DayOf(p) = D
  /\ IF D >= 0 THEN EPOCH_YEAR <= p[1] /\ 0 <= p[2]
     ELSE p[1] <= EPOCH_YEAR /\ (p[2] <= 0 \/ InYear(p))

(***************************************************************************)
(* The years, by the days they begin at.                                   *)
(***************************************************************************)
LEMMA YearByStart ==
  ASSUME NEW y \in Int, NEW w \in Int
  PROVE  /\ YearStart(y) \in Int /\ YearStart(w) \in Int
         /\ YearStart(y) < YearStart(w + 1) => y <= w
         /\ YearStart(y) <= YearStart(w) => y <= w
         /\ y <= w => YearStart(y) <= YearStart(w)
<1>1. w + 1 \in Int /\ YearStart(y) \in Int /\ YearStart(w) \in Int
  BY YearStarts
<1>2. ASSUME w < y PROVE YearStart(w + 1) <= YearStart(y) /\ YearStart(w) < YearStart(y)
  <2>1. YearStart(w) + 365 <= YearStart(y)
    BY <1>2, YearsInOrder
  <2>2. YearStart(w + 1) <= YearStart(y)
    <3>1. CASE w + 1 = y
      BY <1>1, <3>1
    <3>2. CASE w + 1 # y
      <4> DEFINE v == w + 1
      <4>1. v \in Int /\ v < y
        BY <1>2, <3>2
      <4> HIDE DEF v
      <4>2. YearStart(v) + 365 <= YearStart(y) /\ YearStart(v) \in Int
        BY <4>1, YearsInOrder
      <4>3. YearStart(v) <= YearStart(y)
        BY <1>1, <4>2
      <4> QED BY <4>3 DEF v
    <3> QED BY <3>1, <3>2
  <2> QED BY <1>1, <2>1, <2>2
<1>3. YearStart(w + 1) \in Int
  BY <1>1, YearStarts
<1>4. ASSUME y <= w PROVE YearStart(y) <= YearStart(w)
  <2>1. y < w => YearStart(y) + 365 <= YearStart(w)
    BY YearsInOrder
  <2> QED BY <1>1, <1>4, <2>1
<1> QED BY <1>1, <1>2, <1>3, <1>4

(***************************************************************************)
(* What an estimate adds is no more than the days are years.               *)
(***************************************************************************)
LEMMA EstimateBounds ==
  ASSUME NEW d \in Int
  PROVE  /\ CDiv(d, DAYSPERLYEAR) \in Int
         /\ d >= 0 => CDiv(d, DAYSPERLYEAR) >= 0 /\ 366 * CDiv(d, DAYSPERLYEAR) <= d
         /\ d < 0 => CDiv(d, DAYSPERLYEAR) <= 0 /\ 366 * CDiv(d, DAYSPERLYEAR) >= d
         /\ d < 0 => 366 * CDiv(d, DAYSPERLYEAR) < d + 366
BY SMT DEF CDiv, DAYSPERLYEAR

(***************************************************************************)
(* One round does not leave the way.                                       *)
(***************************************************************************)
LEMMA FindOnward ==
  ASSUME NEW D, NEW low, NEW high, WithinYears(D, low, high), IsInt(CDiv(D, DAYSPERLYEAR)),
         NEW p \in Int \X Int, ~InYear(p), OnTheWay(p, D)
  PROVE  OnTheWay(FindNext(p), D) /\ p \notin FindOver
<1> DEFINE y == p[1]
           d == p[2]
           tdelta == CDiv(d, DAYSPERLYEAR)
           q == FindNext(p)
<1>1. y \in Int /\ d \in Int /\ tdelta \in Int /\ q \in Int \X Int /\ DayOf(q) = D
  <2>1. y \in Int /\ d \in Int
    OBVIOUS
  <2>2. tdelta \in Int
    BY <2>1, EstimateBounds
  <2> QED BY <2>1, <2>2, FindCloser DEF OnTheWay
<1>2. q[1] = y + (IF tdelta # 0 THEN tdelta ELSE IF d < 0 THEN -1 ELSE 1)
  BY DEF FindNext
<1>3. /\ YearStart(y) \in Int /\ YearStart(y) + d = D
      /\ YearStart(q[1]) \in Int /\ YearStart(q[1]) + q[2] = D
  <2>1. q[1] \in Int /\ q[2] \in Int
    BY <1>1
  <2> QED BY <1>1, <2>1, YearStarts DEF DayOf, OnTheWay
<1>4. INT_MIN \in Int /\ INT_MAX \in Nat /\ INT_MIN = -INT_MAX - 1
  BY UnitAssumption DEF INT_MIN
<1>5. YearStart(EPOCH_YEAR) = 0 /\ EPOCH_YEAR = 1970
  BY LeapsStep DEF YearStart, EPOCH_YEAR
<1> DEFINE dd == CDiv(D, DAYSPERLYEAR)
<1>6. D \in Int /\ dd \in Int /\ INT_MIN <= dd /\ dd <= INT_MAX
  <2>1. D \in Int
    BY DEF WithinYears
  <2> QED BY <2>1, EstimateBounds DEF IsInt
<1>7. CASE D >= 0
  <2>1. EPOCH_YEAR <= y /\ 0 <= d
    BY <1>7 DEF OnTheWay
  <2>2. 0 <= q[2] /\ tdelta >= 0
    <3>1. 0 <= q[2]
      BY <2>1, FindCloser
    <3> QED BY <1>1, <2>1, <3>1, EstimateBounds
  <2>3. y < q[1] /\ q[1] \in Int
    <3> HIDE DEF y, tdelta, q, d
    <3>1. q[1] \in Int
      BY <1>1
    <3> QED BY <1>1, <1>2, <2>1, <2>2, <3>1
  <2>4. q[1] <= high
    <3>1. YearStart(q[1]) < YearStart(high + 1)
      <4>1. D < YearStart(high + 1) /\ YearStart(high + 1) \in Int
        <5>1. high + 1 \in Int
          BY DEF WithinYears
        <5> QED BY <5>1, YearStarts DEF WithinYears
      <4>2. q[2] \in Int
        BY <1>1
      <4> HIDE DEF q
      <4> QED BY <1>3, <1>6, <2>2, <4>1, <4>2
    <3>2. high \in Int
      BY DEF WithinYears
    <3> HIDE DEF q
    <3> QED BY <2>3, <3>1, <3>2, YearByStart
  <2>5. OnTheWay(q, D)
    <3> HIDE DEF q, y, d
    <3> QED BY <1>1, <1>5, <1>7, <2>1, <2>2, <2>3 DEF OnTheWay
  <2>6. IsInt(q[1]) /\ IsInt(tdelta)
    <3>1. high \in Int /\ high <= INT_MAX
      BY DEF WithinYears
    <3>2. tdelta <= q[1]
      <4> HIDE DEF y, d, q, tdelta
      <4> QED BY <1>1, <1>2, <1>5, <2>1, <2>3
    <3> HIDE DEF q, y, d, tdelta
    <3> QED BY <1>1, <1>4, <1>5, <2>1, <2>2, <2>3, <2>4, <3>1, <3>2 DEF IsInt
  <2> QED
    <3>1. p \notin FindOver
      BY <2>6 DEF FindOver
    <3> QED BY <2>5, <3>1
<1>8. CASE D < 0
  <2>1. y <= EPOCH_YEAR /\ d < 0
    <3>1. y <= EPOCH_YEAR /\ d <= 0
      <4>1. ~(D >= 0)
        BY <1>6, <1>8
      <4> QED BY <4>1 DEF OnTheWay
    <3>2. year_lengths(y) \in {365, 366}
      BY <1>1, YearStarts
    <3>3. d # 0
      BY <3>2 DEF InYear
    <3> HIDE DEF d, y
    <3> QED BY <1>1, <3>1, <3>3
  <2>2. q[2] <= 0 \/ InYear(q)
    BY <2>1, FindCloser
  <2>3. tdelta <= 0 /\ 366 * tdelta >= d
    BY <1>1, <2>1, EstimateBounds
  <2>4. q[1] < y /\ q[1] \in Int /\ q[2] \in Int
    <3> HIDE DEF y, tdelta, q, d
    <3>1. q[1] \in Int /\ q[2] \in Int
      BY <1>1
    <3> QED BY <1>1, <1>2, <2>1, <2>3, <3>1
  <2>5. OnTheWay(q, D)
    <3> HIDE DEF q, y, d
    <3> QED BY <1>1, <1>5, <1>6, <1>8, <2>1, <2>2, <2>4 DEF OnTheWay
  <2>6. low <= q[1]
    <3>1. low \in Int /\ YearStart(low) <= D /\ YearStart(low) \in Int
      <4>1. low \in Int /\ YearStart(low) <= D
        BY DEF WithinYears
      <4> QED BY <4>1, YearStarts
    <3>2. YearStart(low) < YearStart(q[1] + 1)
      <4>1. YearStart(q[1] + 1) = YearStart(q[1]) + year_lengths(q[1]) /\ year_lengths(q[1]) \in {365, 366}
        BY <2>4, YearStarts
      <4>2. q[2] < year_lengths(q[1])
        <5> HIDE DEF q
        <5> QED BY <2>2, <2>4, <4>1 DEF InYear
      <4> HIDE DEF q
      <4> QED BY <1>3, <1>6, <2>4, <3>1, <4>1, <4>2
    <3> HIDE DEF q
    <3> QED BY <2>4, <3>1, <3>2, YearByStart
  <2>7. IsInt(q[1])
    <3>1. low \in Int /\ INT_MIN <= low /\ high \in Int /\ EPOCH_YEAR <= high /\ high <= INT_MAX
      BY DEF WithinYears
    <3> HIDE DEF q, y
    <3> QED BY <1>1, <1>4, <1>5, <2>1, <2>4, <2>6, <3>1 DEF IsInt
  <2>8. IsInt(tdelta)
    <3>1. D <= d
      <4>1. YearStart(y) <= 0
        <5>1. EPOCH_YEAR \in Int
          BY DEF EPOCH_YEAR
        <5>2. YearStart(y) <= YearStart(EPOCH_YEAR)
          <6> HIDE DEF y
          <6> QED BY <1>1, <2>1, <5>1, YearByStart
        <5> QED BY <1>5, <5>2
      <4> HIDE DEF y, d
      <4> QED BY <1>1, <1>3, <1>6, <4>1
    <3>2. 366 * dd < D + 366
      BY <1>6, <1>8, EstimateBounds
    <3>3. dd <= tdelta
      <4> HIDE DEF dd, tdelta, d
      <4> QED BY <1>1, <1>6, <2>3, <3>1, <3>2
    <3> HIDE DEF dd, tdelta
    <3> QED BY <1>1, <1>4, <1>6, <2>3, <3>3 DEF IsInt
  <2> QED
    <3>1. p \notin FindOver
      BY <2>7, <2>8 DEF FindOver
    <3> QED BY <2>5, <3>1
<1> QED BY <1>6, <1>7, <1>8

(***************************************************************************)
(* The loop finds the year of every day whose year is an int.              *)
(***************************************************************************)
LEMMA FindYearAnswers ==
  ASSUME NEW D, NEW low, NEW high, WithinYears(D, low, high), IsInt(CDiv(D, DAYSPERLYEAR))
  PROVE  FindYear[<<EPOCH_YEAR, D>>] # OVERFLOW
<1> DEFINE P == Int \X Int
           Good == {p \in P : OnTheWay(p, D) => FindYear[p] # OVERFLOW}
<1>1. YearsOff \in [P -> Nat] /\ FindMove \in [P -> P]
      /\ \A p \in P \ YearHome : YearsOff[FindMove[p]] < YearsOff[p]
  BY FindYearWalks DEF Falls
<1>2. \A p \in P : FindYear[p] = IF p \in YearHome THEN p ELSE IF p \in FindOver THEN OVERFLOW ELSE FindYear[FindMove[p]]
  BY FindYearWalks DEF Walks
<1>3. ASSUME NEW p \in P, \A r \in P : YearsOff[r] < YearsOff[p] => r \in Good
      PROVE  p \in Good
  <2> SUFFICES ASSUME OnTheWay(p, D) PROVE FindYear[p] # OVERFLOW
    OBVIOUS
  <2>1. CASE InYear(p)
    <3>1. FindYear[p] = p
      BY <1>2, <2>1 DEF YearHome
    <3>2. p # OVERFLOW
      BY DEF OVERFLOW
    <3> QED BY <3>1, <3>2
  <2>2. CASE ~InYear(p)
    <3>1. p \notin YearHome /\ p \notin FindOver /\ OnTheWay(FindNext(p), D) /\ FindMove[p] = FindNext(p)
      BY <2>2, FindOnward DEF YearHome, FindMove
    <3>2. FindYear[p] = FindYear[FindMove[p]]
      BY <1>2, <3>1
    <3>3. FindMove[p] \in P /\ YearsOff[FindMove[p]] < YearsOff[p]
      BY <1>1, <3>1
    <3>4. FindMove[p] \in Good
      BY <1>3, <3>3
    <3> QED BY <3>1, <3>2, <3>4
  <2> QED BY <2>1, <2>2
<1>4. Good = P
  <2>1. Good \in SUBSET P
    OBVIOUS
  <2> HIDE DEF Good, P
  <2> QED BY <1>1, <1>3, <2>1, MeasureInduction
<1>5. <<EPOCH_YEAR, D>> \in P /\ OnTheWay(<<EPOCH_YEAR, D>>, D)
  <2>1. D \in Int
    BY DEF WithinYears
  <2>2. YearStart(EPOCH_YEAR) = 0
    BY LeapsStep DEF YearStart, EPOCH_YEAR
  <2> QED BY <2>1, <2>2 DEF OnTheWay, DayOf, EPOCH_YEAR
<1> QED BY <1>4, <1>5

(***************************************************************************)
(* The step from year to year stays within the years of its day.           *)
(***************************************************************************)
LEMMA StepOnward ==
  ASSUME NEW D, NEW low, NEW high, WithinYears(D, low, high),
         NEW p \in Int \X Int, ~InYear(p), DayOf(p) = D, low <= p[1], p[1] <= high
  PROVE  DayOf(StepNext(p)) = D /\ low <= StepNext(p)[1] /\ StepNext(p)[1] <= high /\ p \notin StepOver
<1> DEFINE y == p[1]
           d == p[2]
           q == StepNext(p)
<1>1. /\ y \in Int /\ d \in Int /\ q \in Int \X Int /\ DayOf(q) = D
      /\ q[1] = IF d < 0 THEN y - 1 ELSE y + 1
  BY StepCloser DEF StepNext
<1>2. /\ YearStart(y) \in Int /\ YearStart(y) + d = D
      /\ YearStart(y + 1) = YearStart(y) + year_lengths(y) /\ year_lengths(y) \in {365, 366}
  <2> HIDE DEF y
  <2>1. YearStart(y) + d = D
    BY DEF DayOf, y, d
  <2> QED BY <1>1, <2>1, YearStarts
<1>3. /\ D \in Int /\ low \in Int /\ high \in Int /\ YearStart(low) \in Int /\ YearStart(high + 1) \in Int
      /\ YearStart(low) <= D /\ D < YearStart(high + 1) /\ INT_MIN <= low /\ high <= INT_MAX
  <2>1. low \in Int /\ high + 1 \in Int
    BY DEF WithinYears
  <2> QED BY <2>1, YearStarts DEF WithinYears
<1>4. low <= q[1] /\ q[1] <= high
  <2>1. CASE d < 0
    <3>1. YearStart(low) < YearStart(y)
      <4> HIDE DEF y, d
      <4> QED BY <1>1, <1>2, <1>3, <2>1
    <3>2. low < y
      <4>1. ~(y <= low)
        <5> HIDE DEF y, d
        <5> QED BY <1>1, <1>2, <1>3, <3>1, YearByStart
      <4> QED BY <1>1, <1>3, <4>1
    <3> QED BY <1>1, <1>3, <2>1, <3>2
  <2>2. CASE d >= 0
    <3>1. d >= year_lengths(y)
      <4>1. ~(0 <= d /\ d < year_lengths(y))
        BY DEF InYear
      <4> HIDE DEF y, d
      <4> QED BY <1>1, <1>2, <2>2, <4>1
    <3>2. YearStart(y + 1) < YearStart(high + 1)
      <4> HIDE DEF y, d
      <4> QED BY <1>1, <1>2, <1>3, <3>1
    <3>3. y + 1 <= high
      <4> DEFINE w == y + 1
      <4>1. w \in Int
        BY <1>1
      <4>2. YearStart(w) < YearStart(high + 1)
        BY <3>2
      <4> HIDE DEF w
      <4>3. w <= high
        BY <1>3, <4>1, <4>2, YearByStart
      <4> QED BY <4>3 DEF w
    <3> QED BY <1>1, <1>3, <2>2, <3>3
  <2> QED BY <1>1, <2>1, <2>2
<1>5. p \notin StepOver
  <2>1. IsInt(q[1])
    <3>1. INT_MIN \in Int /\ INT_MAX \in Int /\ q[1] \in Int
      BY <1>1, UnitAssumption DEF INT_MIN
    <3> HIDE DEF q
    <3> QED BY <1>3, <1>4, <3>1 DEF IsInt
  <2> QED BY <2>1 DEF StepOver
<1> QED BY <1>1, <1>4, <1>5

(***************************************************************************)
(* It finds the year of every such day.                                    *)
(***************************************************************************)
LEMMA StepYearAnswers ==
  ASSUME NEW D, NEW low, NEW high, WithinYears(D, low, high),
         NEW p \in Int \X Int, DayOf(p) = D, low <= p[1], p[1] <= high
  PROVE  StepYear[p] # OVERFLOW
<1> DEFINE P == Int \X Int
           Near(r) == DayOf(r) = D /\ low <= r[1] /\ r[1] <= high
           Good == {r \in P : Near(r) => StepYear[r] # OVERFLOW}
<1>1. YearsOff \in [P -> Nat] /\ StepMove \in [P -> P]
      /\ \A r \in P \ YearHome : YearsOff[StepMove[r]] < YearsOff[r]
  BY StepYearWalks DEF Falls
<1>2. \A r \in P : StepYear[r] = IF r \in YearHome THEN r ELSE IF r \in StepOver THEN OVERFLOW ELSE StepYear[StepMove[r]]
  BY StepYearWalks DEF Walks
<1>3. ASSUME NEW r \in P, \A s \in P : YearsOff[s] < YearsOff[r] => s \in Good
      PROVE  r \in Good
  <2> SUFFICES ASSUME Near(r) PROVE StepYear[r] # OVERFLOW
    OBVIOUS
  <2>1. CASE InYear(r)
    <3>1. StepYear[r] = r
      BY <1>2, <2>1 DEF YearHome
    <3>2. r # OVERFLOW
      BY DEF OVERFLOW
    <3> QED BY <3>1, <3>2
  <2>2. CASE ~InYear(r)
    <3>1. r \notin YearHome /\ r \notin StepOver /\ Near(StepNext(r)) /\ StepMove[r] = StepNext(r)
      BY <2>2, StepOnward DEF YearHome, StepMove
    <3>2. StepYear[r] = StepYear[StepMove[r]]
      BY <1>2, <3>1
    <3>3. StepMove[r] \in P /\ YearsOff[StepMove[r]] < YearsOff[r]
      BY <1>1, <3>1
    <3>4. StepMove[r] \in Good
      BY <1>3, <3>3
    <3> QED BY <3>1, <3>2, <3>4
  <2> QED BY <2>1, <2>2
<1>4. Good = P
  <2>1. Good \in SUBSET P
    OBVIOUS
  <2> HIDE DEF Good, P
  <2> QED BY <1>1, <1>3, <2>1, MeasureInduction
<1>5. p \in Good /\ Near(p)
  BY <1>4
<1> QED BY <1>5

(***************************************************************************)
(* The year of a day that is found within some years.                      *)
(***************************************************************************)
LEMMA YearWithin ==
  ASSUME NEW D, NEW low, NEW high, WithinYears(D, low, high), NEW p \in Int \X Int, InYear(p), DayOf(p) = D
  PROVE  low <= p[1] /\ p[1] <= high
<1> DEFINE y == p[1]
           d == p[2]
<1>1. y \in Int /\ d \in Int /\ 0 <= d /\ d < year_lengths(y) /\ YearStart(y) + d = D
  BY DEF InYear, DayOf
<1> HIDE DEF y, d
<1>2. YearStart(y) \in Int /\ YearStart(y + 1) = YearStart(y) + year_lengths(y) /\ year_lengths(y) \in {365, 366}
  BY <1>1, YearStarts
<1>3. /\ D \in Int /\ low \in Int /\ high \in Int /\ YearStart(low) \in Int /\ YearStart(high + 1) \in Int
      /\ YearStart(low) <= D /\ D < YearStart(high + 1)
  <2>1. low \in Int /\ high + 1 \in Int
    BY DEF WithinYears
  <2> QED BY <2>1, YearStarts DEF WithinYears
<1>4. YearStart(low) < YearStart(y + 1) /\ YearStart(y) < YearStart(high + 1)
  BY <1>1, <1>2, <1>3
<1>5. low <= y /\ y <= high
  BY <1>1, <1>3, <1>4, YearByStart
<1> QED BY <1>5 DEF y

(***************************************************************************)
(* timesub answers if the day of the instant and that of the clock are in  *)
(* years that ints hold (libtz.c:1448-1513).                               *)
(***************************************************************************)
LEMMA TimesubAnswers ==
  ASSUME NEW z, NEW x \in Int, NEW offset \in Int, NEW tmp,
         Correction(z, x) \in Int,
         NEW low, NEW high, low = INT_MIN + TM_YEAR_BASE, high = INT_MAX,
         WithinYears(CDiv(x, SECSPERDAY), low, high),
         WithinYears((x + offset - Correction(z, x)) \div SECSPERDAY, low, high),
         IsInt(CDiv(CDiv(x, SECSPERDAY), DAYSPERLYEAR))
  PROVE  timesub(x, offset, z, tmp).ok
<1> DEFINE S == SECSPERDAY
           D == CDiv(x, S)
           corr == Correction(z, x)
           rem == x - D * S + offset - corr
           k == rem \div S
           E == (x + offset - corr) \div S
           found == FindYear[<<EPOCH_YEAR, D>>]
           p == Later(found, k)
<1>1. S \in Nat \ {0} /\ D \in Int /\ corr \in Int
  BY Units DEF WithinYears
<1> HIDE DEF S, D, corr
<1>2. D * S \in Int /\ D * S = S * D /\ rem \in Int
  <2>1. D * S \in Int /\ D * S = S * D
    BY <1>1, Products
  <2> QED BY <1>1, <2>1
<1>3. E = D + k /\ k \in Int
  <2> DEFINE r == rem % S
  <2>1. k \in Int /\ r \in 0 .. S - 1 /\ rem = S * k + r
    <3> HIDE DEF rem
    <3> QED BY <1>1, <1>2, DivMod
  <2> DEFINE a == S * D
             b == S * k
             c == S * (D + k)
             u == x + offset - corr
  <2>2. c = a + b /\ a \in Int /\ b \in Int /\ c \in Int
    <3> HIDE DEF k
    <3>1. D + k \in Int
      BY <1>1, <2>1
    <3> QED BY <1>1, <2>1, <3>1, Products
  <2>3. rem = x - a + offset - corr
    BY <1>2
  <2>4. u = c + r /\ u \in Int
    <3> HIDE DEF a, b, c, r, rem
    <3>1. rem = b + r
      BY <2>1 DEF b
    <3> QED BY <1>1, <2>1, <2>2, <2>3, <3>1
  <2>5. Divided(u, S, D + k, r)
    <3> HIDE DEF k, r, u
    <3> QED BY <1>1, <2>1, <2>4 DEF Divided, c
  <2>6. u \div S = D + k
    <3> HIDE DEF k, r, u
    <3>1. D + k \in Int
      BY <1>1, <2>1
    <3> QED BY <1>1, <2>4, <2>5, DivModUnique
  <2> QED BY <2>1, <2>6
<1>4. WithinYears(D, low, high) /\ WithinYears(E, low, high) /\ IsInt(CDiv(D, DAYSPERLYEAR))
  BY DEF D, S, E, corr
<1>5. found # OVERFLOW
  <2> HIDE DEF found
  <2>1. FindYear[<<EPOCH_YEAR, D>>] # OVERFLOW
    BY <1>4, FindYearAnswers
  <2> QED BY <2>1 DEF found
<1>6. found \in Int \X Int /\ InYear(found) /\ DayOf(found) = D
  <2>1. <<EPOCH_YEAR, D>> \in Int \X Int
    BY <1>1 DEF EPOCH_YEAR
  <2>2. DayOf(<<EPOCH_YEAR, D>>) = D
    <3>1. leaps_thru_end_of(1969) \in Int
      BY LeapsStep
    <3> QED BY <1>1, <3>1 DEF DayOf, YearStart, EPOCH_YEAR
  <2> QED BY <1>5, <2>1, <2>2, FindYearRight
<1> HIDE DEF found, k
<1>7. low <= found[1] /\ found[1] <= high
  BY <1>4, <1>6, YearWithin
<1> DEFINE q == <<found[1], found[2] + k>>
<1>8. q \in Int \X Int /\ DayOf(q) = E /\ q[1] = found[1]
  <2>1. found[1] \in Int /\ found[2] \in Int /\ YearStart(found[1]) \in Int
    BY <1>6, YearStarts
  <2>2. YearStart(found[1]) + found[2] = D
    BY <1>6 DEF DayOf
  <2>3. k \in Int /\ E = D + k
    BY <1>3
  <2> HIDE DEF E, rem, p
  <2>4. YearStart(found[1]) + (found[2] + k) = E /\ found[2] + k \in Int
    BY <1>1, <2>1, <2>2, <2>3, SMT
  <2>5. q[1] = found[1] /\ q[2] = found[2] + k
    OBVIOUS
  <2> QED BY <2>1, <2>4, <2>5 DEF DayOf
<1>9. p = StepYear[q]
  BY <1>5 DEF Later
<1>10. p # OVERFLOW /\ p \in Int \X Int /\ InYear(p) /\ DayOf(p) = E
  <2> HIDE DEF q, E, p
  <2>1. StepYear[q] # OVERFLOW
    BY <1>4, <1>7, <1>8, StepYearAnswers
  <2> QED BY <1>8, <1>9, <2>1, StepYearRight
<1>11. IsInt(p[1] - TM_YEAR_BASE)
  <2> HIDE DEF p, E
  <2>1. low <= p[1] /\ p[1] <= high /\ p[1] \in Int
    BY <1>4, <1>10, YearWithin
  <2>2. INT_MAX \in Nat /\ INT_MIN = -INT_MAX - 1
    BY UnitAssumption DEF INT_MIN
  <2> QED BY <2>1, <2>2 DEF IsInt, TM_YEAR_BASE
<1>12. timesub(x, offset, z, tmp) = Written(p, rem % S, Hits(z, x), tmp)
  BY DEF timesub, S, D, corr, k, found
<1> QED
  <2> HIDE DEF p, rem
  <2> QED BY <1>10, <1>11, <1>12 DEF Written, Done

-----------------------------------------------------------------------------
(* Seconds that are in the minute.                                         *)
InMinute(b) == b.sec \in 0 .. SECSPERMIN - 1

(* The fields of a date and time as clocks show them.                      *)
IsNormal(b) ==
  /\ b.mon \in 0 .. 11 /\ b.mday \in 1 .. mon_lengths(b.year + TM_YEAR_BASE)[b.mon + 1]
  /\ b.hour \in 0 .. HOURSPERDAY - 1 /\ b.min \in 0 .. MINSPERHOUR - 1 /\ InMinute(b)

(***************************************************************************)
(* A number with a higher digit is greater, whatever the lower one is.     *)
(***************************************************************************)
LEMMA HigherPlace ==
  ASSUME NEW B \in Nat \ {0}, NEW D \in Int, NEW E \in Int, D < E, NEW u \in 0 .. B - 1, NEW v \in 0 .. B - 1
  PROVE  D * B + u < E * B + v
<1> DEFINE k == E - D
           a == D * B
           c == k * B
<1>1. k \in Int /\ k >= 1 /\ E = D + k /\ B \in Int
  OBVIOUS
<1> HIDE DEF k
<1>2. E * B = a + c /\ a \in Int /\ c \in Int
  <2>1. (D + k) * B = B * (D + k) /\ B * (D + k) = B * D + B * k /\ B * D = D * B /\ B * k = k * B
    <3>1. D + k \in Int
      BY <1>1
    <3> QED BY <1>1, <3>1, Products
  <2> QED BY <1>1, <2>1, Products
<1>3. c >= B
  <2>1. k = 1 \/ k - 1 > 0
    BY <1>1
  <2>2. k * B = B * ((k - 1) + 1) /\ B * ((k - 1) + 1) = B * (k - 1) + B * 1
    <3>1. k - 1 \in Int /\ (k - 1) + 1 = k
      BY <1>1
    <3> QED BY <1>1, <3>1, Products
  <2>3. k - 1 > 0 => B * (k - 1) > 0
    <3>1. k - 1 \in Int /\ B > 0
      BY <1>1
    <3> QED BY <1>1, <3>1, Products
  <2>4. k = 1 => c = B
    BY <1>1
  <2>5. B * (k - 1) \in Int /\ B * 1 = B
    <3>1. k - 1 \in Int
      BY <1>1
    <3> QED BY <1>1, <3>1, Products
  <2> QED BY <1>1, <2>1, <2>2, <2>3, <2>4, <2>5
<1> HIDE DEF a, c
<1>4. a + u < a + c + v
  BY <1>2, <1>3
<1> QED BY <1>2, <1>4 DEF a

(***************************************************************************)
(* So does a later month of the year.                                      *)
(***************************************************************************)
LEMMA MonthsAscend ==
  ASSUME NEW y \in Int, NEW m \in 0 .. 11, NEW n \in 0 .. 11, m < n
  PROVE  MonthStart[<<y, m + 1>>] <= MonthStart[<<y, n>>]
<1> DEFINE S(k) == MonthStart[<<y, k>>]
           leap == LeapDay(y)
<1>1. StartsOfMonths(y, leap) /\ leap \in {0, 1}
  BY MonthStarts
<1> DEFINE v == [i \in 1 .. 13 |-> S(i - 1)]
<1>2. \A i \in 1 .. 13 : v[i] \in Int
  <2>1. /\ S(0) \in Int /\ S(1) \in Int /\ S(2) \in Int /\ S(3) \in Int /\ S(4) \in Int /\ S(5) \in Int /\ S(6) \in Int
        /\ S(7) \in Int /\ S(8) \in Int /\ S(9) \in Int /\ S(10) \in Int /\ S(11) \in Int /\ S(12) \in Int
    <3> HIDE DEF leap
    <3> QED BY <1>1 DEF StartsOfMonths
  <2> HIDE DEF S
  <2> QED BY <2>1
<1>3. \A i \in 1 .. 13 - 1 : v[i] < v[i + 1]
  <2>1. /\ S(0) < S(1) /\ S(1) < S(2) /\ S(2) < S(3) /\ S(3) < S(4) /\ S(4) < S(5) /\ S(5) < S(6) /\ S(6) < S(7)
        /\ S(7) < S(8) /\ S(8) < S(9) /\ S(9) < S(10) /\ S(10) < S(11) /\ S(11) < S(12)
    <3> HIDE DEF leap
    <3> QED BY <1>1 DEF StartsOfMonths
  <2> HIDE DEF S
  <2> QED BY <2>1
<1>4. 13 \in Nat
  OBVIOUS
<1>5. \A i, j \in 1 .. 13 : i < j => v[i] < v[j]
  <2> HIDE DEF v
  <2> QED BY <1>2, <1>3, <1>4, Ascending
<1>6. v[m + 2] = S(m + 1) /\ v[n + 1] = S(n)
  OBVIOUS
<1>7. m + 2 \in 1 .. 13 /\ n + 1 \in 1 .. 13 /\ (m + 2 < n + 1 \/ m + 2 = n + 1)
  OBVIOUS
<1>8. v[m + 2] \in Int /\ v[n + 1] \in Int
  <2> HIDE DEF v
  <2> QED BY <1>2, <1>7
<1>9. v[m + 2] <= v[n + 1]
  <2>1. CASE m + 2 = n + 1
    <3> HIDE DEF v
    <3> QED BY <1>8, <2>1
  <2>2. CASE m + 2 < n + 1
    <3> HIDE DEF v
    <3> QED BY <1>5, <1>7, <1>8, <2>2
  <2> QED BY <1>7, <2>1, <2>2
<1> HIDE DEF v, S
<1> QED BY <1>6, <1>9 DEF S

(***************************************************************************)
(* The month of a date is in the year, and the day in the month.           *)
(***************************************************************************)
LEMMA DateInYear ==
  ASSUME NEW b \in StructTm, IsNormal(b), NEW y, y = b.year + TM_YEAR_BASE
  PROVE  /\ y \in Int /\ b.mon \in 0 .. 11
         /\ Days(b) = YearStart(y) + MonthStart[<<y, b.mon>>] + b.mday - 1
         /\ Days(b) \in Int /\ MonthStart[<<y, b.mon>>] \in Nat /\ YearStart(y) \in Int
         /\ YearStart(y) <= Days(b) /\ Days(b) < YearStart(y + 1)
         /\ Days(b) < YearStart(y) + MonthStart[<<y, b.mon + 1>>]
         /\ MonthStart[<<y, b.mon + 1>>] \in Nat
<1> DEFINE m == b.mon
           d == b.mday
           S(k) == MonthStart[<<y, k>>]
           leap == LeapDay(y)
           len == mon_lengths(y)[m + 1]
<1>1. b.year \in Int /\ m \in 0 .. 11 /\ d \in Int /\ d \in 1 .. len /\ y \in Int
  BY DEF StructTm, IsNormal, TM_YEAR_BASE
<1>2. b.year = y - TM_YEAR_BASE
  BY <1>1 DEF TM_YEAR_BASE
<1>3. Days(b) = DaysTo(y, m, d) /\ Days(b) \in Int
  BY <1>1, <1>2, DaysOfDate
<1>4. S(m + 1) = S(m) + len /\ S(m) \in Nat /\ len \in 28 .. 31
  <2> HIDE DEF m
  <2> QED BY <1>1, MonthLengths
<1>5. YearStart(y + 1) = YearStart(y) + year_lengths(y) /\ YearStart(y) \in Int
  BY <1>1, YearStarts
<1>6. S(m + 1) <= year_lengths(y)
  <2>1. S(12) = year_lengths(y)
    <3>1. StartsOfMonths(y, leap)
      BY <1>1, MonthStarts
    <3>2. S(12) = 365 + leap
      <4> HIDE DEF leap
      <4> QED BY <3>1 DEF StartsOfMonths
    <3> QED BY <3>2 DEF year_lengths, LeapDay, DAYSPERLYEAR, DAYSPERNYEAR
  <2>2. CASE m = 11
    <3>1. m + 1 = 12
      BY <2>2
    <3>2. S(m + 1) = year_lengths(y)
      BY <2>1, <3>1
    <3>3. year_lengths(y) \in Int
      BY <1>1, YearStarts
    <3> QED BY <3>2, <3>3
  <2>3. CASE m # 11
    <3>1. m < 11 /\ 11 \in 0 .. 11
      BY <1>1, <2>3
    <3>2. S(m + 1) <= S(11)
      <4> HIDE DEF m
      <4> QED BY <1>1, <3>1, MonthsAscend
    <3>3. S(12) = S(11) + mon_lengths(y)[12] /\ S(11) \in Nat /\ mon_lengths(y)[12] \in 28 .. 31
      <4>1. 11 \in 0 .. 11 /\ 11 + 1 = 12
        OBVIOUS
      <4> DEFINE k == 11
      <4> HIDE DEF k
      <4>2. k \in 0 .. 11 /\ k = 11
        BY DEF k
      <4>3. MonthStart[<<y, k + 1>>] = MonthStart[<<y, k>>] + mon_lengths(y)[k + 1] /\ MonthStart[<<y, k>>] \in Nat
            /\ mon_lengths(y)[k + 1] \in 28 .. 31
        BY <1>1, <4>2, MonthLengths
      <4> QED BY <4>1, <4>2, <4>3
    <3> DEFINE p == S(m + 1)
               q == S(11)
               r == S(12)
               e == mon_lengths(y)[12]
    <3>4. p <= q /\ r = q + e /\ q \in Nat /\ e \in 28 .. 31 /\ p \in Int
      BY <1>4, <3>2, <3>3
    <3> HIDE DEF p, q, r, e
    <3>5. p <= r
      BY <3>4
    <3> QED BY <2>1, <3>5 DEF p, r
  <2> QED BY <2>2, <2>3
<1> DEFINE s == S(m)
           e == S(m + 1)
           ys == YearStart(y)
           yl == year_lengths(y)
<1>7. Days(b) = ys + s + d - 1 /\ e = s + len /\ s \in Nat /\ e <= yl /\ YearStart(y + 1) = ys + yl /\ ys \in Int /\ yl \in Int
  <2>1. year_lengths(y) \in Int
    BY <1>1, YearStarts
  <2> QED BY <1>3, <1>4, <1>5, <1>6, <2>1 DEF DaysTo
<1> HIDE DEF s, e, ys, yl
<1>8. ys <= ys + s + d - 1 /\ ys + s + d - 1 < ys + yl /\ ys + s + d - 1 < ys + e /\ e \in Nat
  BY <1>1, <1>4, <1>7
<1> QED BY <1>1, <1>3, <1>7, <1>8 DEF s, e, ys, yl

(***************************************************************************)
(* Instants whose year is an int, and neither the first nor the last one.  *)
(***************************************************************************)
Moderate(x) ==
  /\ SECSPERDAY * YearStart(INT_MIN + TM_YEAR_BASE + 1) <= x
  /\ x < SECSPERDAY * YearStart(INT_MAX)

(* The first year an int tm_year stands for.                               *)
FIRST_YEAR == INT_MIN + TM_YEAR_BASE

(***************************************************************************)
(* A quotient lies between those of the bounds.                            *)
(***************************************************************************)
LEMMA QuotientWithin ==
  ASSUME NEW u \in Int, NEW S \in Nat \ {0}, NEW a \in Int, NEW b \in Int, S * a <= u, u < S * b
  PROVE  u \div S \in Int /\ a <= u \div S /\ u \div S < b
<1> DEFINE q == u \div S
           r == u % S
<1>1. q \in Int /\ r \in 0 .. S - 1 /\ u = S * q + r
  BY DivMod
<1> HIDE DEF q, r
<1>2. S * a \in Int /\ S * b \in Int /\ S * q \in Int /\ S \in Int
  BY <1>1, Products
<1>3. ASSUME NEW k \in Int, NEW l \in Int, k < l PROVE S * k + S <= S * l
  <2> DEFINE d == l - k
  <2>1. d \in Int /\ d >= 1 /\ l = k + d
    BY <1>3
  <2> HIDE DEF d
  <2>2. S * l = S * k + S * d
    BY <1>2, <2>1, Products
  <2>3. S * d >= S
    <3>1. d = 1 \/ d - 1 > 0
      BY <2>1
    <3>2. d = 1 => S * d = S
      BY <1>2
    <3>3. S * ((d - 1) + 1) = S * (d - 1) + S * 1 /\ S * (d - 1) \in Int
      <4>1. d - 1 \in Int
        BY <2>1
      <4> QED BY <1>2, <4>1, Products
    <3>4. d - 1 > 0 => S * (d - 1) > 0
      <4>1. d - 1 \in Int /\ S > 0
        BY <2>1
      <4> QED BY <1>2, <4>1, Products
    <3>5. (d - 1) + 1 = d /\ S * 1 = S
      BY <1>2, <2>1
    <3> QED BY <1>2, <3>1, <3>2, <3>3, <3>4, <3>5
  <2>4. S * k \in Int /\ S * d \in Int
    BY <1>2, <2>1, Products
  <2> QED BY <1>2, <2>2, <2>3, <2>4
<1>4. a <= q
  <2>1. ~(q < a)
    <3> SUFFICES ASSUME q < a PROVE FALSE
      OBVIOUS
    <3>1. S * q + S <= S * a
      BY <1>1, <1>3
    <3> DEFINE x == S * q
               y == S * a
    <3>2. x + S <= y /\ y <= x + r /\ x \in Int /\ y \in Int
      BY <1>1, <1>2, <3>1
    <3> HIDE DEF x, y
    <3> QED BY <1>1, <1>2, <3>2
  <2> QED BY <1>1, <2>1
<1>5. q < b
  <2>1. ~(b <= q)
    <3> SUFFICES ASSUME b <= q PROVE FALSE
      OBVIOUS
    <3>1. b = q \/ S * b + S <= S * q
      BY <1>1, <1>3
    <3> DEFINE x == S * q
               y == S * b
    <3>2. (b = q => x = y) /\ (b = q \/ y + S <= x) /\ x + r < y /\ x \in Int /\ y \in Int
      BY <1>1, <1>2, <3>1
    <3> HIDE DEF x, y
    <3> QED BY <1>1, <1>2, <3>2
  <2> QED BY <1>1, <2>1
<1> QED BY <1>1, <1>4, <1>5 DEF q

(***************************************************************************)
(* The years of ints, and the days they begin at.                          *)
(***************************************************************************)
LEMMA YearsOfInts ==
  ASSUME WideInts
  PROVE  /\ INT_MIN = -INT_MAX - 1 /\ INT_MAX \in Nat /\ INT_MIN \in Int /\ 40000 <= INT_MAX
         /\ FIRST_YEAR \in Int /\ FIRST_YEAR = 1900 - INT_MAX - 1
         /\ YearStart(FIRST_YEAR) \in Int /\ YearStart(FIRST_YEAR + 1) \in Int
         /\ YearStart(INT_MAX) \in Int /\ YearStart(INT_MAX + 1) \in Int
         /\ YearStart(FIRST_YEAR) + 365 <= YearStart(FIRST_YEAR + 1) /\ YearStart(FIRST_YEAR + 1) < 0
         /\ 0 < YearStart(INT_MAX) /\ YearStart(INT_MAX) + 365 <= YearStart(INT_MAX + 1)
         /\ 400 * YearStart(FIRST_YEAR + 1) >= 146097 * (FIRST_YEAR + 1 - 1970) - 600
         /\ 400 * YearStart(INT_MAX) <= 146097 * (INT_MAX - 1970) + 600
<1>1. INT_MIN = -INT_MAX - 1 /\ INT_MAX \in Nat /\ INT_MIN \in Int /\ 40000 <= INT_MAX
  BY UnitAssumption DEF INT_MIN, WideInts
<1>2. FIRST_YEAR \in Int /\ FIRST_YEAR = 1900 - INT_MAX - 1
  BY <1>1 DEF FIRST_YEAR, TM_YEAR_BASE
<1> DEFINE f == FIRST_YEAR
           g == FIRST_YEAR + 1
           h == INT_MAX + 1
<1>3. f \in Int /\ g \in Int /\ f < g /\ h \in Int /\ INT_MAX \in Int /\ INT_MAX < h
  BY <1>1, <1>2
<1> HIDE DEF f, g, h
<1>4. YearStart(f) + 365 <= YearStart(g) /\ YearStart(f) \in Int /\ YearStart(g) \in Int
  BY <1>3, YearsInOrder
<1>5. YearStart(INT_MAX) + 365 <= YearStart(h) /\ YearStart(INT_MAX) \in Int /\ YearStart(h) \in Int
  BY <1>3, YearsInOrder
<1>6. /\ 146097 * (g - 1970) - 600 <= 400 * YearStart(g)
      /\ 400 * YearStart(g) <= 146097 * (g - 1970) + 600
  BY <1>3, YearStartNear
<1>7. /\ 146097 * (INT_MAX - 1970) - 600 <= 400 * YearStart(INT_MAX)
      /\ 400 * YearStart(INT_MAX) <= 146097 * (INT_MAX - 1970) + 600
  BY <1>3, YearStartNear
<1>8. YearStart(g) < 0
  <2>1. g = 1900 - INT_MAX
    BY <1>1, <1>2 DEF g
  <2> QED BY <1>1, <1>4, <1>6, <2>1
<1>9. 0 < YearStart(INT_MAX)
  BY <1>1, <1>5, <1>7
<1> QED BY <1>1, <1>2, <1>4, <1>5, <1>6, <1>7, <1>8, <1>9 DEF f, g, h

(***************************************************************************)
(* The day of a moderate instant has a year that timesub finds.            *)
(***************************************************************************)
LEMMA ModerateDay ==
  ASSUME WideInts, NEW x \in Int, Moderate(x)
  PROVE  WithinYears(CDiv(x, SECSPERDAY), FIRST_YEAR, INT_MAX) /\ IsInt(CDiv(CDiv(x, SECSPERDAY), DAYSPERLYEAR))
<1> DEFINE S == SECSPERDAY
           l == YearStart(FIRST_YEAR + 1)
           h == YearStart(INT_MAX)
           D == CDiv(x, S)
<1>1. S \in Nat \ {0} /\ l \in Int /\ h \in Int /\ l < 0 /\ 0 < h /\ S * l <= x /\ x < S * h
  BY YearsOfInts, Units DEF Moderate, FIRST_YEAR
<1> HIDE DEF S, l, h
<1>2. D \in Int /\ l <= D /\ D < h
  <2>1. CASE x >= 0
    <3>1. D = x \div S
      BY <2>1 DEF CDiv
    <3>2. x \div S \in Int /\ l <= x \div S /\ x \div S < h
      BY <1>1, QuotientWithin
    <3> QED BY <3>1, <3>2
  <2>2. CASE x < 0
    <3> DEFINE n == -x
               q == n \div S
               m == -l
    <3>1. n \in Int /\ m \in Int /\ n > 0 /\ x = -n
      BY <1>1, <2>2
    <3>2. S * m = -(S * l) /\ S * l \in Int /\ S * (m + 1) = S * m + S * 1 /\ S * 0 = 0
      <4>1. S * l \in Int /\ S * m \in Int /\ S * (m + 1) = S * m + S * 1 /\ S * (l + m) = S * l + S * m
        BY <1>1, <3>1, Products
      <4>2. l + m = 0 /\ S * 0 = 0
        BY <1>1
      <4>3. S * l + S * m = 0
        BY <4>1, <4>2
      <4> DEFINE a == S * l
                 b == S * m
      <4>4. b = -a
        <5>1. a \in Int /\ b \in Int /\ a + b = 0
          BY <4>1, <4>3
        <5> HIDE DEF a, b
        <5> QED BY <5>1
      <4> QED BY <4>1, <4>2, <4>4
    <3>3. S * 0 <= n /\ n < S * (m + 1)
      <4> DEFINE a == S * l
                 b == S * m
      <4>1. a \in Int /\ b = -a /\ a <= x /\ S * (m + 1) = b + S /\ S * 0 = 0
        BY <1>1, <3>2
      <4> HIDE DEF a, b, n, m
      <4> QED BY <1>1, <3>1, <4>1
    <3>4. q \in Int /\ 0 <= q /\ q < m + 1
      <4>1. m + 1 \in Int
        BY <3>1
      <4> HIDE DEF n, m
      <4> QED BY <1>1, <3>1, <3>3, <4>1, QuotientWithin
    <3>5. D = -q
      BY <2>2 DEF CDiv
    <3> HIDE DEF D, q
    <3> QED BY <1>1, <3>4, <3>5
  <2> QED BY <2>1, <2>2
<1> HIDE DEF D
<1>3. WithinYears(D, FIRST_YEAR, INT_MAX)
  <2>1. INT_MIN <= FIRST_YEAR /\ FIRST_YEAR <= EPOCH_YEAR /\ EPOCH_YEAR <= INT_MAX
    BY YearsOfInts DEF EPOCH_YEAR
  <2>2. YearStart(FIRST_YEAR) <= D /\ D < YearStart(INT_MAX + 1)
    BY <1>1, <1>2, YearsOfInts DEF l, h
  <2> QED BY <1>2, <2>1, <2>2, YearsOfInts DEF WithinYears
<1>4. IsInt(CDiv(D, DAYSPERLYEAR))
  <2> DEFINE guess == CDiv(D, DAYSPERLYEAR)
             f == FIRST_YEAR + 1
  <2>1. /\ guess \in Int
        /\ D >= 0 => guess >= 0 /\ 366 * guess <= D
        /\ D < 0 => guess <= 0 /\ 366 * guess < D + 366 /\ 366 * guess >= D
    BY <1>2, EstimateBounds
  <2>2. /\ INT_MIN = -INT_MAX - 1 /\ INT_MAX \in Nat /\ 40000 <= INT_MAX
        /\ f = 1900 - INT_MAX /\ 400 * l >= 146097 * (f - 1970) - 600
        /\ 400 * h <= 146097 * (INT_MAX - 1970) + 600
    BY YearsOfInts DEF l, h
  <2> HIDE DEF guess, f
  <2>3. guess <= INT_MAX
    BY <1>1, <1>2, <2>1, <2>2, SMT
  <2>4. INT_MIN <= guess
    BY <1>1, <1>2, <2>1, <2>2, SMT
  <2> QED BY <2>3, <2>4 DEF IsInt, guess
<1> QED BY <1>3, <1>4 DEF D, S

(***************************************************************************)
(* And so has the day of its clock, up to a year earlier or later.         *)
(***************************************************************************)
LEMMA ModerateClock ==
  ASSUME WideInts, NEW x \in Int, Moderate(x),
         NEW v \in Int, -(SECSPERDAY * DAYSPERNYEAR) <= v, v <= SECSPERDAY * DAYSPERNYEAR
  PROVE  WithinYears((x + v) \div SECSPERDAY, FIRST_YEAR, INT_MAX)
<1> DEFINE S == SECSPERDAY
           l == YearStart(FIRST_YEAR + 1)
           h == YearStart(INT_MAX)
           E == (x + v) \div S
<1>1. S \in Nat \ {0} /\ l \in Int /\ h \in Int /\ S * l <= x /\ x < S * h
      /\ -(S * 365) <= v /\ v <= S * 365
  BY YearsOfInts, Units DEF Moderate, FIRST_YEAR, DAYSPERNYEAR
<1> HIDE DEF S, l, h
<1>2. S * (l - 365) <= x + v /\ x + v < S * (h + 365)
  <2> DEFINE a == S * l
             b == S * h
             c == S * 365
             m == -365
  <2>1. a \in Int /\ b \in Int /\ c \in Int /\ S * (h + 365) = b + c
    BY <1>1, Products
  <2>2. S * (l - 365) = a - c
    <3>1. S * (l + m) = S * l + S * m /\ S * m \in Int
      <4>1. m \in Int
        OBVIOUS
      <4> HIDE DEF m
      <4> QED BY <1>1, <4>1, Products
    <3>2. S * m = -c
      <4>1. S * (365 + m) = S * 365 + S * m
        <5>1. m \in Int /\ 365 \in Int
          OBVIOUS
        <5> HIDE DEF m
        <5> QED BY <1>1, <5>1, Products
      <4>2. 365 + m = 0 /\ S * 0 = 0
        BY <1>1
      <4> QED BY <2>1, <3>1, <4>1, <4>2
    <3>3. l + m = l - 365
      BY <1>1
    <3> DEFINE d == S * m
    <3>4. S * (l - 365) = a + d /\ d = -c /\ d \in Int
      BY <3>1, <3>2, <3>3
    <3> HIDE DEF a, c, d
    <3> QED BY <2>1, <3>4
  <2>3. a <= x /\ x < b /\ -c <= v /\ v <= c
    BY <1>1
  <2> HIDE DEF a, b, c
  <2> QED BY <2>1, <2>2, <2>3
<1>3. E \in Int /\ l - 365 <= E /\ E < h + 365
  <2>1. x + v \in Int /\ l - 365 \in Int /\ h + 365 \in Int
    BY <1>1
  <2> QED BY <1>1, <1>2, <2>1, QuotientWithin
<1> HIDE DEF E
<1>4. INT_MIN <= FIRST_YEAR /\ FIRST_YEAR <= EPOCH_YEAR /\ EPOCH_YEAR <= INT_MAX
  BY YearsOfInts DEF EPOCH_YEAR
<1>5. YearStart(FIRST_YEAR) <= E /\ E < YearStart(INT_MAX + 1)
  BY <1>1, <1>3, YearsOfInts DEF l, h
<1>6. WithinYears(E, FIRST_YEAR, INT_MAX)
  BY <1>3, <1>4, <1>5, YearsOfInts DEF WithinYears
<1> QED BY <1>6 DEF E, S

(***************************************************************************)
(* Products are ordered as their factors.                                  *)
(***************************************************************************)
LEMMA ProductOrder ==
  ASSUME NEW s \in Nat, NEW a \in Int, NEW b \in Int, a <= b
  PROVE  s * a <= s * b /\ s * a \in Int /\ s * b \in Int
<1> DEFINE d == b - a
<1>1. d \in Int /\ d >= 0 /\ b = a + d
  OBVIOUS
<1> HIDE DEF d
<1>2. s * b = s * a + s * d /\ s * a \in Int /\ s * b \in Int /\ s * d \in Int
  BY <1>1, Products
<1>3. s * d >= 0
  <2>1. s = 0 \/ d = 0 \/ (s > 0 /\ d > 0)
    BY <1>1
  <2>2. s = 0 => s * d = 0
    BY <1>1
  <2>3. d = 0 => s * d = 0
    BY <1>1
  <2>4. s > 0 /\ d > 0 => s * d > 0
    BY <1>1, Products
  <2> QED BY <1>2, <2>1, <2>2, <2>3, <2>4
<1> DEFINE x == s * a
           y == s * b
           w == s * d
<1>4. y = x + w /\ x \in Int /\ y \in Int /\ w \in Int /\ w >= 0
  BY <1>2, <1>3
<1> HIDE DEF x, y, w
<1>5. x <= y
  BY <1>4
<1> QED BY <1>2, <1>5 DEF x, y

(***************************************************************************)
(* Instants of about such a year are moderate.                             *)
(***************************************************************************)
LEMMA InnerIsModerate ==
  ASSUME WideInts, NEW x \in Int, InnerYear(YearAbout(x))
  PROVE  Moderate(x)
<1> DEFINE S == SECSPERDAY
           R == SECSPERREPEAT
           Y == R \div 400
           q == x \div Y
           g == FIRST_YEAR + 1
           P == YearStart(g)
           H == YearStart(INT_MAX)
           m == g - 1969
           k == INT_MAX - 1971
<1>1. S \in Nat \ {0} /\ R = 146097 * S
  BY Units DEF SECSPERREPEAT
<1>2. P \in Int /\ H \in Int /\ g \in Int /\ m \in Int /\ m < 0 /\ k \in Nat
  BY YearsOfInts
<1>3. 400 * P <= 146097 * (g - 1970) + 600 /\ 146097 * (INT_MAX - 1970) - 600 <= 400 * H
  <2>1. g \in Int /\ INT_MAX \in Int
    BY YearsOfInts
  <2> HIDE DEF g
  <2> QED BY <2>1, YearStartNear
<1>4. Y \in Nat \ {0} /\ 400 * Y <= R
  <2>1. R \in Nat /\ R >= 146097
    <3> HIDE DEF S, R
    <3> QED BY <1>1
  <2> HIDE DEF R
  <2> QED BY <2>1, SMT
<1> HIDE DEF S, R, Y
<1>5. q \in Int /\ Y * q <= x /\ x < Y * q + Y
  <2> DEFINE r == x % Y
             a == Y * q
  <2>1. q \in Int /\ r \in 0 .. Y - 1 /\ x = a + r /\ a \in Int
    <3>1. q \in Int /\ r \in 0 .. Y - 1 /\ x = Y * q + r
      BY <1>4, DivMod
    <3> HIDE DEF q, r
    <3>2. Y * q \in Int
      BY <1>4, <3>1, Products
    <3> QED BY <3>1, <3>2
  <2> HIDE DEF q, r, a
  <2>2. a <= x /\ x < a + Y
    BY <1>4, <2>1
  <2> QED BY <2>1, <2>2 DEF a
<1>6. m <= q /\ q + 1 <= k
  <2>1. YearAbout(x) = 1970 + q
    BY DEF YearAbout, EPOCH_YEAR, YEARSPERREPEAT, Y, R
  <2>2. INT_MIN + 1900 + 2 <= 1970 + q /\ 1970 + q <= INT_MAX - 2
    BY <2>1 DEF InnerYear, TM_YEAR_BASE
  <2> HIDE DEF q
  <2> QED BY <1>5, <2>2, YearsOfInts
<1> HIDE DEF q
<1>7. S * P <= x
  <2>1. S * (400 * P) <= S * (146097 * m)
    <3>1. 400 * P <= 146097 * m
      <4>1. g - 1970 = m - 1
        BY <1>2
      <4> HIDE DEF P, m, g
      <4> QED BY <1>2, <1>3, <4>1
    <3>2. 400 * P \in Int /\ 146097 * m \in Int /\ S \in Nat
      BY <1>1, <1>2
    <3> DEFINE a == 400 * P
               b == 146097 * m
    <3>3. a \in Int /\ b \in Int /\ a <= b
      BY <3>1, <3>2
    <3> HIDE DEF a, b
    <3>4. S * a <= S * b
      BY <3>2, <3>3, ProductOrder
    <3> QED BY <3>4 DEF a, b
  <2>2. (-m) * (400 * Y) <= (-m) * R
    <3> DEFINE a == -m
               b == 400 * Y
    <3>1. a \in Nat /\ b \in Int /\ R \in Int /\ b <= R
      BY <1>1, <1>2, <1>4
    <3> HIDE DEF a, b
    <3>2. a * b <= a * R
      BY <3>1, ProductOrder
    <3> QED BY <3>2 DEF a, b
  <2>3. Y * m <= Y * q
    <3>1. Y \in Nat
      BY <1>4
    <3> HIDE DEF m
    <3> QED BY <1>2, <1>5, <1>6, <3>1, ProductOrder
  <2> HIDE DEF P, m
  <2> DEFINE sp1 == S * P
             ym == Y * m
             sm == S * m
             yq == Y * q
  <2>4. sp1 \in Int /\ ym \in Int /\ sm \in Int /\ yq \in Int
    BY <1>1, <1>2, <1>4, <1>5, Products
  <2>5. S * (400 * P) = 400 * sp1 /\ S * (146097 * m) = 146097 * sm
    <3>1. P * 400 = 400 * P /\ m * 146097 = 146097 * m
      BY <1>2
    <3>2. S * (P * 400) = (S * P) * 400 /\ S * (m * 146097) = (S * m) * 146097
      <4>1. 400 \in Int /\ 146097 \in Int
        OBVIOUS
      <4> QED BY <1>1, <1>2, <4>1, Products
    <3>3. sp1 * 400 = 400 * sp1 /\ sm * 146097 = 146097 * sm
      <4> HIDE DEF sp1, sm
      <4> QED BY <2>4
    <3> QED BY <3>1, <3>2, <3>3
  <2>6. (-m) * (400 * Y) = -(400 * ym) /\ (-m) * R = -(146097 * sm)
    <3> DEFINE n == -m
    <3>1. n \in Int /\ n + m = 0
      BY <1>2
    <3>2. ASSUME NEW a \in Int PROVE n * a = -(a * m)
      <4> HIDE DEF n
      <4>1. a * (n + m) = a * n + a * m /\ a * n = n * a /\ a * n \in Int /\ a * m \in Int
        BY <1>2, <3>1, Products
      <4>2. a * (n + m) = 0
        BY <3>1
      <4> DEFINE u == n * a
                 w == a * m
      <4>3. u \in Int /\ w \in Int /\ u + w = 0
        BY <4>1, <4>2
      <4> HIDE DEF u, w
      <4>4. u = -w
        BY <4>3
      <4> QED BY <4>4 DEF u, w
    <3>3. 400 * Y \in Int /\ R \in Int
      BY <1>1, <1>4
    <3>4. n * (400 * Y) = -((400 * Y) * m) /\ n * R = -(R * m)
      <4> DEFINE a == 400 * Y
      <4> HIDE DEF n, a
      <4>1. a \in Int
        BY <3>3 DEF a
      <4>2. n * a = -(a * m) /\ n * R = -(R * m)
        BY <3>2, <3>3, <4>1
      <4> QED BY <4>2 DEF a
    <3>5. (400 * Y) * m = 400 * ym /\ R * m = 146097 * sm
      <4>1. 400 \in Int /\ 146097 \in Int
        OBVIOUS
      <4>2. (400 * Y) * m = 400 * (Y * m) /\ (146097 * S) * m = 146097 * (S * m)
        BY <1>1, <1>2, <1>4, <4>1, Products
      <4> QED BY <1>1, <4>2
    <3> QED BY <3>4, <3>5
  <2>7. 400 * sp1 <= 146097 * sm
    BY <2>1, <2>5
  <2>8. -(400 * ym) <= -(146097 * sm)
    BY <2>2, <2>6
  <2>9. ym <= yq /\ yq <= x
    BY <1>5, <2>3
  <2> HIDE DEF sp1, ym, sm, yq
  <2>10. sp1 <= x
    BY <2>4, <2>7, <2>8, <2>9
  <2> QED BY <2>10 DEF sp1
<1>8. x < S * H
  <2>1. S * (146097 * k) <= S * (400 * H)
    <3>1. 146097 * k <= 400 * H
      <4>1. INT_MAX - 1970 = k + 1
        BY <1>2, YearsOfInts
      <4> HIDE DEF H, k
      <4> QED BY <1>2, <1>3, <4>1
    <3>2. 400 * H \in Int /\ 146097 * k \in Int /\ S \in Nat
      BY <1>1, <1>2
    <3> DEFINE a == 400 * H
               b == 146097 * k
    <3>3. a \in Int /\ b \in Int /\ b <= a
      BY <3>1, <3>2
    <3> HIDE DEF a, b
    <3>4. S * b <= S * a
      BY <3>2, <3>3, ProductOrder
    <3> QED BY <3>4 DEF a, b
  <2> HIDE DEF H, k
  <2>2. k * (400 * Y) <= k * R
    <3> DEFINE b == 400 * Y
    <3>1. b \in Int /\ R \in Int /\ b <= R
      BY <1>1, <1>4
    <3> HIDE DEF b
    <3>2. k * b <= k * R
      BY <1>2, <3>1, ProductOrder
    <3> QED BY <3>2 DEF b
  <2>3. Y * (q + 1) <= Y * k /\ Y * (q + 1) = Y * q + Y
    <3>1. Y \in Nat /\ q + 1 \in Int /\ k \in Int
      BY <1>2, <1>4, <1>5
    <3>2. Y * (q + 1) <= Y * k
      <4> DEFINE a == q + 1
      <4>1. a \in Int /\ a <= k
        BY <1>6, <3>1
      <4> HIDE DEF a
      <4>2. Y * a <= Y * k
        BY <3>1, <4>1, ProductOrder
      <4> QED BY <4>2 DEF a
    <3>3. Y * (q + 1) = Y * q + Y * 1 /\ Y * 1 = Y
      BY <1>5, <3>1, Products
    <3> QED BY <3>2, <3>3
  <2> DEFINE sh == S * H
             yk == Y * k
             sk == S * k
             yq == Y * q
  <2>4. sh \in Int /\ yk \in Int /\ sk \in Int /\ yq \in Int
    <3>1. k \in Int
      BY <1>2
    <3> QED BY <1>1, <1>2, <1>4, <1>5, <3>1, Products
  <2>5. S * (400 * H) = 400 * sh /\ S * (146097 * k) = 146097 * sk
    <3>1. H * 400 = 400 * H /\ k * 146097 = 146097 * k
      BY <1>2
    <3>2. S * (H * 400) = (S * H) * 400 /\ S * (k * 146097) = (S * k) * 146097
      <4>1. 400 \in Int /\ 146097 \in Int /\ k \in Int
        BY <1>2
      <4> QED BY <1>1, <1>2, <4>1, Products
    <3>3. sh * 400 = 400 * sh /\ sk * 146097 = 146097 * sk
      <4> HIDE DEF sh, sk
      <4> QED BY <2>4
    <3> QED BY <3>1, <3>2, <3>3
  <2>6. k * (400 * Y) = 400 * yk /\ k * R = 146097 * sk
    <3>1. 400 \in Int /\ 146097 \in Int /\ k \in Int
      BY <1>2
    <3>2. (400 * Y) * k = 400 * (Y * k) /\ (146097 * S) * k = 146097 * (S * k)
      BY <1>1, <1>4, <3>1, Products
    <3>3. k * (400 * Y) = (400 * Y) * k /\ k * R = R * k
      <4>1. 400 * Y \in Int /\ R \in Int
        BY <1>1, <1>4
      <4> DEFINE a == 400 * Y
      <4> HIDE DEF a
      <4>2. a \in Int
        BY <4>1 DEF a
      <4>3. k * a = a * k /\ k * R = R * k
        BY <3>1, <4>1, <4>2, Products
      <4> QED BY <4>3 DEF a
    <3> QED BY <1>1, <3>2, <3>3
  <2>7. 146097 * sk <= 400 * sh
    BY <2>1, <2>5
  <2>8. 400 * yk <= 146097 * sk
    BY <2>2, <2>6
  <2>9. yq + Y <= yk /\ x < yq + Y
    BY <1>5, <2>3
  <2> HIDE DEF sh, yk, sk, yq
  <2>10. x < sh
    BY <1>4, <2>4, <2>7, <2>8, <2>9
  <2> QED BY <2>10 DEF sh
<1> QED BY <1>7, <1>8 DEF Moderate, S, FIRST_YEAR, g, P, H

(***************************************************************************)
(* The table of a zone that repeats is at least a cycle long.              *)
(***************************************************************************)
LEMMA CycleInTable ==
  ASSUME NEW z, IsZone(z), z.goback \/ z.goahead
  PROVE  /\ First(z) \in Int /\ Last(z) \in Int /\ First(z) + SECSPERREPEAT <= Last(z)
         /\ Len(z.ats) \in Nat \ {0} /\ First(z) = z.ats[1] /\ Last(z) = z.ats[Len(z.ats)]
<1>1. z.ats # <<>> /\ Len(z.ats) \in Nat /\ (\A i \in 1 .. Len(z.ats) : z.ats[i] \in Int)
      /\ z.ats[Len(z.ats)] - z.ats[1] >= SECSPERREPEAT
  BY DEF IsZone
<1>2. SECSPERREPEAT \in Nat \ {0}
  BY Units
<1>3. Len(z.ats) # 0
  <2> SUFFICES ASSUME Len(z.ats) = 0 PROVE FALSE
    OBVIOUS
  <2>1. z.ats[Len(z.ats)] \in Int \/ TRUE
    OBVIOUS
  <2> QED BY <1>1
<1>4. z.ats[1] \in Int /\ z.ats[Len(z.ats)] \in Int
  BY <1>1, <1>3
<1> DEFINE f == z.ats[1]
           l == z.ats[Len(z.ats)]
<1>5. f + SECSPERREPEAT <= l
  <2>1. f \in Int /\ l \in Int /\ l - f >= SECSPERREPEAT
    BY <1>1, <1>4
  <2> HIDE DEF f, l
  <2> QED BY <1>2, <2>1
<1> QED BY <1>1, <1>3, <1>4, <1>5 DEF First, Last

(***************************************************************************)
(* An instant beyond the table is moved into it, and "cannot happen" does  *)
(* not (libtz.c:1262).                                                     *)
(***************************************************************************)
LEMMA MovedInTable ==
  ASSUME NEW z, IsZone(z), NEW x \in Int, Cycles(z, x) # 0
  PROVE  InTable(z, x + Cycles(z, x) * SECSPERREPEAT)
<1> DEFINE R == SECSPERREPEAT
           f == First(z)
           l == Last(z)
           c == Cycles(z, x)
<1>1. Beyond(z, x) /\ R \in Nat \ {0}
  BY Units DEF Cycles
<1>2. f \in Int /\ l \in Int /\ l - f >= R
  <2>1. z.goback \/ z.goahead
    BY <1>1 DEF Beyond
  <2>2. z.ats # <<>> /\ Len(z.ats) \in Nat /\ \A i \in 1 .. Len(z.ats) : z.ats[i] \in Int
        /\ z.ats[Len(z.ats)] - z.ats[1] >= SECSPERREPEAT
    BY <2>1 DEF IsZone
  <2>3. Len(z.ats) # 0
    <3> SUFFICES ASSUME Len(z.ats) = 0 PROVE FALSE
      OBVIOUS
    <3>1. z.ats \in Int \/ TRUE
      OBVIOUS
    <3> QED BY <2>2
  <2> QED BY <2>2, <2>3 DEF First, Last
<1>3. ASSUME NEW s \in Int, s > 0
      PROVE  \E q \in Int, r \in 0 .. R - 1 :
               (s - 1) \div R + 1 = q /\ q * R = s - 1 - r + R /\ (-q) * R = -(q * R) /\ q * R \in Int
  <2> DEFINE p == (s - 1) \div R
             r == (s - 1) % R
  <2>1. p \in Int /\ r \in 0 .. R - 1 /\ s - 1 = R * p + r
    <3>1. s - 1 \in Int
      BY <1>3
    <3> HIDE DEF R
    <3> QED BY <1>1, <3>1, DivMod
  <2> HIDE DEF p, r, R
  <2> DEFINE q == p + 1
             m == -q
  <2>2. q \in Int /\ m \in Int /\ q + m = 0
    BY <2>1
  <2>3. R * (p + 1) = R * p + R * 1 /\ R * 1 = R /\ R * p \in Int /\ q * R = R * q /\ R * q \in Int
    BY <1>1, <2>1, <2>2, Products
  <2>4. m * R = -(q * R)
    <3> HIDE DEF q, m
    <3>1. R * (q + m) = R * q + R * m /\ R * m = m * R /\ R * q = q * R /\ R * m \in Int /\ R * q \in Int
      BY <1>1, <2>2, Products
    <3>2. R * (q + m) = 0
      BY <1>1, <2>2
    <3> DEFINE a == m * R
               b == q * R
    <3>3. a \in Int /\ b \in Int /\ b + a = 0
      BY <3>1, <3>2
    <3> HIDE DEF a, b
    <3>4. a = -b
      BY <3>3
    <3> QED BY <3>4 DEF a, b
  <2>5. q * R = s - 1 - r + R
    <3> DEFINE a == R * p
    <3>1. q * R = a + R /\ a \in Int /\ s - 1 = a + r
      BY <2>1, <2>3
    <3> HIDE DEF a, q
    <3>2. a + R = s - 1 - r + R
      BY <1>1, <2>1, <3>1
    <3> QED BY <3>1, <3>2
  <2> QED
    <3>1. (s - 1) \div R + 1 = q /\ q * R \in Int
      BY <2>3 DEF p
    <3> HIDE DEF q
    <3> QED BY <2>1, <2>2, <2>4, <2>5, <3>1 DEF m
<1> HIDE DEF R, f, l
<1>4. CASE x < f
  <2> DEFINE s == f - x
  <2>1. s \in Int /\ s > 0 /\ x = f - s
    BY <1>2, <1>4
  <2>2. c = (s - 1) \div R + 1
    BY <1>1, <1>4 DEF Cycles, f, R
  <2> HIDE DEF s, c
  <2>3. PICK q \in Int, r \in 0 .. R - 1 :
               (s - 1) \div R + 1 = q /\ q * R = s - 1 - r + R /\ (-q) * R = -(q * R) /\ q * R \in Int
    BY <1>3, <2>1
  <2> DEFINE a == c * R
  <2>4. a = s - 1 - r + R /\ a \in Int
    BY <2>2, <2>3
  <2> HIDE DEF a
  <2>5. f <= x + a /\ x + a <= l
    BY <1>1, <1>2, <2>1, <2>3, <2>4
  <2> QED BY <2>5 DEF InTable, a, c, R, f, l
<1>5. CASE ~(x < f)
  <2> DEFINE s == x - l
  <2>1. s \in Int /\ s > 0 /\ x = l + s
    <3>1. x > l
      BY <1>1, <1>5 DEF Beyond, f, l
    <3> QED BY <1>2, <3>1
  <2>2. c = -((s - 1) \div R + 1)
    BY <1>1, <1>5 DEF Cycles, f, l, R
  <2> HIDE DEF s, c
  <2>3. PICK q \in Int, r \in 0 .. R - 1 :
               (s - 1) \div R + 1 = q /\ q * R = s - 1 - r + R /\ (-q) * R = -(q * R) /\ q * R \in Int
    BY <1>3, <2>1
  <2> DEFINE a == c * R
             b == q * R
  <2>4. a = -b /\ b = s - 1 - r + R /\ b \in Int
    BY <2>2, <2>3
  <2> HIDE DEF a, b
  <2>5. f <= x + a /\ x + a <= l
    BY <1>1, <1>2, <2>1, <2>3, <2>4
  <2> QED BY <2>5 DEF InTable, a, c, R, f, l
<1> QED BY <1>4, <1>5

(***************************************************************************)
(* The day and the second of the day of fields in their ranges.            *)
(***************************************************************************)
LEMMA NormalSecond ==
  ASSUME NEW n \in StructTm, IsNormal(n), NEW y, y = n.year + TM_YEAR_BASE
  PROVE  /\ y \in Int /\ Days(n) \in Int
         /\ YearStart(y) <= Days(n) /\ Days(n) < YearStart(y + 1)
         /\ \E sod \in 0 .. SECSPERDAY - 1 : LocalSeconds(n) = SECSPERDAY * Days(n) + sod
<1> DEFINE Q == SECSPERMIN
           M == MINSPERHOUR
           H == HOURSPERDAY
           hm == n.hour * M + n.min
           sod == hm * Q + n.sec
           D == Days(n)
<1>1. IsNormal(n)
  OBVIOUS
<1>2. y \in Int /\ D \in Int /\ YearStart(y) <= D /\ D < YearStart(y + 1)
  BY DateInYear
<1>3. sod \in 0 .. SECSPERDAY - 1 /\ hm \in Int
  <2>1. /\ n.hour \in 0 .. H - 1 /\ n.min \in 0 .. M - 1 /\ n.sec \in 0 .. Q - 1
        /\ Q \in Nat \ {0} /\ M \in Nat \ {0} /\ H \in Nat \ {0}
    BY <1>1, Units DEF IsNormal, InMinute
  <2> HIDE DEF Q, M, H
  <2>2. n.hour \in Int /\ n.hour < H /\ n.hour >= 0 /\ H \in Int /\ 0 \in 0 .. M - 1
    BY <2>1
  <2>3. n.hour * M + n.min < H * M + 0
    <3> DEFINE k == 0
    <3>1. k \in 0 .. M - 1
      BY <2>2
    <3> HIDE DEF k
    <3>2. n.hour * M + n.min < H * M + k
      BY <2>1, <2>2, <3>1, HigherPlace
    <3> QED BY <3>2 DEF k
  <2>4. n.hour * M \in Int /\ n.hour * M >= 0 /\ H * M \in Int
    <3>1. n.hour = 0 \/ n.hour > 0
      BY <2>2
    <3>2. M \in Int /\ M > 0
      BY <2>1
    <3>3. n.hour * M \in Int /\ H * M \in Int /\ (n.hour > 0 => n.hour * M > 0)
      BY <2>2, <3>2, Products
    <3>4. n.hour = 0 => n.hour * M = 0
      BY <3>2
    <3> QED BY <3>1, <3>3, <3>4
  <2> DEFINE g == H * M
  <2>5. hm \in Int /\ hm >= 0 /\ hm < g /\ g \in Int
    <3> DEFINE a == n.hour * M
    <3>1. a \in Int /\ a >= 0 /\ g \in Int /\ a + n.min < g + 0
      BY <2>3, <2>4
    <3> HIDE DEF a, g
    <3>2. a + n.min \in Int /\ a + n.min >= 0 /\ a + n.min < g
      BY <2>1, <3>1
    <3> QED BY <3>1, <3>2 DEF a
  <2> HIDE DEF hm, g
  <2>6. hm * Q + n.sec < g * Q + 0
    <3> DEFINE k == 0
    <3>1. k \in 0 .. Q - 1
      BY <2>1
    <3> HIDE DEF k
    <3>2. hm * Q + n.sec < g * Q + k
      BY <2>1, <2>5, <3>1, HigherPlace
    <3> QED BY <3>2 DEF k
  <2>7. hm * Q \in Int /\ hm * Q >= 0 /\ g * Q \in Int
    <3>1. hm = 0 \/ hm > 0
      BY <2>5
    <3>2. Q \in Int /\ Q > 0
      BY <2>1
    <3>3. hm * Q \in Int /\ g * Q \in Int /\ (hm > 0 => hm * Q > 0)
      BY <2>5, <3>2, Products
    <3>4. hm = 0 => hm * Q = 0
      BY <3>2
    <3> QED BY <3>1, <3>3, <3>4
  <2>8. g * Q = SECSPERDAY
    <3>1. SECSPERDAY = (Q * M) * H
      BY Units DEF Q, M, H
    <3>2. (Q * M) * H = Q * (M * H) /\ M * H = H * M /\ M * H \in Int
      BY <2>1, Products
    <3>3. Q * (M * H) = (M * H) * Q
      BY <2>1, <3>2, Products
    <3> QED BY <3>1, <3>2, <3>3 DEF g
  <2> DEFINE a == hm * Q
  <2>9. a \in Int /\ a >= 0 /\ a + n.sec < SECSPERDAY + 0
    BY <2>6, <2>7, <2>8
  <2> HIDE DEF a
  <2>10. a + n.sec \in 0 .. SECSPERDAY - 1
    BY <2>1, <2>9, Units
  <2> QED BY <2>5, <2>10 DEF a
<1>4. LocalSeconds(n) = SECSPERDAY * D + sod
  <2>1. n.hour \in Int /\ n.min \in Int /\ n.sec \in Int
    BY DEF StructTm
  <2> QED BY <1>2, <2>1, CountedRight DEF LocalSeconds
<1> QED
  <2> HIDE DEF sod, D
  <2>1. sod \in 0 .. SECSPERDAY - 1 /\ LocalSeconds(n) = SECSPERDAY * D + sod
    BY <1>3, <1>4
  <2>2. y \in Int /\ D \in Int /\ YearStart(y) <= D /\ D < YearStart(y + 1)
    BY <1>2
  <2>3. \E d \in 0 .. SECSPERDAY - 1 : LocalSeconds(n) = SECSPERDAY * D + d
    BY <2>1
  <2> QED BY <2>2, <2>3 DEF D

(***************************************************************************)
(* The fields of a date, and its day.                                      *)
(***************************************************************************)
LEMMA CountedDay ==
  ASSUME NEW b, NEW u \in Int, NEW hit \in Int, Counted(b, u, hit), NEW y, y = b.year + TM_YEAR_BASE
  PROVE  /\ y \in Int /\ u \div SECSPERDAY \in Int
         /\ YearStart(y) <= u \div SECSPERDAY /\ u \div SECSPERDAY < YearStart(y + 1)
<1> DEFINE n == [b EXCEPT !.sec = u % SECSPERMIN]
           D == Days(n)
<1>1. u % SECSPERMIN \in 0 .. SECSPERMIN - 1
  BY Units, DivMod
<1>2. /\ b \in StructTm /\ b.mon \in 0 .. 11 /\ b.mday \in 1 .. mon_lengths(b.year + TM_YEAR_BASE)[b.mon + 1]
      /\ b.hour \in 0 .. HOURSPERDAY - 1 /\ b.min \in 0 .. MINSPERHOUR - 1
      /\ b.sec = (u % SECSPERMIN) + hit /\ LocalSeconds(b) = u + hit /\ Days(b) \in Int
  BY DEF Counted
<1>3. /\ n \in StructTm /\ n.year = b.year /\ n.mon = b.mon /\ n.mday = b.mday /\ n.hour = b.hour
      /\ n.min = b.min /\ n.sec = u % SECSPERMIN
  <2> DEFINE r == u % SECSPERMIN
  <2>1. r \in Int
    BY <1>1, Units
  <2> HIDE DEF r
  <2>2. [b EXCEPT !.sec = r] \in StructTm
    BY <1>2, <2>1 DEF StructTm
  <2> QED BY <1>2, <2>2 DEF r, StructTm
<1> HIDE DEF n
<1>4. D = Days(b) /\ D \in Int
  BY <1>2, <1>3, SameDays
<1>5. IsNormal(n)
  BY <1>1, <1>2, <1>3 DEF IsNormal, InMinute
<1>6. /\ y \in Int /\ YearStart(y) <= D /\ D < YearStart(y + 1)
      /\ \E sod \in 0 .. SECSPERDAY - 1 : LocalSeconds(n) = SECSPERDAY * D + sod
  <2>1. y = n.year + TM_YEAR_BASE
    BY <1>3
  <2> QED BY <1>3, <1>5, <2>1, NormalSecond
<1>7. LocalSeconds(n) = u
  <2> DEFINE m == ((Days(b) * HOURSPERDAY + b.hour) * MINSPERHOUR + b.min) * SECSPERMIN
  <2>1. LocalSeconds(b) = m + b.sec /\ LocalSeconds(n) = m + n.sec
    BY <1>3, <1>4 DEF LocalSeconds
  <2>2. m \in Int
    <3>1. Days(b) * HOURSPERDAY \in Int
      BY <1>2, Units, Products
    <3> DEFINE p == Days(b) * HOURSPERDAY + b.hour
    <3>2. p \in Int
      BY <1>2, <3>1 DEF StructTm
    <3> HIDE DEF p
    <3>3. p * MINSPERHOUR \in Int
      BY <3>2, Units, Products
    <3> DEFINE q == p * MINSPERHOUR + b.min
    <3>4. q \in Int
      BY <1>2, <3>3 DEF StructTm
    <3> HIDE DEF q
    <3>5. q * SECSPERMIN \in Int
      BY <3>4, Units, Products
    <3> QED BY <3>5 DEF p, q
  <2>3. b.sec = n.sec + hit /\ n.sec \in Int /\ b.sec \in Int
    <3>1. n.sec \in Int /\ b.sec \in Int
      BY <1>2, <1>3 DEF StructTm
    <3> QED BY <1>2, <1>3, <3>1
  <2>4. LocalSeconds(b) = u + hit
    BY <1>2
  <2> HIDE DEF m
  <2> QED BY <2>1, <2>2, <2>3, <2>4
<1>8. PICK sod \in 0 .. SECSPERDAY - 1 : u = SECSPERDAY * D + sod
  BY <1>6, <1>7
<1>9. u \div SECSPERDAY = D
  <2> HIDE DEF D
  <2>1. Divided(u, SECSPERDAY, D, sod)
    BY <1>4, <1>8 DEF Divided
  <2>2. SECSPERDAY \in Nat \ {0}
    BY Units
  <2> QED BY <2>1, <2>2, DivModUnique
<1> QED BY <1>4, <1>6, <1>9

(***************************************************************************)
(* A correction is one of those of the table.                              *)
(***************************************************************************)
LEMMA CorrectionOfTable ==
  ASSUME NEW z, IsZone(z), NEW x \in Int
  PROVE  Correction(z, x) \in Corrections(z)
<1> DEFINE l == LeapAt(z, x)
<1>1. CASE l = 0
  BY <1>1 DEF Correction, Corrections
<1>2. CASE l # 0
  <2>1. LeapsKnown(z, x)
    BY LeapsInOrder
  <2>2. l \in 1 .. Len(z.lsis)
    <3>1. l \in 0 .. Len(z.lsis) /\ Len(z.lsis) \in Nat
      BY <2>1 DEF LeapsKnown, IsZone
    <3> HIDE DEF l
    <3> QED BY <1>2, <3>1
  <2>3. Correction(z, x) = z.lsis[l].corr
    BY <1>2 DEF Correction
  <2> HIDE DEF l
  <2> QED BY <2>2, <2>3 DEF Corrections
<1> QED BY <1>1, <1>2

(* Offsets, less the leap seconds, that are shorter than a year.           *)
ModestOffsets(z) ==
  \A i \in 1 .. Len(z.ttis), c \in Corrections(z) :
    /\ -(SECSPERDAY * DAYSPERNYEAR) <= z.ttis[i].gmtoff - c
    /\ z.ttis[i].gmtoff - c <= SECSPERDAY * DAYSPERNYEAR

(***************************************************************************)
(* localsub answers for an instant that is moderate if that is moderate    *)
(* which it is moved to.                                                   *)
(***************************************************************************)
LEMMA LocalsubAnswersMoved ==
  ASSUME NEW z, IsZone(z), SoundLeaps(z), WideInts, NEW x \in Int, Moderate(x),
         ModestOffsets(z), Moderate(x + Cycles(z, x) * SECSPERREPEAT), NEW tmp
  PROVE  localsub(z, x, tmp).ok
<1> DEFINE c == Cycles(z, x)
           newt == x + c * SECSPERREPEAT
           i == TypeAt(z, newt)
           info == z.ttis[i]
           off == info.gmtoff
           sub == timesub(newt, off, z, tmp)
           typed == WithType(info, z, newt, tmp)
           newy == typed.tm.year - c * YEARSPERREPEAT
<1>1. c \in Int /\ newt \in Int /\ c * SECSPERREPEAT \in Int /\ (c # 0 => z.lsis = <<>> /\ (z.goback \/ z.goahead))
  <2>1. c \in Int /\ (c # 0 => z.goback \/ z.goahead)
    BY CyclesKnown
  <2> HIDE DEF c
  <2>2. c * SECSPERREPEAT \in Int
    BY <2>1, Units, Products
  <2>3. z.goback \/ z.goahead => z.lsis = <<>>
    BY DEF SoundLeaps
  <2> QED BY <2>1, <2>2, <2>3
<1>2. c # 0 => InTable(z, newt)
  BY MovedInTable
<1>3. i \in 1 .. Len(z.ttis) /\ off \in Int /\ info.isdst \in {0, 1}
  <2>1. i \in 1 .. Len(z.ttis)
    <3> HIDE DEF newt
    <3> QED BY <1>1, TypeInZone
  <2> HIDE DEF i
  <2> QED BY <2>1 DEF IsZone
<1>4. localsub(z, x, tmp) = CyclesBack(typed, c)
  <2>1. localsub(z, x, tmp) = AfterCycles(z, newt, c, tmp)
    BY DEF localsub
  <2> HIDE DEF newt, c
  <2> QED BY <1>2, <2>1 DEF AfterCycles
<1>5. Moderate(newt)
  OBVIOUS
<1> HIDE DEF c, newt, i
<1> DEFINE corr == Correction(z, newt)
           hit == Hits(z, newt)
<1>6. corr \in Int /\ hit \in Int /\ corr \in Corrections(z)
  <2>1. LeapsCounted(z, newt)
    BY <1>1, LeapsAreCounted
  <2> QED BY <1>1, <2>1, CorrectionOfTable DEF LeapsCounted
<1> HIDE DEF corr, hit
<1> DEFINE v == off - corr
<1>7. v \in Int /\ -(SECSPERDAY * DAYSPERNYEAR) <= v /\ v <= SECSPERDAY * DAYSPERNYEAR
  BY <1>3, <1>6 DEF ModestOffsets
<1>8. sub.ok
  <2> HIDE DEF off
  <2> DEFINE low == INT_MIN + TM_YEAR_BASE
             high == INT_MAX
             E == (newt + off - corr) \div SECSPERDAY
             D == CDiv(newt, SECSPERDAY)
  <2>1. WithinYears(D, low, high) /\ IsInt(CDiv(D, DAYSPERLYEAR))
    BY <1>1, <1>5, ModerateDay DEF FIRST_YEAR
  <2>2. newt + off - corr = newt + v
    <3>1. v = off - corr
      OBVIOUS
    <3> HIDE DEF v
    <3> QED BY <1>1, <1>3, <1>6, <3>1
  <2>3. WithinYears(E, low, high)
    <3>1. WithinYears((newt + v) \div SECSPERDAY, FIRST_YEAR, INT_MAX)
      <4> HIDE DEF v
      <4> QED BY <1>1, <1>5, <1>7, ModerateClock
    <3> HIDE DEF v
    <3> QED BY <2>2, <3>1 DEF FIRST_YEAR
  <2>4. low = INT_MIN + TM_YEAR_BASE /\ high = INT_MAX
    OBVIOUS
  <2> HIDE DEF low, high, v
  <2>5. timesub(newt, off, z, tmp).ok
    BY <1>1, <1>3, <1>6, <2>1, <2>3, <2>4, TimesubAnswers DEF corr
  <2> QED BY <2>5
<1>9. Counted(sub.tm, newt + off - corr, hit)
  <2> HIDE DEF off
  <2>1. timesub(newt, off, z, tmp).ok
    BY <1>8
  <2> QED BY <1>1, <1>3, <1>6, <2>1, TimesubRight DEF corr, hit
<1>10. typed.ok /\ typed.tm = [sub.tm EXCEPT !.isdst = info.isdst]
  <2>1. typed = [sub EXCEPT !.tm.isdst = info.isdst] /\ \E o, b : sub = [ok |-> o, tm |-> b]
    BY DEF WithType, timesub, Written, Null, Done
  <2>2. PICK o, b : sub = [ok |-> o, tm |-> b]
    BY <2>1
  <2> HIDE DEF sub, typed, info
  <2>3. typed.ok = o /\ typed.tm = [b EXCEPT !.isdst = info.isdst] /\ sub.ok = o /\ sub.tm = b
    BY <2>1, <2>2
  <2> QED BY <1>8, <2>3
<1> DEFINE y == newt + off - corr
<1>11. Counted(typed.tm, y, hit) /\ y \in Int
  <2>1. y \in Int /\ info.isdst \in Int
    BY <1>1, <1>3, <1>6
  <2> DEFINE d == info.isdst
  <2> HIDE DEF y, sub, typed, d
  <2>2. Counted([sub.tm EXCEPT !.isdst = d], y, hit)
    BY <1>6, <1>9, <2>1, CountedOfType DEF y, d
  <2> QED BY <1>10, <2>1, <2>2 DEF d
<1> DEFINE b == typed.tm
           n == [b EXCEPT !.year = newy]
           u == y - c * SECSPERREPEAT
<1>12. Counted(n, u, hit)
  <2>1. newy = b.year - c * YEARSPERREPEAT
    OBVIOUS
  <2>2. Counted(b, y, hit)
    BY <1>11
  <2> HIDE DEF y, newy, b
  <2> QED BY <1>1, <1>6, <1>11, <2>1, <2>2, CyclesBackRight
<1>13. u = x + v
  <2>1. newt = x + c * SECSPERREPEAT
    BY DEF newt, c
  <2> DEFINE a == c * SECSPERREPEAT
             w == corr
             o == off
  <2>2. newt = x + a /\ a \in Int /\ w \in Int /\ o \in Int /\ u = newt + o - w - a /\ v = o - w
    BY <1>1, <1>3, <1>6, <2>1
  <2> HIDE DEF a, w, o, u, v
  <2> QED BY <2>2
<1>14. u \in Int /\ WithinYears(u \div SECSPERDAY, FIRST_YEAR, INT_MAX)
  <2> HIDE DEF u, v
  <2>1. u \in Int
    BY <1>7, <1>13
  <2> QED BY <1>7, <1>13, <2>1, ModerateClock
<1> DEFINE year == n.year + TM_YEAR_BASE
<1>15. year \in Int /\ YearStart(year) <= u \div SECSPERDAY /\ u \div SECSPERDAY < YearStart(year + 1)
  <2>1. year = n.year + TM_YEAR_BASE
    OBVIOUS
  <2> HIDE DEF n, u, year
  <2> QED BY <1>6, <1>12, <1>14, <2>1, CountedDay
<1>16. FIRST_YEAR <= year /\ year <= INT_MAX
  <2> DEFINE E == u \div SECSPERDAY
             p == <<year, E - YearStart(year)>>
  <2>1. /\ E \in Int /\ YearStart(year) \in Int /\ YearStart(year) <= E /\ E < YearStart(year + 1)
        /\ YearStart(year + 1) = YearStart(year) + year_lengths(year) /\ year_lengths(year) \in {365, 366}
    <3>1. E \in Int
      BY <1>14 DEF WithinYears
    <3> HIDE DEF year, E
    <3>2. year \in Int
      BY <1>15
    <3>3. YearStart(year) <= E /\ E < YearStart(year + 1)
      BY <1>15 DEF E
    <3> QED BY <3>1, <3>2, <3>3, YearStarts
  <2> HIDE DEF E, year
  <2>2. p \in Int \X Int /\ InYear(p) /\ DayOf(p) = E /\ p[1] = year
    BY <1>15, <2>1 DEF InYear, DayOf, year
  <2>3. WithinYears(E, FIRST_YEAR, INT_MAX)
    BY <1>14 DEF E
  <2> HIDE DEF p
  <2>4. FIRST_YEAR <= p[1] /\ p[1] <= INT_MAX
    BY <2>2, <2>3, YearWithin
  <2> QED BY <2>2, <2>4
<1>17. IsInt(newy)
  <2>1. n.year = newy /\ newy \in Int
    <3>1. b \in StructTm
      BY <1>11 DEF Counted
    <3>2. b.year \in Int
      BY <3>1 DEF StructTm
    <3>3. newy \in Int
      BY <1>1, <3>2 DEF YEARSPERREPEAT
    <3> HIDE DEF b, newy
    <3> QED BY <3>1, <3>3 DEF StructTm
  <2>2. year = newy + 1900 /\ year \in Int
    BY <1>15, <2>1 DEF TM_YEAR_BASE
  <2> HIDE DEF year, newy, n
  <2> QED BY <1>16, <2>1, <2>2, YearsOfInts DEF IsInt
<1> QED
  <2>1. CyclesBack(typed, c).ok = IsInt(newy)
    <3> HIDE DEF typed
    <3> QED BY <1>10 DEF CyclesBack
  <2> QED BY <1>4, <1>17, <2>1

(***************************************************************************)
(* It answers for every instant that is moderate in a modest zone.         *)
(***************************************************************************)
LEMMA LocalsubAnswers ==
  ASSUME NEW z, IsZone(z), SoundLeaps(z), Modest(z), WideInts, NEW x \in Int, Moderate(x), NEW tmp
  PROVE  localsub(z, x, tmp).ok
<1> DEFINE c == Cycles(z, x)
           newt == x + c * SECSPERREPEAT
<1>1. c \in Int /\ newt \in Int /\ (c # 0 => z.goback \/ z.goahead)
  <2>1. c \in Int /\ (c # 0 => z.goback \/ z.goahead)
    BY CyclesKnown
  <2> HIDE DEF c
  <2>2. c * SECSPERREPEAT \in Int
    BY <2>1, Units, Products
  <2> QED BY <2>1, <2>2
<1>2. c # 0 => InTable(z, newt)
  BY MovedInTable
<1>3. Moderate(newt)
  <2>1. CASE c = 0
    <3>1. newt = x
      BY <2>1, Units
    <3> QED BY <3>1
  <2>2. CASE c # 0
    <3>1. First(z) <= newt /\ newt <= Last(z) /\ (z.goback \/ z.goahead)
          /\ InnerYear(YearAbout(First(z))) /\ InnerYear(YearAbout(Last(z)))
      BY <1>1, <1>2, <2>2, Zenon DEF Modest, InTable
    <3>2. First(z) \in Int /\ Last(z) \in Int
      BY <3>1, CycleInTable
    <3>6. Moderate(First(z)) /\ Moderate(Last(z))
      BY <3>1, <3>2, InnerIsModerate
    <3> DEFINE l == SECSPERDAY * YearStart(INT_MIN + TM_YEAR_BASE + 1)
               h == SECSPERDAY * YearStart(INT_MAX)
    <3>3. l \in Int /\ h \in Int
      <4>1. YearStart(INT_MIN + TM_YEAR_BASE + 1) \in Int /\ YearStart(INT_MAX) \in Int /\ SECSPERDAY \in Int
        BY YearsOfInts, Units DEF FIRST_YEAR
      <4> DEFINE e == YearStart(INT_MIN + TM_YEAR_BASE + 1)
                 g == YearStart(INT_MAX)
      <4> HIDE DEF e, g
      <4> QED BY <4>1, Products DEF e, g
    <3>4. l <= First(z) /\ Last(z) < h
      BY <3>6 DEF Moderate
    <3> HIDE DEF l, h, newt
    <3>5. l <= newt /\ newt < h
      BY <1>1, <3>1, <3>2, <3>3, <3>4
    <3> QED BY <3>5 DEF Moderate, l, h
  <2> QED BY <2>1, <2>2
<1>4. ModestOffsets(z)
  BY DEF Modest, ModestOffsets
<1> QED BY <1>3, <1>4, LocalsubAnswersMoved
=============================================================================
