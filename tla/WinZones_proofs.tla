--------------------------- MODULE WinZones_proofs ---------------------------
(***************************************************************************)
(* Proofs about WinTimezone, for every registry, every set of names and    *)
(* any number of lookups: what lookups leave in memory, call by call, and  *)
(* that no year ever has rules of its own.                                 *)
(***************************************************************************)
EXTENDS WinZones, TLAPS

Kinds    == {"dtzi", "subkey", "keyPath", "years", "data"}
Outcomes == {"missing", "denied", "none", "years"}

-----------------------------------------------------------------------------
(***************************************************************************)
(* Memory.  While a lookup is under way it holds what it has allocated,    *)
(* the years among it once there is one.                                   *)
(***************************************************************************)
FlowInv ==
  /\ pc \in {"idle", "name", "open", "enumerate", "read"}
  /\ owned => pc = "idle"
  /\ yearsArray.size \in Nat
  /\ yearsArray.size > 0 => pc \in {"enumerate", "read"}
  /\ timezone.reg_tz_data = <<>>

HeapInv ==
  /\ heap \in [Kinds -> Int] /\ lookups \in [Outcomes -> Nat]
  /\ heap["dtzi"] = IF owned \/ pc # "idle" THEN 1 ELSE 0
  /\ heap["subkey"] = IF pc = "name" THEN 1 ELSE 0
  /\ heap["keyPath"] = lookups["missing"] + lookups["denied"]
                         + IF pc \in {"open", "enumerate", "read"} THEN 1 ELSE 0
  /\ heap["data"] = lookups["none"] + lookups["years"]
  /\ heap["years"] = lookups["years"] + IF yearsArray.size > 0 THEN 1 ELSE 0

LeakInv == FlowInv /\ HeapInv

(***************************************************************************)
(* Lookups are counted by their outcomes.                                  *)
(***************************************************************************)
LEMMA OutcomeIs ==
  ASSUME lookups \in [Outcomes -> Nat], NEW kind \in Outcomes, Outcome(kind)
  PROVE  /\ lookups' \in [Outcomes -> Nat]
         /\ \A k \in Outcomes : lookups'[k] = lookups[k] + IF k = kind THEN 1 ELSE 0
BY DEF Outcome

(***************************************************************************)
(* At first nothing is allocated.                                          *)
(***************************************************************************)
LEMMA LeakInit == Init => LeakInv
<1> SUFFICES ASSUME Init PROVE LeakInv
  OBVIOUS
<1>1. FlowInv
  BY DEF Init, FlowInv, YEARS_ARRAY
<1>2. HeapInv
  BY DEF Init, HeapInv, YEARS_ARRAY, Kinds, Outcomes
<1> QED
  BY <1>1, <1>2 DEF LeakInv

(***************************************************************************)
(* A lookup that comes to the registry allocates the rules and the name of *)
(* the key.                                                                *)
(***************************************************************************)
LEMMA LookupLeaks ==
  ASSUME LeakInv, NEW name \in Names, dt_timezone_lookup(name)
  PROVE  LeakInv'
<1>1. /\ pc = "idle" /\ ~owned
      /\ UNCHANGED <<owned, yearsArray, lookups>>
  BY DEF dt_timezone_lookup, enum_vars
<1>2. CASE name \in {NOT_MAPPED, NO_ALIAS}
  <2>1. timezone' = [timezone EXCEPT !.reg_tz_data = <<>>] /\ UNCHANGED <<heap, pc>>
    BY <1>2 DEF dt_timezone_lookup
  <2>2. timezone'.reg_tz_data = <<>>
    BY <2>1 DEF LeakInv, FlowInv
  <2> QED
    BY <1>1, <2>1, <2>2 DEF LeakInv, FlowInv, HeapInv
<1>3. CASE name \notin {NOT_MAPPED, NO_ALIAS}
  <2>1. /\ timezone' = [dtzi |-> Utc, reg_tz_data |-> <<>>]
        /\ heap' = Change("dtzi", 1, Change("subkey", 1, heap))
        /\ pc' = "name"
    BY <1>3 DEF dt_timezone_lookup
  <2>2. FlowInv'
    BY <1>1, <2>1 DEF LeakInv, FlowInv
  <2>3. /\ heap' \in [Kinds -> Int]
        /\ heap'["dtzi"] = heap["dtzi"] + 1 /\ heap'["subkey"] = heap["subkey"] + 1
        /\ \A k \in {"keyPath", "data", "years"} : heap'[k] = heap[k]
    <3>1. heap \in [Kinds -> Int]
      BY DEF LeakInv, HeapInv
    <3> QED
      BY <2>1, <3>1 DEF Change, Kinds
  <2>4. HeapInv'
    BY <1>1, <2>1, <2>3 DEF LeakInv, FlowInv, HeapInv
  <2> QED
    BY <2>2, <2>4 DEF LeakInv
<1> QED
  BY <1>2, <1>3

(***************************************************************************)
(* The name of the key becomes its path, or everything is freed.           *)
(***************************************************************************)
LEMMA ByNameLeaks ==
  ASSUME LeakInv, ByName
  PROVE  LeakInv'
<1>1. pc = "name" /\ UNCHANGED <<owned, yearsArray, lookups>>
  BY DEF ByName, enum_vars
<1>2. ~owned /\ yearsArray.size = 0
  BY <1>1 DEF LeakInv, FlowInv
<1>3. CASE Registry[native].complete
  <2>1. /\ timezone' = [timezone EXCEPT !.dtzi = Rules(Registry[native].TZI)]
        /\ heap' = Change("subkey", -1, Change("keyPath", 1, heap))
        /\ pc' = "open"
    BY <1>3 DEF ByName
  <2>2. timezone'.reg_tz_data = <<>>
    BY <2>1 DEF LeakInv, FlowInv
  <2>3. /\ heap' \in [Kinds -> Int]
        /\ heap'["subkey"] = heap["subkey"] - 1 /\ heap'["keyPath"] = heap["keyPath"] + 1
        /\ \A k \in {"dtzi", "data", "years"} : heap'[k] = heap[k]
    <3>1. heap \in [Kinds -> Int]
      BY DEF LeakInv, HeapInv
    <3> QED
      BY <2>1, <3>1 DEF Change, Kinds
  <2>4. FlowInv'
    BY <1>1, <1>2, <2>1, <2>2 DEF LeakInv, FlowInv
  <2>5. HeapInv'
    BY <1>1, <1>2, <2>1, <2>3 DEF LeakInv, HeapInv, Outcomes
  <2> QED
    BY <2>4, <2>5 DEF LeakInv
<1>4. CASE ~Registry[native].complete
  <2>1. /\ heap' = Change("subkey", -1, Change("dtzi", -1, heap))
        /\ pc' = "idle" /\ UNCHANGED timezone
    BY <1>4 DEF ByName
  <2>2. /\ heap' \in [Kinds -> Int]
        /\ heap'["subkey"] = heap["subkey"] - 1 /\ heap'["dtzi"] = heap["dtzi"] - 1
        /\ \A k \in {"keyPath", "data", "years"} : heap'[k] = heap[k]
    <3>1. heap \in [Kinds -> Int]
      BY DEF LeakInv, HeapInv
    <3> QED
      BY <2>1, <3>1 DEF Change, Kinds
  <2>3. FlowInv'
    BY <1>1, <1>2, <2>1 DEF LeakInv, FlowInv
  <2>4. HeapInv'
    BY <1>1, <1>2, <2>1, <2>2 DEF LeakInv, HeapInv, Outcomes
  <2> QED
    BY <2>3, <2>4 DEF LeakInv
<1> QED
  BY <1>3, <1>4

(***************************************************************************)
(* Without the key of single years the path stays where it is, and with an *)
(* error the rules are freed.                                              *)
(***************************************************************************)
LEMMA OpenLeaks ==
  ASSUME LeakInv, OpenDynamicDst
  PROVE  LeakInv'
<1>1. pc = "open" /\ UNCHANGED <<timezone, yearsArray>>
  BY DEF OpenDynamicDst, enum_vars
<1>2. ~owned /\ yearsArray.size = 0 /\ lookups \in [Outcomes -> Nat]
  BY <1>1 DEF LeakInv, FlowInv, HeapInv
<1>3. CASE owned' = TRUE /\ pc' = "idle" /\ Outcome("missing") /\ UNCHANGED heap
  <2>1. /\ lookups' \in [Outcomes -> Nat]
        /\ lookups'["missing"] = lookups["missing"] + 1
        /\ \A k \in {"denied", "none", "years"} : lookups'[k] = lookups[k]
    BY <1>2, <1>3, OutcomeIs DEF Outcomes
  <2>2. FlowInv'
    BY <1>1, <1>2, <1>3 DEF LeakInv, FlowInv
  <2>3. HeapInv'
    BY <1>1, <1>2, <1>3, <2>1 DEF LeakInv, HeapInv, Outcomes
  <2> QED
    BY <2>2, <2>3 DEF LeakInv
<1>4. CASE /\ heap' = Change("dtzi", -1, heap) /\ pc' = "idle"
           /\ Outcome("denied") /\ UNCHANGED owned
  <2>1. /\ lookups' \in [Outcomes -> Nat]
        /\ lookups'["denied"] = lookups["denied"] + 1
        /\ \A k \in {"missing", "none", "years"} : lookups'[k] = lookups[k]
    BY <1>2, <1>4, OutcomeIs DEF Outcomes
  <2>2. /\ heap' \in [Kinds -> Int]
        /\ heap'["dtzi"] = heap["dtzi"] - 1
        /\ \A k \in {"keyPath", "subkey", "data", "years"} : heap'[k] = heap[k]
    <3>1. heap \in [Kinds -> Int]
      BY DEF LeakInv, HeapInv
    <3> QED
      BY <1>4, <3>1 DEF Change, Kinds
  <2>3. FlowInv'
    BY <1>1, <1>2, <1>4 DEF LeakInv, FlowInv
  <2>4. HeapInv'
    BY <1>1, <1>2, <1>4, <2>1, <2>2 DEF LeakInv, HeapInv, Outcomes
  <2> QED
    BY <2>3, <2>4 DEF LeakInv
<1>5. CASE pc' = "enumerate" /\ UNCHANGED <<owned, heap, lookups>>
  BY <1>1, <1>2, <1>5 DEF LeakInv, FlowInv, HeapInv
<1> QED
  BY <1>3, <1>4, <1>5 DEF OpenDynamicDst

-----------------------------------------------------------------------------
(***************************************************************************)
(* The array of years is allocated with the first year, and grows from     *)
(* then on.                                                                *)
(***************************************************************************)
LEMMA InsertedLeaks ==
  ASSUME LeakInv, NEW valueName, Inserted(valueName)
  PROVE  /\ yearsArray'.size \in Nat
         /\ heap' \in [Kinds -> Int]
         /\ \A k \in Kinds \ {"years"} : heap'[k] = heap[k]
         /\ heap'["years"] = lookups["years"] + IF yearsArray'.size > 0 THEN 1 ELSE 0
<1> USE RegistryAssumption
<1>1. /\ yearsArray.size \in Nat /\ heap \in [Kinds -> Int]
      /\ heap["years"] = lookups["years"] + IF yearsArray.size > 0 THEN 1 ELSE 0
      /\ lookups["years"] \in Nat
  BY DEF LeakInv, FlowInv, HeapInv, Outcomes
<1>2. yearsArray'.size \in Nat /\ yearsArray'.size >= yearsArray.size
  BY <1>1 DEF Inserted, InsertYearToArray
<1>3. CASE yearsArray.size = 0 /\ yearsArray'.size > 0
  <2>1. heap' = Change("years", 1, heap)
    BY <1>3 DEF Inserted
  <2> QED
    BY <1>1, <1>2, <1>3, <2>1 DEF Change, Kinds
<1>4. CASE ~(yearsArray.size = 0 /\ yearsArray'.size > 0)
  <2>1. heap' = heap
    BY <1>4 DEF Inserted
  <2> QED
    BY <1>1, <1>2, <1>4, <2>1 DEF Kinds
<1> QED
  BY <1>3, <1>4

(***************************************************************************)
(* So it is with each value of the key.                                    *)
(***************************************************************************)
LEMMA EnumerateLeaks ==
  ASSUME LeakInv, NextValue \/ NoMoreValues
  PROVE  LeakInv'
<1>1. /\ pc = "enumerate" /\ pc' \in {"enumerate", "read"}
      /\ UNCHANGED <<timezone, owned, lookups>>
  BY DEF NextValue, NoMoreValues
<1>2. PICK valueName : Inserted(valueName)
  BY DEF NextValue, NoMoreValues
<1>3. /\ yearsArray'.size \in Nat
      /\ heap' \in [Kinds -> Int]
      /\ \A k \in {"dtzi", "subkey", "keyPath", "data"} : heap'[k] = heap[k]
      /\ heap'["years"] = lookups["years"] + IF yearsArray'.size > 0 THEN 1 ELSE 0
  BY <1>2, InsertedLeaks DEF Kinds
<1>4. FlowInv'
  BY <1>1, <1>3 DEF LeakInv, FlowInv
<1>5. HeapInv'
  BY <1>1, <1>3 DEF LeakInv, FlowInv, HeapInv
<1> QED
  BY <1>4, <1>5 DEF LeakInv

(***************************************************************************)
(* The years are handed over in a copy: the caller's own array is empty,   *)
(* and so is the table made of it.                                         *)
(***************************************************************************)
LEMMA NoTable ==
  ASSUME ReadYears
  PROVE  /\ timezone' = [timezone EXCEPT !.reg_tz_data = <<>>]
         /\ heap' = Change("data", 1, Change("keyPath", -1, Change("years", 0, heap)))
<1>1. AfterCall(yearsArray, YEARS_ARRAY) = [years |-> <<>>, size |-> 0]
  BY DEF AfterCall, YEARS_ARRAY
<1>2. [i \in 1 .. Len(<<>>) |-> readYearTZDataFromRegistry(<<>>[i])] = <<>>
  OBVIOUS
<1> QED
  BY <1>1, <1>2 DEF ReadYears

(***************************************************************************)
(* What is read then leaves an empty table and, if there was a year, the   *)
(* array of years.                                                         *)
(***************************************************************************)
LEMMA ReadLeaks ==
  ASSUME LeakInv, ReadYears
  PROVE  LeakInv'
<1> DEFINE kind == IF yearsArray.size = 0 THEN "none" ELSE "years"
<1>1. /\ pc = "read" /\ pc' = "idle" /\ owned' = TRUE /\ yearsArray' = YEARS_ARRAY
      /\ Outcome(kind)
  BY DEF ReadYears
<1>2. kind \in Outcomes /\ lookups \in [Outcomes -> Nat]
  BY DEF Outcomes, LeakInv, HeapInv
<1>3. /\ lookups' \in [Outcomes -> Nat]
      /\ \A k \in Outcomes : lookups'[k] = lookups[k] + IF k = kind THEN 1 ELSE 0
  BY <1>1, <1>2, OutcomeIs
<1>4. /\ heap' \in [Kinds -> Int]
      /\ heap'["data"] = heap["data"] + 1 /\ heap'["keyPath"] = heap["keyPath"] - 1
      /\ \A k \in {"dtzi", "subkey", "years"} : heap'[k] = heap[k]
  <2>1. heap \in [Kinds -> Int]
    BY DEF LeakInv, HeapInv
  <2> QED
    BY <2>1, NoTable DEF Change, Kinds
<1>5. FlowInv'
  <2>1. timezone'.reg_tz_data = <<>>
    <3>1. timezone' = [timezone EXCEPT !.reg_tz_data = <<>>]
      BY NoTable
    <3>2. timezone.reg_tz_data = <<>>
      BY DEF LeakInv, FlowInv
    <3> QED
      BY <3>1, <3>2
  <2> QED
    BY <1>1, <2>1 DEF FlowInv, YEARS_ARRAY
<1>6. HeapInv'
  <2>1. yearsArray.size \in Nat /\ yearsArray'.size = 0
    BY <1>1 DEF LeakInv, FlowInv, YEARS_ARRAY
  <2> QED
    BY <1>1, <1>3, <1>4, <2>1 DEF LeakInv, HeapInv, Outcomes
<1> QED
  BY <1>5, <1>6 DEF LeakInv

(***************************************************************************)
(* Cleanup frees the rules and never a table.                              *)
(***************************************************************************)
LEMMA CleanupLeaks ==
  ASSUME LeakInv, dt_timezone_cleanup
  PROVE  LeakInv'
<1>1. /\ pc = "idle" /\ owned /\ ~owned'
      /\ timezone' = [timezone EXCEPT !.reg_tz_data = <<>>]
      /\ UNCHANGED <<pc, yearsArray, lookups>>
  BY DEF dt_timezone_cleanup, enum_vars
<1>2. timezone.reg_tz_data = <<>>
  BY DEF LeakInv, FlowInv
<1>3. heap' = Change("dtzi", -1, heap)
  BY <1>2 DEF dt_timezone_cleanup
<1>4. /\ heap' \in [Kinds -> Int]
      /\ heap'["dtzi"] = heap["dtzi"] - 1
      /\ \A k \in {"subkey", "keyPath", "data", "years"} : heap'[k] = heap[k]
  <2>1. heap \in [Kinds -> Int]
    BY DEF LeakInv, HeapInv
  <2> QED
    BY <1>3, <2>1 DEF Change, Kinds
<1>5. FlowInv'
  <2>1. timezone'.reg_tz_data = <<>>
    BY <1>1, <1>2
  <2> QED
    BY <1>1, <2>1 DEF LeakInv, FlowInv
<1>6. HeapInv'
  BY <1>1, <1>4 DEF LeakInv, FlowInv, HeapInv
<1> QED
  BY <1>5, <1>6 DEF LeakInv

(***************************************************************************)
(* Every step keeps the account.                                           *)
(***************************************************************************)
LEMMA LeakStays ==
  ASSUME LeakInv, [Next]_vars
  PROVE  LeakInv'
<1>1. CASE NoValue \/ KeyDeleted \/ UNCHANGED vars
  <2>1. UNCHANGED <<timezone, owned, heap, pc, yearsArray, lookups>>
    BY <1>1 DEF NoValue, KeyDeleted, vars, enum_vars
  <2> QED
    BY <2>1 DEF LeakInv, FlowInv, HeapInv
<1> QED
  BY <1>1, LookupLeaks, ByNameLeaks, OpenLeaks, EnumerateLeaks, ReadLeaks, CleanupLeaks
  DEF Next, Step

(***************************************************************************)
(* However many lookups there are and whichever of their calls fail: the   *)
(* rules are freed by cleanup or by the lookup that fails, the name of the *)
(* key always, and of all else never more is left than a path for each     *)
(* lookup without a readable key of single years, and a table and an array *)
(* of years for the others (dt_win32.c:568-720).                           *)
(***************************************************************************)
THEOREM LookupsLeakNoMore == Spec => []NothingMoreLeaks
<1>1. LeakInv => NothingMoreLeaks
  <2> SUFFICES ASSUME LeakInv, pc = "idle"
               PROVE  /\ heap["dtzi"] = IF owned THEN 1 ELSE 0
                      /\ heap["subkey"] = 0
                      /\ heap["keyPath"] \in 0 .. lookups["missing"] + lookups["denied"]
                      /\ heap["data"] \in 0 .. lookups["none"] + lookups["years"]
                      /\ heap["years"] \in 0 .. lookups["years"]
    BY DEF NothingMoreLeaks
  <2>1. \A outcome \in Outcomes : lookups[outcome] \in Nat
    BY DEF LeakInv, HeapInv
  <2>2. yearsArray.size = 0
    BY DEF LeakInv, FlowInv
  <2> QED BY <2>1, <2>2 DEF LeakInv, HeapInv, Outcomes
<1> QED
  BY <1>1, LeakInit, LeakStays, PTL DEF Spec

-----------------------------------------------------------------------------
(***************************************************************************)
(* Rules.  From GetTimeZoneInformationByName on the object has those of    *)
(* the zone asked for, or of UTC; native does not change before the next   *)
(* lookup, which needs an object that is free.                             *)
(***************************************************************************)
RuleInv ==
  /\ pc # "idle" \/ owned => native \in Names \ {NOT_MAPPED, NO_ALIAS}
  /\ pc \in {"open", "enumerate", "read"} \/ owned =>
       /\ DOMAIN timezone = {"dtzi", "reg_tz_data"}
       /\ timezone.dtzi = Rules(Registry[native].TZI)
  /\ pc = "name" => DOMAIN timezone = {"dtzi", "reg_tz_data"}

(***************************************************************************)
(* The dates and biases of a zone arrive where they belong.                *)
(***************************************************************************)
LEMMA RulesAre ==
  ASSUME NEW name \in Names \ {NOT_MAPPED, NO_ALIAS}
  PROVE  Rules(Registry[name].TZI)
           = IF Registry[name].TZI = UNREADABLE THEN Utc ELSE Registry[name].TZI
<1> DEFINE tzi == Registry[name].TZI
<1>1. CASE tzi = UNREADABLE
  BY <1>1 DEF Rules, GetTziFromKey, RegTziToDynamicTimeZoneInfo, Utc, TimeZoneInformation
<1>2. CASE tzi # UNREADABLE
  BY <1>2, RegistryAssumption DEF Rules, GetTziFromKey, RegTziToDynamicTimeZoneInfo
<1> QED
  BY <1>1, <1>2

(***************************************************************************)
(* Every step keeps the rules.                                             *)
(***************************************************************************)
LEMMA RulesStay ==
  ASSUME FlowInv, RuleInv, [Next]_vars
  PROVE  RuleInv'
<1> USE DEF FlowInv
<1>1. ASSUME NEW name \in Names, dt_timezone_lookup(name)
      PROVE  RuleInv'
  BY <1>1 DEF dt_timezone_lookup, RuleInv
<1>2. CASE ByName
  BY <1>2 DEF ByName, RuleInv
<1>3. CASE OpenDynamicDst
  BY <1>3 DEF OpenDynamicDst, RuleInv
<1>4. CASE NextValue \/ NoMoreValues \/ NoValue \/ KeyDeleted \/ UNCHANGED vars
  BY <1>4 DEF NextValue, NoMoreValues, NoValue, KeyDeleted, vars, RuleInv
<1>5. CASE ReadYears
  <2>1. timezone' = [timezone EXCEPT !.reg_tz_data = <<>>] /\ pc = "read" /\ UNCHANGED native
    BY <1>5, NoTable DEF ReadYears
  <2> QED
    BY <2>1, <1>5 DEF RuleInv, ReadYears
<1>6. CASE dt_timezone_cleanup
  BY <1>6 DEF dt_timezone_cleanup, RuleInv
<1> QED
  BY <1>1, <1>2, <1>3, <1>4, <1>5, <1>6 DEF Next, Step

(***************************************************************************)
(* A zone that was found has the rules of its name, in every year, if the  *)
(* registry has no rules for single years (dt_win32.c:424, :590).          *)
(***************************************************************************)
THEOREM RulesAreOfTheZone == Spec => []RulesOfTheZone
<1>1. Init => RuleInv
  BY DEF Init, RuleInv
<1>2. LeakInv => FlowInv
  BY DEF LeakInv
<1>3. FlowInv /\ RuleInv => RulesOfTheZone
  BY RulesAre DEF FlowInv, RuleInv, RulesOfTheZone, GetTimeZoneInformationForYearLower
<1>4. LeakInv /\ RuleInv /\ [Next]_vars => RuleInv'
  BY <1>2, RulesStay
<1> QED
  BY <1>1, <1>2, <1>3, <1>4, LeakInit, LeakStays, PTL DEF Spec

-----------------------------------------------------------------------------
(***************************************************************************)
(* Numbers.                                                                *)
(***************************************************************************)
LEMMA Products ==
  ASSUME NEW a \in Int, NEW b \in Int, NEW c \in Int
  PROVE  /\ a * b \in Int /\ (a + b) * c = a * c + b * c /\ (a - b) * c = a * c - b * c
         /\ a >= 0 /\ c >= 0 => a * c >= 0
         /\ a < 0 /\ c > 0 => a * c < 0
         /\ a <= b /\ c >= 0 => a * c <= b * c
BY SMT

(***************************************************************************)
(* A multiple and a remainder are the quotient and the remainder.          *)
(***************************************************************************)
LEMMA Quotient ==
  ASSUME NEW a \in Int, NEW b \in Nat \ {0}, NEW q \in Int, NEW r \in 0 .. b - 1, a = q * b + r
  PROVE  a \div b = q /\ a % b = r
BY SMT

(***************************************************************************)
(* A number below the divisor is its own remainder.                        *)
(***************************************************************************)
LEMMA SmallRemainder ==
  ASSUME NEW a \in Nat, NEW b \in Nat \ {0}, a < b
  PROVE  a % b = a
BY SMT

(***************************************************************************)
(* A number is its quotient times the divisor, and the remainder.          *)
(***************************************************************************)
LEMMA DividedBy ==
  ASSUME NEW a \in Int, NEW b \in Nat \ {0}
  PROVE  a \div b \in Int /\ a % b \in 0 .. b - 1 /\ a = (a \div b) * b + (a % b)
<1>1. a \div b \in Int /\ a % b \in 0 .. b - 1
  BY SMT
<1>2. a % b = a - (a \div b) * b /\ (a \div b) * b \in Int
  BY SMT
<1> DEFINE p == (a \div b) * b
           m == a % b
<1>3. m = a - p /\ p \in Int /\ m \in Int
  BY <1>1, <1>2
<1> HIDE DEF p, m
<1>4. a = p + m
  BY <1>3
<1> QED BY <1>1, <1>4 DEF p, m

(***************************************************************************)
(* Quotients keep the order.                                               *)
(***************************************************************************)
LEMMA QuotientGrows ==
  ASSUME NEW a \in Int, NEW b \in Int, NEW c \in Nat \ {0}, a <= b
  PROVE  a \div c <= b \div c
BY SMT

(***************************************************************************)
(* A timestamp is a SYSTEMTIME, and what one is converted to is a          *)
(* timestamp.                                                              *)
(***************************************************************************)
LEMMA WordsAre ==
  ASSUME WideTicks
  PROVE  /\ YEAR \in Nat \ {0} /\ TICKS \in Nat \ {0} /\ UINT64 \in Nat \ {0} /\ LONG_MAX \in Nat
         /\ EPOCH \in Int /\ LONG_MAX < EPOCH /\ JAN1970 = EPOCH * TICKS
         /\ MAX_YEAR \in Nat /\ MAX_YEAR < WORD
BY WinAssumption DEF WideTicks, EPOCH, JAN1970, FIRST_YEAR

(***************************************************************************)
(* The year of an instant is a number.                                     *)
(***************************************************************************)
LEMMA YearIs ==
  ASSUME WideTicks, NEW s \in Int
  PROVE  s \div YEAR \in Int /\ wYear(s) \in Int
<1> DEFINE q == s \div YEAR
<1>1. YEAR \in Nat \ {0}
  BY WordsAre
<1>2. q \in Int
  BY <1>1, DividedBy
<1> HIDE DEF q
<1>3. 1601 + q \in Int
  BY <1>2
<1> QED BY <1>2, <1>3 DEF wYear, FIRST_YEAR, q

(***************************************************************************)
(* A timestamp is the SYSTEMTIME of its second.                            *)
(***************************************************************************)
LEMMA UtcOf ==
  ASSUME WideTicks, NEW x \in Longs
  PROVE  UnixTimeToSystemTime(x) = OK(x + EPOCH)
<1> DEFINE w == (x + EPOCH) * TICKS
           h == UINT64 \div 2
<1>1. x \in Int /\ x <= LONG_MAX /\ 0 <= x + EPOCH /\ x + EPOCH <= LONG_MAX + EPOCH
      /\ LONG_MAX + EPOCH \in Int
  BY WordsAre DEF Longs
<1>2. w \in Int /\ 0 <= w /\ w <= (LONG_MAX + EPOCH) * TICKS /\ x * TICKS + JAN1970 = w
  <2>1. x + EPOCH \in Int /\ TICKS \in Int /\ 0 <= TICKS /\ EPOCH \in Int
    BY <1>1, WordsAre
  <2>2. w = x * TICKS + EPOCH * TICKS
    BY <1>1, <2>1, Products
  <2> QED BY <1>1, <2>1, <2>2, Products, WordsAre
<1>3. (LONG_MAX + EPOCH) * TICKS < h /\ (LONG_MAX + EPOCH) * TICKS \in Int
  BY <1>1, Products, WordsAre DEF WideTicks
<1>4. h \in Int /\ h <= UINT64
  BY WordsAre
<1> HIDE DEF w, h
<1>5. 0 <= w /\ w < h /\ w < UINT64
  BY <1>2, <1>3, <1>4, WordsAre
<1>6. w % UINT64 = w
  BY <1>2, <1>5, SmallRemainder, WordsAre
<1>7. UnixTimeToFileTime(x) = w
  BY <1>2, <1>6 DEF UnixTimeToFileTime
<1>8. w \div TICKS = x + EPOCH
  <2>1. w = (x + EPOCH) * TICKS + 0 /\ 0 \in 0 .. TICKS - 1 /\ x + EPOCH \in Int
    BY <1>1, <1>2, WordsAre DEF w
  <2> QED BY <1>2, <2>1, Quotient, WordsAre
<1> QED BY <1>5, <1>7, <1>8 DEF UnixTimeToSystemTime, h

(***************************************************************************)
(* A SYSTEMTIME is the timestamp of its second.                            *)
(***************************************************************************)
LEMMA UnixTimeIs ==
  ASSUME WideTicks, NEW s \in Int
  PROVE  SystemTimeToUnixTime(s) = s - EPOCH
<1> DEFINE d == s - EPOCH
           n == d * TICKS
           m == (-d) * TICKS
<1>1. d \in Int /\ -d \in Int /\ TICKS \in Nat \ {0} /\ TICKS \in Int /\ EPOCH \in Int
  BY WordsAre
<1>2. n = s * TICKS - JAN1970 /\ n \in Int /\ m = -n
  BY <1>1, Products, WordsAre
<1>3. (0 <= d => 0 <= n) /\ (d < 0 => n < 0)
  BY <1>1, Products
<1> DEFINE k == -d
<1>4. n \div TICKS = d /\ m \div TICKS = k
  <2>1. n = d * TICKS + 0 /\ m = k * TICKS + 0 /\ m \in Int
    BY <1>1, <1>2
  <2>2. 0 \in 0 .. TICKS - 1 /\ TICKS \in Nat \ {0}
    BY <1>1
  <2>3. d \in Int /\ k \in Int /\ n \in Int /\ m \in Int
    BY <1>1, <1>2
  <2> HIDE DEF n, m, d, k
  <2>4. n \div TICKS = d
    BY <2>1, <2>2, <2>3, Quotient
  <2>5. m \div TICKS = k
    BY <2>1, <2>2, <2>3, Quotient
  <2> QED BY <2>4, <2>5
<1> HIDE DEF n, m, d
<1>5. CDiv(n, TICKS) = d
  BY <1>1, <1>2, <1>3, <1>4 DEF CDiv
<1> QED BY <1>2, <1>5 DEF SystemTimeToUnixTime, d

(***************************************************************************)
(* A timestamp survives the cast to a long.                                *)
(***************************************************************************)
LEMMA CastIs ==
  ASSUME WideTicks, NEW x \in Longs
  PROVE  CastLong(x) = x
<1> DEFINE n == 2 * (LONG_MAX + 1)
           y == x + LONG_MAX + 1
<1>1. n \in Nat \ {0} /\ y \in 0 .. n - 1
  BY WordsAre DEF Longs
<1>2. y % n = y
  <2> HIDE DEF y, n
  <2> QED BY <1>1
<1>3. x = y - LONG_MAX - 1
  BY WordsAre DEF Longs
<1> QED BY <1>2, <1>3 DEF CastLong

(***************************************************************************)
(* What an instant is converted to, in a zone with the rules tzi.          *)
(***************************************************************************)
LocalOf(tzi, x) == SystemTimeToTzSpecificLocalTime(tzi, x + EPOCH)

HasRules(zone, tzi) == ~Unknown(zone) /\ \A year \in Int : RulesOf(zone, year) = tzi

Shown(local) == Representation(1900 + (wYear(local) - 1900), local % YEAR)

(***************************************************************************)
(* An instant is shown as its local time.                                  *)
(***************************************************************************)
LEMMA ShownIs ==
  ASSUME WideTicks, NEW zone, NEW tzi, HasRules(zone, tzi), NEW x \in Longs, NEW r
  PROVE  Shows(zone, x, r) <=> /\ ~(LocalOf(tzi, x) < 0) /\ ~(wYear(LocalOf(tzi, x)) > MAX_YEAR)
                               /\ r = Shown(LocalOf(tzi, x))
<1> DEFINE u == UnixTimeToSystemTime(x)
           local == LocalOf(tzi, x)
<1>1. u = OK(x + EPOCH)
  BY UtcOf
<1>2. u.status = "DT_OK" /\ u.value = x + EPOCH
  BY <1>1 DEF OK
<1>3. wYear(x + EPOCH) \in Int
  BY WordsAre DEF wYear, FIRST_YEAR, Longs
<1>4. RulesOf(zone, wYear(u.value)) = tzi /\ ~Unknown(zone)
  BY <1>2, <1>3 DEF HasRules
<1>5. dt_timestamp_to_representation(x, zone)
        = IF local < 0 \/ wYear(local) > MAX_YEAR THEN Refuse("DT_INVALID_ARGUMENT") ELSE OK(Shown(local))
  BY <1>2, <1>4 DEF dt_timestamp_to_representation, LocalOf, TmFromSystemTime, Shown
<1> HIDE DEF local
<1>6. CASE local < 0 \/ wYear(local) > MAX_YEAR
  <2>1. dt_timestamp_to_representation(x, zone) # OK(r)
    BY <1>5, <1>6 DEF OK, Refuse
  <2> QED BY <1>6, <2>1 DEF Shows, local
<1>7. CASE ~(local < 0 \/ wYear(local) > MAX_YEAR)
  <2>1. dt_timestamp_to_representation(x, zone) = OK(Shown(local))
    BY <1>5, <1>7
  <2>2. OK(Shown(local)) = OK(r) <=> r = Shown(local)
    BY DEF OK
  <2> QED BY <1>7, <2>1, <2>2 DEF Shows, local
<1> QED BY <1>6, <1>7

(***************************************************************************)
(* What is shown is read as the local time it is.                          *)
(***************************************************************************)
LEMMA ReadBack ==
  ASSUME WideTicks, NEW local \in Int, 0 <= local, wYear(local) <= MAX_YEAR
  PROVE  LET r  == Shown(local)
             st == SystemTimeFromTm([tm_year |-> r.year - 1900, rest |-> r.rest])
         IN  /\ st = [wYear |-> r.year, rest |-> r.rest]
             /\ IsSystemTime(st) /\ st.wYear >= FIRST_YEAR /\ Seconds(st) = local
<1> DEFINE r  == Shown(local)
           q  == local \div YEAR
           m  == local % YEAR
<1>1. q \in Int /\ m \in Int /\ local = q * YEAR + m /\ q >= 0 /\ q * YEAR \in Int
  <2>1. YEAR \in Nat \ {0}
    BY WordsAre
  <2>2. local \div YEAR >= 0
    BY <2>1, SMT
  <2> QED BY <2>1, <2>2, DividedBy, Products
<1>2. wYear(local) = 1601 + q
  BY DEF wYear, FIRST_YEAR
<1> HIDE DEF q, m
<1>3. r.year = 1601 + q /\ r.rest = m
  BY <1>1, <1>2 DEF Shown, Representation, m
<1> HIDE DEF r
<1> DEFINE y == 1601 + q
<1>4. y \in Nat /\ r.year = y /\ r.year - 1900 + 1900 = y /\ y <= MAX_YEAR
  BY <1>1, <1>2, <1>3
<1>5. y % WORD = y
  <2>1. WORD \in Nat \ {0}
    BY DEF WORD
  <2> HIDE DEF y
  <2>2. y < WORD
    BY <1>4, <2>1, WordsAre
  <2> QED BY <1>4, <2>1, <2>2, SmallRemainder
<1> DEFINE st == SystemTimeFromTm([tm_year |-> r.year - 1900, rest |-> r.rest])
<1>6. st = [wYear |-> y, rest |-> m]
  <2> DEFINE broken == [tm_year |-> r.year - 1900, rest |-> r.rest]
  <2>1. broken.tm_year + 1900 = y /\ broken.rest = m
    BY <1>3, <1>4
  <2> HIDE DEF y, broken
  <2>2. SystemTimeFromTm(broken) = [wYear |-> y, rest |-> m]
    BY <1>5, <2>1 DEF SystemTimeFromTm
  <2> QED BY <2>2 DEF broken
<1>7. st.wYear = y /\ st.rest = m
  BY <1>6
<1>8. Seconds(st) = q * YEAR + m
  <2>1. st.wYear - FIRST_YEAR = q
    <3>1. y - 1601 = q
      BY <1>1
    <3> HIDE DEF y
    <3> QED BY <1>7, <3>1 DEF FIRST_YEAR
  <2> QED BY <1>7, <2>1 DEF Seconds
<1>9. IsSystemTime(st) /\ st.wYear >= FIRST_YEAR
  BY <1>1, <1>4, <1>7 DEF IsSystemTime, FIRST_YEAR
<1>10. st = [wYear |-> r.year, rest |-> r.rest] /\ Seconds(st) = local
  BY <1>1, <1>3, <1>4, <1>6, <1>8
<1> QED BY <1>9, <1>10 DEF st, r

(***************************************************************************)
(* What a shown representation is converted to, if the hour is not cut.    *)
(***************************************************************************)
LEMMA AnswersAreRight ==
  ASSUME WideTicks, UsualRules,
         NEW zone, NEW tzi \in AllRules, HasRules(zone, tzi),
         NEW r \in Representations, NEW answer \in dt_representation_to_timestamp(r, zone),
         NEW x \in Longs, Shows(zone, x, r), ~Shows(zone, -1, r)
  PROVE  answer.status = "DT_OK" /\ Shows(zone, answer.value, r)
<1> DEFINE local == LocalOf(tzi, x)
           st    == SystemTimeFromTm([tm_year |-> r.year - 1900, rest |-> r.rest])
           taken == TzSpecificLocalTimeToSystemTime(tzi, local)
           Told(s) == IF 0 <= s /\ wYear(s) <= MAX_YEAR
                      THEN dt_posix_time_to_timestamp(SystemTimeToUnixTime(s))
                      ELSE Refuse("DT_INVALID_ARGUMENT")
<1>1. ~(local < 0) /\ ~(wYear(local) > MAX_YEAR) /\ r = Shown(local)
  BY ShownIs
<1>2. tzi.Bias \in Int /\ tzi.DaylightBias \in Int
  BY DEF UsualRules
<1>3. x + EPOCH \in Int /\ EPOCH \in Int /\ x \in Int
  BY WordsAre DEF Longs
<1>4. local \in Int
  BY <1>2, <1>3 DEF LocalOf, SystemTimeToTzSpecificLocalTime
<1>5. wYear(local) \in Int
  BY <1>4, YearIs
<1>6. 0 <= local /\ wYear(local) <= MAX_YEAR
  BY <1>1, <1>4, <1>5, WordsAre
<1>7. /\ st = [wYear |-> r.year, rest |-> r.rest]
      /\ IsSystemTime(st) /\ st.wYear >= FIRST_YEAR /\ Seconds(st) = local
  BY <1>1, <1>4, <1>6, ReadBack
<1>8. st.wYear \in Int
  <2>1. st.wYear = r.year
    BY <1>7
  <2>2. r.year = 1900 + (wYear(local) - 1900)
    BY <1>1 DEF Shown, Representation
  <2> QED BY <1>5, <2>1, <2>2
<1>9. RulesOf(zone, st.wYear) = tzi /\ ~Unknown(zone)
  BY <1>8 DEF HasRules
<1>10. ~(st.wYear < FIRST_YEAR)
  BY <1>7, <1>8 DEF FIRST_YEAR
<1>11. dt_representation_to_timestamp(r, zone) = {Told(s) : s \in taken}
  BY <1>7, <1>9, <1>10 DEF dt_representation_to_timestamp
<1> HIDE DEF st, Told
<1>12. PICK s \in taken : answer = Told(s)
  BY <1>11
<1>13. x + EPOCH \in taken /\ s \in Int /\ SystemTimeToTzSpecificLocalTime(tzi, s) = local
  <2> DEFINE b == tzi.Bias
             d == tzi.DaylightBias
             readings == {local + b, local + b + d}
             right == {u \in readings : SystemTimeToTzSpecificLocalTime(tzi, u) = local}
  <2>1. local = (x + EPOCH) - b - IF IsDaylight(tzi, x + EPOCH) THEN d ELSE 0
    BY DEF LocalOf, SystemTimeToTzSpecificLocalTime
  <2>2. x + EPOCH \in readings
    <3> HIDE DEF local, b, d
    <3> QED BY <1>2, <1>3, <1>4, <2>1 DEF b, d
  <2>3. SystemTimeToTzSpecificLocalTime(tzi, x + EPOCH) = local
    BY DEF LocalOf
  <2> HIDE DEF local
  <2>4. x + EPOCH \in right
    BY <2>2, <2>3
  <2>5. taken = right
    BY <2>4 DEF TzSpecificLocalTimeToSystemTime
  <2>6. s \in readings /\ SystemTimeToTzSpecificLocalTime(tzi, s) = local
    BY <1>12, <2>5
  <2> QED BY <1>2, <1>4, <2>4, <2>5, <2>6
<1>14. s - EPOCH \in Longs
  <2>1. Seconds([wYear |-> r.year, rest |-> r.rest]) = local
    BY <1>7
  <2>2. (x + EPOCH) - EPOCH \in Longs
    <3>1. (x + EPOCH) - EPOCH = x
      BY <1>3
    <3> QED BY <3>1
  <2>3. SystemTimeToTzSpecificLocalTime(tzi, x + EPOCH) = local
    BY DEF LocalOf
  <2> HIDE DEF local
  <2> QED BY <1>12, <1>13, <2>1, <2>2, <2>3 DEF UsualRules
<1> DEFINE y == s - EPOCH
<1>15. y \in Int /\ y + EPOCH = s /\ y <= LONG_MAX /\ -LONG_MAX - 1 <= y
  BY <1>3, <1>13, <1>14, WordsAre DEF Longs
<1>16. 0 <= s /\ s <= LONG_MAX + EPOCH
  BY <1>3, <1>13, <1>15, WordsAre
<1>17. wYear(s) <= MAX_YEAR
  <2>1. s \div YEAR <= (LONG_MAX + EPOCH) \div YEAR
    BY <1>3, <1>13, <1>16, WordsAre, QuotientGrows
  <2>2. s \div YEAR \in Int /\ (LONG_MAX + EPOCH) \div YEAR \in Int /\ LONG_MAX + EPOCH \in Int
    <3>1. LONG_MAX + EPOCH \in Int
      BY WordsAre
    <3> QED BY <1>13, <3>1, YearIs
  <2>3. wYear(LONG_MAX + EPOCH) <= MAX_YEAR
    BY DEF WideTicks
  <2> DEFINE a == s \div YEAR
             c == (LONG_MAX + EPOCH) \div YEAR
  <2>4. wYear(s) = 1601 + a /\ wYear(LONG_MAX + EPOCH) = 1601 + c
    BY DEF wYear, FIRST_YEAR
  <2> HIDE DEF a, c
  <2> QED BY <2>1, <2>2, <2>3, <2>4, WordsAre DEF a, c
<1>18. SystemTimeToUnixTime(s) = y
  BY <1>13, UnixTimeIs
<1>19. Shows(zone, y, r)
  <2>1. LocalOf(tzi, y) = local
    <3>1. LocalOf(tzi, y) = SystemTimeToTzSpecificLocalTime(tzi, s)
      BY <1>15 DEF LocalOf
    <3> QED BY <1>13, <3>1
  <2>2. y \in Longs
    BY <1>14
  <2> HIDE DEF local, y
  <2> QED BY <1>1, <2>1, <2>2, ShownIs DEF local
<1>20. y # -1
  BY <1>19
<1>21. Told(s) = OK(y)
  <2>1. dt_posix_time_to_timestamp(y) = OK(CastLong(y))
    BY <1>20 DEF dt_posix_time_to_timestamp
  <2>2. CastLong(y) = y
    BY <1>14, CastIs
  <2> HIDE DEF y
  <2> QED BY <1>16, <1>17, <1>18, <2>1, <2>2 DEF Told
<1> HIDE DEF y
<1> QED BY <1>12, <1>19, <1>21 DEF OK

(***************************************************************************)
(* In a zone of the registry, and in that of the system if it has no       *)
(* daylight saving time, a representation with an instant within a long    *)
(* gets one that shows it (dt_win32.c:242-346).                            *)
(***************************************************************************)
THEOREM InstantsAreRight ==
  ASSUME WideTicks, UsualRules
  PROVE  Spec => []InstantRightIfAny
<1>1. Init => RuleInv
  BY DEF Init, RuleInv
<1>2. LeakInv => FlowInv
  BY DEF LeakInv
<1>3. LeakInv /\ RuleInv /\ [Next]_vars => RuleInv'
  BY <1>2, RulesStay
<1>4. ASSUME FlowInv, RuleInv PROVE InstantRightIfAny
  <2> SUFFICES ASSUME owned, NEW zone \in {HERE, timezone}, NEW r \in Representations,
                      NEW answer \in dt_representation_to_timestamp(r, zone),
                      zone # HERE \/ ~HasDaylight(LocalRules),
                      NEW x \in Longs, Shows(zone, x, r), ~Shows(zone, -1, r)
               PROVE  answer.status = "DT_OK" /\ Shows(zone, answer.value, r)
    BY DEF InstantRightIfAny
  <2>1. ~Unknown(zone)
    BY DEF Unknown, GetTimeZoneInformation
  <2>2. \E tzi \in AllRules : HasRules(zone, tzi)
    <3>1. CASE zone = HERE
      BY <2>1, <3>1 DEF AllRules, HasRules, RulesOf
    <3>2. CASE zone # HERE
      <4>1. zone = timezone /\ timezone.reg_tz_data = <<>>
        BY <1>4, <3>2 DEF FlowInv
      <4>2. \A year \in Int : RulesOf(zone, year) = timezone.dtzi
        BY <3>2, <4>1 DEF RulesOf, GetTimeZoneInformationForYearLower
      <4>3. timezone.dtzi \in AllRules
        BY <1>4, RulesAre DEF RuleInv, AllRules, GetTziFromKey
      <4> QED BY <2>1, <4>2, <4>3 DEF HasRules
    <3> QED BY <3>1, <3>2
  <2>3. PICK tzi \in AllRules : HasRules(zone, tzi)
    BY <2>2
  <2> QED BY <2>3, AnswersAreRight
<1> QED
  BY <1>1, <1>2, <1>3, <1>4, LeakInit, LeakStays, PTL DEF Spec
=============================================================================
