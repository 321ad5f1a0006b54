------------------------- MODULE TzLifetime_proofs -------------------------
(***************************************************************************)
(* Proofs about DtTimezone, for every table, every set of objects, files   *)
(* and names, and any number of lookups: no state is leaked, shared or     *)
(* dangling, and a name never leads to the zone of another.                *)
(***************************************************************************)
EXTENDS TzLifetime, TLAPS

-----------------------------------------------------------------------------
(***************************************************************************)
(* Ownership.  A block beyond those handed out holds nothing, and a lookup *)
(* in progress writes to an object that owns nothing.                      *)
(***************************************************************************)
PcInv ==
  /\ pc \in {"idle", "mapping", "choose"}
  /\ pc # "idle" => tz_name \in Queries /\ target \in TZ \ owned

BlockInv ==
  /\ used \in 0 .. MaxLookups
  /\ state \in [TZ -> Blocks \cup {NULL}]
  /\ DOMAIN heap = Blocks
  /\ \A b \in Blocks : b > used => heap[b] = Freed

OwnerInv ==
  /\ owned \subseteq TZ
  /\ \A t \in owned : state[t] \in 1 .. used

OwnInv == PcInv /\ BlockInv /\ OwnerInv /\ OwnedOnce

(***************************************************************************)
(* At first nothing is owned and every block is free.                      *)
(***************************************************************************)
LEMMA OwnInit == Init => OwnInv
<1> SUFFICES ASSUME Init PROVE OwnInv
  OBVIOUS
<1> USE TimezoneAssumption DEF Init
<1>1. PcInv /\ OwnerInv
  BY DEF PcInv, OwnerInv
<1>2. BlockInv
  BY DEF BlockInv, Blocks
<1>3. OwnedOnce
  BY DEF OwnedOnce, Live, Blocks
<1> QED
  BY <1>1, <1>2, <1>3 DEF OwnInv

(***************************************************************************)
(* A block that holds the zone of a name is not a free one.                *)
(***************************************************************************)
LEMMA HeldIsNotFreed ==
  ASSUME NEW zone, NEW name \in Queries
  PROVE  [zone |-> zone, asked |-> name] # Freed
BY TimezoneAssumption DEF Freed

(***************************************************************************)
(* tz_alloc gives the object of the lookup a block of its own.             *)
(***************************************************************************)
LEMMA LoadedOwns ==
  ASSUME OwnInv, Loaded
  PROVE  OwnInv'
<1> USE TimezoneAssumption
<1> DEFINE b == used + 1
<1>1. /\ pc = "choose" /\ used < MaxLookups /\ used' = b
      /\ heap' = [heap EXCEPT ![b] = [zone |-> tz_alloc(list[Chosen].name), asked |-> tz_name]]
      /\ state' = [state EXCEPT ![target] = b]
      /\ owned' = owned \cup {target}
      /\ pc' = "idle"
  BY DEF Loaded, Return
<1>2. /\ target \in TZ \ owned /\ tz_name \in Queries
      /\ used \in 0 .. MaxLookups /\ b \in Blocks /\ DOMAIN heap = Blocks
      /\ state \in [TZ -> Blocks \cup {NULL}]
  BY <1>1 DEF OwnInv, PcInv, BlockInv, Blocks
<1>3. heap'[b] # Freed /\ \A c \in Blocks \ {b} : heap'[c] = heap[c]
  BY <1>1, <1>2, HeldIsNotFreed
<1>4. state'[target] = b /\ \A t \in TZ \ {target} : state'[t] = state[t]
  BY <1>1, <1>2
<1>5. PcInv'
  BY <1>1 DEF PcInv
<1>6. BlockInv'
  <2>1. \A c \in Blocks : c > used' => heap'[c] = Freed
    BY <1>1, <1>2, <1>3 DEF OwnInv, BlockInv, Blocks
  <2> QED
    BY <1>1, <1>2, <2>1 DEF BlockInv, Blocks
<1>7. OwnerInv'
  BY <1>1, <1>2, <1>4 DEF OwnInv, OwnerInv
<1>8. OwnedOnce'
  <2>1. Live' = Live \cup {b}
    BY <1>1, <1>2, <1>3 DEF Live
  <2>2. {state'[t] : t \in owned'} = {state[t] : t \in owned} \cup {b}
    BY <1>1, <1>2, <1>4 DEF OwnInv, OwnerInv
  <2>3. \A t, u \in owned' : state'[t] = state'[u] => t = u
    <3>1. \A t \in owned : state[t] # b
      BY <1>2 DEF OwnInv, OwnerInv
    <3> QED
      BY <1>1, <1>2, <1>4, <3>1 DEF OwnInv, OwnerInv, OwnedOnce
  <2> QED
    BY <2>1, <2>2, <2>3 DEF OwnInv, OwnedOnce
<1> QED
  BY <1>5, <1>6, <1>7, <1>8 DEF OwnInv

(***************************************************************************)
(* Cleanup frees the block of the object and no other.                     *)
(***************************************************************************)
LEMMA CleanupOwns ==
  ASSUME OwnInv, NEW t \in TZ \cup {NULL}, dt_timezone_cleanup(t)
  PROVE  OwnInv'
<1> USE TimezoneAssumption
<1>1. CASE t = NULL
  <2>1. UNCHANGED <<heap, owned, used, state, target, tz_name>> /\ pc' = "idle"
    BY <1>1 DEF dt_timezone_cleanup, Return, map_vars
  <2> QED
    BY <2>1 DEF OwnInv, PcInv, BlockInv, OwnerInv, OwnedOnce, Live
<1>2. CASE t # NULL
  <2> DEFINE b == state[t]
  <2>1. /\ t \in owned /\ heap' = [heap EXCEPT ![b] = Freed] /\ owned' = owned \ {t}
        /\ pc' = "idle" /\ UNCHANGED <<used, state, target>>
    BY <1>2 DEF dt_timezone_cleanup, Return
  <2>2. b \in Blocks /\ DOMAIN heap = Blocks /\ used \in 0 .. MaxLookups
    BY <2>1 DEF OwnInv, BlockInv, OwnerInv, Blocks
  <2>3. heap'[b] = Freed /\ \A c \in Blocks \ {b} : heap'[c] = heap[c]
    BY <2>1, <2>2
  <2>4. PcInv' /\ OwnerInv'
    BY <2>1 DEF OwnInv, PcInv, OwnerInv
  <2>5. BlockInv'
    BY <2>1, <2>2, <2>3 DEF OwnInv, BlockInv
  <2>6. OwnedOnce'
    <3>1. Live' = Live \ {b}
      BY <2>2, <2>3 DEF Live
    <3>2. {state[u] : u \in owned'} = {state[u] : u \in owned} \ {b}
      BY <2>1 DEF OwnInv, OwnedOnce
    <3> QED
      BY <2>1, <3>1, <3>2 DEF OwnInv, OwnedOnce
  <2> QED
    BY <2>4, <2>5, <2>6 DEF OwnInv
<1> QED
  BY <1>1, <1>2

(***************************************************************************)
(* The other steps of lookups, and the files, change no ownership.         *)
(***************************************************************************)
LEMMA RestOwns ==
  ASSUME OwnInv,
         \/ \E name \in Queries \cup {None}, t \in TZ \cup {NULL} : dt_timezone_lookup(name, t)
         \/ Mapping \/ MappingDone \/ NextAlias \/ OutOfMemory
         \/ \E z \in ZoneFiles : FilesChange(z)
         \/ UNCHANGED vars
  PROVE  OwnInv'
<1>1. UNCHANGED <<state, heap, used, owned>>
  BY DEF dt_timezone_lookup, Mapping, MappingDone, NextAlias, OutOfMemory, FilesChange, vars, tz_vars
<1>2. PcInv'
  <2>1. CASE \E name \in Queries \cup {None}, t \in TZ \cup {NULL} : dt_timezone_lookup(name, t)
    BY <1>1, <2>1 DEF OwnInv, PcInv, dt_timezone_lookup, Return, tzmap_map, map_vars
  <2>2. CASE Mapping
    BY <1>1, <2>2 DEF OwnInv, PcInv, Mapping, MapStep, add_mapping_to_aliases, TableRead, Measure,
                      tzmap_iterate, NoMoreItems, tz_vars
  <2>3. CASE MappingDone
    BY <1>1, <2>3 DEF OwnInv, PcInv, MappingDone, MapReturn, Return
  <2>4. CASE NextAlias \/ OutOfMemory \/ (\E z \in ZoneFiles : FilesChange(z)) \/ UNCHANGED vars
    BY <1>1, <2>4 DEF OwnInv, PcInv, NextAlias, OutOfMemory, FilesChange, Return, vars, map_vars, tz_vars
  <2> QED
    BY <2>1, <2>2, <2>3, <2>4
<1>3. BlockInv' /\ OwnerInv' /\ OwnedOnce'
  BY <1>1 DEF OwnInv, BlockInv, OwnerInv, OwnedOnce, Live
<1> QED
  BY <1>2, <1>3 DEF OwnInv

(***************************************************************************)
(* Whatever a step is, it is one of these.                                 *)
(***************************************************************************)
LEMMA OwnStays ==
  ASSUME OwnInv, [Next]_vars
  PROVE  OwnInv'
<1>1. CASE Loaded
  BY <1>1, LoadedOwns
<1>2. CASE \E t \in TZ \cup {NULL} : dt_timezone_cleanup(t)
  BY <1>2, CleanupOwns
<1> QED
  BY <1>1, <1>2, RestOwns DEF Next, LookupStep

(***************************************************************************)
(* Each object the client holds has a live state of its own, and there is  *)
(* no other, also in the middle of a lookup and after one that failed.     *)
(***************************************************************************)
THEOREM StatesAreOwnedOnce == Spec => []OwnedOnce
<1>1. OwnInv /\ [Next]_vars => OwnInv'
  BY OwnStays
<1>2. OwnInv => OwnedOnce
  BY DEF OwnInv
<1> QED
  BY OwnInit, <1>1, <1>2, PTL DEF Spec

-----------------------------------------------------------------------------
(***************************************************************************)
(* The list.  What insert_alias and insert_mapping do to it: they append   *)
(* what is new, and leave the rest as it is.                               *)
(***************************************************************************)
Unique(s) == \A i, j \in 1 .. Len(s) : s[i] = s[j] => i = j

Extended(old, new, set) ==
  /\ new \in Seq(Aliases) /\ Len(old) <= Len(new)
  /\ \A k \in 1 .. Len(old) : new[k] = old[k]
  /\ \A k \in Len(old) + 1 .. Len(new) : new[k] \in set
  /\ Unique(old) => Unique(new)

(***************************************************************************)
(* What Append does, index by index.                                       *)
(***************************************************************************)
LEMMA AppendIs ==
  ASSUME NEW S, NEW s \in Seq(S), NEW e \in S
  PROVE  /\ Append(s, e) \in Seq(S) /\ Len(s) \in Nat
         /\ Len(Append(s, e)) = Len(s) + 1 /\ Append(s, e)[Len(s) + 1] = e
         /\ \A k \in 1 .. Len(s) : Append(s, e)[k] = s[k]
OBVIOUS

(***************************************************************************)
(* Inserting one alias appends it, unless it is there.                     *)
(***************************************************************************)
LEMMA InsertAlias ==
  ASSUME NEW s \in Seq(Aliases), NEW a \in Aliases
  PROVE  /\ Extended(s, insert_alias(s, a), {a})
         /\ (\A k \in 1 .. Len(s) : s[k] # a) => insert_alias(s, a) = Append(s, a)
<1>1. CASE \E k \in 1 .. Len(s) : s[k] = a
  BY <1>1 DEF insert_alias, Extended
<1>2. CASE ~ \E k \in 1 .. Len(s) : s[k] = a
  BY <1>2 DEF insert_alias, Extended, Unique
<1> QED
  BY <1>1, <1>2

(***************************************************************************)
(* Extensions add up.                                                      *)
(***************************************************************************)
LEMMA ExtendedTwice ==
  ASSUME NEW r \in Seq(Aliases), NEW s, NEW t, NEW A, NEW B,
         Extended(r, s, A), Extended(s, t, B)
  PROVE  Extended(r, t, A \cup B)
<1>1. /\ s \in Seq(Aliases) /\ t \in Seq(Aliases)
      /\ Len(r) \in Nat /\ Len(s) \in Nat /\ Len(t) \in Nat
      /\ Len(r) <= Len(s) /\ Len(s) <= Len(t)
  BY DEF Extended
<1>2. \A k \in 1 .. Len(r) : t[k] = r[k]
  BY <1>1 DEF Extended
<1>3. \A k \in Len(r) + 1 .. Len(t) : t[k] \in A \cup B
  <2> SUFFICES ASSUME NEW k \in Len(r) + 1 .. Len(t) PROVE t[k] \in A \cup B
    OBVIOUS
  <2>1. CASE k <= Len(s)
    BY <1>1, <2>1 DEF Extended
  <2>2. CASE k > Len(s)
    BY <1>1, <2>2 DEF Extended
  <2> QED
    BY <1>1, <2>1, <2>2
<1> QED
  BY <1>1, <1>2, <1>3 DEF Extended

(***************************************************************************)
(* The three aliases of a row are of three kinds, and so three.            *)
(***************************************************************************)
LEMMA RowHasThree ==
  ASSUME NEW i \in Rows
  PROVE  LET r == tz_unicode_map[i]
         IN  /\ {Windows(r), Olsen(r), Territory(r)} \subseteq Aliases
             /\ RowAliases(r) = {Windows(r), Olsen(r), Territory(r)}
             /\ Windows(r).kind = "DT_TZMAP_WIN_STANDARD_TIME"
             /\ Olsen(r).kind = "DT_TZMAP_OLSEN_NAME" /\ Olsen(r).name = r.type
             /\ Territory(r).kind = "DT_TZMAP_ABBREVIATION"
BY DEF Aliases, RowAliases, Windows, Olsen, Territory, Alias

(***************************************************************************)
(* A row adds nothing but aliases of its own, and all of them to a list    *)
(* that is empty, in the order in which a lookup wants them.               *)
(***************************************************************************)
LEMMA InsertMapping ==
  ASSUME NEW s \in Seq(Aliases), NEW i \in Rows
  PROVE  LET r == tz_unicode_map[i]
             m == insert_mapping(s, r)
         IN  /\ Extended(s, m, RowAliases(r))
             /\ s = <<>> => Len(m) >= 2 /\ m[1] = Windows(r) /\ m[2] = Olsen(r)
<1> DEFINE r == tz_unicode_map[i]
           s1 == insert_alias(s, Windows(r))
           s2 == insert_alias(s1, Olsen(r))
           m  == insert_alias(s2, Territory(r))
<1>1. insert_mapping(s, r) = m
  BY DEF insert_mapping
<1>2. Extended(s, s1, {Windows(r)}) /\ s1 \in Seq(Aliases)
  BY RowHasThree, InsertAlias DEF Extended
<1> HIDE DEF s1
<1>3. Extended(s1, s2, {Olsen(r)}) /\ s2 \in Seq(Aliases)
  BY <1>2, RowHasThree, InsertAlias DEF Extended
<1> HIDE DEF s2
<1>4. Extended(s2, m, {Territory(r)})
  BY <1>3, RowHasThree, InsertAlias
<1> HIDE DEF m
<1>5. Extended(s, m, RowAliases(r))
  <2>1. Extended(s, s2, {Windows(r)} \cup {Olsen(r)})
    BY <1>2, <1>3, ExtendedTwice
  <2>2. Extended(s, m, ({Windows(r)} \cup {Olsen(r)}) \cup {Territory(r)})
    BY <2>1, <1>4, ExtendedTwice
  <2>3. ({Windows(r)} \cup {Olsen(r)}) \cup {Territory(r)} = RowAliases(r)
    BY DEF RowAliases
  <2> QED
    BY <2>2, <2>3
<1>6. ASSUME s = <<>> PROVE Len(m) >= 2 /\ m[1] = Windows(r) /\ m[2] = Olsen(r)
  <2>1. s1 = Append(s, Windows(r))
    <3>1. \A k \in 1 .. Len(s) : s[k] # Windows(r)
      BY <1>6
    <3>2. Windows(r) \in Aliases
      BY RowHasThree
    <3> QED
      BY <3>1, <3>2, InsertAlias DEF s1
  <2>2. Len(s1) = 1 /\ s1[1] = Windows(r)
    BY <2>1, <1>6
  <2>3. s2 = Append(s1, Olsen(r))
    <3>1. \A k \in 1 .. Len(s1) : s1[k] # Olsen(r)
      BY <2>2, RowHasThree
    <3>2. Olsen(r) \in Aliases
      BY RowHasThree
    <3>3. insert_alias(s1, Olsen(r)) = Append(s1, Olsen(r))
      BY <3>1, <3>2, <1>2, InsertAlias
    <3> QED
      BY <3>3 DEF s2
  <2>4. Len(s2) = 2 /\ s2[1] = Windows(r) /\ s2[2] = Olsen(r)
    <3>1. s1 \in Seq(Aliases) /\ Olsen(r) \in Aliases
      BY <1>2, RowHasThree
    <3>2. /\ Len(s2) = Len(s1) + 1 /\ s2[Len(s1) + 1] = Olsen(r)
          /\ \A k \in 1 .. Len(s1) : s2[k] = s1[k]
      BY <2>3, <3>1, AppendIs, Zenon
    <3> QED
      BY <2>2, <3>2
  <2> QED
    BY <2>4, <1>4, <1>3, SMTT(30) DEF Extended
<1> QED
  BY <1>1, <1>5, <1>6

-----------------------------------------------------------------------------
(***************************************************************************)
(* Mapping.  The first row that mentions the name asked for is the first   *)
(* one inserted; until then the list is empty and the iterator has not     *)
(* moved, and rows are looked up for the name itself.                      *)
(***************************************************************************)
FirstRow(i) ==
  /\ i \in Rows /\ Matches(tz_unicode_map[i], tz_name)
  /\ \A j \in 1 .. i - 1 : ~Matches(tz_unicode_map[j], tz_name)

StartsWith(i) ==
  Len(list) >= 2 /\ list[1] = Windows(tz_unicode_map[i]) /\ list[2] = Olsen(tz_unicode_map[i])

FirstInv ==
  /\ list = <<>> => /\ it \in {TZMAP_BEGIN, NO_NODE}
                    /\ wanted \in {tz_name, None}
                    /\ wanted # None => \A j \in 1 .. row - 1 : ~Matches(tz_unicode_map[j], tz_name)
  /\ list # <<>> => \E i \in Rows : FirstRow(i) /\ StartsWith(i)

ListInv ==
  /\ list \in Seq(Aliases)
  /\ row \in Nat \ {0}
  /\ it \in {TZMAP_BEGIN, NO_NODE} \cup 1 .. Len(list)
  /\ wanted # None => wanted \in NamesTo(Len(list))

MapInv == ListInv /\ FirstInv /\ NoDuplicates /\ Related

(***************************************************************************)
(* The names of a list that grows do not become fewer, and those of its    *)
(* beginning stay what they are.                                           *)
(***************************************************************************)
LEMMA NamesGrow ==
  ASSUME list \in Seq(Aliases), NEW set, Extended(list, list', set), tz_name' = tz_name,
         NEW k \in 0 .. Len(list')
  PROVE  /\ k <= Len(list) => NamesTo(k)' = NamesTo(k)
         /\ k >= Len(list) => NamesTo(Len(list)) \subseteq NamesTo(k)'
<1>1. Len(list) \in Nat /\ Len(list') \in Nat /\ \A j \in 1 .. Len(list) : list'[j] = list[j]
  BY DEF Extended
<1>2. ASSUME k <= Len(list) PROVE NamesTo(k)' = NamesTo(k)
  <2>1. {i \in 1 .. k : list'[i].kind # "DT_TZMAP_ABBREVIATION"}
          = {i \in 1 .. k : list[i].kind # "DT_TZMAP_ABBREVIATION"}
    BY <1>1, <1>2
  <2> QED
    BY <1>1, <1>2, <2>1 DEF NamesTo
<1>3. ASSUME k >= Len(list) PROVE NamesTo(Len(list)) \subseteq NamesTo(k)'
  BY <1>1, <1>3 DEF NamesTo
<1> QED
  BY <1>2, <1>3

(***************************************************************************)
(* A turn of the loop over the table.                                      *)
(***************************************************************************)
LEMMA RowKeepsMap ==
  ASSUME MapInv, add_mapping_to_aliases
  PROVE  MapInv'
<1> DEFINE r == tz_unicode_map[row]
<1>1. /\ wanted # None /\ row \in Rows /\ row' = row + 1
      /\ UNCHANGED <<tz_name, it, size, wanted, map_pc>>
      /\ list \in Seq(Aliases) /\ row \in Nat \ {0} /\ Rows \subseteq Nat
  BY TableAssumption DEF add_mapping_to_aliases, MapInv, ListInv, Rows
<1>2. CASE ~Matches(r, wanted)
  <2>1. list' = list
    BY <1>2 DEF add_mapping_to_aliases
  <2>2. ListInv' /\ NoDuplicates' /\ Related'
    BY <1>1, <2>1 DEF MapInv, ListInv, NoDuplicates, Related, NamesTo
  <2>3. FirstInv'
    <3>1. CASE list = <<>>
      <4>1. wanted = tz_name
        BY <1>1, <3>1 DEF MapInv, FirstInv
      <4>2. \A j \in 1 .. row' - 1 : ~Matches(tz_unicode_map[j], tz_name)
        BY <1>1, <1>2, <3>1, <4>1 DEF MapInv, FirstInv
      <4> QED
        BY <1>1, <2>1, <3>1, <4>2 DEF MapInv, FirstInv
    <3>2. CASE list # <<>>
      BY <1>1, <2>1, <3>2 DEF MapInv, FirstInv, FirstRow, StartsWith
    <3> QED
      BY <3>1, <3>2
  <2> QED
    BY <2>2, <2>3 DEF MapInv
<1>3. CASE Matches(r, wanted)
  <2>1. list' = insert_mapping(list, r)
    BY <1>3 DEF add_mapping_to_aliases
  <2>2. /\ Extended(list, list', RowAliases(r))
        /\ list = <<>> => Len(list') >= 2 /\ list'[1] = Windows(r) /\ list'[2] = Olsen(r)
    BY <1>1, <2>1, InsertMapping
  <2>3. /\ list' \in Seq(Aliases) /\ Len(list) \in Nat /\ Len(list') \in Nat
        /\ Len(list) <= Len(list') /\ \A k \in 1 .. Len(list) : list'[k] = list[k]
    BY <1>1, <2>2 DEF Extended
  <2>4. wanted \in NamesTo(Len(list))
    BY <1>1 DEF MapInv, ListInv
  <2>5. \A k \in 0 .. Len(list') : /\ k <= Len(list) => NamesTo(k)' = NamesTo(k)
                                   /\ k >= Len(list) => NamesTo(Len(list)) \subseteq NamesTo(k)'
    BY <1>1, <2>2, NamesGrow
  <2>6. ListInv'
    <3>1. \A k \in 0 .. Len(list') : k >= Len(list) => wanted \in NamesTo(k)'
      BY <2>4, <2>5
    <3>2. wanted' \in NamesTo(Len(list))'
      BY <1>1, <2>3, <3>1 DEF NamesTo
    <3>3. it' \in {TZMAP_BEGIN, NO_NODE} \cup 1 .. Len(list')
      BY <1>1, <2>3 DEF MapInv, ListInv
    <3> QED
      BY <1>1, <2>3, <3>2, <3>3 DEF ListInv
  <2>7. FirstInv'
    <3>1. list' # <<>>
      BY <2>2, <2>3 DEF MapInv, FirstInv, StartsWith
    <3>2. CASE list = <<>>
      <4>1. wanted = tz_name /\ \A j \in 1 .. row - 1 : ~Matches(tz_unicode_map[j], tz_name)
        BY <1>1, <3>2 DEF MapInv, FirstInv
      <4>2. \A i \in Rows : i = row => FirstRow(i)' /\ StartsWith(i)'
        BY <1>1, <1>3, <2>2, <3>2, <4>1 DEF FirstRow, StartsWith
      <4> QED
        BY <1>1, <3>1, <4>2 DEF FirstInv
    <3>3. CASE list # <<>>
      <4>1. PICK i \in Rows : FirstRow(i) /\ StartsWith(i)
        BY <3>3 DEF MapInv, FirstInv
      <4>2. FirstRow(i)' /\ StartsWith(i)'
        BY <1>1, <2>3, <4>1 DEF FirstRow, StartsWith
      <4> QED
        BY <3>1, <4>2 DEF FirstInv
    <3> QED
      BY <3>2, <3>3
  <2>8. NoDuplicates'
    BY <2>2 DEF MapInv, NoDuplicates, Extended, Unique
  <2>9. Related'
    <3> SUFFICES ASSUME NEW k \in 1 .. Len(list')
                 PROVE  \E i \in Rows :
                          /\ list'[k] \in RowAliases(tz_unicode_map[i])
                          /\ \E name \in NamesTo(k - 1)' : Matches(tz_unicode_map[i], name)
      BY DEF Related, NamesTo
    <3>1. CASE k <= Len(list)
      <4>1. list'[k] = list[k] /\ NamesTo(k - 1)' = NamesTo(k - 1)
        BY <2>3, <2>5, <3>1
      <4> QED
        BY <2>3, <3>1, <4>1 DEF MapInv, Related
    <3>2. CASE k > Len(list)
      <4>1. list'[k] \in RowAliases(r)
        BY <2>2, <2>3, <3>2 DEF Extended
      <4>2. wanted \in NamesTo(k - 1)'
        BY <2>3, <2>4, <2>5, <3>2
      <4> QED
        BY <1>1, <1>3, <4>1, <4>2
    <3> QED
      BY <2>3, <3>1, <3>2
  <2> QED
    BY <2>6, <2>7, <2>8, <2>9 DEF MapInv
<1> QED
  BY <1>2, <1>3

(***************************************************************************)
(* The other steps of tzmap_map, and its return.                           *)
(***************************************************************************)
LEMMA IterationKeepsMap ==
  ASSUME MapInv, TableRead \/ Measure \/ tzmap_iterate \/ NoMoreItems \/ MapReturn
  PROVE  MapInv'
<1>1. list' = list /\ tz_name' = tz_name /\ list \in Seq(Aliases)
  BY DEF TableRead, Measure, tzmap_iterate, NoMoreItems, MapReturn, MapInv, ListInv
<1>2. NoDuplicates' /\ Related'
  BY <1>1 DEF MapInv, NoDuplicates, Related, NamesTo
<1>3. CASE TableRead \/ Measure \/ NoMoreItems \/ MapReturn
  <2>1. row' = row /\ it' \in {it, NO_NODE} /\ wanted' \in {wanted, None}
    BY <1>3 DEF TableRead, Measure, NoMoreItems, MapReturn
  <2>2. ListInv'
    BY <1>1, <2>1 DEF MapInv, ListInv, NamesTo
  <2>3. FirstInv'
    BY <1>1, <2>1 DEF MapInv, FirstInv, FirstRow, StartsWith
  <2> QED
    BY <1>2, <2>2, <2>3 DEF MapInv
<1>4. CASE tzmap_iterate
  <2> DEFINE n == Node(list, it)
  <2>1. /\ n # NO_NODE /\ it' = After(list, n) /\ row' = 1
        /\ wanted' = IF list[n].kind = "DT_TZMAP_ABBREVIATION" \/ list[n].name = tz_name
                     THEN None ELSE list[n].name
    BY <1>4 DEF tzmap_iterate
  <2>2. list # <<>> /\ n \in 1 .. Len(list)
    BY <1>1, <2>1 DEF MapInv, ListInv, FirstInv, Node, NO_NODE, TZMAP_BEGIN
  <2>3. it' \in {NO_NODE} \cup 1 .. Len(list)
    BY <2>1, <2>2, <1>1 DEF After, NO_NODE
  <2>4. wanted' # None => wanted' \in NamesTo(Len(list))
    BY <1>1, <2>1, <2>2 DEF NamesTo
  <2>5. ListInv'
    BY <1>1, <2>1, <2>3, <2>4 DEF ListInv, NamesTo
  <2>6. FirstInv'
    BY <1>1, <2>2 DEF MapInv, FirstInv, FirstRow, StartsWith
  <2> QED
    BY <1>2, <2>5, <2>6 DEF MapInv
<1> QED
  BY <1>3, <1>4

(***************************************************************************)
(* A new collection is empty.                                              *)
(***************************************************************************)
LEMMA NewMap ==
  ASSUME NEW name, tzmap_map(name)
  PROVE  MapInv'
<1>1. /\ tz_name' = name /\ list' = <<>> /\ it' = TZMAP_BEGIN /\ wanted' = name /\ row' = 1
  BY DEF tzmap_map
<1> QED
  BY <1>1 DEF MapInv, ListInv, FirstInv, NoDuplicates, Related, NamesTo

(***************************************************************************)
(* Whatever a step of the system is, it is one of these for the map.       *)
(***************************************************************************)
LEMMA MapStays ==
  ASSUME MapInv, [Next]_vars
  PROVE  MapInv'
<1>1. CASE UNCHANGED map_vars
  BY <1>1 DEF map_vars, MapInv, ListInv, FirstInv, FirstRow, StartsWith, NoDuplicates, Related, NamesTo
<1>2. CASE \E name \in Queries \cup {None}, t \in TZ \cup {NULL} : dt_timezone_lookup(name, t)
  <2>1. PICK name \in Queries \cup {None}, t \in TZ \cup {NULL} : dt_timezone_lookup(name, t)
    BY <1>2
  <2>2. UNCHANGED map_vars \/ tzmap_map(name)
    BY <2>1 DEF dt_timezone_lookup
  <2> QED
    BY <1>1, <2>2, NewMap
<1>3. CASE Mapping
  BY <1>3, RowKeepsMap, IterationKeepsMap DEF Mapping, MapStep
<1>4. CASE MappingDone
  BY <1>4, IterationKeepsMap DEF MappingDone
<1>5. CASE \/ NextAlias \/ Loaded \/ OutOfMemory
           \/ \E t \in TZ \cup {NULL} : dt_timezone_cleanup(t)
           \/ \E z \in ZoneFiles : FilesChange(z)
           \/ UNCHANGED vars
  BY <1>1, <1>5 DEF NextAlias, Loaded, OutOfMemory, dt_timezone_cleanup, FilesChange, vars
<1> QED
  BY <1>2, <1>3, <1>4, <1>5 DEF Next, LookupStep

(***************************************************************************)
(* At first the collection is empty.                                       *)
(***************************************************************************)
LEMMA MapStarts == Init => MapInv
<1> SUFFICES ASSUME Init PROVE MapInv
  OBVIOUS
<1>1. tz_name = None /\ list = <<>> /\ it = TZMAP_BEGIN /\ wanted = None /\ row = 1
  BY DEF Init, MapInit
<1> QED
  BY <1>1 DEF MapInv, ListInv, FirstInv, NoDuplicates, Related, NamesTo

(***************************************************************************)
(* In every collection an alias is once, and comes from a row of the name  *)
(* or of a name that is in the collection already: two of the three parts  *)
(* of CollectionRight, for every table.                                    *)
(***************************************************************************)
THEOREM CollectionsAreRelated == Spec => [](NoDuplicates /\ Related)
<1>1. MapInv /\ [Next]_vars => MapInv'
  BY MapStays
<1>2. MapInv => NoDuplicates /\ Related
  BY DEF MapInv
<1> QED
  BY MapStarts, <1>1, <1>2, PTL DEF Spec

-----------------------------------------------------------------------------
(***************************************************************************)
(* The collection as a whole.  All rows of the name asked for are in it    *)
(* once the table has been read for it, and all rows of its Windows name   *)
(* once it has been read for the first node.                               *)
(***************************************************************************)
Items(s) == {s[k] : k \in 1 .. Len(s)}

In(j) == RowAliases(tz_unicode_map[j]) \subseteq Items(list)

AllIn == \A j \in Rows : Matches(tz_unicode_map[j], tz_name) => In(j)

SameWindows(i, j) == tz_unicode_map[j].other = tz_unicode_map[i].other

Complete == \A i, j \in Rows : FirstRow(i) /\ SameWindows(i, j) => In(j)

BeingCompleted ==
  /\ wanted # None
  /\ \A i \in Rows : FirstRow(i) =>
       /\ wanted = tz_unicode_map[i].other
       /\ \A j \in Rows : j < row /\ SameWindows(i, j) => In(j)

CompletionInv ==
  /\ it = TZMAP_BEGIN => size = 0 /\ wanted \in {tz_name, None}
  /\ it = TZMAP_BEGIN /\ wanted # None =>
       \A j \in Rows : j < row /\ Matches(tz_unicode_map[j], tz_name) => In(j)
  /\ it # TZMAP_BEGIN \/ wanted = None => AllIn
  /\ it # TZMAP_BEGIN => Complete \/ BeingCompleted
  /\ Mapped => wanted = None /\ AllIn /\ Complete

(* All names of the collection lead to one Windows name.                   *)
KinInv ==
  \A f \in Rows, k \in 1 .. Len(list), j \in Rows :
    /\ FirstRow(f) /\ list[k].kind # "DT_TZMAP_ABBREVIATION"
    /\ Matches(tz_unicode_map[j], list[k].name)
    => SameWindows(f, j)

(***************************************************************************)
(* What is inserted is there afterwards, and so is what was there before.  *)
(***************************************************************************)
LEMMA ExtendedKeeps ==
  ASSUME NEW s \in Seq(Aliases), NEW t, NEW A, Extended(s, t, A)
  PROVE  Items(s) \subseteq Items(t)
<1>1. Len(s) \in Nat /\ Len(t) \in Nat
  BY DEF Extended
<1> QED BY <1>1 DEF Extended, Items

(***************************************************************************)
(* The alias that is inserted is in the list afterwards.                   *)
(***************************************************************************)
LEMMA InsertHas ==
  ASSUME NEW s \in Seq(Aliases), NEW a \in Aliases
  PROVE  a \in Items(insert_alias(s, a))
<1>1. CASE \E k \in 1 .. Len(s) : s[k] = a
  BY <1>1 DEF insert_alias, Items
<1>2. CASE ~ \E k \in 1 .. Len(s) : s[k] = a
  <2>1. insert_alias(s, a) = Append(s, a)
    BY <1>2 DEF insert_alias
  <2>2. Len(s) + 1 \in 1 .. Len(Append(s, a)) /\ Append(s, a)[Len(s) + 1] = a
    BY AppendIs
  <2> QED BY <2>1, <2>2 DEF Items
<1> QED BY <1>1, <1>2

(***************************************************************************)
(* All three aliases of a row are there when it has been inserted.         *)
(***************************************************************************)
LEMMA MappingHas ==
  ASSUME NEW s \in Seq(Aliases), NEW i \in Rows
  PROVE  RowAliases(tz_unicode_map[i]) \subseteq Items(insert_mapping(s, tz_unicode_map[i]))
<1> DEFINE r == tz_unicode_map[i]
           s1 == insert_alias(s, Windows(r))
           s2 == insert_alias(s1, Olsen(r))
           m  == insert_alias(s2, Territory(r))
<1>0. Windows(r) \in Aliases /\ Olsen(r) \in Aliases /\ Territory(r) \in Aliases
  BY RowHasThree
<1>1. s1 \in Seq(Aliases) /\ Windows(r) \in Items(s1)
  BY <1>0, InsertAlias, InsertHas DEF Extended
<1>2. insert_mapping(s, r) = m
  BY DEF insert_mapping
<1> HIDE DEF s1
<1>3. s2 \in Seq(Aliases) /\ Olsen(r) \in Items(s2) /\ Extended(s1, s2, {Olsen(r)})
  BY <1>0, <1>1, InsertAlias, InsertHas DEF Extended
<1> HIDE DEF s2
<1>4. Territory(r) \in Items(m) /\ Extended(s2, m, {Territory(r)})
  BY <1>0, <1>3, InsertAlias, InsertHas
<1> HIDE DEF m
<1>5. Items(s1) \subseteq Items(s2) /\ Items(s2) \subseteq Items(m)
  BY <1>1, <1>3, <1>4, ExtendedKeeps
<1> HIDE DEF r
<1>6. RowAliases(r) \subseteq Items(m)
  BY <1>1, <1>3, <1>4, <1>5 DEF RowAliases
<1> QED BY <1>2, <1>6 DEF r

(***************************************************************************)
(* In an empty collection there is no row, and the first row is one.       *)
(***************************************************************************)
LEMMA EmptyIsComplete ==
  ASSUME list = <<>>, AllIn
  PROVE  Complete
<1>1. \A j \in Rows : ~In(j)
  BY DEF In, Items, RowAliases
<1> QED BY <1>1 DEF AllIn, Complete, FirstRow

(***************************************************************************)
(* The first row found is one of the rows.                                 *)
(***************************************************************************)
LEMMA FirstIsOne ==
  ASSUME NEW i \in Rows, NEW j \in Rows, FirstRow(i), FirstRow(j)
  PROVE  i = j
<1>1. i \in Nat /\ j \in Nat /\ 1 <= i /\ 1 <= j
  BY TableAssumption DEF Rows
<1>2. ~(i < j) /\ ~(j < i)
  BY <1>1 DEF FirstRow
<1> QED BY <1>1, <1>2

(***************************************************************************)
(* A turn of the loop over the table.                                      *)
(***************************************************************************)
LEMMA RowKeepsCompletion ==
  ASSUME MapInv, CompletionInv, add_mapping_to_aliases
  PROVE  CompletionInv'
<1> DEFINE r == tz_unicode_map[row]
<1>1. /\ wanted # None /\ row \in Rows /\ row' = row + 1
      /\ UNCHANGED <<tz_name, it, size, wanted, map_pc>>
      /\ list \in Seq(Aliases) /\ row \in Nat \ {0} /\ Rows \subseteq Nat
  BY TableAssumption DEF add_mapping_to_aliases, MapInv, ListInv, Rows
<1>2. Items(list) \subseteq Items(list') /\ (Matches(r, wanted) => RowAliases(r) \subseteq Items(list'))
  <2>1. CASE ~Matches(r, wanted)
    BY <2>1 DEF add_mapping_to_aliases
  <2>2. CASE Matches(r, wanted)
    <3>1. list' = insert_mapping(list, r)
      BY <2>2 DEF add_mapping_to_aliases
    <3>2. Extended(list, list', RowAliases(r))
      BY <1>1, <3>1, InsertMapping
    <3>3. Items(list) \subseteq Items(list')
      BY <1>1, <3>2, ExtendedKeeps
    <3>4. RowAliases(r) \subseteq Items(list')
      BY <1>1, <3>1, MappingHas
    <3> QED BY <3>3, <3>4
  <2> QED BY <2>1, <2>2
<1>3. /\ \A j \in Rows : In(j) => In(j)'
      /\ \A j \in Rows : j = row /\ Matches(tz_unicode_map[j], wanted) => In(j)'
      /\ \A j \in Rows : FirstRow(j)' = FirstRow(j)
  <2>1. \A j \in Rows : FirstRow(j)' = FirstRow(j)
    BY <1>1 DEF FirstRow
  <2>2. \A j \in Rows : In(j)' = (RowAliases(tz_unicode_map[j]) \subseteq Items(list'))
    BY DEF In, Items
  <2> QED BY <1>2, <2>1, <2>2 DEF In
<1>4. \A j \in Rows : j < row' => j < row \/ j = row
  BY <1>1
<1>5. ~Mapped
  BY <1>1 DEF CompletionInv
<1>6. AllIn => AllIn'
  BY <1>1, <1>3 DEF AllIn
<1>7. Complete => Complete'
  BY <1>1, <1>3 DEF Complete, SameWindows
<1>8. BeingCompleted => BeingCompleted'
  <2> SUFFICES ASSUME BeingCompleted, NEW i \in Rows, FirstRow(i), NEW j \in Rows, j < row', SameWindows(i, j)
               PROVE  In(j)'
    BY <1>1, <1>3 DEF BeingCompleted, SameWindows
  <2>1. wanted = tz_unicode_map[i].other
    BY DEF BeingCompleted
  <2>2. CASE j < row
    BY <1>3, <2>2 DEF BeingCompleted
  <2>3. CASE j = row
    BY <1>3, <2>1, <2>3 DEF Matches, SameWindows
  <2> QED BY <1>4, <2>2, <2>3
<1>9. it = TZMAP_BEGIN =>
        /\ size = 0 /\ wanted = tz_name
        /\ \A j \in Rows : j < row' /\ Matches(tz_unicode_map[j], tz_name) => In(j)'
  BY <1>1, <1>3, <1>4 DEF CompletionInv
<1>10. it # TZMAP_BEGIN => AllIn /\ (Complete \/ BeingCompleted)
  BY DEF CompletionInv
<1> QED BY <1>1, <1>5, <1>6, <1>7, <1>8, <1>9, <1>10 DEF CompletionInv, Mapped

(***************************************************************************)
(* The other steps of tzmap_map, and its return.                           *)
(***************************************************************************)
LEMMA IterationKeepsCompletion ==
  ASSUME MapInv, CompletionInv, TableRead \/ Measure \/ tzmap_iterate \/ NoMoreItems \/ MapReturn
  PROVE  CompletionInv'
<1>1. list' = list /\ tz_name' = tz_name /\ list \in Seq(Aliases) /\ Len(list) \in Nat
  BY DEF TableRead, Measure, tzmap_iterate, NoMoreItems, MapReturn, MapInv, ListInv
<1>2. /\ \A j \in Rows : In(j)' = In(j)
      /\ \A j \in Rows : FirstRow(j)' = FirstRow(j)
      /\ AllIn' = AllIn /\ Complete' = Complete
  BY <1>1 DEF In, FirstRow, AllIn, Complete, SameWindows
<1>3. list = <<>> /\ AllIn => Complete
  BY EmptyIsComplete
<1>4. CASE TableRead
  <2>1. /\ wanted # None /\ row \notin Rows /\ wanted' = None
        /\ UNCHANGED <<it, size, row, map_pc>>
    BY <1>4 DEF TableRead
  <2>2. \A j \in Rows : j < row
    BY <2>1, TableAssumption DEF Rows, MapInv, ListInv
  <2>3. AllIn
    BY <2>1, <2>2 DEF CompletionInv, AllIn
  <2>4. it # TZMAP_BEGIN => Complete
    BY <2>2 DEF CompletionInv, BeingCompleted, Complete
  <2>5. ~Mapped /\ (it = TZMAP_BEGIN => size = 0)
    BY <2>1 DEF CompletionInv
  <2> QED BY <1>2, <2>1, <2>3, <2>4, <2>5 DEF CompletionInv, Mapped
<1>5. CASE Measure
  <2>1. /\ wanted = None /\ UNCHANGED <<it, size, wanted, row>>
        /\ map_pc' = "mapped" => size = Len(list)
    BY <1>5 DEF Measure
  <2>2. AllIn /\ (it # TZMAP_BEGIN => Complete) /\ (it = TZMAP_BEGIN => size = 0)
    BY <2>1 DEF CompletionInv, BeingCompleted
  <2>3. map_pc' = "mapped" => Complete
    BY <1>1, <1>3, <2>1, <2>2
  <2> QED BY <1>2, <2>1, <2>2, <2>3 DEF CompletionInv, Mapped
<1>6. CASE tzmap_iterate
  <2> DEFINE n == Node(list, it)
  <2>1. /\ n # NO_NODE /\ it' = After(list, n) /\ row' = 1 /\ wanted = None /\ map_pc' = "iterate"
        /\ wanted' = IF list[n].kind = "DT_TZMAP_ABBREVIATION" \/ list[n].name = tz_name
                     THEN None ELSE list[n].name
    BY <1>6 DEF tzmap_iterate
  <2>2. list # <<>> /\ n \in 1 .. Len(list)
    BY <1>1, <2>1 DEF MapInv, ListInv, FirstInv, Node, NO_NODE, TZMAP_BEGIN
  <2>3. it' # TZMAP_BEGIN
    BY <1>1, <2>1, <2>2 DEF After, NO_NODE, TZMAP_BEGIN
  <2>4. AllIn
    BY <2>1 DEF CompletionInv
  <2>5. Complete' \/ BeingCompleted'
    <3>1. CASE it # TZMAP_BEGIN
      BY <1>2, <2>1, <3>1 DEF CompletionInv, BeingCompleted
    <3>2. CASE it = TZMAP_BEGIN
      <4>1. n = 1
        BY <2>2, <3>2 DEF Node
      <4>2. PICK i \in Rows : FirstRow(i) /\ StartsWith(i)
        BY <2>2 DEF MapInv, FirstInv
      <4>3. list[1].kind # "DT_TZMAP_ABBREVIATION" /\ list[1].name = tz_unicode_map[i].other
        BY <4>2 DEF StartsWith, Windows, Alias
      <4>4. \A j \in Rows : FirstRow(j) => j = i
        BY <4>2, FirstIsOne
      <4>5. CASE list[1].name = tz_name
        BY <1>2, <2>4, <4>3, <4>4, <4>5 DEF Complete, AllIn, SameWindows, Matches
      <4>6. CASE list[1].name # tz_name
        <5>1. wanted' = tz_unicode_map[i].other /\ tz_unicode_map[i].other # None
          BY <2>1, <4>1, <4>3, <4>6, TableAssumption
        <5>2. \A j \in Rows : ~(j < 1)
          BY TableAssumption DEF Rows
        <5> QED BY <1>2, <2>1, <4>4, <5>1, <5>2 DEF BeingCompleted
      <4> QED BY <4>5, <4>6
    <3> QED BY <3>1, <3>2
  <2> QED BY <1>2, <2>1, <2>3, <2>4, <2>5 DEF CompletionInv, Mapped
<1>7. CASE NoMoreItems
  <2>1. /\ wanted = None /\ Node(list, it) = NO_NODE /\ it' = NO_NODE /\ map_pc' = "measure"
        /\ UNCHANGED <<wanted, row>>
    BY <1>7 DEF NoMoreItems
  <2>2. AllIn
    BY <2>1 DEF CompletionInv
  <2>3. Complete
    <3>1. CASE it # TZMAP_BEGIN
      BY <2>1, <3>1 DEF CompletionInv, BeingCompleted
    <3>2. CASE it = TZMAP_BEGIN
      BY <1>3, <2>1, <2>2, <3>2 DEF Node, NO_NODE
    <3> QED BY <3>1, <3>2
  <2> QED BY <1>2, <2>1, <2>2, <2>3 DEF CompletionInv, Mapped, NO_NODE, TZMAP_BEGIN
<1>8. CASE MapReturn
  <2>1. map_pc' = "idle" /\ UNCHANGED <<it, size, wanted, row>>
    BY <1>8 DEF MapReturn
  <2>2. BeingCompleted' = BeingCompleted
    BY <1>2, <2>1 DEF BeingCompleted, SameWindows
  <2> QED BY <1>1, <1>2, <2>1, <2>2 DEF CompletionInv, Mapped
<1> QED BY <1>4, <1>5, <1>6, <1>7, <1>8

(***************************************************************************)
(* Every alias that comes in leads to the Windows name of the first row,   *)
(* if no name leads to two.                                                *)
(***************************************************************************)
LEMMA RowKeepsKin ==
  ASSUME OneWindowsName, MapInv, KinInv, add_mapping_to_aliases
  PROVE  KinInv'
<1> DEFINE r == tz_unicode_map[row]
<1>1. /\ wanted # None /\ row \in Rows /\ tz_name' = tz_name /\ list \in Seq(Aliases)
      /\ wanted \in NamesTo(Len(list))
  BY DEF add_mapping_to_aliases, MapInv, ListInv
<1>2. \A j \in Rows : FirstRow(j)' = FirstRow(j)
  BY <1>1 DEF FirstRow
<1>3. CASE ~Matches(r, wanted)
  <2>1. list' = list
    BY <1>3 DEF add_mapping_to_aliases
  <2> QED BY <1>2, <2>1 DEF KinInv, SameWindows
<1>4. CASE Matches(r, wanted)
  <2>1. Extended(list, list', RowAliases(r))
    BY <1>1, <1>4, InsertMapping DEF add_mapping_to_aliases
  <2>2. Len(list) \in Nat /\ Len(list') \in Nat /\ \A k \in 1 .. Len(list) : list'[k] = list[k]
    BY <1>1, <2>1 DEF Extended
  <2>3. \A name : \A i, j \in Rows : Matches(tz_unicode_map[i], name) /\ Matches(tz_unicode_map[j], name)
          => SameWindows(i, j)
    BY DEF OneWindowsName, Matches, SameWindows
  <2>4. ASSUME NEW f \in Rows, FirstRow(f) PROVE SameWindows(f, row)
    <3>1. CASE wanted = tz_name
      BY <1>1, <1>4, <2>3, <2>4, <3>1 DEF FirstRow
    <3>2. CASE wanted # tz_name
      <4>1. PICK k \in 1 .. Len(list) : list[k].kind # "DT_TZMAP_ABBREVIATION" /\ wanted = list[k].name
        BY <1>1, <3>2 DEF NamesTo
      <4> QED BY <1>1, <1>4, <2>4, <4>1 DEF KinInv
    <3> QED BY <3>1, <3>2
  <2> SUFFICES ASSUME NEW f \in Rows, NEW k \in 1 .. Len(list'), NEW j \in Rows,
                      FirstRow(f), list'[k].kind # "DT_TZMAP_ABBREVIATION",
                      Matches(tz_unicode_map[j], list'[k].name)
               PROVE  SameWindows(f, j)
    BY <1>2 DEF KinInv, SameWindows
  <2>5. CASE k <= Len(list)
    BY <2>2, <2>5 DEF KinInv
  <2>6. CASE k > Len(list)
    <3>1. list'[k] \in RowAliases(r)
      BY <2>1, <2>2, <2>6 DEF Extended
    <3>2. list'[k].name \in {r.other, r.type}
      BY <3>1 DEF RowAliases, Windows, Olsen, Territory, Alias
    <3>3. SameWindows(row, j)
      BY <1>1, <2>3, <3>2 DEF Matches
    <3> QED BY <2>4, <3>3 DEF SameWindows
  <2> QED BY <2>2, <2>5, <2>6
<1> QED BY <1>3, <1>4

(***************************************************************************)
(* All that is kept about a collection.                                    *)
(***************************************************************************)
ClosedInv == MapInv /\ CompletionInv /\ KinInv

(***************************************************************************)
(* Whatever a step of the system is, it keeps that.                        *)
(***************************************************************************)
LEMMA ClosedStays ==
  ASSUME OneWindowsName, ClosedInv, [Next]_vars
  PROVE  ClosedInv'
<1>0. MapInv /\ CompletionInv /\ KinInv /\ MapInv'
  BY MapStays DEF ClosedInv
<1>1. CASE UNCHANGED map_vars
  <2>1. UNCHANGED <<tz_name, list, it, size, wanted, row, map_pc>>
    BY <1>1 DEF map_vars
  <2>2. CompletionInv'
    BY <1>0, <2>1 DEF CompletionInv, Mapped, AllIn, Complete, BeingCompleted, In, FirstRow, SameWindows
  <2>3. KinInv'
    BY <1>0, <2>1 DEF KinInv, FirstRow, SameWindows
  <2> QED BY <1>0, <2>2, <2>3 DEF ClosedInv
<1>2. CASE \E name \in Queries \cup {None}, t \in TZ \cup {NULL} : dt_timezone_lookup(name, t)
  <2>1. PICK name \in Queries \cup {None}, t \in TZ \cup {NULL} : dt_timezone_lookup(name, t)
    BY <1>2
  <2>2. CASE name = None \/ t = NULL
    <3>1. UNCHANGED map_vars
      BY <2>1, <2>2 DEF dt_timezone_lookup
    <3> QED BY <1>1, <3>1
  <2>3. CASE ~(name = None \/ t = NULL)
    <3>1. /\ tz_name' = name /\ list' = <<>> /\ it' = TZMAP_BEGIN /\ size' = 0 /\ wanted' = name /\ row' = 1
          /\ map_pc' = "measure" /\ name # None
      BY <2>1, <2>3 DEF tzmap_map, dt_timezone_lookup
    <3>2. \A j \in Rows : ~(j < 1)
      BY TableAssumption DEF Rows
    <3>3. CompletionInv'
      BY <3>1, <3>2 DEF CompletionInv, Mapped
    <3>4. KinInv'
      BY <3>1 DEF KinInv
    <3> QED BY <1>0, <3>3, <3>4 DEF ClosedInv
  <2> QED BY <2>2, <2>3
<1>3. CASE add_mapping_to_aliases
  BY <1>0, <1>3, RowKeepsCompletion, RowKeepsKin DEF ClosedInv
<1>4. CASE TableRead \/ Measure \/ tzmap_iterate \/ NoMoreItems \/ MapReturn
  <2>1. CompletionInv'
    BY <1>0, <1>4, IterationKeepsCompletion
  <2>2. list' = list /\ tz_name' = tz_name
    BY <1>4 DEF TableRead, Measure, tzmap_iterate, NoMoreItems, MapReturn
  <2>3. KinInv'
    BY <1>0, <2>2 DEF KinInv, FirstRow, SameWindows
  <2> QED BY <1>0, <2>1, <2>3 DEF ClosedInv
<1>5. CASE Mapping
  BY <1>3, <1>4, <1>5 DEF Mapping, MapStep
<1>6. CASE MappingDone
  BY <1>4, <1>6 DEF MappingDone
<1>7. CASE \/ NextAlias \/ Loaded \/ OutOfMemory
           \/ \E t \in TZ \cup {NULL} : dt_timezone_cleanup(t)
           \/ \E z \in ZoneFiles : FilesChange(z)
           \/ UNCHANGED vars
  BY <1>1, <1>7 DEF NextAlias, Loaded, OutOfMemory, dt_timezone_cleanup, FilesChange, vars
<1> QED
  BY <1>2, <1>5, <1>6, <1>7 DEF Next, LookupStep

(***************************************************************************)
(* At first nothing is asked for.                                          *)
(***************************************************************************)
LEMMA ClosedStarts == Init => ClosedInv
<1> SUFFICES ASSUME Init PROVE ClosedInv
  OBVIOUS
<1>1. /\ tz_name = None /\ list = <<>> /\ it = TZMAP_BEGIN /\ size = 0 /\ wanted = None /\ row = 1
      /\ map_pc = "idle"
  BY DEF Init, MapInit
<1>2. \A j \in Rows : ~Matches(tz_unicode_map[j], None)
  BY TableAssumption DEF Matches
<1>3. AllIn
  BY <1>1, <1>2 DEF AllIn
<1>4. CompletionInv
  BY <1>1, <1>3 DEF CompletionInv, Mapped
<1>5. KinInv
  BY <1>1 DEF KinInv
<1> QED
  BY MapStarts, <1>4, <1>5 DEF ClosedInv

(***************************************************************************)
(* A collection is closed when tzmap_map returns it, although the iterator *)
(* may stop before its end and is not started again: for every table in    *)
(* which no name leads to two Windows names.                               *)
(***************************************************************************)
THEOREM CollectionsAreRight ==
  ASSUME OneWindowsName
  PROVE  Spec => []CollectionRight
<1>1. ClosedInv /\ [Next]_vars => ClosedInv'
  BY ClosedStays
<1>2. ASSUME ClosedInv PROVE CollectionRight
  <2>1. NoDuplicates /\ Related /\ FirstInv /\ CompletionInv /\ KinInv
    BY <1>2 DEF ClosedInv, MapInv
  <2>2. ASSUME Mapped, NEW i \in Rows, NEW name \in NamesTo(Len(list)), Matches(tz_unicode_map[i], name)
        PROVE  In(i)
    <3>1. CASE name = tz_name
      BY <2>1, <2>2, <3>1 DEF CompletionInv, AllIn
    <3>2. CASE name # tz_name
      <4>1. PICK k \in 1 .. Len(list) : list[k].kind # "DT_TZMAP_ABBREVIATION" /\ name = list[k].name
        BY <2>2, <3>2 DEF NamesTo
      <4>2. list # <<>>
        BY <4>1
      <4>3. PICK f \in Rows : FirstRow(f)
        BY <2>1, <4>2 DEF FirstInv
      <4>4. SameWindows(f, i)
        BY <2>1, <2>2, <4>1, <4>3 DEF KinInv
      <4> QED BY <2>1, <2>2, <4>3, <4>4 DEF CompletionInv, Complete
    <3> QED BY <3>1, <3>2
  <2>3. Mapped => Closed
    BY <2>2 DEF Closed, In, Items
  <2> QED BY <2>1, <2>3 DEF CollectionRight
<1> QED
  BY ClosedStarts, <1>1, <1>2, PTL DEF Spec

-----------------------------------------------------------------------------
(***************************************************************************)
(* Zones.  The lookup has no more than two nodes to look at: the Windows   *)
(* name of the first row, and its Olsen name.                              *)
(***************************************************************************)
ZoneInv ==
  /\ pc = "mapping" => cursor = TZMAP_BEGIN
  /\ pc = "choose" => list # <<>> /\ cursor \in {TZMAP_BEGIN, 2}
  /\ RightZone

RightInv == OwnInv /\ MapInv /\ ZoneInv

(***************************************************************************)
(* What the alias is that is loaded: the zone of the first row.            *)
(***************************************************************************)
LEMMA ChosenIsNamed ==
  ASSUME RightInv, pc = "choose"
  PROVE  /\ cursor = TZMAP_BEGIN => /\ Chosen = 1 /\ After(list, Chosen) = 2
                                   /\ list[Chosen].kind = "DT_TZMAP_WIN_STANDARD_TIME"
         /\ cursor = 2 => Chosen = 2 /\ list[Chosen].kind = "DT_TZMAP_OLSEN_NAME"
         /\ list[2].kind = "DT_TZMAP_OLSEN_NAME" => Named(list[2].name, tz_name)
<1>1. list # <<>> /\ list \in Seq(Aliases)
  BY DEF RightInv, ZoneInv, MapInv, ListInv
<1>2. PICK i \in Rows : FirstRow(i) /\ StartsWith(i)
  BY <1>1 DEF RightInv, MapInv, FirstInv
<1>3. /\ Len(list) >= 2 /\ list[1].kind = "DT_TZMAP_WIN_STANDARD_TIME"
      /\ list[2].kind = "DT_TZMAP_OLSEN_NAME" /\ list[2].name = tz_unicode_map[i].type
  BY <1>2, RowHasThree DEF StartsWith
<1>4. Named(list[2].name, tz_name)
  BY <1>2, <1>3 DEF FirstRow, Named
<1> QED
  BY <1>1, <1>3, <1>4 DEF Chosen, Node, After, TZMAP_BEGIN, NO_NODE

(***************************************************************************)
(* The block that is loaded holds the zone of the name asked for, or GMT.  *)
(***************************************************************************)
LEMMA LoadedIsRight ==
  ASSUME RightInv, Loaded
  PROVE  ZoneInv'
<1> DEFINE b == used + 1
           new == [zone |-> tz_alloc(list[Chosen].name), asked |-> tz_name]
<1>1. /\ pc = "choose" /\ used < MaxLookups /\ pc' = "idle"
      /\ heap' = [heap EXCEPT ![b] = new]
      /\ list[Chosen].kind = "DT_TZMAP_OLSEN_NAME"
  BY DEF Loaded, Return
<1>2. b \in Blocks /\ DOMAIN heap = Blocks
  BY <1>1, TimezoneAssumption DEF RightInv, OwnInv, BlockInv, Blocks
<1>3. cursor = 2 /\ Chosen = 2 /\ Named(list[2].name, tz_name)
  BY <1>1, ChosenIsNamed DEF RightInv, ZoneInv
<1>4. Named(new.zone, new.asked) \/ new.zone = GMT
  BY <1>3 DEF tz_alloc
<1> HIDE DEF new
<1>5. heap'[b] = new /\ \A c \in Blocks \ {b} : heap'[c] = heap[c]
  BY <1>1, <1>2
<1>6. \A c \in Live' : Named(heap'[c].zone, heap'[c].asked) \/ heap'[c].zone = GMT
  BY <1>2, <1>4, <1>5 DEF Live, RightInv, ZoneInv, RightZone
<1>7. RightZone'
  BY <1>6 DEF RightZone, Named
<1> QED
  BY <1>1, <1>7 DEF ZoneInv

(***************************************************************************)
(* No other step changes a block, but to free it.                          *)
(***************************************************************************)
LEMMA RestIsRight ==
  ASSUME RightInv, [Next]_vars, ~Loaded
  PROVE  ZoneInv'
<1>1. CASE \E name \in Queries \cup {None}, t \in TZ \cup {NULL} : dt_timezone_lookup(name, t)
  <2>1. heap' = heap /\ (pc' = "idle" \/ (pc' = "mapping" /\ cursor' = TZMAP_BEGIN))
    BY <1>1 DEF dt_timezone_lookup, Return
  <2> QED
    BY <2>1 DEF RightInv, ZoneInv, RightZone, Live, Named
<1>2. CASE Mapping
  BY <1>2 DEF Mapping, tz_vars, RightInv, ZoneInv, RightZone, Live, Named
<1>3. CASE MappingDone
  <2>1. heap' = heap /\ list' = list /\ cursor' = cursor /\ pc = "mapping"
        /\ (pc' = "idle" \/ (pc' = "choose" /\ list # <<>>))
    BY <1>3 DEF MappingDone, MapReturn, Return, Found
  <2> QED
    BY <2>1 DEF RightInv, ZoneInv, RightZone, Live, Named
<1>4. CASE NextAlias
  <2>1. /\ pc = "choose" /\ list[Chosen].kind # "DT_TZMAP_OLSEN_NAME"
        /\ cursor' = After(list, Chosen) /\ heap' = heap /\ pc' = pc /\ list' = list
    BY <1>4 DEF NextAlias, map_vars
  <2>2. cursor' = 2
    BY <2>1, ChosenIsNamed DEF RightInv, ZoneInv
  <2> QED
    BY <2>1, <2>2 DEF RightInv, ZoneInv, RightZone, Live, Named
<1>5. CASE OutOfMemory
  BY <1>5 DEF OutOfMemory, Return, RightInv, ZoneInv, RightZone, Live, Named
<1>6. CASE \E t \in TZ \cup {NULL} : dt_timezone_cleanup(t)
  <2>1. PICK t \in TZ \cup {NULL} : dt_timezone_cleanup(t)
    BY <1>6
  <2>2. pc' = "idle" /\ \A b \in Blocks : heap'[b] \in {heap[b], Freed}
    BY <2>1 DEF dt_timezone_cleanup, Return, RightInv, OwnInv, BlockInv
  <2> QED
    BY <2>2 DEF RightInv, ZoneInv, RightZone, Live, Named
<1>7. CASE (\E z \in ZoneFiles : FilesChange(z)) \/ UNCHANGED vars
  BY <1>7 DEF FilesChange, vars, map_vars, tz_vars, RightInv, ZoneInv, RightZone, Live, Named
<1> QED
  BY <1>1, <1>2, <1>3, <1>4, <1>5, <1>6, <1>7 DEF Next, LookupStep

(***************************************************************************)
(* A zone has the rules of the name asked for, or those of GMT if its file *)
(* cannot be loaded, but never those of another zone.                      *)
(***************************************************************************)
THEOREM ZonesAreRight == Spec => []RightZone
<1>1. Init => RightInv
  <2> SUFFICES ASSUME Init PROVE RightInv
    OBVIOUS
  <2>1. ZoneInv
    BY DEF Init, ZoneInv, RightZone, Live, Blocks
  <2> QED
    BY <2>1, OwnInit, MapStarts DEF RightInv
<1>2. RightInv /\ [Next]_vars => RightInv'
  <2> SUFFICES ASSUME RightInv, [Next]_vars PROVE RightInv'
    OBVIOUS
  <2>1. OwnInv'
    BY OwnStays DEF RightInv
  <2>2. MapInv'
    BY MapStays DEF RightInv
  <2>3. ZoneInv'
    BY LoadedIsRight, RestIsRight
  <2> QED
    BY <2>1, <2>2, <2>3 DEF RightInv
<1>3. RightInv => RightZone
  BY DEF RightInv, ZoneInv
<1> QED
  BY <1>1, <1>2, <1>3, PTL DEF Spec
=============================================================================
