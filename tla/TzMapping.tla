----------------------------- MODULE TzMapping -----------------------------
(***************************************************************************)
(* tzmap_map of src/src/tzmapping.c: the aliases of a time zone name, read *)
(* from the generated table tz_unicode_map (timezones_map.h).              *)
(*                                                                         *)
(* A collection is a linked list without its malloced head: a sequence of  *)
(* aliases.  A tz_alias_iterator_t* is the position of a node, NO_NODE, or *)
(* TZMAP_BEGIN.  tzmap_map appends to the list it is iterating through,    *)
(* one table row per step here, so that the iterator, the list and the     *)
(* size it compares with are seen moving separately.                       *)
(***************************************************************************)
EXTENDS Integers, Sequences

CONSTANTS
  tz_unicode_map,        \* the rows [other, territory, type]
  tz_unicode_map_size,   \* how many of them the library looks at
  Queries,               \* names the client asks for
  None                   \* no name

Rows == 1 .. tz_unicode_map_size

ASSUME TableAssumption ==
  /\ tz_unicode_map_size \in Nat
  /\ tz_unicode_map_size <= Len(tz_unicode_map)
  /\ None \notin Queries
  /\ \A i \in Rows : None \notin {tz_unicode_map[i].type, tz_unicode_map[i].other}

VARIABLES
  tz_name,    \* the argument
  list,       \* the collection under construction
  it,         \* tzmap_map's iterator
  size,       \* the size when the list was last measured
  wanted,     \* the name add_mapping_to_aliases is looking for, or None
  row,        \* the next row it looks at
  map_pc      \* where tzmap_map is

map_vars == <<tz_name, list, it, size, wanted, row, map_pc>>

NO_NODE     == 0
TZMAP_BEGIN == -1

Alias(kind, name) == [kind |-> kind, name |-> name]
Windows(r)   == Alias("DT_TZMAP_WIN_STANDARD_TIME", r.other)
Olsen(r)     == Alias("DT_TZMAP_OLSEN_NAME", r.type)
Territory(r) == Alias("DT_TZMAP_ABBREVIATION", r.territory)

-----------------------------------------------------------------------------
(* Slips: the search for the alias omitted; the insert position lost.      *)
insert_alias_Always(aliases, alias) == Append(aliases, alias)

insert_alias_AtFront(aliases, alias) ==
  IF \E i \in 1 .. Len(aliases) : aliases[i] = alias THEN aliases ELSE <<alias>> \o aliases

(* Appends at the insert position unless the collection has the alias.     *)
insert_alias(aliases, alias) ==
  IF \E i \in 1 .. Len(aliases) : aliases[i] = alias
  THEN aliases
  ELSE Append(aliases, alias)

insert_mapping(aliases, r) ==
  insert_alias(insert_alias(insert_alias(aliases, Windows(r)), Olsen(r)), Territory(r))

(* The node an iterator yields, and where it moves.                        *)
Node(aliases, i) == IF i = TZMAP_BEGIN THEN (IF aliases = <<>> THEN NO_NODE ELSE 1) ELSE i
After(aliases, i) == IF i < Len(aliases) THEN i + 1 ELSE NO_NODE

Matches(r, name) == r.type = name \/ r.other = name

-----------------------------------------------------------------------------
(* A slip: the sense of strcmp reversed.                                   *)
add_mapping_to_aliases_Inverted ==
  /\ wanted # None
  /\ row \in Rows
  /\ list' = IF Matches(tz_unicode_map[row], wanted)
             THEN list
             ELSE insert_mapping(list, tz_unicode_map[row])
  /\ row' = row + 1
  /\ UNCHANGED <<tz_name, it, size, wanted, map_pc>>

(* One turn of the loop of add_mapping_to_aliases over the table.          *)
add_mapping_to_aliases ==
  /\ wanted # None
  /\ row \in Rows
  /\ list' = IF Matches(tz_unicode_map[row], wanted)
             THEN insert_mapping(list, tz_unicode_map[row])
             ELSE list
  /\ row' = row + 1
  /\ UNCHANGED <<tz_name, it, size, wanted, map_pc>>

TableRead ==
  /\ wanted # None
  /\ row \notin Rows
  /\ wanted' = None
  /\ UNCHANGED <<tz_name, list, it, size, row, map_pc>>

(* A slip: the collection of the call before is extended.                  *)
tzmap_map_Extends(name) ==
  /\ map_pc = "idle"
  /\ tz_name' = name
  /\ it' = TZMAP_BEGIN
  /\ size' = 0
  /\ wanted' = name /\ row' = 1
  /\ map_pc' = "measure"
  /\ UNCHANGED list

tzmap_map(name) ==
  /\ map_pc = "idle"
  /\ tz_name' = name
  /\ list' = <<>>
  /\ it' = TZMAP_BEGIN
  /\ size' = 0
  /\ wanted' = name /\ row' = 1
  /\ map_pc' = "measure"

(* A slip: the collection taken as it is.                                  *)
Measure_Once ==
  /\ map_pc = "measure" /\ wanted = None
  /\ map_pc' = "mapped"
  /\ UNCHANGED <<tz_name, list, it, size, wanted, row>>

(* while (size != mapping_size(list))                                      *)
Measure ==
  /\ map_pc = "measure" /\ wanted = None
  /\ map_pc' = IF size # Len(list) THEN "iterate" ELSE "mapped"
  /\ UNCHANGED <<tz_name, list, it, size, wanted, row>>

(* The inner loop.  The iterator moves before the list grows.              *)
tzmap_iterate ==
  /\ map_pc = "iterate" /\ wanted = None
  /\ LET n == Node(list, it)
     IN  /\ n # NO_NODE
         /\ it' = After(list, n)
         /\ wanted' = IF list[n].kind = "DT_TZMAP_ABBREVIATION" \/ list[n].name = tz_name
                      THEN None ELSE list[n].name
         /\ row' = 1
  /\ UNCHANGED <<tz_name, list, size, map_pc>>

(* A slip: the size is not taken again.                                    *)
NoMoreItems_SizeKept ==
  /\ map_pc = "iterate" /\ wanted = None
  /\ Node(list, it) = NO_NODE
  /\ it' = NO_NODE
  /\ map_pc' = "measure"
  /\ UNCHANGED <<tz_name, list, size, wanted, row>>

NoMoreItems ==
  /\ map_pc = "iterate" /\ wanted = None
  /\ Node(list, it) = NO_NODE
  /\ it' = NO_NODE
  /\ size' = Len(list)
  /\ map_pc' = "measure"
  /\ UNCHANGED <<tz_name, list, wanted, row>>

(* The caller takes the collection, or DT_TIMEZONE_NOT_FOUND, and goes on. *)
Found == list # <<>>

MapReturn ==
  /\ map_pc = "mapped"
  /\ map_pc' = "idle"
  /\ UNCHANGED <<tz_name, list, it, size, wanted, row>>

-----------------------------------------------------------------------------
MapInit ==
  /\ tz_name = None
  /\ list = <<>>
  /\ it = TZMAP_BEGIN
  /\ size = 0
  /\ wanted = None /\ row = 1
  /\ map_pc = "idle"

MapStep ==
  add_mapping_to_aliases \/ TableRead \/ Measure \/ tzmap_iterate \/ NoMoreItems
=============================================================================
