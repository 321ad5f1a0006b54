----------------------------- MODULE TzLifetime -----------------------------
(***************************************************************************)
(* The properties of TzMapping and DtTimezone, and the table the build     *)
(* generates for them: src/scripts/transform.py turns the mapZone elements *)
(* of windowsZones.xml into rows, one for each of the Olsen names an       *)
(* element lists.                                                          *)
(***************************************************************************)
EXTENDS DtTimezone

CONSTANT MapZones   \* the mapZone elements [other, territory, types]

(* Olsen names of an element are separated by blanks in the file.          *)
parseMapZone(z) ==
  [i \in 1 .. Len(z.types) |->
     [other |-> z.other, territory |-> z.territory, type |-> z.types[i]]]

RowsOf[n \in Nat] ==
  IF n = 0 THEN <<>> ELSE RowsOf[n - 1] \o parseMapZone(MapZones[n])

GeneratedMap == RowsOf[Len(MapZones)]

(* zonesCount is the number of elements, not of rows.                      *)
GeneratedSize == Len(MapZones)

-----------------------------------------------------------------------------
RowAliases(r) == {Windows(r), Olsen(r), Territory(r)}

Aliases == UNION {RowAliases(tz_unicode_map[i]) : i \in Rows}

Mapped == map_pc = "mapped"

(* An alias is in a collection once, although a name is met in many rows   *)
(* and the list is extended while it is being read (tzmapping.c:53-57).    *)
NoDuplicates == \A i, j \in 1 .. Len(list) : list[i] = list[j] => i = j

NamesTo(k) ==
  {tz_name} \cup {list[j].name : j \in {i \in 1 .. k : list[i].kind # "DT_TZMAP_ABBREVIATION"}}

(* Nothing strange gets in: every alias comes from a row that mentions the *)
(* name asked for or a name that came into the collection before it.       *)
Related ==
  \A k \in 1 .. Len(list) : \E i \in Rows :
    /\ list[k] \in RowAliases(tz_unicode_map[i])
    /\ \E name \in NamesTo(k - 1) : Matches(tz_unicode_map[i], name)

(* The rows of all names are in it, so that a Windows name and each of its *)
(* Olsen names have the same aliases.  (The iterator is not started again, *)
(* and stops early when the list grows behind its last node; it matters    *)
(* only for a table in which an Olsen name has two Windows names.)         *)
Closed ==
  \A i \in Rows :
    (\E name \in NamesTo(Len(list)) : Matches(tz_unicode_map[i], name)) =>
      RowAliases(tz_unicode_map[i]) \subseteq {list[k] : k \in 1 .. Len(list)}

(* No name leads to two Windows names.  windowsZones.xml is so.            *)
OneWindowsName ==
  \A i, j \in Rows :
    LET p == tz_unicode_map[i]
        q == tz_unicode_map[j]
    IN  {p.type, p.other} \cap {q.type, q.other} # {} => p.other = q.other

(***************************************************************************)
(* The collection of a name is at every moment free of duplicates and      *)
(* related to the name, and closed when the loop of tzmap_map ends.        *)
(***************************************************************************)
CollectionRight == NoDuplicates /\ Related /\ (Mapped => Closed)

-----------------------------------------------------------------------------
(* dt.h:211: the name "can be in olsen database format, or in windows      *)
(* standard time format": every name of the file the table is made from    *)
(* can be found.                                                           *)
EveryZoneFound ==
  Mapped /\ (\E i \in 1 .. Len(tz_unicode_map) : Matches(tz_unicode_map[i], tz_name)) => Found

-----------------------------------------------------------------------------
Live == {b \in Blocks : heap[b] # Freed}

(***************************************************************************)
(* Time zone states are neither leaked nor shared nor dangling: each       *)
(* object the client holds has a live block of its own, and there is no    *)
(* other, in the middle of a lookup and after one that failed as well.     *)
(***************************************************************************)
OwnedOnce ==
  /\ \A t \in owned : state[t] \in Live
  /\ \A t, u \in owned : state[t] = state[u] => t = u
  /\ Live = {state[t] : t \in owned}

Named(zone, name) ==
  \E i \in Rows :
    /\ tz_unicode_map[i].type = zone
    /\ Matches(tz_unicode_map[i], name)
    /\ \A j \in 1 .. i - 1 : ~Matches(tz_unicode_map[j], name)

(***************************************************************************)
(* A time zone has the rules of the name asked for when that is an Olsen   *)
(* name, and of the first zone the table has for a Windows name; or, if    *)
(* its file cannot be loaded, those of GMT, but never another zone's.      *)
(***************************************************************************)
RightZone ==
  \A b \in Live : Named(heap[b].zone, heap[b].asked) \/ heap[b].zone = GMT

(***************************************************************************)
(* Every lookup comes back, whatever happens to the files meanwhile.       *)
(***************************************************************************)
LookupReturns == pc # "idle" ~> pc = "idle"
=============================================================================
