----------------------------- MODULE DtTimezone -----------------------------
(***************************************************************************)
(* dt_timezone_lookup and dt_timezone_cleanup of src/src/unix/dt_unix.c on *)
(* top of TzMapping: the memory they allocate and give back, and the zone  *)
(* a name ends up with.  The client is a careful one: it looks up into an  *)
(* object that holds nothing, and cleans up what a lookup gave it, once.   *)
(* Meanwhile the zone files under TZDIR come and go.                       *)
(***************************************************************************)
EXTENDS TzMapping, FiniteSets

CONSTANTS
  TZ,           \* the client's dt_timezone_t objects
  NULL,
  ZoneFiles,    \* zone names a file may exist for
  PosixNames,   \* names whose path tzparse accepts as a TZ string
  GMT,          \* the zone of gmtload
  MaxLookups    \* bound: lookups that get as far as malloc

ASSUME TimezoneAssumption ==
  /\ NULL \notin TZ \cup Queries
  /\ MaxLookups \in Nat

Blocks == 1 .. MaxLookups
Freed  == [zone |-> NULL, asked |-> NULL]

VARIABLES
  files,     \* the zone files that exist
  state,     \* dt_timezone_t.state: TZ -> Blocks or NULL
  heap,      \* struct state blocks: what each holds and for which name
  used,      \* blocks handed out so far
  heads,     \* tz_aliases_t blocks not freed
  nodes,     \* list nodes not freed, other than those of `list`
  owned,     \* objects the client has to clean up
  target,    \* the object of the lookup in progress
  cursor,    \* its iterator
  pc,        \* where it is
  status     \* what the last call returned

tz_vars == <<files, state, heap, used, heads, nodes, owned, target, cursor, pc, status>>
vars == <<map_vars, tz_vars>>

-----------------------------------------------------------------------------
Return(s) == pc' = "idle" /\ status' = s

dt_timezone_lookup(name, t) ==
  /\ pc = "idle"
  /\ IF name = None \/ t = NULL
     THEN Return("DT_INVALID_ARGUMENT") /\ UNCHANGED <<map_vars, heads, target, cursor>>
     ELSE /\ t \notin owned /\ heads < MaxLookups
          /\ tzmap_map(name)
          /\ heads' = heads + 1
          /\ target' = t /\ cursor' = TZMAP_BEGIN
          /\ pc' = "mapping"
          /\ UNCHANGED status
  /\ UNCHANGED <<files, state, heap, used, nodes, owned>>

Mapping ==
  /\ pc = "mapping"
  /\ MapStep
  /\ UNCHANGED tz_vars

(* tzmap_map returns.  An empty collection is given to tzmap_free, which   *)
(* frees the nodes of a list and not its head.                             *)
MappingDone ==
  /\ pc = "mapping"
  /\ MapReturn
  /\ IF Found
     THEN pc' = "choose" /\ UNCHANGED status
     ELSE Return("DT_TIMEZONE_NOT_FOUND")
  /\ UNCHANGED <<files, state, heap, used, heads, nodes, owned, target, cursor>>

(* The next alias: the Olsen name that is loaded, or one to pass over.     *)
(* (A collection that is not empty has one: every row does.)               *)
Chosen == Node(list, cursor)

(* A slip: the iterator is not moved.                                      *)
NextAlias_Stuck ==
  /\ pc = "choose"
  /\ Chosen # NO_NODE /\ list[Chosen].kind # "DT_TZMAP_OLSEN_NAME"
  /\ cursor' = Chosen
  /\ UNCHANGED <<map_vars, files, state, heap, used, heads, nodes, owned, target, pc, status>>

NextAlias ==
  /\ pc = "choose"
  /\ Chosen # NO_NODE /\ list[Chosen].kind # "DT_TZMAP_OLSEN_NAME"
  /\ cursor' = After(list, Chosen)
  /\ UNCHANGED <<map_vars, files, state, heap, used, heads, nodes, owned, target, pc, status>>

(***************************************************************************)
(* tz_alloc: a block with the zone of the file or, failing that, of the    *)
(* name read as a POSIX TZ string or, failing that too, with GMT.          *)
(***************************************************************************)
tz_alloc(name) ==
  IF name \in files \cup PosixNames THEN name ELSE GMT

Loaded ==
  /\ pc = "choose"
  /\ Chosen # NO_NODE /\ list[Chosen].kind = "DT_TZMAP_OLSEN_NAME"
  /\ used < MaxLookups
  /\ used' = used + 1
  /\ heap' = [heap EXCEPT ![used + 1] = [zone |-> tz_alloc(list[Chosen].name), asked |-> tz_name]]
  /\ state' = [state EXCEPT ![target] = used + 1]
  /\ owned' = owned \cup {target}
  /\ Return("DT_OK")
  /\ UNCHANGED <<map_vars, files, heads, nodes, target, cursor>>

(* malloc fails in tz_alloc: the collection is not freed.                  *)
OutOfMemory ==
  /\ pc = "choose"
  /\ Chosen # NO_NODE /\ list[Chosen].kind = "DT_TZMAP_OLSEN_NAME"
  /\ nodes' = nodes + Len(list)
  /\ Return("DT_TIMEZONE_NOT_FOUND")
  /\ UNCHANGED <<map_vars, files, state, heap, used, heads, owned, target, cursor>>

(* A slip: the state is forgotten, not freed.                              *)
dt_timezone_cleanup_Forgets(t) ==
  /\ pc = "idle"
  /\ IF t = NULL
     THEN Return("DT_INVALID_ARGUMENT") /\ UNCHANGED <<state, owned>>
     ELSE /\ t \in owned
          /\ state' = [state EXCEPT ![t] = NULL]
          /\ owned' = owned \ {t}
          /\ Return("DT_OK")
  /\ UNCHANGED <<map_vars, files, heap, used, heads, nodes, target, cursor>>

dt_timezone_cleanup(t) ==
  /\ pc = "idle"
  /\ IF t = NULL
     THEN Return("DT_INVALID_ARGUMENT") /\ UNCHANGED <<heap, owned>>
     ELSE /\ t \in owned
          /\ heap' = [heap EXCEPT ![state[t]] = Freed]
          /\ owned' = owned \ {t}
          /\ Return("DT_OK")
  /\ UNCHANGED <<map_vars, files, state, used, heads, nodes, target, cursor>>

(* Zone files are installed and removed (tzdata is updated).               *)
FilesChange(z) ==
  /\ files' = IF z \in files THEN files \ {z} ELSE files \cup {z}
  /\ UNCHANGED <<map_vars, state, heap, used, heads, nodes, owned, target, cursor, pc, status>>

-----------------------------------------------------------------------------
Init ==
  /\ MapInit
  /\ files = ZoneFiles
  /\ state = [t \in TZ |-> NULL]
  /\ heap = [b \in Blocks |-> Freed]
  /\ used = 0 /\ heads = 0 /\ nodes = 0
  /\ owned = {}
  /\ target = NULL
  /\ cursor = TZMAP_BEGIN
  /\ pc = "idle"
  /\ status = "DT_OK"

LookupStep == Mapping \/ MappingDone \/ NextAlias \/ Loaded \/ OutOfMemory

Next ==
  \/ \E name \in Queries \cup {None}, t \in TZ \cup {NULL} : dt_timezone_lookup(name, t)
  \/ LookupStep
  \/ \E t \in TZ \cup {NULL} : dt_timezone_cleanup(t)
  \/ \E z \in ZoneFiles : FilesChange(z)

(* A lookup runs to its end: it waits for nothing.                         *)
Spec == Init /\ [][Next]_vars /\ WF_vars(LookupStep)
=============================================================================
