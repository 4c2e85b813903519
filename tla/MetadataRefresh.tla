-------------------------- MODULE MetadataRefresh --------------------------
(***************************************************************************)
(* Refreshing the metadata of one connection: refreshMetadataCache of      *)
(* packages/backend/src/handlers.ts over CachedAdapter.introspect of       *)
(* packages/adapters-core.  Any number of refreshes may be under way, from *)
(* metadata.introspect and from the DDL statements of query.run: they fill *)
(* the same maps of the one adapter, with an await per schema, and each    *)
(* copies to the metadata cache what the maps hold when it is done.  An    *)
(* action is the code between two awaits.                                  *)
(***************************************************************************)
EXTENDS Naturals

CONSTANTS
  Refreshes,   \* calls of refreshMetadataCache
  Schemas,     \* schema names
  MaxChanges,  \* bound: how often the structure of the database changes
  None

(* What the constants are assumed to be; RefreshInv carries it along. *)
RefreshAssumption ==
  /\ None \notin Refreshes \cup Schemas
  /\ MaxChanges \in Nat

VARIABLES
  present,    \* the schemas of the database
  changes,    \* how often they changed
  pc,         \* where each refresh is
  seen,       \* the schemas its catalog query returned
  todo,       \* those of its loop that are still to come
  current,    \* the one whose functions it waits for
  listed,     \* adapter.schemasCache
  relations,  \* adapter.relationsBySchema: which refresh read them, None without a key
  functions,  \* adapter.functionsBySchema, in the same way
  cache,      \* the metadata cache: its schemas, and who read what it has of them
  latest,     \* auxiliary: the refresh that cleared the maps last
  late        \* auxiliary: the schemas that others were still to fill at that moment

vars == <<present, changes, pc, seen, todo, current,
          listed, relations, functions, cache, latest, late>>
maps == <<listed, relations, functions>>

Nobody == [s \in Schemas |-> None]

Init ==
  /\ present \in SUBSET Schemas
  /\ changes   = 0
  /\ pc        = [r \in Refreshes |-> "idle"]
  /\ seen      = [r \in Refreshes |-> {}]
  /\ todo      = [r \in Refreshes |-> {}]
  /\ current   = [r \in Refreshes |-> None]
  /\ listed    = {}
  /\ relations = Nobody
  /\ functions = Nobody
  /\ cache     = [schemas |-> {}, relations |-> Nobody, functions |-> Nobody]
  /\ latest    = None
  /\ late      = {}

-----------------------------------------------------------------------------
(* What ingestIntrospection receives: every listed schema, with the        *)
(* relations and functions the maps have for it, or none.                  *)
Gathered(list, rels, fns) ==
  [schemas   |-> list,
   relations |-> [s \in Schemas |-> IF s \in list THEN rels[s] ELSE None],
   functions |-> [s \in Schemas |-> IF s \in list THEN fns[s] ELSE None]]

Goto(r, place) == pc' = [pc EXCEPT ![r] = place]

Start(r) ==
  /\ pc[r] = "idle"
  /\ Goto(r, "reading")
  /\ UNCHANGED <<present, changes, seen, todo, current, maps, cache, latest, late>>

(* introspectSchemas: the catalog answers. *)
Read(r) ==
  /\ pc[r] = "reading"
  /\ Goto(r, "read")
  /\ seen' = [seen EXCEPT ![r] = present]
  /\ UNCHANGED <<present, changes, todo, current, maps, cache, latest, late>>

(* The loop of introspect takes the schema s: its relations are set and    *)
(* its functions asked for.                                                *)
TakeSchema(r, s, left) ==
  /\ Goto(r, "filling")
  /\ current' = [current EXCEPT ![r] = s]
  /\ todo' = [todo EXCEPT ![r] = left \ {s}]

(* What the loops of other refreshes are still to set. *)
StillToFill(r) ==
  UNION {todo[q] \cup {current[q]} : q \in {q \in Refreshes \ {r} : pc[q] = "filling"}}

(* The answer is there: the list is replaced, the maps are cleared and the *)
(* loop starts.  Without a schema there is no loop.                        *)
Begin(r) ==
  /\ pc[r] = "read"
  /\ latest' = r
  /\ late' = StillToFill(r)
  /\ listed' = seen[r]
  /\ functions' = Nobody
  /\ \/ /\ seen[r] = {}
        /\ Goto(r, "filled")
        /\ relations' = Nobody
        /\ UNCHANGED <<todo, current>>
     \/ \E s \in seen[r] :
          /\ TakeSchema(r, s, seen[r])
          /\ relations' = [Nobody EXCEPT ![s] = r]
  /\ UNCHANGED <<present, changes, seen, cache>>

(* listFunctionsForSchema answered, and the loop goes on. *)
NextSchema(r) ==
  /\ pc[r] = "filling"
  /\ functions' = [functions EXCEPT ![current[r]] = r]
  /\ \E s \in todo[r] :
       /\ TakeSchema(r, s, todo[r])
       /\ relations' = [relations EXCEPT ![s] = r]
  /\ UNCHANGED <<present, changes, seen, listed, cache, latest, late>>

(* The last answer: the loop is over and introspect returns. *)
LastSchema(r) ==
  /\ pc[r] = "filling" /\ todo[r] = {}
  /\ Goto(r, "filled")
  /\ current' = [current EXCEPT ![r] = None]
  /\ functions' = [functions EXCEPT ![current[r]] = r]
  /\ UNCHANGED <<present, changes, seen, todo, listed, relations, cache, latest, late>>

(* Mutant: the list of schemas is the one this refresh saw. *)
IngestOwnList(r) ==
  /\ pc[r] = "filled"
  /\ Goto(r, "done")
  /\ cache' = Gathered(seen[r], relations, functions)
  /\ UNCHANGED <<present, changes, seen, todo, current, maps, latest, late>>

(* refreshMetadataCache ingests what the maps hold by now. *)
Ingest(r) ==
  /\ pc[r] = "filled"
  /\ Goto(r, "done")
  /\ cache' = Gathered(listed, relations, functions)
  /\ UNCHANGED <<present, changes, seen, todo, current, maps, latest, late>>

(* The database fails a query, or the ingest finds no connection and rolls *)
(* back: metadata.introspect throws, query.run logs a warning.             *)
Fail(r) ==
  /\ pc[r] \in {"reading", "filling", "filled"}
  /\ Goto(r, "failed")
  /\ current' = [current EXCEPT ![r] = None]
  /\ UNCHANGED <<present, changes, seen, todo, maps, cache, latest, late>>

(* Somebody creates and drops schemas. *)
ChangeDatabase ==
  /\ changes < MaxChanges
  /\ changes' = changes + 1
  /\ present' \in SUBSET Schemas
  /\ UNCHANGED <<pc, seen, todo, current, maps, cache, latest, late>>

RefreshStep(r) ==
  Start(r) \/ Read(r) \/ Begin(r) \/ NextSchema(r) \/ LastSchema(r) \/ Ingest(r)
  \/ Fail(r)

Next == ChangeDatabase \/ \E r \in Refreshes : RefreshStep(r)

Spec == Init /\ [][Next]_vars

-----------------------------------------------------------------------------
Places == {"idle", "reading", "read", "filling", "filled", "done", "failed"}

TypeOK ==
  /\ present \subseteq Schemas
  /\ changes \in 0 .. MaxChanges
  /\ pc \in [Refreshes -> Places]
  /\ seen \in [Refreshes -> SUBSET Schemas]
  /\ todo \in [Refreshes -> SUBSET Schemas]
  /\ current \in [Refreshes -> Schemas \cup {None}]
  /\ listed \subseteq Schemas
  /\ relations \in [Schemas -> Refreshes \cup {None}]
  /\ functions \in [Schemas -> Refreshes \cup {None}]
  /\ cache.schemas \subseteq Schemas
  /\ latest \in Refreshes \cup {None}
  /\ late \subseteq Schemas

(* What a map has of a schema: something, and what the latest refresh read *)
(* itself unless an older one was still to set it.                         *)
SetByLatest(map, s) == map[s] # None /\ (s \notin late => map[s] = latest)

(* However many refreshes ran into each other: once the one that cleared   *)
(* the maps last is done, the cache holds the schemas it saw, each with    *)
(* relations and functions, and no refresh that ends later spoils that.    *)
(* They are those it read itself, but for schemas that an older refresh    *)
(* was still to fill when it began: of these the older reading may win.    *)
LatestWins ==
  latest # None /\ pc[latest] = "done" =>
    /\ cache.schemas = seen[latest]
    /\ \A s \in seen[latest] : SetByLatest(cache.relations, s) /\ SetByLatest(cache.functions, s)

(* The loop of the latest refresh: behind it the maps are filled. *)
FilledBehind ==
  latest # None =>
    /\ listed = seen[latest]
    /\ pc[latest] \in {"filling", "filled", "done", "failed"}
    /\ pc[latest] = "filling" =>
         /\ \A s \in seen[latest] \ todo[latest] : SetByLatest(relations, s)
         /\ \A s \in seen[latest] \ (todo[latest] \cup {current[latest]}) : SetByLatest(functions, s)
    /\ pc[latest] \in {"filled", "done"} =>
         \A s \in seen[latest] : SetByLatest(relations, s) /\ SetByLatest(functions, s)

(* Whoever else fills the maps has begun before, and sets what is late.    *)
LateIsKnown ==
  \A r \in Refreshes \ {latest} : pc[r] = "filling" => todo[r] \cup {current[r]} \subseteq late

SomeoneCleared ==
  \A r \in Refreshes : pc[r] = "filling" => latest # None /\ current[r] \in Schemas

RefreshInv == RefreshAssumption /\ TypeOK /\ LatestWins /\ FilledBehind /\ LateIsKnown
              /\ SomeoneCleared
=============================================================================
