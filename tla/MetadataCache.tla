--------------------------- MODULE MetadataCache ---------------------------
(***************************************************************************)
(* The class MetadataCache of packages/metadata-cache/src/index.ts: saved  *)
(* connections, their groups and the introspected schemas in SQLite, and   *)
(* the mirror in memory from which every lookup is answered.  The class is *)
(* synchronous, so each method is one action; a method that throws rolls   *)
(* its transaction back and changes neither side.                          *)
(***************************************************************************)
CONSTANTS
  Connections,  \* connection ids
  Groups,       \* group ids
  Configs,      \* label, dialect, endpoint, user, options, schema filter
  Slots,        \* names of keyring slots
  Schemas,      \* schema names
  Contents,     \* the relations and functions of a schema
  Times,        \* values of last_synced_at
  None

(* A row of the table connections, and its mirror in memory.  An empty     *)
(* schema filter counts as none, as for every reader of the configuration. *)
Row == [config : Configs, slot : Slots \cup {None},
        group : Groups \cup {None}, synced : Times \cup {None}]

ASSUME CacheAssumption == None \notin Groups \cup Slots \cup Contents \cup Row

VARIABLES
  rows,    \* table connections: the row of each id, or None
  groups,  \* table connection_groups
  stored,  \* tables schemas, relations, functions, by connection and schema
  mirror,  \* conns: config, slot, group and lastSyncedAt, or None
  shown    \* conns: the schemas of each connection in memory

vars == <<rows, groups, stored, mirror, shown>>

Nothing == [s \in Schemas |-> None]

Init ==
  /\ rows   = [c \in Connections |-> None]
  /\ groups = {}
  /\ stored = [c \in Connections |-> Nothing]
  /\ mirror = [c \in Connections |-> None]
  /\ shown  = [c \in Connections |-> Nothing]

Saved(c) == rows[c] # None
Known(c) == mirror[c] # None

(* The first value that is given: ?? of the code and COALESCE of SQLite. *)
OrElse(given, kept) == IF given # None THEN given ELSE kept

-----------------------------------------------------------------------------
(* Mutant: a schema that is in memory already is kept as it is. *)
ReloadedOnce(inTables, inMemory) == [s \in Schemas |-> OrElse(inMemory[s], inTables[s])]

(* reloadSchemas sets what the tables hold; it takes nothing away. *)
Reloaded(inTables, inMemory) == [s \in Schemas |-> OrElse(inTables[s], inMemory[s])]

(* Mutant: the conflict clause takes the slot of the new row as it is. *)
UpsertedRowNoCoalesce(c, config, slot, group) ==
  IF Saved(c) THEN [rows[c] EXCEPT !.config = config, !.slot = slot]
  ELSE [config |-> config, slot |-> slot, group |-> group, synced |-> None]

(* The row after INSERT ... ON CONFLICT(id) DO UPDATE. *)
UpsertedRow(c, config, slot, group) ==
  IF Saved(c) THEN [rows[c] EXCEPT !.config = config, !.slot = OrElse(slot, @)]
  ELSE [config |-> config, slot |-> slot, group |-> group, synced |-> None]

UpsertedMirror(c, config, slot, group) ==
  IF Known(c) THEN [mirror[c] EXCEPT !.config = config, !.slot = OrElse(slot, @)]
  ELSE [config |-> config, slot |-> slot, group |-> group, synced |-> None]

(* upsertConnection.  A new row must name a group that exists. *)
Upsert(c, config, slot, group) ==
  /\ Saved(c) \/ group \in groups \cup {None}
  /\ rows'   = [rows EXCEPT ![c] = UpsertedRow(c, config, slot, group)]
  /\ mirror' = [mirror EXCEPT ![c] = UpsertedMirror(c, config, slot, group)]
  /\ shown'  = [shown EXCEPT ![c] =
                  Reloaded(stored[c], IF Known(c) THEN shown[c] ELSE Nothing)]
  /\ UNCHANGED <<groups, stored>>

(* removeConnection: the foreign keys cascade to the schemas. *)
Remove(c) ==
  /\ rows'   = [rows EXCEPT ![c] = None]
  /\ stored' = [stored EXCEPT ![c] = Nothing]
  /\ mirror' = [mirror EXCEPT ![c] = None]
  /\ shown'  = [shown EXCEPT ![c] = Nothing]
  /\ UNCHANGED groups

(* createConnectionGroup with a fresh id. *)
CreateGroup(g) ==
  /\ g \notin groups
  /\ groups' = groups \cup {g}
  /\ UNCHANGED <<rows, stored, mirror, shown>>

(* A table of connections without the group g. *)
Ungrouped(table, g) ==
  [c \in Connections |->
     IF table[c] # None /\ table[c].group = g THEN [table[c] EXCEPT !.group = None]
     ELSE table[c]]

(* deleteConnectionGroup. *)
DeleteGroup(g) ==
  /\ groups' = groups \ {g}
  /\ rows'   = Ungrouped(rows, g)
  /\ mirror' = Ungrouped(mirror, g)
  /\ UNCHANGED <<stored, shown>>

(* Mutant: only the table is updated. *)
MoveRowOnly(c, g) ==
  /\ Known(c) /\ g \in groups \cup {None}
  /\ rows' = [rows EXCEPT ![c].group = g]
  /\ UNCHANGED <<groups, stored, mirror, shown>>

(* moveConnection. *)
Move(c, g) ==
  /\ Known(c) /\ g \in groups \cup {None}
  /\ rows'   = [rows EXCEPT ![c].group = g]
  /\ mirror' = [mirror EXCEPT ![c].group = g]
  /\ UNCHANGED <<groups, stored, shown>>

(* ingestIntrospection.  For a connection that is gone the foreign key of  *)
(* schemas fails (or, with no schemas at all, nothing is written).         *)
Ingest(c, introspected, now) ==
  /\ Saved(c)
  /\ stored' = [stored EXCEPT ![c] = introspected]
  /\ rows'   = [rows EXCEPT ![c].synced = now]
  /\ mirror' = [mirror EXCEPT ![c].synced = now]
  /\ shown'  = [shown EXCEPT ![c] = Reloaded(introspected, @)]
  /\ UNCHANGED groups

(* The process ends, at any moment, and starts again: reindex. *)
Restart ==
  /\ mirror' = rows
  /\ shown'  = stored
  /\ UNCHANGED <<rows, groups, stored>>

Next ==
  \/ \E c \in Connections, config \in Configs, slot \in Slots \cup {None},
        group \in Groups \cup {None} : Upsert(c, config, slot, group)
  \/ \E c \in Connections : Remove(c)
  \/ \E g \in Groups : CreateGroup(g) \/ DeleteGroup(g)
  \/ \E c \in Connections, g \in Groups \cup {None} : Move(c, g)
  \/ \E c \in Connections, introspected \in [Schemas -> Contents \cup {None}],
        now \in Times : Ingest(c, introspected, now)
  \/ Restart

Spec == Init /\ [][Next]_vars

-----------------------------------------------------------------------------
SchemaSets == [Schemas -> Contents \cup {None}]

TypeOK ==
  /\ rows \in [Connections -> Row \cup {None}]
  /\ groups \subseteq Groups
  /\ stored \in [Connections -> SchemaSets]
  /\ mirror \in [Connections -> Row \cup {None}]
  /\ shown \in [Connections -> SchemaSets]

(* Memory and tables agree on every connection: id, configuration, keyring *)
(* slot, group and time of the last introspection.  A restart brings back  *)
(* exactly the connections that were there.                                *)
MirrorAgrees == mirror = rows

(* What is persisted can be looked up: every schema in the tables is in    *)
(* memory, with the contents of the last introspection.                    *)
NothingHidden ==
  \A c \in Connections, s \in Schemas : stored[c][s] # None => shown[c][s] = stored[c][s]

(* No connection names a group that is gone, and no schemas outlive their  *)
(* connection, in the tables or in memory.                                 *)
NothingDangles ==
  \A c \in Connections :
    /\ Saved(c) => rows[c].group \in groups \cup {None}
    /\ ~Saved(c) => stored[c] = Nothing /\ shown[c] = Nothing

CacheInv == TypeOK /\ MirrorAgrees /\ NothingHidden /\ NothingDangles

(* Editing a connection keeps what the edit does not carry: its keyring    *)
(* slot, and its group, which only Move and DeleteGroup change.            *)
EditsKeepSlotAndGroup ==
  [][\A c \in Connections :
       Saved(c) /\ Saved(c)' =>
         /\ rows[c].slot # None => rows'[c].slot # None
         /\ rows'[c].config # rows[c].config => rows'[c].group = rows[c].group]_vars
=============================================================================
