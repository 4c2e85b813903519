-------------------------- MODULE MetadataOfSession --------------------------
(***************************************************************************)
(* The metadata cache and the refreshes that fill it: MetadataCache, one   *)
(* of whose connections has a session whose adapter is refreshed as in     *)
(* MetadataRefresh.  The cache of that module is what the tables hold for  *)
(* the connection, and an ingest is one step of both.  Editing the         *)
(* connection gives it a new session with a new adapter, and removing it   *)
(* takes the session away; refreshes under way go on with the old adapter. *)
(***************************************************************************)
EXTENDS MetadataCache

CONSTANTS
  Refreshes, MaxChanges,
  Refreshed   \* the connection of the session

VARIABLES
  session,    \* of Refreshed: "none", the "first" one, or a "later" state
  present, changes, pc, seen, todo, current,
  listed, relations, functions, latest, late

(* What a refresh of the session may find in the maps of a schema. *)
Readings == [relations : Refreshes \cup {None}, functions : Refreshes \cup {None}]

(* The tables of the connection, as MetadataRefresh sees them. *)
Held ==
  LET contents == stored[Refreshed]
      read == {s \in Schemas : contents[s] \in Readings}
  IN [schemas   |-> {s \in Schemas : contents[s] # None},
      relations |-> [s \in Schemas |-> IF s \in read THEN contents[s].relations ELSE None],
      functions |-> [s \in Schemas |-> IF s \in read THEN contents[s].functions ELSE None]]

R == INSTANCE MetadataRefresh WITH cache <- Held

ASSUME SessionAssumption ==
  R!RefreshAssumption /\ Refreshed \in Connections /\ Readings \subseteq Contents

database == <<present, changes>>
adapter  == <<pc, seen, todo, current, listed, relations, functions, latest, late>>

SessionInit == Init /\ R!Init /\ session = "none"

(* Whatever becomes of the first session, it does not come back. *)
Later == session' = IF session = "none" THEN "none" ELSE "later"

(* connection.add of this connection: a session and a row. *)
AddOrEdit(c) ==
  /\ \E config \in Configs, slot \in Slots \cup {None}, group \in Groups \cup {None} :
       Upsert(c, config, slot, group)
  /\ session' = IF c # Refreshed THEN session
                ELSE IF session = "none" THEN "first" ELSE "later"
  /\ UNCHANGED <<database, adapter>>

(* connection.remove. *)
RemoveConnection(c) ==
  /\ Remove(c)
  /\ IF c = Refreshed THEN Later ELSE UNCHANGED session
  /\ UNCHANGED <<database, adapter>>

Regroup ==
  /\ \/ \E g \in Groups : CreateGroup(g) \/ DeleteGroup(g)
     \/ \E c \in Connections, g \in Groups \cup {None} : Move(c, g)
  /\ UNCHANGED <<session, database, adapter>>

(* An introspection by any other session than the first of Refreshed: what *)
(* it read is no reading of these refreshes.                               *)
OtherIngest(c) ==
  /\ c # Refreshed \/ session = "later"
  /\ \E introspected \in [Schemas -> (Contents \ Readings) \cup {None}], now \in Times :
       Ingest(c, introspected, now)
  /\ UNCHANGED <<session, database, adapter>>

(* The process starts again and knows nothing of refreshes. *)
RestartBackend ==
  /\ Restart
  /\ Later
  /\ pc' = [r \in Refreshes |-> IF pc[r] = "idle" THEN "idle" ELSE "failed"]
  /\ current' = [r \in Refreshes |-> None]
  /\ UNCHANGED <<database, seen, todo, listed, relations, functions, latest, late>>

(* The steps of a refresh that leave the cache alone. *)
RefreshStep(r) ==
  /\ UNCHANGED <<vars, session>>
  /\ \/ session = "first" /\ R!Start(r)
     \/ R!Read(r) \/ R!Begin(r) \/ R!NextSchema(r) \/ R!LastSchema(r) \/ R!Fail(r)

(* What there is to write: of each schema what the maps have, or nothing. *)
Ingestible ==
  {introspected \in SchemaSets :
     \A s \in Schemas :
       introspected[s] \in {[relations |-> relations[s], functions |-> functions[s]], None}}

(* refreshMetadataCache calls ingestIntrospection. *)
RefreshIngests(r) ==
  /\ pc[r] = "filled"
  /\ \E introspected \in Ingestible, now \in Times : Ingest(Refreshed, introspected, now)
  /\ R!Ingest(r)
  /\ UNCHANGED session

(* The connection is gone and there is no schema to write for it. *)
RefreshWritesNothing(r) ==
  /\ ~Saved(Refreshed)
  /\ UNCHANGED <<vars, session>>
  /\ R!Ingest(r)

SchemasChange == UNCHANGED <<vars, session>> /\ R!ChangeDatabase

SessionNext ==
  \/ \E c \in Connections : AddOrEdit(c) \/ RemoveConnection(c) \/ OtherIngest(c)
  \/ Regroup \/ RestartBackend \/ SchemasChange
  \/ \E r \in Refreshes : RefreshStep(r) \/ RefreshIngests(r) \/ RefreshWritesNothing(r)

SessionSpec ==
  SessionInit /\ [][SessionNext]_<<vars, session, database, adapter>>

-----------------------------------------------------------------------------
(* While the first session lasts, the refresh that began last decides which *)
(* schemas the tables hold of the connection, and once it is done they hold *)
(* them whole, as it read them or, where an older one was still filling,   *)
(* as that one did: no refresh that ends later, no group that comes or     *)
(* goes and no change of the schemas of the database spoils that.          *)
LatestWins == session = "first" => R!LatestWins
=============================================================================
