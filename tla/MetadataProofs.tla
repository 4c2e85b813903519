--------------------------- MODULE MetadataProofs ---------------------------
(***************************************************************************)
(* The metadata of the connections: memory and tables agree, for any       *)
(* number of connections and whatever the methods of the cache do; and     *)
(* however many refreshes share the maps of an adapter, the one that began *)
(* last decides which schemas the tables hold of its connection in the     *)
(* end.  And with the keys it has of tables, edits of a result change the  *)
(* row they were made in, unless others have deleted it or changed its key.*)
(***************************************************************************)
EXTENDS Naturals, Sequences, EditedMetadata, TLAPS

(* What a method leaves in a row is a row again. *)
LEMMA UpsertedIsRow ==
  ASSUME TypeOK, NEW c \in Connections, NEW config \in Configs,
         NEW slot \in Slots \cup {None}, NEW group \in Groups \cup {None}
  PROVE  /\ UpsertedRow(c, config, slot, group) \in Row
         /\ Saved(c) => UpsertedRow(c, config, slot, group).group = rows[c].group
         /\ Saved(c) /\ rows[c].slot # None => UpsertedRow(c, config, slot, group).slot # None
         /\ ~Saved(c) => UpsertedRow(c, config, slot, group).group = group
<1>1. CASE Saved(c)
  <2>1. rows[c] \in Row
    BY <1>1 DEF TypeOK, Saved
  <2> QED BY <1>1, <2>1, CacheAssumption DEF UpsertedRow, OrElse, Row
<1>2. CASE ~Saved(c)
  BY <1>2 DEF UpsertedRow, Row
<1> QED BY <1>1, <1>2

LEMMA UpsertKeeps ==
  ASSUME CacheInv, NEW c \in Connections, NEW config \in Configs,
         NEW slot \in Slots \cup {None}, NEW group \in Groups \cup {None},
         Upsert(c, config, slot, group)
  PROVE  CacheInv'
<1> DEFINE row == UpsertedRow(c, config, slot, group)
<1>1. /\ row \in Row
      /\ Saved(c) => row.group = rows[c].group
      /\ ~Saved(c) => row.group = group
  BY UpsertedIsRow DEF CacheInv
<1>2. UpsertedMirror(c, config, slot, group) = row
  BY DEF CacheInv, MirrorAgrees, UpsertedMirror, UpsertedRow, Known, Saved
<1>3. /\ rows' = [rows EXCEPT ![c] = row]
      /\ mirror' = [mirror EXCEPT ![c] = row]
      /\ groups' = groups /\ stored' = stored
  BY <1>2 DEF Upsert
<1> HIDE DEF row
<1>4. shown' = [shown EXCEPT ![c] = Reloaded(stored[c], IF Known(c) THEN shown[c] ELSE Nothing)]
  BY DEF Upsert
<1>5. TypeOK'
  BY <1>1, <1>3, <1>4 DEF CacheInv, TypeOK, SchemaSets, Reloaded, OrElse, Nothing
<1>6. MirrorAgrees'
  BY <1>3 DEF CacheInv, MirrorAgrees
<1>7. NothingHidden'
  BY <1>3, <1>4 DEF CacheInv, TypeOK, SchemaSets, NothingHidden, Reloaded, OrElse
<1>8. row # None
  BY <1>1, CacheAssumption
<1>9. Saved(c) \/ group \in groups \cup {None}
  BY DEF Upsert
<1>10. NothingDangles'
  BY <1>1, <1>3, <1>4, <1>8, <1>9 DEF CacheInv, TypeOK, NothingDangles, Saved
<1> QED BY <1>5, <1>6, <1>7, <1>10 DEF CacheInv

LEMMA RemoveKeeps ==
  ASSUME CacheInv, NEW c \in Connections, Remove(c) PROVE CacheInv'
<1>1. TypeOK'
  BY DEF CacheInv, TypeOK, Remove, SchemaSets, Nothing
<1>2. MirrorAgrees'
  BY DEF CacheInv, MirrorAgrees, Remove
<1>3. NothingHidden'
  BY DEF CacheInv, TypeOK, NothingHidden, Remove, Nothing
<1>4. NothingDangles'
  BY DEF CacheInv, TypeOK, NothingDangles, Remove, Saved
<1> QED BY <1>1, <1>2, <1>3, <1>4 DEF CacheInv

LEMMA DeleteGroupKeeps ==
  ASSUME CacheInv, NEW g \in Groups, DeleteGroup(g) PROVE CacheInv'
<1>1. ASSUME NEW c \in Connections, Saved(c), rows[c].group = g
      PROVE  /\ [rows[c] EXCEPT !.group = None] \in Row
             /\ [rows[c] EXCEPT !.group = None].group = None
  <2>1. rows[c] \in Row
    BY <1>1 DEF CacheInv, TypeOK, Saved
  <2> QED BY <2>1 DEF Row
<1>2. /\ rows' = [c \in Connections |->
            IF rows[c] # None /\ rows[c].group = g THEN [rows[c] EXCEPT !.group = None]
            ELSE rows[c]]
      /\ mirror' = rows'
      /\ groups' = groups \ {g} /\ stored' = stored /\ shown' = shown
  BY DEF CacheInv, MirrorAgrees, DeleteGroup, Ungrouped
<1>3. \A c \in Connections : rows'[c] \in Row \cup {None} /\ (rows'[c] = None <=> rows[c] = None)
  BY <1>1, <1>2, CacheAssumption DEF CacheInv, TypeOK, Saved
<1>4. TypeOK'
  BY <1>2, <1>3 DEF CacheInv, TypeOK
<1>5. MirrorAgrees'
  BY <1>2 DEF MirrorAgrees
<1>6. NothingHidden'
  BY <1>2 DEF CacheInv, NothingHidden
<1>7. ASSUME NEW c \in Connections, rows'[c] # None PROVE rows'[c].group \in (groups \ {g}) \cup {None}
  <2>1. CASE rows[c].group = g
    BY <1>1, <1>2, <1>3, <1>7, <2>1 DEF Saved
  <2>2. CASE rows[c].group # g
    BY <1>2, <1>3, <1>7, <2>2 DEF CacheInv, NothingDangles, Saved
  <2> QED BY <2>1, <2>2
<1>8. NothingDangles'
  BY <1>2, <1>3, <1>7 DEF CacheInv, NothingDangles, Saved
<1> QED BY <1>4, <1>5, <1>6, <1>8 DEF CacheInv

LEMMA MoveKeeps ==
  ASSUME CacheInv, NEW c \in Connections, NEW g \in Groups \cup {None}, Move(c, g)
  PROVE  CacheInv'
<1>1. rows[c] \in Row
  BY DEF CacheInv, TypeOK, MirrorAgrees, Move, Known
<1> DEFINE row == [rows[c] EXCEPT !.group = g]
<1>2. row \in Row /\ row.group = g
  BY <1>1 DEF Row
<1>3. /\ rows' = [rows EXCEPT ![c] = row]
      /\ mirror' = rows'
      /\ g \in groups \cup {None}
      /\ groups' = groups /\ stored' = stored /\ shown' = shown
  BY DEF CacheInv, MirrorAgrees, Move
<1> HIDE DEF row
<1>4. TypeOK'
  BY <1>2, <1>3 DEF CacheInv, TypeOK
<1>5. MirrorAgrees'
  BY <1>3 DEF MirrorAgrees
<1>6. NothingHidden'
  BY <1>3 DEF CacheInv, NothingHidden
<1>7. NothingDangles'
  BY <1>1, <1>2, <1>3, CacheAssumption DEF CacheInv, TypeOK, NothingDangles, Saved
<1> QED BY <1>4, <1>5, <1>6, <1>7 DEF CacheInv

LEMMA IngestKeeps ==
  ASSUME CacheInv, NEW c \in Connections, NEW introspected \in SchemaSets,
         NEW now \in Times, Ingest(c, introspected, now)
  PROVE  CacheInv'
<1>1. rows[c] \in Row
  BY DEF CacheInv, TypeOK, Ingest, Saved
<1> DEFINE row == [rows[c] EXCEPT !.synced = now]
<1>2. row \in Row /\ row.group = rows[c].group
  BY <1>1 DEF Row
<1>3. /\ rows' = [rows EXCEPT ![c] = row]
      /\ mirror' = rows'
      /\ groups' = groups
      /\ stored' = [stored EXCEPT ![c] = introspected]
      /\ shown' = [shown EXCEPT ![c] = Reloaded(introspected, shown[c])]
  BY DEF CacheInv, MirrorAgrees, Ingest
<1> HIDE DEF row
<1>4. TypeOK'
  BY <1>2, <1>3 DEF CacheInv, TypeOK, SchemaSets, Reloaded, OrElse
<1>5. MirrorAgrees'
  BY <1>3 DEF MirrorAgrees
<1>6. NothingHidden'
  BY <1>3 DEF CacheInv, TypeOK, SchemaSets, NothingHidden, Reloaded, OrElse
<1>7. NothingDangles'
  BY <1>1, <1>2, <1>3, CacheAssumption DEF CacheInv, TypeOK, NothingDangles, Saved
<1> QED BY <1>4, <1>5, <1>6, <1>7 DEF CacheInv

LEMMA RestartKeeps ==
  ASSUME CacheInv, Restart PROVE CacheInv'
<1>1. TypeOK' /\ MirrorAgrees' /\ NothingHidden'
  BY DEF CacheInv, TypeOK, MirrorAgrees, NothingHidden, Restart
<1>2. NothingDangles'
  BY DEF CacheInv, NothingDangles, Restart, Saved
<1> QED BY <1>1, <1>2 DEF CacheInv

LEMMA CacheKeeps == CacheInv /\ [Next]_vars => CacheInv'
<1> SUFFICES ASSUME CacheInv, [Next]_vars PROVE CacheInv'
  OBVIOUS
<1>1. ASSUME NEW g \in Groups, CreateGroup(g) PROVE CacheInv'
  BY <1>1 DEF CacheInv, CreateGroup, TypeOK, MirrorAgrees, NothingHidden, NothingDangles, Saved
<1>2. CASE UNCHANGED vars
  BY <1>2 DEF vars, CacheInv, TypeOK, MirrorAgrees, NothingHidden, NothingDangles, Saved
<1> QED
  BY <1>1, <1>2, UpsertKeeps, RemoveKeeps, DeleteGroupKeeps, MoveKeeps, IngestKeeps, RestartKeeps
  DEF Next, SchemaSets

LEMMA CacheInit == Init => CacheInv
BY DEF Init, CacheInv, TypeOK, SchemaSets, MirrorAgrees, NothingHidden,
       NothingDangles, Nothing, Saved

(* The inductive invariant holds in every reachable state. *)
THEOREM CacheHolds == Spec => []CacheInv
BY CacheInit, CacheKeeps, PTL DEF Spec

(* Memory and tables agree on every connection, whatever the methods do in *)
(* whatever order.                                                         *)
THEOREM MirrorCorrect == Spec => []MirrorAgrees
<1>1. CacheInv => MirrorAgrees
  BY DEF CacheInv
<1> QED BY <1>1, CacheHolds, PTL

(* Everything persisted can be looked up. *)
THEOREM LookupsComplete == Spec => []NothingHidden
<1>1. CacheInv => NothingHidden
  BY DEF CacheInv
<1> QED BY <1>1, CacheHolds, PTL

(* No reference in the tables or in memory dangles. *)
THEOREM ReferencesHold == Spec => []NothingDangles
<1>1. CacheInv => NothingDangles
  BY DEF CacheInv
<1> QED BY <1>1, CacheHolds, PTL

(* What a step may do to a connection that stays. *)
EditKeeps(c) ==
  Saved(c) /\ Saved(c)' =>
    /\ rows[c].slot # None => rows'[c].slot # None
    /\ rows'[c].config # rows[c].config => rows'[c].group = rows[c].group

LEMMA StepEdits ==
  ASSUME CacheInv, [Next]_vars, NEW c \in Connections PROVE EditKeeps(c)
<1> SUFFICES ASSUME Saved(c), Saved(c)' PROVE
      /\ rows[c].slot # None => rows'[c].slot # None
      /\ rows'[c].config # rows[c].config => rows'[c].group = rows[c].group
  BY DEF EditKeeps
<1>1. rows[c] \in Row
  BY DEF CacheInv, TypeOK, Saved
<1>2. ASSUME NEW k \in Connections, NEW config \in Configs, NEW slot \in Slots \cup {None},
             NEW group \in Groups \cup {None}, Upsert(k, config, slot, group)
      PROVE  EditKeeps(c)
  <2>1. rows' = [rows EXCEPT ![k] = UpsertedRow(k, config, slot, group)]
    BY <1>2 DEF Upsert
  <2>2. CASE k = c
    BY <2>1, <2>2, UpsertedIsRow DEF CacheInv, TypeOK, EditKeeps
  <2>3. CASE k # c
    BY <2>1, <2>3 DEF CacheInv, TypeOK, EditKeeps
  <2> QED BY <2>2, <2>3
<1>3. ASSUME NEW k \in Connections, Remove(k) PROVE EditKeeps(c)
  BY <1>3 DEF Remove, CacheInv, TypeOK, EditKeeps, Saved
<1>4. ASSUME NEW g \in Groups, DeleteGroup(g) PROVE EditKeeps(c)
  <2>1. rows'[c] \in {rows[c], [rows[c] EXCEPT !.group = None]}
    BY <1>4 DEF DeleteGroup, Ungrouped
  <2> QED BY <1>1, <2>1 DEF Row, EditKeeps
<1>5. ASSUME NEW k \in Connections, NEW g \in Groups \cup {None}, Move(k, g) PROVE EditKeeps(c)
  <2>1. rows'[c] \in {rows[c], [rows[c] EXCEPT !.group = g]}
    BY <1>5 DEF Move, CacheInv, TypeOK
  <2> QED BY <1>1, <2>1 DEF Row, EditKeeps
<1>6. ASSUME NEW k \in Connections, NEW introspected \in SchemaSets, NEW now \in Times,
             Ingest(k, introspected, now)
      PROVE  EditKeeps(c)
  <2>1. rows'[c] \in {rows[c], [rows[c] EXCEPT !.synced = now]}
    BY <1>6 DEF Ingest, CacheInv, TypeOK
  <2> QED BY <1>1, <2>1 DEF Row, EditKeeps
<1>7. CASE rows' = rows
  BY <1>7
<1>8. EditKeeps(c)
  BY <1>2, <1>3, <1>4, <1>5, <1>6, <1>7
  DEF Next, vars, SchemaSets, CreateGroup, Restart, EditKeeps
<1> QED BY <1>8 DEF EditKeeps

(* An edit loses neither the keyring slot nor the group. *)
THEOREM EditsAreConservative == Spec => EditsKeepSlotAndGroup
<1>1. CacheInv /\ [Next]_vars => [\A c \in Connections : EditKeeps(c)]_vars
  BY StepEdits
<1>2. [\A c \in Connections : EditKeeps(c)]_vars =>
        [\A c \in Connections :
           Saved(c) /\ Saved(c)' =>
             /\ rows[c].slot # None => rows'[c].slot # None
             /\ rows'[c].config # rows[c].config => rows'[c].group = rows[c].group]_vars
  BY DEF EditKeeps
<1> QED BY <1>1, <1>2, CacheHolds, PTL DEF Spec, EditsKeepSlotAndGroup

-----------------------------------------------------------------------------
(* The refreshes of the session: RefreshInv adds to LatestWins how far the *)
(* loop of the latest refresh has filled the maps, and which schemas the   *)
(* loops of the others may still set.  Nobody clears the maps behind it,   *)
(* because whoever cleared them would have begun later.                    *)
USE DEF R!RefreshInv, R!RefreshAssumption, R!TypeOK, R!Goto

LEMMA RefreshInitKeeps == R!RefreshAssumption /\ R!Init => R!RefreshInv
BY DEF R!Init, R!Nobody, R!Places, R!LatestWins, R!FilledBehind, R!LateIsKnown, R!SomeoneCleared

LEMMA StartKeeps ==
  ASSUME R!RefreshInv, NEW r \in Refreshes, R!Start(r) PROVE R!RefreshInv'
<1>1. R!TypeOK'
  BY DEF R!Start, R!maps, R!Places, R!SomeoneCleared
<1>2. R!FilledBehind'
  BY DEF R!Start, R!maps, R!FilledBehind, R!SetByLatest, R!LateIsKnown, R!SomeoneCleared
<1>3. R!LatestWins'
  BY DEF R!Start, R!maps, R!LatestWins, R!FilledBehind, R!SetByLatest, R!SomeoneCleared
<1>4. R!SomeoneCleared'
  BY DEF R!Start, R!maps, R!SomeoneCleared
<1>5. R!LateIsKnown'
  BY DEF R!Start, R!maps, R!LateIsKnown, R!SomeoneCleared
<1> QED BY <1>1, <1>2, <1>3, <1>4, <1>5

LEMMA ReadKeeps ==
  ASSUME R!RefreshInv, NEW r \in Refreshes, R!Read(r) PROVE R!RefreshInv'
<1>1. R!TypeOK'
  BY DEF R!Read, R!maps, R!Places, R!SomeoneCleared
<1>2. R!FilledBehind'
  BY DEF R!Read, R!maps, R!FilledBehind, R!SetByLatest, R!LateIsKnown, R!SomeoneCleared
<1>3. R!LatestWins'
  BY DEF R!Read, R!maps, R!LatestWins, R!FilledBehind, R!SetByLatest, R!SomeoneCleared
<1>4. R!SomeoneCleared'
  BY DEF R!Read, R!maps, R!SomeoneCleared
<1>5. R!LateIsKnown'
  BY DEF R!Read, R!maps, R!LateIsKnown, R!SomeoneCleared
<1> QED BY <1>1, <1>2, <1>3, <1>4, <1>5

(* The maps are cleared: r is the latest from here on. *)
LEMMA BeginKeeps ==
  ASSUME R!RefreshInv, NEW r \in Refreshes, R!Begin(r) PROVE R!RefreshInv'
<1>1. R!TypeOK'
  BY DEF R!Begin, R!TakeSchema, R!StillToFill, R!Nobody, R!Places, R!SomeoneCleared
<1>2. R!FilledBehind'
  BY DEF R!Begin, R!TakeSchema, R!Nobody, R!FilledBehind, R!SetByLatest, R!LateIsKnown, R!SomeoneCleared
<1>3. R!LatestWins'
  BY DEF R!Begin, R!TakeSchema, R!LatestWins, R!FilledBehind, R!SetByLatest, R!SomeoneCleared
<1>4. R!SomeoneCleared'
  BY DEF R!Begin, R!TakeSchema, R!SomeoneCleared
<1>5. R!LateIsKnown'
  BY DEF R!Begin, R!TakeSchema, R!StillToFill, R!LateIsKnown, R!SomeoneCleared
<1> QED BY <1>1, <1>2, <1>3, <1>4, <1>5

(* One schema more is filled, by the latest refresh or by another. *)
LEMMA NextSchemaKeeps ==
  ASSUME R!RefreshInv, NEW r \in Refreshes, R!NextSchema(r) PROVE R!RefreshInv'
<1>1. R!TypeOK'
  BY DEF R!NextSchema, R!TakeSchema, R!Places, R!SomeoneCleared
<1>2. R!FilledBehind'
  BY DEF R!NextSchema, R!TakeSchema, R!FilledBehind, R!SetByLatest, R!LateIsKnown, R!SomeoneCleared
<1>3. R!LatestWins'
  BY DEF R!NextSchema, R!TakeSchema, R!LatestWins, R!FilledBehind, R!SetByLatest, R!SomeoneCleared
<1>4. R!SomeoneCleared'
  BY DEF R!NextSchema, R!TakeSchema, R!SomeoneCleared
<1>5. R!LateIsKnown'
  BY DEF R!NextSchema, R!TakeSchema, R!LateIsKnown, R!SomeoneCleared
<1> QED BY <1>1, <1>2, <1>3, <1>4, <1>5

LEMMA LastSchemaKeeps ==
  ASSUME R!RefreshInv, NEW r \in Refreshes, R!LastSchema(r) PROVE R!RefreshInv'
<1>1. R!TypeOK'
  BY DEF R!LastSchema, R!Places, R!SomeoneCleared
<1>2. R!FilledBehind'
  BY DEF R!LastSchema, R!FilledBehind, R!SetByLatest, R!LateIsKnown, R!SomeoneCleared
<1>3. R!LatestWins'
  BY DEF R!LastSchema, R!LatestWins, R!FilledBehind, R!SetByLatest, R!SomeoneCleared
<1>4. R!SomeoneCleared'
  BY DEF R!LastSchema, R!SomeoneCleared
<1>5. R!LateIsKnown'
  BY DEF R!LastSchema, R!LateIsKnown, R!SomeoneCleared
<1> QED BY <1>1, <1>2, <1>3, <1>4, <1>5

(* Whoever ingests takes the list of the latest refresh, and its maps. *)
LEMMA GatherKeeps ==
  ASSUME R!RefreshInv, NEW r \in Refreshes, R!Ingest(r) PROVE R!RefreshInv'
<1>1. R!TypeOK'
  BY DEF R!Ingest, R!Gathered, R!maps, R!Places, R!SomeoneCleared
<1>2. R!FilledBehind'
  BY DEF R!Ingest, R!Gathered, R!maps, R!FilledBehind, R!SetByLatest, R!LateIsKnown, R!SomeoneCleared
<1>3. R!LatestWins'
  BY DEF R!Ingest, R!Gathered, R!maps, R!LatestWins, R!FilledBehind, R!SetByLatest, R!SomeoneCleared
<1>4. R!SomeoneCleared'
  BY DEF R!Ingest, R!Gathered, R!maps, R!SomeoneCleared
<1>5. R!LateIsKnown'
  BY DEF R!Ingest, R!Gathered, R!maps, R!LateIsKnown, R!SomeoneCleared
<1> QED BY <1>1, <1>2, <1>3, <1>4, <1>5

LEMMA FailKeeps ==
  ASSUME R!RefreshInv, NEW r \in Refreshes, R!Fail(r) PROVE R!RefreshInv'
<1>1. R!TypeOK'
  BY DEF R!Fail, R!maps, R!Places, R!SomeoneCleared
<1>2. R!FilledBehind'
  BY DEF R!Fail, R!maps, R!FilledBehind, R!SetByLatest, R!LateIsKnown, R!SomeoneCleared
<1>3. R!LatestWins'
  BY DEF R!Fail, R!maps, R!LatestWins, R!FilledBehind, R!SetByLatest, R!SomeoneCleared
<1>4. R!SomeoneCleared'
  BY DEF R!Fail, R!maps, R!SomeoneCleared
<1>5. R!LateIsKnown'
  BY DEF R!Fail, R!maps, R!LateIsKnown, R!SomeoneCleared
<1> QED BY <1>1, <1>2, <1>3, <1>4, <1>5

LEMMA RefreshKeeps == R!RefreshInv /\ [R!Next]_R!vars => R!RefreshInv'
<1> SUFFICES ASSUME R!RefreshInv, [R!Next]_R!vars PROVE R!RefreshInv'
  OBVIOUS
<1>1. CASE R!ChangeDatabase
  BY <1>1 DEF R!ChangeDatabase, R!maps, R!Places, R!LatestWins, R!FilledBehind,
              R!SetByLatest, R!LateIsKnown, R!SomeoneCleared
<1>2. CASE UNCHANGED R!vars
  BY <1>2 DEF R!vars, R!LatestWins, R!FilledBehind, R!SetByLatest, R!LateIsKnown, R!SomeoneCleared
<1> QED
  BY <1>1, <1>2, StartKeeps, ReadKeeps, BeginKeeps, NextSchemaKeeps, LastSchemaKeeps, GatherKeeps, FailKeeps
  DEF R!Next, R!RefreshStep

-----------------------------------------------------------------------------
(* Both together: a refresh begins in the first session of the connection, *)
(* and until there is one the connection has neither row nor refresh.      *)
SessionInv ==
  /\ CacheInv
  /\ session \in {"none", "first", "later"}
  /\ session # "later" => R!RefreshInv
  /\ session = "none" => /\ ~Saved(Refreshed) /\ latest = None
                         /\ \A r \in Refreshes : pc[r] = "idle"

LEMMA HeldStays == stored'[Refreshed] = stored[Refreshed] => Held' = Held
BY DEF Held

LEMMA DatabaseStays ==
  ASSUME R!RefreshInv, Held' = Held, UNCHANGED <<database, adapter>> PROVE R!RefreshInv'
BY DEF database, adapter, R!LatestWins, R!FilledBehind, R!SetByLatest, R!LateIsKnown,
       R!SomeoneCleared

(* What happens to the cache is a step of MetadataCache, or none. *)
LEMMA CacheStep == ASSUME SessionNext PROVE Next \/ UNCHANGED vars
<1>1. ASSUME NEW c \in Connections, AddOrEdit(c) PROVE Next \/ UNCHANGED vars
  BY <1>1 DEF AddOrEdit, Next
<1>2. ASSUME NEW c \in Connections, RemoveConnection(c) PROVE Next \/ UNCHANGED vars
  BY <1>2 DEF RemoveConnection, Next
<1>3. ASSUME NEW c \in Connections, OtherIngest(c) PROVE Next \/ UNCHANGED vars
  BY <1>3 DEF OtherIngest, Next
<1>4. ASSUME Regroup PROVE Next \/ UNCHANGED vars
  BY <1>4 DEF Regroup, Next
<1>5. ASSUME RestartBackend PROVE Next \/ UNCHANGED vars
  BY <1>5 DEF RestartBackend, Next
<1>6. ASSUME SchemasChange PROVE Next \/ UNCHANGED vars
  BY <1>6 DEF SchemasChange, vars
<1>7. ASSUME NEW r \in Refreshes, RefreshIngests(r) PROVE Next \/ UNCHANGED vars
  BY <1>7, SessionAssumption DEF RefreshIngests, Ingestible, SchemaSets, Next
<1>8. ASSUME NEW r \in Refreshes, RefreshStep(r) \/ RefreshWritesNothing(r) PROVE Next \/ UNCHANGED vars
  BY <1>8 DEF RefreshStep, RefreshWritesNothing, vars
<1> QED BY <1>1, <1>2, <1>3, <1>4, <1>5, <1>6, <1>7, <1>8 DEF SessionNext

(* Refreshes, other sessions and restarts change the cache as its methods  *)
(* do: the backend with its sessions implements the cache.                 *)
THEOREM SessionImplementsCache == SessionSpec => Spec
<1>1. SessionInit => Init
  BY DEF SessionInit
<1>2. [SessionNext]_<<vars, session, database, adapter>> => [Next]_vars
  BY CacheStep DEF vars
<1> QED BY <1>1, <1>2, PTL DEF SessionSpec, Spec

(* What the rows say of the connection changes with its session only. *)
LEMMA AddOrEditKeeps ==
  ASSUME SessionInv, NEW c \in Connections, AddOrEdit(c), CacheInv' PROVE SessionInv'
<1>1. stored' = stored
  BY DEF AddOrEdit, Upsert
<1>2. R!RefreshInv => R!RefreshInv'
  BY <1>1, HeldStays, DatabaseStays DEF AddOrEdit
<1>3. session' = "none" => session = "none" /\ c # Refreshed
  BY DEF AddOrEdit, SessionInv
<1>4. c # Refreshed => rows'[Refreshed] = rows[Refreshed]
  BY SessionAssumption DEF AddOrEdit, Upsert, SessionInv, CacheInv, TypeOK
<1>5. latest' = latest /\ pc' = pc
  BY DEF AddOrEdit, adapter
<1>6. session' \in {"none", "first", "later"} /\ (session' # "later" => session # "later")
  BY DEF AddOrEdit, SessionInv
<1> QED BY <1>2, <1>3, <1>4, <1>5, <1>6 DEF SessionInv, Saved

LEMMA RemoveConnectionKeeps ==
  ASSUME SessionInv, NEW c \in Connections, RemoveConnection(c), CacheInv' PROVE SessionInv'
<1>1. session' \in {"none", "first", "later"} /\ (session' # "later" => session' = session)
  BY DEF RemoveConnection, Later, SessionInv
<1>2. session' # "later" => stored'[Refreshed] = stored[Refreshed]
  <2>1. CASE c # Refreshed
    BY <2>1, SessionAssumption DEF RemoveConnection, Remove, SessionInv, CacheInv, TypeOK
  <2>2. CASE c = Refreshed
    <3>1. session' # "later" => ~Saved(Refreshed)
      BY <2>2 DEF RemoveConnection, Later, SessionInv
    <3>2. session' # "later" => stored[Refreshed] = Nothing
      BY <3>1, SessionAssumption DEF SessionInv, CacheInv, NothingDangles
    <3>3. stored'[Refreshed] = Nothing
      BY <2>2, SessionAssumption DEF RemoveConnection, Remove, SessionInv, CacheInv, TypeOK
    <3> QED BY <3>2, <3>3
  <2> QED BY <2>1, <2>2
<1>3. session' # "later" => (R!RefreshInv => R!RefreshInv')
  BY <1>2, HeldStays, DatabaseStays DEF RemoveConnection
<1>4. ~Saved(Refreshed) => ~Saved(Refreshed)'
  BY SessionAssumption DEF RemoveConnection, Remove, SessionInv, CacheInv, TypeOK, Saved
<1>5. latest' = latest /\ pc' = pc
  BY DEF RemoveConnection, adapter
<1> QED BY <1>1, <1>3, <1>4, <1>5 DEF SessionInv

LEMMA RegroupKeeps == ASSUME SessionInv, Regroup, CacheInv' PROVE SessionInv'
<1>1. stored' = stored
  BY DEF Regroup, CreateGroup, DeleteGroup, Move
<1>2. R!RefreshInv => R!RefreshInv'
  BY <1>1, HeldStays, DatabaseStays DEF Regroup
<1>3. ~Saved(Refreshed) => ~Saved(Refreshed)'
  <2>1. ASSUME NEW g \in Groups, CreateGroup(g), ~Saved(Refreshed) PROVE ~Saved(Refreshed)'
    BY <2>1 DEF CreateGroup, Saved
  <2>2. ASSUME NEW g \in Groups, DeleteGroup(g), ~Saved(Refreshed) PROVE ~Saved(Refreshed)'
    BY <2>2, SessionAssumption DEF DeleteGroup, Ungrouped, Saved
  <2>3. ASSUME NEW c \in Connections, NEW g \in Groups \cup {None}, Move(c, g), ~Saved(Refreshed)
        PROVE  ~Saved(Refreshed)'
    <3>1. c # Refreshed
      BY <2>3 DEF Move, Known, Saved, SessionInv, CacheInv, MirrorAgrees
    <3> QED BY <2>3, <3>1, SessionAssumption DEF Move, Saved, SessionInv, CacheInv, TypeOK
  <2> QED BY <2>1, <2>2, <2>3 DEF Regroup
<1>4. session' = session /\ latest' = latest /\ pc' = pc
  BY DEF Regroup, adapter
<1> QED BY <1>2, <1>3, <1>4 DEF SessionInv

(* Another connection, or a session whose refreshes are not counted. *)
LEMMA OtherIngestKeeps ==
  ASSUME SessionInv, NEW c \in Connections, OtherIngest(c), CacheInv' PROVE SessionInv'
<1>1. session' = session /\ latest' = latest /\ pc' = pc
  BY DEF OtherIngest, adapter
<1>2. CASE session = "later"
  BY <1>1, <1>2 DEF SessionInv
<1>3. CASE session # "later"
  <2>1. c # Refreshed
    BY <1>3 DEF OtherIngest
  <2>2. stored'[Refreshed] = stored[Refreshed] /\ rows'[Refreshed] = rows[Refreshed]
    BY <2>1, SessionAssumption DEF OtherIngest, Ingest, SessionInv, CacheInv, TypeOK
  <2>3. R!RefreshInv'
    BY <1>3, <2>2, HeldStays, DatabaseStays DEF OtherIngest, SessionInv
  <2> QED BY <1>1, <2>2, <2>3 DEF SessionInv, Saved
<1> QED BY <1>2, <1>3

LEMMA RestartBackendKeeps == ASSUME SessionInv, RestartBackend, CacheInv' PROVE SessionInv'
<1>1. CASE session # "none"
  BY <1>1 DEF RestartBackend, Later, SessionInv
<1>2. CASE session = "none"
  <2>1. session' = "none" /\ rows' = rows /\ Held' = Held
    BY <1>2 DEF RestartBackend, Restart, Later, Held
  <2>2. UNCHANGED <<database, seen, todo, listed, relations, functions, latest, late>> /\ latest = None
    BY <1>2 DEF RestartBackend, SessionInv
  <2>3. pc' = pc
    BY <1>2 DEF RestartBackend, SessionInv
  <2>4. current' \in [Refreshes -> Schemas \cup {None}]
    BY DEF RestartBackend
  <2>5. \A r \in Refreshes : pc[r] = "idle"
    BY <1>2 DEF SessionInv
  <2>6. R!RefreshInv
    BY <1>2 DEF SessionInv
  <2>7. R!RefreshInv'
    BY <2>1, <2>2, <2>3, <2>4, <2>5, <2>6
    DEF database, R!LatestWins, R!FilledBehind, R!LateIsKnown, R!SomeoneCleared
  <2> QED BY <1>2, <2>1, <2>2, <2>3, <2>5, <2>7 DEF SessionInv, Saved
<1> QED BY <1>1, <1>2

(* A refresh, or the ingest that ends it, is a step of MetadataRefresh. *)
LEMMA RefreshesKeep ==
  ASSUME SessionInv, NEW r \in Refreshes, CacheInv',
         RefreshStep(r) \/ RefreshIngests(r) \/ RefreshWritesNothing(r)
  PROVE  SessionInv'
<1>1. session' = session
  BY DEF RefreshStep, RefreshIngests, RefreshWritesNothing
<1>2. R!RefreshStep(r)
  BY DEF RefreshStep, RefreshIngests, RefreshWritesNothing, R!RefreshStep
<1>3. R!RefreshInv => R!RefreshInv'
  BY <1>2, RefreshKeeps DEF R!Next
<1>4. session # "none"
  BY DEF SessionInv, RefreshStep, RefreshIngests, RefreshWritesNothing,
         R!Read, R!Begin, R!NextSchema, R!LastSchema, R!Fail, R!Ingest
<1> QED BY <1>1, <1>3, <1>4 DEF SessionInv

LEMMA SchemasChangeKeeps == ASSUME SessionInv, SchemasChange, CacheInv' PROVE SessionInv'
<1>1. R!RefreshInv => R!RefreshInv'
  BY RefreshKeeps DEF SchemasChange, R!Next
<1>2. session' = session /\ rows' = rows /\ latest' = latest /\ pc' = pc
  BY DEF SchemasChange, vars, R!ChangeDatabase
<1> QED BY <1>1, <1>2 DEF SessionInv, Saved

LEMMA SessionKeeps ==
  SessionInv /\ [SessionNext]_<<vars, session, database, adapter>> => SessionInv'
<1> SUFFICES ASSUME SessionInv, [SessionNext]_<<vars, session, database, adapter>>
             PROVE  SessionInv'
  OBVIOUS
<1>1. CASE UNCHANGED <<vars, session, database, adapter>>
  <2>1. CacheInv'
    BY <1>1, CacheKeeps DEF SessionInv
  <2>2. R!RefreshInv => R!RefreshInv'
    BY <1>1, HeldStays, DatabaseStays DEF vars
  <2>3. session' = session /\ rows' = rows /\ latest' = latest /\ pc' = pc
    BY <1>1 DEF vars, adapter
  <2> QED BY <2>1, <2>2, <2>3 DEF SessionInv, Saved
<1>2. CASE SessionNext
  <2>1. CacheInv'
    BY <1>2, CacheStep, CacheKeeps DEF SessionInv
  <2> QED
    BY <1>2, <2>1, AddOrEditKeeps, RemoveConnectionKeeps, RegroupKeeps, OtherIngestKeeps,
       RestartBackendKeeps, RefreshesKeep, SchemasChangeKeeps DEF SessionNext
<1> QED BY <1>1, <1>2

LEMMA SessionHolds == SessionSpec => []SessionInv
<1>1. SessionInit => SessionInv
  <2>1. SessionInit => CacheInv
    BY CacheInit DEF SessionInit
  <2>2. SessionInit => R!RefreshInv
    BY RefreshInitKeeps, SessionAssumption DEF SessionInit
  <2>3. SessionInit => session = "none" /\ ~Saved(Refreshed) /\ latest = None
                       /\ \A r \in Refreshes : pc[r] = "idle"
    BY SessionAssumption DEF SessionInit, Init, R!Init, Saved
  <2> QED BY <2>1, <2>2, <2>3 DEF SessionInv
<1> QED BY <1>1, SessionKeeps, PTL DEF SessionSpec

(* With refreshes, ingests of other sessions and restarts of the backend,  *)
(* memory and tables agree, and edits keep slot and group.                 *)
THEOREM SessionKeepsCache == SessionSpec => []CacheInv /\ EditsKeepSlotAndGroup
BY SessionImplementsCache, CacheHolds, EditsAreConservative, PTL

(* While the first session lasts the tables hold, of its connection, the   *)
(* schemas that the refresh that began last saw, once that one is done,    *)
(* each with relations and functions, and these as it read them itself,    *)
(* but for schemas that an older refresh was still to fill: for any number *)
(* of refreshes, schemas and other connections, whatever becomes of rows   *)
(* and groups meanwhile.                                                   *)
THEOREM LatestDecides == SessionSpec => []LatestWins
<1>1. SessionInv => LatestWins
  BY DEF SessionInv, LatestWins
<1> QED BY <1>1, SessionHolds, PTL

-----------------------------------------------------------------------------
(***************************************************************************)
(* Edits of a result: E!EditInv ties what the grid shows to the row it is  *)
(* of, the answer of an analysis to the query that is shown, and an UPDATE *)
(* under way to the key of its row.                                        *)
(***************************************************************************)
(* What the assumptions about the tables give the provers. *)
LEMMA EditingFacts ==
  /\ Listed \in E!Bijection(DOMAIN Listed, E!Listing) /\ DOMAIN Listed \subseteq Nat
  /\ DOMAIN ColumnOrder \subseteq Nat
  /\ Other \notin E!Columns /\ None \notin E!Listing /\ None \notin E!Columns
  /\ None \notin E!Keys /\ None \notin E!Tables /\ None \notin E!Row /\ None \notin E!Results
  /\ (CHOOSE v \in Values : TRUE) \in Values
  /\ Written \subseteq E!Queries
<1>0. E!EditingAssumption
  BY EditedAssumption
<1>1. DOMAIN Listed = 1 .. Len(Listed) /\ DOMAIN ColumnOrder = 1 .. Len(ColumnOrder)
  BY <1>0 DEF E!EditingAssumption
<1>2. Listed \in E!Bijection(DOMAIN Listed, E!Listing)
  BY <1>0 DEF E!EditingAssumption, E!Bijection, E!Injection, E!Surjection, E!Listing, E!Range
<1>3. (CHOOSE v \in Values : TRUE) \in Values
  BY <1>0 DEF E!EditingAssumption
<1> QED
  BY <1>0, <1>1, <1>2, <1>3 DEF E!EditingAssumption

(* A query shows as many items as there are columns. *)
LEMMA QueryIs ==
  ASSUME NEW q \in Written
  PROVE  /\ q \in E!Queries /\ DOMAIN q.items = DOMAIN ColumnOrder
         /\ \A i \in DOMAIN ColumnOrder : q.items[i].column \in E!Columns \cup {None}
<1>1. q \in E!Queries
  BY EditingFacts
<1>2. E!Star \in [DOMAIN ColumnOrder -> E!Items]
  BY DEF E!Star, E!Items, E!Columns, E!Range
<1>3. q.items \in [DOMAIN ColumnOrder -> E!Items]
  BY <1>1, <1>2 DEF E!Queries
<1> QED
  BY <1>1, <1>3 DEF E!Items

(* What a name means, when it is qualified and when there is one table. *)
LEMMA MeantIs ==
  ASSUME NEW order \in E!Bijection(DOMAIN Listed, E!Listing), NEW known \in SUBSET E!Listing,
         NEW schema \in E!Listing \cup {None}
  PROVE  /\ schema # None => E!Meant(schema, order, known) = IF schema \in known THEN schema ELSE None
         /\ \A s : schema = None /\ known = {s} => E!Meant(schema, order, known) = s
<1>1. ASSUME schema # None
      PROVE  E!Meant(schema, order, known) = IF schema \in known THEN schema ELSE None
  <2> DEFINE at == {i \in DOMAIN <<schema>> : <<schema>>[i] \in known}
  <2>1. E!Meant(schema, order, known)
          = IF at = {} THEN None ELSE <<schema>>[CHOOSE i \in at : \A j \in at : i <= j]
    BY <1>1 DEF E!Meant, E!First
  <2>2. schema \in known => at = {1}
    OBVIOUS
  <2>3. schema \notin known => at = {}
    OBVIOUS
  <2>4. at = {1} => (CHOOSE i \in at : \A j \in at : i <= j) = 1
    OBVIOUS
  <2> QED
    BY <2>1, <2>2, <2>3, <2>4
<1>2. ASSUME NEW s, schema = None, known = {s}
      PROVE  E!Meant(schema, order, known) = s
  <2> DEFINE at == {i \in DOMAIN order : order[i] \in known}
  <2>1. E!Meant(schema, order, known)
          = IF at = {} THEN None ELSE order[CHOOSE i \in at : \A j \in at : i <= j]
    BY <1>2 DEF E!Meant, E!First
  <2>2. PICK i \in DOMAIN Listed : order[i] = s
    BY <1>2 DEF E!Bijection, E!Surjection
  <2>3. DOMAIN order = DOMAIN Listed /\ \A a, b \in DOMAIN order : order[a] = order[b] => a = b
    BY DEF E!Bijection, E!Injection, E!IsInjective
  <2>4. at = {i} /\ i \in Nat
    BY <1>2, <2>2, <2>3, EditingFacts
  <2>5. (CHOOSE k \in at : \A j \in at : k <= j) = i
    BY <2>4
  <2> QED
    BY <2>1, <2>2, <2>4, <2>5
<1> QED
  BY <1>1, <1>2

(* In both cases it is the one table, for database and cache. *)
LEMMA ClearIsMeant ==
  ASSUME NEW order \in E!Bijection(DOMAIN Listed, E!Listing), NEW q \in E!Queries, E!Clear(q),
         E!Meant(q.schema, order, E!Known) # None
  PROVE  /\ E!Meant(q.schema, order, E!Known) \in E!Known
         /\ q.schema # None => q.schema = E!Meant(q.schema, order, E!Known)
         /\ q.schema = None => E!Known = {E!Meant(q.schema, order, E!Known)}
<1>1. q.schema \in E!Listing \cup {None} /\ E!Known \in SUBSET E!Listing
  BY DEF E!Queries, E!Known
<1>2. CASE q.schema # None
  BY <1>1, <1>2, MeantIs
<1>3. CASE q.schema = None
  <2>1. PICK s \in E!Known : E!Known = {s}
    BY <1>3 DEF E!Clear, E!MeansOne, E!One
  <2> QED
    BY <1>1, <1>3, <2>1, MeantIs
<1> QED
  BY <1>2, <1>3

(* The cell of a column by its name: the only one that shows it. *)
LEMMA NamedShows ==
  ASSUME NEW k \in E!Columns, result # None, result.query \in Written, E!NamesAreColumns(result.query),
         E!Named(k) # None
  PROVE  E!Named(k) \in DOMAIN result.query.items /\ result.query.items[E!Named(k)].column = k
<1> DEFINE items == result.query.items
           at == {i \in DOMAIN items : items[i].name = k}
<1>1. E!Named(k) = IF at = {} THEN None ELSE CHOOSE i \in at : \A j \in at : i <= j
  BY DEF E!Named
<1>2. \A i \in at : items[i].column = k
  BY EditingFacts DEF E!NamesAreColumns
<1>3. \A i, j \in at : i = j
  BY <1>2, EditingFacts DEF E!NamesAreColumns
<1>4. at # {} /\ at \subseteq Nat
  <2>1. DOMAIN items = DOMAIN ColumnOrder
    BY QueryIs
  <2> QED
    BY <1>1, <2>1, EditingFacts
<1>5. PICK i \in at : at = {i} /\ i \in Nat
  BY <1>3, <1>4
<1>6. E!Named(k) = i
  BY <1>1, <1>5
<1> QED
  BY <1>2, <1>5, <1>6

-----------------------------------------------------------------------------
(* What others do to tables: rows that are there stay as they are. *)
RowsStay ==
  /\ \A s \in E!Listing : tables'[s] = None <=> tables[s] = None
  /\ \A s \in E!Listing, r \in Rows :
       tables[s] # None /\ tables[s].rows[r] # None => tables'[s].rows[r] = tables[s].rows[r]

(* Then whatever the invariant reads of the tables is as it was, *)
LEMMA StaysDoes ==
  ASSUME RowsStay
  PROVE  /\ E!Known' = E!Known /\ (E!MeansOne' <=> E!MeansOne)
         /\ \A q : E!Clear(q)' <=> E!Clear(q)
         /\ \A line : E!Exists(line) => E!Exists(line)' /\ \A k : E!Cell(line, k)' = E!Cell(line, k)
<1>1. E!Known' = E!Known
  BY DEF RowsStay, E!Known
<1>2. E!MeansOne' <=> E!MeansOne
  BY <1>1 DEF E!MeansOne
<1>3. \A q : E!Clear(q)' <=> E!Clear(q)
  BY <1>2 DEF E!Clear, E!NamesAreColumns
<1>4. ASSUME NEW line, E!Exists(line) PROVE E!Exists(line)' /\ \A k : E!Cell(line, k)' = E!Cell(line, k)
  <2>1. /\ line[1] \in E!Listing /\ line[2] \in Rows
        /\ tables[line[1]] # None /\ tables[line[1]].rows[line[2]] # None
    BY <1>4 DEF E!Exists
  <2>2. tables'[line[1]] # None /\ tables'[line[1]].rows[line[2]] = tables[line[1]].rows[line[2]]
    BY <2>1 DEF RowsStay
  <2> QED
    BY <1>4, <2>1, <2>2 DEF E!Exists, E!Cell
<1> QED
  BY <1>1, <1>2, <1>3, <1>4

(* and the invariant holds as before. *)
LEMMA StayKeeps ==
  ASSUME E!EditInv, RowsStay, tables' \in [E!Listing -> E!Tables \cup {None}],
         path' = path, keys' = keys, result' = result, editability' = editability,
         analyses' = analyses, update' = update, run' = run, wrote' = wrote, touched' = touched
  PROVE  E!EditInv'
<1>0. /\ E!Known' = E!Known /\ (E!MeansOne' <=> E!MeansOne)
      /\ \A q : E!Clear(q)' <=> E!Clear(q)
      /\ \A line : E!Exists(line) => E!Exists(line)' /\ \A k : E!Cell(line, k)' = E!Cell(line, k)
  BY StaysDoes
<1>1. E!TypeOK'
  BY DEF E!EditInv, E!TypeOK
<1>2. E!TablesAreCached'
  BY DEF E!EditInv, E!TablesAreCached, RowsStay
<1>3. E!FromIsMeant'
  BY <1>0 DEF E!EditInv, E!FromIsMeant, E!TypeOK, E!Results, RowsStay
<1>4. E!ShownIsThere'
  BY <1>0 DEF E!EditInv, E!ShownIsThere
<1>5. E!AnswersAreOwn'
  BY <1>0 DEF E!EditInv, E!AnswersAreOwn
<1>6. E!UpdateIsOwn'
  BY <1>0 DEF E!EditInv, E!UpdateIsOwn, E!NamesAreColumns
<1>7. E!WritesTheRow'
  BY DEF E!EditInv, E!WritesTheRow
<1> QED
  BY <1>1, <1>2, <1>3, <1>4, <1>5, <1>6, <1>7 DEF E!EditInv

(* Rows of a table that are replaced by rows. *)
LEMMA WithRowsDoes ==
  ASSUME E!EditInv, NEW s \in E!Listing, tables[s] # None, NEW lines \in [Rows -> E!Row \cup {None}],
         tables' = E!WithRows(s, lines)
  PROVE  /\ tables' \in [E!Listing -> E!Tables \cup {None}]
         /\ tables'[s] # None /\ tables'[s].rows = lines
         /\ \A t \in E!Listing : t # s => tables'[t] = tables[t]
<1>0. tables \in [E!Listing -> E!Tables \cup {None}] /\ tables[s] \in E!Tables
  BY DEF E!EditInv, E!TypeOK
<1>1. tables[s].key \in E!Keys
  BY <1>0 DEF E!Tables
<1>2. PICK table : table = [key |-> tables[s].key, rows |-> lines]
  OBVIOUS
<1>3. table \in E!Tables /\ table.rows = lines /\ table # None
  BY <1>1, <1>2, EditingFacts DEF E!Tables
<1>4. tables' = [tables EXCEPT ![s] = table]
  BY <1>2 DEF E!WithRows
<1> QED
  BY <1>0, <1>3, <1>4

(* A new row takes a place that was free. *)
LEMMA FillKeeps ==
  ASSUME E!EditInv, NEW s \in E!Listing, tables[s] # None, NEW r \in Rows, tables[s].rows[r] = None,
         NEW row \in E!Row, tables' = E!WithRows(s, [tables[s].rows EXCEPT ![r] = row]),
         path' = path, keys' = keys, result' = result, editability' = editability,
         analyses' = analyses, update' = update, run' = run, wrote' = wrote, touched' = touched
  PROVE  E!EditInv'
<1>0. tables[s].rows \in [Rows -> E!Row \cup {None}]
  BY DEF E!EditInv, E!TypeOK, E!Tables
<1>1. PICK lines \in [Rows -> E!Row \cup {None}] : lines = [tables[s].rows EXCEPT ![r] = row]
  BY <1>0
<1>2. \A x \in Rows : x # r => lines[x] = tables[s].rows[x]
  BY <1>0, <1>1
<1>3. /\ tables' \in [E!Listing -> E!Tables \cup {None}]
      /\ tables'[s] # None /\ tables'[s].rows = lines
      /\ \A t \in E!Listing : t # s => tables'[t] = tables[t]
  BY <1>1, WithRowsDoes
<1>4. RowsStay
  BY <1>2, <1>3 DEF RowsStay
<1> QED
  BY <1>3, <1>4, StayKeeps

(* row.insert. *)
LEMMA InsertRowKeeps == ASSUME E!EditInv, NEW row \in E!Row, E!InsertRow(row) PROVE E!EditInv'
<1> DEFINE s == E!Resolve(editability.schema)
           free == {r \in Rows : tables[s].rows[r] = None}
           r == CHOOSE r \in free : TRUE
<1>1. /\ s # None /\ tables[s] # None /\ free # {}
      /\ tables' = E!WithRows(s, [tables[s].rows EXCEPT ![r] = row])
      /\ path' = path /\ keys' = keys /\ result' = result /\ editability' = editability
      /\ analyses' = analyses /\ update' = update /\ run' = run /\ wrote' = wrote
      /\ touched' = touched
  BY DEF E!InsertRow
<1>2. r \in free
  BY <1>1
<1> HIDE DEF s, r
<1>3. CASE s \in E!Listing
  BY <1>1, <1>2, <1>3, FillKeeps
<1>4. CASE s \notin E!Listing
  <2>1. tables' = tables
    BY <1>1, <1>4 DEF E!WithRows, E!EditInv, E!TypeOK
  <2>2. RowsStay
    BY <2>1 DEF RowsStay
  <2> QED
    BY <1>1, <2>1, <2>2, StayKeeps DEF E!EditInv, E!TypeOK
<1> QED
  BY <1>3, <1>4

(* What others write into a row is touched from then on: of the rest of it *)
(* the invariant says what it said, and of other rows anyway.              *)
LEMMA OthersWriteKeeps ==
  ASSUME E!EditInv, NEW s \in E!Listing, NEW r \in Rows, NEW row \in E!Row \cup {None},
         E!OthersWrite(s, r, row)
  PROVE  E!EditInv'
<1> DEFINE columns == E!Differing(tables[s].rows[r], row)
           known == touched.shown \cup E!IfFrom(<<s, r>>, result, columns)
           edited == touched.edited \cup E!IfFrom(<<s, r>>, update, columns)
<1>0. /\ path' = path /\ keys' = keys /\ result' = result /\ editability' = editability
      /\ analyses' = analyses /\ update' = update /\ run' = run /\ wrote' = wrote
      /\ tables[s] # None
      /\ tables' = E!WithRows(s, [tables[s].rows EXCEPT ![r] = row])
      /\ touched' = [shown |-> known, edited |-> edited]
  BY DEF E!OthersWrite
<1>1. /\ columns \subseteq E!Columns
      /\ \A c \in E!Columns \ columns :
           tables[s].rows[r] # None /\ row # None /\ tables[s].rows[r][c] = row[c]
  BY DEF E!Differing
<1>2. tables[s].rows \in [Rows -> E!Row \cup {None}]
  BY <1>0 DEF E!EditInv, E!TypeOK, E!Tables
<1>3. PICK lines \in [Rows -> E!Row \cup {None}] : lines = [tables[s].rows EXCEPT ![r] = row]
  BY <1>2
<1>4. /\ tables' \in [E!Listing -> E!Tables \cup {None}]
      /\ tables'[s] # None /\ tables'[s].rows = lines
      /\ \A t \in E!Listing : t # s => tables'[t] = tables[t]
  BY <1>0, <1>3, WithRowsDoes
<1>5. \A t \in E!Listing : tables'[t] = None <=> tables[t] = None
  BY <1>0, <1>4
<1>6. lines[r] = row /\ \A x \in Rows : x # r => lines[x] = tables[s].rows[x]
  BY <1>2, <1>3
<1>7. ASSUME NEW line, E!Exists(line), line # <<s, r>>
      PROVE  E!Exists(line)' /\ \A k : E!Cell(line, k)' = E!Cell(line, k)
  <2>1. /\ line[1] \in E!Listing /\ line[2] \in Rows /\ line = <<line[1], line[2]>>
        /\ tables[line[1]] # None /\ tables[line[1]].rows[line[2]] # None
    BY <1>7 DEF E!Exists
  <2>2. tables'[line[1]] # None /\ tables'[line[1]].rows[line[2]] = tables[line[1]].rows[line[2]]
    BY <1>4, <1>5, <1>6, <1>7, <2>1
  <2> QED
    BY <1>7, <2>1, <2>2 DEF E!Exists, E!Cell
<1>8. ASSUME NEW k \in E!Columns \ columns
      PROVE  E!Exists(<<s, r>>)' /\ E!Cell(<<s, r>>, k)' = E!Cell(<<s, r>>, k)
  BY <1>1, <1>4, <1>6, <1>8 DEF E!Exists, E!Cell
<1>9. /\ E!Known' = E!Known /\ (E!MeansOne' <=> E!MeansOne)
      /\ \A q : E!Clear(q)' <=> E!Clear(q)
  BY <1>5 DEF E!Known, E!MeansOne, E!Clear, E!NamesAreColumns
<1> HIDE DEF columns
<1>10. /\ touched'.shown = known /\ touched'.edited = edited
       /\ touched' \in [shown : SUBSET E!Columns, edited : SUBSET E!Columns]
       /\ touched.shown \subseteq known /\ touched.edited \subseteq edited
       /\ result # None /\ result.from = <<s, r>> => columns \subseteq known
       /\ update # None /\ update.from = <<s, r>> => columns \subseteq edited
  BY <1>0, <1>1 DEF E!IfFrom, E!EditInv, E!TypeOK
<1> HIDE DEF known, edited
<1>11. E!TypeOK'
  BY <1>0, <1>4, <1>10 DEF E!EditInv, E!TypeOK
<1>12. E!TablesAreCached'
  BY <1>0, <1>5 DEF E!EditInv, E!TablesAreCached
<1>13. E!FromIsMeant'
  BY <1>0, <1>5, <1>9 DEF E!EditInv, E!FromIsMeant, E!TypeOK, E!Results
<1>14. E!ShownIsThere'
  <2>1. ASSUME NEW line, NEW k, NEW i, result # None, result.honest, E!Clear(result.query),
               line = result.from, i \in DOMAIN result.query.items,
               k = result.query.items[i].column, k \in E!Columns \ known
        PROVE  E!Exists(line)' /\ result.cells[i] = E!Cell(line, k)'
    <3>1. E!Exists(line) /\ result.cells[i] = E!Cell(line, k)
      BY <1>10, <2>1 DEF E!EditInv, E!ShownIsThere
    <3>2. CASE line = <<s, r>>
      <4>1. k \in E!Columns \ columns
        BY <1>10, <2>1, <3>2
      <4> QED
        BY <1>8, <3>1, <3>2, <4>1
    <3>3. CASE line # <<s, r>>
      BY <1>7, <3>1, <3>3
    <3> QED
      BY <3>2, <3>3
  <2> QED
    BY <1>0, <1>9, <1>10, <2>1 DEF E!ShownIsThere
<1>15. E!AnswersAreOwn'
  BY <1>0, <1>9 DEF E!EditInv, E!AnswersAreOwn
<1>16. E!UpdateIsOwn'
  <2>1. ASSUME NEW line, NEW k, update # None, update.clear, update.qualified \/ E!MeansOne,
               line = update.from, k \in DOMAIN update.where \ edited
        PROVE  E!Exists(line)' /\ update.where[k] = E!Cell(line, k)'
    <3>1. E!Exists(line) /\ update.where[k] = E!Cell(line, k)
      BY <1>10, <2>1 DEF E!EditInv, E!UpdateIsOwn
    <3>2. CASE line = <<s, r>>
      <4>1. k \in E!Columns \ columns
        BY <1>10, <2>1, <3>2 DEF E!EditInv, E!UpdateIsOwn
      <4> QED
        BY <1>8, <3>1, <3>2, <4>1
    <3>3. CASE line # <<s, r>>
      BY <1>7, <3>1, <3>3
    <3> QED
      BY <3>2, <3>3
  <2> QED
    BY <1>0, <1>9, <1>10, <2>1 DEF E!EditInv, E!UpdateIsOwn, E!NamesAreColumns
<1>17. E!WritesTheRow'
  BY <1>0 DEF E!EditInv, E!WritesTheRow
<1> QED
  BY <1>11, <1>12, <1>13, <1>14, <1>15, <1>16, <1>17 DEF E!EditInv

(* A changed key leaves the rows; the cache learns of it later, *)
LEMMA ChangeKeyKeeps ==
  ASSUME E!EditInv, NEW s \in E!Listing, NEW key \in E!Keys, E!ChangeKey(s, key)
  PROVE  E!EditInv'
<1>0. tables \in [E!Listing -> E!Tables \cup {None}] /\ tables[s] # None /\ tables[s] \in E!Tables
  BY DEF E!EditInv, E!TypeOK, E!ChangeKey
<1>1. tables[s].rows \in [Rows -> E!Row \cup {None}]
  BY <1>0 DEF E!Tables
<1>2. PICK table : table = [key |-> key, rows |-> tables[s].rows]
  OBVIOUS
<1>3. table \in E!Tables /\ table.rows = tables[s].rows /\ table # None
  BY <1>1, <1>2, EditingFacts DEF E!Tables
<1>4. tables' = [tables EXCEPT ![s] = table]
  BY <1>2 DEF E!ChangeKey
<1>5. tables' \in [E!Listing -> E!Tables \cup {None}] /\ RowsStay
  BY <1>0, <1>3, <1>4 DEF RowsStay
<1> QED
  BY <1>5, StayKeeps DEF E!ChangeKey

(* and no part of the invariant compares the two. *)
LEMMA IntrospectKeeps == ASSUME E!EditInv, E!Introspect PROVE E!EditInv'
<1>0. /\ path' = path /\ tables' = tables /\ result' = result /\ editability' = editability
      /\ analyses' = analyses /\ update' = update /\ run' = run /\ wrote' = wrote
      /\ touched' = touched
      /\ keys' = [s \in E!Listing |-> IF tables[s] = None THEN None ELSE tables[s].key]
  BY DEF E!Introspect
<1>1. \A s \in E!Listing : tables[s] # None => tables[s].key \in E!Keys /\ tables[s].key # None
  <2>1. \A s \in E!Listing : tables[s] # None => tables[s] \in E!Tables
    BY DEF E!EditInv, E!TypeOK
  <2> QED
    BY <2>1, EditingFacts DEF E!Tables
<1>2. E!TypeOK'
  BY <1>0, <1>1 DEF E!EditInv, E!TypeOK
<1>3. E!TablesAreCached'
  BY <1>0, <1>1 DEF E!TablesAreCached
<1>4. /\ \A q : E!Clear(q)' <=> E!Clear(q)
      /\ \A line : (E!Exists(line)' <=> E!Exists(line)) /\ \A k : E!Cell(line, k)' = E!Cell(line, k)
      /\ E!MeansOne' <=> E!MeansOne
  BY <1>0 DEF E!Clear, E!MeansOne, E!Known, E!Exists, E!Cell, E!NamesAreColumns
<1>5. E!FromIsMeant' /\ E!ShownIsThere'
  BY <1>0, <1>4 DEF E!EditInv, E!FromIsMeant, E!ShownIsThere
<1>6. E!AnswersAreOwn'
  BY <1>0, <1>4 DEF E!EditInv, E!AnswersAreOwn
<1>7. E!UpdateIsOwn'
  BY <1>0, <1>4 DEF E!EditInv, E!UpdateIsOwn, E!NamesAreColumns
<1>8. E!WritesTheRow'
  BY <1>0 DEF E!EditInv, E!WritesTheRow
<1> QED
  BY <1>2, <1>3, <1>5, <1>6, <1>7, <1>8 DEF E!EditInv

(* A new result; what is under way belongs to an earlier one. *)
LEMMA RunQueryKeeps == ASSUME E!EditInv, NEW q \in Written, E!RunQuery(q) PROVE E!EditInv'
<1> DEFINE from == E!Meant(q.schema, path, E!Known)
           sources == IF q.simple THEN {from} ELSE E!Known
<1>1. /\ path' = path /\ tables' = tables /\ keys' = keys /\ update' = update /\ wrote' = wrote
      /\ run' = run + 1 /\ editability' = None
      /\ touched' = [touched EXCEPT !.shown = {}]
      /\ analyses' = analyses \cup {[run |-> run + 1, query |-> q]}
      /\ from \in E!Known
  BY SMTT(40) DEF E!RunQuery
<1>2. PICK line \in sources \X Rows :
        /\ tables[line[1]].rows[line[2]] # None
        /\ result' = [query |-> q, from |-> line, honest |-> TRUE,
             cells |-> [i \in DOMAIN q.items |->
               IF q.items[i].column = None THEN CHOOSE v \in Values : TRUE
               ELSE tables[line[1]].rows[line[2]][q.items[i].column]]]
  BY DEF E!RunQuery
<1>3. PICK cells : cells = [i \in DOMAIN q.items |->
                       IF q.items[i].column = None THEN CHOOSE v \in Values : TRUE
                       ELSE tables[line[1]].rows[line[2]][q.items[i].column]]
  OBVIOUS
<1>4. result' = [query |-> q, from |-> line, honest |-> TRUE, cells |-> cells]
  BY <1>2, <1>3
<1>a. tables[line[1]].rows[line[2]] \in E!Row
  <2>1. line[1] \in E!Known /\ line[2] \in Rows
    BY <1>1
  <2>2. tables[line[1]] \in E!Tables
    BY SMTT(40), <2>1 DEF E!Known, E!EditInv, E!TypeOK
  <2> QED
    BY <1>2, <2>1, <2>2 DEF E!Tables
<1>b. /\ cells \in [DOMAIN ColumnOrder -> Values]
      /\ \A i \in DOMAIN q.items : q.items[i].column # None =>
           cells[i] = tables[line[1]].rows[line[2]][q.items[i].column]
  BY <1>3, <1>a, QueryIs, EditingFacts DEF E!Row
<1>c. /\ result'.query = q /\ result'.from = line /\ result'.honest = TRUE /\ result'.cells = cells
      /\ result' \in E!Results /\ result' # None
  <2>1. line \in E!Listing \X Rows
    BY <1>1 DEF E!Known
  <2>2. result' \in E!Results
    BY <1>4, <1>b, <2>1 DEF E!Results
  <2> QED
    BY <1>4, <2>2, EditingFacts
<1>5. q \in E!Queries /\ run \in Nat /\ path \in E!Bijection(DOMAIN Listed, E!Listing)
  BY EditingFacts DEF E!EditInv, E!TypeOK
<1> HIDE DEF from
<1>6. E!Clear(q) => from \in E!Known /\ (q.schema # None => q.schema = from) /\ line[1] = from
  BY <1>1, <1>2, <1>5, EditingFacts, ClearIsMeant DEF from, E!Clear, E!Known
<1>7. E!Clear(q) => E!Exists(line)
  <2>1. line[2] \in Rows /\ line = <<line[1], line[2]>>
    OBVIOUS
  <2> QED
    BY <1>2, <1>6, <2>1 DEF E!Exists, E!Known
<1>8. /\ \A x : E!Clear(x)' <=> E!Clear(x)
      /\ \A x : (E!Exists(x)' <=> E!Exists(x)) /\ \A k : E!Cell(x, k)' = E!Cell(x, k)
      /\ E!MeansOne' <=> E!MeansOne
  BY <1>1 DEF E!Clear, E!MeansOne, E!Known, E!Exists, E!Cell, E!NamesAreColumns
<1>d. /\ touched'.shown = {} /\ touched'.edited = touched.edited
      /\ touched' \in [shown : SUBSET E!Columns, edited : SUBSET E!Columns]
  BY <1>1 DEF E!EditInv, E!TypeOK
<1>9. E!TypeOK'
  <2>1. run + 1 # 0 /\ run + 1 \in Nat
    BY <1>5
  <2> QED
    BY <1>1, <1>c, <1>d, <1>5, <2>1 DEF E!EditInv, E!TypeOK
<1>10. E!TablesAreCached'
  BY <1>1 DEF E!EditInv, E!TablesAreCached
<1>11. E!FromIsMeant'
  BY <1>1, <1>6, <1>8, <1>c DEF E!FromIsMeant, E!Known
<1>12. E!ShownIsThere'
  <2> SUFFICES ASSUME E!Clear(q), NEW i \in DOMAIN q.items, q.items[i].column # None
               PROVE  E!Exists(line) /\ cells[i] = E!Cell(line, q.items[i].column)
    BY <1>8, <1>c, EditingFacts DEF E!ShownIsThere
  <2> QED
    BY <1>7, <1>b DEF E!Cell
<1>13. E!AnswersAreOwn'
  <2>1. \A a \in analyses : a.run \in 1 .. run
    BY DEF E!EditInv, E!AnswersAreOwn
  <2>2. \A a \in analyses : a.run # run + 1 /\ a.run \in 1 .. run + 1
    BY <1>5, <2>1
  <2> QED
    BY <1>1, <1>5, <1>c, <2>1, <2>2 DEF E!AnswersAreOwn
<1>14. E!UpdateIsOwn'
  <2>1. update # None => update.run \in 1 .. run
    BY DEF E!EditInv, E!UpdateIsOwn
  <2>2. update # None => update.run # run + 1 /\ update.run \in 1 .. run + 1
    BY <1>5, <2>1
  <2> QED
    BY <1>1, <1>8, <1>d, <2>2 DEF E!EditInv, E!UpdateIsOwn
<1>15. E!WritesTheRow'
  BY <1>1 DEF E!EditInv, E!WritesTheRow
<1> QED
  BY <1>9, <1>10, <1>11, <1>12, <1>13, <1>14, <1>15 DEF E!EditInv

(* An answer is taken when it is about the query that is shown. *)
LEMMA AnalysisKeeps == ASSUME E!EditInv, NEW a \in analyses, E!AnalysisArrives(a) PROVE E!EditInv'
<1> DEFINE found == E!Resolve(a.query.schema)
<1>1. /\ path' = path /\ tables' = tables /\ keys' = keys /\ result' = result
      /\ update' = update /\ run' = run /\ wrote' = wrote /\ touched' = touched
      /\ analyses' = analyses \ {a}
      /\ editability' = IF a.run = run THEN E!Answer(a.query) ELSE editability
  BY DEF E!AnalysisArrives, E!IsLatest
<1>2. /\ E!Answer(a.query).editable => a.query.simple /\ found # None /\ keys[found] # {}
      /\ E!Answer(a.query).schema = found
      /\ E!Answer(a.query).columns = [i \in DOMAIN a.query.items |-> a.query.items[i].column]
      /\ E!Answer(a.query).key = IF found = None THEN {} ELSE keys[found]
  BY DEF E!Answer, E!Analyze
<1>3. /\ \A x : E!Clear(x)' <=> E!Clear(x)
      /\ \A x : (E!Exists(x)' <=> E!Exists(x)) /\ \A k : E!Cell(x, k)' = E!Cell(x, k)
      /\ E!MeansOne' <=> E!MeansOne
  BY <1>1 DEF E!Clear, E!MeansOne, E!Known, E!Exists, E!Cell, E!NamesAreColumns
<1>4. ASSUME a.run = run
      PROVE  /\ result # None /\ a.query = result.query
             /\ E!Answer(a.query).editable /\ E!Clear(result.query) =>
                  E!Answer(a.query).schema = result.from[1] /\ E!Answer(a.query).key \subseteq E!Columns
  <2>1. result # None /\ a.query = result.query /\ result.query \in E!Queries
    BY <1>4, EditingFacts DEF E!EditInv, E!TypeOK, E!AnswersAreOwn, E!Results
  <2>2. ASSUME E!Answer(a.query).editable, E!Clear(result.query)
        PROVE  found = result.from[1] /\ keys[found] \subseteq E!Columns
    <3>1. found # None
      BY <1>2, <2>2
    <3>2. {s \in E!Listing : keys[s] # None} = E!Known
      BY DEF E!EditInv, E!TablesAreCached, E!Known
    <3>3. found = E!Meant(result.query.schema, Listed, E!Known)
      BY <2>1, <3>2 DEF E!Resolve
    <3>4. /\ found \in E!Known
          /\ result.query.schema # None => result.query.schema = found
          /\ result.query.schema = None => E!Known = {found}
      BY <2>1, <2>2, <3>1, <3>3, EditingFacts, ClearIsMeant
    <3>5. result.from[1] \in E!Known /\ (result.query.schema # None => result.query.schema = result.from[1])
      BY <2>1, <2>2 DEF E!EditInv, E!FromIsMeant, E!TypeOK, E!Results, E!Known
    <3>6. found = result.from[1]
      BY <3>4, <3>5
    <3>7. keys[found] \in E!Keys
      BY <3>4 DEF E!EditInv, E!TypeOK, E!TablesAreCached, E!Known
    <3> QED
      BY <3>6, <3>7 DEF E!Keys
  <2>3. E!Answer(a.query).editable => found # None
    BY <1>2
  <2> QED
    BY <1>2, <2>1, <2>2, <2>3
<1>5. E!TypeOK' /\ E!TablesAreCached'
  BY <1>1 DEF E!EditInv, E!TypeOK, E!TablesAreCached
<1>6. E!FromIsMeant' /\ E!ShownIsThere'
  BY <1>1, <1>3 DEF E!EditInv, E!FromIsMeant, E!ShownIsThere
<1>7. E!AnswersAreOwn'
  <2>1. CASE a.run = run
    BY <1>1, <1>2, <1>3, <1>4, <2>1 DEF E!EditInv, E!AnswersAreOwn
  <2>2. CASE a.run # run
    BY <1>1, <1>3, <2>2 DEF E!EditInv, E!AnswersAreOwn
  <2> QED
    BY <2>1, <2>2
<1>8. E!UpdateIsOwn'
  BY <1>1, <1>3 DEF E!EditInv, E!UpdateIsOwn, E!NamesAreColumns
<1>9. E!WritesTheRow'
  BY <1>1 DEF E!EditInv, E!WritesTheRow
<1> QED
  BY <1>5, <1>6, <1>7, <1>8, <1>9 DEF E!EditInv

(* The key of the row that is shown goes into the UPDATE. *)
LEMMA EditCellKeeps ==
  ASSUME E!EditInv, NEW i \in DOMAIN ColumnOrder, NEW value \in Values, E!EditCell(i, value)
  PROVE  E!EditInv'
<1>1. /\ path' = path /\ tables' = tables /\ keys' = keys /\ result' = result
      /\ editability' = editability /\ analyses' = analyses /\ run' = run /\ wrote' = wrote
      /\ result # None /\ editability # None /\ editability.editable
      /\ editability.columns[i] # None
      /\ \A k \in editability.key : E!Named(k) # None
      /\ touched' = [touched EXCEPT !.edited = touched.shown]
  BY DEF E!EditCell
<1>2. PICK where : where = [k \in editability.key |-> result.cells[E!Named(k)]]
  OBVIOUS
<1>3. update' = [run |-> run, cell |-> i, column |-> editability.columns[i], value |-> value,
                 schema |-> editability.schema, from |-> result.from,
                 clear |-> result.honest /\ E!NamesAreColumns(result.query),
                 qualified |-> result.query.schema # None, where |-> where]
  BY <1>2 DEF E!EditCell
<1>4. /\ update'.run = run /\ update'.cell = i /\ update'.column = editability.columns[i]
      /\ update'.schema = editability.schema /\ update'.from = result.from /\ update'.where = where
      /\ update'.value = value
  BY <1>3
<1>5. /\ update'.clear <=> result.honest /\ E!NamesAreColumns(result.query)
      /\ update'.qualified <=> result.query.schema # None
  BY <1>3
<1>6. /\ result.query \in Written /\ DOMAIN result.query.items = DOMAIN ColumnOrder
  BY <1>1, QueryIs DEF E!EditInv, E!TypeOK, E!Results
<1>7. /\ editability.columns[i] = result.query.items[i].column
      /\ result.query.items[i].column \in E!Columns
      /\ result.query.simple
      /\ E!Clear(result.query) => editability.schema = result.from[1] /\ editability.key \subseteq E!Columns
  BY <1>1, <1>6, QueryIs DEF E!EditInv, E!AnswersAreOwn
<1>8. /\ \A x : E!Clear(x)' <=> E!Clear(x)
      /\ \A x : (E!Exists(x)' <=> E!Exists(x)) /\ \A k : E!Cell(x, k)' = E!Cell(x, k)
      /\ E!MeansOne' <=> E!MeansOne
  BY <1>1 DEF E!Clear, E!MeansOne, E!Known, E!Exists, E!Cell, E!NamesAreColumns
<1>a. /\ touched'.shown = touched.shown /\ touched'.edited = touched.shown
      /\ touched' \in [shown : SUBSET E!Columns, edited : SUBSET E!Columns]
      /\ DOMAIN where = editability.key /\ editability.key # {}
  BY <1>1, <1>2 DEF E!EditInv, E!TypeOK, E!AnswersAreOwn
<1>9. ASSUME update'.clear, update'.qualified \/ E!MeansOne
      PROVE  /\ update'.schema = update'.from[1] /\ DOMAIN update'.where \subseteq E!Columns
             /\ \A k \in DOMAIN update'.where \ touched'.edited :
                  E!Exists(update'.from) /\ update'.where[k] = E!Cell(update'.from, k)
  <2>1. E!Clear(result.query) /\ result.honest /\ E!NamesAreColumns(result.query)
    BY <1>5, <1>7, <1>9 DEF E!Clear
  <2>3. ASSUME NEW k \in editability.key \ touched.shown
        PROVE  E!Exists(result.from) /\ where[k] = E!Cell(result.from, k)
    <3>1. k \in E!Columns /\ E!Named(k) # None
      BY <1>1, <1>7, <2>1
    <3>2. E!Named(k) \in DOMAIN result.query.items /\ result.query.items[E!Named(k)].column = k
      BY <1>1, <1>6, <2>1, <3>1, NamedShows
    <3>3. E!Exists(result.from) /\ result.cells[E!Named(k)] = E!Cell(result.from, k)
      BY <1>1, <2>1, <2>3, <3>1, <3>2, EditingFacts DEF E!EditInv, E!ShownIsThere
    <3> QED
      BY <1>2, <3>3
  <2> QED
    BY <1>4, <1>7, <1>a, <2>1, <2>3
<1>10. E!TypeOK' /\ E!TablesAreCached'
  BY <1>1, <1>a DEF E!EditInv, E!TypeOK, E!TablesAreCached
<1>11. E!FromIsMeant' /\ E!ShownIsThere'
  BY <1>1, <1>8, <1>a DEF E!EditInv, E!FromIsMeant, E!ShownIsThere
<1>12. E!AnswersAreOwn'
  BY <1>1, <1>8 DEF E!EditInv, E!AnswersAreOwn
<1>13. E!UpdateIsOwn'
  <2>1. run \in 1 .. run
    <3>1. run \in Nat
      BY DEF E!EditInv, E!TypeOK
    <3>2. run # 0
      BY <1>1 DEF E!EditInv, E!TypeOK
    <3> QED
      BY <3>1, <3>2
  <2>2. E!NamesAreColumns(result.query)' <=> E!NamesAreColumns(result.query)
    BY <1>1 DEF E!NamesAreColumns
  <2> QED
    BY <1>1, <1>4, <1>5, <1>6, <1>7, <1>8, <1>9, <1>a, <2>1, <2>2 DEF E!UpdateIsOwn
<1>14. E!WritesTheRow'
  BY <1>1 DEF E!EditInv, E!WritesTheRow
<1> QED
  BY <1>10, <1>11, <1>12, <1>13, <1>14 DEF E!EditInv

(* A failed UPDATE leaves nothing behind. *)
LEMMA UpdateFailsKeeps == ASSUME E!EditInv, E!UpdateFails PROVE E!EditInv'
<1>1. /\ path' = path /\ tables' = tables /\ keys' = keys /\ result' = result
      /\ editability' = editability /\ analyses' = analyses /\ run' = run /\ wrote' = wrote
      /\ update' = None
      /\ touched' = [touched EXCEPT !.edited = {}]
  BY DEF E!UpdateFails
<1>a. touched'.shown = touched.shown /\ touched' \in [shown : SUBSET E!Columns, edited : SUBSET E!Columns]
  BY <1>1 DEF E!EditInv, E!TypeOK
<1>2. /\ \A x : E!Clear(x)' <=> E!Clear(x)
      /\ \A x : (E!Exists(x)' <=> E!Exists(x)) /\ \A k : E!Cell(x, k)' = E!Cell(x, k)
      /\ E!MeansOne' <=> E!MeansOne
  BY <1>1 DEF E!Clear, E!MeansOne, E!Known, E!Exists, E!Cell, E!NamesAreColumns
<1>3. E!TypeOK' /\ E!TablesAreCached'
  BY <1>1, <1>a DEF E!EditInv, E!TypeOK, E!TablesAreCached
<1>4. E!FromIsMeant' /\ E!ShownIsThere' /\ E!AnswersAreOwn'
  BY <1>1, <1>2, <1>a DEF E!EditInv, E!FromIsMeant, E!ShownIsThere, E!AnswersAreOwn
<1>5. E!UpdateIsOwn' /\ E!WritesTheRow'
  BY <1>1 DEF E!EditInv, E!UpdateIsOwn, E!WritesTheRow
<1> QED
  BY <1>3, <1>4, <1>5 DEF E!EditInv

(* The UPDATE changes one row.  If it is clear that is the row of the      *)
(* result, whose cell is patched; if not, the result is not clear either.  *)
LEMMA UpdateSucceedsKeeps == ASSUME E!EditInv, E!UpdateSucceeds PROVE E!EditInv'
<1> DEFINE s == E!Resolve(update.schema)
           changed == E!Matching(s)
           lines == {<<s, r>> : r \in changed}
<1>0. /\ path' = path /\ keys' = keys /\ editability' = editability
      /\ analyses' = analyses /\ run' = run /\ update' = None
      /\ update # None /\ s # None /\ tables[s] # None /\ E!One(changed)
      /\ tables' = E!WithRows(s, E!Changed(s, changed))
      /\ wrote' = [from |-> update.from, changed |-> lines,
                   clear |-> /\ update.clear /\ (update.qualified \/ E!MeansOne)
                             /\ DOMAIN update.where \cap touched.edited = {}]
      /\ touched' = [touched EXCEPT !.edited = {}]
      /\ result' = [query |-> result.query, from |-> result.from,
                    honest |-> result.honest /\ update.run = run /\ lines = {update.from},
                    cells |-> [result.cells EXCEPT ![update.cell] = update.value]]
  BY DEF E!UpdateSucceeds, E!KeyIsWhole, E!Commits
<1>1. PICK r \in Rows : changed = {r}
  BY <1>0 DEF E!One, E!Matching
<1>a. lines = {<<s, r>>}
  BY <1>1
<1> DEFINE clear == /\ update.clear /\ (update.qualified \/ E!MeansOne)
                    /\ DOMAIN update.where \cap touched.edited = {}
<1>2. ASSUME clear PROVE update.from = <<s, r>>
  <2>1. /\ E!Exists(update.from) /\ update.schema = update.from[1]
        /\ \A k \in DOMAIN update.where : update.where[k] = E!Cell(update.from, k)
    <3>1. DOMAIN update.where # {} /\ DOMAIN update.where \ touched.edited = DOMAIN update.where
      BY <1>0, <1>2 DEF E!EditInv, E!UpdateIsOwn
    <3> QED
      BY <1>0, <1>2, <3>1 DEF E!EditInv, E!UpdateIsOwn
  <2>2. update.schema \in E!Listing /\ update.from = <<update.from[1], update.from[2]>> /\ update.from[2] \in Rows
    BY <2>1 DEF E!Exists
  <2>3. s = update.schema
    <3> DEFINE known == {t \in E!Listing : keys[t] # None}
    <3>1. update.schema # None /\ update.schema \in E!Listing /\ known \in SUBSET E!Listing
      BY <2>2, EditingFacts
    <3>2. E!Meant(update.schema, Listed, known) # None
      BY <1>0 DEF E!Resolve
    <3>3. E!Meant(update.schema, Listed, known) = update.schema
      BY <3>1, <3>2, EditingFacts, MeantIs
    <3> QED
      BY <3>3 DEF E!Resolve
  <2>4. update.from[2] \in changed
    BY <2>1, <2>2, <2>3 DEF E!Exists, E!Cell, E!Matching
  <2> QED
    BY <1>1, <2>1, <2>2, <2>3, <2>4
<1>3. E!WritesTheRow'
  <2>1. wrote'.changed = {<<s, r>>} /\ wrote'.from = update.from /\ (wrote'.clear <=> clear)
    BY <1>0, <1>a
  <2> QED
    BY <1>2, <2>1 DEF E!WritesTheRow, E!One
<1> HIDE DEF s, changed, lines
<1>4. /\ update.run \in 1 .. run /\ update.column \in E!Columns /\ update.value \in Values
      /\ result # None /\ result \in E!Results
  BY <1>0 DEF E!EditInv, E!UpdateIsOwn, E!TypeOK
<1>5. /\ tables' \in [E!Listing -> E!Tables \cup {None}]
      /\ \A t \in E!Listing : tables'[t] = None <=> tables[t] = None
      /\ \A t \in E!Listing, x \in Rows : tables[t] # None /\ tables[t].rows[x] # None =>
           /\ tables'[t].rows[x] # None
           /\ <<t, x>> # <<s, r>> => tables'[t].rows[x] = tables[t].rows[x]
           /\ <<t, x>> = <<s, r>> =>
                tables'[t].rows[x] = [tables[t].rows[x] EXCEPT ![update.column] = update.value]
  <2>1. CASE s \notin E!Listing
    <3>1. tables' = tables
      BY <1>0, <2>1 DEF E!WithRows, E!EditInv, E!TypeOK
    <3> QED
      BY <2>1, <3>1 DEF E!EditInv, E!TypeOK
  <2>2. CASE s \in E!Listing
    <3>1. tables[s].rows \in [Rows -> E!Row \cup {None}]
      BY <1>0, <2>2 DEF E!EditInv, E!TypeOK, E!Tables
    <3>2. tables[s].rows[r] # None /\ tables[s].rows[r] \in E!Row
      BY <1>1, <3>1 DEF E!Matching, changed
    <3>3. PICK row \in E!Row : row = [tables[s].rows[r] EXCEPT ![update.column] = update.value]
      BY <1>4, <3>2 DEF E!Row
    <3>4. PICK after : after = E!Changed(s, changed)
      OBVIOUS
    <3>5. /\ after \in [Rows -> E!Row \cup {None}] /\ after[r] = row
          /\ \A x \in Rows : x # r => after[x] = tables[s].rows[x]
      BY <1>1, <3>1, <3>3, <3>4 DEF E!Changed
    <3>6. /\ tables' \in [E!Listing -> E!Tables \cup {None}]
          /\ tables'[s] # None /\ tables'[s].rows = after
          /\ \A t \in E!Listing : t # s => tables'[t] = tables[t]
      BY <1>0, <2>2, <3>4, <3>5, WithRowsDoes
    <3>7. row # None
      BY EditingFacts
    <3> QED
      BY <1>0, <2>2, <3>3, <3>5, <3>6, <3>7
  <2> QED
    BY <2>1, <2>2
<1>6. /\ \A x : E!Clear(x)' <=> E!Clear(x)
      /\ \A x : E!Exists(x) => E!Exists(x)'
  <2>1. E!Known' = E!Known
    BY <1>5 DEF E!Known
  <2>2. \A x : E!Clear(x)' <=> E!Clear(x)
    BY <2>1 DEF E!Clear, E!MeansOne, E!NamesAreColumns
  <2>3. \A x : E!Exists(x) => E!Exists(x)'
    BY <1>5 DEF E!Exists
  <2> QED
    BY <2>2, <2>3
<1>7. PICK cells : cells = [result.cells EXCEPT ![update.cell] = update.value]
  OBVIOUS
<1>8. cells \in [DOMAIN ColumnOrder -> Values] /\ result.cells \in [DOMAIN ColumnOrder -> Values]
  BY <1>4, <1>7 DEF E!Results
<1>9. /\ result'.query = result.query /\ result'.from = result.from
      /\ result'.honest <=> result.honest /\ update.run = run /\ lines = {update.from}
      /\ result'.cells = cells /\ result' \in E!Results /\ result' # None
  <2>1. result' = [query |-> result.query, from |-> result.from,
                   honest |-> result.honest /\ update.run = run /\ lines = {update.from},
                   cells |-> cells]
    BY <1>0, <1>7
  <2>2. /\ result.query \in Written /\ result.from \in E!Listing \X Rows
        /\ (result.honest /\ update.run = run /\ lines = {update.from}) \in BOOLEAN
    BY <1>4 DEF E!Results
  <2>3. result' \in E!Results
    BY <1>8, <2>1, <2>2 DEF E!Results
  <2> QED
    BY <2>1, <2>3, EditingFacts
<1>b. touched'.shown = touched.shown /\ touched' \in [shown : SUBSET E!Columns, edited : SUBSET E!Columns]
  BY <1>0 DEF E!EditInv, E!TypeOK
<1>10. E!TypeOK'
  BY <1>0, <1>4, <1>5, <1>9, <1>b DEF E!EditInv, E!TypeOK
<1>11. E!TablesAreCached'
  BY <1>0, <1>5 DEF E!EditInv, E!TablesAreCached
<1>12. E!FromIsMeant'
  <2>1. result.from[1] \in E!Listing
    BY <1>4 DEF E!Results
  <2> QED
    BY SMTT(40), <1>4, <1>5, <1>6, <1>9, <2>1 DEF E!EditInv, E!FromIsMeant
<1>13. E!ShownIsThere'
  <2> SUFFICES ASSUME result'.honest, E!Clear(result.query), NEW i \in DOMAIN result.query.items,
                      result.query.items[i].column \in E!Columns \ touched.shown
               PROVE  /\ E!Exists(result.from)
                      /\ cells[i] = tables'[result.from[1]].rows[result.from[2]][result.query.items[i].column]
    BY <1>6, <1>9, <1>b DEF E!ShownIsThere, E!Cell
  <2> DEFINE column == result.query.items[i].column
  <2>1. /\ result.honest /\ update.run = run /\ lines = {update.from}
        /\ E!NamesAreColumns(result.query)
        /\ column \in E!Columns /\ column # None /\ i \in DOMAIN result.query.items
    BY <1>9, EditingFacts DEF E!Clear
  <2>2. /\ update.from = result.from /\ update.cell \in DOMAIN result.query.items
        /\ update.column = result.query.items[update.cell].column
    BY <1>0, <2>1 DEF E!EditInv, E!UpdateIsOwn
  <2>3. E!Exists(result.from) /\ result.cells[i] = E!Cell(result.from, column)
    BY <1>4, <2>1 DEF E!EditInv, E!ShownIsThere
  <2>a. result.from = <<s, r>> /\ s \in E!Listing
    BY <1>a, <2>1, <2>2, <2>3 DEF E!Exists
  <2>4. result.cells[i] = tables[s].rows[r][column]
    BY <2>3, <2>a DEF E!Cell
  <2>5. tables[s] # None /\ tables[s].rows[r] # None /\ tables[s].rows[r] \in E!Row
    <3>1. tables[s] # None /\ tables[s].rows[r] # None
      BY <2>3, <2>a DEF E!Exists
    <3> QED
      BY <2>a, <3>1 DEF E!EditInv, E!TypeOK, E!Tables
  <2>6. tables'[s].rows[r] = [tables[s].rows[r] EXCEPT ![update.column] = update.value]
    BY <1>5, <2>a, <2>5
  <2>7. i \in DOMAIN ColumnOrder /\ column \in E!Columns
    BY <1>4, <2>1, QueryIs DEF E!Results
  <2>8. CASE i = update.cell
    <3>1. cells[i] = update.value /\ column = update.column
      BY <1>7, <1>8, <2>2, <2>7, <2>8
    <3>2. tables'[s].rows[r][column] = update.value
      BY <2>5, <2>6, <2>7, <3>1 DEF E!Row
    <3> QED
      BY <2>3, <2>a, <3>1, <3>2
  <2>9. CASE i # update.cell
    <3>1. column # update.column
      BY <2>1, <2>2, <2>9 DEF E!NamesAreColumns
    <3>2. cells[i] = result.cells[i]
      BY <1>7, <1>8, <2>7, <2>9
    <3>3. tables'[s].rows[r][column] = tables[s].rows[r][column]
      BY <2>5, <2>6, <2>7, <3>1 DEF E!Row
    <3> QED
      BY <2>3, <2>a, <2>4, <3>2, <3>3
  <2> QED
    BY ZenonT(60), <2>8, <2>9
<1>14. E!AnswersAreOwn'
  BY <1>0, <1>6, <1>9 DEF E!EditInv, E!AnswersAreOwn
<1>15. E!UpdateIsOwn'
  BY <1>0 DEF E!UpdateIsOwn
<1> QED
  BY <1>3, <1>10, <1>11, <1>12, <1>13, <1>14, <1>15 DEF E!EditInv

-----------------------------------------------------------------------------
(* No result is shown at first, and the cache knows the tables. *)
LEMMA InitEdits == ASSUME E!Init PROVE E!EditInv
<1>1. E!TypeOK
  <2>1. \A t \in Found : t \in [E!Listing -> E!Tables \cup {None}]
    BY EditedAssumption DEF E!EditingAssumption
  <2>2. \A s \in E!Listing : tables[s] # None => tables[s].key \in E!Keys
    BY <2>1 DEF E!Init, E!Tables
  <2> QED
    BY <2>1, <2>2 DEF E!Init, E!TypeOK
<1>2. E!TablesAreCached
  <2>1. \A s \in E!Listing : tables[s] # None => tables[s] \in E!Tables
    BY EditedAssumption DEF E!Init, E!EditingAssumption
  <2>2. \A s \in E!Listing : tables[s] # None => tables[s].key # None
    BY <2>1, EditingFacts DEF E!Tables
  <2> QED
    BY <2>2 DEF E!Init, E!TablesAreCached
<1>3. E!FromIsMeant /\ E!ShownIsThere /\ E!AnswersAreOwn /\ E!UpdateIsOwn /\ E!WritesTheRow
  BY DEF E!Init, E!FromIsMeant, E!ShownIsThere, E!AnswersAreOwn, E!UpdateIsOwn, E!WritesTheRow
<1> QED
  BY <1>1, <1>2, <1>3 DEF E!EditInv

(* A step of the metadata leaves the edits alone. *)
LEMMA EditStutter == ASSUME E!EditInv, UNCHANGED E!editVars PROVE E!EditInv'
<1>1. /\ path' = path /\ tables' = tables /\ keys' = keys /\ result' = result /\ run' = run
      /\ editability' = editability /\ analyses' = analyses /\ update' = update /\ wrote' = wrote
      /\ touched' = touched
  BY DEF E!editVars
<1>2. RowsStay
  BY <1>1 DEF RowsStay
<1> QED
  BY <1>1, <1>2, StayKeeps DEF E!EditInv, E!TypeOK

(* A step of the edits is one of these. *)
LEMMA EditNextKeeps == ASSUME E!EditInv, E!Next PROVE E!EditInv'
<1>1. ASSUME NEW q \in Written, E!RunQuery(q) PROVE E!EditInv'
  BY <1>1, RunQueryKeeps
<1>2. ASSUME NEW a \in analyses, E!AnalysisArrives(a) PROVE E!EditInv'
  BY <1>2, AnalysisKeeps
<1>3. ASSUME NEW i \in DOMAIN ColumnOrder, NEW v \in Values, E!EditCell(i, v) PROVE E!EditInv'
  BY <1>3, EditCellKeeps
<1>4. ASSUME NEW row \in E!Row, E!InsertRow(row) PROVE E!EditInv'
  BY <1>4, InsertRowKeeps
<1>5. ASSUME NEW row \in E!Row \cup {None}, NEW s \in E!Listing, NEW r \in Rows, E!OthersWrite(s, r, row)
      PROVE  E!EditInv'
  BY <1>5, OthersWriteKeeps
<1>6. ASSUME NEW s \in E!Listing, NEW key \in E!Keys, E!ChangeKey(s, key) PROVE E!EditInv'
  BY <1>6, ChangeKeyKeeps
<1> QED
  BY <1>1, <1>2, <1>3, <1>4, <1>5, <1>6, UpdateSucceedsKeeps, UpdateFailsKeeps, IntrospectKeeps DEF E!Next

(* A step of the metadata is none of an edit, and the other way round.     *)
THEOREM EditedImplementsSession == EditedSpec => SessionSpec
<1>1. EditedInit => SessionInit
  BY DEF EditedInit
<1>2. [MetadataStep \/ EditStep]_<<part, metadataVars, editVars>>
        => [SessionNext]_<<vars, session, database, adapter>>
  BY DEF MetadataStep, EditStep, metadataVars
<1> QED
  BY <1>1, <1>2, PTL DEF EditedSpec, SessionSpec

(* Whatever other sessions do to keys and rows, whatever the cache still   *)
(* says of them and whichever analysis came last: handleCellEdit has of a  *)
(* result only what its own query was answered, the UPDATE it makes holds  *)
(* of the key of its row what nobody else has written since, and what      *)
(* row.update commits has changed one row: that one, if no other session   *)
(* has deleted it or written into its key, and the result is clear; for    *)
(* any tables, columns, queries, keys and writes of others.                *)
THEOREM EditsHold == EditedSpec => []EditInv
<1>1. EditedInit => EditInv
  BY InitEdits DEF EditedInit, EditInv
<1>2. EditInv /\ [MetadataStep \/ EditStep]_<<part, metadataVars, editVars>> => EditInv'
  <2> SUFFICES ASSUME E!EditInv, [MetadataStep \/ EditStep]_<<part, metadataVars, editVars>>
               PROVE  E!EditInv'
    BY DEF EditInv
  <2>1. CASE EditStep
    BY <2>1, EditNextKeeps DEF EditStep
  <2>2. CASE UNCHANGED editVars
    <3>1. UNCHANGED E!editVars
      BY <2>2 DEF editVars, E!editVars
    <3> QED
      BY <3>1, EditStutter
  <2>3. CASE MetadataStep
    <3>1. UNCHANGED E!editVars
      BY <2>3 DEF MetadataStep, editVars, E!editVars
    <3> QED
      BY <3>1, EditStutter
  <2>4. UNCHANGED <<part, metadataVars, editVars>> => UNCHANGED editVars
    OBVIOUS
  <2> QED
    BY <2>1, <2>2, <2>3, <2>4
<1> QED
  BY <1>1, <1>2, PTL DEF EditedSpec

(* Beside edits of results as without them: memory and tables agree, an    *)
(* edit of a connection keeps its slot and group, and the refresh that     *)
(* began last decides which schemas the tables hold, and with what unless  *)
(* an older one was still filling them.                                    *)
THEOREM MetadataHolds == EditedSpec => []CacheInv /\ []LatestWins /\ EditsKeepSlotAndGroup
BY EditedImplementsSession, SessionKeepsCache, LatestDecides, PTL
=============================================================================
