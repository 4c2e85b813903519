---------------------------- MODULE DatasetStore ----------------------------
(***************************************************************************)
(* The datasets and stable results of DataEngine in                        *)
(* apps/desktop/src-tauri/src/data_engine.rs: the maps in memory, the      *)
(* registry table and the tables of local.duckdb.  Every method holds the  *)
(* mutex "inner" from its first look at the maps to its last change, so    *)
(* each is one action; when a statement fails the transaction rolls back,  *)
(* the maps are not reached and nothing changes.                           *)
(***************************************************************************)
EXTENDS Option, Naturals, Sequences, FiniteSets

CONSTANTS
  Ids,          \* dataset ids
  Results,      \* ids of stable results
  Workspaces,   \* workspace ids, "federated" among them
  Federated,    \* the workspace whose datasets are temporary
  Bases,        \* readable_relation_name of the names users choose
  MaxDatasets,  \* MAX_DATASETS
  MaxResults    \* MAX_RESULT_HANDLES

ASSUME StoreAssumption ==
  /\ Federated \in Workspaces
  /\ MaxDatasets \in Nat \ {0} /\ MaxResults \in Nat
  /\ IsFiniteSet(Ids) /\ IsFiniteSet(Results)
  /\ None \notin Workspaces

VARIABLES
  datasets,  \* inner.datasets: workspace and relation of each id, or None
  results,   \* inner.result_handles: the workspace of each id, or None
  registry,  \* omni_local_dataset_registry: what is stored for each id, or None
  tables,    \* the tables of datasets, temporary or not
  stable,    \* the ids of results whose temporary table exists
  caller     \* auxiliary: the workspace of the last call, None after a start

vars == <<datasets, results, registry, tables, stable, caller>>

Empty == [i \in Ids |-> None]

Init ==
  /\ datasets = Empty
  /\ results  = [h \in Results |-> None]
  /\ registry = Empty
  /\ tables   = {}
  /\ stable   = {}
  /\ caller   = None

Live == {i \in Ids : datasets[i] # None}
LiveResults == {h \in Results : results[h] # None}
Temporary(w) == w = Federated

-----------------------------------------------------------------------------
(* The loop of available_relation_name: the name itself, name_2, name_3... *)
Candidate(base, k) == IF k = 1 THEN base ELSE Append(base, k)
Candidates == 1 .. MaxDatasets
Relations == {Candidate(base, k) : base \in Bases, k \in Candidates}
Dataset == [workspace : Workspaces, relation : Relations]

ASSUME NoneAssumption == None \notin Dataset

(* Mutant: names are kept apart within a workspace only. *)
OccupiedInWorkspace(w, excluded) ==
  {datasets[i].relation : i \in {j \in Live \ excluded : datasets[j].workspace = w}}

(* The names in use by any workspace. *)
Occupied(w, excluded) == {datasets[i].relation : i \in Live \ excluded}

IsAvailable(relation, base, w, excluded) ==
  \E k \in Candidates :
    /\ relation = Candidate(base, k)
    /\ relation \notin Occupied(w, excluded)
    /\ \A j \in 1 .. k - 1 : Candidate(base, j) \in Occupied(w, excluded)

TableOf(d) == [relation |-> d.relation, temp |-> Temporary(d.workspace)]

HasRoom == Cardinality(Live) < MaxDatasets

(* Mutant: temporary datasets are persisted as well. *)
PersistAll(i, d) == registry' = [registry EXCEPT ![i] = d]

Persist(i, d) ==
  registry' = IF Temporary(d.workspace) THEN registry ELSE [registry EXCEPT ![i] = d]

(* import_result, import_source and import_file, once the data is there. *)
Import(i, w, base) ==
  /\ datasets[i] = None /\ HasRoom
  /\ \E relation \in Relations :
       /\ IsAvailable(relation, base, w, {})
       /\ LET d == [workspace |-> w, relation |-> relation] IN
          /\ TableOf(d) \notin tables
          /\ tables' = tables \cup {TableOf(d)}
          /\ Persist(i, d)
          /\ datasets' = [datasets EXCEPT ![i] = d]
  /\ caller' = w
  /\ UNCHANGED <<results, stable>>

(* Mutant: any workspace may. *)
OwnsAny(w, i) == datasets[i] # None

Owns(w, i) == datasets[i] # None /\ datasets[i].workspace = w

(* rename_dataset: the SQL relation follows the name. *)
Rename(w, i, base) ==
  /\ Owns(w, i)
  /\ \E relation \in Relations :
       /\ IsAvailable(relation, base, w, {i})
       /\ LET d == [datasets[i] EXCEPT !.relation = relation] IN
          /\ relation # datasets[i].relation => TableOf(d) \notin tables
          /\ tables' = (tables \ {TableOf(datasets[i])}) \cup {TableOf(d)}
          /\ Persist(i, d)
          /\ datasets' = [datasets EXCEPT ![i] = d]
  /\ caller' = w
  /\ UNCHANGED <<results, stable>>

(* drop_dataset. *)
Drop(w, i) ==
  /\ Owns(w, i)
  /\ tables' = tables \ {TableOf(datasets[i])}
  /\ registry' = [registry EXCEPT ![i] = None]
  /\ datasets' = [datasets EXCEPT ![i] = None]
  /\ caller' = w
  /\ UNCHANGED <<results, stable>>

(* clear: all datasets and results of a workspace in one transaction. *)
Clear(w) ==
  LET mine == {i \in Live : datasets[i].workspace = w} IN
  /\ tables' = tables \ {TableOf(datasets[i]) : i \in mine}
  /\ registry' = [i \in Ids |-> IF i \in mine THEN None ELSE registry[i]]
  /\ datasets' = [i \in Ids |-> IF i \in mine THEN None ELSE datasets[i]]
  /\ stable' = {h \in stable : results[h] # w}
  /\ results' = [h \in Results |-> IF results[h] = w THEN None ELSE results[h]]
  /\ caller' = w

(* start_query materializes a result. *)
StartQuery(w, h) ==
  /\ results[h] = None /\ h \notin stable
  /\ Cardinality(LiveResults) < MaxResults
  /\ stable' = stable \cup {h}
  /\ results' = [results EXCEPT ![h] = w]
  /\ caller' = w
  /\ UNCHANGED <<datasets, registry, tables>>

(* drop_result_handle. *)
DropResult(w, h) ==
  /\ results[h] = w
  /\ stable' = stable \ {h}
  /\ results' = [results EXCEPT ![h] = None]
  /\ caller' = w
  /\ UNCHANGED <<datasets, registry, tables>>

(* The process ends at any moment and open_at reads the registry: a        *)
(* transaction under way and everything temporary is gone.                 *)
Restart ==
  /\ datasets' = registry
  /\ results' = [h \in Results |-> None]
  /\ tables' = {t \in tables : ~t.temp}
  /\ stable' = {}
  /\ caller' = None
  /\ UNCHANGED registry

Next ==
  \/ \E i \in Ids, w \in Workspaces, base \in Bases : Import(i, w, base) \/ Rename(w, i, base)
  \/ \E w \in Workspaces, i \in Ids : Drop(w, i)
  \/ \E w \in Workspaces : Clear(w)
  \/ \E w \in Workspaces, h \in Results : StartQuery(w, h) \/ DropResult(w, h)
  \/ Restart

Spec == Init /\ [][Next]_vars

-----------------------------------------------------------------------------
TypeOK ==
  /\ datasets \in [Ids -> Dataset \cup {None}]
  /\ results \in [Results -> Workspaces \cup {None}]
  /\ registry \in [Ids -> Dataset \cup {None}]
  /\ tables \subseteq [relation : Relations, temp : BOOLEAN]
  /\ stable \subseteq Results
  /\ caller \in Workspaces \cup {None}

(* What survives a restart is what the engine shows, without the temporary *)
(* datasets: none is lost and none comes back under an old name or owner.  *)
RegistryAgrees ==
  \A i \in Ids :
    registry[i] = IF datasets[i] # None /\ Temporary(datasets[i].workspace) THEN None
                  ELSE datasets[i]

(* Every dataset and every result has its table, and no table is left that *)
(* nobody can reach or drop.                                               *)
TablesAgree ==
  /\ tables = {TableOf(datasets[i]) : i \in Live}
  /\ stable = LiveResults

(* A relation name in SQL means one dataset, whatever workspace owns it.   *)
NamesUnique ==
  \A i, j \in Live : datasets[i].relation = datasets[j].relation => i = j

(* The limits hold over all workspaces, after restarts too. *)
Bounded ==
  /\ Cardinality(Live) <= MaxDatasets
  /\ Cardinality(LiveResults) <= MaxResults

StoreInv == TypeOK /\ RegistryAgrees /\ TablesAgree /\ NamesUnique /\ Bounded

Owner(before, after) == IF before # None THEN before ELSE after

(* A workspace changes its own datasets and results only, and a restart    *)
(* takes away nothing but temporary datasets and results.                  *)
OwnersOnly ==
  [][/\ \A i \in Ids : datasets'[i] # datasets[i] =>
          Owner(datasets[i], datasets'[i]).workspace =
            (IF caller' = None THEN Federated ELSE caller')
     /\ \A h \in Results : results'[h] # results[h] =>
          caller' \in {None, Owner(results[h], results'[h])}]_vars
=============================================================================
