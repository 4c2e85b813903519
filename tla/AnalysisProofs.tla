--------------------------- MODULE AnalysisProofs ---------------------------
(***************************************************************************)
(* Local analysis, for any number of datasets, operations and exports: the *)
(* maps, the registry and the tables of the datasets agree after every     *)
(* call and every restart; one operation works at a time, a stop is the    *)
(* running operation's own, and what is reported is what happened; no      *)
(* failure and no crash loses the last completed export; what an imported  *)
(* dataset says of its rows is so, wherever they came from; a statement    *)
(* over the datasets is read and bounded as DuckDB reads it; and a value   *)
(* that is imported or computed is shown as the value it was.              *)
(***************************************************************************)
EXTENDS LocalAnalysis, FiniteSetTheorems, WellFoundedInduction, TLAPS

(* The sets of live ids are finite, as the sets of ids are. *)
LEMMA LiveFinite == IsFiniteSet(Live) /\ IsFiniteSet(LiveResults)
BY FS_Subset, StoreAssumption DEF Live, LiveResults

(* An available name is a relation name nobody else has. *)
LEMMA AvailableIsFree ==
  ASSUME NEW relation, NEW base, NEW w, NEW excluded, IsAvailable(relation, base, w, excluded)
  PROVE  \A i \in Live \ excluded : datasets[i].relation # relation
BY DEF IsAvailable, Occupied

(* The limits survive a step that adds no dataset and no result. *)
LEMMA NothingAddedKeepsBounds ==
  ASSUME Bounded, {i \in Ids : datasets'[i] # None} \subseteq Live,
         {h \in Results : results'[h] # None} \subseteq LiveResults
  PROVE  Bounded'
<1> DEFINE D == {i \in Ids : datasets'[i] # None}
           R == {h \in Results : results'[h] # None}
<1>1. IsFiniteSet(Live) /\ IsFiniteSet(LiveResults)
  BY LiveFinite
<1>2. Cardinality(D) <= Cardinality(Live) /\ Cardinality(D) \in Nat
  BY <1>1, FS_Subset, FS_CardinalityType
<1>3. Cardinality(R) <= Cardinality(LiveResults) /\ Cardinality(R) \in Nat
  BY <1>1, FS_Subset, FS_CardinalityType
<1>4. Cardinality(Live) \in Nat /\ Cardinality(LiveResults) \in Nat
  BY <1>1, FS_CardinalityType
<1>5. Live' = D /\ LiveResults' = R
  BY DEF Live, LiveResults
<1> QED
  BY <1>2, <1>3, <1>4, <1>5, StoreAssumption DEF Bounded

-----------------------------------------------------------------------------
(* At the start nothing is stored. *)
LEMMA StoreInitInv == Init => StoreInv
<1> SUFFICES ASSUME Init PROVE StoreInv
  OBVIOUS
<1>1. Live = {} /\ LiveResults = {}
  BY DEF Init, Live, LiveResults, Empty
<1>2. Cardinality(Live) = 0 /\ Cardinality(LiveResults) = 0
  BY <1>1, FS_EmptySet
<1>3. TypeOK
  BY DEF Init, TypeOK, Empty
<1>4. RegistryAgrees
  BY DEF Init, RegistryAgrees, Empty
<1>5. TablesAgree /\ NamesUnique
  BY <1>1 DEF Init, TablesAgree, NamesUnique
<1>6. Bounded
  BY <1>2, StoreAssumption DEF Bounded
<1> QED
  BY <1>3, <1>4, <1>5, <1>6 DEF StoreInv

(* Import adds a dataset under a free name. *)
LEMMA ImportedInv ==
  ASSUME StoreInv, NEW i \in Ids, NEW w \in Workspaces, NEW base \in Bases, Import(i, w, base)
  PROVE  StoreInv'
<1>1. PICK relation \in Relations :
        /\ IsAvailable(relation, base, w, {})
        /\ tables' = tables \cup {TableOf([workspace |-> w, relation |-> relation])}
        /\ Persist(i, [workspace |-> w, relation |-> relation])
        /\ datasets' = [datasets EXCEPT ![i] = [workspace |-> w, relation |-> relation]]
  BY DEF Import
<1> DEFINE d == [workspace |-> w, relation |-> relation]
<1>2. d \in Dataset /\ d # None /\ d.relation = relation /\ d.workspace = w
  BY NoneAssumption DEF Dataset
<1> HIDE DEF d
<1>3. /\ tables' = tables \cup {TableOf(d)}
      /\ registry' = IF Temporary(w) THEN registry ELSE [registry EXCEPT ![i] = d]
      /\ datasets' = [datasets EXCEPT ![i] = d]
  BY <1>1, <1>2 DEF d, Persist
<1>4. TypeOK /\ RegistryAgrees /\ TablesAgree /\ NamesUnique /\ Bounded
  BY DEF StoreInv
<1>5. /\ datasets[i] = None /\ HasRoom /\ caller' = w
      /\ UNCHANGED <<results, stable>>
  BY DEF Import
<1>6. TableOf(d) \in [relation : Relations, temp : BOOLEAN]
  BY <1>2 DEF TableOf, Temporary, Dataset
<1>7. TypeOK'
  BY <1>2, <1>3, <1>4, <1>5, <1>6 DEF TypeOK
<1>8. Live' = Live \cup {i} /\ i \notin Live /\ datasets'[i] = d
  BY <1>2, <1>3, <1>4, <1>5 DEF Live, TypeOK
<1>9. \A j \in Ids \ {i} : datasets'[j] = datasets[j]
  BY <1>3, <1>4 DEF TypeOK
<1>10. RegistryAgrees'
  <2>1. registry[i] = None
    BY <1>4, <1>5 DEF RegistryAgrees
  <2>2. \A j \in Ids \ {i} : registry'[j] = registry[j]
    BY <1>3, <1>4 DEF TypeOK
  <2>3. registry'[i] = IF Temporary(w) THEN None ELSE d
    BY <2>1, <1>3, <1>4 DEF TypeOK
  <2> QED
    BY <2>2, <2>3, <1>2, <1>4, <1>8, <1>9 DEF RegistryAgrees
<1>11. TablesAgree'
  <2>1. {TableOf(datasets'[j]) : j \in Live'} = {TableOf(datasets[j]) : j \in Live} \cup {TableOf(d)}
    <3>1. \A j \in Live : datasets'[j] = datasets[j]
      BY <1>8, <1>9 DEF Live
    <3> QED
      BY <3>1, <1>8
  <2>2. LiveResults' = LiveResults
    BY <1>5 DEF LiveResults
  <2>3. tables' = {TableOf(datasets'[j]) : j \in Live'}
    BY <2>1, <1>3, <1>4 DEF TablesAgree
  <2>4. {TableOf(datasets[j]) : j \in Live}' = {TableOf(datasets'[j]) : j \in Live'}
    BY DEF TableOf
  <2> QED
    BY <2>2, <2>3, <2>4, <1>4, <1>5 DEF TablesAgree
<1>12. NamesUnique'
  <2>1. \A j \in Live : datasets[j].relation # relation
    BY <1>1, AvailableIsFree
  <2>2. \A j \in Live : datasets'[j] = datasets[j]
    BY <1>8, <1>9 DEF Live
  <2> QED
    BY <2>1, <2>2, <1>2, <1>4, <1>8 DEF NamesUnique
<1>13. Bounded'
  <2>1. Cardinality(Live') = Cardinality(Live) + 1
    BY <1>8, LiveFinite, FS_AddElement
  <2>2. Cardinality(Live) \in Nat /\ Cardinality(Live) < MaxDatasets
    BY <1>5, LiveFinite, FS_CardinalityType DEF HasRoom
  <2>3. LiveResults' = LiveResults
    BY <1>5 DEF LiveResults
  <2> QED
    BY <2>1, <2>2, <2>3, <1>4, StoreAssumption DEF Bounded
<1> QED
  BY <1>7, <1>10, <1>11, <1>12, <1>13 DEF StoreInv

(* Rename moves the table of a dataset to a free name. *)
LEMMA RenameInv ==
  ASSUME StoreInv, NEW i \in Ids, NEW w \in Workspaces, NEW base \in Bases, Rename(w, i, base)
  PROVE  StoreInv'
<1>1. PICK relation \in Relations :
        /\ IsAvailable(relation, base, w, {i})
        /\ tables' = (tables \ {TableOf(datasets[i])})
                       \cup {TableOf([datasets[i] EXCEPT !.relation = relation])}
        /\ Persist(i, [datasets[i] EXCEPT !.relation = relation])
        /\ datasets' = [datasets EXCEPT ![i] = [datasets[i] EXCEPT !.relation = relation]]
  BY DEF Rename
<1>2. TypeOK /\ RegistryAgrees /\ TablesAgree /\ NamesUnique /\ Bounded
  BY DEF StoreInv
<1>3. /\ datasets[i] # None /\ datasets[i].workspace = w /\ caller' = w
      /\ UNCHANGED <<results, stable>>
  BY DEF Rename, Owns
<1> DEFINE d == [datasets[i] EXCEPT !.relation = relation]
<1>4. datasets[i] \in Dataset
  BY <1>2, <1>3 DEF TypeOK
<1>5. d \in Dataset /\ d # None /\ d.relation = relation /\ d.workspace = w
  BY <1>3, <1>4, NoneAssumption DEF Dataset
<1> HIDE DEF d
<1>6. /\ tables' = (tables \ {TableOf(datasets[i])}) \cup {TableOf(d)}
      /\ registry' = IF Temporary(w) THEN registry ELSE [registry EXCEPT ![i] = d]
      /\ datasets' = [datasets EXCEPT ![i] = d]
  BY <1>1, <1>5 DEF d, Persist
<1>7. TableOf(d) \in [relation : Relations, temp : BOOLEAN]
  BY <1>5 DEF TableOf, Temporary, Dataset
<1>8. TypeOK'
  BY <1>2, <1>3, <1>5, <1>6, <1>7 DEF TypeOK
<1>9. datasets'[i] = d /\ \A j \in Ids \ {i} : datasets'[j] = datasets[j]
  BY <1>2, <1>6 DEF TypeOK
<1>10. Live' = Live /\ i \in Live
  BY <1>3, <1>5, <1>9 DEF Live
<1>11. RegistryAgrees'
  <2>1. \A j \in Ids \ {i} : registry'[j] = registry[j]
    BY <1>2, <1>6 DEF TypeOK
  <2>2. registry'[i] = IF Temporary(w) THEN registry[i] ELSE d
    BY <1>2, <1>6 DEF TypeOK
  <2>3. Temporary(w) => registry[i] = None
    BY <1>2, <1>3 DEF RegistryAgrees
  <2> QED
    BY <2>1, <2>2, <2>3, <1>2, <1>5, <1>9 DEF RegistryAgrees
<1>12. TablesAgree'
  <2>1. \A j \in Live \ {i} : TableOf(datasets[j]) # TableOf(datasets[i])
    BY <1>2, <1>10 DEF NamesUnique, TableOf
  <2>2. tables \ {TableOf(datasets[i])} = {TableOf(datasets[j]) : j \in Live \ {i}}
    BY <2>1, <1>2, <1>10 DEF TablesAgree
  <2>3. {TableOf(datasets'[j]) : j \in Live'} = {TableOf(datasets[j]) : j \in Live \ {i}} \cup {TableOf(d)}
    <3>1. \A j \in Live \ {i} : datasets'[j] = datasets[j]
      BY <1>9 DEF Live
    <3> QED
      BY <3>1, <1>9, <1>10
  <2>4. LiveResults' = LiveResults
    BY <1>3 DEF LiveResults
  <2>5. {TableOf(datasets[j]) : j \in Live}' = {TableOf(datasets'[j]) : j \in Live'}
    BY DEF TableOf
  <2> QED
    BY <2>2, <2>3, <2>4, <2>5, <1>2, <1>3, <1>6 DEF TablesAgree
<1>13. NamesUnique'
  <2>1. \A j \in Live \ {i} : datasets[j].relation # relation
    BY <1>1, AvailableIsFree
  <2>2. \A j \in Live \ {i} : datasets'[j] = datasets[j]
    BY <1>9 DEF Live
  <2> QED
    BY <2>1, <2>2, <1>2, <1>5, <1>9, <1>10 DEF NamesUnique
<1>14. Bounded'
  <2>1. LiveResults' = LiveResults
    BY <1>3 DEF LiveResults
  <2> QED
    BY <2>1, <1>2, <1>10 DEF Bounded
<1> QED
  BY <1>8, <1>11, <1>12, <1>13, <1>14 DEF StoreInv

(* What Drop, Clear and Restart have in common: the datasets outside of    *)
(* "gone" stay as they are, with their tables and registry entries.        *)
LEMMA RemovalInv ==
  ASSUME StoreInv, NEW gone \in SUBSET Ids,
         datasets' = [i \in Ids |-> IF i \in gone THEN None ELSE datasets[i]],
         registry' = [i \in Ids |-> IF i \in gone THEN None ELSE registry[i]],
         tables' = tables \ {TableOf(datasets[i]) : i \in gone \cap Live},
         \A h \in Results : results'[h] \in {results[h], None},
         results' \in [Results -> Workspaces \cup {None}],
         stable' = {h \in Results : results'[h] # None},
         caller' \in Workspaces \cup {None}
  PROVE  StoreInv'
<1>1. TypeOK /\ RegistryAgrees /\ TablesAgree /\ NamesUnique /\ Bounded
  BY DEF StoreInv
<1>2. Live' = Live \ gone /\ \A i \in Live' : datasets'[i] = datasets[i]
  BY DEF Live
<1>3. TypeOK'
  BY <1>1 DEF TypeOK
<1>4. RegistryAgrees'
  BY <1>1 DEF RegistryAgrees
<1>5. TablesAgree'
  <2>1. \A i \in Live \ gone, j \in gone \cap Live : TableOf(datasets[i]) # TableOf(datasets[j])
    BY <1>1 DEF NamesUnique, TableOf
  <2>2. tables' = {TableOf(datasets[i]) : i \in Live \ gone}
    BY <2>1, <1>1 DEF TablesAgree
  <2>3. {TableOf(datasets[i]) : i \in Live}' = {TableOf(datasets'[i]) : i \in Live'}
    BY DEF TableOf
  <2>4. {TableOf(datasets'[i]) : i \in Live'} = {TableOf(datasets[i]) : i \in Live \ gone}
    BY <1>2
  <2>5. stable' = LiveResults'
    BY DEF LiveResults
  <2> QED
    BY <2>2, <2>3, <2>4, <2>5 DEF TablesAgree
<1>6. NamesUnique'
  BY <1>1, <1>2 DEF NamesUnique
<1>7. Bounded'
  <2>1. {i \in Ids : datasets'[i] # None} \subseteq Live
    BY DEF Live
  <2>2. {h \in Results : results'[h] # None} \subseteq LiveResults
    BY DEF LiveResults
  <2> QED
    BY <2>1, <2>2, <1>1, NothingAddedKeepsBounds
<1> QED
  BY <1>3, <1>4, <1>5, <1>6, <1>7 DEF StoreInv

(* Drop removes one dataset, Clear those of a workspace. *)
LEMMA DropInv ==
  ASSUME StoreInv, NEW w \in Workspaces, NEW i \in Ids, Drop(w, i)
  PROVE  StoreInv'
<1> DEFINE gone == {i}
<1>1. TypeOK /\ TablesAgree
  BY DEF StoreInv
<1>2. datasets' = [j \in Ids |-> IF j \in gone THEN None ELSE datasets[j]]
  BY <1>1 DEF Drop, TypeOK
<1>3. registry' = [j \in Ids |-> IF j \in gone THEN None ELSE registry[j]]
  BY <1>1 DEF Drop, TypeOK
<1>4. gone \cap Live = {i}
  BY DEF Drop, Owns, Live
<1>5. tables' = tables \ {TableOf(datasets[j]) : j \in gone \cap Live}
  BY <1>4 DEF Drop
<1>6. /\ \A h \in Results : results'[h] \in {results[h], None}
      /\ results' \in [Results -> Workspaces \cup {None}]
      /\ caller' \in Workspaces \cup {None}
  BY <1>1 DEF Drop, TypeOK
<1>7. stable' = {h \in Results : results'[h] # None}
  BY <1>1 DEF Drop, TablesAgree, LiveResults
<1> QED
  BY <1>2, <1>3, <1>5, <1>6, <1>7, RemovalInv

LEMMA ClearInv ==
  ASSUME StoreInv, NEW w \in Workspaces, Clear(w)
  PROVE  StoreInv'
<1> DEFINE gone == {i \in Live : datasets[i].workspace = w}
<1>1. TypeOK /\ TablesAgree
  BY DEF StoreInv
<1>2. gone \in SUBSET Ids /\ gone \cap Live = gone
  BY DEF Live
<1>3. /\ datasets' = [i \in Ids |-> IF i \in gone THEN None ELSE datasets[i]]
      /\ registry' = [i \in Ids |-> IF i \in gone THEN None ELSE registry[i]]
      /\ tables' = tables \ {TableOf(datasets[i]) : i \in gone \cap Live}
  BY <1>2 DEF Clear
<1>4. /\ \A h \in Results : results'[h] \in {results[h], None}
      /\ results' \in [Results -> Workspaces \cup {None}]
      /\ caller' \in Workspaces \cup {None}
  BY <1>1 DEF Clear, TypeOK
<1>5. stable' = {h \in Results : results'[h] # None}
  <2>1. \A h \in Results : results'[h] = IF results[h] = w THEN None ELSE results[h]
    BY DEF Clear
  <2>2. stable' = {h \in Results : results[h] # None /\ results[h] # w}
    BY <1>1 DEF Clear, TablesAgree, LiveResults
  <2> QED
    BY <2>1, <2>2, StoreAssumption
<1> QED
  BY <1>2, <1>3, <1>4, <1>5, RemovalInv

(* DropResult drops the table and forgets the handle. *)
LEMMA DropResultInv ==
  ASSUME StoreInv, NEW w \in Workspaces, NEW h \in Results, DropResult(w, h)
  PROVE  StoreInv'
<1> DEFINE gone == {}
<1>1. TypeOK /\ TablesAgree
  BY DEF StoreInv
<1>2. /\ datasets' = [i \in Ids |-> IF i \in gone THEN None ELSE datasets[i]]
      /\ registry' = [i \in Ids |-> IF i \in gone THEN None ELSE registry[i]]
  BY <1>1 DEF DropResult, TypeOK
<1>3. tables' = tables \ {TableOf(datasets[i]) : i \in gone \cap Live}
  BY DEF DropResult
<1>4. /\ \A g \in Results : results'[g] \in {results[g], None}
      /\ results' \in [Results -> Workspaces \cup {None}]
      /\ caller' \in Workspaces \cup {None}
  BY <1>1 DEF DropResult, TypeOK
<1>5. stable' = {g \in Results : results'[g] # None}
  BY <1>1 DEF DropResult, TypeOK, TablesAgree, LiveResults
<1>6. gone \in SUBSET Ids
  OBVIOUS
<1> HIDE DEF gone
<1> QED
  BY <1>2, <1>3, <1>4, <1>5, <1>6, RemovalInv

(* A restart keeps what the registry holds: all but temporary datasets. *)
LEMMA RestartInv ==
  ASSUME StoreInv, Restart
  PROVE  StoreInv'
<1> DEFINE gone == {i \in Live : Temporary(datasets[i].workspace)}
<1>1. TypeOK /\ RegistryAgrees /\ TablesAgree
  BY DEF StoreInv
<1>2. gone \in SUBSET Ids /\ gone \cap Live = gone
  BY DEF Live
<1>3. \A i \in Ids : registry[i] = IF i \in gone THEN None ELSE datasets[i]
  BY <1>1 DEF RegistryAgrees, Live
<1>4. /\ datasets' = [i \in Ids |-> IF i \in gone THEN None ELSE datasets[i]]
      /\ registry' = [i \in Ids |-> IF i \in gone THEN None ELSE registry[i]]
  BY <1>1, <1>3 DEF Restart, TypeOK
<1>5. tables' = tables \ {TableOf(datasets[i]) : i \in gone \cap Live}
  <2>1. \A i \in Live : TableOf(datasets[i]).temp <=> i \in gone
    BY DEF TableOf
  <2>2. {t \in tables : ~t.temp} = {TableOf(datasets[i]) : i \in Live \ gone}
    BY <2>1, <1>1 DEF TablesAgree
  <2>3. \A i \in gone, j \in Live \ gone : TableOf(datasets[i]) # TableOf(datasets[j])
    BY <2>1
  <2>4. tables \ {TableOf(datasets[i]) : i \in gone} = {TableOf(datasets[i]) : i \in Live \ gone}
    BY <2>3, <1>1 DEF TablesAgree
  <2> QED
    BY <2>2, <2>4, <1>2 DEF Restart
<1>6. /\ \A h \in Results : results'[h] \in {results[h], None}
      /\ results' \in [Results -> Workspaces \cup {None}]
      /\ caller' \in Workspaces \cup {None}
      /\ stable' = {h \in Results : results'[h] # None}
  BY DEF Restart
<1> QED
  BY <1>2, <1>4, <1>5, <1>6, RemovalInv

(* StartQuery adds a result while there is room for one. *)
LEMMA StartQueryInv ==
  ASSUME StoreInv, NEW w \in Workspaces, NEW h \in Results, StartQuery(w, h)
  PROVE  StoreInv'
<1>1. TypeOK /\ RegistryAgrees /\ TablesAgree /\ NamesUnique /\ Bounded
  BY DEF StoreInv
<1>2. /\ results[h] = None /\ Cardinality(LiveResults) < MaxResults
      /\ stable' = stable \cup {h}
      /\ results' = [results EXCEPT ![h] = w] /\ caller' = w
      /\ UNCHANGED <<datasets, registry, tables>>
  BY DEF StartQuery
<1>3. TypeOK'
  BY <1>1, <1>2 DEF TypeOK
<1>4. Live' = Live
  BY <1>2 DEF Live
<1>5. LiveResults' = LiveResults \cup {h} /\ h \notin LiveResults
  BY <1>1, <1>2, StoreAssumption DEF TypeOK, LiveResults
<1>6. RegistryAgrees' /\ NamesUnique'
  BY <1>1, <1>2, <1>4 DEF RegistryAgrees, NamesUnique
<1>7. TablesAgree'
  <2>1. {TableOf(datasets[i]) : i \in Live}' = {TableOf(datasets[i]) : i \in Live}
    BY <1>2, <1>4 DEF TableOf
  <2> QED
    BY <2>1, <1>1, <1>2, <1>5 DEF TablesAgree
<1>8. Bounded'
  <2>1. Cardinality(LiveResults') = Cardinality(LiveResults) + 1
    BY <1>5, LiveFinite, FS_AddElement
  <2>2. Cardinality(LiveResults) \in Nat
    BY LiveFinite, FS_CardinalityType
  <2> QED
    BY <2>1, <2>2, <1>1, <1>2, <1>4, StoreAssumption DEF Bounded
<1> QED
  BY <1>3, <1>6, <1>7, <1>8 DEF StoreInv

-----------------------------------------------------------------------------
(* After any calls and restarts, the maps, the registry and the tables     *)
(* agree, names are unique and the limits hold.                            *)
THEOREM StoreHolds == Spec => []StoreInv
<1>1. StoreInv /\ [Next]_vars => StoreInv'
  <2> SUFFICES ASSUME StoreInv, [Next]_vars PROVE StoreInv'
    OBVIOUS
  <2>1. ASSUME NEW i \in Ids, NEW w \in Workspaces, NEW base \in Bases, Import(i, w, base)
        PROVE  StoreInv'
    BY <2>1, ImportedInv
  <2>2. ASSUME NEW i \in Ids, NEW w \in Workspaces, NEW base \in Bases, Rename(w, i, base)
        PROVE  StoreInv'
    BY <2>2, RenameInv
  <2>3. ASSUME NEW w \in Workspaces, NEW i \in Ids, Drop(w, i) PROVE StoreInv'
    BY <2>3, DropInv
  <2>4. ASSUME NEW w \in Workspaces, Clear(w) PROVE StoreInv'
    BY <2>4, ClearInv
  <2>5. ASSUME NEW w \in Workspaces, NEW h \in Results, StartQuery(w, h) PROVE StoreInv'
    BY <2>5, StartQueryInv
  <2>6. ASSUME NEW w \in Workspaces, NEW h \in Results, DropResult(w, h) PROVE StoreInv'
    BY <2>6, DropResultInv
  <2>7. ASSUME Restart PROVE StoreInv'
    BY <2>7, RestartInv
  <2>8. CASE UNCHANGED vars
    BY <2>8 DEF vars, StoreInv, TypeOK, RegistryAgrees, TablesAgree, NamesUnique, Bounded,
                Live, LiveResults, TableOf
  <2> QED
    BY <2>1, <2>2, <2>3, <2>4, <2>5, <2>6, <2>7, <2>8 DEF Next
<1> QED
  BY <1>1, StoreInitInv, PTL DEF Spec

(* No dataset outlives the registry's word on it and none is lost by it.   *)
THEOREM NothingStoredIsLost == Spec => []RegistryAgrees
<1>1. StoreInv => RegistryAgrees
  BY DEF StoreInv
<1> QED
  BY <1>1, StoreHolds, PTL

(* A relation name means one dataset over all workspaces. *)
THEOREM OneDatasetPerName == Spec => []NamesUnique
<1>1. StoreInv => NamesUnique
  BY DEF StoreInv
<1> QED
  BY <1>1, StoreHolds, PTL

(* A call changes what its workspace owns; a restart takes temporary       *)
(* datasets and results only.                                              *)
THEOREM OwnersChangeTheirOwn == Spec => OwnersOnly
<1> DEFINE A ==
      /\ \A i \in Ids : datasets'[i] # datasets[i] =>
           Owner(datasets[i], datasets'[i]).workspace =
             (IF caller' = None THEN Federated ELSE caller')
      /\ \A h \in Results : results'[h] # results[h] =>
           caller' \in {None, Owner(results[h], results'[h])}
<1>1. StoreInv /\ [Next]_vars => [A]_vars
  <2> SUFFICES ASSUME StoreInv, Next PROVE A
    OBVIOUS
  <2>1. TypeOK /\ RegistryAgrees
    BY DEF StoreInv
  <2>2. ASSUME NEW k \in Ids, NEW w \in Workspaces, NEW base \in Bases, Import(k, w, base)
        PROVE  A
    <3>1. PICK relation \in Relations : datasets' = [datasets EXCEPT ![k] = [workspace |-> w, relation |-> relation]]
      BY <2>2 DEF Import
    <3>2. datasets[k] = None /\ caller' = w /\ w # None /\ results' = results
      BY <2>2, StoreAssumption DEF Import
    <3>3. \A i \in Ids \ {k} : datasets'[i] = datasets[i]
      BY <3>1, <2>1 DEF TypeOK
    <3>4. datasets'[k].workspace = w
      BY <3>1, <2>1 DEF TypeOK
    <3> QED
      BY <3>2, <3>3, <3>4 DEF Owner
  <2>3. ASSUME NEW k \in Ids, NEW w \in Workspaces, NEW base \in Bases, Rename(w, k, base)
        PROVE  A
    <3>1. PICK relation \in Relations : datasets' = [datasets EXCEPT ![k] = [datasets[k] EXCEPT !.relation = relation]]
      BY <2>3 DEF Rename
    <3>2. /\ datasets[k] # None /\ datasets[k].workspace = w
          /\ caller' = w /\ w # None /\ results' = results
      BY <2>3, StoreAssumption DEF Rename, Owns
    <3>3. \A i \in Ids \ {k} : datasets'[i] = datasets[i]
      BY <3>1, <2>1 DEF TypeOK
    <3> QED
      BY <3>2, <3>3 DEF Owner
  <2>4. ASSUME NEW w \in Workspaces, NEW k \in Ids, Drop(w, k) PROVE A
    <3>1. /\ datasets[k] # None /\ datasets[k].workspace = w
          /\ caller' = w /\ w # None /\ results' = results
      BY <2>4, StoreAssumption DEF Drop, Owns
    <3>2. \A i \in Ids \ {k} : datasets'[i] = datasets[i]
      BY <2>4, <2>1 DEF Drop, TypeOK
    <3> QED
      BY <3>1, <3>2 DEF Owner
  <2>5. ASSUME NEW w \in Workspaces, Clear(w) PROVE A
    <3>1. caller' = w /\ w # None
      BY <2>5, StoreAssumption DEF Clear
    <3>2. \A i \in Ids : datasets'[i] # datasets[i] => datasets[i] # None /\ datasets[i].workspace = w
      BY <2>5 DEF Clear, Live
    <3>3. \A h \in Results : results'[h] # results[h] => results[h] = w
      BY <2>5 DEF Clear
    <3> QED
      BY <3>1, <3>2, <3>3 DEF Owner
  <2>6. ASSUME NEW w \in Workspaces, NEW g \in Results, StartQuery(w, g) PROVE A
    BY <2>6, <2>1 DEF StartQuery, TypeOK, Owner
  <2>7. ASSUME NEW w \in Workspaces, NEW g \in Results, DropResult(w, g) PROVE A
    BY <2>7, <2>1, StoreAssumption DEF DropResult, TypeOK, Owner
  <2>8. ASSUME Restart PROVE A
    <3>1. caller' = None /\ datasets' = registry
      BY <2>8 DEF Restart
    <3>2. \A i \in Ids : registry[i] # datasets[i] => datasets[i] # None /\ datasets[i].workspace = Federated
      BY <2>1 DEF RegistryAgrees, Temporary
    <3> QED
      BY <3>1, <3>2 DEF Owner
  <2> QED
    BY <2>2, <2>3, <2>4, <2>5, <2>6, <2>7, <2>8 DEF Next
<1> QED
  BY <1>1, StoreHolds, PTL DEF Spec, OwnersOnly

-----------------------------------------------------------------------------
(* Operations: nothing runs at the start. *)
LEMMA EngineInitInv == ASSUME EngineAssumption, EngineInit PROVE EngineInv
BY DEF EngineAssumption, EngineInit, EngineInv, EngineTypeOK, OneAtATime, StopsItsOwn, ReportIsTrue, StatusOfActive,
       ResultAtEnd, FinalAtEnd, EnginePlaces, Active

USE DEF EngineInv, EngineAssumption, EngineTypeOK, OneAtATime, StopsItsOwn, ReportIsTrue,
       StatusOfActive, ResultAtEnd, FinalAtEnd, EnginePlaces, States, Active

(* The slot is free when an operation claims it, and the request is reset. *)
LEMMA ClaimInv == ASSUME EngineInv, NEW o \in Ops, Claim(o) PROVE EngineInv'
<1>1. EngineTypeOK'
  BY DEF Claim
<1>2. OneAtATime'
  BY DEF Claim
<1>3. StopsItsOwn'
  BY DEF Claim
<1>4. ReportIsTrue'
  BY DEF Claim
<1>5. StatusOfActive'
  BY DEF Claim
<1>6. ResultAtEnd'
  BY DEF Claim
<1>7. FinalAtEnd'
  BY DEF Claim
<1> QED
  BY <1>1, <1>2, <1>3, <1>4, <1>5, <1>6, <1>7

LEMMA RefuseInv == ASSUME EngineInv, NEW o \in Ops, Refuse(o) PROVE EngineInv'
BY DEF Refuse

(* The status becomes the operation's own. *)
LEMMA BeginInv == ASSUME EngineInv, NEW o \in Ops, Begin(o) PROVE EngineInv'
BY DEF Begin

LEMMA LockInv == ASSUME EngineInv, NEW o \in Ops, Lock(o) PROVE EngineInv'
BY DEF Lock

(* A body returns once; only a completed one publishes. *)
LEMMA CompleteInv == ASSUME EngineInv, NEW o \in Ops, Complete(o) PROVE EngineInv'
<1>1. EngineTypeOK'
  BY DEF Complete, Return
<1>2. OneAtATime'
  BY DEF Complete, Return
<1>3. StopsItsOwn'
  BY DEF Complete, Return
<1>4. ReportIsTrue'
  BY DEF Complete, Return
<1>5. StatusOfActive'
  BY DEF Complete, Return
<1>6. ResultAtEnd'
  BY DEF Complete, Return
<1>7. FinalAtEnd'
  BY DEF Complete, Return
<1> QED
  BY <1>1, <1>2, <1>3, <1>4, <1>5, <1>6, <1>7

(* An export that cannot inspect its file has published it. *)
LEMMA UninspectedInv == ASSUME EngineInv, NEW o \in Ops, Uninspected(o) PROVE EngineInv'
<1>1. EngineTypeOK'
  BY DEF Uninspected, Return
<1>2. OneAtATime'
  BY DEF Uninspected, Return
<1>3. StopsItsOwn'
  BY DEF Uninspected, Return
<1>4. ReportIsTrue'
  BY DEF Uninspected, Return
<1>5. StatusOfActive'
  BY DEF Uninspected, Return
<1>6. ResultAtEnd'
  BY DEF Uninspected, Return
<1>7. FinalAtEnd'
  BY DEF Uninspected, Return
<1> QED
  BY <1>1, <1>2, <1>3, <1>4, <1>5, <1>6, <1>7

(* A body that fails publishes nothing and frees inner. *)
LEMMA FailureInv ==
  ASSUME EngineInv, NEW o \in Ops, Return(o, "error"), UNCHANGED published,
         hit' = hit \/ (hit' = hit \cup {o} /\ cancelRequested)
  PROVE  EngineInv'
<1>1. pc[o] \in {"apart", "locked"} /\ result[o] = None /\ o \notin published
  BY DEF Return
<1>2. EngineTypeOK'
  BY DEF Return
<1>3. OneAtATime'
  BY DEF Return
<1>4. StopsItsOwn'
  BY DEF Return
<1>5. ReportIsTrue'
  <2>1. \A p \in Ops \ {o} : result'[p] = result[p]
    BY DEF Return
  <2>2. published' \subseteq {p \in Ops : result'[p] = "ok"}
                            \cup {p \in Exports : result'[p] = "uninspected"}
    BY <1>1, <2>1
  <2>3. status # None => status.op \in Ops
    OBVIOUS
  <2>4. status # None /\ status.op = o => status.state \notin {"succeeded", "cancelled", "failed"}
    BY <1>1
  <2>5. status' = status
    BY DEF Return
  <2> QED
    BY <2>1, <2>2, <2>3, <2>4, <2>5
<1>6. StatusOfActive'
  BY DEF Return
<1>7. ResultAtEnd'
  BY DEF Return
<1>8. FinalAtEnd'
  BY <1>1 DEF Return
<1> QED
  BY <1>2, <1>3, <1>4, <1>5, <1>6, <1>7, <1>8

LEMMA FailAloneInv == ASSUME EngineInv, NEW o \in Ops, FailAlone(o) PROVE EngineInv'
<1>1. Return(o, "error") /\ UNCHANGED published /\ hit' = hit
  BY DEF FailAlone
<1> QED
  BY <1>1, FailureInv

(* The operation that is stopped is the one a cancel was accepted for. *)
LEMMA StopInv == ASSUME EngineInv, NEW o \in Ops, Stop(o) PROVE EngineInv'
<1>1. Return(o, "error") /\ UNCHANGED published /\ hit' = hit \cup {o} /\ cancelRequested
  BY DEF Stop
<1> QED
  BY <1>1, FailureInv

LEMMA ReportInv == ASSUME EngineInv, NEW o \in Ops, Report(o) PROVE EngineInv'
BY DEF Report, FinalState

LEMMA ReleaseInv == ASSUME EngineInv, NEW o \in Ops, Release(o) PROVE EngineInv'
BY DEF Release, MainAfter

LEMMA CancelInv == ASSUME EngineInv, NEW o \in Ops, Cancel(o) PROVE EngineInv'
<1>1. EngineTypeOK'
  <2>1. status # None => [status EXCEPT !.state = "cancelling"] \in [op : Ops, state : States]
    OBVIOUS
  <2>2. status' \in [op : Ops, state : States] \cup {None}
    BY <2>1 DEF Cancel
  <2>3. asked' \subseteq Ops /\ cancelled' \subseteq Ops /\ cancelRequested' \in BOOLEAN
    <3>1. asked' = asked \ {o}
      BY DEF Cancel
    <3>2. cancelled' \in {cancelled, cancelled \cup {o}} /\ cancelRequested' \in {TRUE, cancelRequested}
      BY DEF Cancel
    <3>3. asked \subseteq Ops /\ cancelled \subseteq Ops /\ cancelRequested \in BOOLEAN
      OBVIOUS
    <3>4. asked' \subseteq Ops /\ cancelled' \subseteq Ops
      BY ONLY <3>1, <3>2, <3>3, o \in Ops
    <3> QED
      BY ONLY <3>2, <3>3, <3>4
  <2>4. UNCHANGED <<pc, result, current, inner, published, main, hit>>
    BY DEF Cancel
  <2> QED
    BY <2>2, <2>3, <2>4
<1>2. OneAtATime'
  BY DEF Cancel
<1>3. StopsItsOwn'
  BY DEF Cancel
<1>4. ReportIsTrue'
  BY DEF Cancel
<1>5. StatusOfActive'
  BY DEF Cancel
<1>6. ResultAtEnd'
  BY DEF Cancel
<1>7. FinalAtEnd'
  BY DEF Cancel
<1> QED
  BY <1>1, <1>2, <1>3, <1>4, <1>5, <1>6, <1>7

(* An edit holds inner alone and touches no operation. *)
LEMMA EditInv ==
  ASSUME EngineInv, StartEdit \/ LockEdit \/ EndEdit \/ HitEdit
  PROVE  EngineInv'
BY DEF StartEdit, LockEdit, EndEdit, HitEdit

-----------------------------------------------------------------------------
(* The inductive invariant of the engine's operations. *)
THEOREM EngineHolds ==
  ASSUME EngineAssumption PROVE EngineSpec => []EngineInv
<1>1. EngineInv /\ [EngineNext]_engineVars => EngineInv'
  <2> SUFFICES ASSUME EngineInv, [EngineNext]_engineVars PROVE EngineInv'
    OBVIOUS
  <2>1. ASSUME NEW o \in Ops, Claim(o) PROVE EngineInv'
    BY ONLY <2>1, EngineInv, ClaimInv
  <2>2. ASSUME NEW o \in Ops, Refuse(o) PROVE EngineInv'
    BY ONLY <2>2, EngineInv, RefuseInv
  <2>3. ASSUME NEW o \in Ops, Step(o) PROVE EngineInv'
    BY ONLY <2>3, EngineInv, BeginInv, LockInv, StopInv, ReportInv, ReleaseInv DEF Step
  <2>4. ASSUME NEW o \in Ops, Complete(o) PROVE EngineInv'
    BY ONLY <2>4, EngineInv, CompleteInv
  <2>5. ASSUME NEW o \in Ops, FailAlone(o) PROVE EngineInv'
    BY ONLY <2>5, EngineInv, FailAloneInv
  <2>6. ASSUME NEW o \in Ops, Ask(o) PROVE EngineInv'
    BY <2>6 DEF Ask
  <2>7. ASSUME NEW o \in Ops, Cancel(o) PROVE EngineInv'
    BY ONLY <2>7, EngineInv, CancelInv
  <2>10. ASSUME NEW o \in Ops, Uninspected(o) PROVE EngineInv'
    BY ONLY <2>10, EngineInv, UninspectedInv
  <2>8. CASE StartEdit \/ LockEdit \/ EndEdit \/ HitEdit
    BY ONLY <2>8, EngineInv, EditInv
  <2>9. CASE UNCHANGED engineVars
    BY <2>9 DEF engineVars
  <2> QED
    BY ONLY [EngineNext]_engineVars, <2>1, <2>2, <2>3, <2>4, <2>5, <2>6, <2>7, <2>8, <2>9, <2>10
       DEF EngineNext
<1>2. EngineInit => EngineInv
  BY EngineInitInv
<1> QED
  BY <1>1, <1>2, PTL DEF EngineSpec

(* One operation works at a time and holds inner against edits. *)
THEOREM OperationsExclusive ==
  ASSUME EngineAssumption PROVE EngineSpec => []OneAtATime
<1>1. EngineInv => OneAtATime
  OBVIOUS
<1> QED
  BY <1>1, EngineHolds, PTL

(* No operation is stopped by a request meant for another. *)
THEOREM StopsAreOwn ==
  ASSUME EngineAssumption PROVE EngineSpec => []StopsItsOwn
<1>1. EngineInv => StopsItsOwn
  OBVIOUS
<1> QED
  BY <1>1, EngineHolds, PTL

(* Success is reported for completed work only, and nothing that failed or *)
(* was cancelled is published, but for an export that could not inspect    *)
(* what it had published.                                                  *)
THEOREM ReportsTrue ==
  ASSUME EngineAssumption PROVE EngineSpec => []ReportIsTrue
<1>1. EngineInv => ReportIsTrue
  OBVIOUS
<1> QED
  BY <1>1, EngineHolds, PTL

HIDE DEF EngineInv, EngineAssumption, EngineTypeOK, OneAtATime, StopsItsOwn, ReportIsTrue,
         StatusOfActive, ResultAtEnd, FinalAtEnd, EnginePlaces, States, Active

-----------------------------------------------------------------------------
USE DEF ExportInv, ExportAssumption, ExportTypeOK, Nothing, Files

(* What is left aside is counted among the backups. *)
LEMMA LeaveKeeps ==
  ASSUME NEW way, Leave(way), ExportTypeOK, saved' \in [Files -> Contents \cup {None}]
  PROVE  kept' \in [Files -> SUBSET Contents]
BY DEF Leave

(* The first export finds nothing lost. *)
LEMMA ExportInitInv == ASSUME ExportAssumption, ExportInit PROVE ExportInv
<1>1. ExportTypeOK
  <2>1. dest \in [Files -> Contents \cup {None}]
    BY DEF ExportInit, Contents
  <2>2. part \in [Files -> Contents \cup {None}] /\ saved \in [Files -> Contents \cup {None}]
    BY DEF ExportInit
  <2>3. kept \in [Files -> SUBSET Contents]
    BY DEF ExportInit
  <2>4. step \in Places /\ export \in 0 .. MaxExports
    BY DEF ExportInit, Places
  <2> QED
    BY <2>1, <2>2, <2>3, <2>4 DEF ExportInit
<1>2. NothingLost
  BY DEF ExportInit, NothingLost, LastSaved, AllSaved, Undone, HalfSaved, Untouched, AtRest,
         Completed, PartsReady
<1>3. OutcomeIsTrue
  BY DEF ExportInit, OutcomeIsTrue, Untouched, HalfSaved, Undone, Completed, AtRest
<1>4. DataPartCleaned
  BY DEF ExportInit, DataPartCleaned, Undone, Completed, AtRest, PartsReady
<1>5. AtRest
  BY DEF ExportInit, AtRest
<1>6. Untouched
  BY DEF ExportInit, Untouched
<1>7. HalfSaved
  BY DEF ExportInit, HalfSaved, Untouched
<1>8. AllSaved
  BY DEF ExportInit, AllSaved, HalfSaved, NothingLost, LastSaved, PartsReady
<1>9. Undone
  BY DEF ExportInit, Undone, AllSaved, LastSaved
<1>10. Completed
  BY DEF ExportInit, Completed, AllSaved, PartsReady
<1>11. PartsReady
  BY DEF ExportInit, PartsReady
<1> QED
  BY <1>1, <1>2, <1>3, <1>4, <1>5, <1>6, <1>7, <1>8, <1>9, <1>10, <1>11

(* An export starts with nothing moved aside. *)
LEMMA StartInv == ASSUME ExportInv, Start PROVE ExportInv'
<1>1. ExportTypeOK'
  <2>1. step' \in Places /\ export' \in 0 .. MaxExports
    BY DEF Start, Places
  <2>2. dest' \in [Files -> Contents \cup {None}]
    BY DEF Start, Contents
  <2>3. part' \in [Files -> Contents \cup {None}]
    BY DEF Start, Contents
  <2>4. saved' \in [Files -> Contents \cup {None}]
    BY DEF Start, Contents
  <2>5. kept' \in [Files -> SUBSET Contents]
    BY <2>4 DEF Start, Contents
  <2>6. outcome' \in {"ok", "error", "kept", "uninspected", "crash", None} /\ stuck' \in BOOLEAN
    BY DEF Start
  <2>7. last' \in [Files -> Contents \cup {None}] /\ before' \in [Files -> Contents \cup {None}]
    BY DEF Start, Contents
  <2> QED
    BY ONLY <2>1, <2>2, <2>3, <2>4, <2>5, <2>6, <2>7 DEF ExportTypeOK
<1>2. NothingLost'
  BY DEF Start, NothingLost, LastSaved, AllSaved, Undone, HalfSaved, Untouched, AtRest,
         Completed, PartsReady
<1>3. OutcomeIsTrue'
  BY DEF Start, OutcomeIsTrue, Untouched, HalfSaved, Undone, Completed, AtRest
<1>4. DataPartCleaned'
  BY DEF Start, DataPartCleaned, Undone, Completed, AtRest, PartsReady
<1>5. AtRest'
  BY DEF Start, AtRest
<1>6. Untouched'
  BY DEF Start, Untouched
<1>7. HalfSaved'
  BY DEF Start, HalfSaved, Untouched
<1>8. AllSaved'
  BY DEF Start, AllSaved, HalfSaved, NothingLost, LastSaved, PartsReady
<1>9. Undone'
  BY DEF Start, Undone, AllSaved, LastSaved
<1>10. Completed'
  BY DEF Start, Completed, AllSaved, PartsReady
<1>11. PartsReady'
  BY DEF Start, PartsReady
<1> QED
  BY <1>1, <1>2, <1>3, <1>4, <1>5, <1>6, <1>7, <1>8, <1>9, <1>10, <1>11

LEMMA WriteInv == ASSUME ExportInv, Write PROVE ExportInv'
<1>1. ExportTypeOK'
  BY DEF Write, Contents, Partial, Places
<1>2. NothingLost'
  BY DEF Write, NothingLost, LastSaved, AllSaved, Undone, HalfSaved, Untouched, AtRest,
         Completed, PartsReady
<1>3. OutcomeIsTrue'
  BY DEF Write, OutcomeIsTrue, Untouched, HalfSaved, Undone, Completed, AtRest
<1>4. DataPartCleaned'
  BY DEF Write, DataPartCleaned, Undone, Completed, AtRest, PartsReady
<1>5. AtRest'
  BY DEF Write, AtRest
<1>6. Untouched'
  BY DEF Write, Untouched
<1>7. HalfSaved'
  BY DEF Write, HalfSaved, Untouched
<1>8. AllSaved'
  BY DEF Write, AllSaved, HalfSaved, NothingLost, LastSaved, PartsReady
<1>9. Undone'
  BY DEF Write, Undone, AllSaved, LastSaved
<1>10. Completed'
  BY DEF Write, Completed, AllSaved, PartsReady
<1>11. PartsReady'
  BY DEF Write, PartsReady
<1> QED
  BY <1>1, <1>2, <1>3, <1>4, <1>5, <1>6, <1>7, <1>8, <1>9, <1>10, <1>11

LEMMA WriteFailsInv == ASSUME ExportInv, WriteFails PROVE ExportInv'
<1>1. ExportTypeOK'
  BY DEF WriteFails, Leave, Contents, Partial, Places
<1>2. NothingLost'
  BY DEF WriteFails, Leave, NothingLost, LastSaved, AllSaved, Undone, HalfSaved, Untouched,
         AtRest, Completed, PartsReady
<1>3. OutcomeIsTrue'
  BY DEF WriteFails, Leave, OutcomeIsTrue, Untouched, HalfSaved, Undone, Completed, AtRest
<1>4. DataPartCleaned'
  BY DEF WriteFails, Leave, DataPartCleaned, Undone, Completed, AtRest, PartsReady
<1>5. AtRest'
  BY DEF WriteFails, Leave, AtRest
<1>6. Untouched'
  BY DEF WriteFails, Leave, Untouched
<1>7. HalfSaved'
  BY DEF WriteFails, Leave, HalfSaved, Untouched
<1>8. AllSaved'
  BY DEF WriteFails, Leave, AllSaved, HalfSaved, NothingLost, LastSaved, PartsReady
<1>9. Undone'
  BY DEF WriteFails, Leave, Undone, AllSaved, LastSaved
<1>10. Completed'
  BY DEF WriteFails, Leave, Completed, AllSaved, PartsReady
<1>11. PartsReady'
  BY DEF WriteFails, Leave, PartsReady
<1> QED
  BY <1>1, <1>2, <1>3, <1>4, <1>5, <1>6, <1>7, <1>8, <1>9, <1>10, <1>11

LEMMA DescribeInv == ASSUME ExportInv, Describe PROVE ExportInv'
<1>1. ExportTypeOK'
  <2>1. step' \in Places /\ export' \in 0 .. MaxExports
    BY DEF Describe, Places
  <2>2. dest' \in [Files -> Contents \cup {None}]
    BY DEF Describe, Contents
  <2>3. part' \in [Files -> Contents \cup {None}]
    <3>1. export \in Contents
      BY DEF Contents
    <3> QED
      BY ONLY <3>1, Describe, ExportTypeOK DEF Describe, ExportTypeOK
  <2>4. saved' \in [Files -> Contents \cup {None}]
    BY DEF Describe, Contents
  <2>5. kept' \in [Files -> SUBSET Contents]
    BY <2>4 DEF Describe, Contents
  <2>6. outcome' \in {"ok", "error", "kept", "uninspected", "crash", None} /\ stuck' \in BOOLEAN
    BY DEF Describe
  <2>7. last' \in [Files -> Contents \cup {None}] /\ before' \in [Files -> Contents \cup {None}]
    BY DEF Describe, Contents
  <2> QED
    BY ONLY <2>1, <2>2, <2>3, <2>4, <2>5, <2>6, <2>7 DEF ExportTypeOK
<1>2. NothingLost'
  BY DEF Describe, NothingLost, LastSaved, AllSaved, Undone, HalfSaved, Untouched, AtRest,
         Completed, PartsReady
<1>3. OutcomeIsTrue'
  BY DEF Describe, OutcomeIsTrue, Untouched, HalfSaved, Undone, Completed, AtRest
<1>4. DataPartCleaned'
  BY DEF Describe, DataPartCleaned, Undone, Completed, AtRest, PartsReady
<1>5. AtRest'
  BY DEF Describe, AtRest
<1>6. Untouched'
  BY DEF Describe, Untouched
<1>7. HalfSaved'
  BY DEF Describe, HalfSaved, Untouched
<1>8. AllSaved'
  BY DEF Describe, AllSaved, HalfSaved, NothingLost, LastSaved, PartsReady
<1>9. Undone'
  BY DEF Describe, Undone, AllSaved, LastSaved
<1>10. Completed'
  BY DEF Describe, Completed, AllSaved, PartsReady
<1>11. PartsReady'
  BY DEF Describe, PartsReady
<1> QED
  BY <1>1, <1>2, <1>3, <1>4, <1>5, <1>6, <1>7, <1>8, <1>9, <1>10, <1>11

LEMMA DescribeFailsInv == ASSUME ExportInv, DescribeFails PROVE ExportInv'
<1>1. ExportTypeOK'
  BY DEF DescribeFails, Leave, Contents, Partial, Places
<1>2. NothingLost'
  BY DEF DescribeFails, Leave, NothingLost, LastSaved, AllSaved, Undone, HalfSaved, Untouched,
         AtRest, Completed, PartsReady
<1>3. OutcomeIsTrue'
  BY DEF DescribeFails, Leave, OutcomeIsTrue, Untouched, HalfSaved, Undone, Completed, AtRest
<1>4. DataPartCleaned'
  BY DEF DescribeFails, Leave, DataPartCleaned, Undone, Completed, AtRest, PartsReady
<1>5. AtRest'
  BY DEF DescribeFails, Leave, AtRest
<1>6. Untouched'
  BY DEF DescribeFails, Leave, Untouched
<1>7. HalfSaved'
  BY DEF DescribeFails, Leave, HalfSaved, Untouched
<1>8. AllSaved'
  BY DEF DescribeFails, Leave, AllSaved, HalfSaved, NothingLost, LastSaved, PartsReady
<1>9. Undone'
  BY DEF DescribeFails, Leave, Undone, AllSaved, LastSaved
<1>10. Completed'
  BY DEF DescribeFails, Leave, Completed, AllSaved, PartsReady
<1>11. PartsReady'
  BY DEF DescribeFails, Leave, PartsReady
<1> QED
  BY <1>1, <1>2, <1>3, <1>4, <1>5, <1>6, <1>7, <1>8, <1>9, <1>10, <1>11

(* The old data moves from the destination to its backup. *)
LEMMA SaveDataInv == ASSUME ExportInv, SaveData PROVE ExportInv'
<1>1. ExportTypeOK'
  BY DEF SaveData, Save, Contents, Partial, Places
<1>2. NothingLost'
  BY DEF SaveData, Save, NothingLost, LastSaved, AllSaved, Undone, HalfSaved, Untouched, AtRest,
         Completed, PartsReady
<1>3. OutcomeIsTrue'
  BY DEF SaveData, Save, OutcomeIsTrue, Untouched, HalfSaved, Undone, Completed, AtRest
<1>4. DataPartCleaned'
  BY DEF SaveData, Save, DataPartCleaned, Undone, Completed, AtRest, PartsReady
<1>5. AtRest'
  BY DEF SaveData, Save, AtRest
<1>6. Untouched'
  BY DEF SaveData, Save, Untouched
<1>7. HalfSaved'
  BY DEF SaveData, Save, HalfSaved, Untouched
<1>8. AllSaved'
  BY DEF SaveData, Save, AllSaved, HalfSaved, NothingLost, LastSaved, PartsReady
<1>9. Undone'
  BY DEF SaveData, Save, Undone, AllSaved, LastSaved
<1>10. Completed'
  BY DEF SaveData, Save, Completed, AllSaved, PartsReady
<1>11. PartsReady'
  BY DEF SaveData, Save, PartsReady
<1> QED
  BY <1>1, <1>2, <1>3, <1>4, <1>5, <1>6, <1>7, <1>8, <1>9, <1>10, <1>11

LEMMA SaveDataFailsInv == ASSUME ExportInv, SaveDataFails PROVE ExportInv'
<1>1. ExportTypeOK'
  <2>1. step' \in Places /\ export' \in 0 .. MaxExports
    BY DEF SaveDataFails, RemoveParts, Leave, Places
  <2>2. dest' \in [Files -> Contents \cup {None}]
    BY DEF SaveDataFails, RemoveParts, Leave, Contents
  <2>3. part' \in [Files -> Contents \cup {None}]
    BY DEF SaveDataFails, RemoveParts, Leave, Contents
  <2>4. saved' \in [Files -> Contents \cup {None}]
    BY DEF SaveDataFails, RemoveParts, Leave, Contents
  <2>5. kept' \in [Files -> SUBSET Contents]
    BY <2>4, LeaveKeeps DEF SaveDataFails
  <2>6. outcome' \in {"ok", "error", "kept", "uninspected", "crash", None} /\ stuck' \in BOOLEAN
    BY DEF SaveDataFails, RemoveParts, Leave
  <2>7. last' \in [Files -> Contents \cup {None}] /\ before' \in [Files -> Contents \cup {None}]
    BY DEF SaveDataFails, RemoveParts, Leave, Contents
  <2> QED
    BY ONLY <2>1, <2>2, <2>3, <2>4, <2>5, <2>6, <2>7 DEF ExportTypeOK
<1>2. NothingLost'
  BY DEF SaveDataFails, RemoveParts, Leave, NothingLost, LastSaved, AllSaved, Undone, HalfSaved,
         Untouched, AtRest, Completed, PartsReady
<1>3. OutcomeIsTrue'
  BY DEF SaveDataFails, RemoveParts, Leave, OutcomeIsTrue, Untouched, HalfSaved, Undone,
         Completed, AtRest
<1>4. DataPartCleaned'
  BY DEF SaveDataFails, RemoveParts, Leave, DataPartCleaned, Undone, Completed, AtRest,
         PartsReady
<1>5. AtRest'
  BY DEF SaveDataFails, RemoveParts, Leave, AtRest
<1>6. Untouched'
  BY DEF SaveDataFails, RemoveParts, Leave, Untouched
<1>7. HalfSaved'
  BY DEF SaveDataFails, RemoveParts, Leave, HalfSaved, Untouched
<1>8. AllSaved'
  BY DEF SaveDataFails, RemoveParts, Leave, AllSaved, HalfSaved, NothingLost, LastSaved,
         PartsReady
<1>9. Undone'
  BY DEF SaveDataFails, RemoveParts, Leave, Undone, AllSaved, LastSaved
<1>10. Completed'
  BY DEF SaveDataFails, RemoveParts, Leave, Completed, AllSaved, PartsReady
<1>11. PartsReady'
  BY DEF SaveDataFails, RemoveParts, Leave, PartsReady
<1> QED
  BY <1>1, <1>2, <1>3, <1>4, <1>5, <1>6, <1>7, <1>8, <1>9, <1>10, <1>11

LEMMA SaveProvenanceInv == ASSUME ExportInv, SaveProvenance PROVE ExportInv'
<1>1. ExportTypeOK'
  BY DEF SaveProvenance, Save, Contents, Partial, Places
<1>2. NothingLost'
  BY DEF SaveProvenance, Save, NothingLost, LastSaved, AllSaved, Undone, HalfSaved, Untouched,
         AtRest, Completed, PartsReady
<1>3. OutcomeIsTrue'
  BY DEF SaveProvenance, Save, OutcomeIsTrue, Untouched, HalfSaved, Undone, Completed, AtRest
<1>4. DataPartCleaned'
  BY DEF SaveProvenance, Save, DataPartCleaned, Undone, Completed, AtRest, PartsReady
<1>5. AtRest'
  BY DEF SaveProvenance, Save, AtRest
<1>6. Untouched'
  BY DEF SaveProvenance, Save, Untouched
<1>7. HalfSaved'
  BY DEF SaveProvenance, Save, HalfSaved, Untouched
<1>8. AllSaved'
  BY DEF SaveProvenance, Save, AllSaved, HalfSaved, NothingLost, LastSaved, PartsReady
<1>9. Undone'
  BY DEF SaveProvenance, Save, Undone, AllSaved, LastSaved
<1>10. Completed'
  BY DEF SaveProvenance, Save, Completed, AllSaved, PartsReady
<1>11. PartsReady'
  BY DEF SaveProvenance, Save, PartsReady
<1> QED
  BY <1>1, <1>2, <1>3, <1>4, <1>5, <1>6, <1>7, <1>8, <1>9, <1>10, <1>11

(* The data is brought back, or told of. *)
LEMMA SaveProvenanceFailsInv == ASSUME ExportInv, SaveProvenanceFails PROVE ExportInv'
<1>1. ExportTypeOK'
  <2>1. step' \in Places /\ export' \in 0 .. MaxExports
    BY DEF SaveProvenanceFails, RemoveParts, Leave, Told, BringBack, Places
  <2>2. dest' \in [Files -> Contents \cup {None}]
    BY DEF SaveProvenanceFails, RemoveParts, Leave, Told, BringBack, Contents
  <2>3. part' \in [Files -> Contents \cup {None}]
    BY DEF SaveProvenanceFails, RemoveParts, Leave, Told, BringBack, Contents
  <2>4. saved' \in [Files -> Contents \cup {None}]
    BY DEF SaveProvenanceFails, RemoveParts, Leave, Told, BringBack, Contents
  <2>5. kept' \in [Files -> SUBSET Contents]
    BY <2>4, LeaveKeeps DEF SaveProvenanceFails
  <2>6. outcome' \in {"ok", "error", "kept", "uninspected", "crash", None} /\ stuck' \in BOOLEAN
    BY DEF SaveProvenanceFails, RemoveParts, Leave, Told, BringBack
  <2>7. last' \in [Files -> Contents \cup {None}] /\ before' \in [Files -> Contents \cup {None}]
    BY DEF SaveProvenanceFails, RemoveParts, Leave, Told, BringBack, Contents
  <2> QED
    BY ONLY <2>1, <2>2, <2>3, <2>4, <2>5, <2>6, <2>7 DEF ExportTypeOK
<1>2. NothingLost'
  <2> SUFFICES ASSUME NEW f \in Files, last[f] # None
               PROVE  last[f] \in {dest'[f], saved'[f]} \cup kept'[f]
    BY DEF SaveProvenanceFails, NothingLost
  <2>1. last[f] \in {dest[f], saved[f]} \cup kept[f]
    BY DEF NothingLost
  <2>2. kept[f] \subseteq kept'[f]
    BY DEF SaveProvenanceFails, Leave
  <2>3. dest["data"] = None
    BY DEF SaveProvenanceFails, HalfSaved
  <2>4. \/ dest'[f] = dest[f] /\ saved'[f] = saved[f]
        \/ f = "data" /\ dest'[f] = saved[f]
    BY DEF SaveProvenanceFails, BringBack
  <2> QED
    BY <2>1, <2>2, <2>3, <2>4
<1>3. OutcomeIsTrue'
  <2>1. before["provenance"] = dest["provenance"] /\ before["data"] = saved["data"]
    BY DEF SaveProvenanceFails, HalfSaved
  <2>2. ASSUME outcome' = "error" PROVE dest' = before
    <3>1. saved' = Nothing
      BY <2>2 DEF SaveProvenanceFails, Leave, Told
    <3>2. dest'["provenance"] = dest["provenance"]
      BY DEF SaveProvenanceFails, BringBack
    <3>3. dest'["data"] = before["data"]
      BY <2>1, <3>1 DEF SaveProvenanceFails, BringBack, HalfSaved
    <3>4. dest' \in [Files -> Contents \cup {None}]
      BY <1>1
    <3> QED
      BY <2>1, <3>2, <3>3, <3>4
  <2>3. outcome' \notin {"ok", "uninspected"} /\ before' = before
    BY DEF SaveProvenanceFails, Leave, Told
  <2> QED
    BY <2>2, <2>3 DEF OutcomeIsTrue
<1>4. DataPartCleaned'
  BY DEF SaveProvenanceFails, RemoveParts, Leave, Told, BringBack, DataPartCleaned, Undone,
         Completed, AtRest, PartsReady
<1>5. AtRest'
  BY DEF SaveProvenanceFails, RemoveParts, Leave, Told, BringBack, AtRest
<1>6. Untouched'
  BY DEF SaveProvenanceFails, RemoveParts, Leave, Told, BringBack, Untouched
<1>7. HalfSaved'
  BY DEF SaveProvenanceFails, RemoveParts, Leave, Told, BringBack, HalfSaved, Untouched
<1>8. AllSaved'
  BY DEF SaveProvenanceFails, RemoveParts, Leave, Told, BringBack, AllSaved, HalfSaved,
         NothingLost, LastSaved, PartsReady
<1>9. Undone'
  BY DEF SaveProvenanceFails, RemoveParts, Leave, Told, BringBack, Undone, AllSaved, LastSaved
<1>10. Completed'
  BY DEF SaveProvenanceFails, RemoveParts, Leave, Told, BringBack, Completed, AllSaved,
         PartsReady
<1>11. PartsReady'
  BY DEF SaveProvenanceFails, RemoveParts, Leave, Told, BringBack, PartsReady
<1> QED
  BY <1>1, <1>2, <1>3, <1>4, <1>5, <1>6, <1>7, <1>8, <1>9, <1>10, <1>11

LEMMA PublishDataInv == ASSUME ExportInv, PublishData PROVE ExportInv'
<1>1. ExportTypeOK'
  BY DEF PublishData, Publish, Contents, Partial, Places
<1>2. NothingLost'
  BY DEF PublishData, Publish, NothingLost, LastSaved, AllSaved, Undone, HalfSaved, Untouched,
         AtRest, Completed, PartsReady
<1>3. OutcomeIsTrue'
  BY DEF PublishData, Publish, OutcomeIsTrue, Untouched, HalfSaved, Undone, Completed, AtRest
<1>4. DataPartCleaned'
  BY DEF PublishData, Publish, DataPartCleaned, Undone, Completed, AtRest, PartsReady
<1>5. AtRest'
  BY DEF PublishData, Publish, AtRest
<1>6. Untouched'
  BY DEF PublishData, Publish, Untouched
<1>7. HalfSaved'
  BY DEF PublishData, Publish, HalfSaved, Untouched
<1>8. AllSaved'
  BY DEF PublishData, Publish, AllSaved, HalfSaved, NothingLost, LastSaved, PartsReady
<1>9. Undone'
  BY DEF PublishData, Publish, Undone, AllSaved, LastSaved
<1>10. Completed'
  BY DEF PublishData, Publish, Completed, AllSaved, PartsReady
<1>11. PartsReady'
  BY DEF PublishData, Publish, PartsReady
<1> QED
  BY <1>1, <1>2, <1>3, <1>4, <1>5, <1>6, <1>7, <1>8, <1>9, <1>10, <1>11

(* With the second file the export is complete. *)
LEMMA PublishProvenanceInv == ASSUME ExportInv, PublishProvenance PROVE ExportInv'
<1>1. ExportTypeOK'
  <2>1. step' \in Places /\ export' \in 0 .. MaxExports
    BY DEF PublishProvenance, Publish, Places
  <2>2. dest' \in [Files -> Contents \cup {None}]
    BY DEF PublishProvenance, Publish, Contents
  <2>3. part' \in [Files -> Contents \cup {None}]
    BY DEF PublishProvenance, Publish, Contents
  <2>4. saved' \in [Files -> Contents \cup {None}]
    BY DEF PublishProvenance, Publish, Contents
  <2>5. kept' \in [Files -> SUBSET Contents]
    BY <2>4 DEF PublishProvenance, Publish, Contents
  <2>6. outcome' \in {"ok", "error", "kept", "uninspected", "crash", None} /\ stuck' \in BOOLEAN
    BY DEF PublishProvenance, Publish
  <2>7. last' \in [Files -> Contents \cup {None}] /\ before' \in [Files -> Contents \cup {None}]
    <3>1. export \in Contents
      BY DEF Contents
    <3> QED
      BY ONLY <3>1, PublishProvenance, ExportTypeOK DEF PublishProvenance, Publish, ExportTypeOK
  <2> QED
    BY ONLY <2>1, <2>2, <2>3, <2>4, <2>5, <2>6, <2>7 DEF ExportTypeOK
<1>2. NothingLost'
  BY DEF PublishProvenance, Publish, NothingLost, LastSaved, AllSaved, Undone, HalfSaved,
         Untouched, AtRest, Completed, PartsReady
<1>3. OutcomeIsTrue'
  BY DEF PublishProvenance, Publish, OutcomeIsTrue, Untouched, HalfSaved, Undone, Completed,
         AtRest
<1>4. DataPartCleaned'
  BY DEF PublishProvenance, Publish, DataPartCleaned, Undone, Completed, AtRest, PartsReady
<1>5. AtRest'
  BY DEF PublishProvenance, Publish, AtRest
<1>6. Untouched'
  BY DEF PublishProvenance, Publish, Untouched
<1>7. HalfSaved'
  BY DEF PublishProvenance, Publish, HalfSaved, Untouched
<1>8. AllSaved'
  BY DEF PublishProvenance, Publish, AllSaved, HalfSaved, NothingLost, LastSaved, PartsReady
<1>9. Undone'
  BY DEF PublishProvenance, Publish, Undone, AllSaved, LastSaved
<1>10. Completed'
  BY DEF PublishProvenance, Publish, Completed, AllSaved, PartsReady
<1>11. PartsReady'
  BY DEF PublishProvenance, Publish, PartsReady
<1> QED
  BY <1>1, <1>2, <1>3, <1>4, <1>5, <1>6, <1>7, <1>8, <1>9, <1>10, <1>11

LEMMA PublishFailsInv == ASSUME ExportInv, PublishFails PROVE ExportInv'
<1>1. ExportTypeOK'
  BY DEF PublishFails, Contents, Partial, Places
<1>2. NothingLost'
  BY DEF PublishFails, NothingLost, LastSaved, AllSaved, Undone, HalfSaved, Untouched, AtRest,
         Completed, PartsReady
<1>3. OutcomeIsTrue'
  BY DEF PublishFails, OutcomeIsTrue, Untouched, HalfSaved, Undone, Completed, AtRest
<1>4. DataPartCleaned'
  BY DEF PublishFails, DataPartCleaned, Undone, Completed, AtRest, PartsReady
<1>5. AtRest'
  BY DEF PublishFails, AtRest
<1>6. Untouched'
  BY DEF PublishFails, Untouched
<1>7. HalfSaved'
  BY DEF PublishFails, HalfSaved, Untouched
<1>8. AllSaved'
  BY DEF PublishFails, AllSaved, HalfSaved, NothingLost, LastSaved, PartsReady
<1>9. Undone'
  BY DEF PublishFails, Undone, AllSaved, LastSaved
<1>10. Completed'
  BY DEF PublishFails, Completed, AllSaved, PartsReady
<1>11. PartsReady'
  BY DEF PublishFails, PartsReady
<1> QED
  BY <1>1, <1>2, <1>3, <1>4, <1>5, <1>6, <1>7, <1>8, <1>9, <1>10, <1>11

(* The old files are safe aside while the new ones are removed. *)
LEMMA UndoInv == ASSUME ExportInv, Undo PROVE ExportInv'
<1>1. ExportTypeOK'
  <2>1. step' \in Places /\ export' \in 0 .. MaxExports
    BY DEF Undo, Places
  <2>2. dest' \in [Files -> Contents \cup {None}]
    <3>1. PICK left \in SUBSET Files : dest' = [f \in Files |-> IF f \in left THEN dest[f] ELSE None]
      BY DEF Undo
    <3> QED
      BY <3>1
  <2>3. part' \in [Files -> Contents \cup {None}]
    BY DEF Undo, Contents
  <2>4. saved' \in [Files -> Contents \cup {None}]
    BY DEF Undo, Contents
  <2>5. kept' \in [Files -> SUBSET Contents]
    BY <2>4 DEF Undo, Contents
  <2>6. outcome' \in {"ok", "error", "kept", "uninspected", "crash", None} /\ stuck' \in BOOLEAN
    BY DEF Undo
  <2>7. last' \in [Files -> Contents \cup {None}] /\ before' \in [Files -> Contents \cup {None}]
    BY DEF Undo, Contents
  <2> QED
    BY ONLY <2>1, <2>2, <2>3, <2>4, <2>5, <2>6, <2>7 DEF ExportTypeOK
<1>2. NothingLost'
  BY DEF Undo, NothingLost, LastSaved, AllSaved, Undone, HalfSaved, Untouched, AtRest,
         Completed, PartsReady
<1>3. OutcomeIsTrue'
  BY DEF Undo, OutcomeIsTrue, Untouched, HalfSaved, Undone, Completed, AtRest
<1>4. DataPartCleaned'
  BY DEF Undo, DataPartCleaned, Undone, Completed, AtRest, PartsReady
<1>5. AtRest'
  BY DEF Undo, AtRest
<1>6. Untouched'
  BY DEF Undo, Untouched
<1>7. HalfSaved'
  BY DEF Undo, HalfSaved, Untouched
<1>8. AllSaved'
  BY DEF Undo, AllSaved, HalfSaved, NothingLost, LastSaved, PartsReady
<1>9. Undone'
  BY DEF Undo, Undone, AllSaved, LastSaved
<1>10. Completed'
  BY DEF Undo, Completed, AllSaved, PartsReady
<1>11. PartsReady'
  BY DEF Undo, PartsReady
<1> QED
  BY <1>1, <1>2, <1>3, <1>4, <1>5, <1>6, <1>7, <1>8, <1>9, <1>10, <1>11

LEMMA RestoreDataInv == ASSUME ExportInv, RestoreData PROVE ExportInv'
<1>1. ExportTypeOK'
  BY ZenonT(40) DEF RestoreData, Restore, BringBack, Contents, Partial, Places
<1>2. NothingLost'
  BY ZenonT(40) DEF RestoreData, Restore, BringBack, NothingLost, LastSaved, AllSaved, Undone, HalfSaved,
         Untouched, AtRest, Completed, PartsReady
<1>3. OutcomeIsTrue'
  BY DEF RestoreData, Restore, BringBack, OutcomeIsTrue, Untouched, HalfSaved, Undone,
         Completed, AtRest
<1>4. DataPartCleaned'
  BY DEF RestoreData, Restore, BringBack, DataPartCleaned, Undone, Completed, AtRest, PartsReady
<1>5. AtRest'
  BY DEF RestoreData, Restore, BringBack, AtRest
<1>6. Untouched'
  BY DEF RestoreData, Restore, BringBack, Untouched
<1>7. HalfSaved'
  BY DEF RestoreData, Restore, BringBack, HalfSaved, Untouched
<1>8. AllSaved'
  BY DEF RestoreData, Restore, BringBack, AllSaved, HalfSaved, NothingLost, LastSaved,
         PartsReady
<1>9. Undone'
  BY ZenonT(40) DEF RestoreData, Restore, BringBack, Undone, AllSaved, LastSaved
<1>10. Completed'
  BY DEF RestoreData, Restore, BringBack, Completed, AllSaved, PartsReady
<1>11. PartsReady'
  BY DEF RestoreData, Restore, BringBack, PartsReady
<1> QED
  BY <1>1, <1>2, <1>3, <1>4, <1>5, <1>6, <1>7, <1>8, <1>9, <1>10, <1>11

(* Only when both are back the error tells of no backup. *)
LEMMA RestoreProvenanceInv == ASSUME ExportInv, RestoreProvenance PROVE ExportInv'
<1>1. ExportTypeOK'
  <2>1. step' \in Places /\ export' \in 0 .. MaxExports
    BY DEF RestoreProvenance, Restore, BringBack, Leave, Told, Places
  <2>2. dest' \in [Files -> Contents \cup {None}]
    BY DEF RestoreProvenance, Restore, BringBack, Leave, Told, Contents
  <2>3. part' \in [Files -> Contents \cup {None}]
    BY DEF RestoreProvenance, Restore, BringBack, Leave, Told, Contents
  <2>4. saved' \in [Files -> Contents \cup {None}]
    BY DEF RestoreProvenance, Restore, BringBack, Leave, Told, Contents
  <2>5. kept' \in [Files -> SUBSET Contents]
    BY <2>4 DEF RestoreProvenance, Restore, BringBack, Leave, Told, Contents
  <2>6. outcome' \in {"ok", "error", "kept", "uninspected", "crash", None} /\ stuck' \in BOOLEAN
    BY DEF RestoreProvenance, Restore, BringBack, Leave, Told
  <2>7. last' \in [Files -> Contents \cup {None}] /\ before' \in [Files -> Contents \cup {None}]
    BY DEF RestoreProvenance, Restore, BringBack, Leave, Told, Contents
  <2> QED
    BY ONLY <2>1, <2>2, <2>3, <2>4, <2>5, <2>6, <2>7 DEF ExportTypeOK
<1>2. NothingLost'
  <2>1. LastSaved("provenance") /\ last' = last
    BY DEF RestoreProvenance, Undone
  <2>2. dest'["data"] = dest["data"] /\ saved'["data"] = saved["data"]
    BY DEF RestoreProvenance, Restore, BringBack
  <2>3. saved["provenance"] \in {dest'["provenance"], saved'["provenance"]}
    BY DEF RestoreProvenance, Restore, BringBack
  <2>4. \A f \in Files : kept[f] \subseteq kept'[f]
    BY DEF RestoreProvenance, Leave
  <2> QED
    BY <2>1, <2>2, <2>3, <2>4 DEF NothingLost, LastSaved
<1>3. OutcomeIsTrue'
  <2>1. ASSUME outcome' = "error", ~stuck PROVE dest' = before
    <3>1. saved' = Nothing
      BY <2>1 DEF RestoreProvenance, Leave, Told
    <3>2. saved["data"] = None /\ dest'["data"] = before["data"]
      BY <2>1, <3>1 DEF RestoreProvenance, Restore, BringBack, Undone
    <3>3. dest'["provenance"] = before["provenance"]
      BY <2>1, <3>1 DEF RestoreProvenance, Restore, BringBack, Undone
    <3>4. dest' \in [Files -> Contents \cup {None}]
      BY <1>1
    <3> QED
      BY <3>2, <3>3, <3>4
  <2>2. outcome' \notin {"ok", "uninspected"} /\ before' = before /\ stuck' = stuck
    BY DEF RestoreProvenance, Leave, Told
  <2> QED
    BY <2>1, <2>2 DEF OutcomeIsTrue
<1>4. DataPartCleaned'
  BY DEF RestoreProvenance, Restore, BringBack, Leave, Told, DataPartCleaned, Undone, Completed,
         AtRest, PartsReady
<1>5. AtRest'
  BY DEF RestoreProvenance, Restore, BringBack, Leave, Told, AtRest
<1>6. Untouched'
  BY DEF RestoreProvenance, Restore, BringBack, Leave, Told, Untouched
<1>7. HalfSaved'
  BY DEF RestoreProvenance, Restore, BringBack, Leave, Told, HalfSaved, Untouched
<1>8. AllSaved'
  BY DEF RestoreProvenance, Restore, BringBack, Leave, Told, AllSaved, HalfSaved, NothingLost,
         LastSaved, PartsReady
<1>9. Undone'
  BY DEF RestoreProvenance, Restore, BringBack, Leave, Told, Undone, AllSaved, LastSaved
<1>10. Completed'
  BY DEF RestoreProvenance, Restore, BringBack, Leave, Told, Completed, AllSaved, PartsReady
<1>11. PartsReady'
  BY DEF RestoreProvenance, Restore, BringBack, Leave, Told, PartsReady
<1> QED
  BY <1>1, <1>2, <1>3, <1>4, <1>5, <1>6, <1>7, <1>8, <1>9, <1>10, <1>11

LEMMA CleanInv == ASSUME ExportInv, Clean PROVE ExportInv'
<1>1. ExportTypeOK'
  BY DEF Clean, Contents, Partial, Places
<1>2. NothingLost'
  BY DEF Clean, NothingLost, LastSaved, AllSaved, Undone, HalfSaved, Untouched, AtRest,
         Completed, PartsReady
<1>3. OutcomeIsTrue'
  BY DEF Clean, OutcomeIsTrue, Untouched, HalfSaved, Undone, Completed, AtRest
<1>4. DataPartCleaned'
  BY DEF Clean, DataPartCleaned, Undone, Completed, AtRest, PartsReady
<1>5. AtRest'
  BY DEF Clean, AtRest
<1>6. Untouched'
  BY DEF Clean, Untouched
<1>7. HalfSaved'
  BY DEF Clean, HalfSaved, Untouched
<1>8. AllSaved'
  BY DEF Clean, AllSaved, HalfSaved, NothingLost, LastSaved, PartsReady
<1>9. Undone'
  BY DEF Clean, Undone, AllSaved, LastSaved
<1>10. Completed'
  BY DEF Clean, Completed, AllSaved, PartsReady
<1>11. PartsReady'
  BY DEF Clean, PartsReady
<1> QED
  BY <1>1, <1>2, <1>3, <1>4, <1>5, <1>6, <1>7, <1>8, <1>9, <1>10, <1>11

(* The inspection moves nothing, whether it succeeds or fails. *)
LEMMA InspectInv == ASSUME ExportInv, Inspect PROVE ExportInv'
<1>1. ExportTypeOK'
  <2>1. step' \in Places /\ export' \in 0 .. MaxExports
    BY DEF Inspect, Leave, Places
  <2>2. /\ dest' \in [Files -> Contents \cup {None}] /\ part' \in [Files -> Contents \cup {None}]
        /\ saved' \in [Files -> Contents \cup {None}]
    BY DEF Inspect, Leave
  <2>3. kept' \in [Files -> SUBSET Contents]
    BY <2>2, LeaveKeeps DEF Inspect
  <2>4. outcome' \in {"ok", "uninspected"} /\ stuck' \in BOOLEAN
    BY DEF Inspect, Leave
  <2>5. last' \in [Files -> Contents \cup {None}] /\ before' \in [Files -> Contents \cup {None}]
    BY DEF Inspect, Leave
  <2> QED
    BY ONLY <2>1, <2>2, <2>3, <2>4, <2>5 DEF ExportTypeOK
<1>2. NothingLost'
  BY DEF Inspect, Leave, NothingLost, LastSaved, AllSaved, Undone, HalfSaved, Untouched, AtRest,
         Completed, PartsReady
<1>3. OutcomeIsTrue'
  BY DEF Inspect, Leave, OutcomeIsTrue, Untouched, HalfSaved, Undone, Completed, AtRest
<1>4. DataPartCleaned'
  BY DEF Inspect, Leave, DataPartCleaned, Undone, Completed, AtRest, PartsReady
<1>5. AtRest'
  BY DEF Inspect, Leave, AtRest
<1>6. Untouched'
  BY DEF Inspect, Leave, Untouched
<1>7. HalfSaved'
  BY DEF Inspect, Leave, HalfSaved, Untouched
<1>8. AllSaved'
  BY DEF Inspect, Leave, AllSaved, HalfSaved, NothingLost, LastSaved, PartsReady
<1>9. Undone'
  BY DEF Inspect, Leave, Undone, AllSaved, LastSaved
<1>10. Completed'
  BY DEF Inspect, Leave, Completed, AllSaved, PartsReady
<1>11. PartsReady'
  BY DEF Inspect, Leave, PartsReady
<1> QED
  BY <1>1, <1>2, <1>3, <1>4, <1>5, <1>6, <1>7, <1>8, <1>9, <1>10, <1>11

(* The process may end anywhere: what was moved aside stays in its backup. *)
LEMMA CrashInv == ASSUME ExportInv, Crash PROVE ExportInv'
<1>1. ExportTypeOK'
  <2>1. step' \in Places /\ export' \in 0 .. MaxExports
    BY DEF Crash, Leave, Places
  <2>2. dest' \in [Files -> Contents \cup {None}]
    BY DEF Crash, Leave, Contents
  <2>3. part' \in [Files -> Contents \cup {None}]
    BY DEF Crash, Leave, Contents
  <2>4. saved' \in [Files -> Contents \cup {None}]
    BY DEF Crash, Leave, Contents
  <2>5. kept' \in [Files -> SUBSET Contents]
    BY <2>4 DEF Crash, Leave, Contents
  <2>6. outcome' \in {"ok", "error", "kept", "uninspected", "crash", None} /\ stuck' \in BOOLEAN
    BY DEF Crash, Leave
  <2>7. last' \in [Files -> Contents \cup {None}] /\ before' \in [Files -> Contents \cup {None}]
    BY DEF Crash, Leave, Contents
  <2> QED
    BY ONLY <2>1, <2>2, <2>3, <2>4, <2>5, <2>6, <2>7 DEF ExportTypeOK
<1>2. NothingLost'
  BY DEF Crash, Leave, NothingLost, LastSaved, AllSaved, Undone, HalfSaved, Untouched, AtRest,
         Completed, PartsReady
<1>3. OutcomeIsTrue'
  BY DEF Crash, Leave, OutcomeIsTrue, Untouched, HalfSaved, Undone, Completed, AtRest
<1>4. DataPartCleaned'
  BY DEF Crash, Leave, DataPartCleaned, Undone, Completed, AtRest, PartsReady
<1>5. AtRest'
  BY DEF Crash, Leave, AtRest
<1>6. Untouched'
  BY DEF Crash, Leave, Untouched
<1>7. HalfSaved'
  BY DEF Crash, Leave, HalfSaved, Untouched
<1>8. AllSaved'
  BY DEF Crash, Leave, AllSaved, HalfSaved, NothingLost, LastSaved, PartsReady
<1>9. Undone'
  BY DEF Crash, Leave, Undone, AllSaved, LastSaved
<1>10. Completed'
  BY DEF Crash, Leave, Completed, AllSaved, PartsReady
<1>11. PartsReady'
  BY DEF Crash, Leave, PartsReady
<1> QED
  BY <1>1, <1>2, <1>3, <1>4, <1>5, <1>6, <1>7, <1>8, <1>9, <1>10, <1>11

(* Between two steps nothing changes. *)
LEMMA StutterInv == ASSUME ExportInv, UNCHANGED exportVars PROVE ExportInv'
<1>1. ExportTypeOK'
  BY DEF exportVars, Contents, Partial, Places
<1>2. NothingLost'
  BY DEF exportVars, NothingLost, LastSaved, AllSaved, Undone, HalfSaved, Untouched, AtRest,
         Completed, PartsReady
<1>3. OutcomeIsTrue'
  BY DEF exportVars, OutcomeIsTrue, Untouched, HalfSaved, Undone, Completed, AtRest
<1>4. DataPartCleaned'
  BY DEF exportVars, DataPartCleaned, Undone, Completed, AtRest, PartsReady
<1>5. AtRest'
  BY DEF exportVars, AtRest
<1>6. Untouched'
  BY DEF exportVars, Untouched
<1>7. HalfSaved'
  BY DEF exportVars, HalfSaved, Untouched
<1>8. AllSaved'
  BY DEF exportVars, AllSaved, HalfSaved, NothingLost, LastSaved, PartsReady
<1>9. Undone'
  BY DEF exportVars, Undone, AllSaved, LastSaved
<1>10. Completed'
  BY DEF exportVars, Completed, AllSaved, PartsReady
<1>11. PartsReady'
  BY DEF exportVars, PartsReady
<1> QED
  BY <1>1, <1>2, <1>3, <1>4, <1>5, <1>6, <1>7, <1>8, <1>9, <1>10, <1>11

-----------------------------------------------------------------------------
(* The inductive invariant of the export. *)
THEOREM ExportHolds ==
  ASSUME ExportAssumption PROVE ExportSpec => []ExportInv
<1>1. ExportInv /\ [ExportNext]_exportVars => ExportInv'
  BY ONLY StartInv, WriteInv, WriteFailsInv, DescribeInv, DescribeFailsInv, SaveDataInv,
          SaveDataFailsInv, SaveProvenanceInv, SaveProvenanceFailsInv, PublishDataInv,
          PublishProvenanceInv, PublishFailsInv, UndoInv, RestoreDataInv, RestoreProvenanceInv,
          CleanInv, InspectInv, CrashInv, StutterInv
     DEF ExportNext
<1>2. ExportInit => ExportInv
  BY ExportInitInv
<1> QED
  BY <1>1, <1>2, PTL DEF ExportSpec

(* No failure and no crash loses the last completed export. *)
THEOREM ExportsSurvive ==
  ASSUME ExportAssumption PROVE ExportSpec => []NothingLost
<1>1. ExportInv => NothingLost
  OBVIOUS
<1> QED
  BY <1>1, ExportHolds, PTL

(* A success, and a failure to inspect what was published, have replaced   *)
(* both files; any other error that tells of no backup left everything as  *)
(* it was.                                                                 *)
THEOREM OutcomesTrue ==
  ASSUME ExportAssumption PROVE ExportSpec => []OutcomeIsTrue
<1>1. ExportInv => OutcomeIsTrue
  OBVIOUS
<1> QED
  BY <1>1, ExportHolds, PTL

-----------------------------------------------------------------------------
(* SourceImport: sums and packings are functions defined by recursion over *)
(* 0 .. n.  A set of numbers that has 0, and with each number the next, is *)
(* all of them: the induction of the lemmas below, by sets.                *)
LEMMA Induct ==
  ASSUME NEW S, 0 \in S, \A n \in Nat : n \in S => n + 1 \in S
  PROVE  Nat \subseteq S
<1> DEFINE T == {n \in Nat : n \notin S}
           R == {p \in Nat \X Nat : p[1] < p[2]}
<1> SUFFICES ASSUME T # {} PROVE FALSE
  OBVIOUS
<1>1. PICK x \in T : \A y \in T : <<y, x>> \notin R
  <2>1. IsWellFoundedOn(R, Nat)
    BY NatLessThanWellFounded DEF OpToRel
  <2>2. T \subseteq Nat
    OBVIOUS
  <2> HIDE DEF T, R
  <2> QED
    BY <2>1, <2>2, WFMin, Zenon
<1>2. x # 0 /\ x \in Nat
  OBVIOUS
<1>3. x - 1 \in Nat /\ x - 1 < x
  BY <1>2
<1>4. x - 1 \in S
  <2>1. <<x - 1, x>> \in R
    BY <1>2, <1>3
  <2> QED
    BY <1>1, <1>3, <2>1
<1> QED
  BY <1>2, <1>3, <1>4

(* f begins with b and goes on as next says, up to n.                     *)
Follows(f, n, b, next) == f[0] = b /\ \A k \in 1 .. n : f[k] = next[f[k - 1]][k]

(* A function that is defined by recursion over 0 .. n exists, ...         *)
LEMMA Recursion ==
  ASSUME NEW n \in Nat, NEW V, NEW b \in V, NEW next \in [V -> [1 .. n -> V]]
  PROVE  \E f \in [0 .. n -> V] : Follows(f, n, b, next)
<1> DEFINE Upto(m) == \E f \in [0 .. m -> V] : f[0] = b /\ \A k \in 1 .. m : f[k] = next[f[k - 1]][k]
           S == {m \in Nat : m <= n => Upto(m)}
<1>1. Upto(0)
  <2>1. [k \in 0 .. 0 |-> b] \in [0 .. 0 -> V] /\ [k \in 0 .. 0 |-> b][0] = b
    OBVIOUS
  <2>2. 1 .. 0 = {}
    OBVIOUS
  <2> QED
    BY <2>1, <2>2
<1>2. ASSUME NEW m \in Nat, m + 1 <= n, Upto(m) PROVE Upto(m + 1)
  <2>1. PICK f \in [0 .. m -> V] : f[0] = b /\ \A k \in 1 .. m : f[k] = next[f[k - 1]][k]
    BY <1>2
  <2> DEFINE g == [k \in 0 .. m + 1 |-> IF k = m + 1 THEN next[f[m]][m + 1] ELSE f[k]]
  <2>2. f[m] \in V /\ m + 1 \in 1 .. n
    BY <1>2
  <2>3. g \in [0 .. m + 1 -> V] /\ g[0] = b
    BY <2>1, <2>2
  <2>4. ASSUME NEW k \in 1 .. m + 1 PROVE g[k] = next[g[k - 1]][k]
    <3>1. k - 1 # m + 1 /\ k - 1 \in 0 .. m /\ k \in 0 .. m + 1 /\ k - 1 \in 0 .. m + 1
      OBVIOUS
    <3>2. g[k - 1] = f[k - 1]
      BY <3>1
    <3>3. CASE k = m + 1
      BY <3>1, <3>2, <3>3
    <3>4. CASE k # m + 1
      <4>1. g[k] = f[k] /\ k \in 1 .. m
        BY <3>1, <3>4
      <4> QED
        BY <4>1, <3>2, <2>1
    <3> QED
      BY <3>3, <3>4
  <2> HIDE DEF g
  <2> QED
    BY <2>3, <2>4
<1> HIDE DEF Upto
<1>3. 0 \in S /\ \A m \in Nat : m \in S => m + 1 \in S
  BY <1>1, <1>2
<1>4. n \in S
  <2> HIDE DEF S
  <2> QED
    BY <1>3, Induct
<1> QED
  BY <1>4 DEF Upto, Follows

-----------------------------------------------------------------------------
(* The sum of the sizes of rows, by its last row.                          *)
LEMMA SizesAreNat ==
  ASSUME ImportTypeOK
  PROVE  \A i \in Rows : source[i] \in Nat \ {0}
<1>1. source \in Seq(RowSizes) /\ RowSizes \subseteq Nat \ {0}
  BY ImportAssumption DEF ImportTypeOK
<1>2. \A i \in 1 .. Len(source) : source[i] \in RowSizes
  BY <1>1
<1> QED
  BY <1>1, <1>2 DEF Rows

(* The sums up to each of the rows.                                        *)
LEMMA BytesUpTo ==
  ASSUME ImportTypeOK, NEW rows \in Seq(Rows)
  PROVE  \E f \in [0 .. Len(rows) -> Nat] :
           /\ f[0] = 0 /\ Bytes(rows) = f[Len(rows)]
           /\ \A k \in 1 .. Len(rows) : f[k] = f[k - 1] + source[rows[k]]
<1> DEFINE n == Len(rows)
           next == [v \in Nat |-> [k \in 1 .. n |-> v + source[rows[k]]]]
           Is(f) == f = [k \in 0 .. n |-> IF k = 0 THEN 0 ELSE f[k - 1] + source[rows[k]]]
<1>0. n \in Nat /\ \A k \in 1 .. n : source[rows[k]] \in Nat
  BY SizesAreNat
<1>1. next \in [Nat -> [1 .. n -> Nat]]
  BY <1>0
<1>2. PICK f \in [0 .. n -> Nat] : f[0] = 0 /\ \A k \in 1 .. n : f[k] = next[f[k - 1]][k]
  <2> HIDE DEF next, n
  <2>1. \E f \in [0 .. n -> Nat] : Follows(f, n, 0, next)
    BY <1>0, <1>1, Recursion
  <2> QED
    BY <2>1 DEF Follows
<1>3. Is(f)
  <2>1. \A k \in 1 .. n : next[f[k - 1]][k] = f[k - 1] + source[rows[k]]
    <3> TAKE k \in 1 .. n
    <3>1. k - 1 \in 0 .. n
      BY <1>0
    <3>2. f[k - 1] \in Nat
      BY <3>1
    <3> QED
      BY <3>2
  <2>2. \A k \in 0 .. n : f[k] = IF k = 0 THEN 0 ELSE f[k - 1] + source[rows[k]]
    <3> HIDE DEF next
    <3> TAKE k \in 0 .. n
    <3>1. k # 0 => k \in 1 .. n
      BY <1>0
    <3> QED
      BY <1>2, <2>1, <3>1
  <2> QED
    BY <2>2
<1> DEFINE g == CHOOSE h : Is(h)
<1>4. Is(g)
  BY <1>3
<1>5. Bytes(rows) = g[n]
  BY DEF Bytes
<1> HIDE DEF g
<1>7. g[0] = 0 /\ \A k \in 1 .. n : g[k] = g[k - 1] + source[rows[k]]
  <2>1. \A k \in 0 .. n : g[k] = IF k = 0 THEN 0 ELSE g[k - 1] + source[rows[k]]
    BY <1>4
  <2> QED
    BY <1>0, <2>1
<1>6. \A k \in 0 .. n : g[k] \in Nat
  <2> DEFINE S == {k \in Nat : k <= n => g[k] \in Nat}
  <2>1. 0 \in S
    BY <1>7
  <2>2. ASSUME NEW k \in Nat, k \in S PROVE k + 1 \in S
    <3> SUFFICES ASSUME k + 1 <= n PROVE g[k + 1] \in Nat
      OBVIOUS
    <3>0. g[k] \in Nat
      BY <2>2, <1>0
    <3>1. k + 1 \in 1 .. n /\ (k + 1) - 1 = k
      BY <1>0
    <3>2. g[k + 1] = g[k] + source[rows[k + 1]]
      BY <1>7, <3>1
    <3> QED
      BY <3>0, <3>1, <3>2, <1>0
  <2> HIDE DEF S
  <2>3. Nat \subseteq S
    BY <2>1, <2>2, Induct
  <2> QED
    BY <2>3, <1>0 DEF S
<1>8. g \in [0 .. n -> Nat]
  BY <1>4, <1>6
<1> QED
  BY <1>5, <1>7, <1>8

(* Whatever adds up as they do is the same sum.                            *)
LEMMA BytesIs ==
  ASSUME ImportTypeOK, NEW rows \in Seq(Rows), NEW g, g[0] = 0,
         \A k \in 1 .. Len(rows) : g[k] = g[k - 1] + source[rows[k]]
  PROVE  Bytes(rows) = g[Len(rows)] /\ Bytes(rows) \in Nat
<1>1. PICK f \in [0 .. Len(rows) -> Nat] :
        /\ f[0] = 0 /\ Bytes(rows) = f[Len(rows)]
        /\ \A k \in 1 .. Len(rows) : f[k] = f[k - 1] + source[rows[k]]
  BY BytesUpTo
<1> DEFINE n == Len(rows)
           S == {m \in Nat : m <= n => f[m] = g[m]}
<1>2. n \in Nat
  OBVIOUS
<1>3. 0 \in S
  BY <1>1
<1>4. ASSUME NEW m \in Nat, m \in S PROVE m + 1 \in S
  <2> SUFFICES ASSUME m + 1 <= n PROVE f[m + 1] = g[m + 1]
    OBVIOUS
  <2>1. f[m] = g[m] /\ m + 1 \in 1 .. n /\ (m + 1) - 1 = m
    BY <1>4, <1>2
  <2> QED
    BY <1>1, <2>1
<1>5. n \in S
  <2> HIDE DEF S
  <2> QED
    BY <1>2, <1>3, <1>4, Induct
<1> QED
  BY <1>1, <1>2, <1>5

(* A sum of sizes is a number, and that of no rows is 0.                   *)
LEMMA BytesAreNat ==
  ASSUME ImportTypeOK, NEW rows \in Seq(Rows)
  PROVE  Bytes(rows) \in Nat
<1>1. PICK f \in [0 .. Len(rows) -> Nat] : Bytes(rows) = f[Len(rows)]
  BY BytesUpTo
<1> QED
  BY <1>1

LEMMA BytesOfNone ==
  ASSUME ImportTypeOK PROVE Bytes(<<>>) = 0
<1>1. PICK f \in [0 .. 0 -> Nat] : f[0] = 0 /\ Bytes(<<>>) = f[0]
  <2>1. <<>> \in Seq(Rows) /\ Len(<<>>) = 0
    OBVIOUS
  <2> QED
    BY <2>1, BytesUpTo
<1> QED
  BY <1>1

(* A row that is added adds its size; one that is replaced gives it back.  *)
LEMMA BytesAppend ==
  ASSUME ImportTypeOK, NEW rows \in Seq(Rows), NEW i \in Rows
  PROVE  Bytes(Append(rows, i)) = Bytes(rows) + source[i]
<1>1. PICK f \in [0 .. Len(rows) -> Nat] :
        /\ f[0] = 0 /\ Bytes(rows) = f[Len(rows)]
        /\ \A k \in 1 .. Len(rows) : f[k] = f[k - 1] + source[rows[k]]
  BY BytesUpTo
<1> DEFINE n == Len(rows)
           more == Append(rows, i)
           g == [k \in 0 .. n + 1 |-> IF k = n + 1 THEN f[n] + source[i] ELSE f[k]]
<1>2. n \in Nat /\ more \in Seq(Rows) /\ Len(more) = n + 1 /\ more[n + 1] = i
  OBVIOUS
<1>3. \A k \in 1 .. n : more[k] = rows[k]
  OBVIOUS
<1>4. g[0] = 0 /\ g[n + 1] = f[n] + source[i]
  BY <1>1, <1>2
<1>5. ASSUME NEW k \in 1 .. n + 1 PROVE g[k] = g[k - 1] + source[more[k]]
  <2>1. k - 1 # n + 1 /\ k - 1 \in 0 .. n + 1 /\ k \in 0 .. n + 1
    BY <1>2
  <2>2. g[k - 1] = f[k - 1]
    BY <2>1
  <2>3. CASE k = n + 1
    BY <1>2, <1>4, <2>2, <2>3
  <2>4. CASE k # n + 1
    <3>1. k \in 1 .. n /\ g[k] = f[k]
      BY <1>2, <2>1, <2>4
    <3> QED
      BY <1>1, <1>3, <2>2, <3>1
  <2> QED
    BY <2>3, <2>4
<1>6. Bytes(more) = g[n + 1]
  <2> HIDE DEF g, more, n
  <2> QED
    BY <1>2, <1>4, <1>5, BytesIs
<1> QED
  BY <1>1, <1>4, <1>6

LEMMA BytesReplaced ==
  ASSUME ImportTypeOK, NEW rows \in Seq(Rows), NEW i \in Rows, NEW at \in DOMAIN rows
  PROVE  Bytes([rows EXCEPT ![at] = i]) = (Bytes(rows) + source[i]) - source[rows[at]]
<1>1. PICK f \in [0 .. Len(rows) -> Nat] :
        /\ f[0] = 0 /\ Bytes(rows) = f[Len(rows)]
        /\ \A k \in 1 .. Len(rows) : f[k] = f[k - 1] + source[rows[k]]
  BY BytesUpTo
<1> DEFINE n == Len(rows)
           new == [rows EXCEPT ![at] = i]
           g == [k \in 0 .. n |-> IF k < at THEN f[k] ELSE (f[k] + source[i]) - source[rows[at]]]
<1>2. /\ n \in Nat /\ at \in 1 .. n /\ new \in Seq(Rows) /\ Len(new) = n /\ new[at] = i
      /\ \A k \in 1 .. n : k # at => new[k] = rows[k]
  OBVIOUS
<1>3. source[i] \in Nat /\ source[rows[at]] \in Nat /\ \A k \in 0 .. n : f[k] \in Nat
  BY SizesAreNat, <1>2
<1>4. g[0] = 0 /\ g[n] = (f[n] + source[i]) - source[rows[at]]
  BY <1>1, <1>2
<1>5. ASSUME NEW k \in 1 .. n PROVE g[k] = g[k - 1] + source[new[k]]
  <2>1. k - 1 \in 0 .. n /\ k \in 0 .. n /\ k \in Nat /\ at \in Nat
    BY <1>2
  <2>2. f[k] = f[k - 1] + source[rows[k]] /\ f[k - 1] \in Nat /\ source[rows[k]] \in Nat
    BY <1>1, <1>3, <2>1, SizesAreNat
  <2>3. CASE k < at
    <3>1. g[k] = f[k] /\ g[k - 1] = f[k - 1] /\ new[k] = rows[k]
      BY <1>2, <2>1, <2>3
    <3> QED
      BY <2>2, <3>1
  <2>4. CASE k = at
    <3>1. g[k] = (f[k] + source[i]) - source[rows[at]] /\ g[k - 1] = f[k - 1] /\ new[k] = i
      BY <1>2, <2>1, <2>4
    <3> QED
      BY <1>3, <2>2, <2>4, <3>1, SMTT(40)
  <2>5. CASE k > at
    <3>1. /\ g[k] = (f[k] + source[i]) - source[rows[at]]
          /\ g[k - 1] = (f[k - 1] + source[i]) - source[rows[at]] /\ new[k] = rows[k]
      BY <1>2, <2>1, <2>5
    <3> DEFINE p == f[k - 1]
               q == source[rows[k]]
               r == source[i]
               s == source[rows[at]]
    <3>2. p \in Nat /\ q \in Nat /\ r \in Nat /\ s \in Nat
      BY <1>3, <2>2
    <3>3. ((p + q) + r) - s = ((p + r) - s) + q
      <4> HIDE DEF p, q, r, s, g, new, n
      <4> QED
        BY <3>2
    <3> HIDE DEF g
    <3> QED
      BY <2>2, <3>1, <3>3, Zenon
  <2> QED
    BY <2>1, <2>3, <2>4, <2>5
<1>6. Bytes(new) = g[n]
  <2> HIDE DEF g, new, n
  <2> QED
    BY <1>2, <1>4, <1>5, BytesIs
<1> QED
  BY <1>1, <1>4, <1>6

-----------------------------------------------------------------------------
(* Sequences with the same items, with items of a larger set, and joined.  *)
LEMMA SameItems ==
  ASSUME NEW S, NEW a \in Seq(S), NEW b \in Seq(S), Len(a) = Len(b), \A k \in 1 .. Len(a) : a[k] = b[k]
  PROVE  a = b
OBVIOUS

LEMMA LargerItems ==
  ASSUME NEW S, NEW R, S \subseteq R, NEW a \in Seq(S)
  PROVE  a \in Seq(R)
OBVIOUS

LEMMA JoinedItems ==
  ASSUME NEW S, NEW a \in Seq(S), NEW b \in Seq(S), NEW c, c = a \o b
  PROVE  /\ c \in Seq(S) /\ Len(c) = Len(a) + Len(b)
         /\ \A k \in 1 .. Len(a) : c[k] = a[k]
         /\ \A k \in 1 .. Len(b) : c[Len(a) + k] = b[k]
OBVIOUS

(* Rows that follow each other.                                            *)
LEMMA NumbersAre ==
  ASSUME NEW from \in Nat, NEW to \in Nat, from <= to + 1
  PROVE  /\ Numbers(from, to) \in Seq(Nat) /\ Len(Numbers(from, to)) = (to + 1) - from
         /\ DOMAIN Numbers(from, to) = 1 .. (to + 1) - from
         /\ \A k \in 1 .. (to + 1) - from : Numbers(from, to)[k] = (from + k) - 1
<1> DEFINE n == (to + 1) - from
<1>1. n \in Nat /\ to - from + 1 = n
  OBVIOUS
<1>2. Numbers(from, to) = [k \in 1 .. n |-> from + k - 1]
  BY <1>1 DEF Numbers
<1>3. \A k \in 1 .. n : from + k - 1 \in Nat /\ from + k - 1 = (from + k) - 1
  BY <1>1
<1> HIDE DEF n
<1> QED
  BY <1>1, <1>2, <1>3

LEMMA NumbersOfRows ==
  ASSUME ImportTypeOK, NEW from \in Nat \ {0}, NEW to \in 0 .. Len(source), from <= to + 1
  PROVE  Numbers(from, to) \in Seq(Rows)
<1>1. Len(source) \in Nat
  BY DEF ImportTypeOK
<1>2. \A k \in 1 .. (to + 1) - from : (from + k) - 1 \in Rows
  BY <1>1 DEF Rows
<1>3. Numbers(from, to) \in Seq(Nat)
  BY <1>1, NumbersAre
<1>4. \A k \in 1 .. Len(Numbers(from, to)) : Numbers(from, to)[k] \in Rows
  <2>1. Len(Numbers(from, to)) = (to + 1) - from
    BY <1>1, NumbersAre
  <2>2. \A k \in 1 .. (to + 1) - from : Numbers(from, to)[k] = (from + k) - 1
    BY <1>1, NumbersAre
  <2> QED
    BY <1>2, <2>1, <2>2
<1> QED
  BY <1>3, <1>4

(* One more at the end, one less at the front.                             *)
LEMMA NumbersGrow ==
  ASSUME NEW from \in Nat, NEW to \in Nat, from <= to + 1
  PROVE  Append(Numbers(from, to), to + 1) = Numbers(from, to + 1)
<1> DEFINE n == (to + 1) - from
           a == Append(Numbers(from, to), to + 1)
           b == Numbers(from, to + 1)
<1>1. n \in Nat /\ to + 1 \in Nat /\ (to + 1 + 1) - from = n + 1 /\ from <= to + 1 + 1
  OBVIOUS
<1>2. Len(a) = n + 1 /\ a \in Seq(Nat) /\ a[n + 1] = to + 1 /\ \A k \in 1 .. n : a[k] = (from + k) - 1
  <2>1. Numbers(from, to) \in Seq(Nat) /\ Len(Numbers(from, to)) = n
    BY NumbersAre
  <2>2. \A k \in 1 .. n : Numbers(from, to)[k] = (from + k) - 1
    BY NumbersAre
  <2> QED
    BY <1>1, <2>1, <2>2
<1>3. Len(b) = n + 1 /\ b \in Seq(Nat) /\ \A k \in 1 .. n + 1 : b[k] = (from + k) - 1
  BY <1>1, NumbersAre
<1>4. \A k \in 1 .. n + 1 : a[k] = b[k]
  <2>1. b[n + 1] = to + 1
    BY <1>1, <1>3
  <2> QED
    BY <1>1, <1>2, <1>3, <2>1, SMTT(40)
<1> HIDE DEF n, a, b
<1>5. a = b
  BY <1>1, <1>2, <1>3, <1>4, SameItems
<1> QED
  BY <1>5 DEF a, b

LEMMA NumbersShrink ==
  ASSUME NEW from \in Nat, NEW to \in Nat, from <= to
  PROVE  /\ Numbers(from, to) # <<>> /\ Head(Numbers(from, to)) = from
         /\ Tail(Numbers(from, to)) = Numbers(from + 1, to)
<1> DEFINE n == to - from
           a == Tail(Numbers(from, to))
           b == Numbers(from + 1, to)
<1>1. n \in Nat /\ (to + 1) - from = n + 1 /\ (to + 1) - (from + 1) = n /\ from <= to + 1 /\ from + 1 <= to + 1 /\ from + 1 \in Nat
  OBVIOUS
<1>2. Numbers(from, to) \in Seq(Nat) /\ Len(Numbers(from, to)) = n + 1 /\ \A k \in 1 .. n + 1 : Numbers(from, to)[k] = (from + k) - 1
  BY <1>1, NumbersAre
<1>3. Len(a) = n /\ a \in Seq(Nat) /\ \A k \in 1 .. n : a[k] = Numbers(from, to)[k + 1]
  BY <1>1, <1>2
<1>4. Len(b) = n /\ b \in Seq(Nat) /\ \A k \in 1 .. n : b[k] = ((from + 1) + k) - 1
  <2>1. b \in Seq(Nat) /\ Len(b) = (to + 1) - (from + 1) /\ \A k \in 1 .. (to + 1) - (from + 1) : b[k] = ((from + 1) + k) - 1
    <3> HIDE DEF n
    <3>1. from + 1 \in Nat /\ from + 1 <= to + 1
      BY <1>1
    <3> QED
      BY <3>1, NumbersAre
  <2> QED
    BY <1>1, <2>1
<1>5. \A k \in 1 .. n : a[k] = b[k]
  BY <1>1, <1>2, <1>3, <1>4
<1>6. a = b
  <2> HIDE DEF n, a, b
  <2> QED
    BY <1>3, <1>4, <1>5, SameItems
<1>7. Numbers(from, to)[1] = from
  BY <1>1, <1>2
<1> QED
  BY <1>1, <1>2, <1>6, <1>7

LEMMA NumbersOfNone ==
  ASSUME NEW from \in Nat PROVE Numbers(from + 1, from) = <<>>
<1>1. Len(Numbers(from + 1, from)) = 0 /\ Numbers(from + 1, from) \in Seq(Nat)
  BY NumbersAre
<1> QED
  BY <1>1

(* The rows after the e-th. *)
LEMMA NumbersAfter ==
  ASSUME NEW e \in Nat, NEW to \in Nat, e <= to
  PROVE  /\ Len(Numbers(e + 1, to)) = to - e
         /\ \A k \in 1 .. to - e : Numbers(e + 1, to)[k] = e + k
         /\ Numbers(e + 1, to) # <<>> => e < to /\ Numbers(e + 1, to)[Len(Numbers(e + 1, to))] = to
<1> DEFINE s == Numbers(e + 1, to)
<1>1. e + 1 \in Nat /\ e + 1 <= to + 1 /\ (to + 1) - (e + 1) = to - e /\ to - e \in Nat
  OBVIOUS
<1>2. s \in Seq(Nat) /\ Len(s) = (to + 1) - (e + 1) /\ \A k \in 1 .. (to + 1) - (e + 1) : s[k] = ((e + 1) + k) - 1
  BY <1>1, NumbersAre
<1> HIDE DEF s
<1>3. Len(s) = to - e /\ \A k \in 1 .. to - e : s[k] = e + k
  BY <1>1, <1>2
<1>4. ASSUME s # <<>> PROVE e < to /\ s[Len(s)] = to
  <2>1. Len(s) # 0
    BY <1>2, <1>4
  <2>2. to - e \in 1 .. to - e /\ e + (to - e) = to /\ e < to
    BY <1>1, <1>3, <2>1
  <2> QED
    BY <1>3, <2>2
<1> QED
  BY <1>3, <1>4 DEF s

-----------------------------------------------------------------------------
(* The frames of a batch carry its rows in order, all of them unless one   *)
(* was refused.                                                            *)
Packings == [written : Seq([type : {"batch"}, rows : Seq(Rows)]), open : Seq(Rows), refused : BOOLEAN]

LEMMA PackIs ==
  ASSUME NEW p \in Packings, NEW i \in Rows
  PROVE  /\ Pack(p, i) \in Packings
         /\ p.refused => Pack(p, i) = p
         /\ ~p.refused =>
              \/ Pack(p, i).written = p.written /\ Pack(p, i).open = Append(p.open, i) /\ ~Pack(p, i).refused
              \/ Pack(p, i).written = p.written /\ Pack(p, i).refused
              \/ /\ p.open # <<>> /\ ~Pack(p, i).refused /\ Pack(p, i).open = <<i>>
                 /\ Pack(p, i).written = Append(p.written, Message("batch", p.open))
<1>1. Message("batch", p.open) \in [type : {"batch"}, rows : Seq(Rows)]
  BY DEF Message, Packings
<1>2. CASE p.refused
  BY <1>2 DEF Pack, Packing, Packings
<1>3. CASE ~p.refused /\ FrameBytes(Append(p.open, i)) <= FrameLimit
  BY <1>3 DEF Pack, Packing, Packings
<1>4. CASE ~p.refused /\ ~(FrameBytes(Append(p.open, i)) <= FrameLimit) /\ p.open = <<>>
  BY <1>4 DEF Pack, Packing, Packings
<1>5. CASE ~p.refused /\ ~(FrameBytes(Append(p.open, i)) <= FrameLimit) /\ p.open # <<>>
  <2>1. Pack(p, i) = Packing(Append(p.written, Message("batch", p.open)), <<i>>, FALSE)
    BY <1>5 DEF Pack
  <2>2. Append(p.written, Message("batch", p.open)) \in Seq([type : {"batch"}, rows : Seq(Rows)])
    BY <1>1 DEF Packings
  <2> QED
    BY <1>5, <2>1, <2>2 DEF Packing, Packings
<1> QED
  BY <1>2, <1>3, <1>4, <1>5

LEMMA PackedUpTo ==
  ASSUME NEW rows \in Seq(Rows)
  PROVE  \E f \in [0 .. Len(rows) -> Packings] :
           /\ f[0] = Unpacked /\ Packed(rows) = f[Len(rows)]
           /\ \A k \in 1 .. Len(rows) : f[k] = Pack(f[k - 1], rows[k])
<1> DEFINE n == Len(rows)
           next == [p \in Packings |-> [k \in 1 .. n |-> Pack(p, rows[k])]]
           Is(f) == f = [k \in 0 .. n |-> IF k = 0 THEN Unpacked ELSE Pack(f[k - 1], rows[k])]
<1>0. n \in Nat /\ \A k \in 1 .. n : rows[k] \in Rows
  OBVIOUS
<1>1. next \in [Packings -> [1 .. n -> Packings]]
  BY <1>0, PackIs
<1>2. Unpacked \in Packings
  BY DEF Unpacked, Packing, Packings
<1>3. PICK f \in [0 .. n -> Packings] : f[0] = Unpacked /\ \A k \in 1 .. n : f[k] = next[f[k - 1]][k]
  <2> HIDE DEF next, n
  <2>1. \E f \in [0 .. n -> Packings] : Follows(f, n, Unpacked, next)
    BY <1>0, <1>1, <1>2, Recursion
  <2> QED
    BY <2>1 DEF Follows
<1>4. Is(f)
  <2>1. ASSUME NEW k \in 1 .. n PROVE f[k] = Pack(f[k - 1], rows[k])
    <3>1. k - 1 \in 0 .. n
      BY <1>0
    <3>2. f[k - 1] \in Packings
      BY <3>1
    <3> QED
      BY <1>3, <3>2
  <2>2. \A k \in 0 .. n : f[k] = IF k = 0 THEN Unpacked ELSE Pack(f[k - 1], rows[k])
    <3> HIDE DEF next
    <3> TAKE k \in 0 .. n
    <3>1. k # 0 => k \in 1 .. n
      BY <1>0
    <3> QED
      BY <1>3, <2>1, <3>1
  <2> QED
    BY <2>2
<1> DEFINE g == CHOOSE h : Is(h)
<1>5. Is(g)
  BY <1>4
<1>6. Packed(rows) = g[n]
  BY DEF Packed
<1> HIDE DEF g
<1>7. g[0] = Unpacked /\ \A k \in 1 .. n : g[k] = Pack(g[k - 1], rows[k])
  <2>1. \A k \in 0 .. n : g[k] = IF k = 0 THEN Unpacked ELSE Pack(g[k - 1], rows[k])
    BY <1>5
  <2> QED
    BY <1>0, <2>1
<1>8. \A k \in 0 .. n : g[k] \in Packings
  <2> DEFINE S == {k \in Nat : k <= n => g[k] \in Packings}
  <2>1. 0 \in S
    BY <1>2, <1>7
  <2>2. ASSUME NEW k \in Nat, k \in S PROVE k + 1 \in S
    <3> SUFFICES ASSUME k + 1 <= n PROVE g[k + 1] \in Packings
      OBVIOUS
    <3>1. k + 1 \in 1 .. n /\ (k + 1) - 1 = k /\ g[k] \in Packings
      BY <1>0, <2>2
    <3>2. g[k + 1] = Pack(g[k], rows[k + 1]) /\ rows[k + 1] \in Rows
      BY <1>0, <1>7, <3>1
    <3> QED
      BY <3>1, <3>2, PackIs
  <2> HIDE DEF S
  <2>3. Nat \subseteq S
    BY <2>1, <2>2, Induct
  <2> QED
    BY <2>3, <1>0 DEF S
<1>9. g \in [0 .. n -> Packings]
  BY <1>5, <1>8
<1> QED
  BY <1>6, <1>7, <1>9

(* How far the first k frames reach, and frames that follow each other.    *)
EndOf(w, k, from) == IF k = 0 THEN from ELSE w[k].rows[Len(w[k].rows)]
Chained(w, from) ==
  \A k \in 1 .. Len(w) :
    /\ w[k].type = "batch" /\ w[k].rows # <<>>
    /\ EndOf(w, k - 1, from) \in Nat /\ EndOf(w, k, from) \in Nat
    /\ EndOf(w, k - 1, from) <= EndOf(w, k, from)
    /\ w[k].rows = Numbers(EndOf(w, k - 1, from) + 1, EndOf(w, k, from))

LEMMA ChainGrows ==
  ASSUME NEW w \in Seq([type : {"batch"}, rows : Seq(Rows)]), NEW from \in Nat, Chained(w, from),
         NEW to \in Nat, NEW rows, rows \in Seq(Rows), rows # <<>>,
         EndOf(w, Len(w), from) \in Nat, EndOf(w, Len(w), from) <= to,
         rows = Numbers(EndOf(w, Len(w), from) + 1, to)
  PROVE  /\ Chained(Append(w, Message("batch", rows)), from)
         /\ EndOf(Append(w, Message("batch", rows)), Len(w) + 1, from) = to
<1> DEFINE v == Append(w, Message("batch", rows))
           e == EndOf(w, Len(w), from)
           n == Len(w)
<1>1. Len(v) = n + 1 /\ n \in Nat /\ v[n + 1].type = "batch" /\ v[n + 1].rows = rows
  BY DEF Message
<1>2. \A k \in 1 .. n : v[k] = w[k]
  BY DEF Message
<1>3. \A k \in 0 .. n : EndOf(v, k, from) = EndOf(w, k, from)
  BY <1>2 DEF EndOf
<1>4. EndOf(v, n + 1, from) = to
  <2>1. rows[Len(rows)] = to
    BY NumbersAfter
  <2> QED
    BY <1>1, <2>1 DEF EndOf
<1>5. ASSUME NEW k \in 1 .. n + 1
      PROVE  /\ v[k].type = "batch" /\ v[k].rows # <<>>
             /\ EndOf(v, k - 1, from) \in Nat /\ EndOf(v, k, from) \in Nat
             /\ EndOf(v, k - 1, from) <= EndOf(v, k, from)
             /\ v[k].rows = Numbers(EndOf(v, k - 1, from) + 1, EndOf(v, k, from))
  <2>1. CASE k = n + 1
    <3>1. k - 1 = n /\ n \in 0 .. n
      BY <1>1, <2>1
    <3> HIDE DEF v
    <3> QED
      BY <1>1, <1>3, <1>4, <2>1, <3>1
  <2>2. CASE k # n + 1
    <3>1. k \in 1 .. n /\ k \in 0 .. n /\ k - 1 \in 0 .. n
      <4> HIDE DEF n
      <4> QED
        BY <1>1, <2>2
    <3> HIDE DEF v
    <3> QED
      BY <1>2, <1>3, <3>1 DEF Chained
  <2> QED
    BY <2>1, <2>2
<1> HIDE DEF v
<1>6. Chained(v, from)
  BY <1>1, <1>5 DEF Chained
<1> QED
  BY <1>4, <1>6 DEF v

(* What Pack keeps, over rows that begin after from.                       *)
Carried(p, from, to) ==
  LET e == EndOf(p.written, Len(p.written), from) IN
  /\ Chained(p.written, from) /\ e \in Nat /\ e <= to
  /\ ~p.refused => p.open = Numbers(e + 1, to) /\ (from < to => p.open # <<>>)

LEMMA PackCarries ==
  ASSUME NEW p \in Packings, NEW from \in Nat, NEW to \in Nat, from <= to, Carried(p, from, to), to + 1 \in Rows
  PROVE  Carried(Pack(p, to + 1), from, to + 1)
<1> DEFINE q == Pack(p, to + 1)
           e == EndOf(p.written, Len(p.written), from)
<1>1. Chained(p.written, from) /\ e \in Nat /\ e <= to /\ e <= to + 1
  BY DEF Carried
<1> HIDE DEF q
<1>2. CASE q.refused
  <2> SUFFICES ASSUME q.written = p.written PROVE Carried(q, from, to + 1)
    BY <1>2, PackIs DEF q
  <2> QED
    BY <1>1, <1>2 DEF Carried
<1>3. ASSUME ~q.refused, q.written = p.written, q.open = Append(p.open, to + 1), ~p.refused
      PROVE  Carried(q, from, to + 1)
  <2>1. p.open = Numbers(e + 1, to)
    BY <1>3 DEF Carried
  <2>2. e + 1 \in Nat /\ e + 1 <= to + 1
    BY <1>1
  <2>3. q.open = Numbers(e + 1, to + 1)
    <3> HIDE DEF e
    <3> QED
      BY <1>3, <2>1, <2>2, NumbersGrow
  <2>4. q.open # <<>>
    <3>1. p.open \in Seq(Rows)
      BY DEF Packings
    <3> QED
      BY <1>3, <3>1
  <2>5. EndOf(q.written, Len(q.written), from) = e
    BY <1>3
  <2> HIDE DEF e
  <2> QED
    BY <1>1, <1>3, <2>3, <2>4, <2>5 DEF Carried
<1>4. ASSUME ~q.refused, ~p.refused, p.open # <<>>, q.open = <<to + 1>>,
             q.written = Append(p.written, Message("batch", p.open))
      PROVE  Carried(q, from, to + 1)
  <2> DEFINE w == p.written
             rows == p.open
  <2>1. w \in Seq([type : {"batch"}, rows : Seq(Rows)]) /\ rows \in Seq(Rows)
    BY DEF Packings
  <2>2. rows = Numbers(EndOf(w, Len(w), from) + 1, to)
    BY <1>4 DEF Carried
  <2>3. /\ Chained(Append(w, Message("batch", rows)), from)
        /\ EndOf(Append(w, Message("batch", rows)), Len(w) + 1, from) = to
    <3>1. Chained(w, from) /\ EndOf(w, Len(w), from) \in Nat /\ EndOf(w, Len(w), from) <= to /\ rows # <<>>
      BY <1>1, <1>4
    <3> HIDE DEF w, rows
    <3> QED
      BY <2>1, <2>2, <3>1, ChainGrows
  <2>4. Len(Append(w, Message("batch", rows))) = Len(w) + 1
    <3> HIDE DEF w, rows
    <3> QED
      BY <2>1 DEF Message
  <2>5. Numbers(to + 1, to + 1) = <<to + 1>>
    <3>1. Append(Numbers(to + 1, to), to + 1) = Numbers(to + 1, to + 1)
      BY NumbersGrow
    <3>2. Numbers(to + 1, to) = <<>>
      BY NumbersOfNone
    <3>3. Append(<<>>, to + 1) = <<to + 1>>
      OBVIOUS
    <3> QED
      BY <3>1, <3>2, <3>3, Zenon
  <2>6. Chained(q.written, from) /\ EndOf(q.written, Len(q.written), from) = to
    BY <1>4, <2>3, <2>4
  <2>7. q.open = Numbers(to + 1, to + 1) /\ q.open # <<>>
    BY <1>4, <2>5
  <2> QED
    BY <2>6, <2>7 DEF Carried
<1> HIDE DEF e
<1>5. p.refused => q = p
  BY PackIs DEF q
<1>6. ~p.refused =>
        \/ q.written = p.written /\ q.open = Append(p.open, to + 1) /\ ~q.refused
        \/ q.written = p.written /\ q.refused
        \/ /\ p.open # <<>> /\ ~q.refused /\ q.open = <<to + 1>>
           /\ q.written = Append(p.written, Message("batch", p.open))
  BY PackIs DEF q
<1>7. Carried(q, from, to + 1)
  BY <1>2, <1>3, <1>4, <1>5, <1>6 DEF q
<1> QED
  BY <1>7 DEF q

LEMMA PackedCarries ==
  ASSUME ImportTypeOK, NEW from \in Nat, NEW to \in 0 .. Len(source), from <= to
  PROVE  /\ Packed(Numbers(from + 1, to)) \in Packings
         /\ Carried(Packed(Numbers(from + 1, to)), from, to)
<1> DEFINE rows == Numbers(from + 1, to)
           n == to - from
<1>0. Len(source) \in Nat
  BY DEF ImportTypeOK
<1>1. rows \in Seq(Rows) /\ n \in Nat
  BY <1>0, NumbersOfRows
<1>2. Len(rows) = n /\ \A k \in 1 .. n : rows[k] = from + k
  BY <1>0, NumbersAfter
<1> HIDE DEF rows
<1>3. PICK f \in [0 .. n -> Packings] :
        f[0] = Unpacked /\ Packed(rows) = f[n] /\ \A k \in 1 .. n : f[k] = Pack(f[k - 1], rows[k])
  <2> HIDE DEF n
  <2> QED
    BY <1>1, <1>2, PackedUpTo
<1> DEFINE S == {k \in Nat : k <= n => Carried(f[k], from, from + k)}
<1>4. 0 \in S
  <2>1. Carried(Unpacked, from, from)
    BY NumbersOfNone DEF Carried, Unpacked, Packing, EndOf, Chained
  <2>2. from + 0 = from
    OBVIOUS
  <2> QED
    BY <1>3, <2>1, <2>2
<1>5. ASSUME NEW k \in Nat, k \in S PROVE k + 1 \in S
  <2> SUFFICES ASSUME k + 1 <= n PROVE Carried(f[k + 1], from, from + (k + 1))
    OBVIOUS
  <2>1. /\ k + 1 \in 1 .. n /\ (k + 1) - 1 = k /\ k \in 0 .. n
        /\ Carried(f[k], from, from + k)
    BY <1>5
  <2>2. f[k] \in Packings /\ f[k + 1] = Pack(f[k], (from + k) + 1)
    <3>1. f[k + 1] = Pack(f[k], rows[k + 1]) /\ rows[k + 1] = from + (k + 1)
      BY <1>2, <1>3, <2>1
    <3>2. from + (k + 1) = (from + k) + 1
      OBVIOUS
    <3> QED
      BY <1>3, <2>1, <3>1, <3>2
  <2>3. (from + k) + 1 \in Rows /\ from + k \in Nat /\ from <= from + k
    BY <1>0, <2>1 DEF Rows
  <2>4. Carried(f[k + 1], from, (from + k) + 1)
    BY <2>1, <2>2, <2>3, PackCarries
  <2>5. from + (k + 1) = (from + k) + 1
    OBVIOUS
  <2> QED
    BY <2>4, <2>5
<1>6. Nat \subseteq S
  <2> HIDE DEF S
  <2> QED
    BY <1>4, <1>5, Induct
<1>7. Carried(f[n], from, from + n)
  BY <1>1, <1>6
<1>8. from + n = to
  BY <1>0
<1> HIDE DEF n
<1>9. Packed(rows) \in Packings /\ Carried(Packed(rows), from, to)
  BY <1>1, <1>3, <1>7, <1>8
<1> QED
  BY <1>9 DEF rows

-----------------------------------------------------------------------------
(* SourceImport: what a step leaves alone stays true.                      *)
SameRequest == kind' = kind /\ shown' = shown /\ selection' = selection /\ source' = source

LEMMA RequestStays ==
  ASSUME SameRequest
  PROVE  /\ Rows' = Rows /\ All' = All /\ Wanted' = Wanted /\ More' = More
         /\ \A r : Bytes(r)' = Bytes(r)
<1>1. All' = All
  BY DEF SameRequest, All, Least
<1>2. \A r : Bytes(r)' = Bytes(r)
  BY DEF SameRequest, Bytes
<1> QED
  BY <1>1, <1>2 DEF SameRequest, Rows, Wanted, More

(* How many rows are to be read.                                           *)
LEMMA WantedIs ==
  ASSUME ImportTypeOK, RowsInOrder
  PROVE  /\ Len(source) \in Nat /\ Wanted \in 0 .. Len(source) /\ All \in 0 .. Len(source)
         /\ selection.rows \in Nat /\ selection.of \in {"full", "first", "sample"}
         /\ selection.of # "full" => selection.rows # 0
         /\ kind = "stream" => Wanted = Len(source)
         /\ Wanted <= shown /\ shown \in Nat
<1>1. Len(source) \in Nat /\ shown \in 0 .. Len(source)
  BY DEF ImportTypeOK
<1>2. selection.rows \in Nat /\ selection.of \in {"full", "first", "sample"} /\ (selection.of # "full" => selection.rows # 0)
  <2>1. selection \in {AllRows} \cup [of : {"first", "sample"}, rows : Targets]
    BY DEF ImportTypeOK, Selections
  <2>2. CASE selection = AllRows
    BY <2>2 DEF AllRows
  <2>3. CASE selection \in [of : {"first", "sample"}, rows : Targets]
    BY <2>3, ImportAssumption
  <2> QED
    BY <2>1, <2>2, <2>3
<1>3. All \in 0 .. Len(source)
  BY <1>1, <1>2 DEF All, Least
<1>4. kind = "stream" => Wanted = Len(source)
  BY DEF Wanted, All
<1>5. kind # "grid" => shown = Len(source)
  BY DEF RowsInOrder
<1> QED
  BY <1>1, <1>2, <1>3, <1>4, <1>5 DEF Wanted

(* What the published dataset, the sample and the table are about does not *)
(* change with other things.                                               *)
LEMMA SaysStays ==
  ASSUME SaysWhatItHas, SameRequest, dataset' = dataset
  PROVE  SaysWhatItHas'
BY DEF SaysWhatItHas, SameRequest, More, Least, Numbers

LEMMA FitsStays ==
  ASSUME SampleFits, SameRequest, sample' = sample, bytes' = bytes
  PROVE  SampleFits'
<1>1. Bytes(sample)' = Bytes(sample)
  BY DEF SameRequest, Bytes
<1> QED
  BY <1>1 DEF SampleFits, SameRequest

(* The phases an import goes through before it is decided.                 *)
Under == {"joining", "staging", "reading", "finishing"}

LEMMA HoldsStays ==
  ASSUME HoldsWhatItSaw, SameRequest, UNCHANGED <<scanned, table, sample, bytes, dataset>>,
         phase' \in Under => phase \in Under, phase = "finishing" => phase' \notin Under \ {"finishing"},
         dataset # None => phase' \in {"removing", "done"}
  PROVE  HoldsWhatItSaw'
<1>1. Bytes(sample)' = Bytes(sample)
  BY DEF SameRequest, Bytes
<1> QED
  BY <1>1 DEF HoldsWhatItSaw, SameRequest, Under, Numbers, Least

-----------------------------------------------------------------------------
(* The backend's side.                                                     *)
LEMMA BackendKeeps ==
  ASSUME ImportInv, SameRequest, UNCHANGED <<phase, batch, scanned, table, sample, bytes, staged, stopping, dataset>>,
         ImportTypeOK', RowsInOrder'
  PROVE  ImportInv'
<1>1. SaysWhatItHas'
  BY SaysStays DEF ImportInv
<1>2. SampleFits'
  BY FitsStays DEF ImportInv
<1>3. HoldsWhatItSaw'
  BY HoldsStays DEF ImportInv, HoldsWhatItSaw
<1>4. StagedForItself' /\ NothingLeft'
  BY DEF ImportInv, StagedForItself, NothingLeft, SameRequest
<1> QED
  BY <1>1, <1>2, <1>3, <1>4 DEF ImportInv

(* A message without rows goes on the wire. *)
LEMMA EndKeeps ==
  ASSUME ImportInv, NEW type \in {"complete", "error", "other"}, EndStream(type),
         type = "complete" => producer = "open" /\ sent = Len(source)
  PROVE  ImportInv'
<1> USE DEF EndStream, request
<1>1. SameRequest /\ ImportTypeOK /\ RowsInOrder
  BY DEF SameRequest, ImportInv
<1>2. kind = "stream"
  BY DEF ImportInv, RowsInOrder
<1>3. Message(type, <<>>) \in [type : MessageTypes, rows : Seq(Rows)]
  BY DEF Message, MessageTypes
<1>4. ImportTypeOK'
  <2>1. wire' \in Seq([type : MessageTypes, rows : Seq(Rows)])
    BY <1>1, <1>3 DEF ImportTypeOK
  <2>2. Rows' = Rows
    BY <1>1, RequestStays
  <2> QED
    BY <1>1, <2>1, <2>2 DEF ImportTypeOK, SameRequest
<1>5. ASSUME phase = "reading" PROVE WireInOrder'
  <2> DEFINE n == Len(wire)
  <2>1. wire \in Seq([type : MessageTypes, rows : Seq(Rows)]) /\ n \in Nat
    BY <1>1 DEF ImportTypeOK
  <2>2. Len(wire') = n + 1 /\ wire'[n + 1] = Message(type, <<>>) /\ \A k \in 1 .. n : wire'[k] = wire[k]
    BY <2>1, <1>3
  <2>3. \A k \in 0 .. n : Reached(k)' = Reached(k)
    BY <1>1, <2>2 DEF Reached, SameRequest
  <2>4. WireInOrder
    BY <1>1, <1>2, <1>5 DEF RowsInOrder
  <2>5. DOMAIN wire' = 1 .. n + 1 /\ DOMAIN wire = 1 .. n
    BY <2>1, <2>2, <1>4 DEF ImportTypeOK
  <2>6. ASSUME NEW k \in 1 .. n + 1
        PROVE  /\ wire'[k].rows # <<>> => wire'[k].type = "batch"
               /\ wire'[k].type = "batch" =>
                    /\ Reached(k - 1)' <= Reached(k)'
                    /\ wire'[k].rows = Numbers(Reached(k - 1)' + 1, Reached(k)')
               /\ wire'[k].type = "complete" => Reached(k - 1)' = Len(source)
    <3>1. CASE k = n + 1
      <4>1. k - 1 = n /\ n \in 0 .. n
        BY <2>1, <3>1
      <4>2. wire'[k].rows = <<>> /\ wire'[k].type = type
        BY <2>2, <3>1 DEF Message
      <4>3. Reached(k - 1)' = Reached(k - 1)
        BY <2>3, <4>1
      <4>4. type = "complete" => Reached(k - 1) = Len(source)
        BY <2>4, <4>1 DEF WireInOrder
      <4> QED
        BY <4>1, <4>2, <4>3, <4>4
    <3>2. CASE k # n + 1
      <4>1. k \in 1 .. n /\ k \in 0 .. n /\ k - 1 \in 0 .. n
        BY <2>1, <3>2
      <4>2. wire'[k] = wire[k] /\ Reached(k)' = Reached(k) /\ Reached(k - 1)' = Reached(k - 1)
        BY <2>2, <2>3, <4>1
      <4> QED
        BY <2>4, <2>5, <4>1, <4>2 DEF WireInOrder
    <3> QED
      BY <3>1, <3>2
  <2>7. \A a, b : Numbers(a, b)' = Numbers(a, b)
    BY DEF Numbers
  <2> QED
    BY <1>1, <2>5, <2>6 DEF WireInOrder, SameRequest
<1>6. RowsInOrder'
  BY <1>1, <1>2, <1>5, RequestStays DEF RowsInOrder, SameRequest, ImportInv, StagedForItself, Staging
<1> QED
  BY <1>1, <1>4, <1>6, BackendKeeps

(* A batch goes on the wire, in frames. *)
LEMMA EmitKeeps ==
  ASSUME ImportInv, Emit
  PROVE  ImportInv'
<1> DEFINE packed == Packed(NextRows)
           to == Least(sent + BatchRows, Len(source))
           w == packed.written
           closing == IF Refused(packed) THEN Message("error", <<>>) ELSE Message("batch", packed.open)
           n == Len(wire)
           m == Len(w)
           T == [type : MessageTypes, rows : Seq(Rows)]
<1>1. SameRequest /\ ImportTypeOK /\ RowsInOrder
  BY DEF SameRequest, ImportInv, Emit, request
<1>2. kind = "stream" /\ producer \in {"fresh", "open"} /\ (producer = "open" => sent < Len(source))
  BY DEF ImportInv, RowsInOrder, Emit, HasBatch
<1>3. /\ wire' = wire \o Append(w, closing) /\ sent' = sent + Len(NextRows)
      /\ producer' = IF Refused(packed) THEN "ended" ELSE "open"
      /\ UNCHANGED <<phase, batch, scanned, table, sample, bytes, staged, stopping, dataset>>
  BY DEF Emit
<1>4. /\ sent \in Nat /\ Len(source) \in Nat /\ sent <= Len(source) /\ BatchRows \in Nat \ {0}
      /\ to \in 0 .. Len(source) /\ sent <= to /\ (to = sent => sent = Len(source))
  BY <1>1, ImportAssumption DEF ImportTypeOK, Least
<1>5. NextRows = Numbers(sent + 1, to)
  BY DEF NextRows
<1> HIDE DEF to
<1>6. packed \in Packings /\ Carried(packed, sent, to)
  BY <1>1, <1>4, <1>5, PackedCarries
<1>7. sent' = to
  BY <1>3, <1>4, <1>5, NumbersAfter
<1> HIDE DEF packed
<1>8. wire \in Seq(T) /\ n \in Nat
  BY <1>1 DEF ImportTypeOK
<1>9. w \in Seq(T) /\ m \in Nat /\ w \in Seq([type : {"batch"}, rows : Seq(Rows)])
  <2>1. w \in Seq([type : {"batch"}, rows : Seq(Rows)])
    BY <1>6 DEF Packings
  <2>2. [type : {"batch"}, rows : Seq(Rows)] \subseteq T
    BY DEF MessageTypes
  <2>3. w \in Seq(T)
    <3> HIDE DEF w, T
    <3> QED
      BY <2>1, <2>2, LargerItems
  <2>4. m \in Nat
    <3> HIDE DEF w
    <3> QED
      BY <2>1
  <2> QED
    BY <2>1, <2>3, <2>4
<1>10. closing \in T
  BY <1>6 DEF Packings, Message, MessageTypes
<1> HIDE DEF closing, w
<1>11. /\ wire' \in Seq(T) /\ Len(wire') = n + m + 1 /\ wire'[n + m + 1] = closing
       /\ \A k \in 1 .. n : wire'[k] = wire[k]
       /\ \A j \in 1 .. m : wire'[n + j] = w[j]
  <2>1. Append(w, closing) \in Seq(T) /\ Len(Append(w, closing)) = m + 1 /\ Append(w, closing)[m + 1] = closing
        /\ \A j \in 1 .. m : Append(w, closing)[j] = w[j]
    BY <1>9, <1>10
  <2> DEFINE v == Append(w, closing)
  <2> HIDE DEF T, v
  <2>2. wire' = wire \o v
    BY <1>3 DEF v
  <2>3. v \in Seq(T) /\ Len(v) = m + 1 /\ v[m + 1] = closing /\ \A j \in 1 .. m : v[j] = w[j]
    BY <2>1 DEF v
  <2>4. /\ wire' \in Seq(T) /\ Len(wire') = n + (m + 1) /\ \A k \in 1 .. n : wire'[k] = wire[k]
        /\ \A j \in 1 .. m + 1 : wire'[n + j] = v[j]
    <3>1. /\ wire' \in Seq(T) /\ Len(wire') = Len(wire) + Len(v)
          /\ \A k \in 1 .. Len(wire) : wire'[k] = wire[k]
          /\ \A k \in 1 .. Len(v) : wire'[Len(wire) + k] = v[k]
      <4>1. wire \in Seq(T) /\ v \in Seq(T)
        BY <1>8, <2>3
      <4> QED
        BY <2>2, <4>1
    <3>2. n = Len(wire)
      OBVIOUS
    <3> HIDE DEF n
    <3> QED
      BY <2>3, <3>1, <3>2, Zenon
  <2>6. m + 1 \in 1 .. m + 1 /\ n + (m + 1) = n + m + 1 /\ \A j \in 1 .. m : j \in 1 .. m + 1
    BY <1>8, <1>9
  <2> QED
    BY <2>3, <2>4, <2>6
<1>12. ImportTypeOK'
  <2>1. Rows' = Rows
    BY <1>1, RequestStays
  <2> QED
    BY <1>1, <1>3, <1>4, <1>7, <1>11, <2>1 DEF ImportTypeOK, SameRequest
<1>13. ASSUME phase = "reading"
       PROVE  WireInOrder'
  <2> DEFINE e == EndOf(w, m, sent)
  <2>1. WireInOrder
    BY <1>1, <1>2, <1>13 DEF RowsInOrder
  <2>2. Reached(Len(wire)) = sent
    BY <1>2, <2>1 DEF WireInOrder
  <2>3. \A k \in 0 .. n : Reached(k)' = Reached(k)
    BY <1>1, <1>3, <1>11 DEF Reached, SameRequest
  <2>4. Chained(w, sent) /\ e \in Nat /\ e <= to /\ (~packed.refused => packed.open = Numbers(e + 1, to) /\ (sent < to => packed.open # <<>>))
    BY <1>6 DEF Carried, w
  <2>5. ASSUME NEW j \in 0 .. m, NEW k, k = n + j PROVE Reached(k)' = EndOf(w, j, sent)
    <3>1. CASE j = 0
      <4>1. k = Len(wire) /\ k \in 0 .. n
        BY <1>8, <3>1, <2>5
      <4>2. Reached(k)' = Reached(k)
        BY <2>3, <4>1
      <4> QED
        BY <2>2, <3>1, <4>1, <4>2 DEF EndOf
    <3>2. CASE j # 0
      <4>1. k # 0 /\ j \in 1 .. m
        BY <1>8, <1>9, <2>5, <3>2
      <4>2. w[j].rows # <<>> /\ wire'[k] = w[j]
        BY <1>11, <2>4, <2>5, <4>1 DEF Chained
      <4>3. Reached(k)' = wire'[k].rows[Len(wire'[k].rows)]
        BY <4>1, <4>2 DEF Reached
      <4> QED
        BY <3>2, <4>2, <4>3 DEF EndOf
    <3> QED
      BY <3>1, <3>2
  <2>6. ASSUME ~Refused(packed), NEW k, k = n + m + 1
        PROVE  wire'[k].type = "batch" /\ wire'[k].rows = Numbers(e + 1, to) /\ Reached(k)' = to
    <3>1. wire'[k] = Message("batch", packed.open) /\ packed.open = Numbers(e + 1, to)
      BY <1>11, <2>4, <2>6 DEF closing, Refused
    <3>2. wire'[k].type = "batch" /\ wire'[k].rows = Numbers(e + 1, to)
      BY <3>1 DEF Message
    <3>3. k # 0
      BY <1>8, <1>9, <2>6
    <3>4. CASE packed.open = <<>>
      <4>1. to = Len(source)
        BY <1>4, <2>4, <2>6, <3>4 DEF Refused
      <4>2. Reached(k)' = Len(source)'
        BY <3>1, <3>2, <3>3, <3>4 DEF Reached
      <4> QED
        BY <1>1, <3>2, <4>1, <4>2 DEF SameRequest
    <3>5. CASE packed.open # <<>>
      <4>1. Numbers(e + 1, to)[Len(Numbers(e + 1, to))] = to
        <5> HIDE DEF e
        <5> QED
          BY <1>4, <2>4, <3>1, <3>5, NumbersAfter
      <4>2. Reached(k)' = wire'[k].rows[Len(wire'[k].rows)]
        BY <3>1, <3>2, <3>3, <3>5 DEF Reached
      <4> QED
        BY <3>2, <4>1, <4>2
    <3> QED
      BY <3>2, <3>4, <3>5
  <2> HIDE DEF e, n, m
  <2>7. ASSUME NEW k \in 1 .. n + m + 1
        PROVE  /\ wire'[k].rows # <<>> => wire'[k].type = "batch"
               /\ wire'[k].type = "batch" =>
                    /\ Reached(k - 1)' <= Reached(k)'
                    /\ wire'[k].rows = Numbers(Reached(k - 1)' + 1, Reached(k)')
               /\ wire'[k].type = "complete" => Reached(k - 1)' = Len(source)
    <3>0. n \in Nat /\ m \in Nat
      BY <1>8, <1>9
    <3>1. CASE k \in 1 .. n
      <4>1. k \in 0 .. n /\ k - 1 \in 0 .. n
        BY <3>0, <3>1
      <4>2. wire'[k] = wire[k] /\ Reached(k)' = Reached(k) /\ Reached(k - 1)' = Reached(k - 1)
        BY <1>11, <2>3, <3>1, <4>1
      <4>3. k \in DOMAIN wire
        BY <1>8, <3>1 DEF n
      <4> QED
        BY <2>1, <4>2, <4>3 DEF WireInOrder
    <3>2. CASE k \in n + 1 .. n + m
      <4> DEFINE j == k - n
      <4>1. j \in 1 .. m /\ j \in 0 .. m /\ j - 1 \in 0 .. m /\ k = n + j /\ k - 1 = n + (j - 1)
        BY <3>0, <3>2
      <4> HIDE DEF j
      <4>2. wire'[k] = w[j] /\ Reached(k)' = EndOf(w, j, sent) /\ Reached(k - 1)' = EndOf(w, j - 1, sent)
        BY <1>11, <2>5, <4>1
      <4>3. /\ w[j].type = "batch" /\ EndOf(w, j - 1, sent) <= EndOf(w, j, sent)
            /\ w[j].rows = Numbers(EndOf(w, j - 1, sent) + 1, EndOf(w, j, sent))
        BY <2>4, <4>1 DEF Chained, m
      <4> QED
        BY <4>2, <4>3
    <3>3. CASE k = n + m + 1
      <4>1. m \in 0 .. m /\ k - 1 = n + m
        BY <3>0, <3>3
      <4>2. Reached(k - 1)' = e
        BY <2>5, <4>1 DEF e
      <4>3. CASE Refused(packed)
        BY <1>11, <3>3, <4>3 DEF closing, Message
      <4>4. CASE ~Refused(packed)
        <5>1. wire'[k].type = "batch" /\ wire'[k].rows = Numbers(e + 1, to) /\ Reached(k)' = to
          BY <2>6, <3>3, <4>4
        <5> QED
          BY <2>4, <4>2, <5>1
      <4> QED
        BY <4>3, <4>4
    <3> QED
      BY <3>0, <3>1, <3>2, <3>3
  <2>8. DOMAIN wire' = 1 .. n + m + 1
    BY <1>8, <1>9, <1>11 DEF n, m
  <2>9. producer' \in {"fresh", "open"} => Reached(Len(wire))' = sent'
    <3>1. producer' \in {"fresh", "open"} => ~Refused(packed)
      BY <1>3
    <3>2. \A k : k = Len(wire') => Reached(k)' = Reached(Len(wire))'
      BY DEF Reached
    <3> QED
      BY <1>7, <1>11, <2>6, <3>1, <3>2
  <2> QED
    BY <1>1, <2>7, <2>8, <2>9 DEF WireInOrder, SameRequest, Numbers
<1>14. RowsInOrder'
  BY <1>1, <1>2, <1>3, <1>13, RequestStays DEF RowsInOrder, SameRequest, ImportInv, StagedForItself, Staging
<1> QED
  BY <1>1, <1>3, <1>12, <1>14, BackendKeeps

(* The first items of a sequence.                                          *)
LEMMA FirstItems ==
  ASSUME NEW S, NEW a \in Seq(S), NEW n \in 0 .. Len(a), NEW b, b = SubSeq(a, 1, n)
  PROVE  b \in Seq(S) /\ Len(b) = n /\ \A k \in 1 .. n : b[k] = a[k]
OBVIOUS

(* A stream that breaks is cut anywhere. *)
LEMMA BreakKeeps ==
  ASSUME ImportInv, Break
  PROVE  ImportInv'
<1> DEFINE T == [type : MessageTypes, rows : Seq(Rows)]
<1>1. SameRequest /\ ImportTypeOK /\ RowsInOrder
  BY DEF SameRequest, ImportInv, Break, request
<1>2. /\ producer' = "broken" /\ kind = "stream" /\ phase = "reading"
      /\ UNCHANGED <<sent, phase, batch, scanned, table, sample, bytes, staged, stopping, dataset>>
  BY DEF Break
<1>3. wire \in Seq(T)
  BY <1>1 DEF ImportTypeOK
<1>4. PICK n \in 0 .. Len(wire) : wire' = SubSeq(wire, 1, n)
  BY DEF Break
<1>5. wire' \in Seq(T) /\ Len(wire') = n /\ \A k \in 1 .. n : wire'[k] = wire[k]
  <2> HIDE DEF T
  <2> QED
    BY <1>3, <1>4
<1>6. ImportTypeOK'
  <2>1. Rows' = Rows
    BY <1>1, RequestStays
  <2> QED
    BY <1>1, <1>2, <1>5, <2>1 DEF ImportTypeOK, SameRequest
<1>7. WireInOrder'
  <2>1. WireInOrder
    BY <1>1, <1>2 DEF RowsInOrder
  <2>2. \A k \in 0 .. n : Reached(k)' = Reached(k)
    BY <1>1, <1>2, <1>5 DEF Reached, SameRequest
  <2>3. DOMAIN wire' = 1 .. n /\ DOMAIN wire = 1 .. Len(wire) /\ Len(wire) \in Nat
    BY <1>3, <1>5
  <2>4. ASSUME NEW k \in 1 .. n
        PROVE  /\ wire'[k].rows # <<>> => wire'[k].type = "batch"
               /\ wire'[k].type = "batch" =>
                    /\ Reached(k - 1)' <= Reached(k)'
                    /\ wire'[k].rows = Numbers(Reached(k - 1)' + 1, Reached(k)')
               /\ wire'[k].type = "complete" => Reached(k - 1)' = Len(source)
    <3>1. k \in 0 .. n /\ k - 1 \in 0 .. n /\ k \in DOMAIN wire
      BY <2>3
    <3>2. wire'[k] = wire[k] /\ Reached(k)' = Reached(k) /\ Reached(k - 1)' = Reached(k - 1)
      BY <1>5, <2>2, <3>1
    <3> QED
      BY <2>1, <3>1, <3>2 DEF WireInOrder
  <2> QED
    BY <1>1, <1>2, <2>3, <2>4 DEF WireInOrder, SameRequest, Numbers
<1>8. RowsInOrder'
  BY <1>1, <1>2, <1>7, RequestStays DEF RowsInOrder, SameRequest
<1> QED
  BY <1>1, <1>2, <1>6, <1>8, BackendKeeps

(* The source has ended, or fails.                                         *)
LEMMA CompletesKeeps ==
  ASSUME ImportInv, Completes
  PROVE  ImportInv'
<1>1. EndStream("complete") /\ ~HasBatch
  BY DEF Completes
<1>2. producer = "open" /\ ~(sent < Len(source))
  BY <1>1 DEF EndStream, HasBatch
<1>3. sent = Len(source)
  BY <1>2 DEF ImportInv, ImportTypeOK
<1> QED
  BY <1>1, <1>2, <1>3, EndKeeps

LEMMA SourceFailsKeeps ==
  ASSUME ImportInv, SourceFails
  PROVE  ImportInv'
<1>1. CASE EndStream("error")
  BY <1>1, EndKeeps
<1>2. CASE EndStream("other")
  BY <1>2, EndKeeps
<1> QED
  BY <1>1, <1>2 DEF SourceFails

-----------------------------------------------------------------------------
(* The engine gives up.                                                    *)
LEMMA GivesUpKeeps ==
  ASSUME ImportInv, GivesUp, sent' = sent, phase \notin {"removing", "done"},
         wire' = wire \/ (wire # <<>> /\ wire' = Tail(wire))
  PROVE  ImportInv'
<1> USE DEF GivesUp, request
<1>1. SameRequest /\ ImportTypeOK /\ RowsInOrder
  BY DEF SameRequest, ImportInv
<1>2. phase' \in {"removing", "done"} /\ (phase' = "removing" <=> kind \in Staging)
  OBVIOUS
<1>3. dataset = None
  BY DEF ImportInv, HoldsWhatItSaw
<1>4. ImportTypeOK'
  <2>1. Rows' = Rows
    BY <1>1, RequestStays
  <2>2. wire' \in Seq([type : MessageTypes, rows : Seq(Rows)])
    <3> DEFINE T == [type : MessageTypes, rows : Seq(Rows)]
    <3>1. wire \in Seq(T)
      BY <1>1 DEF ImportTypeOK
    <3> HIDE DEF T
    <3>2. wire' \in Seq(T)
      BY <3>1
    <3> QED
      BY <3>2 DEF T
  <2>3. <<>> \in Seq(Rows)
    OBVIOUS
  <2> QED
    BY <1>1, <1>2, <2>1, <2>2, <2>3 DEF ImportTypeOK, SameRequest, Phases
<1>5. RowsInOrder'
  BY <1>1, <1>2, RequestStays DEF RowsInOrder, SameRequest
<1>6. HoldsWhatItSaw'
  BY <1>1, <1>2, <1>3 DEF HoldsWhatItSaw, ImportInv, SameRequest
<1>7. StagedForItself' /\ NothingLeft'
  BY <1>1, <1>2 DEF StagedForItself, NothingLeft, ImportInv, SameRequest
<1>8. SaysWhatItHas' /\ SampleFits'
  BY <1>1, SaysStays, FitsStays DEF ImportInv
<1> QED
  BY <1>4, <1>5, <1>6, <1>7, <1>8 DEF ImportInv

LEMMA FailKeeps ==
  ASSUME ImportInv, Fail \/ Exceeded
  PROVE  ImportInv'
BY GivesUpKeeps DEF Fail, Exceeded

(* A step of phases and files only. *)
LEMMA PhaseKeeps ==
  ASSUME ImportInv, SameRequest,
         UNCHANGED <<sent, producer, wire, batch, scanned, table, sample, bytes, stopping, dataset>>,
         phase' \in Phases, staged' \subseteq {Joined, Parquet},
         RowsInOrder', HoldsWhatItSaw', StagedForItself', NothingLeft'
  PROVE  ImportInv'
<1>1. ImportTypeOK
  BY DEF ImportInv
<1>2. ImportTypeOK'
  <2>1. Rows' = Rows
    BY RequestStays
  <2> QED
    BY <1>1, <2>1 DEF ImportTypeOK, SameRequest
<1>3. SaysWhatItHas' /\ SampleFits'
  BY SaysStays, FitsStays DEF ImportInv
<1> QED
  BY <1>2, <1>3 DEF ImportInv

(* Local datasets are joined, the rows staged, the files removed.          *)
LEMMA StagingKeeps ==
  ASSUME ImportInv, Join \/ JoinLoaded \/ Stage \/ RemoveStaged
  PROVE  ImportInv'
<1>1. /\ SameRequest /\ ImportTypeOK /\ RowsInOrder /\ HoldsWhatItSaw /\ StagedForItself /\ NothingLeft
      /\ UNCHANGED <<sent, producer, wire, batch, scanned, table, sample, bytes, stopping, dataset>>
  BY DEF SameRequest, ImportInv, Join, JoinLoaded, Stage, RemoveStaged, request
<1>2. /\ phase \in {"joining", "staging", "removing"} /\ kind \in Staging
      /\ staged' \subseteq {Joined, Parquet}
      /\ phase = "removing" => phase' = "done" /\ staged' = {}
      /\ phase # "removing" => phase' \in {"joining", "staging", "reading", "removing"}
      /\ phase' \in {"joining", "staging"} => phase = "joining"
  BY <1>1 DEF ImportTypeOK, StagedForItself, Join, JoinLoaded, Stage, RemoveStaged
<1>3. phase' \in Phases
  BY <1>2 DEF Phases
<1>4. RowsInOrder'
  <2>1. Wanted' = Wanted /\ Wanted \in Nat
    BY <1>1, RequestStays, WantedIs
  <2>2. CASE phase' = "reading"
    <3>1. sent = 0 /\ scanned = 0 /\ batch = <<>> /\ kind # "stream"
      BY <1>1, <1>2, <2>2 DEF RowsInOrder, Staging
    <3>2. batch = Numbers(scanned + 1, scanned + Len(batch)) /\ sent = scanned + Len(batch)
      BY <3>1, NumbersOfNone
    <3>3. (batch = Numbers(scanned + 1, scanned + Len(batch)))'
      BY <1>1, <3>2 DEF Numbers
    <3> QED
      BY <1>1, <2>1, <2>2, <3>1, <3>2, <3>3 DEF RowsInOrder, SameRequest
  <2>3. CASE phase' # "reading"
    BY <1>1, <1>2, <1>3, <2>1, <2>3 DEF RowsInOrder, SameRequest, Phases
  <2> QED
    BY <2>2, <2>3
<1>5. HoldsWhatItSaw'
  <2>1. dataset # None => phase' \in {"removing", "done"}
    BY <1>1, <1>2 DEF HoldsWhatItSaw
  <2> QED
    BY <1>1, <1>2, <2>1, HoldsStays DEF Under
<1>6. StagedForItself' /\ NothingLeft'
  <2>1. phase \in {"joining", "staging"} => table = <<>>
    BY <1>1, NumbersOfNone DEF HoldsWhatItSaw, RowsInOrder
  <2> QED
    BY <1>1, <1>2, <2>1 DEF StagedForItself, NothingLeft, SameRequest
<1> QED
  BY <1>1, <1>2, <1>3, <1>4, <1>5, <1>6, PhaseKeeps

(* A stop is asked for.                                                    *)
LEMMA RequestStopKeeps ==
  ASSUME ImportInv, RequestStop
  PROVE  ImportInv'
<1>1. SameRequest /\ ImportTypeOK /\ RowsInOrder
  BY DEF SameRequest, ImportInv, RequestStop, request
<1>2. UNCHANGED <<sent, producer, wire, phase, batch, scanned, table, sample, bytes, staged, dataset>> /\ stopping' = TRUE
  BY DEF RequestStop
<1>3. ImportTypeOK'
  <2>1. Rows' = Rows
    BY <1>1, RequestStays
  <2> QED
    BY <1>1, <1>2, <2>1 DEF ImportTypeOK, SameRequest
<1>4. RowsInOrder'
  <2>1. WireInOrder => WireInOrder'
    BY <1>1, <1>2 DEF WireInOrder, Reached, SameRequest, Numbers
  <2> QED
    BY <1>1, <1>2, <2>1, RequestStays DEF RowsInOrder, SameRequest, Numbers
<1>5. SaysWhatItHas' /\ SampleFits' /\ HoldsWhatItSaw'
  BY <1>1, <1>2, SaysStays, FitsStays, HoldsStays DEF ImportInv, HoldsWhatItSaw
<1>6. StagedForItself' /\ NothingLeft'
  BY <1>1, <1>2 DEF ImportInv, StagedForItself, NothingLeft, SameRequest
<1> QED
  BY <1>3, <1>4, <1>5, <1>6 DEF ImportInv

-----------------------------------------------------------------------------
(* The engine reads.                                                       *)
LEMMA ReadKeeps ==
  ASSUME ImportInv, SameRequest, UNCHANGED <<scanned, table, sample, bytes, staged, stopping, dataset>>,
         phase = "reading", phase' \in {"reading", "finishing"}, ImportTypeOK', RowsInOrder'
  PROVE  ImportInv'
<1>1. SaysWhatItHas' /\ SampleFits'
  BY SaysStays, FitsStays DEF ImportInv
<1>2. HoldsWhatItSaw'
  <2>1. dataset = None
    BY DEF ImportInv, HoldsWhatItSaw
  <2> QED
    BY <2>1, HoldsStays DEF ImportInv, Under
<1>3. StagedForItself' /\ NothingLeft'
  BY DEF ImportInv, StagedForItself, NothingLeft, SameRequest
<1> QED
  BY <1>1, <1>2, <1>3 DEF ImportInv

(* The items after the first.                                              *)
LEMMA OtherItems ==
  ASSUME NEW S, NEW a \in Seq(S), a # <<>>, NEW b, b = Tail(a)
  PROVE  /\ b \in Seq(S) /\ Len(b) = Len(a) - 1 /\ Len(a) \in Nat \ {0}
         /\ Head(a) = a[1] /\ a[1] \in S /\ \A k \in 1 .. Len(a) - 1 : b[k] = a[k + 1]
OBVIOUS

(* A message is read from the wire.                                        *)
LEMMA ReadMessageKeeps ==
  ASSUME ImportInv, ReadMessage
  PROVE  ImportInv'
<1> DEFINE T == [type : MessageTypes, rows : Seq(Rows)]
<1>1. SameRequest /\ ImportTypeOK /\ RowsInOrder /\ Rows' = Rows
  <2>1. SameRequest
    BY DEF SameRequest, ReadMessage, GivesUp, request
  <2> QED
    BY <2>1, RequestStays DEF ImportInv
<1>2. phase = "reading" /\ kind = "stream" /\ batch = <<>> /\ WireInOrder
  BY <1>1 DEF ReadMessage, RowsInOrder
<1>3. wire \in Seq(T)
  BY <1>1 DEF ImportTypeOK
<1>4. CASE stopping \/ ~(IsBatch(Received) \/ IsComplete(Received))
  <2>1. GivesUp /\ sent' = sent
    BY <1>4 DEF ReadMessage
  <2>2. wire' = wire \/ (wire # <<>> /\ wire' = Tail(wire))
    BY DEF ReadMessage
  <2> QED
    BY <1>2, <2>1, <2>2, GivesUpKeeps
<1>5. ASSUME ~stopping, IsBatch(Received) \/ IsComplete(Received)
      PROVE  /\ wire # <<>> /\ wire' = Tail(wire) /\ Received = wire[1]
             /\ wire' \in Seq(T) /\ Len(wire') = Len(wire) - 1 /\ Len(wire) \in Nat \ {0}
             /\ wire[1] \in T /\ \A k \in 1 .. Len(wire) - 1 : wire'[k] = wire[k + 1]
             /\ producer # "fresh"
  <2>1. wire # <<>>
    BY <1>5 DEF Received, IsBatch, IsComplete, Message
  <2>2. wire' = Tail(wire) /\ Received = Head(wire)
    BY <1>5, <2>1 DEF ReadMessage, Received
  <2>3. /\ wire' \in Seq(T) /\ Len(wire') = Len(wire) - 1 /\ Len(wire) \in Nat \ {0}
        /\ Head(wire) = wire[1] /\ wire[1] \in T /\ \A k \in 1 .. Len(wire) - 1 : wire'[k] = wire[k + 1]
    <3> HIDE DEF T
    <3> QED
      BY <1>3, <2>1, <2>2
  <2> QED
    BY <1>1, <2>1, <2>2, <2>3 DEF RowsInOrder
<1>6. CASE ~stopping /\ IsComplete(Received)
  <2>1. /\ phase' = "finishing" /\ UNCHANGED <<sent, producer, batch, scanned, table, sample, bytes, staged, stopping, dataset>>
    BY <1>6 DEF ReadMessage, IsComplete, IsBatch, GivesUp
  <2>2. ImportTypeOK'
    BY <1>1, <1>5, <1>6, <2>1 DEF ImportTypeOK, SameRequest, Phases
  <2>3. scanned = Len(source)
    <3>1. wire[1].type = "complete" /\ 1 \in DOMAIN wire
      BY <1>3, <1>5, <1>6 DEF IsComplete
    <3>2. Reached(1 - 1) = Len(source)
      BY <1>2, <3>1 DEF WireInOrder
    <3>3. Reached(1 - 1) = scanned
      BY <1>1, <1>2 DEF Reached, ImportTypeOK
    <3> QED
      BY <3>2, <3>3
  <2>4. RowsInOrder'
    BY <1>1, <1>2, <1>5, <1>6, <2>1, <2>3, RequestStays, WantedIs DEF RowsInOrder, SameRequest
  <2> QED
    BY <1>1, <1>2, <2>1, <2>2, <2>4, ReadKeeps
<1>7. CASE ~stopping /\ IsBatch(Received)
  <2> DEFINE e == scanned
             to == Reached(1)
  <2>1. batch' = wire[1].rows /\ UNCHANGED <<sent, producer, phase, scanned, table, sample, bytes, staged, stopping, dataset>>
    BY <1>5, <1>7 DEF ReadMessage, IsComplete, IsBatch, GivesUp
  <2>2. batch' \in Seq(Rows)
    BY <1>5, <1>7, <2>1
  <2>3. scanned \in Nat /\ Len(source) \in Nat
    BY <1>1 DEF ImportTypeOK
  <2>4. Reached(1 - 1) = scanned
    BY <1>2, <2>3 DEF Reached
  <2>5. scanned <= to /\ batch' = Numbers(scanned + 1, to)
    <3>1. wire[1].type = "batch" /\ 1 \in DOMAIN wire
      BY <1>3, <1>5, <1>7 DEF IsBatch
    <3> QED
      BY <1>2, <2>1, <2>4, <3>1 DEF WireInOrder
  <2>6. to \in Nat
    <3>1. CASE wire[1].rows = <<>>
      BY <2>3, <3>1 DEF Reached
    <3>2. CASE wire[1].rows # <<>>
      <4>1. wire[1].rows[Len(wire[1].rows)] \in Rows
        BY <2>1, <2>2, <3>2
      <4> QED
        BY <3>2, <4>1 DEF Reached, Rows
    <3> QED
      BY <3>1, <3>2
  <2>7. scanned + Len(batch') = to
    <3>1. Len(batch') = to - scanned
      BY <2>3, <2>5, <2>6, NumbersAfter
    <3> QED
      BY <2>3, <2>6, <3>1
  <2>8. ImportTypeOK'
    BY <1>1, <1>5, <1>7, <2>1, <2>2 DEF ImportTypeOK, SameRequest
  <2>9. ASSUME NEW k \in 0 .. Len(wire) - 1 PROVE Reached(k)' = Reached(k + 1)
    <3>1. CASE k = 0
      <4>1. Reached(k)' = scanned' + Len(batch')
        BY <3>1 DEF Reached
      <4> QED
        BY <2>1, <2>7, <3>1, <4>1
    <3>2. CASE k # 0
      <4>1. wire'[k] = wire[k + 1] /\ k + 1 # 0
        BY <1>5, <1>7, <3>2
      <4> QED
        BY <1>1, <3>2, <4>1 DEF Reached, SameRequest
    <3> QED
      BY <3>1, <3>2
  <2> HIDE DEF to, e
  <2>10. WireInOrder'
    <3>1. DOMAIN wire' = 1 .. Len(wire) - 1 /\ DOMAIN wire = 1 .. Len(wire)
      BY <1>3, <1>5, <1>7
    <3>2. ASSUME NEW k \in 1 .. Len(wire) - 1
          PROVE  /\ wire'[k].rows # <<>> => wire'[k].type = "batch"
                 /\ wire'[k].type = "batch" =>
                      /\ Reached(k - 1)' <= Reached(k)'
                      /\ wire'[k].rows = Numbers(Reached(k - 1)' + 1, Reached(k)')
                 /\ wire'[k].type = "complete" => Reached(k - 1)' = Len(source)
      <4>1. /\ k \in 0 .. Len(wire) - 1 /\ k - 1 \in 0 .. Len(wire) - 1 /\ k + 1 \in DOMAIN wire
            /\ (k - 1) + 1 = k /\ (k + 1) - 1 = k
        BY <1>5, <1>7, <3>1
      <4>2. wire'[k] = wire[k + 1] /\ Reached(k)' = Reached(k + 1) /\ Reached(k - 1)' = Reached((k + 1) - 1)
        BY <1>5, <1>7, <2>9, <4>1
      <4> QED
        BY <1>2, <4>1, <4>2 DEF WireInOrder
    <3>3. producer' \in {"fresh", "open"} => Reached(Len(wire))' = sent'
      <4>1. ASSUME NEW k, k = Len(wire') PROVE Reached(Len(wire))' = Reached(Len(wire))
        <5>1. Reached(Len(wire))' = Reached(k)'
          BY <4>1 DEF Reached
        <5>2. k \in 0 .. Len(wire) - 1 /\ k + 1 = Len(wire)
          BY <1>5, <1>7, <4>1
        <5> QED
          BY <2>9, <5>1, <5>2
      <4> QED
        BY <1>2, <2>1, <4>1 DEF WireInOrder
    <3> QED
      BY <1>1, <3>1, <3>2, <3>3 DEF WireInOrder, SameRequest, Numbers
  <2>11. RowsInOrder'
    <3>1. (batch = Numbers(scanned + 1, scanned + Len(batch)))'
      BY <2>1, <2>5, <2>7 DEF Numbers
    <3> QED
      BY <1>1, <1>2, <1>5, <1>7, <2>1, <2>10, <3>1, RequestStays DEF RowsInOrder, SameRequest
  <2> QED
    BY <1>1, <1>2, <2>1, <2>8, <2>11, ReadKeeps
<1> QED
  BY <1>4, <1>6, <1>7

(* The rows that come next in a grid or a file. *)
LEMMA NextKeeps ==
  ASSUME ImportInv, SameRequest,
         UNCHANGED <<producer, wire, scanned, table, sample, bytes, staged, stopping, dataset>>,
         phase = "reading", kind # "stream", batch = <<>>, phase' \in {"reading", "finishing"},
         NEW to \in Nat, sent <= to, to <= Wanted, batch' = Numbers(sent + 1, to), sent' = to,
         phase' = "finishing" => sent = Wanted
  PROVE  ImportInv'
<1>1. ImportTypeOK /\ RowsInOrder /\ Rows' = Rows /\ Wanted' = Wanted
  BY RequestStays DEF ImportInv
<1>2. scanned \in Nat /\ sent = scanned /\ Len(source) \in Nat /\ Wanted \in 0 .. Len(source)
  BY <1>1, WantedIs DEF ImportTypeOK, RowsInOrder
<1>3. batch' \in Seq(Rows)
  <2>1. Numbers(sent + 1, to) \in Seq(Rows)
    BY <1>1, <1>2, NumbersOfRows
  <2> QED
    BY <2>1
<1>4. scanned + Len(batch') = to
  <2>1. Len(Numbers(sent + 1, to)) = to - sent
    BY <1>2, NumbersAfter
  <2> QED
    BY <1>2, <2>1
<1>5. ImportTypeOK'
  BY <1>1, <1>2, <1>3 DEF ImportTypeOK, SameRequest, Phases
<1>6. RowsInOrder'
  <2>1. (batch = Numbers(scanned + 1, scanned + Len(batch)))'
    BY <1>2, <1>4 DEF Numbers
  <2> QED
    BY <1>1, <1>2, <1>4, <2>1 DEF RowsInOrder, SameRequest
<1> QED
  BY <1>5, <1>6, ReadKeeps

(* The rows of the grid, and a batch of a file.                            *)
LEMMA ReadGridKeeps ==
  ASSUME ImportInv, ReadGrid
  PROVE  ImportInv'
<1>1. SameRequest /\ ImportTypeOK /\ RowsInOrder
  BY DEF SameRequest, ImportInv, ReadGrid, request
<1>2. Wanted = shown /\ shown \in Nat /\ sent <= Wanted
  BY <1>1 DEF ReadGrid, Wanted, ImportTypeOK, RowsInOrder
<1> QED
  BY <1>1, <1>2, NextKeeps DEF ReadGrid

LEMMA ReadBatchKeeps ==
  ASSUME ImportInv, ReadBatch
  PROVE  ImportInv'
<1>1. SameRequest /\ ImportTypeOK /\ RowsInOrder
  BY DEF SameRequest, ImportInv, ReadBatch, GivesUp, request
<1>2. /\ phase = "reading" /\ kind \notin {"stream", "grid"} /\ batch = <<>>
      /\ Wanted = All /\ All \in Nat /\ sent \in Nat /\ sent <= All
  BY <1>1, WantedIs DEF ReadBatch, Wanted, ImportTypeOK, RowsInOrder
<1>3. CASE sent = All /\ phase' = "finishing" /\ UNCHANGED <<sent, producer, wire, batch, scanned, table, sample, bytes, staged, stopping, dataset>>
  <2>1. batch' = Numbers(sent + 1, sent)
    BY <1>2, <1>3, NumbersOfNone
  <2> QED
    BY <1>1, <1>2, <1>3, <2>1, NextKeeps
<1>4. CASE GivesUp /\ UNCHANGED <<sent, wire>>
  BY <1>2, <1>4, GivesUpKeeps
<1>5. CASE /\ sent < All /\ batch' = Numbers(sent + 1, Least(sent + BatchRows, All)) /\ sent' = sent + Len(batch')
           /\ UNCHANGED <<producer, wire, phase, scanned, table, sample, bytes, staged, stopping, dataset>>
  <2> DEFINE to == Least(sent + BatchRows, All)
  <2>1. to \in Nat /\ sent <= to /\ to <= All
    BY <1>2, <1>5, ImportAssumption DEF Least
  <2> HIDE DEF to
  <2>2. batch' = Numbers(sent + 1, to)
    BY <1>5 DEF to
  <2>3. sent' = to
    <3>1. Len(Numbers(sent + 1, to)) = to - sent
      BY <1>2, <2>1, NumbersAfter
    <3> QED
      BY <1>2, <1>5, <2>1, <2>2, <3>1
  <2> QED
    BY <1>1, <1>2, <1>5, <2>1, <2>2, <2>3, NextKeeps
<1> QED
  BY <1>3, <1>4, <1>5 DEF ReadBatch

-----------------------------------------------------------------------------
(* The import ends well: what it says of its rows is so.                   *)
ItemsOf(s, n) == {s[k] : k \in 1 .. n}
Distinct(s, n) == \A j, k \in 1 .. n : s[j] = s[k] => j = k

LEMMA CardinalityOfPlaces ==
  ASSUME NEW n \in Nat, NEW s, Distinct(s, n)
  PROVE  Cardinality(ItemsOf(s, n)) = n
<1> DEFINE R == {s[k] : k \in 1 .. n}
           f == [k \in 1 .. n |-> s[k]]
<1>1. f \in Bijection(1 .. n, R)
  <2>1. f \in [1 .. n -> R]
    OBVIOUS
  <2>2. \A t \in R : \E k \in 1 .. n : f[k] = t
    OBVIOUS
  <2>3. \A j, k \in 1 .. n : f[j] = f[k] => j = k
    BY DEF Distinct
  <2> HIDE DEF R, f
  <2> QED
    BY <2>1, <2>2, <2>3 DEF Bijection, Injection, Surjection, IsInjective
<1>2. IsFiniteSet(1 .. n) /\ Cardinality(1 .. n) = n
  BY FS_Interval
<1> HIDE DEF R, f
<1>3. Cardinality(R) = n
  BY <1>1, FS_CountingElements DEF ExistsBijection
<1> QED
  BY <1>3 DEF R, ItemsOf

(* What is published is something.                                         *)
LEMMA PublishedIsSome ==
  ASSUME NEW rows \in Seq(Nat), NEW coverage \in {"complete", "truncated", "sampled"}, NEW total \in Nat \cup {None}
  PROVE  [rows |-> rows, coverage |-> coverage, total |-> total] # None
<1>1. [rows |-> rows, coverage |-> coverage, total |-> total] \in
        [rows : Seq(Nat), coverage : {"complete", "truncated", "sampled"}, total : Nat \cup {None}]
  OBVIOUS
<1> QED
  BY <1>1, ImportAssumption

(* What is published has the rows that were wanted.                        *)
LEMMA CommitKeeps ==
  ASSUME ImportInv, Commit
  PROVE  ImportInv'
<1> DEFINE want == IF selection.of = "full" THEN shown ELSE Least(selection.rows, shown)
<1>1. SameRequest /\ ImportTypeOK /\ RowsInOrder /\ HoldsWhatItSaw /\ SampleFits /\ StagedForItself
  BY DEF SameRequest, ImportInv, Commit, request
<1>2. /\ phase = "finishing" /\ table' = table \o sample
      /\ dataset' = [rows |-> table', coverage |-> Coverage, total |-> Total]
      /\ phase' = IF kind \in Staging THEN "removing" ELSE "done"
      /\ UNCHANGED <<sent, producer, wire, batch, scanned, sample, bytes, staged, stopping>>
  BY DEF Commit
<1>3. /\ Len(source) \in Nat /\ Wanted \in 0 .. Len(source) /\ Wanted <= shown /\ shown \in Nat /\ shown <= Len(source)
      /\ selection.rows \in Nat /\ selection.of \in {"full", "first", "sample"} /\ scanned \in Nat
  BY <1>1, WantedIs DEF ImportTypeOK
<1>4. Rows' = Rows /\ Wanted' = Wanted /\ More' = More
  BY <1>1, RequestStays
<1>5. ImportTypeOK'
  <2>1. table' \in Seq(Rows)
    <3>1. table \in Seq(Rows) /\ sample \in Seq(Rows)
      BY <1>1 DEF ImportTypeOK
    <3> QED
      BY <1>2, <3>1
  <2> QED
    BY <1>1, <1>2, <1>4, <2>1 DEF ImportTypeOK, SameRequest, Phases
<1>6. RowsInOrder'
  BY <1>1, <1>2, <1>4 DEF RowsInOrder, SameRequest
<1>6a. table' \in Seq(Nat) /\ Coverage \in {"complete", "truncated", "sampled"} /\ Total \in Nat \cup {None}
  <2>1. table' \in Seq(Rows)
    BY <1>4, <1>5 DEF ImportTypeOK
  <2>2. Rows \subseteq Nat
    BY DEF Rows
  <2>3. table' \in Seq(Nat)
    BY <2>1, <2>2, LargerItems
  <2> QED
    BY <1>3, <2>3 DEF Coverage, Total
<1>6b. dataset' # None
  BY <1>2, <1>6a, PublishedIsSome
<1>7. StagedForItself' /\ NothingLeft' /\ HoldsWhatItSaw'
  <2>1. StagedForItself' /\ NothingLeft'
    BY <1>1, <1>2, <1>6b DEF StagedForItself, NothingLeft, SameRequest
  <2>2. HoldsWhatItSaw'
    BY <1>1, <1>2, <1>6b DEF HoldsWhatItSaw, SameRequest, Staging
  <2> QED
    BY <2>1, <2>2
<1>8. SampleFits'
  BY <1>1, <1>2, FitsStays
<1>9. \/ scanned = Wanted \/ (selection.of = "first" /\ Len(table) = selection.rows)
  BY <1>1, <1>2 DEF RowsInOrder
<1>10. scanned <= Wanted
  BY <1>1 DEF RowsInOrder
<1>11. (selection.of # "first" => Wanted = shown) /\ (selection.of = "first" => Wanted = shown \/ Wanted = want)
  <2>1. kind # "grid" => shown = Len(source)
    BY <1>1 DEF RowsInOrder
  <2> QED
    BY <1>3, <2>1 DEF Wanted, All, Least
<1>12. want \in Nat /\ want <= shown
  BY <1>3 DEF Least
<1>13. /\ Len(table') = want /\ \A j, k \in 1 .. want : table'[j] = table'[k] => j = k
       /\ selection.of # "sample" => table' = Numbers(1, want)
  <2>1. CASE selection.of = "sample"
    <3>1. table = <<>> /\ sample \in Seq(Rows)
      BY <1>1, <1>2, <2>1 DEF HoldsWhatItSaw, ImportTypeOK
    <3>2. table' = sample
      BY <1>2, <3>1
    <3>3. Len(sample) = Least(selection.rows, scanned) /\ \A j, k \in DOMAIN sample : sample[j] = sample[k] => j = k
      BY <1>1, <1>2, <2>1 DEF HoldsWhatItSaw
    <3>4. Len(sample) = want /\ DOMAIN sample = 1 .. want
      BY <1>9, <1>11, <2>1, <3>1, <3>3
    <3> QED
      BY <2>1, <3>2, <3>3, <3>4
  <2>2. CASE selection.of # "sample"
    <3>1. table = Numbers(1, scanned) /\ sample = <<>> /\ table \in Seq(Rows)
      BY <1>1, <1>2, <2>2 DEF HoldsWhatItSaw, ImportTypeOK
    <3>2. table' = table
      BY <1>2, <3>1
    <3>3. Len(Numbers(1, scanned)) = scanned /\ \A k \in 1 .. scanned : Numbers(1, scanned)[k] = k
      <4>1. 0 \in Nat /\ 0 <= scanned /\ 0 + 1 = 1 /\ scanned - 0 = scanned
        BY <1>3
      <4>2. /\ Len(Numbers(0 + 1, scanned)) = scanned - 0
            /\ \A k \in 1 .. scanned - 0 : Numbers(0 + 1, scanned)[k] = 0 + k
        BY <1>3, <4>1, NumbersAfter
      <4>3. Len(Numbers(1, scanned)) = scanned /\ \A k \in 1 .. scanned : Numbers(1, scanned)[k] = 0 + k
        BY <4>1, <4>2, Zenon
      <4> QED
        BY <1>3, <4>3
    <3>4. scanned = want
      <4>1. selection.of = "first" => scanned <= selection.rows
        BY <1>1, <1>2 DEF HoldsWhatItSaw
      <4>2. selection.of = "first" /\ Len(table) = selection.rows => scanned = selection.rows
        BY <3>1, <3>3
      <4> QED
        BY <1>3, <1>9, <1>10, <1>11, <2>2, <4>1, <4>2 DEF Least
    <3> HIDE DEF want
    <3> QED
      BY <2>2, <3>1, <3>2, <3>3, <3>4
  <2> QED
    BY <2>1, <2>2
<1>14. SaysWhatItHas'
  <2> HIDE DEF want
  <2>1. Cardinality({table'[k] : k \in 1 .. want}) = want
    <3>1. want \in Nat /\ Distinct(table', want)
      BY <1>12, <1>13 DEF Distinct
    <3>2. Cardinality(ItemsOf(table', want)) = want
      BY <3>1, CardinalityOfPlaces
    <3> QED
      BY <3>2 DEF ItemsOf
  <2>2. dataset'.rows = table' /\ dataset'.coverage = Coverage /\ dataset'.total = Total
    BY <1>2
  <2>3. Coverage = "complete" => table' = Numbers(1, Len(source))
    <3>1. Coverage = "complete" => selection.of = "full" /\ shown = Len(source)
      BY <1>3 DEF Coverage, More
    <3> QED
      BY <1>13, <3>1 DEF want
  <2>4. Coverage = "truncated" => More
    BY DEF Coverage
  <2>5. Total \in {None, Len(source)}
    BY <1>1, <1>3, <1>9, <1>11 DEF Total, More, RowsInOrder
  <2>6. want' = want
    BY <1>1 DEF want, SameRequest, Least
  <2>7. \A n : Numbers(1, n)' = Numbers(1, n)
    BY DEF Numbers
  <2>8. /\ dataset'.coverage = "complete" => dataset'.rows = Numbers(1, Len(source))
        /\ dataset'.coverage = "truncated" => More'
        /\ Len(dataset'.rows) = want
        /\ selection.of # "sample" => dataset'.rows = Numbers(1, want)
        /\ Cardinality({dataset'.rows[k] : k \in 1 .. want}) = want
        /\ dataset'.total \in {None, Len(source)}
    BY <1>4, <1>13, <2>1, <2>2, <2>3, <2>4, <2>5
  <2> QED
    BY <1>1, <2>6, <2>8 DEF SaysWhatItHas, SameRequest, want, Numbers, Least
<1> QED
  BY <1>5, <1>6, <1>7, <1>8, <1>14 DEF ImportInv

-----------------------------------------------------------------------------
(* A row is looked at.                                                     *)
(* What there is to know of the row: it is the next one.                   *)
LEMMA NextRow ==
  ASSUME ImportInv, phase = "reading", batch # <<>>
  PROVE  /\ Len(batch) \in Nat \ {0} /\ scanned \in Nat /\ Len(source) \in Nat
         /\ Head(batch) = scanned + 1 /\ scanned + 1 \in Rows /\ scanned + 1 <= Wanted
         /\ Tail(batch) \in Seq(Rows) /\ Len(Tail(batch)) = Len(batch) - 1
         /\ Tail(batch) = Numbers(scanned + 1 + 1, scanned + Len(batch))
<1>1. ImportTypeOK /\ RowsInOrder
  BY DEF ImportInv
<1>2. batch \in Seq(Rows) /\ scanned \in Nat /\ Len(source) \in Nat
  BY <1>1 DEF ImportTypeOK
<1>3. /\ Len(batch) \in Nat \ {0} /\ Head(batch) \in Rows
      /\ Tail(batch) \in Seq(Rows) /\ Len(Tail(batch)) = Len(batch) - 1
  BY <1>2
<1>4. batch = Numbers(scanned + 1, scanned + Len(batch))
  BY <1>1 DEF RowsInOrder
<1>5. Head(batch) = scanned + 1 /\ Tail(batch) = Numbers(scanned + 1 + 1, scanned + Len(batch))
  <2> DEFINE to == scanned + Len(batch)
  <2>1. to \in Nat /\ scanned + 1 <= to /\ scanned + 1 \in Nat
    BY <1>2, <1>3
  <2>2. batch = Numbers(scanned + 1, to)
    BY <1>4
  <2> HIDE DEF to
  <2>3. Head(Numbers(scanned + 1, to)) = scanned + 1 /\ Tail(Numbers(scanned + 1, to)) = Numbers(scanned + 1 + 1, to)
    BY <2>1, NumbersShrink
  <2>4. Head(batch) = scanned + 1 /\ Tail(batch) = Numbers(scanned + 1 + 1, to)
    BY <2>2, <2>3
  <2> QED
    BY <2>4 DEF to
<1>6. scanned + 1 <= Wanted
  <2>1. kind = "stream" => Wanted = Len(source)
    BY <1>1, WantedIs
  <2>2. kind # "stream" => scanned + Len(batch) <= Wanted
    BY <1>1 DEF RowsInOrder
  <2>3. Wanted \in Nat
    BY <1>1, WantedIs
  <2> QED
    BY <1>2, <1>3, <1>5, <2>1, <2>2, <2>3 DEF Rows
<1> QED
  BY <1>2, <1>3, <1>5, <1>6

(* What the engine holds when n rows were looked at. *)
HasThese(n, t, s, b) ==
  IF selection.of # "sample"
    THEN s = <<>> /\ t = Numbers(1, n)
    ELSE /\ t = <<>> /\ b = Bytes(s) /\ Len(s) = Least(selection.rows, n)
         /\ \A k \in DOMAIN s : s[k] <= n
         /\ \A j, k \in DOMAIN s : s[j] = s[k] => j = k

(* A row is kept: it comes last.                                           *)
LEMMA RowKept ==
  ASSUME ImportInv, phase = "reading", scanned + 1 \in Rows,
         selection.of = "sample" => Len(sample) # selection.rows, Keeps(scanned + 1)
  PROVE  /\ table' \in Seq(Rows) /\ sample' \in Seq(Rows) /\ bytes' = bytes + source[scanned + 1]
         /\ HasThese(scanned + 1, table', sample', bytes')
<1> DEFINE i == scanned + 1
<1>1. ImportTypeOK /\ HoldsWhatItSaw /\ i \in Rows
  BY DEF ImportInv
<1>2. scanned \in Nat /\ table \in Seq(Rows) /\ sample \in Seq(Rows)
  BY <1>1 DEF ImportTypeOK
<1>3. bytes' = bytes + source[i]
  BY DEF Keeps
<1>4. CASE selection.of # "sample"
  <2>1. sample = <<>> /\ table = Numbers(1, scanned)
    BY <1>1, <1>4 DEF HoldsWhatItSaw
  <2>2. table' = Append(table, i) /\ sample' = <<>>
    BY <1>4, <2>1 DEF Keeps
  <2>3. Append(Numbers(1, scanned), scanned + 1) = Numbers(1, scanned + 1)
    <3>1. 1 \in Nat /\ 1 <= scanned + 1
      BY <1>2
    <3> QED
      BY <1>2, <3>1, NumbersGrow
  <2>4. Append(table, i) \in Seq(Rows)
    <3> HIDE DEF i
    <3> QED
      BY <1>1, <1>2
  <2> QED
    BY <1>3, <1>4, <2>1, <2>2, <2>3, <2>4 DEF HasThese
<1>5. CASE selection.of = "sample"
  <2>1. /\ table = <<>> /\ bytes = Bytes(sample) /\ Len(sample) = Least(selection.rows, scanned)
        /\ \A k \in DOMAIN sample : sample[k] <= scanned
        /\ \A j, k \in DOMAIN sample : sample[j] = sample[k] => j = k
    BY <1>1, <1>5 DEF HoldsWhatItSaw
  <2>2. sample' = Append(sample, i) /\ table' = <<>>
    BY <1>5, <2>1 DEF Keeps
  <2>3. /\ sample' \in Seq(Rows) /\ Len(sample') = Len(sample) + 1 /\ sample'[Len(sample) + 1] = i
        /\ DOMAIN sample = 1 .. Len(sample) /\ DOMAIN sample' = 1 .. Len(sample) + 1
        /\ \A k \in 1 .. Len(sample) : sample'[k] = sample[k] /\ sample[k] \in Rows
    <3> HIDE DEF i
    <3> QED
      BY <1>1, <1>2, <2>2
  <2>4. Len(sample) \in Nat
    BY <1>2
  <2>5. bytes' = Bytes(sample')
    <3>1. Bytes(Append(sample, i)) = Bytes(sample) + source[i]
      BY <1>1, <1>2, BytesAppend
    <3> QED
      BY <1>3, <2>1, <2>2, <3>1
  <2>6. Len(sample') = Least(selection.rows, scanned + 1)
    <3>1. selection.rows \in Nat
      BY <1>1, WantedIs DEF ImportInv
    <3> QED
      BY <1>2, <1>5, <2>1, <2>3, <3>1 DEF Least
  <2>7. \A k \in DOMAIN sample' : sample'[k] <= scanned + 1
    BY <1>2, <2>1, <2>3, <2>4, SMTT(40) DEF Rows
  <2>8. ASSUME NEW j \in DOMAIN sample', NEW k \in DOMAIN sample', sample'[j] = sample'[k]
        PROVE  j = k
    <3>1. \A l \in 1 .. Len(sample) : sample[l] \in Nat
      BY <2>3 DEF Rows
    <3>2. \A l \in 1 .. Len(sample) : sample'[l] # i
      <4>1. \A l \in 1 .. Len(sample) : sample[l] <= scanned
        BY <2>1, <2>3
      <4> QED
        BY <1>2, <2>3, <3>1, <4>1
    <3>3. \A l \in 1 .. Len(sample) : l \in DOMAIN sample /\ sample'[l] = sample[l]
      BY <2>3
    <3>4. sample'[Len(sample) + 1] = i /\ j \in 1 .. Len(sample) + 1 /\ k \in 1 .. Len(sample) + 1
      BY <2>3
    <3> HIDE DEF i
    <3>5. (j \in 1 .. Len(sample) \/ j = Len(sample) + 1) /\ (k \in 1 .. Len(sample) \/ k = Len(sample) + 1)
      BY <2>4, <3>4
    <3> QED
      BY <2>1, <2>8, <3>2, <3>3, <3>4, <3>5
  <2>9. table' \in Seq(Rows)
    BY <2>2
  <2> HIDE DEF i
  <2> QED
    BY <1>3, <1>5, <2>2, <2>3, <2>5, <2>6, <2>7, <2>8, <2>9 DEF HasThese, i
<1> QED
  BY <1>4, <1>5

(* A row takes the place of another, whose bytes are given back.           *)
LEMMA RowReplaced ==
  ASSUME ImportInv, phase = "reading", scanned + 1 \in Rows,
         selection.of = "sample", Len(sample) = selection.rows,
         NEW at \in 1 .. selection.rows, Replaces(scanned + 1, at)
  PROVE  /\ table' \in Seq(Rows) /\ sample' \in Seq(Rows) /\ bytes' <= bytes + source[scanned + 1] /\ bytes' \in Nat
         /\ HasThese(scanned + 1, table', sample', bytes')
<1> DEFINE i == scanned + 1
<1>1. ImportTypeOK /\ HoldsWhatItSaw /\ i \in Rows
  BY DEF ImportInv
<1>2. scanned \in Nat /\ table \in Seq(Rows) /\ sample \in Seq(Rows) /\ bytes \in Nat
  BY <1>1 DEF ImportTypeOK
<1>3. /\ table = <<>> /\ bytes = Bytes(sample) /\ Len(sample) = Least(selection.rows, scanned)
      /\ \A k \in DOMAIN sample : sample[k] <= scanned
      /\ \A j, k \in DOMAIN sample : sample[j] = sample[k] => j = k
  BY <1>1 DEF HoldsWhatItSaw
<1>4. sample' = [sample EXCEPT ![at] = i] /\ bytes' = (bytes + source[i]) - source[sample[at]] /\ table' = <<>>
  BY <1>3 DEF Replaces
<1>5. at \in DOMAIN sample /\ DOMAIN sample = 1 .. Len(sample) /\ sample[at] \in Rows
  <2>1. DOMAIN sample = 1 .. Len(sample)
    BY <1>2
  <2> QED
    BY <1>2, <2>1
<1>6. source[i] \in Nat \ {0} /\ source[sample[at]] \in Nat \ {0}
  BY <1>1, <1>5, SizesAreNat
<1>7. bytes' = Bytes(sample')
  <2>1. Bytes([sample EXCEPT ![at] = i]) = (Bytes(sample) + source[i]) - source[sample[at]]
    BY <1>1, <1>2, <1>5, BytesReplaced
  <2> QED
    BY <1>3, <1>4, <2>1
<1>8. /\ sample' \in Seq(Rows) /\ Len(sample') = Len(sample) /\ DOMAIN sample' = DOMAIN sample
      /\ \A k \in DOMAIN sample : sample'[k] = IF k = at THEN i ELSE sample[k]
  <2> HIDE DEF i
  <2> QED
    BY <1>1, <1>2, <1>4, <1>5
<1>9. bytes' \in Nat
  <2>1. Bytes([sample EXCEPT ![at] = i]) \in Nat
    <3>1. [sample EXCEPT ![at] = i] \in Seq(Rows)
      BY <1>4, <1>8
    <3> QED
      BY <1>1, <3>1, BytesAreNat
  <2> QED
    BY <1>4, <1>7, <2>1
<1>10. Len(sample') = Least(selection.rows, scanned + 1)
  <2>1. selection.rows \in Nat
    BY <1>1, WantedIs DEF ImportInv
  <2> QED
    BY <1>2, <1>3, <1>8, <2>1 DEF Least
<1>11. \A k \in DOMAIN sample' : sample'[k] <= scanned + 1
  <2>1. \A k \in DOMAIN sample : sample[k] \in Nat
    BY <1>2 DEF Rows
  <2> QED
    BY <1>2, <1>3, <1>8, <2>1
<1>12. ASSUME NEW j \in DOMAIN sample', NEW k \in DOMAIN sample', sample'[j] = sample'[k]
       PROVE  j = k
  <2>1. \A l \in DOMAIN sample : sample[l] \in Nat /\ sample[l] # i
    BY <1>2, <1>3 DEF Rows
  <2> HIDE DEF i
  <2> QED
    BY <1>3, <1>8, <1>12, <2>1
<1> QED
  BY <1>2, <1>4, <1>6, <1>7, <1>8, <1>9, <1>10, <1>11, <1>12 DEF HasThese

(* What is passed over leaves the full reservoir as it is.                 *)
LEMMA RowPassed ==
  ASSUME ImportInv, phase = "reading", scanned + 1 \in Rows,
         selection.of = "sample", Len(sample) = selection.rows, UNCHANGED <<bytes, table, sample>>
  PROVE  HasThese(scanned + 1, table', sample', bytes')
<1>1. ImportTypeOK /\ RowsInOrder /\ HoldsWhatItSaw
  BY DEF ImportInv
<1>2. scanned \in Nat /\ selection.rows \in Nat /\ sample \in Seq(Rows)
  BY <1>1, WantedIs DEF ImportTypeOK
<1>3. /\ table = <<>> /\ bytes = Bytes(sample) /\ Len(sample) = Least(selection.rows, scanned)
      /\ \A k \in DOMAIN sample : sample[k] <= scanned
      /\ \A j, k \in DOMAIN sample : sample[j] = sample[k] => j = k
  BY <1>1 DEF HoldsWhatItSaw
<1>4. \A k \in DOMAIN sample : sample[k] \in Nat
  BY <1>2 DEF Rows
<1>5. Len(sample) = Least(selection.rows, scanned + 1)
  BY <1>2, <1>3 DEF Least
<1>6. \A k \in DOMAIN sample : sample[k] <= scanned + 1
  BY <1>2, <1>3, <1>4
<1> QED
  BY <1>3, <1>5, <1>6 DEF HasThese

(* What it holds after a row is kept, put in another's place or passed     *)
(* over; and when the sample would be overdrawn, it holds what it held.    *)
LEMMA RowLookedAt ==
  ASSUME ImportInv, TakeRow
  PROVE  /\ table' \in Seq(Rows) /\ sample' \in Seq(Rows) /\ bytes' \in Nat
         /\ selection.of # "sample" => sample' = <<>>
         /\ phase' \in {"reading", "finishing", "failing"}
         /\ phase' = "finishing" => Enough
         /\ phase' = "reading" => ~Enough
         /\ phase' # "failing" => HasThese(scanned', table', sample', bytes')
         /\ sample' # <<>> => bytes' = Bytes(sample') /\ (kind # "grid" => bytes' <= SampleBudget)
<1> DEFINE i == scanned + 1
<1>1. ImportTypeOK /\ RowsInOrder /\ HoldsWhatItSaw /\ SampleFits /\ phase = "reading" /\ batch # <<>> /\ scanned' = scanned + 1
  BY DEF ImportInv, TakeRow
<1>2. i \in Rows /\ Head(batch) = i /\ scanned \in Nat
  BY <1>1, NextRow
<1>3. PICK at \in IF selection.of = "sample" /\ Len(sample) = selection.rows THEN 1 .. scanned' ELSE {0} :
         /\ IF at > selection.rows \/ Overdrawn(i) THEN UNCHANGED <<bytes, table, sample>>
            ELSE IF at = 0 THEN Keeps(i) ELSE Replaces(i, at)
         /\ phase' = CASE (Overdrawn(i) /\ ~(at > selection.rows)) \/ OverBudget -> "failing"
                       [] Enough -> "finishing"
                       [] OTHER -> phase
  BY <1>2 DEF TakeRow
<1>4. selection.rows \in Nat /\ (selection.of # "full" => selection.rows # 0)
  BY <1>1, WantedIs
<1>5. at \in Nat /\ (at = 0 <=> ~(selection.of = "sample" /\ Len(sample) = selection.rows))
  BY <1>1, <1>2
<1>6. /\ phase' \in {"reading", "finishing", "failing"}
      /\ phase' = "finishing" => Enough
      /\ phase' = "reading" => ~Enough
      /\ phase' # "failing" => at > selection.rows \/ ~Overdrawn(i)
  BY <1>1, <1>3 DEF Overdrawn, OverBudget, Enough
<1>7. table \in Seq(Rows) /\ sample \in Seq(Rows) /\ bytes \in Nat /\ (selection.of # "sample" => sample = <<>>)
  BY <1>1 DEF ImportTypeOK, HoldsWhatItSaw
<1>8. source[i] \in Nat \ {0}
  BY <1>1, <1>2, SizesAreNat
<1>9. CASE at > selection.rows \/ Overdrawn(i)
  <2>1. UNCHANGED <<bytes, table, sample>>
    BY <1>3, <1>9
  <2>2. at > selection.rows => HasThese(scanned + 1, table', sample', bytes')
    BY <1>1, <1>2, <1>4, <1>5, <2>1, RowPassed
  <2>3. sample' # <<>> => bytes' = Bytes(sample') /\ (kind # "grid" => bytes' <= SampleBudget)
    BY <1>1, <2>1 DEF SampleFits
  <2> QED
    BY <1>1, <1>6, <1>7, <1>9, <2>1, <2>2, <2>3
<1>10. ASSUME ~(at > selection.rows \/ Overdrawn(i)), /\ table' \in Seq(Rows) /\ sample' \in Seq(Rows)
         /\ bytes' <= bytes + source[i] /\ bytes' \in Nat /\ HasThese(i, table', sample', bytes')
       PROVE  /\ selection.of # "sample" => sample' = <<>>
              /\ sample' # <<>> => bytes' = Bytes(sample') /\ (kind # "grid" => bytes' <= SampleBudget)
  <2>1. selection.of # "sample" => sample' = <<>>
    BY <1>10 DEF HasThese
  <2>2. selection.of = "sample" => bytes' = Bytes(sample')
    BY <1>10 DEF HasThese
  <2>3. selection.of = "sample" /\ kind # "grid" => bytes + source[i] <= SampleBudget
    BY <1>7, <1>8, <1>10, ImportAssumption DEF Overdrawn
  <2>4. SampleBudget \in Nat
    BY ImportAssumption
  <2> HIDE DEF i
  <2> QED
    BY <1>7, <1>8, <1>10, <2>1, <2>2, <2>3, <2>4
<1>11. CASE ~(at > selection.rows \/ Overdrawn(i)) /\ at = 0
  <2>1. Keeps(i)
    BY <1>3, <1>11
  <2>2. /\ table' \in Seq(Rows) /\ sample' \in Seq(Rows) /\ bytes' = bytes + source[i]
        /\ HasThese(i, table', sample', bytes')
    BY <1>1, <1>2, <1>5, <1>11, <2>1, RowKept
  <2>3. bytes' \in Nat /\ bytes' <= bytes + source[i]
    BY <1>7, <1>8, <2>2
  <2> QED
    BY <1>1, <1>6, <1>10, <1>11, <2>2, <2>3
<1>12. CASE ~(at > selection.rows \/ Overdrawn(i)) /\ at # 0
  <2>1. Replaces(i, at) /\ selection.of = "sample" /\ Len(sample) = selection.rows
    BY <1>3, <1>5, <1>12
  <2>2. at \in 1 .. selection.rows
    BY <1>4, <1>5, <1>12
  <2>3. /\ table' \in Seq(Rows) /\ sample' \in Seq(Rows) /\ bytes' <= bytes + source[i] /\ bytes' \in Nat
        /\ HasThese(i, table', sample', bytes')
    BY <1>1, <1>2, <2>1, <2>2, RowReplaced
  <2> QED
    BY <1>1, <1>6, <1>10, <1>12, <2>3
<1> QED
  BY <1>9, <1>11, <1>12

(* All of it together.                                                     *)
LEMMA TakeRowKeeps ==
  ASSUME ImportInv, TakeRow
  PROVE  ImportInv'
<1>1. /\ SameRequest /\ ImportTypeOK /\ RowsInOrder /\ HoldsWhatItSaw /\ StagedForItself
      /\ phase = "reading" /\ batch # <<>> /\ scanned' = scanned + 1
      /\ batch' = IF Enough THEN <<>> ELSE Tail(batch)
      /\ UNCHANGED <<sent, producer, wire, staged, stopping, dataset>>
  BY DEF SameRequest, ImportInv, TakeRow, request
<1>2. /\ Rows' = Rows /\ Wanted' = Wanted /\ (\A r : Bytes(r)' = Bytes(r))
      /\ \A a, b : Numbers(a, b)' = Numbers(a, b)
  BY <1>1, RequestStays DEF Numbers
<1>3. /\ Len(batch) \in Nat \ {0} /\ scanned \in Nat /\ Len(source) \in Nat
      /\ scanned + 1 \in Rows /\ scanned + 1 <= Wanted
      /\ Tail(batch) \in Seq(Rows) /\ Len(Tail(batch)) = Len(batch) - 1
      /\ Tail(batch) = Numbers(scanned + 1 + 1, scanned + Len(batch))
  BY <1>1, NextRow
<1>4. /\ table' \in Seq(Rows) /\ sample' \in Seq(Rows) /\ bytes' \in Nat
      /\ selection.of # "sample" => sample' = <<>>
      /\ phase' \in {"reading", "finishing", "failing"}
      /\ phase' = "finishing" => Enough
      /\ phase' = "reading" => ~Enough
      /\ phase' # "failing" => HasThese(scanned', table', sample', bytes')
      /\ sample' # <<>> => bytes' = Bytes(sample') /\ (kind # "grid" => bytes' <= SampleBudget)
  BY RowLookedAt
<1>5. ImportTypeOK'
  <2>1. batch' \in Seq(Rows)
    BY <1>1, <1>3
  <2>2. scanned' \in 0 .. Len(source)
    BY <1>1, <1>3 DEF Rows
  <2> QED
    BY <1>1, <1>2, <1>4, <2>1, <2>2 DEF ImportTypeOK, SameRequest, Phases
<1>6. RowsInOrder'
  <2>1. ASSUME phase' = "reading"
        PROVE  /\ (batch = Numbers(scanned + 1, scanned + Len(batch)))'
               /\ scanned' + Len(batch') = scanned + Len(batch)
    <3>1. batch' = Tail(batch) /\ Len(batch') = Len(batch) - 1
      BY <1>1, <1>3, <1>4, <2>1
    <3>2. scanned' + Len(batch') = scanned + Len(batch)
      <4>1. Len(batch) \in Nat /\ scanned \in Nat /\ scanned' = scanned + 1 /\ Len(batch') = Len(batch) - 1
        BY <1>1, <1>3, <3>1
      <4> QED
        BY <4>1
    <3>3. batch' = Numbers(scanned' + 1, scanned' + Len(batch'))
      BY <1>1, <1>3, <3>1, <3>2
    <3> QED
      BY <1>2, <3>2, <3>3
  <2>2. ASSUME phase' = "reading", kind = "stream"
        PROVE  WireInOrder'
    <3>1. WireInOrder
      BY <1>1, <2>2 DEF RowsInOrder
    <3>2. \A k : Reached(k)' = Reached(k)
      BY <1>1, <2>1, <2>2 DEF Reached, SameRequest
    <3> QED
      BY <1>1, <1>2, <3>1, <3>2 DEF WireInOrder, SameRequest
  <2>3. phase' = "reading" /\ kind # "stream" => sent' = scanned' + Len(batch')
    BY <1>1, <2>1 DEF RowsInOrder
  <2>4. phase' = "finishing" => selection'.of = "first" /\ Len(table') = selection'.rows
    BY <1>1, <1>4 DEF Enough, SameRequest
  <2>5. (scanned <= Wanted)'
    BY <1>1, <1>2, <1>3
  <2>6. phase' \notin {"joining", "staging"}
    BY <1>4
  <2>7. phase' = "reading" =>
         /\ batch' = Numbers(scanned' + 1, scanned' + Len(batch'))
         /\ IF kind' = "stream" THEN WireInOrder' ELSE sent' = scanned' + Len(batch')
    BY <1>1, <1>2, <2>1, <2>2, <2>3 DEF SameRequest
  <2>8. /\ kind' # "grid" => shown' = Len(source')
        /\ kind' # "stream" => producer' = "ended" /\ sent' <= Wanted'
        /\ producer' = "fresh" => sent' = 0 /\ wire' = <<>>
    BY <1>1, <1>2 DEF RowsInOrder, SameRequest
  <2> QED
    BY <1>2, <2>4, <2>5, <2>6, <2>7, <2>8 DEF RowsInOrder
<1>7. HoldsWhatItSaw'
  <2>1. dataset' = None
    BY <1>1 DEF HoldsWhatItSaw
  <2>2. ASSUME phase' \in {"joining", "staging", "reading", "finishing"}
        PROVE  HasThese(scanned', table', sample', bytes')
    BY <1>4, <2>2
  <2>3. ASSUME phase' \in {"joining", "staging", "reading", "finishing"}, selection.of = "first"
        PROVE  scanned' <= selection.rows /\ (scanned' = selection.rows => phase' = "finishing")
    <3>1. scanned <= selection.rows /\ scanned # selection.rows /\ selection.rows \in Nat
      BY <1>1, <2>3, WantedIs DEF HoldsWhatItSaw
    <3>2. table' = Numbers(1, scanned + 1)
      BY <1>1, <2>2, <2>3 DEF HasThese
    <3>3. Len(table') = scanned + 1
      <4>1. 1 \in Nat /\ scanned + 1 \in Nat /\ 1 <= (scanned + 1) + 1 /\ ((scanned + 1) + 1) - 1 = scanned + 1
        BY <1>3
      <4>2. Len(Numbers(1, scanned + 1)) = ((scanned + 1) + 1) - 1
        BY <4>1, NumbersAre
      <4> QED
        BY <3>2, <4>1, <4>2
    <3>4. scanned' = selection.rows => Enough
      BY <1>1, <2>3, <3>3 DEF Enough
    <3>5. phase' \in {"reading", "finishing"}
      BY <1>4, <2>3
    <3> QED
      BY <1>1, <1>3, <1>4, <3>1, <3>4, <3>5, SMTT(40)
  <2> QED
    BY <1>1, <1>2, <1>4, <2>1, <2>2, <2>3 DEF HoldsWhatItSaw, HasThese, SameRequest, Least
<1>8. SampleFits'
  BY <1>1, <1>2, <1>4 DEF SampleFits, SameRequest
<1>9. SaysWhatItHas'
  BY <1>1, SaysStays DEF ImportInv
<1>10. StagedForItself' /\ NothingLeft'
  BY <1>1, <1>4 DEF StagedForItself, NothingLeft, SameRequest
<1> QED
  BY <1>5, <1>6, <1>7, <1>8, <1>9, <1>10 DEF ImportInv

-----------------------------------------------------------------------------
(* The import.                                                             *)
LEMMA ImportStarts ==
  ASSUME ImportInit PROVE ImportInv
<1>1. Len(source) \in Nat /\ source \in Seq(RowSizes) /\ shown \in 0 .. Len(source)
  <2>1. PICK n \in 0 .. MaxRows : source \in [1 .. n -> RowSizes]
    BY DEF ImportInit
  <2>2. n \in Nat
    BY <2>1, ImportAssumption
  <2>3. source \in Seq(RowSizes) /\ Len(source) \in Nat
    BY <2>1, <2>2
  <2> QED
    BY <2>3 DEF ImportInit
<1>2. /\ phase \in {"joining", "staging", "reading"} /\ (phase = "reading" <=> kind \notin Staging)
  BY DEF Staging, Kinds, ImportInit
<1>3. ImportTypeOK
  <2>1. wire \in Seq([type : MessageTypes, rows : Seq(Rows)])
    BY DEF ImportInit
  <2>2. batch \in Seq(Rows) /\ table \in Seq(Rows) /\ sample \in Seq(Rows)
    BY DEF ImportInit
  <2>3. /\ kind \in Kinds /\ selection \in Selections /\ sent = 0 /\ scanned = 0
        /\ producer \in {"fresh", "ended"} /\ bytes = 0 /\ staged = {} /\ stopping = FALSE
    BY DEF ImportInit
  <2>4. sent \in 0 .. Len(source) /\ scanned \in 0 .. Len(source)
    BY <1>1, <2>3
  <2>5. /\ phase \in Phases /\ producer \in {"fresh", "open", "ended", "broken"}
        /\ bytes \in Nat /\ staged \subseteq {Joined, Parquet} /\ stopping \in BOOLEAN
    BY <1>2, <2>3 DEF Phases
  <2> QED
    BY <1>1, <2>1, <2>2, <2>3, <2>4, <2>5 DEF ImportTypeOK
<1>4. selection.rows \in Nat /\ (selection.of # "full" => selection.rows # 0) /\ selection.of \in {"full", "first", "sample"}
  <2>1. CASE selection = AllRows
    BY <2>1 DEF AllRows
  <2>2. CASE selection \in [of : {"first", "sample"}, rows : Targets]
    BY <2>2, ImportAssumption
  <2> QED
    BY <2>1, <2>2 DEF Selections, ImportInit
<1>5. Numbers(1, 0) = <<>>
  <2>1. Numbers(0 + 1, 0) = <<>>
    BY NumbersOfNone
  <2> QED
    BY <2>1
<1>6. RowsInOrder
  <2>1. Wanted \in Nat
    BY <1>1, <1>4 DEF Wanted, All, Least
  <2>2. batch = Numbers(scanned + 1, scanned + Len(batch)) /\ Len(batch) = 0
    BY <1>5 DEF ImportInit
  <2>3. kind = "stream" => WireInOrder
    BY DEF WireInOrder, Reached, ImportInit
  <2>4. kind # "grid" => shown = Len(source)
    BY DEF ImportInit
  <2>5. kind # "stream" => producer = "ended"
    BY DEF ImportInit
  <2> QED
    BY <1>2, <2>1, <2>2, <2>3, <2>4, <2>5 DEF RowsInOrder, ImportInit
<1>7. HoldsWhatItSaw
  BY <1>2, <1>3, <1>4, <1>5, BytesOfNone DEF HoldsWhatItSaw, Least, ImportInit
<1>8. StagedForItself /\ SaysWhatItHas /\ SampleFits /\ NothingLeft
  BY <1>2 DEF ImportInit, StagedForItself, SaysWhatItHas, SampleFits, NothingLeft
<1> QED
  BY <1>3, <1>6, <1>7, <1>8 DEF ImportInv

(* Nothing happens.                                                        *)
LEMMA ImportIdles ==
  ASSUME ImportInv, UNCHANGED importVars
  PROVE  ImportInv'
<1>1. /\ SameRequest /\ ImportTypeOK /\ RowsInOrder
      /\ UNCHANGED <<sent, producer, wire, phase, batch, scanned, table, sample, bytes, staged, stopping, dataset>>
  BY DEF SameRequest, importVars, request, ImportInv
<1>2. Rows' = Rows /\ Wanted' = Wanted
  BY <1>1, RequestStays
<1>3. ImportTypeOK'
  BY <1>1, <1>2 DEF ImportTypeOK, SameRequest
<1>4. WireInOrder => WireInOrder'
  BY <1>1 DEF WireInOrder, Reached, Numbers, SameRequest
<1>5. RowsInOrder'
  BY <1>1, <1>2, <1>4 DEF RowsInOrder, Numbers, SameRequest
<1> QED
  BY <1>1, <1>3, <1>5, BackendKeeps

(* Whatever the source, the sizes of its rows, the budgets and the         *)
(* selection, and wherever the stream breaks or a stop comes: the rows go  *)
(* into the table in order, none twice, and a stream that ends without its *)
(* completion publishes nothing; what a dataset says of its rows and of    *)
(* their number is so; a sample has as many different rows as were asked   *)
(* for, within its budget and with a true account of its bytes; and a      *)
(* failed import leaves neither rows nor files.                            *)
THEOREM ImportHolds == ImportSpec => []ImportInv
<1>1. ImportInit => ImportInv
  BY ImportStarts
<1>2. ImportInv /\ [ImportNext]_importVars => ImportInv'
  <2> SUFFICES ASSUME ImportInv, [ImportNext]_importVars
               PROVE  ImportInv'
    OBVIOUS
  <2>1. CASE Emit
    BY <2>1, EmitKeeps
  <2>2. CASE Completes
    BY <2>2, CompletesKeeps
  <2>3. CASE SourceFails
    BY <2>3, SourceFailsKeeps
  <2>4. CASE Break
    BY <2>4, BreakKeeps
  <2>5. CASE Join \/ JoinLoaded \/ Stage \/ RemoveStaged
    BY <2>5, StagingKeeps
  <2>6. CASE ReadMessage
    BY <2>6, ReadMessageKeeps
  <2>7. CASE ReadGrid
    BY <2>7, ReadGridKeeps
  <2>8. CASE ReadBatch
    BY <2>8, ReadBatchKeeps
  <2>9. CASE TakeRow
    BY <2>9, TakeRowKeeps
  <2>10. CASE Fail \/ Exceeded
    BY <2>10, FailKeeps
  <2>11. CASE Commit
    BY <2>11, CommitKeeps
  <2>12. CASE RequestStop
    BY <2>12, RequestStopKeeps
  <2>13. CASE UNCHANGED importVars
    BY <2>13, ImportIdles
  <2> QED
    BY <2>1, <2>2, <2>3, <2>4, <2>5, <2>6, <2>7, <2>8, <2>9, <2>10, <2>11, <2>12, <2>13 DEF ImportNext, Engine
<1> QED
  BY <1>1, <1>2, PTL DEF ImportSpec

-----------------------------------------------------------------------------
(* EngineQueries.  The readings of SqlReaders, as functions of the places  *)
(* of a text.                                                              *)
(* A reading is the steps of its reader, one for each piece.               *)
LEMMA RunIs ==
  ASSUME NEW r, NEW t, Len(t) \in Nat
  PROVE  /\ Sql!Run(r, t)[0] = Sql!Unread
         /\ \A k \in 1 .. Len(t) : Sql!Run(r, t)[k] = Sql!Read(r, Sql!Run(r, t)[k - 1], t[k])
<1> DEFINE n == Len(t)
           Is(f, m) == f = [k \in 0 .. m |-> IF k = 0 THEN Sql!Unread ELSE Sql!Read(r, f[k - 1], t[k])]
           S == {m \in Nat : \E f : Is(f, m)}
<1>1. 0 \in S
  <2> DEFINE f == [k \in 0 .. 0 |-> Sql!Unread]
  <2>1. f = [k \in 0 .. 0 |-> IF k = 0 THEN Sql!Unread ELSE Sql!Read(r, f[k - 1], t[k])]
    OBVIOUS
  <2> QED
    BY <2>1
<1>2. ASSUME NEW m \in Nat, m \in S PROVE m + 1 \in S
  <2>1. PICK f : Is(f, m)
    BY <1>2
  <2> DEFINE g == [k \in 0 .. m + 1 |-> IF k = m + 1 THEN Sql!Read(r, f[m], t[m + 1]) ELSE f[k]]
  <2>2. \A k \in 0 .. m : f[k] = IF k = 0 THEN Sql!Unread ELSE Sql!Read(r, f[k - 1], t[k])
    BY <2>1
  <2>3. \A k \in 0 .. m : g[k] = f[k] /\ k \in 0 .. m + 1
    OBVIOUS
  <2>4. g[m + 1] = Sql!Read(r, g[m], t[m + 1])
    BY <2>3
  <2>5. ASSUME NEW k \in 0 .. m + 1
        PROVE  g[k] = IF k = 0 THEN Sql!Unread ELSE Sql!Read(r, g[k - 1], t[k])
    <3>1. CASE k = m + 1
      <4>1. k # 0 /\ k - 1 = m
        BY <3>1
      <4> HIDE DEF g
      <4> QED
        BY <2>4, <3>1, <4>1
    <3>2. CASE k # m + 1 /\ k # 0
      <4>1. k \in 0 .. m /\ k - 1 \in 0 .. m
        BY <3>2
      <4> HIDE DEF g
      <4> QED
        BY <2>2, <2>3, <3>2, <4>1
    <3>3. CASE k = 0
      BY <2>2, <2>3, <3>3
    <3> QED
      BY <3>1, <3>2, <3>3
  <2>6. Is(g, m + 1)
    <3> DEFINE h == [k \in 0 .. m + 1 |-> IF k = 0 THEN Sql!Unread ELSE Sql!Read(r, g[k - 1], t[k])]
    <3>1. \A k \in 0 .. m + 1 : g[k] = h[k]
      BY <2>5
    <3> QED
      BY <3>1
  <2> HIDE DEF g
  <2> QED
    BY <2>6
<1>3. n \in S
  <2> HIDE DEF S
  <2> QED
    BY <1>1, <1>2, Induct
<1> DEFINE g == CHOOSE f : Is(f, n)
<1>4. Is(g, n)
  BY <1>3
<1>5. Sql!Run(r, t) = g
  BY DEF Sql!Run
<1>6. \A k \in 0 .. n : g[k] = IF k = 0 THEN Sql!Unread ELSE Sql!Read(r, g[k - 1], t[k])
  <2> HIDE DEF g
  <2> QED
    BY <1>4
<1> HIDE DEF g
<1> QED
  BY <1>5, <1>6

(* Two readers whose every step agrees read the same.                      *)
LEMMA RunsAgree ==
  ASSUME NEW r, NEW q, NEW t, Len(t) \in Nat,
         \A k \in 1 .. Len(t) : Sql!Read(q, Sql!Run(r, t)[k - 1], t[k]) = Sql!Read(r, Sql!Run(r, t)[k - 1], t[k])
  PROVE  \A k \in 0 .. Len(t) : Sql!Run(q, t)[k] = Sql!Run(r, t)[k]
<1> DEFINE S == {k \in Nat : k <= Len(t) => Sql!Run(q, t)[k] = Sql!Run(r, t)[k]}
<1>1. 0 \in S
  BY RunIs
<1>2. ASSUME NEW k \in Nat, k \in S PROVE k + 1 \in S
  <2> SUFFICES ASSUME k + 1 <= Len(t) PROVE Sql!Run(q, t)[k + 1] = Sql!Run(r, t)[k + 1]
    OBVIOUS
  <2>1. k + 1 \in 1 .. Len(t) /\ (k + 1) - 1 = k /\ Sql!Run(q, t)[k] = Sql!Run(r, t)[k]
    BY <1>2
  <2> QED
    BY <2>1, RunIs
<1>3. Nat \subseteq S
  <2> HIDE DEF S
  <2> QED
    BY <1>1, <1>2, Induct
<1> QED
  BY <1>3

(* What was read so far is the reading of that much of the text.           *)
LEMMA RunOfPrefix ==
  ASSUME NEW r, NEW X, NEW t \in Seq(X), NEW m \in 0 .. Len(t)
  PROVE  Sql!Reading(r, SubSeq(t, 1, m)) = Sql!Run(r, t)[m]
<1> DEFINE u == SubSeq(t, 1, m)
           S == {k \in Nat : k <= m => Sql!Run(r, u)[k] = Sql!Run(r, t)[k]}
<1>0. Len(t) \in Nat /\ Len(u) = m /\ m \in Nat /\ \A k \in 1 .. m : u[k] = t[k] /\ k \in 1 .. Len(t)
  OBVIOUS
<1> HIDE DEF u
<1>1. 0 \in S
  BY <1>0, RunIs
<1>2. ASSUME NEW k \in Nat, k \in S PROVE k + 1 \in S
  <2> SUFFICES ASSUME k + 1 <= m PROVE Sql!Run(r, u)[k + 1] = Sql!Run(r, t)[k + 1]
    OBVIOUS
  <2>1. k + 1 \in 1 .. m /\ (k + 1) - 1 = k /\ Sql!Run(r, u)[k] = Sql!Run(r, t)[k]
    BY <1>2
  <2>2. Sql!Run(r, u)[k + 1] = Sql!Read(r, Sql!Run(r, u)[k], u[k + 1])
    BY <1>0, <2>1, RunIs, SMTT(40)
  <2>3. Sql!Run(r, t)[k + 1] = Sql!Read(r, Sql!Run(r, t)[k], t[k + 1])
    BY <1>0, <2>1, RunIs
  <2> QED
    BY <1>0, <2>1, <2>2, <2>3
<1>3. m \in S
  <2> HIDE DEF S
  <2> QED
    BY <1>0, <1>1, <1>2, Induct
<1> QED
  BY <1>0, <1>3 DEF u, Sql!Reading

(* A step of two readers that know the same of what they meet.             *)
LEMMA ReadSame ==
  ASSUME NEW r, NEW q, NEW s, NEW p,
         p \in q.lines <=> p \in r.lines, p \in q.opens <=> p \in r.opens,
         p = "open" /\ s.mode = "block" => (q.nests <=> r.nests),
         p = "backslash" /\ s.mode \notin {"code", "line", "block"} => (s.mode \in q.escapes <=> s.mode \in r.escapes)
  PROVE  Sql!Read(q, s, p) = Sql!Read(r, s, p)
<1>1. CASE s.mode = "code"
  BY <1>1 DEF Sql!Read
<1>2. CASE s.mode = "line"
  BY <1>2 DEF Sql!Read
<1>3. CASE s.mode = "block"
  BY <1>3 DEF Sql!Read
<1>4. CASE s.mode \notin {"code", "line", "block"}
  BY <1>4 DEF Sql!Read
<1> QED
  BY <1>1, <1>2, <1>3, <1>4
(* What a reader knows after k pieces: where it stands, that all its code   *)
(* is solid, and that it was in code where its last solid piece ended.     *)
Standing(r, t, k) ==
  LET s == Sql!Run(r, t)[k]
  IN /\ s.at = k /\ s.solid \in 0 .. k /\ s.code \subseteq 1 .. s.solid
     /\ s.mode \in {"code", "line", "block"} => Sql!Run(r, t)[s.solid].mode = "code"
     /\ \A j \in s.code : Sql!Run(r, t)[j - 1].mode = "code"

LEMMA StandingHolds ==
  ASSUME NEW r, NEW t, Len(t) \in Nat, r.opens \cap {"code", "line", "block"} = {}
  PROVE  \A k \in 0 .. Len(t) : Standing(r, t, k)
<1> DEFINE n == Len(t)
           run == Sql!Run(r, t)
           S == {k \in Nat : k <= n => Standing(r, t, k)}
<1>1. 0 \in S
  <2>1. run[0] = Sql!Unread
    BY RunIs
  <2> HIDE DEF run
  <2> QED
    BY <2>1 DEF Standing, Sql!Unread, run
<1>2. ASSUME NEW k \in Nat, k \in S PROVE k + 1 \in S
  <2> SUFFICES ASSUME k + 1 <= n PROVE Standing(r, t, k + 1)
    OBVIOUS
  <2>1. Standing(r, t, k)
    BY <1>2
  <2>2. run[k + 1] = Sql!Read(r, run[k], t[k + 1])
    <3>1. k + 1 \in 1 .. n /\ (k + 1) - 1 = k
      BY <1>2
    <3> QED
      BY <3>1, RunIs
  <2> DEFINE s == run[k]
             e == run[k + 1]
  <2>3. /\ s.at = k /\ s.solid \in 0 .. k /\ s.code \subseteq 1 .. s.solid
        /\ s.mode \in {"code", "line", "block"} => run[s.solid].mode = "code"
        /\ \A j \in s.code : run[j - 1].mode = "code"
    BY <2>1 DEF Standing
  <2> SUFFICES /\ e.at = k + 1 /\ e.solid \in 0 .. k + 1 /\ e.code \subseteq 1 .. e.solid
               /\ e.mode \in {"code", "line", "block"} => run[e.solid].mode = "code"
               /\ \A j \in e.code : run[j - 1].mode = "code"
    BY DEF Standing
  <2>4. /\ e.at = k + 1
        /\ \/ e.solid = s.solid /\ e.code = s.code
              /\ (e.mode \in {"code", "line", "block"} => s.mode \in {"code", "line", "block"})
           \/ e.solid = k + 1 /\ e.code = s.code /\ e.mode = "code"
           \/ e.solid = k + 1 /\ e.code = s.code \cup {k + 1} /\ s.mode = "code"
              /\ (e.mode \in {"code", "line", "block"} => e.mode = "code")
    <3> HIDE DEF run
    <3>1. CASE s.mode = "code"
      BY <2>2, <2>3, <3>1 DEF Sql!Read
    <3>2. CASE s.mode = "line"
      BY <2>2, <2>3, <3>2 DEF Sql!Read
    <3>3. CASE s.mode = "block"
      BY <2>2, <2>3, <3>3 DEF Sql!Read
    <3>4. CASE s.mode \notin {"code", "line", "block"}
      BY <2>2, <2>3, <3>4 DEF Sql!Read
    <3> QED
      BY <3>1, <3>2, <3>3, <3>4
  <2>5. e.solid \in 0 .. k + 1 /\ e.code \subseteq 1 .. e.solid
    <3> HIDE DEF run
    <3> QED
      BY <2>3, <2>4
  <2>6. e.mode \in {"code", "line", "block"} => run[e.solid].mode = "code"
    <3> HIDE DEF run
    <3> QED
      BY <2>3, <2>4
  <2>7. \A j \in e.code : run[j - 1].mode = "code"
    <3>1. (k + 1) - 1 = k
      OBVIOUS
    <3> HIDE DEF run
    <3> QED
      BY <2>3, <2>4, <3>1
  <2> QED
    BY <2>4, <2>5, <2>6, <2>7
<1>3. Nat \subseteq S
  <2> HIDE DEF S
  <2> QED
    BY <1>1, <1>2, Induct
<1> QED
  BY <1>3

-----------------------------------------------------------------------------
(* EngineQueries: its two readers differ at a comment in a comment, and in *)
(* quotes and escapes that no text here has.                               *)
Piece == {"SELECT", "WITH", "DELETE", ";", "dashes", "nl", "open", "close", "quote", "uri", "foreign", "query",
          Quoted("query"), Quoted("DELETE")}

LEMMA FamiliesArePieces == \A p \in UNION Families : p \in Piece
BY DEF Families, Piece

LEMMA PiecesArePlain == "backslash" \notin Piece /\ "dquote" \notin Piece /\ "equote" \notin Piece /\ "dollars" \notin Piece
BY DEF Piece, Quoted

(* A comment that is read was opened. *)
LEMMA BlockWasOpened ==
  ASSUME NEW r, NEW t \in Seq(Piece), "block" \notin r.opens
  PROVE  \A k \in 0 .. Len(t) : Sql!Run(r, t)[k].mode = "block" => \E i \in 1 .. k : t[i] = "open"
<1> DEFINE n == Len(t)
           run == Sql!Run(r, t)
           S == {k \in Nat : k <= n => (run[k].mode = "block" => \E i \in 1 .. k : t[i] = "open")}
<1>1. 0 \in S
  <2>1. run[0] = Sql!Unread
    BY RunIs
  <2> HIDE DEF run
  <2> QED
    BY <2>1 DEF Sql!Unread
<1>2. ASSUME NEW k \in Nat, k \in S PROVE k + 1 \in S
  <2> SUFFICES ASSUME k + 1 <= n, run[k + 1].mode = "block" PROVE \E i \in 1 .. k + 1 : t[i] = "open"
    OBVIOUS
  <2>1. k + 1 \in 1 .. n /\ (k + 1) - 1 = k
    BY <1>2
  <2>2. run[k + 1] = Sql!Read(r, run[k], t[k + 1])
    BY <2>1, RunIs
  <2>3. run[k].mode = "block" \/ t[k + 1] = "open"
    <3> HIDE DEF run
    <3>1. CASE run[k].mode = "code"
      BY <2>2, <3>1 DEF Sql!Read
    <3>2. CASE run[k].mode = "line"
      BY <2>2, <3>2 DEF Sql!Read
    <3>3. CASE run[k].mode \notin {"code", "line", "block"}
      BY <2>2, <3>3 DEF Sql!Read
    <3> QED
      BY <3>1, <3>2, <3>3
  <2>4. CASE run[k].mode = "block"
    <3>1. PICK i \in 1 .. k : t[i] = "open"
      BY <1>2, <2>1, <2>4
    <3> QED
      BY <3>1
  <2>5. CASE t[k + 1] = "open"
    BY <2>1, <2>5
  <2> QED
    BY <2>3, <2>4, <2>5
<1>3. Nat \subseteq S
  <2> HIDE DEF S
  <2> QED
    BY <1>1, <1>2, Induct
<1> QED
  BY <1>3

LEMMA EnginesReadAlike ==
  ASSUME NEW t \in Seq(Piece), ~Nested(t)
  PROVE  \A k \in 0 .. Len(t) : Sql!Run(EngineReader, t)[k] = Sql!Run(DuckReader, t)[k]
<1>1. ASSUME NEW k \in 1 .. Len(t)
      PROVE  LET s == Sql!Run(DuckReader, t)[k - 1]
             IN  Sql!Read(EngineReader, s, t[k]) = Sql!Read(DuckReader, s, t[k])
  <2> DEFINE s == Sql!Run(DuckReader, t)[k - 1]
  <2>1. t[k] \in Piece /\ k - 1 \in 0 .. Len(t)
    OBVIOUS
  <2>2. /\ t[k] \in EngineReader.lines <=> t[k] \in DuckReader.lines
        /\ t[k] \in EngineReader.opens <=> t[k] \in DuckReader.opens
        /\ t[k] # "backslash"
    BY <2>1, PiecesArePlain DEF EngineReader, DuckReader, Sql!Reader
  <2>3. t[k] = "open" => s.mode # "block"
    <3> SUFFICES ASSUME t[k] = "open", s.mode = "block" PROVE FALSE
      OBVIOUS
    <3>1. "block" \notin DuckReader.opens
      BY DEF DuckReader, Sql!Reader
    <3>2. PICK i \in 1 .. k - 1 : t[i] = "open"
      BY <2>1, <3>1, BlockWasOpened
    <3> QED
      BY <3>2 DEF Nested
  <2> HIDE DEF s
  <2> QED
    BY <2>2, <2>3, ReadSame DEF s
<1> QED
  BY <1>1, RunsAgree

(* What validate_read_only_sql takes for code is DuckDB's, if it ends there. *)
LEMMA EnginesKnowTheCode ==
  ASSUME NEW t \in Seq(Piece), ~Nested(t)
  PROVE  Code(t) = IF Sql!Reading(DuckReader, t).mode \in {"code", "line"} THEN DuckCode(t) ELSE {}
<1>1. Sql!Reading(EngineReader, t) = Sql!Reading(DuckReader, t)
  BY EnginesReadAlike DEF Sql!Reading
<1>2. EngineReader.strict /\ ~DuckReader.strict
  BY DEF EngineReader, DuckReader, Sql!Reader
<1> QED
  BY <1>1, <1>2 DEF Code, DuckCode, Sql!Code

LEMMA OneReadIsKnown ==
  ASSUME NEW t \in Seq(Piece), ~Nested(t)
  PROVE  ValidateReadOnlySql(t) <=> IsOneRead(t)
<1>1. CASE Sql!Reading(DuckReader, t).mode \in {"code", "line"}
  <2>1. Code(t) = DuckCode(t) /\ Words(t) = DuckWords(t)
    BY <1>1, EnginesKnowTheCode DEF Words, DuckWords
  <2> QED
    BY <1>1, <2>1 DEF ValidateReadOnlySql, IsOneRead
<1>2. CASE Sql!Reading(DuckReader, t).mode \notin {"code", "line"}
  <2>1. Code(t) = {}
    BY <1>2, EnginesKnowTheCode
  <2> QED
    BY <1>2, <2>1 DEF ValidateReadOnlySql, IsOneRead
<1> QED
  BY <1>1, <1>2

(* What is cut off a text is at its end.                                   *)
LEMMA TrimmedIsPrefix ==
  ASSUME NEW t \in Seq(Piece)
  PROVE  Trimmed(t) \in Seq(Piece) /\ (Nested(Trimmed(t)) => Nested(t))
<1>1. ASSUME NEW u \in Seq(Piece), NEW p
      PROVE  Without(u, p) \in Seq(Piece) /\ (Nested(Without(u, p)) => Nested(u))
  <2>1. CASE u = <<>> \/ Without(u, p) = u
    BY <2>1 DEF Without, EndsIn
  <2>2. CASE u # <<>> /\ Without(u, p) = Front(u)
    <3>1. Len(u) - 1 \in 0 .. Len(u)
      BY <2>2
    <3>2. /\ Front(u) \in Seq(Piece) /\ Len(Front(u)) = Len(u) - 1
          /\ \A i \in 1 .. Len(u) - 1 : Front(u)[i] = u[i] /\ i \in DOMAIN u
      <4>1. \A m \in 0 .. Len(u) : /\ SubSeq(u, 1, m) \in Seq(Piece) /\ Len(SubSeq(u, 1, m)) = m
                                  /\ \A i \in 1 .. m : SubSeq(u, 1, m)[i] = u[i] /\ i \in DOMAIN u
        OBVIOUS
      <4> QED
        BY <3>1, <4>1, Zenon DEF Front
    <3> HIDE DEF Front
    <3>3. DOMAIN Front(u) = 1 .. Len(u) - 1
      BY <3>2
    <3> QED
      BY <2>2, <3>2, <3>3 DEF Nested
  <2> QED
    BY <2>1, <2>2 DEF Without
<1> DEFINE a == Without(t, "nl")
           b == Without(a, ";")
<1>2. a \in Seq(Piece) /\ (Nested(a) => Nested(t))
  BY <1>1
<1>3. b \in Seq(Piece) /\ (Nested(b) => Nested(a))
  BY <1>1, <1>2
<1> QED
  BY <1>1, <1>2, <1>3 DEF Trimmed

(* Reading a statement inside the SELECT that bounds it is reading it, two *)
(* places further.                                                         *)
Shifted(e, s) ==
  /\ e.mode = s.mode /\ e.depth = s.depth /\ e.escaped = s.escaped /\ e.at = s.at + 2
  /\ e.code = {1, 2} \cup {i + 2 : i \in s.code}

LEMMA ReadShifted ==
  ASSUME NEW r, NEW e, NEW s, NEW p, Shifted(e, s), s.at \in Nat
  PROVE  Shifted(Sql!Read(r, e, p), Sql!Read(r, s, p))
<1>1. (s.at + 1) + 2 = (s.at + 2) + 1
  OBVIOUS
<1>2. {i + 2 : i \in s.code \cup {s.at + 1}} = {i + 2 : i \in s.code} \cup {(s.at + 2) + 1}
  BY <1>1
<1>3. CASE s.mode = "code"
  BY <1>1, <1>2, <1>3 DEF Shifted, Sql!Read
<1>4. CASE s.mode = "line"
  BY <1>1, <1>4 DEF Shifted, Sql!Read
<1>5. CASE s.mode = "block"
  BY <1>1, <1>5 DEF Shifted, Sql!Read
<1>6. CASE s.mode \notin {"code", "line", "block"}
  BY <1>1, <1>6 DEF Shifted, Sql!Read
<1> QED
  BY <1>3, <1>4, <1>5, <1>6

LEMMA WrappedRun ==
  ASSUME NEW t \in Seq(Piece)
  PROVE  \A k \in 0 .. Len(t) : Shifted(Sql!Run(DuckReader, Wrapped(t))[k + 2], Sql!Run(DuckReader, t)[k])
<1> DEFINE n == Len(t)
           w == Wrapped(t)
           run == Sql!Run(DuckReader, t)
           outer == Sql!Run(DuckReader, w)
           S == {k \in Nat : k <= n => Shifted(outer[k + 2], run[k])}
<1>1. n \in Nat /\ Len(w) = n + 3 /\ w[1] = "SELECT" /\ w[2] = "("
  BY DEF Wrapped
<1>2. \A k \in 1 .. n : w[k + 2] = t[k]
  BY DEF Wrapped
<1> HIDE DEF w
<1>3. 0 \in S
  <2>1. outer[0] = Sql!Unread /\ run[0] = Sql!Unread
    BY <1>1, RunIs
  <2>2. outer[1] = Sql!Read(DuckReader, outer[0], "SELECT") /\ outer[2] = Sql!Read(DuckReader, outer[1], "(")
    <3>1. 1 \in 1 .. Len(w) /\ 2 \in 1 .. Len(w) /\ 1 - 1 = 0 /\ 2 - 1 = 1
      BY <1>1
    <3> HIDE DEF outer
    <3>2. \A k \in 1 .. Len(w) : outer[k] = Sql!Read(DuckReader, outer[k - 1], w[k])
      BY <1>1, RunIs DEF outer
    <3> QED
      BY <1>1, <3>1, <3>2
  <2> HIDE DEF outer, run
  <2>3. \A s : s.mode = "code" /\ s.at \in Nat =>
          \A p \in {"SELECT", "("} :
            LET e == Sql!Read(DuckReader, s, p)
            IN  /\ e.mode = "code" /\ e.depth = 0 /\ e.escaped = FALSE
                /\ e.at = s.at + 1 /\ e.code = s.code \cup {s.at + 1}
    BY DEF Sql!Read, DuckReader, Sql!Reader
  <2>4. /\ run[0].mode = "code" /\ run[0].depth = 0 /\ run[0].escaped = FALSE /\ run[0].at = 0 /\ run[0].code = {}
        /\ outer[0] = run[0]
    BY <2>1 DEF Sql!Unread
  <2>5. outer[1].mode = "code" /\ outer[1].at = 1 /\ outer[1].code = {1}
    BY <2>2, <2>3, <2>4
  <2>6. /\ outer[2].mode = "code" /\ outer[2].depth = 0 /\ outer[2].escaped = FALSE
        /\ outer[2].at = 2 /\ outer[2].code = {1, 2}
    BY <2>2, <2>3, <2>5
  <2>7. Shifted(outer[2], run[0]) /\ 0 + 2 = 2
    <3>1. {i + 2 : i \in run[0].code} = {}
      BY <2>4
    <3>2. {1, 2} \cup {i + 2 : i \in run[0].code} = {1, 2}
      BY <3>1
    <3>3. /\ outer[2].mode = run[0].mode /\ outer[2].depth = run[0].depth /\ outer[2].escaped = run[0].escaped
          /\ outer[2].at = run[0].at + 2 /\ outer[2].code = {1, 2} \cup {i + 2 : i \in run[0].code}
      <4>1. 0 + 2 = 2
        OBVIOUS
      <4>2. run[0].at + 2 = 2
        BY <2>4, <4>1, Zenon
      <4> QED
        BY <2>4, <2>6, <3>2, <4>2, Zenon
    <3>4. Shifted(outer[2], run[0])
      BY <3>3, Zenon DEF Shifted
    <3> QED
      BY <3>4
  <2> QED
    BY <2>7
<1>4. ASSUME NEW k \in Nat, k \in S PROVE k + 1 \in S
  <2> SUFFICES ASSUME k + 1 <= n PROVE Shifted(outer[(k + 1) + 2], run[k + 1])
    OBVIOUS
  <2>1. /\ k + 1 \in 1 .. n /\ (k + 1) - 1 = k /\ k \in 0 .. n
        /\ (k + 1) + 2 \in 1 .. Len(w) /\ ((k + 1) + 2) - 1 = k + 2
    BY <1>1, <1>4
  <2>2. Shifted(outer[k + 2], run[k])
    BY <1>4, <2>1
  <2>3. run[k + 1] = Sql!Read(DuckReader, run[k], t[k + 1])
    BY <2>1, RunIs
  <2>4. outer[(k + 1) + 2] = Sql!Read(DuckReader, outer[k + 2], t[k + 1])
    <3> HIDE DEF outer
    <3>1. \A j \in 1 .. Len(w) : outer[j] = Sql!Read(DuckReader, outer[j - 1], w[j])
      BY <1>1, RunIs DEF outer
    <3> QED
      BY <1>2, <2>1, <3>1
  <2>5. run[k].at \in Nat
    <3>1. DuckReader.opens \cap {"code", "line", "block"} = {}
      BY DEF DuckReader, Sql!Reader
    <3>2. Standing(DuckReader, t, k)
      BY <1>1, <2>1, <3>1, StandingHolds
    <3> QED
      BY <2>1, <3>2 DEF Standing
  <2> HIDE DEF outer, run
  <2> QED
    BY <2>2, <2>3, <2>4, <2>5, ReadShifted
<1>5. Nat \subseteq S
  <2> HIDE DEF S
  <2> QED
    BY <1>3, <1>4, Induct
<1> QED
  BY <1>5 DEF w

(* A statement that ends in code or in a line comment runs as it is.       *)
LEMMA WrappedIsRead ==
  ASSUME NEW t \in Seq(Piece), Sql!Reading(DuckReader, t).mode \in {"code", "line"}
  PROVE  /\ Prepares(t) <=> Sql!Reading(DuckReader, t).mode # "line"
         /\ {i + 2 : i \in DuckCode(t)} \cup {1, 2} \cup (IF Prepares(t) THEN {Len(t) + 3} ELSE {})
              = DuckCode(Wrapped(t))
<1> DEFINE n == Len(t)
           w == Wrapped(t)
           end == Sql!Run(DuckReader, t)[n]
           outer == Sql!Run(DuckReader, w)
<1>1. n \in Nat /\ Len(w) = n + 3 /\ w[n + 3] = ")"
  BY DEF Wrapped
<1>2. Shifted(outer[n + 2], end)
  BY <1>1, WrappedRun
<1>3. end.at = n /\ end.code \subseteq 1 .. n
  <2>1. DuckReader.opens \cap {"code", "line", "block"} = {}
    BY DEF DuckReader, Sql!Reader
  <2>2. Standing(DuckReader, t, n)
    BY <1>1, <2>1, StandingHolds
  <2> QED
    BY <1>1, <2>2 DEF Standing
<1>4. outer[n + 3] = Sql!Read(DuckReader, outer[n + 2], ")")
  <2> HIDE DEF w, outer
  <2>1. \A j \in 1 .. Len(w) : outer[j] = Sql!Read(DuckReader, outer[j - 1], w[j])
    BY <1>1, RunIs DEF outer
  <2>2. n + 3 \in 1 .. Len(w) /\ (n + 3) - 1 = n + 2
    BY <1>1
  <2> QED
    BY <1>1, <2>1, <2>2
<1>5. DuckCode(w) = outer[n + 3].code /\ DuckCode(t) = end.code
  <2>1. ~DuckReader.strict
    BY DEF DuckReader, Sql!Reader
  <2> HIDE DEF w
  <2> QED
    BY <1>1, <2>1 DEF DuckCode, Sql!Code, Sql!Reading
<1>6. end = Sql!Reading(DuckReader, t)
  BY DEF Sql!Reading
<1>7. Prepares(t) <=> n + 3 \in DuckCode(w)
  BY <1>1 DEF Prepares, DuckCode
<1> HIDE DEF outer, end, w
<1>8. CASE end.mode = "code"
  <2>1. outer[n + 3].code = outer[n + 2].code \cup {n + 3}
    BY <1>1, <1>2, <1>3, <1>4, <1>8 DEF Shifted, Sql!Read, DuckReader, Sql!Reader
  <2> QED
    BY <1>2, <1>5, <1>6, <1>7, <1>8, <2>1 DEF Shifted, w
<1>9. CASE end.mode = "line"
  <2>1. outer[n + 3].code = outer[n + 2].code
    BY <1>2, <1>4, <1>9 DEF Shifted, Sql!Read
  <2>2. n + 3 \notin outer[n + 2].code
    BY <1>1, <1>2, <1>3 DEF Shifted
  <2> QED
    BY <1>2, <1>5, <1>6, <1>7, <1>9, <2>1, <2>2 DEF Shifted, w
<1> QED
  BY <1>6, <1>8, <1>9

-----------------------------------------------------------------------------
(* A preview shows what fits.  There is a largest number of rows that does. *)
LEMMA LargestOfSome ==
  ASSUME NEW m \in Nat, NEW N \in SUBSET (0 .. m), N # {}
  PROVE  Max(N) \in N
<1> DEFINE S == {k \in Nat : \A K \in SUBSET (0 .. k) : K # {} => \E x \in K : \A y \in K : x >= y}
<1>1. 0 \in S
  <2> SUFFICES ASSUME NEW K \in SUBSET (0 .. 0), K # {} PROVE \E x \in K : \A y \in K : x >= y
    OBVIOUS
  <2>0. \A y \in 0 .. 0 : y = 0
    OBVIOUS
  <2>1. 0 \in K /\ \A y \in K : y = 0
    BY <2>0
  <2> QED
    BY <2>1
<1>2. ASSUME NEW k \in Nat, k \in S PROVE k + 1 \in S
  <2> SUFFICES ASSUME NEW K \in SUBSET (0 .. k + 1), K # {} PROVE \E x \in K : \A y \in K : x >= y
    OBVIOUS
  <2>1. CASE k + 1 \in K
    BY <2>1
  <2>2. CASE k + 1 \notin K
    <3>1. K \in SUBSET (0 .. k)
      BY <2>2
    <3> QED
      BY <1>2, <3>1
  <2> QED
    BY <2>1, <2>2
<1>3. m \in S
  <2> HIDE DEF S
  <2> QED
    BY <1>1, <1>2, Induct
<1>4. \E x \in N : \A y \in N : x >= y
  BY <1>3
<1> QED
  BY <1>4 DEF Max

LEMMA NothingHasNoSize ==
  ASSUME NEW rows \in Seq(Nat)
  PROVE  Size(rows, 0) = 0
<1> DEFINE n == Len(rows)
           next == [v \in Nat |-> [k \in 1 .. n |-> v + rows[k]]]
           Is(f) == f = [k \in 0 .. n |-> IF k = 0 THEN 0 ELSE f[k - 1] + rows[k]]
<1>0. n \in Nat /\ \A k \in 1 .. n : rows[k] \in Nat
  OBVIOUS
<1>1. next \in [Nat -> [1 .. n -> Nat]]
  BY <1>0
<1>2. PICK f \in [0 .. n -> Nat] : f[0] = 0 /\ \A k \in 1 .. n : f[k] = next[f[k - 1]][k]
  <2> HIDE DEF next, n
  <2>1. \E f \in [0 .. n -> Nat] : Follows(f, n, 0, next)
    BY <1>0, <1>1, Recursion
  <2> QED
    BY <2>1 DEF Follows
<1>3. Is(f)
  <2>1. \A k \in 1 .. n : next[f[k - 1]][k] = f[k - 1] + rows[k]
    <3> TAKE k \in 1 .. n
    <3>1. k - 1 \in 0 .. n
      BY <1>0
    <3>2. f[k - 1] \in Nat
      BY <3>1
    <3> QED
      BY <3>2
  <2>2. \A k \in 0 .. n : f[k] = IF k = 0 THEN 0 ELSE f[k - 1] + rows[k]
    <3> HIDE DEF next
    <3> TAKE k \in 0 .. n
    <3>1. k # 0 => k \in 1 .. n
      BY <1>0
    <3> QED
      BY <1>2, <2>1, <3>1
  <2> QED
    BY <2>2
<1> DEFINE g == CHOOSE h : Is(h)
<1>4. Is(g)
  BY <1>3
<1>5. Size(rows, 0) = g[0]
  BY DEF Size
<1> HIDE DEF g
<1>6. \A k \in 0 .. n : g[k] = IF k = 0 THEN 0 ELSE g[k - 1] + rows[k]
  BY <1>4
<1> QED
  BY <1>0, <1>5, <1>6

(* The rows shown are the first, and more is said when there are more.     *)
LEMMA PreviewShowsTheFirst ==
  ASSUME NEW rows \in Tables
  PROVE  LET shows == Preview(rows)
         IN  /\ shows.of = rows /\ IsPrefix(shows.rows, shows.of) /\ Len(shows.rows) <= Limit
             /\ shows.more <=> Len(shows.rows) < Len(shows.of)
<1> DEFINE most == Fetched(rows)
           n == Fitting(rows)
           N == {k \in 0 .. most : Size(rows, k) <= MaxBytes}
           least == Min({n, Limit})
<1>1. rows \in Seq(Nat) /\ Len(rows) \in Nat /\ Limit \in Nat /\ MaxBytes \in Nat
  BY QueriesAssumption
<1>2. most \in Nat /\ most = IF Limit + 1 <= Len(rows) THEN Limit + 1 ELSE Len(rows)
  <2>1. \A x, y \in Nat : Min({x, y}) = IF x <= y THEN x ELSE y
    BY DEF Min
  <2> QED
    BY <1>1, <2>1 DEF Fetched
<1>3. n \in N
  <2>1. 0 \in N
    BY <1>1, <1>2, NothingHasNoSize
  <2> HIDE DEF N
  <2>2. N \subseteq 0 .. most
    BY DEF N
  <2>3. Max(N) \in N
    BY <1>2, <2>1, <2>2, LargestOfSome
  <2> QED
    BY <2>3 DEF Fitting, N
<1>4. n \in 0 .. most
  BY <1>3
<1>5. least = IF n <= Limit THEN n ELSE Limit
  <2>1. \A x, y \in Nat : Min({x, y}) = IF x <= y THEN x ELSE y
    BY DEF Min
  <2>2. n \in Nat
    BY <1>4
  <2> QED
    BY <1>1, <2>1, <2>2
<1>6. /\ Preview(rows).rows = SubSeq(rows, 1, least) /\ Preview(rows).of = rows
      /\ Preview(rows).more <=> (n < most \/ n > Limit)
  BY DEF Preview
<1> HIDE DEF n, most, least
<1>7. least \in 0 .. Len(rows) /\ least <= Limit
  BY <1>1, <1>2, <1>4, <1>5
<1>8. Len(SubSeq(rows, 1, least)) = least /\ IsPrefix(SubSeq(rows, 1, least), rows)
  <2>1. \A m \in 0 .. Len(rows) : Len(SubSeq(rows, 1, m)) = m /\ SubSeq(SubSeq(rows, 1, m), 1, m) = SubSeq(rows, 1, m)
    BY <1>1
  <2> QED
    BY <1>1, <1>7, <2>1 DEF IsPrefix
<1>9. (n < most \/ n > Limit) <=> least < Len(rows)
  BY <1>1, <1>2, <1>4, <1>5
<1> QED
  BY <1>6, <1>7, <1>8, <1>9

-----------------------------------------------------------------------------
(* The statement on its way.  What makes QueriesInv inductive: the text    *)
(* stays what was read; the sources that a catalog has registered are the  *)
(* first ones, without a clash; a dataset's file is there only while that  *)
(* dataset is put beside them.                                             *)
StatementTypeOK ==
  /\ text \in Seq(Piece)
  /\ statement = Unsent \/ statement \in [kind : Routes, explain : BOOLEAN, sources : Catalogs \cup {<<>>}]
  /\ place \in {"typed", "refused", "asking", "registering", "staging", "open", "planned", "answered", "failed"}
  /\ engine = [at |-> engine.at, schemas |-> engine.schemas, views |-> engine.views, lakes |-> engine.lakes,
               wanted |-> engine.wanted, tables |-> engine.tables, files |-> engine.files]

ReadBeforeAll ==
  /\ place = "typed" <=> statement = Unsent
  /\ statement # Unsent => (place = "refused" <=> ~Valid(statement.kind, Trimmed(text)))
  /\ place \in {"registering", "staging"} => statement.kind = "catalog"
  /\ place = "asking" => statement.kind = "mongo"

(* Two sources that one connection cannot both have. *)
Clash(sources, i, j) ==
  /\ sources[i].schema = sources[j].schema
  /\ sources[i].upper # sources[j].upper \/ sources[i].name = sources[j].name
NoClash(sources, n) == \A i, j \in 1 .. n : i # j => ~Clash(sources, i, j)

RegisteredSoFar ==
  LET sources == statement.sources
      at == engine.at
  IN  /\ at \in 0 .. Len(sources)
      /\ engine.views = {sources[i] : i \in 1 .. at}
      /\ engine.schemas = {[schema |-> sources[i].schema, upper |-> sources[i].upper] : i \in 1 .. at}
      /\ NoClash(sources, at)
      /\ at < Len(sources) => place \in {"refused", "registering"} \/ (place = "failed" /\ ~NoClash(sources, at + 1))

LakesAreApart ==
  /\ IsFiniteSet(engine.lakes)
  /\ \A l \in engine.lakes : l[2] \in Nat /\ l[2] < Cardinality(engine.lakes)
  /\ \A a, b \in engine.lakes : a # b => a[1] # b[1] /\ a[2] # b[2]

FilesOfOne ==
  /\ \A l \in Locals : <<l, "data">> \in engine.files =>
       place = "staging" /\ l \notin engine.tables /\ l \in engine.wanted
  /\ \A k, l \in Locals : <<k, "data">> \in engine.files /\ <<l, "data">> \in engine.files => k = l
  /\ place \in {"open", "planned", "answered"} => engine.tables = engine.wanted
  /\ place = "registering" => engine.tables = {} /\ engine.wanted = {}

CatalogInOrder ==
  IF statement # Unsent /\ statement.kind = "catalog"
  THEN RegisteredSoFar /\ LakesAreApart /\ FilesOfOne
  ELSE engine = Bare

StatementInv == StatementTypeOK /\ ReadBeforeAll /\ ShowsTheFirst /\ CatalogInOrder

LEMMA UnsentIsNone ==
  \A k \in Routes : \A explain, sources : [kind |-> k, explain |-> explain, sources |-> sources] # Unsent
BY DEF Routes, Unsent

LEMMA CatalogsAreSequences == \A sources \in Catalogs \cup {<<>>} : sources \in Seq(Range(sources)) /\ Len(sources) \in Nat
<1>1. <<>> \in Seq(Range(<<>>))
  OBVIOUS
<1>2. \A sources : sources \in Seq(Range(sources)) => Len(sources) \in Nat
  OBVIOUS
<1> QED
  BY <1>1, <1>2, QueriesAssumption

(* What is said of the statement says the same of the next state, if it is *)
(* about what stays.                                                       *)
LEMMA CatalogStays ==
  ASSUME CatalogInOrder, UNCHANGED <<statement, engine>>,
         place \in {"open", "asking"}, place' \in {"open", "planned", "answered", "failed"},
         place = "asking" => statement.kind # "catalog"
  PROVE  CatalogInOrder'
<1>1. CASE ~(statement # Unsent /\ statement.kind = "catalog")
  BY <1>1 DEF CatalogInOrder
<1>2. CASE statement # Unsent /\ statement.kind = "catalog"
  <2>1. RegisteredSoFar /\ LakesAreApart /\ FilesOfOne
    BY <1>2 DEF CatalogInOrder
  <2>2. LakesAreApart'
    BY <2>1 DEF LakesAreApart
  <2>3. FilesOfOne'
    BY <1>2, <2>1 DEF FilesOfOne
  <2>4. RegisteredSoFar'
    <3>1. engine.at = Len(statement.sources)
      BY <1>2, <2>1 DEF RegisteredSoFar
    <3> QED
      BY <1>2, <2>1, <3>1 DEF RegisteredSoFar, NoClash, Clash
  <2> QED
    BY <1>2, <2>2, <2>3, <2>4 DEF CatalogInOrder
<1> QED
  BY <1>1, <1>2

LEMMA QueriesStart == QueriesInit => StatementInv
<1> SUFFICES ASSUME QueriesInit PROVE StatementInv
  OBVIOUS
<1>1. StatementTypeOK
  <2>1. text \in Seq(Piece)
    <3>1. "SELECT" \in Piece /\ "WITH" \in Piece
      BY DEF Piece
    <3>2. \A p \in Piece : <<p>> \in Seq(Piece)
      OBVIOUS
    <3> QED
      BY <3>1, <3>2 DEF QueriesInit
  <2> QED
    BY <2>1 DEF QueriesInit, StatementTypeOK, Bare
<1>2. ReadBeforeAll /\ ShowsTheFirst /\ CatalogInOrder
  BY DEF QueriesInit, ReadBeforeAll, ShowsTheFirst, CatalogInOrder
<1> QED
  BY <1>1, <1>2 DEF StatementInv

(* Typing: nothing is sent.                                                *)
LEMMA TypePieceKeeps == StatementInv /\ pieces \in Families /\ TypePiece => StatementInv'
<1> SUFFICES ASSUME StatementInv, pieces \in Families, TypePiece PROVE StatementInv'
  OBVIOUS
<1>1. statement = Unsent /\ statement' = Unsent /\ place' = "typed" /\ engine = Bare /\ engine' = Bare /\ answer' = answer
  BY DEF StatementInv, TypePiece, ReadBeforeAll, CatalogInOrder
<1>2. StatementTypeOK'
  <2>1. PICK p \in pieces : text' = Append(text, p)
    BY DEF TypePiece
  <2>2. p \in Piece
    BY <2>1, FamiliesArePieces
  <2>3. text' \in Seq(Piece)
    BY <2>1, <2>2 DEF StatementInv, StatementTypeOK
  <2> QED
    BY <1>1, <2>3 DEF StatementTypeOK, Bare
<1> QED
  BY <1>1, <1>2 DEF StatementInv, ReadBeforeAll, ShowsTheFirst, CatalogInOrder

(* Sending: the text is read before anything is done with it.              *)
LEMMA SubmitKeeps ==
  ASSUME StatementInv, NEW k \in Routes, NEW explain \in BOOLEAN, NEW sources \in Catalogs \cup {<<>>},
         Submit(k, explain, sources)
  PROVE  StatementInv'
<1>1. /\ place = "typed" /\ text' = text /\ engine' = engine /\ answer' = answer
      /\ statement' = [kind |-> k, explain |-> explain, sources |-> sources]
      /\ place' = IF ~Valid(k, Trimmed(text)) THEN "refused"
                  ELSE CASE k = "mongo" -> "asking" [] k = "catalog" -> "registering" [] OTHER -> "open"
  BY DEF Submit
<1>2. statement' # Unsent /\ statement'.kind = k /\ statement'.sources = sources
  BY <1>1, UnsentIsNone
<1>3. engine = Bare /\ engine' = Bare
  BY <1>1 DEF StatementInv, ReadBeforeAll, CatalogInOrder
<1>4. /\ place' \in {"refused", "asking", "registering", "open"}
      /\ place' = "refused" <=> ~Valid(k, Trimmed(text))
      /\ k = "catalog" => place' \in {"refused", "registering"}
      /\ place' = "asking" => k = "mongo"
      /\ place' = "registering" => k = "catalog"
  <2>1. CASE ~Valid(k, Trimmed(text))
    BY <1>1, <2>1
  <2>2. CASE Valid(k, Trimmed(text)) /\ k = "mongo"
    BY <1>1, <2>2
  <2>3. CASE Valid(k, Trimmed(text)) /\ k = "catalog"
    BY <1>1, <2>3
  <2>4. CASE Valid(k, Trimmed(text)) /\ k \notin {"mongo", "catalog"}
    BY <1>1, <2>4
  <2> QED
    BY <2>1, <2>2, <2>3, <2>4
<1>5. StatementTypeOK'
  <2>1. statement' \in [kind : Routes, explain : BOOLEAN, sources : Catalogs \cup {<<>>}]
    BY <1>1
  <2> QED
    BY <1>1, <1>3, <1>4, <2>1 DEF StatementInv, StatementTypeOK, Bare
<1>6. ReadBeforeAll'
  <2>1. Valid(statement.kind, Trimmed(text))' <=> Valid(k, Trimmed(text))
    BY <1>1, <1>2
  <2> QED
    BY <1>2, <1>4, <2>1 DEF ReadBeforeAll
<1>7. ShowsTheFirst'
  BY <1>4 DEF ShowsTheFirst
<1>8. CatalogInOrder'
  <2>1. CASE k = "catalog"
    <3>1. (RegisteredSoFar /\ LakesAreApart /\ FilesOfOne)'
      <4>1. Len(statement'.sources) \in Nat
        BY <1>2, CatalogsAreSequences
      <4>2. /\ engine'.at = 0 /\ engine'.schemas = {} /\ engine'.views = {} /\ engine'.lakes = {}
            /\ engine'.wanted = {} /\ engine'.tables = {} /\ engine'.files = {}
        BY <1>3 DEF Bare
      <4>3. RegisteredSoFar'
        <5>1. 1 .. 0 = {}
          OBVIOUS
        <5> QED
          BY <1>4, <2>1, <4>1, <4>2, <5>1 DEF RegisteredSoFar, NoClash
      <4>4. LakesAreApart'
        BY <4>2, FS_EmptySet DEF LakesAreApart
      <4>5. FilesOfOne'
        BY <1>4, <2>1, <4>2 DEF FilesOfOne
      <4> QED
        BY <4>3, <4>4, <4>5
    <3> QED
      BY <3>1, <1>2, <2>1 DEF CatalogInOrder
  <2>2. CASE k # "catalog"
    BY <1>2, <1>3, <2>2 DEF CatalogInOrder
  <2> QED
    BY <2>1, <2>2
<1> QED
  BY <1>5, <1>6, <1>7, <1>8 DEF StatementInv

(* What only moves the statement on.                                       *)
LEMMA MovesOnKeeps ==
  ASSUME StatementInv, SourceAnswers \/ Explain
  PROVE  StatementInv'
<1>1. /\ place \in {"asking", "open"} /\ place' \in {"failed", "open", "planned"}
      /\ UNCHANGED <<text, statement, engine, answer>>
  BY DEF SourceAnswers, Explain
<1>2. statement # Unsent
  BY <1>1 DEF StatementInv, ReadBeforeAll
<1>3. CatalogInOrder'
  BY <1>1, CatalogStays DEF StatementInv, ReadBeforeAll
<1>4. StatementTypeOK'
  BY <1>1 DEF StatementInv, StatementTypeOK
<1>5. ReadBeforeAll'
  BY <1>1, <1>2 DEF StatementInv, ReadBeforeAll
<1> QED
  BY <1>1, <1>3, <1>4, <1>5 DEF StatementInv, ShowsTheFirst

LEMMA QueryPreviewKeeps ==
  ASSUME StatementInv, NEW rows \in Tables, QueryPreview(rows)
  PROVE  StatementInv'
<1>1. /\ place = "open" /\ UNCHANGED <<text, statement, engine>>
      /\ \/ place' = "answered" /\ answer' = Preview(rows)
         \/ place' = "failed" /\ answer' = answer
  BY DEF QueryPreview
<1>2. statement # Unsent
  BY <1>1 DEF StatementInv, ReadBeforeAll
<1>3. CatalogInOrder'
  BY <1>1, CatalogStays DEF StatementInv
<1>4. StatementTypeOK'
  BY <1>1 DEF StatementInv, StatementTypeOK
<1>5. ReadBeforeAll'
  BY <1>1, <1>2 DEF StatementInv, ReadBeforeAll
<1>6. ShowsTheFirst'
  BY <1>1, PreviewShowsTheFirst DEF ShowsTheFirst
<1> QED
  BY <1>3, <1>4, <1>5, <1>6 DEF StatementInv

(* One one more: it clashes with none before it, or the catalog fails.  *)
LEMMA AttachKeeps ==
  ASSUME LakesAreApart, NEW one
  PROVE  LET lakes == Attach(one, engine.lakes)
         IN  /\ IsFiniteSet(lakes)
             /\ \A l \in lakes : l[2] \in Nat /\ l[2] < Cardinality(lakes)
             /\ \A a, b \in lakes : a # b => a[1] # b[1] /\ a[2] # b[2]
<1> DEFINE lakes == engine.lakes
           new == <<one.lake, Cardinality(lakes)>>
<1>1. CASE one.lake = "none" \/ \E pair \in lakes : pair[1] = one.lake
  BY <1>1 DEF Attach, LakesAreApart
<1>2. CASE ~(one.lake = "none" \/ \E pair \in lakes : pair[1] = one.lake)
  <2>1. Attach(one, lakes) = lakes \cup {new}
    BY <1>2 DEF Attach
  <2>2. new[1] = one.lake /\ new[2] = Cardinality(lakes)
    OBVIOUS
  <2>3. IsFiniteSet(lakes) /\ Cardinality(lakes) \in Nat
    BY FS_CardinalityType DEF LakesAreApart
  <2>4. \A l \in lakes : l[2] \in Nat /\ l[2] < Cardinality(lakes) /\ l[1] # one.lake
    BY <1>2 DEF LakesAreApart
  <2> HIDE DEF new
  <2>5. new \notin lakes
    BY <2>2, <2>4
  <2>6. IsFiniteSet(lakes \cup {new}) /\ Cardinality(lakes \cup {new}) = Cardinality(lakes) + 1
    BY <2>3, <2>5, FS_AddElement
  <2>7. \A l \in lakes \cup {new} : l[2] \in Nat /\ l[2] < Cardinality(lakes) + 1
    BY <2>2, <2>3, <2>4
  <2>8. \A a, b \in lakes \cup {new} : a # b => a[1] # b[1] /\ a[2] # b[2]
    BY <2>2, <2>3, <2>4 DEF LakesAreApart
  <2> QED
    BY <2>1, <2>6, <2>7, <2>8
<1> QED
  BY <1>1, <1>2

LEMMA RegisterKeeps == StatementInv /\ Register => StatementInv'
<1> SUFFICES ASSUME StatementInv, Register PROVE StatementInv'
  OBVIOUS
<1> DEFINE sources == statement.sources
           at == engine.at
           one == sources[at + 1]
           schema == [schema |-> one.schema, upper |-> one.upper]
           clash == \/ \E s \in engine.schemas : s # schema /\ s.schema = one.schema
                    \/ \E v \in engine.views : SameName(v, one)
<1>1. /\ place = "registering" /\ at < Len(sources) /\ UNCHANGED <<text, statement, answer>>
      /\ place' = IF clash THEN "failed" ELSE "registering"
      /\ clash => engine' = engine
      /\ ~clash => engine' = [engine EXCEPT !.at = @ + 1, !.schemas = @ \cup {schema},
                                            !.views = @ \cup {one}, !.lakes = Attach(one, @)]
  BY DEF Register
<1>2. /\ statement # Unsent /\ statement.kind = "catalog"
      /\ RegisteredSoFar /\ LakesAreApart /\ FilesOfOne
      /\ statement \in [kind : Routes, explain : BOOLEAN, sources : Catalogs \cup {<<>>}]
  BY <1>1 DEF StatementInv, StatementTypeOK, ReadBeforeAll, CatalogInOrder
<1>3. Len(sources) \in Nat /\ at \in Nat /\ at + 1 \in 1 .. Len(sources)
  <2>1. sources \in Catalogs \cup {<<>>}
    BY <1>2
  <2>2. Len(sources) \in Nat
    BY <2>1, CatalogsAreSequences
  <2> QED
    BY <1>1, <1>2, <2>2 DEF RegisteredSoFar
<1>4. clash <=> \E i \in 1 .. at : Clash(sources, i, at + 1)
  <2>1. \A i \in 1 .. at :
          LET s == [schema |-> sources[i].schema, upper |-> sources[i].upper]
          IN  (s # schema /\ s.schema = one.schema) \/ SameName(sources[i], one) <=> Clash(sources, i, at + 1)
    BY DEF Clash, SameName
  <2>2. /\ engine.views = {sources[i] : i \in 1 .. at}
        /\ engine.schemas = {[schema |-> sources[i].schema, upper |-> sources[i].upper] : i \in 1 .. at}
    BY <1>2 DEF RegisteredSoFar
  <2> HIDE DEF one, schema
  <2> QED
    BY <2>1, <2>2
<1>5. NoClash(sources, at + 1) <=> ~clash
  <2>1. \A i : Clash(sources, i, at + 1) <=> Clash(sources, at + 1, i)
    BY DEF Clash
  <2>2. NoClash(sources, at)
    BY <1>2 DEF RegisteredSoFar
  <2>3. \A i \in 1 .. at + 1 : i = at + 1 \/ i \in 1 .. at
    BY <1>3
  <2>4. \A i \in 1 .. at : i \in 1 .. at + 1 /\ i # at + 1
    BY <1>3
  <2>5. at + 1 \in 1 .. at + 1
    BY <1>3
  <2> HIDE DEF clash, sources, at
  <2> QED
    BY <1>4, <2>1, <2>2, <2>3, <2>4, <2>5 DEF NoClash
<1>10. engine = [at |-> engine.at, schemas |-> engine.schemas, views |-> engine.views, lakes |-> engine.lakes,
                 wanted |-> engine.wanted, tables |-> engine.tables, files |-> engine.files]
  BY DEF StatementInv, StatementTypeOK
<1>11. ~clash => engine' = [at |-> at + 1, schemas |-> engine.schemas \cup {schema}, views |-> engine.views \cup {one},
                            lakes |-> Attach(one, engine.lakes), wanted |-> engine.wanted,
                            tables |-> engine.tables, files |-> engine.files]
  <2> HIDE DEF schema, one, clash
  <2> QED
    BY <1>1, <1>10
<1>6. StatementTypeOK' /\ ReadBeforeAll' /\ ShowsTheFirst'
  <2>1. place' \in {"failed", "registering"}
    BY <1>1
  <2>2. engine' = [at |-> engine'.at, schemas |-> engine'.schemas, views |-> engine'.views, lakes |-> engine'.lakes,
                   wanted |-> engine'.wanted, tables |-> engine'.tables, files |-> engine'.files]
    <3>1. CASE clash
      BY <1>1, <1>10, <3>1
    <3>2. CASE ~clash
      BY <1>11, <3>2
    <3> QED
      BY <3>1, <3>2
  <2> HIDE DEF clash
  <2> QED
    BY <1>1, <1>2, <2>1, <2>2 DEF StatementInv, StatementTypeOK, ReadBeforeAll, ShowsTheFirst
<1>7. (RegisteredSoFar /\ LakesAreApart /\ FilesOfOne)'
  <2>1. CASE clash
    <3>1. place' = "failed" /\ engine' = engine /\ statement' = statement
      BY <1>1, <2>1
    <3>2. ~NoClash(sources, at + 1)
      BY <1>5, <2>1
    <3> HIDE DEF clash
    <3>3. FilesOfOne'
      BY <1>1, <1>2, <3>1 DEF FilesOfOne
    <3>4. LakesAreApart'
      BY <1>2, <3>1 DEF LakesAreApart
    <3>5. RegisteredSoFar'
      <4>1. NoClash(statement.sources, engine.at)' <=> NoClash(sources, at)
        BY <3>1 DEF NoClash, Clash
      <4>2. NoClash(statement.sources, engine.at + 1)' <=> NoClash(sources, at + 1)
        BY <3>1 DEF NoClash, Clash
      <4> QED
        BY <1>2, <3>1, <3>2, <4>1, <4>2 DEF RegisteredSoFar
    <3> QED
      BY <3>3, <3>4, <3>5
  <2>2. CASE ~clash
    <3>1. place' = "registering" /\ statement' = statement
      BY <1>1, <2>2
    <3>2. /\ engine'.at = at + 1 /\ engine'.schemas = engine.schemas \cup {schema}
          /\ engine'.views = engine.views \cup {one} /\ engine'.lakes = Attach(one, engine.lakes)
          /\ engine'.wanted = engine.wanted /\ engine'.tables = engine.tables /\ engine'.files = engine.files
      BY <1>11, <2>2
    <3>3. NoClash(sources, at + 1)
      BY <1>5, <2>2
    <3> HIDE DEF clash
    <3>4. FilesOfOne'
      BY <1>1, <1>2, <3>1, <3>2 DEF FilesOfOne
    <3>5. LakesAreApart'
      BY <1>2, <3>2, AttachKeeps DEF LakesAreApart
    <3>6. /\ engine'.views = {sources[i] : i \in 1 .. at + 1}
          /\ engine'.schemas = {[schema |-> sources[i].schema, upper |-> sources[i].upper] : i \in 1 .. at + 1}
      <4>1. 1 .. at + 1 = (1 .. at) \cup {at + 1}
        BY <1>3
      <4>2. /\ engine.views = {sources[i] : i \in 1 .. at}
            /\ engine.schemas = {[schema |-> sources[i].schema, upper |-> sources[i].upper] : i \in 1 .. at}
        BY <1>2 DEF RegisteredSoFar
      <4> HIDE DEF sources, at
      <4> QED
        BY <3>2, <4>1, <4>2
    <3>7. RegisteredSoFar'
      <4>1. engine'.at = at + 1 /\ statement'.sources = sources
        BY <3>1, <3>2
      <4>2. at + 1 \in 0 .. Len(sources)
        BY <1>3
      <4> HIDE DEF sources, at, one, schema
      <4>3. /\ engine'.views = {statement'.sources[i] : i \in 1 .. engine'.at}
            /\ engine'.schemas = {[schema |-> statement'.sources[i].schema, upper |-> statement'.sources[i].upper] :
                                    i \in 1 .. engine'.at}
        BY <3>6, <4>1, Zenon
      <4>4. NoClash(statement'.sources, engine'.at)
        BY <3>3, <4>1, Zenon
      <4>5. engine'.at \in 0 .. Len(statement'.sources)
        BY <4>1, <4>2, Zenon
      <4>6. NoClash(statement.sources, engine.at)' <=> NoClash(statement'.sources, engine'.at)
        BY DEF NoClash, Clash
      <4> QED
        BY <3>1, <4>3, <4>4, <4>5, <4>6 DEF RegisteredSoFar
    <3> QED
      BY <3>4, <3>5, <3>7
  <2> QED
    BY <2>1, <2>2
<1>8. CatalogInOrder'
  BY <1>1, <1>2, <1>7 DEF CatalogInOrder
<1> QED
  BY <1>6, <1>8 DEF StatementInv

(* The datasets it speaks of, put beside the sources one after the other:  *)
(* a step that leaves the sources as they are.                             *)
LEMMA SourcesStay ==
  ASSUME RegisteredSoFar, LakesAreApart, engine.at = Len(statement.sources),
         UNCHANGED <<statement, engine.at, engine.schemas, engine.views, engine.lakes>>
  PROVE  RegisteredSoFar' /\ LakesAreApart'
<1>1. LakesAreApart'
  BY DEF LakesAreApart
<1>2. RegisteredSoFar'
  BY DEF RegisteredSoFar, NoClash, Clash
<1> QED
  BY <1>1, <1>2

LEMMA LocalsKeep ==
  ASSUME StatementInv, Registered \/ Staged \/ \E l \in Locals : StageLocal(l) \/ LoadLocal(l)
  PROVE  StatementInv'
<1> DEFINE at == engine.at
           isEngine == engine = [at |-> engine.at, schemas |-> engine.schemas, views |-> engine.views,
                                 lakes |-> engine.lakes, wanted |-> engine.wanted,
                                 tables |-> engine.tables, files |-> engine.files]
<1>1. /\ place \in {"registering", "staging"} /\ UNCHANGED <<text, statement, answer>>
      /\ place = "registering" => at = Len(statement.sources)
      /\ place' \in {"open", "staging", "failed"}
  BY DEF Registered, Staged, StageLocal, LoadLocal
<1>2. /\ statement # Unsent /\ statement.kind = "catalog"
      /\ RegisteredSoFar /\ LakesAreApart /\ FilesOfOne
  BY <1>1 DEF StatementInv, ReadBeforeAll, CatalogInOrder
<1>3. at = Len(statement.sources)
  <2>1. CASE place = "staging"
    <3>1. at \in 0 .. Len(statement.sources) /\ ~(at < Len(statement.sources))
      BY <1>2, <2>1 DEF RegisteredSoFar
    <3>2. Len(statement.sources) \in Nat
      <4>1. statement.sources \in Catalogs \cup {<<>>}
        BY <1>2 DEF StatementInv, StatementTypeOK
      <4> QED
        BY <4>1, CatalogsAreSequences
    <3> QED
      BY <3>1, <3>2
  <2> QED
    BY <1>1, <2>1
<1>4. isEngine
  BY DEF StatementInv, StatementTypeOK
<1>5. /\ isEngine' /\ UNCHANGED <<engine.at, engine.schemas, engine.views, engine.lakes>>
      /\ FilesOfOne'
  <2>1. CASE Registered
    <3>1. PICK chosen \in SUBSET Locals : engine' = [engine EXCEPT !.wanted = Mentioned(chosen)]
      BY <2>1 DEF Registered
    <3>2. engine' = [at |-> engine.at, schemas |-> engine.schemas, views |-> engine.views, lakes |-> engine.lakes,
                     wanted |-> Mentioned(chosen), tables |-> engine.tables, files |-> engine.files]
      BY <1>4, <3>1
    <3>3. engine.tables = {} /\ \A l \in Locals : <<l, "data">> \notin engine.files
      BY <1>2, <2>1 DEF FilesOfOne, Registered
    <3>4. place' = "open" => engine'.wanted = {}
      BY <2>1, <3>2 DEF Registered
    <3>5. FilesOfOne'
      BY <1>1, <3>2, <3>3, <3>4 DEF FilesOfOne
    <3> QED
      BY <3>2, <3>5
  <2>2. CASE Staged
    <3>1. engine' = engine /\ place' = "open" /\ engine.tables = engine.wanted
      BY <2>2 DEF Staged
    <3> QED
      BY <1>2, <1>4, <3>1 DEF FilesOfOne
  <2>3. ASSUME NEW l \in Locals, StageLocal(l)
        PROVE  isEngine' /\ UNCHANGED <<engine.at, engine.schemas, engine.views, engine.lakes>> /\ FilesOfOne'
    <3>1. \A k \in Locals : <<k, "data">> \notin engine.files
      BY <2>3 DEF StageLocal
    <3>2. CASE place' = "staging" /\ engine' = [engine EXCEPT !.files = @ \cup {<<l, "data">>, <<l, "provenance">>}]
      <4>1. engine' = [at |-> engine.at, schemas |-> engine.schemas, views |-> engine.views, lakes |-> engine.lakes,
                       wanted |-> engine.wanted, tables |-> engine.tables,
                       files |-> engine.files \cup {<<l, "data">>, <<l, "provenance">>}]
        BY <1>4, <3>2
      <4>2. l \in engine.wanted /\ l \notin engine.tables
        BY <2>3 DEF StageLocal
      <4>3. \A k \in Locals : <<k, "data">> \in engine'.files => k = l
        BY <3>1, <4>1
      <4>4. engine'.wanted = engine.wanted /\ engine'.tables = engine.tables
        BY <4>1
      <4>5. FilesOfOne'
        BY <3>2, <4>2, <4>3, <4>4 DEF FilesOfOne
      <4> QED
        BY <4>1, <4>5
    <3>3. CASE place' = "failed" /\ engine' = engine
      BY <1>4, <3>1, <3>3 DEF FilesOfOne
    <3> QED
      BY <2>3, <3>2, <3>3 DEF StageLocal
  <2>4. ASSUME NEW l \in Locals, LoadLocal(l)
        PROVE  isEngine' /\ UNCHANGED <<engine.at, engine.schemas, engine.views, engine.lakes>> /\ FilesOfOne'
    <3>1. <<l, "data">> \in engine.files
      BY <2>4 DEF LoadLocal
    <3>2. \A k \in Locals : <<k, "data">> \in engine.files => k = l
      BY <1>2, <3>1 DEF FilesOfOne
    <3>3. /\ engine'.files = engine.files \ {<<l, "data">>} /\ engine'.wanted = engine.wanted
          /\ isEngine' /\ UNCHANGED <<engine.at, engine.schemas, engine.views, engine.lakes>>
          /\ place' \in {"staging", "failed"}
      <4>1. CASE place' = "staging" /\ engine' = [engine EXCEPT !.files = @ \ {<<l, "data">>}, !.tables = @ \cup {l}]
        <5>1. engine' = [at |-> engine.at, schemas |-> engine.schemas, views |-> engine.views, lakes |-> engine.lakes,
                         wanted |-> engine.wanted, tables |-> engine.tables \cup {l},
                         files |-> engine.files \ {<<l, "data">>}]
          BY <1>4, <4>1
        <5> QED
          BY <4>1, <5>1
      <4>2. CASE place' = "failed" /\ engine' = [engine EXCEPT !.files = @ \ {<<l, "data">>}]
        <5>1. engine' = [at |-> engine.at, schemas |-> engine.schemas, views |-> engine.views, lakes |-> engine.lakes,
                         wanted |-> engine.wanted, tables |-> engine.tables,
                         files |-> engine.files \ {<<l, "data">>}]
          BY <1>4, <4>2
        <5> QED
          BY <4>2, <5>1
      <4> QED
        BY <2>4, <4>1, <4>2 DEF LoadLocal
    <3>4. \A k \in Locals : <<k, "data">> \notin engine'.files
      BY <3>2, <3>3
    <3>5. FilesOfOne'
      BY <3>3, <3>4 DEF FilesOfOne
    <3> QED
      BY <3>3, <3>5
  <2> QED
    BY <2>1, <2>2, <2>3, <2>4
<1>6. CatalogInOrder'
  BY <1>1, <1>2, <1>3, <1>5, SourcesStay DEF CatalogInOrder
<1>7. StatementTypeOK'
  BY <1>1, <1>5 DEF StatementInv, StatementTypeOK
<1>8. ReadBeforeAll' /\ ShowsTheFirst'
  BY <1>1, <1>2 DEF StatementInv, ReadBeforeAll, ShowsTheFirst
<1> QED
  BY <1>6, <1>7, <1>8 DEF StatementInv

-----------------------------------------------------------------------------
(* From the invariant to what is promised.                                 *)
LEMMA StatementInvReads == StatementInv => RefusesWhatItShould /\ RunsAsItIs
<1> SUFFICES ASSUME StatementInv, statement # Unsent, ~Nested(text)
             PROVE  LET t == Trimmed(text) IN
                      /\ place = "refused" <=>
                           \/ ~IsOneRead(t)
                           \/ statement.kind = "mongo" /\ DuckWords(t) \cap {"query", Quoted("query")} # {}
                           \/ statement.kind \in {"s3", "catalog"} /\ Contains(t, "uri")
                           \/ statement.kind = "workspace" /\ Contains(t, "foreign")
                      /\ place # "refused" =>
                           /\ Prepares(t) <=> Sql!Reading(DuckReader, t).mode # "line"
                           /\ {i + 2 : i \in DuckCode(t)} \cup {1, 2} \cup (IF Prepares(t) THEN {Len(t) + 3} ELSE {})
                                = DuckCode(Wrapped(t))
  BY DEF RefusesWhatItShould, RunsAsItIs
<1> DEFINE t == Trimmed(text)
           path == statement.kind
<1>1. t \in Seq(Piece) /\ ~Nested(t)
  BY TrimmedIsPrefix DEF StatementInv, StatementTypeOK
<1>2. place = "refused" <=> ~Valid(path, t)
  BY DEF StatementInv, ReadBeforeAll
<1>3. path \in {"workspace", "s3", "catalog", "mongo"}
  BY DEF StatementInv, StatementTypeOK, Routes
<1> HIDE DEF t, path
<1>4. ValidateReadOnlySql(t) <=> IsOneRead(t)
  BY <1>1, OneReadIsKnown
<1>5. IsOneRead(t) => Words(t) = DuckWords(t) /\ Sql!Reading(DuckReader, t).mode \in {"code", "line"}
  BY <1>1, EnginesKnowTheCode DEF IsOneRead, Words, DuckWords
<1>6. Valid(path, t) <=> ~(\/ ~IsOneRead(t)
                           \/ path = "mongo" /\ DuckWords(t) \cap {"query", Quoted("query")} # {}
                           \/ path \in {"s3", "catalog"} /\ Contains(t, "uri")
                           \/ path = "workspace" /\ Contains(t, "foreign"))
  <2>1. CASE path = "workspace"
    BY <1>4, <2>1 DEF Valid, WorkspaceRelations
  <2>2. CASE path = "mongo"
    BY <1>4, <1>5, <2>2 DEF Valid, ValidateMongoSql
  <2>3. CASE path \in {"s3", "catalog"}
    BY <1>4, <2>3 DEF Valid, ValidateS3Sql
  <2> QED
    BY <1>3, <2>1, <2>2, <2>3
<1>7. Valid(path, t) => Sql!Reading(DuckReader, t).mode \in {"code", "line"}
  BY <1>5, <1>6
<1> QED
  BY <1>1, <1>2, <1>6, <1>7, WrappedIsRead DEF t, path

LEMMA StatementInvSees == StatementInv => SeesTheCatalog
<1> SUFFICES ASSUME StatementInv, statement.kind = "catalog", place \notin {"refused", "registering", "staging"}
             PROVE  LET sources == Range(statement.sources)
                        clash   == \E i, j \in DOMAIN statement.sources :
                                     i # j /\ Clash(statement.sources, i, j)
                    IN  /\ place \in {"open", "answered"} =>
                             ~clash /\ engine.views = sources /\ engine.tables = engine.wanted
                        /\ \A l \in Locals : <<l, "data">> \notin engine.files
                        /\ engine.views # sources => clash
                        /\ \A a, b \in engine.lakes : a # b => a[1] # b[1] /\ a[2] # b[2]
  BY DEF SeesTheCatalog, Clash
<1> DEFINE list == statement.sources
           n == Len(list)
<1>1. statement # Unsent
  BY DEF Unsent
<1>2. RegisteredSoFar /\ LakesAreApart /\ FilesOfOne
  BY <1>1 DEF StatementInv, CatalogInOrder
<1>3. n \in Nat /\ DOMAIN list = 1 .. n
  <2>1. list \in Catalogs \cup {<<>>}
    BY <1>1 DEF StatementInv, StatementTypeOK
  <2>2. list \in Seq(Range(list))
    BY <2>1, CatalogsAreSequences
  <2> HIDE DEF list
  <2> QED
    BY <2>2
<1>4. Range(list) = {list[i] : i \in 1 .. n}
  BY <1>3 DEF Range
<1>5. /\ engine.at \in 0 .. n /\ engine.views = {list[i] : i \in 1 .. engine.at} /\ NoClash(list, engine.at)
      /\ engine.at < n => place = "failed" /\ ~NoClash(list, engine.at + 1)
  BY <1>2 DEF RegisteredSoFar
<1> HIDE DEF list
<1>6. CASE engine.at = n
  <2>1. engine.views = Range(list) /\ ~\E i, j \in DOMAIN list : i # j /\ Clash(list, i, j)
    BY <1>3, <1>4, <1>5, <1>6 DEF NoClash
  <2> QED
    BY <1>2, <2>1 DEF FilesOfOne, LakesAreApart, list
<1>7. CASE engine.at < n
  <2>1. \E i, j \in DOMAIN list : i # j /\ Clash(list, i, j)
    <3>1. 1 .. engine.at + 1 \subseteq 1 .. n
      BY <1>3, <1>5, <1>7
    <3> QED
      BY <1>3, <1>5, <1>7, <3>1 DEF NoClash
  <2> QED
    BY <1>2, <1>5, <1>7, <2>1 DEF FilesOfOne, LakesAreApart, list
<1> QED
  BY <1>3, <1>5, <1>6, <1>7

(* Whatever is typed and asked for, however many pieces, sources, datasets *)
(* and rows there are: the engine refuses what it should and nothing else, *)
(* what it lets through means the same inside the SELECT that bounds it,   *)
(* what is shown are the first rows, and a catalog is seen as a whole.     *)
THEOREM QueriesHold == QueriesSpec => []QueriesInv
<1>1. QueriesInit => StatementInv /\ pieces \in Families
  BY QueriesStart DEF QueriesInit
<1>2. StatementInv /\ pieces \in Families /\ [QueriesNext]_queryVars => (StatementInv /\ pieces \in Families)'
  <2> SUFFICES ASSUME StatementInv, pieces \in Families, [QueriesNext]_queryVars
               PROVE  StatementInv' /\ pieces' \in Families
    OBVIOUS
  <2>1. CASE TypePiece
    BY <2>1, TypePieceKeeps DEF TypePiece
  <2>2. ASSUME NEW k \in Routes, NEW explain \in BOOLEAN, NEW sources \in Catalogs \cup {<<>>},
               Submit(k, explain, sources)
        PROVE  StatementInv' /\ pieces' \in Families
    BY <2>2, SubmitKeeps DEF Submit
  <2>3. CASE SourceAnswers \/ Explain
    BY <2>3, MovesOnKeeps DEF SourceAnswers, Explain
  <2>4. CASE Register
    BY <2>4, RegisterKeeps DEF Register
  <2>5. CASE Registered \/ Staged \/ \E l \in Locals : StageLocal(l) \/ LoadLocal(l)
    <3>1. pieces' = pieces
      BY <2>5 DEF Registered, Staged, StageLocal, LoadLocal
    <3>2. StatementInv'
      BY <2>5, LocalsKeep, Zenon
    <3> QED
      BY <3>1, <3>2
  <2>6. ASSUME NEW rows \in Tables, QueryPreview(rows)
        PROVE  StatementInv' /\ pieces' \in Families
    BY <2>6, QueryPreviewKeeps DEF QueryPreview
  <2>7. CASE UNCHANGED queryVars
    <3>1. UNCHANGED <<pieces, text, statement, place, engine, answer>>
      BY <2>7 DEF queryVars
    <3>2. StatementTypeOK' /\ ReadBeforeAll' /\ ShowsTheFirst'
      BY <3>1 DEF StatementInv, StatementTypeOK, ReadBeforeAll, ShowsTheFirst
    <3>3. CatalogInOrder'
      BY <3>1 DEF StatementInv, CatalogInOrder, RegisteredSoFar, NoClash, Clash, LakesAreApart, FilesOfOne
    <3> QED
      BY <3>1, <3>2, <3>3 DEF StatementInv
  <2> QED
    BY <2>1, <2>2, <2>3, <2>4, <2>5, <2>6, <2>7 DEF QueriesNext
<1>3. StatementInv => QueriesInv
  BY StatementInvReads, StatementInvSees DEF StatementInv, QueriesInv
<1> QED
  BY <1>1, <1>2, <1>3, PTL DEF QueriesSpec

-----------------------------------------------------------------------------
(* The values of the analysis (TypedValues).  A text and a decimal are the *)
(* same number when their digits are: those of one are those of the other, *)
(* but for zeros behind the point.                                         *)

(* The number of digits: of none it is 0, and a digit more makes it ten    *)
(* times as much and the digit.                                            *)
Counted(g, ds) == g[0] = 0 /\ \A k \in 1 .. Len(ds) : g[k] = 10 * g[k - 1] + ds[k]

LEMMA NumberUpTo ==
  ASSUME NEW ds \in Seq(Int)
  PROVE  \E g \in [0 .. Len(ds) -> Int] : NumberOf(ds) = g[Len(ds)] /\ Counted(g, ds)
<1> DEFINE n == Len(ds)
           next == [v \in Int |-> [k \in 1 .. n |-> 10 * v + ds[k]]]
           Is(g) == g = [k \in 0 .. n |-> IF k = 0 THEN 0 ELSE 10 * g[k - 1] + ds[k]]
           g == CHOOSE h : Is(h)
<1>1. n \in Nat /\ \A k \in 1 .. n : ds[k] \in Int
  OBVIOUS
<1>2. next \in [Int -> [1 .. n -> Int]]
  BY <1>1
<1>3. PICK f \in [0 .. n -> Int] : Follows(f, n, 0, next)
  <2>1. n \in Nat /\ 0 \in Int
    BY <1>1
  <2> HIDE DEF next, n
  <2> QED
    BY <1>2, <2>1, Recursion, Zenon
<1>4. Is(f)
  <2>1. \A k \in 0 .. n : f[k] = IF k = 0 THEN 0 ELSE 10 * f[k - 1] + ds[k]
    <3> TAKE k \in 0 .. n
    <3>1. CASE k = 0
      BY <1>3, <3>1 DEF Follows
    <3>2. CASE k # 0
      <4>1. k \in 1 .. n /\ k - 1 \in 0 .. n
        BY <3>2, <1>1
      <4>2. f[k - 1] \in Int /\ f[k] = next[f[k - 1]][k]
        BY <4>1, <1>3 DEF Follows
      <4> QED
        BY <4>1, <4>2, <3>2
    <3> QED
      BY <3>1, <3>2
  <2>2. f = [k \in 0 .. n |-> f[k]]
    OBVIOUS
  <2> QED
    BY <2>1, <2>2
<1>5. Is(g)
  BY <1>4
<1>6. NumberOf(ds) = g[n]
  BY DEF NumberOf
<1> HIDE DEF g
<1>7. g[0] = 0 /\ \A k \in 1 .. n : g[k] = 10 * g[k - 1] + ds[k]
  <2>1. \A k \in 0 .. n : g[k] = IF k = 0 THEN 0 ELSE 10 * g[k - 1] + ds[k]
    BY <1>5
  <2> QED
    BY <1>1, <2>1
<1> DEFINE S == {k \in Nat : k <= n => g[k] \in Int}
<1>8. 0 \in S
  BY <1>7
<1>9. ASSUME NEW k \in Nat, k \in S PROVE k + 1 \in S
  <2> SUFFICES ASSUME k + 1 <= n PROVE g[k + 1] \in Int
    OBVIOUS
  <2>1. g[k] \in Int /\ k + 1 \in 1 .. n /\ (k + 1) - 1 = k
    BY <1>9, <1>1
  <2>2. g[k + 1] = 10 * g[k] + ds[k + 1] /\ ds[k + 1] \in Int
    BY <1>1, <1>7, <2>1
  <2> QED
    BY <2>1, <2>2
<1>10. \A k \in 0 .. n : g[k] \in Int
  <2> HIDE DEF S
  <2>1. Nat \subseteq S
    BY <1>8, <1>9, Induct
  <2> QED
    BY <2>1, <1>1 DEF S
<1>11. g \in [0 .. n -> Int]
  BY <1>5, <1>10
<1> QED
  BY <1>6, <1>7, <1>11 DEF Counted

LEMMA NumberIs ==
  ASSUME NEW ds \in Seq(Int), NEW g, Counted(g, ds)
  PROVE  NumberOf(ds) = g[Len(ds)] /\ NumberOf(ds) \in Int
<1>1. PICK f \in [0 .. Len(ds) -> Int] : NumberOf(ds) = f[Len(ds)] /\ Counted(f, ds)
  BY NumberUpTo
<1> DEFINE n == Len(ds)
           S == {m \in Nat : m <= n => f[m] = g[m]}
<1>2. n \in Nat
  OBVIOUS
<1>3. 0 \in S
  BY <1>1 DEF Counted
<1>4. ASSUME NEW m \in Nat, m \in S PROVE m + 1 \in S
  <2> SUFFICES ASSUME m + 1 <= n PROVE f[m + 1] = g[m + 1]
    OBVIOUS
  <2>1. f[m] = g[m] /\ m + 1 \in 1 .. n /\ (m + 1) - 1 = m
    BY <1>4, <1>2
  <2> QED
    BY <1>1, <2>1 DEF Counted
<1>5. n \in S
  <2> HIDE DEF S
  <2> QED
    BY <1>2, <1>3, <1>4, Induct
<1> QED
  BY <1>1, <1>2, <1>5

LEMMA NumberAppend ==
  ASSUME NEW ds \in Seq(Int), NEW d \in Int
  PROVE  NumberOf(Append(ds, d)) = 10 * NumberOf(ds) + d
<1>1. PICK f \in [0 .. Len(ds) -> Int] : NumberOf(ds) = f[Len(ds)] /\ Counted(f, ds)
  BY NumberUpTo
<1> DEFINE n == Len(ds)
           more == Append(ds, d)
           g == [k \in 0 .. n + 1 |-> IF k = n + 1 THEN 10 * f[n] + d ELSE f[k]]
<1>2. n \in Nat /\ more \in Seq(Int) /\ Len(more) = n + 1 /\ more[n + 1] = d
  OBVIOUS
<1>3. \A k \in 1 .. n : more[k] = ds[k]
  OBVIOUS
<1>4. g[0] = 0 /\ g[n + 1] = 10 * f[n] + d
  BY <1>1, <1>2 DEF Counted
<1>5. ASSUME NEW k \in 1 .. n + 1 PROVE g[k] = 10 * g[k - 1] + more[k]
  <2>1. k - 1 # n + 1 /\ k - 1 \in 0 .. n + 1 /\ k \in 0 .. n + 1
    BY <1>2
  <2>2. g[k - 1] = f[k - 1]
    BY <2>1
  <2>3. CASE k = n + 1
    BY <1>2, <1>4, <2>2, <2>3
  <2>4. CASE k # n + 1
    <3>1. k \in 1 .. n /\ g[k] = f[k]
      BY <1>2, <2>1, <2>4
    <3> QED
      BY <1>1, <1>3, <2>2, <3>1 DEF Counted
  <2> QED
    BY <2>3, <2>4
<1>6. NumberOf(more) = g[n + 1]
  <2>1. Counted(g, more)
    BY <1>2, <1>4, <1>5 DEF Counted
  <2> HIDE DEF g, more, n
  <2> QED
    BY <1>2, <2>1, NumberIs
<1> QED
  BY <1>1, <1>4, <1>6

LEMMA NumberIsInt ==
  ASSUME NEW ds \in Seq(Int) PROVE NumberOf(ds) \in Int
BY NumberUpTo

LEMMA NumberOfNone == NumberOf(<<>>) = 0
<1>1. <<>> \in Seq(Int) /\ Len(<<>>) = 0
  OBVIOUS
<1>2. PICK f \in [0 .. 0 -> Int] : NumberOf(<<>>) = f[0] /\ Counted(f, <<>>)
  BY <1>1, NumberUpTo
<1> QED
  BY <1>2 DEF Counted

-----------------------------------------------------------------------------
(* Zeros behind digits multiply their number by the power of ten, and the  *)
(* powers of ten multiply as they should.                                  *)
LEMMA ZerosAre ==
  ASSUME NEW k \in Nat
  PROVE  /\ Zeros(k) \in Seq(Int) /\ Len(Zeros(k)) = k /\ \A i \in 1 .. k : Zeros(k)[i] = 0
         /\ Zeros(0) = <<>> /\ Zeros(k + 1) = Append(Zeros(k), 0)
<1>1. Zeros(k) \in Seq(Int) /\ Len(Zeros(k)) = k /\ \A i \in 1 .. k : Zeros(k)[i] = 0
  BY DEF Zeros
<1>2. Zeros(0) = <<>>
  BY DEF Zeros
<1>3. Zeros(k + 1) = Append(Zeros(k), 0)
  <2>1. Zeros(k + 1) \in Seq(Int) /\ Len(Zeros(k + 1)) = k + 1 /\ \A i \in 1 .. k + 1 : Zeros(k + 1)[i] = 0
    BY DEF Zeros
  <2>2. Append(Zeros(k), 0) \in Seq(Int) /\ Len(Append(Zeros(k), 0)) = k + 1
    BY <1>1
  <2>3. \A i \in 1 .. k + 1 : Append(Zeros(k), 0)[i] = 0
    <3> TAKE i \in 1 .. k + 1
    <3>1. i \in 1 .. k \/ i = k + 1
      OBVIOUS
    <3> QED
      BY <1>1, <3>1
  <2> QED
    BY <2>1, <2>2, <2>3
<1> QED
  BY <1>1, <1>2, <1>3

LEMMA JoinedToZeros ==
  ASSUME NEW ds \in Seq(Int), NEW k \in Nat
  PROVE  /\ ds \o Zeros(0) = ds
         /\ ds \o Zeros(k) \in Seq(Int)
         /\ ds \o Zeros(k + 1) = Append(ds \o Zeros(k), 0)
<1>1. Zeros(k) \in Seq(Int) /\ Zeros(0) = <<>> /\ Zeros(k + 1) = Append(Zeros(k), 0)
  BY ZerosAre
<1>2. ASSUME NEW s \in Seq(Int) PROVE ds \o Append(s, 0) = Append(ds \o s, 0)
  <2>1. /\ Len(ds \o Append(s, 0)) = Len(ds) + Len(s) + 1 /\ Len(Append(ds \o s, 0)) = Len(ds) + Len(s) + 1
        /\ ds \o Append(s, 0) \in Seq(Int) /\ Append(ds \o s, 0) \in Seq(Int)
    OBVIOUS
  <2>2. ASSUME NEW i \in 1 .. Len(ds) + Len(s) + 1 PROVE (ds \o Append(s, 0))[i] = Append(ds \o s, 0)[i]
    <3>1. CASE i <= Len(ds)
      BY <3>1
    <3>2. CASE i > Len(ds) /\ i <= Len(ds) + Len(s)
      BY <3>2
    <3>3. CASE i = Len(ds) + Len(s) + 1
      BY <3>3
    <3> QED
      BY <3>1, <3>2, <3>3
  <2> QED
    BY <2>1, <2>2
<1>3. ds \o <<>> = ds
  OBVIOUS
<1>4. ds \o Zeros(k + 1) = Append(ds \o Zeros(k), 0)
  BY <1>1, <1>2, Zenon
<1>5. ds \o Zeros(k) \in Seq(Int)
  BY <1>1
<1> QED
  BY <1>1, <1>3, <1>4, <1>5, Zenon

LEMMA PowersOfTen ==
  ASSUME NEW k \in Nat
  PROVE  PowerOfTen(0) = 1 /\ PowerOfTen(k) \in Int /\ PowerOfTen(k + 1) = 10 * PowerOfTen(k)
<1>1. <<1>> \in Seq(Int) /\ <<1>> = Append(<<>>, 1) /\ <<>> \in Seq(Int)
  OBVIOUS
<1>2. NumberOf(<<1>>) = 1
  <2>1. 1 \in Int
    OBVIOUS
  <2>2. NumberOf(Append(<<>>, 1)) = 10 * NumberOf(<<>>) + 1
    BY <1>1, <2>1, NumberAppend, Zenon
  <2> QED
    BY <1>1, <2>2, NumberOfNone
<1>3. PowerOfTen(0) = 1
  BY <1>1, <1>2, JoinedToZeros DEF PowerOfTen
<1>4. <<1>> \o Zeros(k) \in Seq(Int)
  BY <1>1, JoinedToZeros
<1>5. PowerOfTen(k) \in Int
  BY <1>4, NumberIsInt DEF PowerOfTen
<1>6. PowerOfTen(k + 1) = 10 * PowerOfTen(k) + 0
  <2>1. <<1>> \o Zeros(k + 1) = Append(<<1>> \o Zeros(k), 0)
    BY <1>1, JoinedToZeros
  <2>2. NumberOf(Append(<<1>> \o Zeros(k), 0)) = 10 * NumberOf(<<1>> \o Zeros(k)) + 0
    <3>1. 0 \in Int
      OBVIOUS
    <3> QED
      BY <1>4, <3>1, NumberAppend, Zenon
  <2> QED
    BY <2>1, <2>2 DEF PowerOfTen
<1> QED
  BY <1>3, <1>5, <1>6

LEMMA ZerosMultiply ==
  ASSUME NEW ds \in Seq(Int), NEW k \in Nat
  PROVE  NumberOf(ds \o Zeros(k)) = NumberOf(ds) * PowerOfTen(k)
<1> DEFINE S == {m \in Nat : NumberOf(ds \o Zeros(m)) = NumberOf(ds) * PowerOfTen(m)}
<1>1. NumberOf(ds) \in Int
  BY NumberIsInt
<1>2. 0 \in S
  <2>1. NumberOf(ds \o Zeros(0)) = NumberOf(ds)
    BY JoinedToZeros
  <2> QED
    BY <1>1, <2>1, PowersOfTen
<1>3. ASSUME NEW m \in Nat, m \in S PROVE m + 1 \in S
  <2> DEFINE x == NumberOf(ds)
             y == PowerOfTen(m)
  <2>1. NumberOf(ds \o Zeros(m)) = x * y
    BY <1>3
  <2>2. ds \o Zeros(m) \in Seq(Int) /\ ds \o Zeros(m + 1) = Append(ds \o Zeros(m), 0)
    BY JoinedToZeros
  <2>3. NumberOf(ds \o Zeros(m + 1)) = 10 * NumberOf(ds \o Zeros(m)) + 0
    <3>1. 0 \in Int
      OBVIOUS
    <3> QED
      BY <2>2, <3>1, NumberAppend, Zenon
  <2>4. x \in Int /\ y \in Int /\ PowerOfTen(m + 1) = 10 * y
    BY <1>1, PowersOfTen
  <2>5. 10 * (x * y) + 0 = x * (10 * y)
    <3> HIDE DEF x, y
    <3> QED
      BY <2>4
  <2> HIDE DEF x, y
  <2>6. NumberOf(ds \o Zeros(m + 1)) = x * PowerOfTen(m + 1)
    BY <2>1, <2>3, <2>4, <2>5
  <2> QED
    BY <2>6 DEF x
<1>4. k \in S
  <2> HIDE DEF S
  <2> QED
    BY <1>2, <1>3, Induct
<1> QED
  BY <1>4

LEMMA PowersMultiply ==
  ASSUME NEW j \in Nat, NEW k \in Nat
  PROVE  PowerOfTen(j + k) = PowerOfTen(j) * PowerOfTen(k)
<1>1. <<1>> \o Zeros(j) \in Seq(Int)
  <2>1. <<1>> \in Seq(Int)
    OBVIOUS
  <2> QED
    BY <2>1, JoinedToZeros
<1>2. (<<1>> \o Zeros(j)) \o Zeros(k) = <<1>> \o Zeros(j + k)
  <2> DEFINE u == (<<1>> \o Zeros(j)) \o Zeros(k)
             w == <<1>> \o Zeros(j + k)
  <2>1. /\ Zeros(j) \in Seq(Int) /\ Len(Zeros(j)) = j /\ Zeros(k) \in Seq(Int) /\ Len(Zeros(k)) = k
        /\ Zeros(j + k) \in Seq(Int) /\ Len(Zeros(j + k)) = j + k
        /\ \A i \in 1 .. j : Zeros(j)[i] = 0
        /\ \A i \in 1 .. k : Zeros(k)[i] = 0
        /\ \A i \in 1 .. j + k : Zeros(j + k)[i] = 0
    BY ZerosAre
  <2>2. /\ u \in Seq(Int) /\ Len(u) = 1 + j + k
        /\ w \in Seq(Int) /\ Len(w) = 1 + j + k
    BY <2>1
  <2>3. ASSUME NEW i \in 1 .. 1 + j + k PROVE u[i] = w[i]
    <3>1. CASE i = 1
      BY <2>1, <3>1
    <3>2. CASE i # 1
      <4>1. w[i] = 0
        <5>1. i - 1 \in 1 .. j + k /\ w[i] = Zeros(j + k)[i - 1]
          BY <2>1, <3>2
        <5> QED
          BY <2>1, <5>1
      <4>4. i <= 1 + j \/ i > 1 + j
        BY <2>1
      <4>2. CASE i <= 1 + j
        <5>1. i - 1 \in 1 .. j /\ u[i] = (<<1>> \o Zeros(j))[i] /\ (<<1>> \o Zeros(j))[i] = Zeros(j)[i - 1]
          BY <2>1, <3>2, <4>2
        <5> QED
          BY <2>1, <4>1, <5>1
      <4>3. CASE i > 1 + j
        <5>1. i - (1 + j) \in 1 .. k /\ u[i] = Zeros(k)[i - (1 + j)]
          BY <2>1, <3>2, <4>3
        <5> QED
          BY <2>1, <4>1, <5>1
      <4> QED
        BY <4>2, <4>3, <4>4
    <3> QED
      BY <3>1, <3>2
  <2> HIDE DEF u, w
  <2>4. u = w
    BY <2>2, <2>3
  <2> QED
    BY <2>4 DEF u, w
<1>3. NumberOf((<<1>> \o Zeros(j)) \o Zeros(k)) = NumberOf(<<1>> \o Zeros(j)) * PowerOfTen(k)
  BY <1>1, ZerosMultiply
<1> QED
  BY <1>2, <1>3 DEF PowerOfTen


-----------------------------------------------------------------------------
(* A numeral: perhaps a sign, digits, and perhaps a point, at p, before    *)
(* the last of them; ds are the digits.                                    *)
Digits == 0 .. 9
Numeral(cs, s, p, ds) ==
  /\ cs \in Seq(Characters) /\ ds \in Seq(Digits) /\ s \in {0, 1} /\ p \in s + 1 .. Len(cs) + 1
  /\ Len(ds) = IF p <= Len(cs) THEN Len(cs) - s - 1 ELSE Len(cs) - s
  /\ s = 1 => cs[1] \in {Minus, Plus}
  /\ p <= Len(cs) => cs[p] = Dot
  /\ \A j \in 1 .. p - s - 1 : cs[s + j] = ds[j]
  /\ \A j \in p - s .. Len(ds) : cs[s + 1 + j] = ds[j]

(* What a numeral has at each of its places.                               *)
LEMMA NumeralPlaces ==
  ASSUME NEW cs, NEW s, NEW p, NEW ds, Numeral(cs, s, p, ds), NEW i \in 1 .. Len(cs)
  PROVE  \/ i = 1 /\ s = 1 /\ cs[i] \in {Minus, Plus} /\ i < p
         \/ i = p /\ cs[i] = Dot
         \/ i > s /\ i < p /\ i - s \in 1 .. Len(ds) /\ cs[i] = ds[i - s] /\ cs[i] \in Digits
         \/ i > p /\ i - s - 1 \in 1 .. Len(ds) /\ cs[i] = ds[i - s - 1] /\ cs[i] \in Digits
<1>1. /\ Len(cs) \in Nat /\ Len(ds) \in Nat /\ s \in {0, 1} /\ p \in s + 1 .. Len(cs) + 1
      /\ Len(ds) = IF p <= Len(cs) THEN Len(cs) - s - 1 ELSE Len(cs) - s
  BY DEF Numeral
<1>2. \A j \in 1 .. Len(ds) : ds[j] \in Digits
  BY DEF Numeral
<1>3. CASE i <= s
  BY <1>1, <1>3 DEF Numeral
<1>4. CASE i = p
  BY <1>1, <1>4 DEF Numeral
<1>5. CASE i > s /\ i < p
  <2>1. i - s \in 1 .. p - s - 1 /\ i - s \in 1 .. Len(ds) /\ s + (i - s) = i
    BY <1>1, <1>5
  <2>2. cs[s + (i - s)] = ds[i - s]
    BY <2>1 DEF Numeral
  <2> QED
    BY <1>2, <1>5, <2>1, <2>2
<1>6. CASE i > p
  <2>1. i - s - 1 \in p - s .. Len(ds) /\ i - s - 1 \in 1 .. Len(ds) /\ s + 1 + (i - s - 1) = i
    BY <1>1, <1>6
  <2>2. cs[s + 1 + (i - s - 1)] = ds[i - s - 1]
    BY <2>1 DEF Numeral
  <2> QED
    BY <1>2, <1>6, <2>1, <2>2
<1> QED
  BY <1>1, <1>3, <1>4, <1>5, <1>6

LEMMA NumeralIsNumeric ==
  ASSUME NEW cs, NEW s, NEW p, NEW ds, Numeral(cs, s, p, ds), p > s + 1
  PROVE  IsNumeric(cs)
<1>1. /\ Len(cs) \in Nat /\ DOMAIN cs = 1 .. Len(cs) /\ s \in {0, 1} /\ p \in s + 1 .. Len(cs) + 1
  BY DEF Numeral
<1>2. s + 1 \in DOMAIN cs /\ cs[s + 1] \in 0 .. 9
  <2>2. s + 1 \in 1 .. Len(cs) /\ s + 1 < p
    BY <1>1
  <2>3. cs[s + 1] \in Digits
    BY <1>1, <2>2, NumeralPlaces
  <2> QED
    BY <1>1, <2>2, <2>3 DEF Digits
<1>3. ASSUME NEW i \in DOMAIN cs, cs[i] \in {Minus, Plus} PROVE i = 1
  <2>1. cs[i] \notin Digits /\ cs[i] # Dot
    BY <1>3 DEF Digits, Minus, Plus, Dot
  <2> QED
    BY <1>1, <2>1, NumeralPlaces
<1>4. ASSUME NEW i \in DOMAIN cs, cs[i] = Dot PROVE i = p
  <2>1. cs[i] \notin Digits /\ cs[i] \notin {Minus, Plus}
    BY <1>4 DEF Digits, Minus, Plus, Dot
  <2> QED
    BY <1>1, <2>1, NumeralPlaces
<1> QED
  BY <1>2, <1>3, <1>4 DEF IsNumeric

(* A text read from the left.                                              *)
Readings == [n : Int, over : Int, behind : BOOLEAN]
ReadingOf(n, over, behind) == [n |-> n, over |-> over, behind |-> behind]

LEMMA ReadOnIs ==
  ASSUME NEW n \in Int, NEW over \in Int, NEW behind \in BOOLEAN, NEW c \in Characters
  PROVE  /\ ReadOn(ReadingOf(n, over, behind), c) \in Readings
         /\ c \in {Minus, Plus} => ReadOn(ReadingOf(n, over, behind), c) = ReadingOf(n, over, behind)
         /\ c = Dot => ReadOn(ReadingOf(n, over, behind), c) = ReadingOf(n, over, TRUE)
         /\ c \in Digits =>
              ReadOn(ReadingOf(n, over, behind), c)
                = ReadingOf(10 * n + c, IF behind THEN 10 * over ELSE over, behind)
<1> DEFINE r == ReadingOf(n, over, behind)
<1>1. Dot \notin 0 .. 9 /\ Dot \notin {Minus, Plus} /\ \A d \in {Minus, Plus} : d \notin 0 .. 9
  BY DEF Dot, Minus, Plus
<1>2. c \in Int
  BY DEF Characters
<1>3. r \in Readings /\ r.n = n /\ r.over = over /\ r.behind = behind
  BY DEF ReadingOf, Readings
<1>4. CASE c = Dot
  <2>1. ReadOn(r, c) = ReadingOf(n, over, TRUE)
    BY <1>4 DEF ReadOn, ReadingOf
  <2>2. ReadingOf(n, over, TRUE) \in Readings
    BY DEF ReadingOf, Readings
  <2> QED
    BY <1>1, <1>4, <2>1, <2>2 DEF Digits
<1>5. CASE c # Dot /\ c \in 0 .. 9
  <2> DEFINE q == IF behind THEN 10 * over ELSE over
  <2>1. ReadOn(r, c) = [r EXCEPT !.n = 10 * @ + c, !.over = IF r.behind THEN 10 * @ ELSE @]
    BY <1>5 DEF ReadOn
  <2>2. ReadOn(r, c) = ReadingOf(10 * n + c, q, behind)
    BY <1>3, <2>1 DEF ReadingOf
  <2>3. q \in Int /\ 10 * n + c \in Int
    BY <1>2
  <2>4. ReadingOf(10 * n + c, q, behind) \in Readings
    BY <2>3 DEF ReadingOf, Readings
  <2> QED
    BY <1>1, <1>5, <2>2, <2>4 DEF Digits
<1>6. CASE c # Dot /\ c \notin 0 .. 9
  <2>1. ReadOn(r, c) = r
    BY <1>6 DEF ReadOn
  <2> QED
    BY <1>3, <1>6, <2>1 DEF Digits
<1> QED
  BY <1>4, <1>5, <1>6

LEMMA ReadingUpTo ==
  ASSUME NEW cs \in Seq(Characters)
  PROVE  \E g \in [0 .. Len(cs) -> Readings] :
           /\ Reading(cs) = g[Len(cs)] /\ g[0] = ReadingOf(0, 1, FALSE)
           /\ \A k \in 1 .. Len(cs) : g[k] = ReadOn(g[k - 1], cs[k])
<1> DEFINE n == Len(cs)
           next == [r \in Readings |-> [k \in 1 .. n |-> ReadOn(r, cs[k])]]
           Is(g) == g = [k \in 0 .. n |-> IF k = 0 THEN Unread ELSE ReadOn(g[k - 1], cs[k])]
           g == CHOOSE h : Is(h)
<1>1. n \in Nat /\ \A k \in 1 .. n : cs[k] \in Characters
  OBVIOUS
<1>2. \A r \in Readings, c \in Characters : ReadOn(r, c) \in Readings
  <2> TAKE r \in Readings, c \in Characters
  <2>1. r = ReadingOf(r.n, r.over, r.behind) /\ r.n \in Int /\ r.over \in Int /\ r.behind \in BOOLEAN
    BY DEF Readings, ReadingOf
  <2> QED
    BY <2>1, ReadOnIs
<1>3. next \in [Readings -> [1 .. n -> Readings]]
  BY <1>1, <1>2
<1>4. Unread \in Readings /\ Unread = ReadingOf(0, 1, FALSE)
  BY DEF Unread, Readings, ReadingOf
<1>5. PICK f \in [0 .. n -> Readings] : Follows(f, n, Unread, next)
  <2> HIDE DEF next, n
  <2> QED
    BY <1>1, <1>3, <1>4, Recursion, Zenon
<1>6. Is(f)
  <2>1. \A k \in 0 .. n : f[k] = IF k = 0 THEN Unread ELSE ReadOn(f[k - 1], cs[k])
    <3> TAKE k \in 0 .. n
    <3>1. CASE k = 0
      BY <1>5, <3>1 DEF Follows
    <3>2. CASE k # 0
      <4>1. k \in 1 .. n /\ k - 1 \in 0 .. n
        BY <3>2, <1>1
      <4>2. f[k - 1] \in Readings /\ f[k] = next[f[k - 1]][k]
        BY <4>1, <1>5 DEF Follows
      <4> QED
        BY <4>1, <4>2, <3>2
    <3> QED
      BY <3>1, <3>2
  <2>2. f = [k \in 0 .. n |-> f[k]]
    OBVIOUS
  <2> QED
    BY <2>1, <2>2
<1>7. Is(g)
  BY <1>6
<1>8. Reading(cs) = g[n]
  BY DEF Reading
<1> HIDE DEF g
<1>9. g[0] = Unread /\ \A k \in 1 .. n : g[k] = ReadOn(g[k - 1], cs[k])
  <2>1. \A k \in 0 .. n : g[k] = IF k = 0 THEN Unread ELSE ReadOn(g[k - 1], cs[k])
    BY <1>7
  <2> QED
    BY <1>1, <2>1
<1> DEFINE S == {k \in Nat : k <= n => g[k] \in Readings}
<1>10. 0 \in S
  BY <1>4, <1>9
<1>11. ASSUME NEW k \in Nat, k \in S PROVE k + 1 \in S
  <2> SUFFICES ASSUME k + 1 <= n PROVE g[k + 1] \in Readings
    OBVIOUS
  <2>1. g[k] \in Readings /\ k + 1 \in 1 .. n /\ (k + 1) - 1 = k
    BY <1>11, <1>1
  <2>2. g[k + 1] = ReadOn(g[k], cs[k + 1]) /\ cs[k + 1] \in Characters
    BY <1>1, <1>9, <2>1
  <2> QED
    BY <1>2, <2>1, <2>2
<1>12. \A k \in 0 .. n : g[k] \in Readings
  <2> HIDE DEF S
  <2>1. Nat \subseteq S
    BY <1>10, <1>11, Induct
  <2> QED
    BY <2>1, <1>1 DEF S
<1>13. g \in [0 .. n -> Readings]
  BY <1>7, <1>12
<1> QED
  BY <1>4, <1>8, <1>9, <1>13

(* What was read of a numeral before place i; f counts its digits.         *)
ReadTo(f, s, p, i) ==
  IF i < p THEN ReadingOf(f[IF i < s THEN 0 ELSE i - s], 1, FALSE)
  ELSE ReadingOf(f[i - s - 1], PowerOfTen(i - p), TRUE)

LEMMA NumeralHas ==
  ASSUME NEW cs, NEW s, NEW p, NEW ds, Numeral(cs, s, p, ds)
  PROVE  /\ Len(cs) \in Nat /\ Len(ds) \in Nat /\ s \in {0, 1} /\ p \in s + 1 .. Len(cs) + 1
         /\ Len(ds) = IF p <= Len(cs) THEN Len(cs) - s - 1 ELSE Len(cs) - s
         /\ cs \in Seq(Characters) /\ \A j \in 1 .. Len(cs) : cs[j] \in Characters
         /\ ds \in Seq(Int)
<1>1. ds \in Seq(0 .. 9) /\ cs \in Seq(Characters)
  BY DEF Numeral, Digits
<1>2. \A j \in 1 .. Len(ds) : ds[j] \in Int
  BY <1>1
<1>3. ds \in Seq(Int)
  BY <1>1, <1>2
<1>4. \A j \in 1 .. Len(cs) : cs[j] \in Characters
  BY <1>1
<1> QED
  BY <1>1, <1>3, <1>4 DEF Numeral

LEMMA NumeralStep ==
  ASSUME NEW cs, NEW s, NEW p, NEW ds, Numeral(cs, s, p, ds),
         NEW f \in [0 .. Len(ds) -> Int], Counted(f, ds), NEW i \in 0 .. Len(cs) - 1
  PROVE  ReadOn(ReadTo(f, s, p, i), cs[i + 1]) = ReadTo(f, s, p, i + 1)
<1> DEFINE k == i + 1
           c == cs[i + 1]
           g == ReadTo(f, s, p, i)
<1>1. /\ Len(cs) \in Nat /\ Len(ds) \in Nat /\ s \in {0, 1} /\ p \in s + 1 .. Len(cs) + 1
      /\ Len(ds) = IF p <= Len(cs) THEN Len(cs) - s - 1 ELSE Len(cs) - s
      /\ k \in 1 .. Len(cs) /\ cs[k] \in Characters
  BY NumeralHas
<1>2. \A j \in 0 .. Len(ds) : f[j] \in Int
  OBVIOUS
<1>3. \/ k = 1 /\ s = 1 /\ cs[k] \in {Minus, Plus} /\ k < p
      \/ k = p /\ cs[k] = Dot
      \/ k > s /\ k < p /\ k - s \in 1 .. Len(ds) /\ cs[k] = ds[k - s] /\ cs[k] \in Digits
      \/ k > p /\ k - s - 1 \in 1 .. Len(ds) /\ cs[k] = ds[k - s - 1] /\ cs[k] \in Digits
  <2> HIDE DEF k
  <2> QED
    BY <1>1, NumeralPlaces
<1>4. i \in Nat /\ k = i + 1 /\ c = cs[k]
  OBVIOUS
<1> HIDE DEF k, c, g
<1>5. CASE k = 1 /\ s = 1 /\ cs[k] \in {Minus, Plus} /\ k < p
  <2>1. i = 0 /\ i < p /\ i < s /\ ~(k < s) /\ k - s = 0
    BY <1>4, <1>5
  <2>2. g = ReadingOf(f[0], 1, FALSE) /\ ReadTo(f, s, p, k) = ReadingOf(f[0], 1, FALSE)
    BY <1>5, <2>1 DEF g, ReadTo
  <2>3. f[0] \in Int /\ 1 \in Int /\ FALSE \in BOOLEAN
    BY <1>1, <1>2
  <2>4. ReadOn(ReadingOf(f[0], 1, FALSE), cs[k]) = ReadingOf(f[0], 1, FALSE)
    BY <1>1, <1>5, <2>3, ReadOnIs, Zenon
  <2> QED
    BY <1>4, <2>2, <2>4 DEF g
<1>6. CASE k = p /\ cs[k] = Dot
  <2>1. i < p /\ ~(i < s) /\ ~(k < p) /\ k - s - 1 = i - s /\ k - p = 0 /\ i - s \in 0 .. Len(ds)
    BY <1>1, <1>4, <1>6
  <2>2. PowerOfTen(0) = 1
    BY PowersOfTen
  <2>3. g = ReadingOf(f[i - s], 1, FALSE) /\ ReadTo(f, s, p, k) = ReadingOf(f[i - s], 1, TRUE)
    BY <2>1, <2>2 DEF g, ReadTo
  <2>4. f[i - s] \in Int /\ 1 \in Int /\ FALSE \in BOOLEAN
    BY <1>2, <2>1
  <2>5. ReadOn(ReadingOf(f[i - s], 1, FALSE), cs[k]) = ReadingOf(f[i - s], 1, TRUE)
    BY <1>1, <1>6, <2>4, ReadOnIs, Zenon
  <2> QED
    BY <1>4, <2>3, <2>5 DEF g
<1>7. CASE k > s /\ k < p /\ k - s \in 1 .. Len(ds) /\ cs[k] = ds[k - s] /\ cs[k] \in Digits
  <2>1. i < p /\ ~(i < s) /\ ~(k < s) /\ (k - s) - 1 = i - s /\ i - s \in 0 .. Len(ds)
    BY <1>1, <1>4, <1>7
  <2>2. f[k - s] = 10 * f[i - s] + cs[k]
    BY <1>7, <2>1 DEF Counted
  <2>3. g = ReadingOf(f[i - s], 1, FALSE) /\ ReadTo(f, s, p, k) = ReadingOf(10 * f[i - s] + cs[k], 1, FALSE)
    BY <1>7, <2>1, <2>2 DEF g, ReadTo
  <2>4. f[i - s] \in Int /\ 1 \in Int /\ FALSE \in BOOLEAN
    BY <1>2, <2>1
  <2>5. ReadOn(ReadingOf(f[i - s], 1, FALSE), cs[k]) = ReadingOf(10 * f[i - s] + cs[k], 1, FALSE)
    BY <1>1, <1>7, <2>4, ReadOnIs
  <2> QED
    BY <1>4, <2>3, <2>5 DEF g
<1>8. CASE k > p /\ k - s - 1 \in 1 .. Len(ds) /\ cs[k] = ds[k - s - 1] /\ cs[k] \in Digits
  <2> DEFINE b == PowerOfTen(i - p)
  <2>1. /\ ~(i < p) /\ ~(k < p) /\ (k - s - 1) - 1 = i - s - 1 /\ i - s - 1 \in 0 .. Len(ds)
        /\ i - p \in Nat /\ k - p = (i - p) + 1
    <3>1. /\ i \in Nat /\ s \in Int /\ p \in Int /\ Len(ds) \in Nat
          /\ k = i + 1 /\ k > p /\ k - s - 1 \in 1 .. Len(ds)
      BY <1>1, <1>4, <1>8
    <3>2. ~(i < p) /\ ~(k < p) /\ i - p \in Nat /\ k - p = (i - p) + 1
      BY ONLY <3>1
    <3>3. (k - s - 1) - 1 = i - s - 1 /\ i - s - 1 \in 0 .. Len(ds)
      BY ONLY <3>1
    <3> QED
      BY <3>2, <3>3
  <2>2. f[k - s - 1] = 10 * f[i - s - 1] + cs[k]
    BY <1>8, <2>1 DEF Counted
  <2>3. b \in Int /\ PowerOfTen(k - p) = 10 * b
    BY <2>1, PowersOfTen
  <2>4. g = ReadingOf(f[i - s - 1], b, TRUE) /\ ReadTo(f, s, p, k) = ReadingOf(10 * f[i - s - 1] + cs[k], 10 * b, TRUE)
    BY <2>1, <2>2, <2>3 DEF g, ReadTo
  <2> HIDE DEF b
  <2>5. f[i - s - 1] \in Int /\ TRUE \in BOOLEAN
    BY <1>2, <2>1
  <2>6. ReadOn(ReadingOf(f[i - s - 1], b, TRUE), cs[k]) = ReadingOf(10 * f[i - s - 1] + cs[k], 10 * b, TRUE)
    BY <1>1, <1>8, <2>3, <2>5, ReadOnIs
  <2> QED
    BY <1>4, <2>4, <2>6 DEF g
<1>9. ReadOn(g, cs[k]) = ReadTo(f, s, p, k)
  BY <1>3, <1>5, <1>6, <1>7, <1>8, <1>4 DEF g
<1> QED
  BY <1>9 DEF k, g

(* A numeral is read as the number of its digits, over a power of ten with *)
(* as many zeros as it has digits behind the point.                        *)
LEMMA NumeralIsRead ==
  ASSUME NEW cs, NEW s, NEW p, NEW ds, Numeral(cs, s, p, ds)
  PROVE  /\ Reading(cs).n = NumberOf(ds)
         /\ Len(ds) - (p - s - 1) \in Nat
         /\ Reading(cs).over = PowerOfTen(Len(ds) - (p - s - 1))
<1>1. /\ Len(cs) \in Nat /\ Len(ds) \in Nat /\ s \in {0, 1} /\ p \in s + 1 .. Len(cs) + 1
      /\ Len(ds) = IF p <= Len(cs) THEN Len(cs) - s - 1 ELSE Len(cs) - s
      /\ cs \in Seq(Characters) /\ ds \in Seq(Int)
  BY NumeralHas
<1>3. PICK f \in [0 .. Len(ds) -> Int] : NumberOf(ds) = f[Len(ds)] /\ Counted(f, ds)
  BY <1>1, NumberUpTo
<1>4. PICK g \in [0 .. Len(cs) -> Readings] :
        /\ Reading(cs) = g[Len(cs)] /\ g[0] = ReadingOf(0, 1, FALSE)
        /\ \A k \in 1 .. Len(cs) : g[k] = ReadOn(g[k - 1], cs[k])
  BY <1>1, ReadingUpTo
<1> DEFINE S == {i \in Nat : i <= Len(cs) => g[i] = ReadTo(f, s, p, i)}
<1>5. 0 \in S
  <2>0. 0 < p /\ (IF 0 < s THEN 0 ELSE 0 - s) = 0
    BY <1>1
  <2>1. ReadTo(f, s, p, 0) = ReadingOf(f[0], 1, FALSE)
    BY <2>0 DEF ReadTo
  <2> QED
    BY <1>3, <1>4, <2>1 DEF Counted
<1>6. ASSUME NEW i \in Nat, i \in S PROVE i + 1 \in S
  <2> SUFFICES ASSUME i + 1 <= Len(cs) PROVE g[i + 1] = ReadTo(f, s, p, i + 1)
    OBVIOUS
  <2>1. g[i] = ReadTo(f, s, p, i) /\ i \in 0 .. Len(cs) - 1 /\ i + 1 \in 1 .. Len(cs) /\ (i + 1) - 1 = i
    BY <1>1, <1>6
  <2>2. g[i + 1] = ReadOn(g[i], cs[i + 1])
    BY <1>4, <2>1
  <2>3. ReadOn(ReadTo(f, s, p, i), cs[i + 1]) = ReadTo(f, s, p, i + 1)
    BY <1>3, <2>1, NumeralStep
  <2> QED
    BY <2>1, <2>2, <2>3
<1>7. Len(cs) \in S
  <2> HIDE DEF S
  <2> QED
    BY <1>1, <1>5, <1>6, Induct
<1>8. Reading(cs) = ReadTo(f, s, p, Len(cs))
  BY <1>1, <1>4, <1>7
<1>9. CASE Len(cs) < p
  <2>1. p = Len(cs) + 1 /\ Len(ds) = Len(cs) - s /\ ~(Len(cs) < s) /\ Len(ds) - (p - s - 1) = 0
    BY <1>1, <1>9
  <2>2. Reading(cs) = ReadingOf(f[Len(ds)], 1, FALSE)
    BY <1>8, <1>9, <2>1 DEF ReadTo
  <2>3. PowerOfTen(0) = 1
    BY PowersOfTen
  <2> QED
    BY <1>3, <2>1, <2>2, <2>3 DEF ReadingOf
<1>10. CASE ~(Len(cs) < p)
  <2>1. Len(ds) = Len(cs) - s - 1 /\ Len(ds) - (p - s - 1) = Len(cs) - p /\ Len(cs) - p \in Nat
    BY <1>1, <1>10
  <2>2. Reading(cs) = ReadingOf(f[Len(ds)], PowerOfTen(Len(cs) - p), TRUE)
    BY <1>8, <1>10, <2>1 DEF ReadTo
  <2> QED
    BY <1>3, <2>1, <2>2 DEF ReadingOf
<1> QED
  BY <1>9, <1>10

-----------------------------------------------------------------------------
(* A set of numbers has a least, and so a text a first point, if any.      *)
LEMMA HasLeast ==
  ASSUME NEW T \in SUBSET Nat, T # {}
  PROVE  \E x \in T : \A y \in T : x <= y
<1> DEFINE R == {p \in Nat \X Nat : p[1] < p[2]}
<1>1. PICK x \in T : \A y \in T : <<y, x>> \notin R
  <2>1. IsWellFoundedOn(R, Nat)
    BY NatLessThanWellFounded DEF OpToRel
  <2> HIDE DEF R
  <2> QED
    BY <2>1, WFMin, Zenon
<1>2. \A y \in T : ~(y < x)
  <2> TAKE y \in T
  <2>1. <<y, x>> \in Nat \X Nat
    OBVIOUS
  <2> QED
    BY <1>1, <2>1
<1> QED
  BY <1>2

LEMMA PointIs ==
  ASSUME NEW cs \in Seq(Characters)
  PROVE  /\ Point(cs) \in 1 .. Len(cs) + 1
         /\ Point(cs) <= Len(cs) => cs[Point(cs)] = Dot
<1> DEFINE T == {p \in 1 .. Len(cs) + 1 : p <= Len(cs) => cs[p] = Dot}
           Is(p) == (p <= Len(cs) => cs[p] = Dot) /\ \A i \in 1 .. p - 1 : cs[i] # Dot
<1>1. Len(cs) \in Nat /\ T \in SUBSET Nat /\ Len(cs) + 1 \in T
  OBVIOUS
<1>2. PICK p \in T : \A y \in T : p <= y
  <2> HIDE DEF T
  <2> QED
    BY <1>1, HasLeast
<1>3. Is(p)
  <2>1. ASSUME NEW i \in 1 .. p - 1, cs[i] = Dot PROVE FALSE
    <3>1. i \in T /\ ~(p <= i)
      BY <1>1, <2>1
    <3> QED
      BY <1>2, <3>1
  <2> QED
    BY <2>1
<1>4. \E q \in 1 .. Len(cs) + 1 : Is(q)
  BY <1>3
<1>5. Point(cs) = CHOOSE q \in 1 .. Len(cs) + 1 : Is(q)
  BY DEF Point
<1> HIDE DEF Is
<1>6. Point(cs) \in 1 .. Len(cs) + 1 /\ Is(Point(cs))
  BY <1>4, <1>5, Zenon
<1> QED
  BY <1>6 DEF Is

(* What is in a place of a part of a text, and of two that are joined.     *)
LEMMA TailIs ==
  ASSUME NEW cs \in Seq(Characters), cs # <<>>
  PROVE  /\ Len(cs) \in Nat \ {0} /\ Tail(cs) \in Seq(Characters) /\ Len(Tail(cs)) = Len(cs) - 1
         /\ Head(cs) = cs[1] /\ \A i \in 1 .. Len(cs) - 1 : Tail(cs)[i] = cs[i + 1]
OBVIOUS

LEMMA PartIs ==
  ASSUME NEW S, NEW cs \in Seq(S), NEW a \in 1 .. Len(cs) + 1, NEW b \in 0 .. Len(cs), a <= b + 1
  PROVE  /\ SubSeq(cs, a, b) \in Seq(S) /\ Len(SubSeq(cs, a, b)) = b - a + 1
         /\ \A i \in 1 .. b - a + 1 : SubSeq(cs, a, b)[i] = cs[a + i - 1]
OBVIOUS

LEMMA JoinedIs ==
  ASSUME NEW S, NEW s \in Seq(S), NEW t \in Seq(S)
  PROVE  /\ s \o t \in Seq(S) /\ Len(s \o t) = Len(s) + Len(t)
         /\ \A i \in 1 .. Len(s) : (s \o t)[i] = s[i]
         /\ \A i \in Len(s) + 1 .. Len(s) + Len(t) : (s \o t)[i] = t[i - Len(s)]
OBVIOUS

(* Digits are the digits they are said to be.                              *)
LEMMA DigitsAre ==
  ASSUME NEW ds \in Seq(Characters), AreDigits(ds) PROVE ds \in Seq(Digits)
<1>1. \A i \in 1 .. Len(ds) : ds[i] \in Digits
  BY DEF AreDigits, Digits
<1> QED
  BY <1>1

(* A text that is a numeral means its digits over the power of ten.        *)
LEMMA NumeralMeans ==
  ASSUME NEW cs, NEW s, NEW p, NEW ds, Numeral(cs, s, p, ds), p > s + 1,
         NEW u, NEW n \in Int, NEW d \in Int, IsANumber(u), Fraction(u) = <<n, d>>,
         n * PowerOfTen(Len(ds) - (p - s - 1)) = (Sign(cs) * NumberOf(ds)) * d
  PROVE  Means(u, Text(cs))
<1> DEFINE v == Text(cs)
<1>1. Reading(cs).n = NumberOf(ds) /\ Reading(cs).over = PowerOfTen(Len(ds) - (p - s - 1))
  BY NumeralIsRead
<1>2. IsNumeric(cs)
  BY NumeralIsNumeric
<1>3. v.form = "text" /\ v.chars = cs
  BY DEF Text
<1> HIDE DEF v
<1>4. Fraction(v) = <<Sign(cs) * NumberOf(ds), PowerOfTen(Len(ds) - (p - s - 1))>>
  BY <1>1, <1>3 DEF Fraction
<1>5. IsANumber(v)
  BY <1>2, <1>3 DEF IsANumber
<1>6. Fraction(u)[1] * Fraction(v)[2] = Fraction(v)[1] * Fraction(u)[2]
  BY <1>4
<1>7. Means(u, v)
  BY <1>5, <1>6 DEF Means
<1> QED
  BY <1>7 DEF v

(* An integer that is read from a text is the one the text means.          *)
LEMMA ParseLongIs ==
  ASSUME NEW cs \in Seq(Characters), ParseLong(cs) # Refusal
  PROVE  \E n \in Int : ParseLong(cs) = Integer("BIGINT", n) /\ Means(Number(2 * n), Text(cs))
<1> DEFINE signed == cs # <<>> /\ Head(cs) \in {Minus, Plus}
           ds == IF signed THEN Tail(cs) ELSE cs
           N == NumberOf(ds)
           n == IF signed /\ Head(cs) = Minus THEN -N ELSE N
           s == IF signed THEN 1 ELSE 0
           p == Len(cs) + 1
<1>1. ds # <<>> /\ AreDigits(ds) /\ Long(n) # Refusal /\ ParseLong(cs) = Long(n)
  BY DEF ParseLong
<1>2. ParseLong(cs) = Integer("BIGINT", n)
  BY <1>1 DEF Long
<1>3. cs # <<>> /\ ds \in Seq(Characters) /\ Len(cs) \in Nat /\ Len(ds) = Len(cs) - s /\ Len(ds) > 0
  <2>1. CASE signed
    BY <1>1, <2>1, TailIs
  <2>2. CASE ~signed
    BY <1>1, <2>2
  <2> QED
    BY <2>1, <2>2
<1>4. \A j \in 1 .. Len(ds) : cs[s + j] = ds[j]
  <2>1. CASE signed
    BY <1>3, <2>1, TailIs
  <2>2. CASE ~signed
    BY <1>3, <2>2
  <2> QED
    BY <2>1, <2>2
<1>5. Head(cs) = cs[1]
  BY <1>3, TailIs
<1>6. ds \in Seq(Digits) /\ (s = 1 => cs[1] \in {Minus, Plus}) /\ s \in {0, 1}
  <2>1. s \in {0, 1} /\ (s = 1 => cs[1] \in {Minus, Plus})
    BY <1>5
  <2> HIDE DEF ds, s
  <2>2. ds \in Seq(Digits)
    BY <1>1, <1>3, DigitsAre, Zenon
  <2> QED
    BY <2>1, <2>2
<1>7. N \in Int /\ n \in Int
  <2>1. ds \in Seq(Int)
    BY <1>6 DEF Digits
  <2>2. N \in Int
    BY <2>1, NumberIsInt
  <2> QED
    BY <2>2
<1>8. n = Sign(cs) * N
  <2>1. cs[1] = Minus <=> signed /\ Head(cs) = Minus
    BY <1>3, <1>5
  <2> HIDE DEF N, signed
  <2> QED
    BY <1>3, <1>7, <2>1 DEF Sign
<1> HIDE DEF n, N, ds, s, signed
<1>9. Numeral(cs, s, p, ds) /\ p > s + 1 /\ Len(ds) - (p - s - 1) = 0
  BY <1>3, <1>4, <1>6 DEF Numeral
<1>10. 2 * n * PowerOfTen(0) = (Sign(cs) * N) * 2
  BY <1>7, <1>8, PowersOfTen
<1>11. IsANumber(Number(2 * n)) /\ Fraction(Number(2 * n)) = <<2 * n, 2>>
  BY DEF IsANumber, Fraction, Number
<1>12. Means(Number(2 * n), Text(cs))
  <2>1. 2 * n \in Int /\ 2 \in Int
    BY <1>7
  <2> HIDE DEF p
  <2> QED
    BY <1>9, <1>10, <1>11, <2>1, NumeralMeans DEF N
<1> QED
  BY <1>2, <1>7, <1>12

(* A decimal that is read from a text is the one the text means.           *)
LEMMA ParseDecimalIs ==
  ASSUME NEW cs \in Seq(Characters), NEW type, type.scale \in Nat, ParseScaledDecimal(cs, type) # Refusal
  PROVE  \E n \in Int : /\ ParseScaledDecimal(cs, type) = Held("DECIMAL", Quotient(n, type.scale))
                        /\ Means(Quotient(n, type.scale), Text(cs))
<1> DEFINE negative == cs # <<>> /\ Head(cs) = Minus
           us == IF negative THEN Tail(cs) ELSE cs
           at == Point(us)
           whole == SubSeq(us, 1, at - 1)
           fraction == SubSeq(us, at + 1, Len(us))
           k == type.scale - Len(fraction)
           ds == whole \o fraction
           m == NumberOf(ds \o Zeros(k))
           n == IF negative THEN -m ELSE m
           s == IF negative THEN 1 ELSE 0
           p == s + at
<1>1. /\ whole # <<>> /\ AreDigits(ds) /\ ~(Len(fraction) > type.scale)
      /\ ParseScaledDecimal(cs, type) = Held("DECIMAL", Quotient(n, type.scale))
  <2> DEFINE wrong == whole = <<>> \/ ~AreDigits(ds) \/ Len(fraction) > type.scale
             large == m >= PowerOfTen(type.width)
             value == Held("DECIMAL", Quotient(n, type.scale))
  <2>1. ParseScaledDecimal(cs, type) = IF wrong THEN Refusal ELSE IF large THEN Refusal ELSE value
    BY Zenon DEF ParseScaledDecimal
  <2> HIDE DEF large, value
  <2>2. ~wrong /\ ParseScaledDecimal(cs, type) = value
    <3> HIDE DEF wrong
    <3> QED
      BY <2>1
  <2> HIDE DEF whole, ds, fraction
  <2> QED
    BY <2>2, Zenon DEF value, wrong
<1>2. us \in Seq(Characters) /\ Len(us) \in Nat /\ Len(us) = Len(cs) - s /\ \A j \in 1 .. Len(us) : us[j] = cs[s + j]
  <2>1. CASE negative
    BY <2>1, TailIs
  <2>2. CASE ~negative
    BY <2>2
  <2> QED
    BY <2>1, <2>2
<1>3. s \in {0, 1} /\ (s = 1 => cs[1] = Minus) /\ Len(cs) \in Nat /\ (cs # <<>> => Head(cs) = cs[1])
  BY TailIs
<1> HIDE DEF us
<1>4. at \in 1 .. Len(us) + 1 /\ (at <= Len(us) => us[at] = Dot)
  BY <1>2, PointIs
<1> HIDE DEF at
<1>5. /\ whole \in Seq(Characters) /\ Len(whole) = at - 1 /\ \A i \in 1 .. at - 1 : whole[i] = us[i]
  <2>1. 1 \in 1 .. Len(us) + 1 /\ at - 1 \in 0 .. Len(us) /\ 1 <= (at - 1) + 1
    BY <1>2, <1>4
  <2>2. /\ SubSeq(us, 1, at - 1) \in Seq(Characters) /\ Len(SubSeq(us, 1, at - 1)) = (at - 1) - 1 + 1
        /\ \A i \in 1 .. (at - 1) - 1 + 1 : SubSeq(us, 1, at - 1)[i] = us[1 + i - 1]
    BY <1>2, <2>1, PartIs
  <2>3. at \in Int /\ (at - 1) - 1 + 1 = at - 1 /\ \A i \in 1 .. at - 1 : 1 + i - 1 = i
    BY <1>4
  <2> QED
    BY <2>2, <2>3
<1>6. /\ fraction \in Seq(Characters)
      /\ Len(fraction) = IF at <= Len(us) THEN Len(us) - at ELSE 0
      /\ \A i \in 1 .. Len(fraction) : fraction[i] = us[at + i]
  <2>1. CASE at <= Len(us)
    <3>1. at + 1 \in 1 .. Len(us) + 1 /\ Len(us) \in 0 .. Len(us) /\ at + 1 <= Len(us) + 1
      BY <1>2, <1>4, <2>1
    <3>2. /\ fraction \in Seq(Characters) /\ Len(fraction) = Len(us) - (at + 1) + 1
          /\ \A i \in 1 .. Len(us) - (at + 1) + 1 : fraction[i] = us[(at + 1) + i - 1]
      BY <1>2, <3>1, PartIs
    <3>3. Len(us) - (at + 1) + 1 = Len(us) - at /\ \A i \in 1 .. Len(us) - at : (at + 1) + i - 1 = at + i
      BY <1>2, <1>4
    <3> QED
      BY <2>1, <3>2, <3>3
  <2>2. CASE at = Len(us) + 1
    <3>1. fraction = <<>>
      BY <1>2, <2>2
    <3> QED
      BY <1>2, <2>2, <3>1
  <2> QED
    BY <1>2, <1>4, <2>1, <2>2
<1> HIDE DEF whole, fraction
<1>7. /\ ds \in Seq(Characters) /\ Len(ds) = (at - 1) + Len(fraction)
      /\ \A i \in 1 .. at - 1 : ds[i] = us[i]
      /\ \A i \in at .. (at - 1) + Len(fraction) : ds[i] = us[i + 1]
  <2>1. /\ ds \in Seq(Characters) /\ Len(ds) = Len(whole) + Len(fraction)
        /\ \A i \in 1 .. Len(whole) : ds[i] = whole[i]
        /\ \A i \in Len(whole) + 1 .. Len(whole) + Len(fraction) : ds[i] = fraction[i - Len(whole)]
    BY <1>5, <1>6, JoinedIs
  <2>2. ASSUME NEW i \in at .. (at - 1) + Len(fraction) PROVE ds[i] = us[i + 1]
    <3>1. i - (at - 1) \in 1 .. Len(fraction) /\ at + (i - (at - 1)) = i + 1 /\ i \in Len(whole) + 1 .. Len(whole) + Len(fraction)
      BY <1>2, <1>4, <1>5, <1>6
    <3>2. fraction[i - (at - 1)] = us[at + (i - (at - 1))]
      BY <1>6, <3>1
    <3> QED
      BY <1>5, <2>1, <3>1, <3>2
  <2> QED
    BY <1>5, <2>1, <2>2
<1> HIDE DEF ds
<1>8. ds \in Seq(Digits) /\ ds \in Seq(Int)
  <2>1. ds \in Seq(Digits)
    BY <1>1, <1>7, DigitsAre
  <2> QED
    BY <2>1 DEF Digits
<1>9. /\ Len(fraction) \in Nat /\ k \in Nat /\ at > 1
  <2>1. Len(whole) # 0
    BY <1>1, <1>5
  <2> QED
    BY <1>1, <1>2, <1>4, <1>5, <1>6, <2>1
<1>10. Numeral(cs, s, p, ds) /\ p > s + 1 /\ Len(ds) - (p - s - 1) = Len(fraction)
  <2>1. p \in s + 1 .. Len(cs) + 1 /\ (p <= Len(cs) <=> at <= Len(us)) /\ p - s - 1 = at - 1 /\ p - s = at
    BY <1>2, <1>3, <1>4
  <2>2. Len(ds) = IF p <= Len(cs) THEN Len(cs) - s - 1 ELSE Len(cs) - s
    BY <1>2, <1>3, <1>4, <1>6, <1>7, <2>1
  <2>3. p <= Len(cs) => cs[p] = Dot
    BY <1>2, <1>4, <2>1
  <2>4. ASSUME NEW j \in 1 .. p - s - 1 PROVE cs[s + j] = ds[j]
    <3>1. j \in 1 .. at - 1 /\ j \in 1 .. Len(us)
      BY <1>2, <1>4, <2>1
    <3> QED
      BY <1>2, <1>7, <3>1
  <2>5. ASSUME NEW j \in p - s .. Len(ds) PROVE cs[s + 1 + j] = ds[j]
    <3>1. j \in at .. (at - 1) + Len(fraction) /\ j + 1 \in 1 .. Len(us) /\ s + (j + 1) = s + 1 + j
      <4>1. /\ Len(us) \in Nat /\ Len(fraction) \in Int /\ at \in 1 .. Len(us) + 1 /\ s \in Int /\ j \in Int
            /\ Len(fraction) = IF at <= Len(us) THEN Len(us) - at ELSE 0
            /\ j >= at /\ j <= (at - 1) + Len(fraction)
        BY <1>2, <1>3, <1>4, <1>6, <1>7, <2>1
      <4> QED
        BY ONLY <4>1
    <3>2. ds[j] = us[j + 1] /\ us[j + 1] = cs[s + (j + 1)]
      BY <1>2, <1>7, <3>1
    <3> QED
      BY <3>1, <3>2
  <2>6. p > s + 1 /\ Len(ds) - (p - s - 1) = Len(fraction)
    BY <1>3, <1>4, <1>7, <1>9, <2>1
  <2> QED
    BY <1>3, <1>8, <2>1, <2>2, <2>3, <2>4, <2>5, <2>6 DEF Numeral
<1> DEFINE N == NumberOf(ds)
           a == PowerOfTen(k)
           b == PowerOfTen(Len(fraction))
           c == PowerOfTen(type.scale)
<1>11. m = N * a /\ N \in Int /\ a \in Int /\ b \in Int /\ c \in Int
  BY <1>8, <1>9, ZerosMultiply, NumberIsInt, PowersOfTen
<1>12. c = a * b
  <2>1. type.scale = k + Len(fraction)
    BY <1>9
  <2> QED
    BY <1>9, <2>1, PowersMultiply
<1>13. Sign(cs) = IF negative THEN -1 ELSE 1
  BY <1>3 DEF Sign
<1> HIDE DEF k, m, p, N, a, b, c, negative
<1>14. n \in Int /\ n * b = (Sign(cs) * N) * c
  <2>1. m \in Int
    BY <1>11
  <2>2. m * b = N * c
    BY <1>11, <1>12
  <2>3. CASE negative
    <3>1. n = -m /\ Sign(cs) = -1
      BY <1>13, <2>3
    <3>2. (-m) * b = -(m * b) /\ ((-1) * N) * c = -(N * c)
      BY <1>11, <2>1
    <3> QED
      BY <2>1, <2>2, <3>1, <3>2
  <2>4. CASE ~negative
    <3>1. n = m /\ Sign(cs) = 1
      BY <1>13, <2>4
    <3> QED
      BY <1>11, <2>1, <2>2, <3>1
  <2> QED
    BY <2>3, <2>4
<1> HIDE DEF n, s
<1> DEFINE u == Quotient(n, type.scale)
<1>15. IsANumber(u) /\ Fraction(u) = <<n, c>>
  BY DEF IsANumber, Fraction, Quotient, c
<1>16. n * PowerOfTen(Len(ds) - (p - s - 1)) = (Sign(cs) * NumberOf(ds)) * c
  BY <1>10, <1>14 DEF b, N
<1> HIDE DEF u
<1>17. Means(u, Text(cs))
  BY <1>10, <1>11, <1>14, <1>15, <1>16, NumeralMeans
<1> QED
  BY <1>1, <1>14, <1>17 DEF u

-----------------------------------------------------------------------------
(* What a result shows of a value is that value.  Of these it is as it is: *)
Plain == {"NULL", "BOOLEAN", "DOUBLE", "VARCHAR", "BLOB"}

(* A count of units is so many seconds and a part of one.                  *)
LEMMA Divided ==
  ASSUME NEW n \in Int, NEW u \in Nat, u > 0
  PROVE  n % u \in 0 .. u - 1 /\ (n \div u) * u + (n % u) = n
<1>1. n % u \in 0 .. u - 1
  OBVIOUS
<1>2. n = u * (n \div u) + (n % u)
  OBVIOUS
<1>3. n \div u \in Int /\ n % u \in Int
  OBVIOUS
<1>4. \A q \in Int : u * q = q * u
  OBVIOUS
<1>5. u * (n \div u) = (n \div u) * u
  BY <1>3, <1>4
<1> QED
  BY <1>1, <1>2, <1>5

(* A value of its own, or of a list or a map, is shown as it is, unless    *)
(* what shows it is refused.                                               *)
LEMMA ScalarKept ==
  ASSUME NEW h, IsScalar(h), ShownScalar(h) # Refusal
  PROVE  ScalarShown(h, ShownScalar(h))
<1> DEFINE v == ShownScalar(h)
<1>1. CASE h.kind \in Plain
  <2>1. v = h.v
    BY <1>1 DEF ShownScalar, Plain
  <2> HIDE DEF v
  <2>2. ScalarShown(h, v)
    BY <1>1, <2>1 DEF ScalarShown, Plain
  <2> QED
    BY <2>2 DEF v
<1>2. CASE h.kind = "BIGINT"
  <2>1. h.v = Number(h.v.halves) /\ h.v.form = "number"
    BY <1>2 DEF IsScalar, Number
  <2>2. v = IF h.v.halves \in -2 * MaxSafe .. 2 * MaxSafe THEN h.v ELSE Printed(h.v)
    BY <1>2 DEF ShownScalar
  <2> HIDE DEF v
  <2>3. Plainly(v) = h.v /\ IsExact(v)
    BY <2>1, <2>2 DEF Plainly, IsExact, Printed
  <2>4. ScalarShown(h, v)
    BY <1>2, <2>3 DEF ScalarShown
  <2> QED
    BY <2>4 DEF v
<1>3. CASE h.kind \in {"HUGEINT", "DECIMAL"}
  <2>1. v = Printed(h.v)
    BY <1>3 DEF ShownScalar
  <2> HIDE DEF v
  <2>2. Plainly(v) = h.v /\ IsExact(v)
    BY <2>1 DEF Plainly, IsExact, Printed
  <2>3. ScalarShown(h, v)
    BY <1>3, <2>2 DEF ScalarShown
  <2> QED
    BY <2>3 DEF v
<1>4. CASE h.kind \in {"TIMESTAMP", "TIME"}
  <2> DEFINE t == h.v
  <2>1. t.units \in Nat \ {0} /\ t.n \in Int
    BY <1>4 DEF IsScalar
  <2>2. v = Moment(t.n \div t.units, t.n % t.units)
    <3>1. CASE h.kind = "TIMESTAMP"
      BY <3>1 DEF ShownScalar, InSeconds
    <3>2. CASE h.kind = "TIME"
      <4>1. v = IF h.v.n < Day * h.v.units THEN InSeconds(h.v) ELSE Refusal
        BY <3>2 DEF ShownScalar
      <4> QED
        BY <4>1 DEF InSeconds
    <3> QED
      BY <1>4, <3>1, <3>2
  <2> HIDE DEF v, t
  <2>3. t.n % t.units \in 0 .. t.units - 1 /\ (t.n \div t.units) * t.units + (t.n % t.units) = t.n
    <3> DEFINE n == t.n
               u == t.units
    <3>1. n \in Int /\ u \in Nat /\ u > 0
      BY <2>1
    <3> HIDE DEF n, u
    <3>2. n % u \in 0 .. u - 1 /\ (n \div u) * u + (n % u) = n
      BY <3>1, Divided
    <3> QED
      BY <3>2 DEF n, u
  <2>4. IsMoment(t, v)
    BY <2>2, <2>3 DEF IsMoment, Moment
  <2>5. ScalarShown(h, v)
    BY <1>4, <2>4 DEF ScalarShown, t
  <2> QED
    BY <2>5 DEF v
<1>5. CASE h.kind = "NOT FINITE"
  BY <1>5 DEF ShownScalar
<1>6. h.kind \in Plain \cup {"BIGINT", "HUGEINT", "DECIMAL", "TIMESTAMP", "TIME", "NOT FINITE"}
  BY DEF IsScalar, Plain
<1> QED
  BY <1>1, <1>2, <1>3, <1>4, <1>5, <1>6

LEMMA ValueKept ==
  ASSUME NEW h, IsComputed(h), ValueToJson(h) # Refusal
  PROVE  IsShown(h, ValueToJson(h))
<1> DEFINE v == ValueToJson(h)
<1>1. CASE h.kind = "LIST"
  <2> DEFINE values == [i \in DOMAIN h.v.values |-> ShownScalar(h.v.values[i])]
  <2>1. v = AllOf(values)
    BY <1>1 DEF ValueToJson
  <2>2. v = Listed(values) /\ \A i \in DOMAIN h.v.values : ShownScalar(h.v.values[i]) # Refusal
    BY <2>1 DEF AllOf
  <2>3. v.values = values
    BY <2>2 DEF Listed
  <2>4. ASSUME NEW i \in DOMAIN h.v.values PROVE ScalarShown(h.v.values[i], v.values[i])
    <3>1. IsScalar(h.v.values[i])
      BY <1>1 DEF IsComputed
    <3>2. ScalarShown(h.v.values[i], ShownScalar(h.v.values[i]))
      BY <2>2, <3>1, ScalarKept
    <3>3. v.values[i] = ShownScalar(h.v.values[i])
      BY <2>3
    <3> QED
      BY <3>2, <3>3
  <2>5. DOMAIN v.values = DOMAIN h.v.values
    BY <2>3
  <2> HIDE DEF v
  <2>6. IsShown(h, v)
    BY <1>1, <2>4, <2>5 DEF IsShown
  <2> QED
    BY <2>6 DEF v
<1>2. CASE h.kind = "MAP"
  <2> DEFINE KeyOf(i) == ShownScalar(h.v.values[i].key)
             ValueOf(i) == ShownScalar(h.v.values[i].value)
             values == [i \in DOMAIN h.v.values |-> AllOf(<<KeyOf(i), ValueOf(i)>>)]
  <2>1. v = AllOf(values)
    BY <1>2 DEF ValueToJson
  <2>2. v = Listed(values) /\ \A i \in DOMAIN h.v.values : AllOf(<<KeyOf(i), ValueOf(i)>>) # Refusal
    BY <2>1 DEF AllOf
  <2>3. v.values = values
    BY <2>2 DEF Listed
  <2>4. ASSUME NEW i \in DOMAIN h.v.values
        PROVE  /\ ScalarShown(h.v.values[i].key, v.values[i].values[1])
               /\ ScalarShown(h.v.values[i].value, v.values[i].values[2])
    <3>1. IsScalar(h.v.values[i].key) /\ IsScalar(h.v.values[i].value)
      BY <1>2 DEF IsComputed
    <3>2. KeyOf(i) # Refusal /\ ValueOf(i) # Refusal /\ AllOf(<<KeyOf(i), ValueOf(i)>>) = Listed(<<KeyOf(i), ValueOf(i)>>)
      <4> HIDE DEF KeyOf, ValueOf
      <4>1. AllOf(<<KeyOf(i), ValueOf(i)>>) # Refusal
        BY <2>2
      <4>2. DOMAIN <<KeyOf(i), ValueOf(i)>> = {1, 2}
        OBVIOUS
      <4> QED
        BY <4>1, <4>2 DEF AllOf
    <3>3. ScalarShown(h.v.values[i].key, KeyOf(i)) /\ ScalarShown(h.v.values[i].value, ValueOf(i))
      BY <3>1, <3>2, ScalarKept
    <3>4. v.values[i] = Listed(<<KeyOf(i), ValueOf(i)>>)
      BY <2>3, <3>2
    <3> HIDE DEF v, KeyOf, ValueOf
    <3>5. v.values[i].values[1] = KeyOf(i) /\ v.values[i].values[2] = ValueOf(i)
      BY <3>4 DEF Listed
    <3> QED
      BY <3>3, <3>5
  <2>5. DOMAIN v.values = DOMAIN h.v.values
    BY <2>3
  <2> HIDE DEF v
  <2>6. IsShown(h, v)
    BY <1>2, <2>4, <2>5 DEF IsShown
  <2> QED
    BY <2>6 DEF v
<1>3. CASE h.kind \notin {"LIST", "MAP"}
  <2>1. v = ShownScalar(h) /\ IsScalar(h)
    BY <1>3 DEF ValueToJson, IsComputed
  <2>2. ScalarShown(h, v)
    BY <2>1, ScalarKept
  <2> HIDE DEF v
  <2>3. IsShown(h, v)
    BY <1>3, <2>2 DEF IsShown
  <2> QED
    BY <2>3 DEF v
<1> QED
  BY <1>1, <1>2, <1>3

(* What a column of a type holds of a value, which the result shows.       *)
LEMMA TypeIs ==
  ASSUME NEW t, t.scale \in Nat
  PROVE  /\ AnalyticalType(t).kind \in {"BOOLEAN", "BIGINT", "DECIMAL", "DOUBLE", "BLOB", "VARCHAR"}
         /\ AnalyticalType(t).scale \in Nat
<1> DEFINE first == t.words \cap {"bool", "bit"} # {}
           second == "int" \in t.words
<1>1. CASE first
  BY <1>1 DEF AnalyticalType, Type
<1>2. CASE ~first /\ second
  BY <1>2 DEF AnalyticalType, Type
<1>3. CASE ~first /\ ~second /\ IsDecimal(t)
  <2>1. t.words \cap {"bool", "bit", "int"} = {}
    BY <1>3
  <2> QED
    BY <1>3, <2>1 DEF AnalyticalType
<1>4. CASE ~first /\ ~second /\ ~IsDecimal(t)
  <2>1. t.words \cap {"bool", "bit", "int"} = {}
    BY <1>4
  <2> QED
    BY <1>4, <2>1 DEF AnalyticalType, Type
<1> QED
  BY <1>1, <1>2, <1>3, <1>4

(* A value shows v as it was sent.                                         *)
Shows(h, v) == IsComputed(h) /\ Means(Plainly(ValueToJson(h)), v)

(* Each kind shows what it was made of.                                    *)
LEMMA PlainShows ==
  ASSUME NEW form \in Plain, NEW u, NEW v, Plainly(u) = v
  PROVE  Shows(Held(form, u), v)
<1> DEFINE h == Held(form, u)
<1>1. h.kind = form /\ h.v = u
  BY DEF Held
<1>2. form \notin {"LIST", "MAP", "BIGINT", "HUGEINT", "TIMESTAMP", "TIME"}
  BY DEF Plain
<1> HIDE DEF h
<1>3. IsComputed(h)
  BY <1>1, <1>2 DEF IsComputed, IsScalar, Plain
<1>4. ValueToJson(h) = u
  BY <1>1, <1>2 DEF ValueToJson, ShownScalar, Plain
<1> QED
  BY <1>3, <1>4 DEF Shows, Means, h

LEMMA IntegerShows ==
  ASSUME NEW n \in Int, NEW v, Means(Number(2 * n), v)
  PROVE  Shows(Integer("BIGINT", n), v)
<1> DEFINE h == Integer("BIGINT", n)
<1>1. h.kind = "BIGINT" /\ h.v = Number(2 * n) /\ h.v.form = "number" /\ h.v.halves = 2 * n
  BY DEF Integer, Held, Number
<1> HIDE DEF h
<1>2. IsComputed(h)
  BY <1>1 DEF IsComputed, IsScalar
<1>3. ValueToJson(h) \in {h.v, Printed(h.v)}
  BY <1>1 DEF ValueToJson, ShownScalar
<1>4. Plainly(ValueToJson(h)) = Number(2 * n)
  <2>1. Plainly(h.v) = h.v /\ Plainly(Printed(h.v)) = h.v
    BY <1>1 DEF Plainly, Printed
  <2> QED
    BY <1>1, <1>3, <2>1
<1> QED
  BY <1>2, <1>4 DEF Shows, h

LEMMA DecimalShows ==
  ASSUME NEW u, NEW v, Means(u, v)
  PROVE  Shows(Held("DECIMAL", u), v)
<1> DEFINE h == Held("DECIMAL", u)
<1>1. h.kind = "DECIMAL" /\ h.v = u
  BY DEF Held
<1> HIDE DEF h
<1>2. IsComputed(h)
  BY <1>1 DEF IsComputed, IsScalar
<1>3. ValueToJson(h) = Printed(u)
  BY <1>1 DEF ValueToJson, ShownScalar
<1>4. Plainly(ValueToJson(h)) = u
  BY <1>3 DEF Plainly, Printed
<1> QED
  BY <1>2, <1>4 DEF Shows, h

(* What a column holds of a value shows that value.                        *)
LEMMA JsonKept ==
  ASSUME NEW v \in JsonValues, NEW type, type.scale \in Nat,
         type.kind \in {"BOOLEAN", "BIGINT", "DECIMAL", "DOUBLE", "BLOB", "VARCHAR"},
         JsonToDuckdb(v, type) # Refusal
  PROVE  Shows(JsonToDuckdb(v, type), v)
<1> DEFINE h == JsonToDuckdb(v, type)
<1>1. IsJson(v)
  BY ValuesAssumption
<1>2. v.form = "text" => v = Text(v.chars) /\ v.chars \in Seq(Characters)
  BY <1>1 DEF IsJson
<1>3. v.form = "number" => v = Number(v.halves) /\ v.halves \in Int
  BY <1>1 DEF IsJson
<1>4. v.form # "printed" /\ (v = JsonNull <=> v.form = "null")
  BY <1>1 DEF IsJson, JsonNull
<1>5. Plainly(v) = v /\ Plainly(Printed(v)) = v
  BY <1>4 DEF Plainly, Printed
<1>6. CASE v = JsonNull
  <2>1. h = Held("NULL", v)
    BY <1>6 DEF JsonToDuckdb, NullValue
  <2> HIDE DEF h
  <2> QED
    BY <1>5, <2>1, PlainShows DEF Plain, h
<1>7. CASE v # JsonNull /\ type.kind \in {"BOOLEAN", "DOUBLE", "BLOB"}
  <2>1. h = Held(type.kind, v)
    BY <1>7 DEF JsonToDuckdb
  <2>2. type.kind \in Plain
    BY <1>7 DEF Plain
  <2> HIDE DEF h
  <2> QED
    BY <1>5, <2>1, <2>2, PlainShows DEF h
<1>8. CASE v # JsonNull /\ type.kind = "VARCHAR"
  <2>1. h = Held("VARCHAR", IF v.form = "text" THEN v ELSE Printed(v))
    BY <1>8 DEF JsonToDuckdb
  <2>2. "VARCHAR" \in Plain
    BY DEF Plain
  <2> HIDE DEF h
  <2> QED
    BY <1>5, <2>1, <2>2, PlainShows DEF h
<1>9. CASE v # JsonNull /\ type.kind = "DECIMAL"
  <2>1. h = IF v.form = "text" THEN ParseScaledDecimal(v.chars, type) ELSE Refusal
    BY <1>9 DEF JsonToDuckdb
  <2>2. h = ParseScaledDecimal(v.chars, type) /\ v.chars \in Seq(Characters) /\ v = Text(v.chars)
    BY <1>2, <2>1
  <2>3. PICK n \in Int : h = Held("DECIMAL", Quotient(n, type.scale)) /\ Means(Quotient(n, type.scale), v)
    <3> HIDE DEF h
    <3>1. ParseScaledDecimal(v.chars, type) # Refusal
      BY <2>2 DEF h
    <3> QED
      BY <2>2, <3>1, ParseDecimalIs
  <2> HIDE DEF h
  <2> QED
    BY <2>3, DecimalShows DEF h
<1>10. CASE v # JsonNull /\ type.kind = "BIGINT"
  <2>1. h = ToLong(v)
    BY <1>10 DEF JsonToDuckdb
  <2>2. CASE v.form = "text"
    <3>1. h = ParseLong(v.chars) /\ v.chars \in Seq(Characters) /\ v = Text(v.chars)
      BY <1>2, <2>1, <2>2 DEF ToLong
    <3>2. PICK n \in Int : h = Integer("BIGINT", n) /\ Means(Number(2 * n), v)
      <4>1. ParseLong(v.chars) # Refusal
        BY <3>1
      <4> HIDE DEF h
      <4> QED
        BY <3>1, <4>1, ParseLongIs
    <3> HIDE DEF h
    <3> QED
      BY <3>2, IntegerShows DEF h
  <2>3. CASE v.form # "text"
    <3>1. v.form = "number" /\ v.halves % 2 = 0 /\ h = Long(v.halves \div 2)
      BY <2>1, <2>3 DEF ToLong
    <3> DEFINE n == v.halves \div 2
    <3>2. n \in Int /\ 2 * n = v.halves
      BY <1>3, <3>1
    <3> HIDE DEF n
    <3>3. h = Integer("BIGINT", n)
      BY <3>1 DEF Long, n
    <3>4. Number(2 * n) = v
      BY <1>3, <3>1, <3>2
    <3>5. Means(Number(2 * n), v)
      BY <3>4 DEF Means
    <3> HIDE DEF h
    <3> QED
      BY <3>2, <3>3, <3>5, IntegerShows DEF h
  <2> QED
    BY <2>2, <2>3
<1> QED
  BY <1>6, <1>7, <1>8, <1>9, <1>10

(* So what is seen is what was given, or is held.                          *)
LEMMA MadeIsKept == ValuesMade => ValuesKept
<1> SUFFICES ASSUME ValuesMade, seen \notin {NoValue, Refusal}
             PROVE  IsShown(held, seen) /\ (given # NoValue => Means(Plainly(seen), given.v))
  BY DEF ValuesKept
<1>1. held \notin {NoValue, Refusal} /\ seen = ValueToJson(held)
  BY DEF ValuesMade
<1>2. CASE given = NoValue
  <2>1. held \in Computed
    BY <1>1, <1>2 DEF ValuesMade
  <2>2. IsComputed(held)
    BY <2>1, ValuesAssumption
  <2> QED
    BY <1>1, <1>2, <2>2, ValueKept
<1>3. CASE given # NoValue
  <2> DEFINE type == AnalyticalType(given.type)
  <2>1. given.type \in SourceTypes /\ given.v \in JsonValues /\ held = JsonToDuckdb(given.v, type)
    BY <1>3 DEF ValuesMade
  <2>2. given.type.scale \in Nat
    BY <2>1, ValuesAssumption
  <2>3. type.scale \in Nat /\ type.kind \in {"BOOLEAN", "BIGINT", "DECIMAL", "DOUBLE", "BLOB", "VARCHAR"}
    BY <2>2, TypeIs
  <2> HIDE DEF type
  <2>4. Shows(held, given.v)
    <3>1. JsonToDuckdb(given.v, type) # Refusal
      BY <1>1, <2>1
    <3> QED
      BY <2>1, <2>3, <3>1, JsonKept
  <2> QED
    BY <1>1, <2>4, ValueKept DEF Shows
<1> QED
  BY <1>2, <1>3

-----------------------------------------------------------------------------
(* A name that is given to a column is nobody else's: of MaxColumns + 1    *)
(* suffixes fewer than MaxColumns are taken.                               *)
LEMMA SequenceOf ==
  ASSUME NEW s, IsASeq(s), NEW S, \A i \in 1 .. Len(s) : s[i] \in S
  PROVE  s \in Seq(S)
<1> DEFINE n == Len(s)
<1>1. n \in Nat /\ s = [i \in 1 .. n |-> s[i]]
  BY DEF IsASeq
<1> HIDE DEF n
<1>2. s \in [1 .. n -> S]
  BY <1>1 DEF n
<1> QED
  BY <1>1, <1>2

LEMMA SuffixIsFree ==
  ASSUME ColumnsNamed, Len(header) < MaxColumns, NEW parts, IsASeq(parts)
  PROVE  \E n \in 2 .. MaxColumns + 2 : Append(parts, n) \notin Used
<1> SUFFICES ASSUME \A n \in 2 .. MaxColumns + 2 : Append(parts, n) \in Used PROVE FALSE
  OBVIOUS
<1> DEFINE S == 2 .. MaxColumns + 2
           f == [n \in S |-> Append(parts, n)]
           D == 1 .. Len(header)
           g == [i \in D |-> names[i].parts]
<1>1. /\ MaxColumns \in Nat /\ Len(header) \in Nat /\ DOMAIN names = D
  <2>1. header \in Seq(HeaderNames) /\ DOMAIN names = DOMAIN header
    BY DEF ColumnsNamed
  <2>2. Len(header) \in Nat /\ DOMAIN header = 1 .. Len(header)
    BY <2>1
  <2> QED
    BY <2>1, <2>2, ValuesAssumption
<1>2. IsFiniteSet(S) /\ Cardinality(S) = MaxColumns + 1
  <2>1. 2 \in Int /\ MaxColumns + 2 \in Int /\ ~(2 > MaxColumns + 2) /\ (MaxColumns + 2) - 2 + 1 = MaxColumns + 1
    BY <1>1
  <2> QED
    BY <2>1, FS_Interval
<1>3. IsFiniteSet(D) /\ Cardinality(D) = Len(header)
  <2>1. 1 \in Int /\ Len(header) \in Int /\ (IF 1 > Len(header) THEN 0 ELSE Len(header) - 1 + 1) = Len(header)
    BY <1>1
  <2> QED
    BY <2>1, FS_Interval
<1>4. g \in Surjection(D, Used)
  BY <1>1 DEF Used, Surjection
<1>5. IsFiniteSet(Used) /\ Cardinality(Used) <= Len(header) /\ Cardinality(Used) \in Nat
  <2> HIDE DEF D, g
  <2> QED
    BY <1>3, <1>4, FS_Surjection, FS_CardinalityType
<1>6. ASSUME NEW m \in S, NEW n \in S, f[m] = f[n] PROVE m = n
  <2> DEFINE A == {parts[i] : i \in 1 .. Len(parts)} \cup S
  <2>1. parts \in Seq(A) /\ Len(parts) \in Nat
    <3>1. \A i \in 1 .. Len(parts) : parts[i] \in A
      OBVIOUS
    <3> HIDE DEF A
    <3> QED
      BY <3>1, SequenceOf DEF IsASeq
  <2>2. Append(parts, m)[Len(parts) + 1] = m /\ Append(parts, n)[Len(parts) + 1] = n
    BY <2>1
  <2> QED
    BY <1>6, <2>2
<1>7. f \in Injection(S, Used)
  BY <1>6 DEF Injection, IsInjective
<1>8. Cardinality(S) <= Cardinality(Used)
  <2> HIDE DEF S, f
  <2> QED
    BY <1>5, <1>7, FS_Injection
<1> QED
  BY <1>1, <1>2, <1>5, <1>8

(* A set of numbers has its least in it.                                   *)
LEMMA LeastIsIn ==
  ASSUME NEW S \in SUBSET Nat, S # {}
  PROVE  Min(S) \in S
<1>1. \E x \in S : \A y \in S : x <= y
  BY HasLeast
<1> QED
  BY <1>1 DEF Min

LEMMA AppendIsASeq ==
  ASSUME NEW s, IsASeq(s), NEW x
  PROVE  IsASeq(Append(s, x))
<1> DEFINE S == {s[i] : i \in 1 .. Len(s)} \cup {x}
<1>1. (\A i \in 1 .. Len(s) : s[i] \in S) /\ x \in S
  OBVIOUS
<1> HIDE DEF S
<1>2. s \in Seq(S)
  BY <1>1, SequenceOf
<1>3. Append(s, x) \in Seq(S)
  BY <1>1, <1>2
<1> DEFINE t == Append(s, x)
<1> HIDE DEF t
<1>4. t \in Seq(S)
  BY <1>3 DEF t
<1>5. IsASeq(t)
  BY <1>4 DEF IsASeq
<1> QED
  BY <1>5 DEF t

(* The name of a column is that of its source when no other column has it. *)
LEMMA NameFits ==
  ASSUME NEW base, IsName(base), ColumnsNamed, Len(header) < MaxColumns
  PROVE  /\ IsName(Named(base, Used)) /\ Named(base, Used).parts \notin Used
         /\ base.parts \notin Used => Named(base, Used) = base
<1>1. base = [upper |-> base.upper, parts |-> base.parts] /\ base.upper \in BOOLEAN /\ IsASeq(base.parts)
  BY DEF IsName
<1>2. CASE base.parts \notin Used
  <2>1. Named(base, Used) = base
    BY <1>2 DEF Named
  <2> QED
    BY <1>2, <2>1
<1>3. CASE base.parts \in Used
  <2> DEFINE free == {n \in 2 .. MaxColumns + 2 : Append(base.parts, n) \notin Used}
             least == Min(free)
             name == Named(base, Used)
  <2>1. free # {}
    BY <1>1, SuffixIsFree
  <2>2. MaxColumns \in Nat
    BY ValuesAssumption
  <2>3. least \in free
    <3>1. free \in SUBSET Nat
      BY <2>2
    <3> HIDE DEF free
    <3> QED
      BY <2>1, <3>1, LeastIsIn
  <2>4. name = [base EXCEPT !.parts = Append(@, least)]
    BY <1>3 DEF Named
  <2>5. name = [upper |-> base.upper, parts |-> Append(base.parts, least)]
    <3> HIDE DEF least, free, name
    <3> QED
      BY <1>1, <2>4
  <2>6. Append(base.parts, least) \notin Used
    BY <2>3
  <2> HIDE DEF least, free, name
  <2>7. IsASeq(Append(base.parts, least))
    BY <1>1, AppendIsASeq
  <2>8. IsName(name)
    BY <1>1, <2>5, <2>7 DEF IsName
  <2> QED
    BY <1>3, <2>5, <2>6, <2>8 DEF name
<1> QED
  BY <1>2, <1>3

(* A source that has no name for a column is given one.                    *)
LEMMA BaseIs ==
  ASSUME NEW name \in HeaderNames, NEW at \in Nat
  PROVE  IsName(Base(name, at)) /\ (name.parts # <<>> => Base(name, at) = name)
<1>1. CASE name.parts = <<>>
  <2>1. Base(name, at) = [upper |-> FALSE, parts |-> <<"column", at>>]
    BY <1>1 DEF Base
  <2>2. IsASeq(<<"column", at>>)
    <3>1. Len(<<"column", at>>) = 2
      OBVIOUS
    <3>2. <<"column", at>> = [i \in 1 .. 2 |-> <<"column", at>>[i]]
      OBVIOUS
    <3> QED
      BY <3>1, <3>2 DEF IsASeq
  <2> QED
    BY <1>1, <2>1, <2>2 DEF IsName
<1>2. CASE name.parts # <<>>
  BY <1>2, ValuesAssumption DEF Base
<1> QED
  BY <1>1, <1>2

(* A turn keeps the names it finds and adds one.                           *)
NamedSoFar == ColumnsNamed /\ NamesDiffer

LEMMA ColumnAdded ==
  ASSUME NamedSoFar, NEW name \in HeaderNames, AddColumn(name)
  PROVE  NamedSoFar'
<1> DEFINE n == Len(header)
           base == Base(name, n + 1)
           new == Named(base, Used)
<1>1. ColumnsNamed /\ n < MaxColumns /\ header' = Append(header, name) /\ names' = Append(names, new)
  BY DEF AddColumn, NamedSoFar
<1>2. header \in Seq(HeaderNames) /\ n \in Nat /\ MaxColumns \in Nat /\ DOMAIN header = 1 .. n
  BY <1>1, ValuesAssumption DEF ColumnsNamed
<1>3. IsASeq(names) /\ DOMAIN names = 1 .. n /\ Len(names) = n
  <2>1. IsASeq(names) /\ DOMAIN names = 1 .. n
    BY <1>1, <1>2 DEF ColumnsNamed
  <2>2. Len(names) \in Nat /\ DOMAIN names = 1 .. Len(names)
    BY <2>1 DEF IsASeq
  <2> QED
    BY <1>2, <2>1, <2>2
<1>4. IsName(base) /\ (name.parts # <<>> => base = name)
  BY <1>2, BaseIs
<1>5. /\ IsName(new) /\ new.parts \notin Used
      /\ base.parts \notin Used => new = base
  <2> HIDE DEF base
  <2> QED
    BY <1>1, <1>4, NameFits
<1> HIDE DEF base, new
<1>6. /\ header' \in Seq(HeaderNames) /\ Len(header') = n + 1 /\ DOMAIN header' = 1 .. n + 1
      /\ header'[n + 1] = name /\ \A i \in 1 .. n : header'[i] = header[i]
  BY <1>1, <1>2
<1>7. /\ IsASeq(names') /\ DOMAIN names' = 1 .. n + 1
      /\ names'[n + 1] = new /\ \A i \in 1 .. n : names'[i] = names[i]
  <2>1. \A i \in 1 .. n : IsName(names[i])
    BY <1>1, <1>3 DEF ColumnsNamed
  <2> DEFINE S == {names[i] : i \in 1 .. n} \cup {new}
  <2>2. \A i \in 1 .. Len(names) : names[i] \in S
    BY <1>3
  <2>3. new \in S
    OBVIOUS
  <2> HIDE DEF S
  <2>4. names \in Seq(S)
    BY <1>3, <2>2, SequenceOf
  <2>5. names' \in Seq(S) /\ Len(names') = n + 1
    BY <1>1, <1>3, <2>3, <2>4
  <2>6. IsASeq(names')
    BY <2>5 DEF IsASeq
  <2> QED
    BY <1>1, <1>2, <1>3, <2>3, <2>4, <2>5, <2>6
<1> HIDE DEF n
<1>8. \A i \in 1 .. n + 1 : i \in 1 .. n \/ i = n + 1
  BY <1>2
<1>9. ColumnsNamed'
  <2>1. n + 1 <= MaxColumns
    BY <1>1, <1>2
  <2>2. \A i \in 1 .. n + 1 : IsName(names'[i])
    BY <1>1, <1>3, <1>5, <1>7, <1>8 DEF ColumnsNamed
  <2> QED
    BY <1>6, <1>7, <2>1, <2>2 DEF ColumnsNamed
<1>10. NamesDiffer'
  <2>1. NamesDiffer /\ \A i \in 1 .. n : names[i].parts \in Used
    BY <1>3 DEF Used, NamedSoFar
  <2>2. ASSUME NEW i \in 1 .. n + 1, NEW j \in 1 .. n + 1, i # j
        PROVE  names'[i].parts # names'[j].parts
    <3>1. CASE i \in 1 .. n /\ j \in 1 .. n
      BY <1>3, <1>7, <2>1, <2>2, <3>1 DEF NamesDiffer
    <3>2. CASE i \in 1 .. n /\ j = n + 1
      BY <1>5, <1>7, <2>1, <3>2
    <3>3. CASE i = n + 1 /\ j \in 1 .. n
      BY <1>5, <1>7, <2>1, <3>3
    <3> QED
      BY <1>8, <2>2, <3>1, <3>2, <3>3
  <2>3. ASSUME NEW i \in 1 .. n + 1, header'[i].parts # <<>>,
               \A j \in 1 .. i - 1 : names'[j].parts # header'[i].parts
        PROVE  names'[i] = header'[i]
    <3>1. CASE i \in 1 .. n
      <4>1. \A j \in 1 .. i - 1 : j \in 1 .. n
        BY <1>2, <3>1
      <4>2. \A j \in 1 .. i - 1 : names[j].parts # header[i].parts
        BY <1>6, <1>7, <2>3, <3>1, <4>1
      <4>3. header[i].parts # <<>>
        BY <1>6, <2>3, <3>1
      <4>4. names[i] = header[i]
        BY <1>3, <2>1, <3>1, <4>2, <4>3 DEF NamesDiffer
      <4> QED
        BY <1>6, <1>7, <3>1, <4>4
    <3>2. CASE i = n + 1
      <4>1. header'[i] = name /\ names'[i] = new /\ base = name
        BY <1>4, <1>6, <1>7, <2>3, <3>2
      <4>2. i - 1 = n
        BY <1>2, <3>2
      <4>3. \A j \in DOMAIN names : names[j].parts # base.parts
        BY <1>3, <1>7, <2>3, <4>1, <4>2
      <4>4. base.parts \notin Used
        BY <4>3 DEF Used
      <4> QED
        BY <1>5, <4>1, <4>4
    <3> QED
      BY <1>8, <3>1, <3>2
  <2> QED
    BY <1>7, <2>2, <2>3 DEF NamesDiffer
<1> QED
  BY <1>9, <1>10 DEF NamedSoFar

-----------------------------------------------------------------------------
(* What is held of a value is something, and no step changes it.           *)
LEMMA HeldIsMade ==
  ASSUME NEW v, NEW t \in SourceTypes
  PROVE  JsonToDuckdb(v, AnalyticalType(t)) # NoValue
<1> DEFINE type == AnalyticalType(t)
<1>1. type.kind \in {"BOOLEAN", "BIGINT", "DECIMAL", "DOUBLE", "BLOB", "VARCHAR"}
  BY TypeIs, ValuesAssumption
<1> HIDE DEF type
<1>2. Refusal # NoValue
  BY DEF Refusal, NoValue
<1>3. ASSUME NEW form, NEW u PROVE Held(form, u) # NoValue
  <2>1. DOMAIN Held(form, u) = {"kind", "v"} /\ DOMAIN NoValue = {"form"}
    BY DEF Held, NoValue
  <2> QED
    BY <2>1
<1>4. ASSUME NEW n PROVE Long(n) # NoValue
  BY <1>2, <1>3 DEF Long, Integer
<1>5. ToLong(v) # NoValue
  BY <1>2, <1>4 DEF ToLong, ParseLong
<1>6. ParseScaledDecimal(v.chars, type) # NoValue
  BY <1>2, <1>3 DEF ParseScaledDecimal
<1>7. JsonToDuckdb(v, type) # NoValue
  BY <1>1, <1>2, <1>3, <1>5, <1>6 DEF JsonToDuckdb, NullValue
<1> QED
  BY <1>7 DEF type

LEMMA StepMakes ==
  ASSUME ValuesMade, [ValuesNext]_valueVars
  PROVE  ValuesMade'
<1>1. CASE UNCHANGED valueVars
  BY <1>1 DEF ValuesMade, valueVars
<1>2. ASSUME NEW name \in HeaderNames, AddColumn(name) PROVE ValuesMade'
  BY <1>2 DEF AddColumn, ValuesMade
<1>3. ASSUME NEW t \in SourceTypes, NEW v \in JsonValues, AppendRow(t, v) PROVE ValuesMade'
  <2>1. /\ held = NoValue /\ given' = [type |-> t, v |-> v] /\ seen' = seen
        /\ held' = JsonToDuckdb(v, AnalyticalType(t))
    BY <1>3 DEF AppendRow
  <2>2. given'.type = t /\ given'.v = v
    BY <2>1
  <2>3. given' # NoValue
    <3>1. DOMAIN given' = {"type", "v"} /\ DOMAIN NoValue = {"form"}
      BY <2>1 DEF NoValue
    <3> QED
      BY <3>1
  <2>4. seen = NoValue
    BY <2>1 DEF ValuesMade
  <2> QED
    BY <2>1, <2>2, <2>3, <2>4 DEF ValuesMade
<1>4. ASSUME NEW h \in Computed, Compute(h) PROVE ValuesMade'
  <2>1. header = <<>> /\ held = NoValue /\ held' = h /\ given' = given /\ seen' = seen
    BY <1>4 DEF Compute
  <2>2. seen = NoValue
    BY <2>1 DEF ValuesMade
  <2>3. given = NoValue
    <3>1. CASE given # NoValue
      BY <2>1, <3>1, HeldIsMade DEF ValuesMade
    <3> QED
      BY <3>1
  <2> QED
    BY <2>1, <2>2, <2>3 DEF ValuesMade
<1>5. CASE ShowValue
  BY <1>5 DEF ShowValue, ValuesMade
<1> QED
  BY <1>1, <1>2, <1>3, <1>4, <1>5 DEF ValuesNext

LEMMA StepNames ==
  ASSUME NamedSoFar, [ValuesNext]_valueVars
  PROVE  NamedSoFar'
<1>1. ASSUME NEW name \in HeaderNames, AddColumn(name) PROVE NamedSoFar'
  BY <1>1, ColumnAdded
<1>2. CASE UNCHANGED <<header, names>>
  BY <1>2 DEF NamedSoFar, ColumnsNamed, NamesDiffer
<1> QED
  BY <1>1, <1>2 DEF ValuesNext, AppendRow, Compute, ShowValue, valueVars

(* The columns of a table have names that no case confuses, a column's own *)
(* where it was free; and a value that is imported is shown as it was      *)
(* sent, a computed one as it is: numbers are the same numbers, a text is  *)
(* the same text, a moment is not moved (normalize_columns,                *)
(* json_to_duckdb, value_to_json of data_engine.rs).                       *)
THEOREM ValuesHold == ValuesSpec => []ValuesInv
<1> DEFINE AsMade == NamedSoFar /\ ValuesMade
<1>1. ValuesInit => AsMade
  <2> SUFFICES ASSUME ValuesInit PROVE AsMade
    OBVIOUS
  <2>1. header = <<>> /\ names = <<>> /\ given = NoValue /\ held = NoValue /\ seen = NoValue
    BY DEF ValuesInit
  <2>2. ColumnsNamed
    <3>1. Len(names) = 0 /\ names = [i \in 1 .. 0 |-> names[i]]
      BY <2>1
    <3>2. IsASeq(names)
      BY <3>1 DEF IsASeq
    <3>3. header \in Seq(HeaderNames) /\ Len(header) = 0 /\ DOMAIN names = {} /\ DOMAIN header = {}
      BY <2>1
    <3> QED
      BY <3>2, <3>3, ValuesAssumption DEF ColumnsNamed
  <2>3. NamesDiffer
    BY <2>1 DEF NamesDiffer
  <2>4. ValuesMade
    BY <2>1 DEF ValuesMade
  <2> QED
    BY <2>2, <2>3, <2>4 DEF NamedSoFar
<1>2. AsMade /\ [ValuesNext]_valueVars => AsMade'
  BY StepMakes, StepNames
<1>3. AsMade => ValuesInv
  BY MadeIsKept DEF NamedSoFar, ValuesInv
<1> QED
  BY <1>1, <1>2, <1>3, PTL DEF ValuesSpec

-----------------------------------------------------------------------------
(* A behaviour of the composition is one of each of its parts.             *)
LEMMA AnalysisIsParts ==
  AnalysisSpec =>
    /\ Spec /\ EngineSpec /\ ExportSpec /\ ImportSpec
    /\ QueriesSpec /\ MongoSpec /\ ValuesSpec
<1>1. AnalysisInit =>
        /\ Init /\ EngineInit /\ ExportInit /\ ImportInit /\ QueriesInit /\ MongoInit /\ ValuesInit
  BY DEF AnalysisInit
<1>2. [AnalysisNext]_<<about, vars, engineVars, exportVars, importVars, sqlVars>> =>
        /\ [Next]_vars /\ [EngineNext]_engineVars /\ [ExportNext]_exportVars
        /\ [ImportNext]_importVars /\ [QueriesNext]_queryVars
        /\ [MongoNext]_mongoVars /\ [ValuesNext]_valueVars
  BY DEF AnalysisNext, StoreStep, EngineStep, ExportStep, ImportStep, MongoStep, ValueStep, QueryStep, sqlVars
<1> QED
  BY <1>1, <1>2, PTL
     DEF AnalysisSpec, Spec, EngineSpec, ExportSpec, ImportSpec, QueriesSpec, MongoSpec, ValuesSpec

(* So what was proved of the parts holds of the specification the run      *)
(* checks: whichever part of the engine works, its promises are kept.      *)
THEOREM AnalysisHolds ==
  ASSUME EngineAssumption, ExportAssumption
  PROVE  AnalysisSpec => /\ []StoreInv /\ []EngineInv /\ []ExportInv
                         /\ []ImportInv /\ []QueriesInv /\ []ValuesInv /\ OwnersOnly
<1>1. EngineSpec => []EngineInv
  BY EngineHolds
<1>2. ExportSpec => []ExportInv
  BY ExportHolds
<1> QED
  BY <1>1, <1>2, AnalysisIsParts, StoreHolds, ImportHolds, QueriesHold, ValuesHold, OwnersChangeTheirOwn, PTL
=============================================================================
