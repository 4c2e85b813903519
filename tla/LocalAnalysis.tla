---------------------------- MODULE LocalAnalysis ----------------------------
(***************************************************************************)
(* The models of DataEngine side by side: its datasets and stable results  *)
(* (DatasetStore), its operations and their stops (DataEngine), the files  *)
(* of an export (ExportPublish) and one import (SourceImport); the values  *)
(* of a dataset (TypedValues) and the statements over it (EngineQueries);  *)
(* and the SQL of a MongoDB connection, which it shares with the backend   *)
(* (MongoSql).                                                             *)
(* In the code they meet in the mutex "inner" only, under which each       *)
(* method of the store is one step and an export or an import has the      *)
(* engine to itself; so a behaviour is about one of them, chosen at its    *)
(* start, and leaves the others as they are.                               *)
(***************************************************************************)
EXTENDS DatasetStore, DataEngine, ExportPublish, SourceImport, EngineQueries, MongoSql, TypedValues

VARIABLE about  \* which of the models this is

sqlVars == <<mongoVars, valueVars, queryVars>>

AnalysisInit ==
  /\ about \in {"store", "operations", "export", "import", "mongo", "values", "query"}
  /\ Init /\ EngineInit /\ ExportInit /\ ImportInit /\ MongoInit /\ ValuesInit /\ QueriesInit
  /\ about # "export" => \A f \in Files : dest[f] = None
  /\ about # "import" => request = <<"grid", 0, AllRows, <<>>>>
  /\ about # "query" => pieces = (CHOOSE p \in Families : TRUE) /\ text = <<"WITH">>

StoreStep ==
  about = "store" /\ Next /\ UNCHANGED <<about, engineVars, exportVars, importVars, sqlVars>>
EngineStep ==
  about = "operations" /\ EngineNext /\ UNCHANGED <<about, vars, exportVars, importVars, sqlVars>>
ExportStep ==
  about = "export" /\ ExportNext /\ UNCHANGED <<about, vars, engineVars, importVars, sqlVars>>
ImportStep ==
  about = "import" /\ ImportNext /\ UNCHANGED <<about, vars, engineVars, exportVars, sqlVars>>
MongoStep ==
  /\ about = "mongo" /\ MongoNext
  /\ UNCHANGED <<about, vars, engineVars, exportVars, importVars, valueVars, queryVars>>
ValueStep ==
  /\ about = "values" /\ ValuesNext
  /\ UNCHANGED <<about, vars, engineVars, exportVars, importVars, mongoVars, queryVars>>
QueryStep ==
  /\ about = "query" /\ QueriesNext
  /\ UNCHANGED <<about, vars, engineVars, exportVars, importVars, mongoVars, valueVars>>

AnalysisNext ==
  StoreStep \/ EngineStep \/ ExportStep \/ ImportStep \/ MongoStep \/ ValueStep \/ QueryStep

(* Nothing that Fairness names can happen before an operation is claimed;  *)
(* an import goes on, and a connection that stays silent meets the timeout *)
(* of the client.                                                          *)
AnalysisSpec ==
  /\ AnalysisInit
  /\ [][AnalysisNext]_<<about, vars, engineVars, exportVars, importVars, sqlVars>>
  /\ Fairness /\ WF_importVars(ImportStep /\ Engine) /\ WF_importVars(ImportStep /\ Break)

-----------------------------------------------------------------------------
(* Every import returns, whatever its source does. *)
ImportEnds == about = "import" ~> phase = "done"
=============================================================================
