--------------------------- MODULE EditedMetadata ---------------------------
(***************************************************************************)
(* The metadata the backend keeps of its connections and the refreshes     *)
(* that fill it (MetadataOfSession), and those who rely on it most: the    *)
(* edits of a result, which are as safe as the key the metadata names      *)
(* (CellEditing).  An edit reads the key of tables of one name, which      *)
(* CellEditing has as what was introspected last, so a behaviour is about  *)
(* one of the two, chosen at its start.                                    *)
(***************************************************************************)
EXTENDS MetadataOfSession

CONSTANTS Listed, ColumnOrder, Rows, Values, Other, Written, Found, MaxRuns, MaxDdl

VARIABLES
  part,  \* "metadata" or "edits"
  path, tables, keys, result, editability, analyses, update, run, ddl, wrote, touched

metadataVars == <<vars, session, database, adapter>>
editVars == <<path, tables, keys, result, editability, analyses, update, run, ddl, wrote, touched>>

E == INSTANCE CellEditing WITH cache <- keys

ASSUME EditedAssumption == E!EditingAssumption

(* Where one part may begin does not multiply what the other begins with.  *)
EditedInit ==
  /\ part \in {"metadata", "edits"}
  /\ SessionInit /\ E!Init
  /\ part = "edits" => present = {}
  /\ part = "metadata" => path = Listed /\ tables = CHOOSE t \in Found : TRUE

MetadataStep == part = "metadata" /\ SessionNext /\ UNCHANGED <<part, editVars>>
EditStep == part = "edits" /\ E!Next /\ UNCHANGED <<part, metadataVars>>

EditedSpec == EditedInit /\ [][MetadataStep \/ EditStep]_<<part, metadataVars, editVars>>

-----------------------------------------------------------------------------
(* A committed edit changed one row, and the one that was shown as far as  *)
(* CellEditing says: others may have deleted it or written into its key.   *)
EditInv == E!EditInv

(* An edit changes the row it was made in, as the analyzer promises. *)
EditsTheRowShown == E!EditsTheRowShown
=============================================================================
