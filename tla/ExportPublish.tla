---------------------------- MODULE ExportPublish ----------------------------
(***************************************************************************)
(* How export_query_inner of apps/desktop/src-tauri/src/data_engine.rs     *)
(* replaces a file and the provenance beside it: both are written under    *)
(* names of their own and renamed in place, what was there is moved aside  *)
(* and brought back when a step fails.  Any write, rename or removal and   *)
(* the look at the size of what was published may fail, and the process    *)
(* may end between any two of them.                                        *)
(***************************************************************************)
EXTENDS Option, Naturals

CONSTANTS
  MaxExports  \* bound: exports to one destination

(* What the constants are assumed to be; ExportInv carries it along. *)
ExportAssumption ==
  MaxExports \in Nat /\ None \notin Nat /\ None \notin {"ok", "error", "kept", "uninspected"}

VARIABLES
  step,      \* the next step of the export, or "rest"
  export,  \* its number, which stands for what it writes; 0 was there before
  dest,    \* what is at the destination of each file, or None
  part,    \* what is under its temporary name
  saved,   \* what this export has moved aside
  kept,    \* what earlier exports have left in backup files
  outcome, \* what the last export returned, "crash" when it did not
  last,    \* auxiliary: the contents of the last completed export
  before,  \* auxiliary: the destinations when the export started
  stuck    \* auxiliary: a file that had to be removed is still there

exportVars == <<step, export, dest, part, saved, kept, outcome, last, before, stuck>>

Files == {"data", "provenance"}
Places == {"rest", "write", "describe", "save data", "save provenance", "publish data",
           "publish provenance", "clean", "inspect", "undo", "restore data", "restore provenance"}
Contents == Nat
Partial == MaxExports + 1  \* a file whose writing broke off
Nothing == [f \in Files |-> None]

(* A fresh path, a file of another origin, or a former export. *)
ExportInit ==
  /\ step = "rest" /\ export = 0
  /\ dest \in {Nothing, [Nothing EXCEPT !["data"] = 0], [f \in Files |-> 0]}
  /\ part = Nothing /\ saved = Nothing
  /\ kept = [f \in Files |-> {}]
  /\ outcome = None
  /\ last = dest /\ before = dest
  /\ stuck = FALSE

(* The export returns; what it moved aside and did not bring back stays. *)
Leave(way) ==
  /\ step' = "rest"
  /\ outcome' = way
  /\ kept' = [f \in Files |-> kept[f] \cup ({saved'[f]} \ {None})]

(* remove_file on the temporary files, its errors ignored. *)
RemoveParts ==
  \E left \in SUBSET Files :
    /\ part' = [f \in Files |-> IF f \in left THEN part[f] ELSE None]
    /\ stuck' = (stuck \/ \E f \in left : part[f] # None)

-----------------------------------------------------------------------------
Start ==
  /\ step = "rest" /\ export < MaxExports
  /\ step' = "write"
  /\ export' = export + 1
  /\ outcome' = None
  /\ part' = Nothing /\ saved' = Nothing
  /\ before' = dest
  /\ stuck' = FALSE
  /\ UNCHANGED <<dest, kept, last>>

(* The query's rows go to a file of their own. *)
Write ==
  /\ step = "write"
  /\ step' = "describe"
  /\ part' = [part EXCEPT !["data"] = export]
  /\ UNCHANGED <<export, dest, saved, kept, outcome, last, before, stuck>>

(* Mutant: what is there of the file is forgotten. *)
WriteFailsAndLeaves ==
  /\ step = "write"
  /\ part' = [part EXCEPT !["data"] = Partial]
  /\ saved' = saved /\ Leave("error")
  /\ UNCHANGED <<export, dest, last, before, stuck>>

(* An error or a stop: what is there of the file is removed. *)
WriteFails ==
  /\ step = "write"
  /\ \E removed \in BOOLEAN :
       /\ part' = [part EXCEPT !["data"] = IF removed THEN None ELSE Partial]
       /\ stuck' = ~removed
  /\ saved' = saved /\ Leave("error")
  /\ UNCHANGED <<export, dest, last, before>>

Describe ==
  /\ step = "describe"
  /\ step' = "save data"
  /\ part' = [part EXCEPT !["provenance"] = export]
  /\ UNCHANGED <<export, dest, saved, kept, outcome, last, before, stuck>>

(* Only the data's temporary file is removed, and not even that when there *)
(* is no random name for the provenance.                                   *)
DescribeFails ==
  /\ step = "describe"
  /\ \E removed \in BOOLEAN, description \in {None, Partial} :
       /\ part' = [part EXCEPT !["data"] = IF removed THEN None ELSE @,
                               !["provenance"] = description]
       /\ stuck' = ~removed
  /\ saved' = saved /\ Leave("error")
  /\ UNCHANGED <<export, dest, last, before>>

(* The closure backup of publish_export_bundle. *)
Save(f, next) ==
  /\ dest' = [dest EXCEPT ![f] = None]
  /\ saved' = [saved EXCEPT ![f] = dest[f]]
  /\ step' = next
  /\ UNCHANGED <<export, part, kept, outcome, last, before, stuck>>

SaveData == step = "save data" /\ Save("data", "save provenance")
SaveProvenance == step = "save provenance" /\ Save("provenance", "publish data")

(* The rename fails, or there is no random name for a backup; the parts    *)
(* may then stay.                                                          *)
SaveDataFails ==
  /\ step = "save data"
  /\ RemoveParts
  /\ saved' = saved /\ Leave("error")
  /\ UNCHANGED <<export, dest, last, before>>

(* Brings one file back, or leaves it where it is. *)
BringBack(f) ==
  \/ dest' = [dest EXCEPT ![f] = saved[f]] /\ saved' = [saved EXCEPT ![f] = None]
  \/ saved[f] # None /\ UNCHANGED <<dest, saved>>

Told == IF saved' = Nothing THEN "error" ELSE "kept"

SaveProvenanceFails ==
  /\ step = "save provenance" /\ dest["provenance"] # None
  /\ IF saved["data"] = None THEN UNCHANGED <<dest, saved>> ELSE BringBack("data")
  /\ RemoveParts
  /\ Leave(Told)
  /\ UNCHANGED <<export, last, before>>

(* publish_export_file: the destination is free by now. *)
Publish(f, next) ==
  /\ dest' = [dest EXCEPT ![f] = part[f]]
  /\ part' = [part EXCEPT ![f] = None]
  /\ step' = next
  /\ UNCHANGED <<export, saved, kept, outcome, before, stuck>>

(* Mutant: the old data goes as soon as the new data is there. *)
PublishDataOnly ==
  /\ step = "publish data"
  /\ dest' = [dest EXCEPT !["data"] = part["data"]]
  /\ part' = [part EXCEPT !["data"] = None]
  /\ saved' = [saved EXCEPT !["data"] = None]
  /\ step' = "publish provenance"
  /\ UNCHANGED <<export, kept, outcome, last, before, stuck>>

PublishData == step = "publish data" /\ Publish("data", "publish provenance") /\ UNCHANGED last

PublishProvenance ==
  /\ step = "publish provenance"
  /\ Publish("provenance", "clean")
  /\ last' = [f \in Files |-> export]

PublishFails ==
  /\ step \in {"publish data", "publish provenance"}
  /\ step' = "undo"
  /\ UNCHANGED <<export, dest, part, saved, kept, outcome, last, before, stuck>>

(* What was published and what was not is removed. *)
Undo ==
  /\ step = "undo"
  /\ step' = "restore data"
  /\ \E left, parts \in SUBSET Files :
       /\ dest' = [f \in Files |-> IF f \in left THEN dest[f] ELSE None]
       /\ part' = [f \in Files |-> IF f \in parts THEN part[f] ELSE None]
       /\ stuck' = (stuck \/ (\E f \in left : dest[f] # None) \/ \E f \in parts : part[f] # None)
  /\ UNCHANGED <<export, saved, kept, outcome, last, before>>

Restore(f) ==
  IF saved[f] = None THEN UNCHANGED <<dest, saved>> ELSE BringBack(f)

RestoreData ==
  /\ step = "restore data"
  /\ Restore("data")
  /\ step' = "restore provenance"
  /\ UNCHANGED <<export, part, kept, outcome, last, before, stuck>>

RestoreProvenance ==
  /\ step = "restore provenance"
  /\ Restore("provenance")
  /\ Leave(Told)
  /\ UNCHANGED <<export, part, last, before, stuck>>

(* The backups are removed, errors ignored. *)
Clean ==
  /\ step = "clean"
  /\ step' = "inspect"
  /\ \E left \in SUBSET Files : saved' = [f \in Files |-> IF f \in left THEN saved[f] ELSE None]
  /\ UNCHANGED <<export, dest, part, kept, outcome, last, before, stuck>>

(* The size of what has been published.  When it cannot be read the export *)
(* returns an error, known by its text only: the files stay where they are. *)
Inspect ==
  /\ step = "inspect"
  /\ saved' = saved
  /\ Leave("ok") \/ Leave("uninspected")
  /\ UNCHANGED <<export, dest, part, last, before, stuck>>

(* The process ends between two steps; nothing looks for its files later. *)
Crash ==
  /\ step # "rest"
  /\ saved' = saved /\ Leave("crash")
  /\ UNCHANGED <<export, dest, part, last, before, stuck>>

ExportNext ==
  \/ Start \/ Write \/ WriteFails \/ Describe \/ DescribeFails
  \/ SaveData \/ SaveDataFails \/ SaveProvenance \/ SaveProvenanceFails
  \/ PublishData \/ PublishProvenance \/ PublishFails
  \/ Undo \/ RestoreData \/ RestoreProvenance \/ Clean \/ Inspect \/ Crash

ExportSpec == ExportInit /\ [][ExportNext]_exportVars

-----------------------------------------------------------------------------
ExportTypeOK ==
  /\ step \in Places
  /\ export \in 0 .. MaxExports
  /\ dest \in [Files -> Contents \cup {None}]
  /\ part \in [Files -> Contents \cup {None}]
  /\ saved \in [Files -> Contents \cup {None}]
  /\ kept \in [Files -> SUBSET Contents]
  /\ outcome \in {"ok", "error", "kept", "uninspected", "crash", None}
  /\ last \in [Files -> Contents \cup {None}]
  /\ before \in [Files -> Contents \cup {None}]
  /\ stuck \in BOOLEAN

(* Whatever fails and whenever the process ends, the contents of the last  *)
(* completed export are at the destination or in a backup file.            *)
NothingLost ==
  \A f \in Files : last[f] # None => last[f] \in {dest[f], saved[f]} \cup kept[f]

(* An export that succeeds has replaced both files, and so has one whose   *)
(* error is that it could not inspect them; any other error that tells of  *)
(* no backup means that nothing has changed.                               *)
OutcomeIsTrue ==
  /\ outcome = "error" /\ ~stuck => dest = before
  /\ outcome \in {"ok", "uninspected"} => dest = [f \in Files |-> export]

(* The data's temporary file does not outlive the export that wrote it. *)
DataPartCleaned ==
  outcome \in {"ok", "error", "kept", "uninspected"} /\ ~stuck => part["data"] = None

(* What the invariants rest on, step by step: where the files of before    *)
(* are, and what waits under the temporary names.                          *)
LastSaved(f) == last[f] # None => last[f] \in {saved[f]} \cup kept[f]

AtRest ==
  IF step = "rest" THEN \A f \in Files : saved[f] = None \/ saved[f] \in kept[f]
  ELSE outcome = None
Untouched == step \in {"write", "describe", "save data"} => dest = before /\ saved = Nothing
HalfSaved ==
  step = "save provenance" =>
    /\ dest["data"] = None /\ saved["data"] = before["data"]
    /\ dest["provenance"] = before["provenance"] /\ saved["provenance"] = None
AllSaved ==
  /\ step \in {"publish data", "publish provenance", "undo", "restore data"} =>
       saved = before /\ \A f \in Files : LastSaved(f)
  /\ step = "publish data" => dest = Nothing
  /\ step = "publish provenance" => dest["data"] = export /\ dest["provenance"] = None
Undone ==
  /\ step = "restore data" /\ ~stuck => dest = Nothing
  /\ step = "restore provenance" =>
       /\ saved["provenance"] = before["provenance"] /\ LastSaved("provenance")
       /\ ~stuck => dest["provenance"] = None
       /\ ~stuck /\ saved["data"] = None => dest["data"] = before["data"]
  /\ step \in {"restore data", "restore provenance"} /\ ~stuck => part = Nothing
Completed ==
  step \in {"clean", "inspect"} =>
    dest = [f \in Files |-> export] /\ last = dest /\ part["data"] = None
PartsReady ==
  /\ step \in {"describe", "save data", "save provenance", "publish data"} => part["data"] = export
  /\ step \in {"save data", "save provenance", "publish data", "publish provenance"} =>
       part["provenance"] = export
  /\ step = "publish provenance" => part["data"] = None

ExportInv == /\ ExportAssumption /\ ExportTypeOK /\ NothingLost /\ OutcomeIsTrue /\ DataPartCleaned
             /\ AtRest /\ Untouched /\ HalfSaved /\ AllSaved /\ Undone /\ Completed /\ PartsReady
==============================================================================
