---------------------------- MODULE DesktopWindow ----------------------------
(***************************************************************************)
(* The window of the desktop as App.tsx and ResultsGrid.tsx keep it: one   *)
(* query at a time with the dialogs that come before it, its stop, the one *)
(* result that all tabs share with what is known of its editability, and   *)
(* the edits of its rows that are staged and applied.  Tabs may change     *)
(* while any of this waits for the backend or the engine.                  *)
(* A tab is its connection.  SQL is what the checks before a query tell    *)
(* apart; results are numbered by the query that read them, and rows are   *)
(* those that are edited.                                                  *)
(***************************************************************************)
EXTENDS Option, Naturals, FiniteSets

CONSTANTS
  Connections,
  OfEngine,       \* those whose statements the analysis engine runs: S3, DuckDB
  EditedRows,     \* bound: the rows that are edited
  MaxStatements,  \* bound: statements of a query
  MaxQueries      \* bound: queries

ASSUME WindowAssumption == OfEngine \subseteq Connections /\ MaxStatements \in Nat \ {0} /\ MaxQueries \in Nat

VARIABLES
  active,     \* activeConnectionId
  dialog,     \* the dialog that asks before a query, or None
  trusted,    \* trustedWarningConnections
  query,      \* activeQueryRef, or None
  sequence,   \* executionSequenceRef
  stops,      \* the queries a request to stop is under way for
  held,       \* those of them that wait behind a query, or for a client of its pool
  crossed,    \* auxiliary: a stop met another query than its own
  result,     \* result, or None
  editable,   \* editability: of which query's result, or None
  analyses,   \* the queries whose editability is being analysed
  staged,     \* localChanges of the grid
  applying,   \* the changes applyChanges goes through, or None
  wrote       \* auxiliary: how the last row.update belongs to its row, or None

jobVars == <<dialog, trusted>>
queryVars == <<query, sequence, stops, held, crossed>>
resultVars == <<result, editable, analyses>>
editVars == <<staged, applying, wrote>>
windowVars == <<active, jobVars, queryVars, resultVars, editVars>>

(* What extractVariablesUnion and analyzeExecutionRisk say of the SQL. *)
Texts == {"variables", "safe", "warning", "critical"}
Jobs == {job \in [text : Texts, statements : 1 .. MaxStatements, preview : BOOLEAN] :
           job.preview => job.statements = 1}

Dialogs == [why : {"choice", "variables", "risk"}, job : Jobs]
Queries == [of : Nat, on : Connections, preview : BOOLEAN, asked : BOOLEAN,
            left : 0 .. MaxStatements, stop : {"none", "asked", "settled"}, finished : BOOLEAN]
Results == [of : Nat, on : Connections]
Applications == [rows : SUBSET EditedRows, result : Results \cup {None},
                 editable : Nat \cup {None}, on : Connections]
Updates == [table : BOOLEAN, connection : BOOLEAN]

ASSUME NothingAssumption ==
  None \notin Dialogs \cup Queries \cup Results \cup Applications \cup Updates \cup Nat

WindowInit ==
  /\ active \in Connections
  /\ dialog = None /\ trusted = {} /\ query = None /\ sequence = 0 /\ stops = {} /\ held = {} /\ crossed = FALSE
  /\ result = None /\ editable = None /\ analyses = {}
  /\ staged = {} /\ applying = None /\ wrote = None

-----------------------------------------------------------------------------
(* runSqlSequence, up to where the query begins. *)
Ask(why, job) == dialog' = [why |-> why, job |-> job]
(* Mutant: a connection that is trusted is trusted with everything. *)
TrustsAll(job) == active \in trusted

Trusts(job) == job.text = "warning" /\ active \in trusted

(* A result is replaced: the grid forgets what was staged, unless it is    *)
(* applying it.                                                            *)
Show(shown) == result' = shown /\ staged' = IF applying = None THEN {} ELSE staged

Begin(job, accepted) ==
  /\ sequence < MaxQueries
  /\ sequence' = sequence + 1
  /\ query' = [of |-> sequence', on |-> active, preview |-> job.preview,
               asked |-> job.text = "safe" \/ accepted \/ (job.text = "warning" /\ active \in trusted),
               left |-> job.statements, stop |-> "none", finished |-> FALSE]
  /\ Show(None) /\ editable' = None
  /\ UNCHANGED <<active, stops, held, crossed, analyses, applying, wrote>>

Run(job, accepted) ==
  IF job.text = "variables" THEN Ask("variables", job) /\ UNCHANGED <<active, queryVars, resultVars, editVars>>
  ELSE IF job.text # "safe" /\ ~accepted /\ ~Trusts(job)
    THEN Ask("risk", job) /\ UNCHANGED <<active, queryVars, resultVars, editVars>>
  ELSE dialog' = None /\ IF query # None THEN UNCHANGED <<active, queryVars, resultVars, editVars>>
                         ELSE Begin(job, accepted)

(* handleRun, handleRunAll, handlePreviewCte: the user runs something, or  *)
(* is asked first which of several statements are meant.                   *)
Press ==
  /\ dialog = None
  /\ \E job \in Jobs : \/ Run(job, FALSE)
                       \/ /\ job.statements > 1
                          /\ Ask("choice", job)
                          /\ UNCHANGED <<active, queryVars, resultVars, editVars>>
  /\ UNCHANGED trusted

(* handleRunChoice: one of the statements, or all of them. *)
Choose ==
  /\ dialog # None /\ dialog.why = "choice"
  /\ \/ Run(dialog.job, FALSE)
     \/ Run([dialog.job EXCEPT !.statements = 1], FALSE)
  /\ UNCHANGED trusted

(* handleVariablesSubmit: what the values make of the SQL is looked at.    *)
(* When they name variables again, the dialog that opens has nothing to    *)
(* run.                                                                    *)
Submit ==
  /\ dialog # None /\ dialog.why = "variables"
  /\ \E text \in Texts \ {"variables"} : Run([dialog.job EXCEPT !.text = text], FALSE)
  /\ UNCHANGED trusted

(* The risk dialog is confirmed, for this query or for all warnings of the *)
(* connection that is active now.                                          *)
Confirm ==
  /\ dialog # None /\ dialog.why = "risk"
  /\ trusted' \in {trusted, trusted \cup {active}}
  /\ Run(dialog.job, TRUE)

Dismiss == dialog # None /\ dialog' = None /\ UNCHANGED <<active, trusted, queryVars, resultVars, editVars>>

(* selectTab, onSelectConnection, closeTab and what opens a tab by itself: *)
(* an import that ends, a local dataset, the native menu.                  *)
Switch(c) == active # c /\ active' = c /\ UNCHANGED <<jobVars, queryVars, resultVars, editVars>>

-----------------------------------------------------------------------------
(* Mutant: a query that has ended does not wait for its stop. *)
EndedAtOnce(q) == IF q.finished THEN None ELSE q

(* finishQuery: a query ends when it is finished and no stop of it is      *)
(* under way.                                                              *)
Ended(q) == IF q.finished /\ q.stop # "asked" THEN None ELSE q
Finish == query' = Ended([query EXCEPT !.finished = TRUE])

Running == query # None /\ ~query.finished
Aborted == Running /\ query.stop = "settled" /\ query.on \notin OfEngine

(* The loop over the statements goes on with the next one. *)
NextStatement ==
  /\ Running /\ query.left > 1 /\ ~Aborted
  /\ query' = [query EXCEPT !.left = @ - 1]
  /\ UNCHANGED <<active, jobVars, sequence, stops, held, crossed, resultVars, editVars>>

(* The last one is answered; but for a preview the backend is asked        *)
(* whether the rows may be edited.                                         *)
Succeed ==
  /\ Running /\ query.left = 1 /\ ~Aborted
  /\ Show([of |-> query.of, on |-> query.on])
  /\ analyses' = IF query.preview \/ query.on \in OfEngine THEN analyses ELSE analyses \cup {query.of}
  /\ Finish
  /\ UNCHANGED <<active, jobVars, sequence, stops, held, crossed, editable, applying, wrote>>

(* A statement fails, or finds that its fetch was aborted. *)
Fails == Running /\ Finish /\ UNCHANGED <<active, jobVars, sequence, stops, held, crossed, resultVars, editVars>>
Abort == Aborted /\ Fails

(* exportFullLocalCsv: an export is the window's query too, but leaves the *)
(* result as it is.                                                        *)
Export ==
  /\ query = None /\ active \in OfEngine /\ result # None /\ sequence < MaxQueries
  /\ sequence' = sequence + 1
  /\ query' = [of |-> sequence', on |-> active, preview |-> TRUE, asked |-> TRUE, left |-> 0,
                stop |-> "none", finished |-> FALSE]
  /\ UNCHANGED <<active, jobVars, stops, held, crossed, resultVars, editVars>>

(* handleCancelRun, the request at the backend or the engine, where it     *)
(* meets the query that runs on the connection, and its end.               *)
Stop ==
  /\ Running /\ query.stop = "none"
  /\ query' = [query EXCEPT !.stop = "asked"]
  /\ stops' = stops \cup {query.of}
  /\ UNCHANGED <<active, jobVars, sequence, held, crossed, resultVars, editVars>>

(* The sidecar serves the cancel of a JDBC connection after its query, and *)
(* MySQL's needs a client that the pool may not have.                      *)
StopIsHeld(s) ==
  /\ s \in stops \ held /\ Running /\ query.on \notin OfEngine
  /\ held' = held \cup {s}
  /\ UNCHANGED <<active, jobVars, query, sequence, stops, crossed, resultVars, editVars>>

(* The query is aborted then, whatever the answer was. *)
Settled(q) == [q EXCEPT !.stop = "settled"]

StopArrives(s) ==
  /\ s \in stops
  /\ stops' = stops \ {s} /\ held' = held \ {s}
  /\ crossed' = (crossed \/ (Running /\ query.of # s))
  /\ query' = IF query # None /\ query.of = s THEN Ended(Settled(query)) ELSE query
  /\ UNCHANGED <<active, jobVars, sequence, resultVars, editVars>>

(* Mutant: any answer is taken for that of the result that is shown. *)
CurrentAlways(s) == result # None

Current(s) == s = sequence

(* query.analyzeEditability answers: the rows may be edited, or not. *)
Analysed(s, rows) ==
  /\ s \in analyses
  /\ analyses' = analyses \ {s}
  /\ editable' = IF ~Current(s) THEN editable ELSE IF rows THEN s ELSE None
  /\ UNCHANGED <<active, jobVars, queryVars, result, editVars>>

(* setMongoSqlMode: the result is cleared. *)
ChangeMode ==
  /\ query = None /\ result # None
  /\ Show(None) /\ editable' = None
  /\ UNCHANGED <<active, jobVars, queryVars, analyses, applying, wrote>>

-----------------------------------------------------------------------------
(* stageEdit: a row of the result, whichever the grid shows then, gets a   *)
(* new value.                                                              *)
Stage(row) ==
  /\ query = None /\ result # None /\ editable # None
  /\ staged' = staged \cup {row}
  /\ UNCHANGED <<active, jobVars, queryVars, resultVars, applying, wrote>>

Discard == staged # {} /\ staged' = {} /\ UNCHANGED <<active, jobVars, queryVars, resultVars, applying, wrote>>

(* applyChanges goes through the changes with what handleCellEdit was when *)
(* the grid was drawn: that result, its editability, and the connection of *)
(* the active tab.                                                         *)
Apply ==
  /\ applying = None /\ staged # {}
  /\ applying' = [rows |-> staged, result |-> result, editable |-> editable, on |-> active]
  /\ UNCHANGED <<active, jobVars, queryVars, resultVars, staged, wrote>>

(* Without a result that may be edited handleCellEdit does nothing, and    *)
(* the change counts as applied.                                           *)
Writes == applying.result # None /\ applying.editable # None

ApplyTo(row) ==
  /\ applying # None /\ row \in applying.rows
  /\ wrote' = IF Writes THEN [table |-> applying.editable = applying.result.of, connection |-> applying.on = applying.result.on] ELSE wrote
  /\ applying' = IF applying.rows = {row} THEN None ELSE [applying EXCEPT !.rows = @ \ {row}]
  /\ staged' = IF applying' = None /\ Writes /\ result # None THEN {} ELSE staged \ {row}
  /\ UNCHANGED <<active, jobVars, queryVars, resultVars>>

(* row.update is refused or fails: the rest stays staged. *)
ApplyFails ==
  /\ applying # None /\ Writes
  /\ applying' = None
  /\ UNCHANGED <<active, jobVars, queryVars, resultVars, staged, wrote>>

WindowNext ==
  \/ Press \/ Choose \/ Submit \/ Confirm \/ Dismiss \/ (\E c \in Connections : Switch(c))
  \/ NextStatement \/ Succeed \/ Fails \/ Abort \/ Export \/ Stop \/ ChangeMode
  \/ (\E s \in stops : StopArrives(s) \/ StopIsHeld(s))
  \/ (\E s \in analyses, rows \in BOOLEAN : Analysed(s, rows))
  \/ (\E row \in EditedRows : Stage(row) \/ ApplyTo(row)) \/ Discard \/ Apply \/ ApplyFails

(* A request to stop is answered, by the backend or by a broken            *)
(* connection, unless it is held, and the fetch then aborted.  No query    *)
(* need end by itself.                                                     *)
WindowFairness ==
  WF_windowVars(\E s \in stops \ held : StopArrives(s)) /\ WF_windowVars(Abort)

WindowSpec == WindowInit /\ [][WindowNext]_windowVars

-----------------------------------------------------------------------------
WindowTypeOK ==
  /\ active \in Connections /\ trusted \subseteq Connections
  /\ dialog \in Dialogs \cup {None} /\ query \in Queries \cup {None} /\ crossed \in BOOLEAN
  /\ result \in Results \cup {None} /\ editable \in Nat \cup {None}
  /\ applying \in Applications \cup {None} /\ wrote \in Updates \cup {None}
  /\ sequence \in Nat /\ stops \cup held \cup analyses \subseteq 1 .. sequence /\ staged \subseteq EditedRows

(* What is risky was accepted when it runs, whichever dialogs came before. *)
RiskAccepted == query # None => query.asked

(* What is known of the rows is known of the rows that are shown. *)
EditabilityBelongs == result # None /\ editable # None => editable = result.of

(* Until the last statement of a query is answered nothing is known of its *)
(* rows, and what the latest query asked about are the rows that are shown.*)
AnalysisBelongs ==
  /\ Running /\ query.left > 0 => editable = None /\ sequence \notin analyses
  /\ result # None /\ sequence \in analyses => result.of = sequence

(* A query waits for its stop, whatever else has ended of it. *)
QueryWaits ==
  /\ query # None => query.of = sequence /\ sequence # 0
  /\ \A s \in stops : query # None /\ query.of = s /\ query.stop = "asked"

(* A stop meets no other query than its own. *)
StopsItsOwnQuery == ~crossed

(* A row is updated in the table its key values were read from, and so are *)
(* those that are still to come.                                           *)
WritesToTableOfRow ==
  /\ wrote # None => wrote.table
  /\ applying # None /\ Writes => applying.editable = applying.result.of

WindowInv ==
  /\ WindowTypeOK /\ RiskAccepted /\ EditabilityBelongs /\ AnalysisBelongs
  /\ QueryWaits /\ StopsItsOwnQuery /\ WritesToTableOfRow

(* A query of the backend that the user stops ends, however long its       *)
(* statements take, unless the stop itself is held.                        *)
StoppedQueriesEnd ==
  (query # None /\ query.on \notin OfEngine /\ query.stop = "asked")
    ~> (query = None \/ query.of \in held)

(* A row is updated where it was read. *)
EditsWhereItRead == wrote # None => wrote.connection
=============================================================================
