---------------------------- MODULE DesktopProofs ----------------------------
(***************************************************************************)
(* What a window asks its user, for any number of requests, connections,   *)
(* tabs, queries and rows, whatever the user does and however late React   *)
(* commits.  MCP requests: nobody waits for a dialog that is not there,    *)
(* and no statement goes to the backend but where a dialog the user        *)
(* pressed a button of was shown.  That a dialog of long ago still names   *)
(* where it was shown needs that a request is asked for once, which        *)
(* ShownWasAsked says of every dialog there was.  Queries and edits: what  *)
(* is risky is asked about, a stop meets its own query, and an edit        *)
(* belongs to the table its row was read from.                             *)
(***************************************************************************)
EXTENDS DesktopInterface, TLAPS

USE InterfaceAssumption DEF A!ApprovalAssumption

LEMMA ApprovalInit == A!Init => A!ApprovalInv
<1> SUFFICES ASSUME A!Init PROVE A!ApprovalInv  OBVIOUS
<1>1. (CHOOSE t \in Tabs : TRUE) \in Tabs /\ (CHOOSE c \in Connections : TRUE) \in Connections
  OBVIOUS
<1>2. A!Nothing \in [tab : Tabs \cup {None}, connection : Connections \cup {None}, revision : Nat]
  BY DEF A!Nothing
<1>3. A!TypeOK
  BY <1>1, <1>2 DEF A!Init, A!TypeOK
<1>4. A!WaitsForItsDialog
  BY DEF A!Init, A!WaitsForItsDialog
<1>5. A!ShownWasAsked
  BY DEF A!Init, A!ShownWasAsked
<1>6. A!RunsWhereShown
  BY DEF A!Init, A!RunsWhereShown
<1> QED BY <1>3, <1>4, <1>5, <1>6 DEF A!ApprovalInv

-----------------------------------------------------------------------------
(* The bridge and the backend: one request moves.                          *)
LEMMA TakeKeeps ==
  ASSUME A!ApprovalInv, NEW r \in Requests, A!Take(r)
  PROVE  A!ApprovalInv'
<1>1. A!TypeOK'
  BY DEF A!Take, A!ApprovalInv, A!TypeOK, A!Active, A!dialog, A!editor
<1>2. A!WaitsForItsDialog'
  BY DEF A!Take, A!ApprovalInv, A!TypeOK, A!WaitsForItsDialog
<1>3. A!ShownWasAsked'
  <2>1. tab \in Tabs  BY DEF A!ApprovalInv, A!TypeOK
  <2>2. \A q \in Requests : pc[q] # "new" => pc'[q] # "new" /\ asked'[q] = asked[q]
    BY DEF A!Take, A!ApprovalInv, A!TypeOK
  <2>3. pc'[r] = "asked" /\ asked'[r].tab = tab
    BY DEF A!Take, A!ApprovalInv, A!TypeOK
  <2>4. shown' = shown /\ pressed' = pressed /\ proposal' = r
    BY DEF A!Take
  <2> QED BY <2>1, <2>2, <2>3, <2>4 DEF A!ApprovalInv, A!TypeOK, A!ShownWasAsked
<1>4. A!RunsWhereShown'
  <2> SUFFICES ASSUME NEW q \in Requests, pc'[q] \in {"calling", "sql"}
               PROVE  /\ kind'[q] = "execute" /\ pressed'[q] # None
                      /\ kind'[pressed'[q]] = "execute" =>
                           /\ asked'[pressed'[q]].tab = asked'[q].tab
                           /\ asked'[pressed'[q]].connection = asked'[q].connection
    BY DEF A!RunsWhereShown
  <2>1. q # r /\ pc[q] = pc'[q] /\ pressed' = pressed /\ kind' = kind
    BY DEF A!Take, A!ApprovalInv, A!TypeOK
  <2>2. pressed[q] \in Requests /\ pressed[q] # r
    BY <2>1 DEF A!Take, A!ApprovalInv, A!TypeOK, A!RunsWhereShown, A!ShownWasAsked
  <2>3. asked'[q] = asked[q] /\ asked'[pressed[q]] = asked[pressed[q]]
    BY <2>1, <2>2 DEF A!Take, A!ApprovalInv, A!TypeOK
  <2> QED BY <2>1, <2>2, <2>3 DEF A!ApprovalInv, A!RunsWhereShown
<1> QED BY <1>1, <1>2, <1>3, <1>4 DEF A!ApprovalInv

(* A request that nobody waits for at the dialog goes on or ends.          *)
LEMMA BackendKeeps ==
  ASSUME A!ApprovalInv, NEW r \in Requests,
         A!TakeRefused(r) \/ A!GetsLate(r) \/ A!GivenUp(r) \/ A!ExecuteArrives(r) \/ A!SqlEnds(r)
  PROVE  A!ApprovalInv'
<1>1. A!TypeOK'
  BY DEF A!TakeRefused, A!GetsLate, A!GivenUp, A!ExecuteArrives, A!SqlEnds, A!ApprovalInv, A!TypeOK, A!dialog, A!editor
<1>2. /\ UNCHANGED <<kind, asked, pressed, resolver, proposal, shown>>
      /\ \A q \in Requests :
           \/ pc'[q] = pc[q]
           \/ pc[q] # "asked" /\ pc'[q] = "done"
           \/ pc[q] = "calling" /\ pc'[q] = "sql"
  BY DEF A!TakeRefused, A!GetsLate, A!GivenUp, A!ExecuteArrives, A!SqlEnds, A!ApprovalInv, A!TypeOK, A!dialog
<1>3. A!WaitsForItsDialog' /\ A!ShownWasAsked' /\ A!RunsWhereShown'
  BY <1>2 DEF A!ApprovalInv, A!TypeOK, A!WaitsForItsDialog, A!ShownWasAsked, A!RunsWhereShown
<1> QED BY <1>1, <1>3 DEF A!ApprovalInv

-----------------------------------------------------------------------------
(* The dialog: resolveMcpProposal, from a button or from the timer.        *)
LEMMA ResolveKeeps ==
  ASSUME A!ApprovalInv,
         NEW outcome, NEW p \in Requests \cup {None}, A!Resolve(outcome, p),
         outcome = "approved" => p = shown /\ p # None /\ (kind[p] = "execute" => A!IsCurrent(p)),
         shown' \in {shown, None}, UNCHANGED <<kind, asked>>
  PROVE  /\ A!WaitsForItsDialog' /\ A!ShownWasAsked' /\ A!RunsWhereShown'
         /\ pc' \in [Requests -> {"new", "asked", "calling", "sql", "done"}]
         /\ live' \in [Requests -> BOOLEAN]
         /\ pressed' \in [Requests -> Requests \cup {None}]
         /\ resolver' = None /\ proposal' = None
<1>1. /\ pc' \in [Requests -> {"new", "asked", "calling", "sql", "done"}]
      /\ live' \in [Requests -> BOOLEAN]
      /\ pressed' \in [Requests -> Requests \cup {None}]
      /\ resolver' = None /\ proposal' = None
  BY DEF A!Resolve, A!Continued, A!ApprovalInv, A!TypeOK
<1>2. \A q \in Requests : q # resolver => pc'[q] = pc[q] /\ pressed'[q] = pressed[q]
  BY DEF A!Resolve
<1>3. \A q \in Requests : q = resolver => pc'[q] \in {"calling", "done"}
  BY DEF A!Resolve, A!Continued
<1>4. \A q \in Requests : pc[q] # "new" => pc'[q] # "new"
  BY <1>2, <1>3
<1>5. A!WaitsForItsDialog'
  BY <1>1, <1>2, <1>3 DEF A!ApprovalInv, A!TypeOK, A!WaitsForItsDialog
<1>6. \A q \in Requests : pressed'[q] \in {pressed[q], shown, None}
  BY DEF A!Resolve, A!ApprovalInv, A!TypeOK
<1>7. A!ShownWasAsked'
  BY <1>1, <1>4, <1>6 DEF A!ApprovalInv, A!TypeOK, A!ShownWasAsked
<1>8. ASSUME NEW q \in Requests, pc'[q] \in {"calling", "sql"}
      PROVE  /\ kind[q] = "execute" /\ pressed'[q] # None
             /\ kind[pressed'[q]] = "execute" =>
                  /\ asked[pressed'[q]].tab = asked[q].tab
                  /\ asked[pressed'[q]].connection = asked[q].connection
  <2>1. CASE q # resolver
    BY <1>2, <1>8, <2>1 DEF A!ApprovalInv, A!RunsWhereShown
  <2>2. CASE q = resolver
    <3>1. pc'[q] = A!Continued(q, outcome)  BY <2>2 DEF A!Resolve
    <3>2. /\ outcome = "approved" /\ kind[q] = "execute"
          /\ tab = asked[q].tab /\ A!Active = asked[q].connection
      BY <1>8, <3>1 DEF A!Continued
    <3>3. pressed'[q] = p  BY <2>2, <3>2 DEF A!Resolve
    <3> QED BY <3>2, <3>3 DEF A!IsCurrent
  <2> QED BY <2>1, <2>2
<1>9. A!RunsWhereShown'
  BY <1>8 DEF A!RunsWhereShown
<1> QED BY <1>1, <1>5, <1>7, <1>9

LEMMA RejectKeeps ==
  ASSUME A!ApprovalInv, A!Reject
  PROVE  A!ApprovalInv'
<1>1. /\ A!Resolve("rejected", None)
      /\ shown' \in {shown, None} /\ shown' = None /\ armed' = FALSE
      /\ UNCHANGED <<kind, late, asked, tab, bound, open, revision, moves, restarts>>
  BY DEF A!Reject, A!Committed, A!editor
<1> QED BY <1>1, ResolveKeeps DEF A!ApprovalInv, A!TypeOK

LEMMA ExpiryKeeps ==
  ASSUME A!ApprovalInv, A!DialogExpires
  PROVE  A!ApprovalInv'
<1>1. /\ A!Resolve("rejected", None)
      /\ shown' \in {shown, None} /\ shown' = shown /\ armed' = FALSE
      /\ UNCHANGED <<kind, late, asked, tab, bound, open, revision, moves, restarts>>
  BY DEF A!DialogExpires, A!editor
<1> QED BY <1>1, ResolveKeeps DEF A!ApprovalInv, A!TypeOK

LEMMA RunKeeps ==
  ASSUME A!ApprovalInv, A!Run
  PROVE  A!ApprovalInv'
<1> DEFINE outcome == IF late[shown] THEN "rejected"
                      ELSE IF A!IsCurrent(shown) THEN "approved" ELSE "stale"
<1>1. /\ shown \in Requests /\ A!Resolve(outcome, shown)
      /\ shown' \in {shown, None} /\ shown' = None /\ armed' = FALSE
      /\ UNCHANGED <<kind, late, asked, tab, bound, open, revision, moves, restarts>>
  BY DEF A!Run, A!Committed, A!editor, A!ApprovalInv, A!TypeOK
<1>2. outcome = "approved" => shown # None /\ A!IsCurrent(shown)
  BY <1>1
<1> HIDE DEF outcome
<1> QED BY <1>1, <1>2, ResolveKeeps DEF A!ApprovalInv, A!TypeOK

LEMMA ApplyEditKeeps ==
  ASSUME A!ApprovalInv, A!ApplyEdit
  PROVE  A!ApprovalInv'
<1> DEFINE fits == /\ ~late[shown] /\ asked[shown].tab \in open
                   /\ revision[asked[shown].tab] = asked[shown].revision
           outcome == IF late[shown] THEN "rejected" ELSE IF fits THEN "approved" ELSE "stale"
<1>1. /\ shown \in Requests /\ kind[shown] = "edit" /\ A!Resolve(outcome, shown)
      /\ shown' \in {shown, None} /\ shown' = None /\ armed' = FALSE
      /\ UNCHANGED <<kind, late, asked, tab, bound, open, moves, restarts>>
      /\ IF fits THEN A!Typed(asked[shown].tab) ELSE UNCHANGED revision
  BY DEF A!ApplyEdit, A!Committed, A!ApprovalInv, A!TypeOK
<1>2. revision' \in [Tabs -> Nat]
  <2>1. CASE fits
    BY <1>1, <2>1 DEF A!Typed, A!ApprovalInv, A!TypeOK
  <2>2. CASE ~fits
    BY <1>1, <2>2 DEF A!ApprovalInv, A!TypeOK
  <2> QED BY <2>1, <2>2
<1> HIDE DEF fits, outcome
<1> QED BY <1>1, <1>2, ResolveKeeps DEF A!ApprovalInv, A!TypeOK

(* React commits what the state says, and the effect runs again.           *)
LEMMA CommitKeeps ==
  ASSUME A!ApprovalInv, A!Commit
  PROVE  A!ApprovalInv'
<1>1. A!TypeOK'
  BY DEF A!Commit, A!ApprovalInv, A!TypeOK, A!editor
<1>2. A!WaitsForItsDialog' /\ A!ShownWasAsked' /\ A!RunsWhereShown'
  BY DEF A!Commit, A!ApprovalInv, A!WaitsForItsDialog, A!ShownWasAsked, A!RunsWhereShown
<1> QED BY <1>1, <1>2 DEF A!ApprovalInv

LEMMA RestartKeeps ==
  ASSUME A!ApprovalInv, A!Restart
  PROVE  A!ApprovalInv'
<1>1. A!TypeOK'
  BY DEF A!Restart, A!ApprovalInv, A!TypeOK, A!dialog, A!editor
<1>2. /\ UNCHANGED <<kind, asked, pressed, proposal, shown>> /\ resolver' = None
      /\ \A q \in Requests : pc'[q] = IF q = resolver THEN "done" ELSE pc[q]
  BY DEF A!Restart, A!dialog
<1>3. A!WaitsForItsDialog' /\ A!ShownWasAsked' /\ A!RunsWhereShown'
  BY <1>2 DEF A!ApprovalInv, A!TypeOK, A!WaitsForItsDialog, A!ShownWasAsked, A!RunsWhereShown
<1> QED BY <1>1, <1>3 DEF A!ApprovalInv

(* The user elsewhere in the window moves nothing of a request.            *)
LEMMA UserKeeps ==
  ASSUME A!ApprovalInv, A!User
  PROVE  A!ApprovalInv'
<1>1. open' \subseteq Tabs /\ tab' \in open' /\ bound' \in [Tabs -> Connections \cup {None}]
      /\ revision' \in [Tabs -> Nat] /\ moves' \in Nat
  <2>1. moves' \in Nat  BY DEF A!User, A!ApprovalInv, A!TypeOK
  <2>2. CASE A!SelectTab  BY <2>1, <2>2 DEF A!SelectTab, A!ApprovalInv, A!TypeOK
  <2>3. CASE A!ChooseConnection  BY <2>1, <2>3 DEF A!ChooseConnection, A!ApprovalInv, A!TypeOK
  <2>4. CASE A!CloseTab  BY <2>1, <2>4 DEF A!CloseTab, A!ApprovalInv, A!TypeOK
  <2>5. CASE A!EditText  BY <2>1, <2>5 DEF A!EditText, A!Typed, A!ApprovalInv, A!TypeOK
  <2> QED BY <2>2, <2>3, <2>4, <2>5 DEF A!User
<1>2. UNCHANGED <<kind, live, late, pc, asked, pressed, resolver, proposal, shown, armed, restarts>>
  BY DEF A!User, A!dialog
<1>3. A!TypeOK'
  BY <1>1, <1>2 DEF A!ApprovalInv, A!TypeOK
<1>4. A!WaitsForItsDialog' /\ A!ShownWasAsked' /\ A!RunsWhereShown'
  BY <1>2 DEF A!ApprovalInv, A!WaitsForItsDialog, A!ShownWasAsked, A!RunsWhereShown
<1> QED BY <1>3, <1>4 DEF A!ApprovalInv

-----------------------------------------------------------------------------
LEMMA ApprovalStep ==
  ASSUME A!ApprovalInv, [A!Next]_A!vars
  PROVE  A!ApprovalInv'
<1>1. CASE A!Next
  BY <1>1, TakeKeeps, BackendKeeps, RejectKeeps, RunKeeps, ApplyEditKeeps, CommitKeeps,
     ExpiryKeeps, RestartKeeps, UserKeeps DEF A!Next
<1>2. CASE UNCHANGED A!vars
  BY <1>2 DEF A!vars, A!dialog, A!editor, A!ApprovalInv, A!TypeOK, A!WaitsForItsDialog, A!ShownWasAsked, A!RunsWhereShown
<1> QED BY <1>1, <1>2

-----------------------------------------------------------------------------
LEMMA InterfaceKeepsApproval ==
  ASSUME A!ApprovalInv, [QueriesStep \/ RequestsStep]_<<part, windowVars, approvalVars>>
  PROVE  A!ApprovalInv'
<1>1. A!Next \/ UNCHANGED approvalVars
  BY DEF QueriesStep, RequestsStep, approvalVars
<1>2. [A!Next]_(A!vars)
  BY <1>1 DEF approvalVars, A!vars
<1> QED BY <1>2, ApprovalStep

(* Nobody waits for a dialog that is not there, and what runs for an MCP   *)
(* client runs where a dialog said (mcp-ui-bridge.ts, App.tsx 1614-1660).  *)
THEOREM ApprovalHolds == InterfaceSpec => []ApprovalInv
<1>1. InterfaceInit => A!ApprovalInv
  BY ApprovalInit DEF InterfaceInit
<1>2. A!ApprovalInv /\ [QueriesStep \/ RequestsStep]_<<part, windowVars, approvalVars>>
        => A!ApprovalInv'
  BY InterfaceKeepsApproval
<1> QED BY <1>1, <1>2, PTL DEF InterfaceSpec, ApprovalInv

(* No statement reaches the backend without a button pressed, and none on  *)
(* another tab or connection than the dialog with that button named.       *)
THEOREM NothingRunsUnshown == InterfaceSpec => []A!RunsWhereShown
<1>1. ApprovalInv => A!RunsWhereShown
  BY DEF ApprovalInv, A!ApprovalInv
<1> QED BY <1>1, ApprovalHolds, PTL

-----------------------------------------------------------------------------
(* Queries and edits.  WindowInv is inductive: a query keeps its number to *)
(* its end and waits for its stop, so a stop that is under way meets it or *)
(* nothing; and editability is asked about once the result is shown.       *)
USE WindowAssumption, NothingAssumption

JobsStay == /\ UNCHANGED <<active, queryVars, resultVars, editVars>>
            /\ trusted' \subseteq Connections /\ dialog' \in Dialogs \cup {None}

LEMMA JobsKeep == ASSUME WindowInv, JobsStay PROVE WindowInv'
BY DEF JobsStay, queryVars, resultVars, editVars, WindowInv, WindowTypeOK, RiskAccepted,
       EditabilityBelongs, AnalysisBelongs, QueryWaits, StopsItsOwnQuery, WritesToTableOfRow,
       Running, Writes

LEMMA AskIsDialog ==
  ASSUME NEW why \in {"choice", "variables", "risk"}, NEW job \in Jobs, Ask(why, job)
  PROVE  dialog' \in Dialogs
BY DEF Ask, Dialogs

(* The result is replaced or taken away: edits that are being applied go on. *)
LEMMA ShowKeeps ==
  ASSUME WindowTypeOK, NEW new \in Results \cup {None}, Show(new)
  PROVE  result' = new /\ staged' \subseteq EditedRows
BY DEF WindowTypeOK, Show

LEMMA BeginKeeps ==
  ASSUME WindowInv, NEW job \in Jobs, NEW accepted \in BOOLEAN, query = None,
         Begin(job, accepted), job.text = "safe" \/ accepted \/ Trusts(job),
         trusted' \subseteq Connections, dialog' = None
  PROVE  WindowInv'
<1>1. sequence' = sequence + 1 /\ sequence' \in Nat /\ sequence' # 0
  BY DEF Begin, WindowInv, WindowTypeOK
<1>2. query' = [of |-> sequence', on |-> active, preview |-> job.preview, asked |-> TRUE,
                left |-> job.statements, stop |-> "none", finished |-> FALSE]
  BY DEF Begin, Trusts
<1>3. job.statements \in 1 .. MaxStatements /\ job.preview \in BOOLEAN
  BY DEF Jobs
<1>4. query' \in Queries /\ query' # None
  <2>1. active \in Connections /\ job.statements \in 0 .. MaxStatements
    BY <1>3 DEF WindowInv, WindowTypeOK
  <2>2. query' \in Queries
    BY <1>1, <1>2, <1>3, <2>1 DEF Queries
  <2> QED BY <2>2
<1>5. result' = None /\ editable' = None /\ staged' \subseteq EditedRows
  BY ShowKeeps DEF Begin, WindowInv
<1>6. UNCHANGED <<active, stops, held, crossed, analyses, applying, wrote>>
  BY DEF Begin
<1>7. stops = {}
  BY DEF WindowInv, QueryWaits
<1>8. query'.of = sequence' /\ query'.asked
  BY <1>2
<1>9. WindowTypeOK'
  BY <1>1, <1>4, <1>5, <1>6 DEF WindowInv, WindowTypeOK
<1>10. AnalysisBelongs'
  BY <1>1, <1>5, <1>6 DEF WindowInv, WindowTypeOK, AnalysisBelongs
<1>11. RiskAccepted' /\ EditabilityBelongs' /\ QueryWaits' /\ StopsItsOwnQuery' /\ WritesToTableOfRow'
  BY <1>1, <1>5, <1>6, <1>7, <1>8
  DEF WindowInv, RiskAccepted, EditabilityBelongs, QueryWaits, StopsItsOwnQuery, WritesToTableOfRow, Writes
<1> QED BY <1>9, <1>10, <1>11 DEF WindowInv

LEMMA RunWindowKeeps ==
  ASSUME WindowInv, NEW job \in Jobs, NEW accepted \in BOOLEAN, Run(job, accepted),
         trusted' \subseteq Connections,
         accepted \/ trusted' = trusted
  PROVE  WindowInv'
<1>1. CASE job.text = "variables"
  <2>1. JobsStay
    BY <1>1, AskIsDialog DEF Run, JobsStay
  <2> QED BY <2>1, JobsKeep
<1>2. CASE job.text \notin {"variables", "safe"} /\ ~accepted /\ ~Trusts(job)
  <2>1. JobsStay
    BY <1>2, AskIsDialog DEF Run, JobsStay
  <2> QED BY <2>1, JobsKeep
<1>3. CASE job.text # "variables" /\ (job.text = "safe" \/ accepted \/ Trusts(job))
  <2>1. dialog' = None /\ IF query # None THEN UNCHANGED <<active, queryVars, resultVars, editVars>>
                                         ELSE Begin(job, accepted)
    BY <1>3 DEF Run
  <2>2. CASE query # None
    <3>1. JobsStay
      BY <2>1, <2>2 DEF JobsStay
    <3> QED BY <3>1, JobsKeep
  <2>3. CASE query = None
    BY <1>3, <2>1, <2>3, BeginKeeps
  <2> QED BY <2>2, <2>3
<1> QED BY <1>1, <1>2, <1>3

LEMMA DialogsKeep ==
  ASSUME WindowInv, Press \/ Choose \/ Submit \/ Confirm \/ Dismiss PROVE WindowInv'
<1>1. trusted \subseteq Connections /\ active \in Connections /\ dialog \in Dialogs \cup {None}
  BY DEF WindowInv, WindowTypeOK
<1>2. dialog # None => dialog.job \in Jobs
  BY <1>1 DEF Dialogs
<1>3. CASE Press
  <2>1. PICK job \in Jobs : \/ Run(job, FALSE)
                           \/ /\ job.statements > 1
                              /\ Ask("choice", job)
                              /\ UNCHANGED <<active, queryVars, resultVars, editVars>>
    BY <1>3, Zenon DEF Press
  <2>2. trusted' = trusted
    BY <1>3 DEF Press
  <2>3. CASE Run(job, FALSE)
    BY <1>1, <2>2, <2>3, RunWindowKeeps
  <2>4. CASE Ask("choice", job) /\ UNCHANGED <<active, queryVars, resultVars, editVars>>
    <3>1. JobsStay
      BY <1>1, <2>2, <2>4, AskIsDialog DEF JobsStay
    <3> QED BY <3>1, JobsKeep
  <2> QED BY <2>1, <2>3, <2>4
<1>4. CASE Choose
  <2>1. dialog.job \in Jobs /\ trusted' = trusted
    BY <1>2, <1>4 DEF Choose
  <2>2. [dialog.job EXCEPT !.statements = 1] \in Jobs
    BY <2>1, WindowAssumption DEF Jobs
  <2> QED BY <1>1, <1>4, <2>1, <2>2, RunWindowKeeps DEF Choose
<1>5. CASE Submit
  <2>1. PICK text \in Texts \ {"variables"} : Run([dialog.job EXCEPT !.text = text], FALSE)
    BY <1>5 DEF Submit
  <2>2. [dialog.job EXCEPT !.text = text] \in Jobs /\ trusted' = trusted
    BY <1>2, <1>5 DEF Submit, Jobs
  <2> QED BY <1>1, <2>1, <2>2, RunWindowKeeps
<1>6. CASE Confirm
  BY <1>1, <1>2, <1>6, RunWindowKeeps DEF Confirm
<1>7. CASE Dismiss
  <2>1. JobsStay
    BY <1>1, <1>7 DEF Dismiss, JobsStay
  <2> QED BY <2>1, JobsKeep
<1> QED BY <1>3, <1>4, <1>5, <1>6, <1>7

LEMMA SwitchKeeps == ASSUME WindowInv, NEW c \in Connections, Switch(c) PROVE WindowInv'
BY DEF Switch, jobVars, queryVars, resultVars, editVars, WindowInv, WindowTypeOK, RiskAccepted,
       EditabilityBelongs, AnalysisBelongs, QueryWaits, StopsItsOwnQuery, WritesToTableOfRow,
       Running, Writes

-----------------------------------------------------------------------------
(* A query that moves on keeps its number; finished, it still waits for    *)
(* its stop.                                                               *)
LEMMA MovedQueryKeeps ==
  ASSUME WindowInv, query # None, query' \in Queries \cup {None},
         query' # None =>
           /\ query'.of = query.of /\ query'.asked = query.asked
           /\ ~query'.finished => ~query.finished
           /\ query'.left > 0 => query.left > 0,
         \A s \in stops' : s \in stops /\ query' # None /\ query'.stop = "asked",
         held' \subseteq 1 .. sequence,
         UNCHANGED <<active, jobVars, sequence, crossed, resultVars, editVars>>
  PROVE  WindowInv'
<1>1. WindowTypeOK'
  BY DEF WindowInv, WindowTypeOK, jobVars, resultVars, editVars
<1>2. RiskAccepted' /\ QueryWaits'
  BY DEF WindowInv, RiskAccepted, QueryWaits
<1>3. EditabilityBelongs' /\ StopsItsOwnQuery' /\ WritesToTableOfRow'
  BY DEF WindowInv, EditabilityBelongs, StopsItsOwnQuery, WritesToTableOfRow, Writes, resultVars, editVars
<1>4. AnalysisBelongs'
  BY DEF WindowInv, AnalysisBelongs, Running, resultVars
<1> QED BY <1>1, <1>2, <1>3, <1>4 DEF WindowInv

LEMMA EndedIsQuery ==
  ASSUME NEW q \in Queries, Ended(q) # None
  PROVE  Ended(q) = q /\ (q.finished => q.stop = "asked")
BY DEF Ended

LEMMA QueryGoesOn ==
  ASSUME WindowInv, NextStatement \/ Fails \/ Abort PROVE WindowInv'
<1>1. query \in Queries /\ query # None /\ ~query.finished /\ query.left \in 0 .. MaxStatements
      /\ UNCHANGED <<active, jobVars, sequence, stops, held, crossed, resultVars, editVars>>
  BY DEF NextStatement, Fails, Abort, Running, WindowInv, WindowTypeOK, Queries
<1>2. (\A s \in stops : query.stop = "asked") /\ held' \subseteq 1 .. sequence
  BY <1>1 DEF WindowInv, WindowTypeOK, QueryWaits
<1>3. CASE NextStatement
  <2>1. query' = [query EXCEPT !.left = @ - 1] /\ query.left > 1
    BY <1>3 DEF NextStatement
  <2>2. query' \in Queries /\ query'.of = query.of /\ query'.asked = query.asked
        /\ ~query'.finished /\ query'.stop = query.stop
    BY <1>1, <2>1, WindowAssumption DEF Queries
  <2> HIDE DEF Queries
  <2> QED BY <1>1, <1>2, <2>1, <2>2, MovedQueryKeeps
<1>4. CASE Fails \/ Abort
  <2> DEFINE q == [query EXCEPT !.finished = TRUE]
  <2>1. query' = Ended(q)
    BY <1>4 DEF Fails, Abort, Finish
  <2>2. q \in Queries /\ q.of = query.of /\ q.asked = query.asked /\ q.finished
        /\ q.stop = query.stop /\ q.left = query.left
    BY <1>1 DEF Queries
  <2> HIDE DEF q
  <2>3. query' \in {q, None} /\ (query.stop = "asked" => query' = q)
    BY <2>1, <2>2 DEF Ended
  <2> QED BY <1>1, <1>2, <2>2, <2>3, MovedQueryKeeps
<1> QED BY <1>3, <1>4

LEMMA SucceedKeeps == ASSUME WindowInv, Succeed PROVE WindowInv'
<1> DEFINE q == [query EXCEPT !.finished = TRUE]
<1>1. query \in Queries /\ query # None /\ ~query.finished /\ query.left = 1 /\ query.of = sequence
      /\ sequence \in Nat /\ query.on \in Connections
  BY DEF Succeed, Running, WindowInv, WindowTypeOK, Queries, QueryWaits
<1>2. editable = None /\ UNCHANGED <<active, jobVars, sequence, stops, held, crossed, editable, applying, wrote>>
  BY <1>1 DEF Succeed, Running, WindowInv, AnalysisBelongs
<1>3. q \in Queries /\ q.of = query.of /\ q.asked = query.asked /\ q.finished /\ q.stop = query.stop
  BY <1>1 DEF Queries
<1>4. query' = Ended(q)
  BY DEF Succeed, Finish
<1> HIDE DEF q
<1>5. query' \in {q, None} /\ (query.stop = "asked" => query' = q)
  BY <1>3, <1>4 DEF Ended
<1>6. [of |-> query.of, on |-> query.on] \in Results
  BY <1>1 DEF Results
<1>7. result' = [of |-> query.of, on |-> query.on] /\ staged' \subseteq EditedRows
  BY <1>6, ShowKeeps DEF Succeed, WindowInv
<1>8. result'.of = sequence
  BY <1>1, <1>7
<1>9. stops \cup held \cup analyses \subseteq 1 .. sequence /\ (stops # {} => query.stop = "asked")
  BY DEF WindowInv, WindowTypeOK, QueryWaits
<1>10. analyses' \subseteq 1 .. sequence
  <2>1. query.of \in 1 .. sequence
    BY <1>1 DEF WindowInv, QueryWaits
  <2> QED BY <1>9, <2>1 DEF Succeed
<1>11. WindowTypeOK'
  BY <1>2, <1>3, <1>5, <1>6, <1>7, <1>9, <1>10 DEF WindowInv, WindowTypeOK, jobVars
<1>12. ~Running'
  BY <1>3, <1>5 DEF Running
<1>13. RiskAccepted' /\ EditabilityBelongs' /\ AnalysisBelongs'
  BY <1>1, <1>2, <1>3, <1>5, <1>8, <1>12 DEF WindowInv, RiskAccepted, EditabilityBelongs, AnalysisBelongs
<1>14. QueryWaits' /\ StopsItsOwnQuery' /\ WritesToTableOfRow'
  BY <1>1, <1>2, <1>3, <1>5, <1>9
  DEF WindowInv, QueryWaits, StopsItsOwnQuery, WritesToTableOfRow, Writes
<1> QED BY <1>11, <1>13, <1>14 DEF WindowInv

LEMMA StopKeeps == ASSUME WindowInv, Stop PROVE WindowInv'
<1>1. query \in Queries /\ query # None /\ query.of = sequence /\ sequence \in Nat \ {0}
      /\ query' = [query EXCEPT !.stop = "asked"] /\ stops' = stops \cup {query.of}
  BY DEF Stop, Running, WindowInv, WindowTypeOK, QueryWaits
<1>2. /\ query' \in Queries /\ query'.of = query.of /\ query'.asked = query.asked
      /\ query'.finished = query.finished /\ query'.left = query.left /\ query'.stop = "asked"
  BY <1>1 DEF Queries
<1>3. UNCHANGED <<active, jobVars, sequence, held, crossed, resultVars, editVars>>
  BY DEF Stop
<1>4. WindowTypeOK'
  BY <1>1, <1>2, <1>3 DEF WindowInv, WindowTypeOK, jobVars, resultVars, editVars
<1>5. RiskAccepted' /\ QueryWaits'
  BY <1>1, <1>2, <1>3 DEF WindowInv, RiskAccepted, QueryWaits
<1>6. EditabilityBelongs' /\ StopsItsOwnQuery' /\ WritesToTableOfRow'
  BY <1>3 DEF WindowInv, EditabilityBelongs, StopsItsOwnQuery, WritesToTableOfRow, Writes, resultVars, editVars
<1>7. AnalysisBelongs'
  BY <1>1, <1>2, <1>3 DEF WindowInv, AnalysisBelongs, Running, resultVars
<1> QED BY <1>4, <1>5, <1>6, <1>7 DEF WindowInv

(* The stop meets its own query, which has waited for it. *)
LEMMA StopArrivesKeeps ==
  ASSUME WindowInv, NEW s \in stops, StopArrives(s) PROVE WindowInv'
<1> DEFINE q == [query EXCEPT !.stop = "settled"]
<1>1. query \in Queries /\ query # None /\ query.of = s /\ \A other \in stops : other = s
  BY DEF WindowInv, WindowTypeOK, QueryWaits
<1>2. q \in Queries /\ q.of = query.of /\ q.asked = query.asked /\ q.finished = query.finished
      /\ q.left = query.left
  BY <1>1 DEF Queries
<1>3. query' = Ended(q)
  BY <1>1 DEF StopArrives, Settled
<1> HIDE DEF q
<1>4. query' \in {q, None} /\ stops' = {} /\ held' \subseteq 1 .. sequence
  BY <1>1, <1>3 DEF Ended, StopArrives, WindowInv, WindowTypeOK
<1>5. crossed' = crossed
  BY <1>1 DEF StopArrives, WindowInv, WindowTypeOK, StopsItsOwnQuery
<1>6. UNCHANGED <<active, jobVars, sequence, crossed, resultVars, editVars>>
  BY <1>5 DEF StopArrives
<1> QED BY <1>1, <1>2, <1>4, <1>6, MovedQueryKeeps

LEMMA StopIsHeldKeeps ==
  ASSUME WindowInv, NEW s \in stops, StopIsHeld(s) PROVE WindowInv'
<1>1. UNCHANGED <<active, jobVars, query, sequence, stops, crossed, resultVars, editVars>>
      /\ held' = held \cup {s}
  BY DEF StopIsHeld
<1>2. query # None /\ query \in Queries /\ (\A other \in stops : query.stop = "asked")
      /\ held' \subseteq 1 .. sequence
  BY <1>1 DEF StopIsHeld, Running, WindowInv, WindowTypeOK, QueryWaits
<1> QED BY <1>1, <1>2, MovedQueryKeeps

LEMMA ExportKeeps == ASSUME WindowInv, Export PROVE WindowInv'
<1>1. query' = [of |-> sequence', on |-> active, preview |-> TRUE, asked |-> TRUE, left |-> 0,
                stop |-> "none", finished |-> FALSE]
      /\ sequence' = sequence + 1 /\ query = None
  BY DEF Export
<1>2. sequence' \in Nat \ {0} /\ active \in Connections /\ 0 \in 0 .. MaxStatements
      /\ stops \cup held \cup analyses \subseteq 1 .. sequence /\ sequence \in Nat
  BY <1>1 DEF WindowInv, WindowTypeOK
<1>3. query' \in Queries /\ query'.of = sequence' /\ query'.asked /\ query'.left = 0
  BY <1>1, <1>2 DEF Queries
<1>4. UNCHANGED <<active, jobVars, stops, held, crossed, resultVars, editVars>>
  BY DEF Export
<1>5. stops = {}
  BY <1>1 DEF WindowInv, QueryWaits
<1>6. WindowTypeOK'
  BY <1>1, <1>2, <1>3, <1>4 DEF WindowInv, WindowTypeOK, jobVars, resultVars, editVars
<1>7. RiskAccepted' /\ QueryWaits'
  BY <1>2, <1>3, <1>4, <1>5 DEF RiskAccepted, QueryWaits
<1>8. EditabilityBelongs' /\ StopsItsOwnQuery' /\ WritesToTableOfRow'
  BY <1>4 DEF WindowInv, EditabilityBelongs, StopsItsOwnQuery, WritesToTableOfRow, Writes, resultVars, editVars
<1>9. AnalysisBelongs'
  BY <1>1, <1>2, <1>3, <1>4 DEF WindowInv, AnalysisBelongs, resultVars
<1> QED BY <1>6, <1>7, <1>8, <1>9 DEF WindowInv

-----------------------------------------------------------------------------
(* The result and its edits. *)
LEMMA AnalysedKeeps ==
  ASSUME WindowInv, NEW s \in analyses, NEW can \in BOOLEAN, Analysed(s, can) PROVE WindowInv'
<1>1. UNCHANGED <<active, jobVars, queryVars, result, editVars>> /\ analyses' = analyses \ {s}
  BY DEF Analysed
<1>2. editable' \in {editable, s, None} /\ (editable' # editable => s = sequence)
  BY DEF Analysed, Current
<1>3. s \in Nat
  BY DEF WindowInv, WindowTypeOK
<1>4. WindowTypeOK'
  BY <1>1, <1>2, <1>3 DEF WindowInv, WindowTypeOK, jobVars, queryVars, editVars
<1>5. EditabilityBelongs' /\ AnalysisBelongs'
  BY <1>1, <1>2 DEF WindowInv, EditabilityBelongs, AnalysisBelongs, Running, queryVars
<1>6. RiskAccepted' /\ QueryWaits' /\ StopsItsOwnQuery' /\ WritesToTableOfRow'
  BY <1>1 DEF WindowInv, RiskAccepted, QueryWaits, StopsItsOwnQuery, WritesToTableOfRow, Writes,
              queryVars, editVars
<1> QED BY <1>4, <1>5, <1>6 DEF WindowInv

LEMMA ChangeModeKeeps == ASSUME WindowInv, ChangeMode PROVE WindowInv'
<1>1. UNCHANGED <<active, jobVars, queryVars, analyses, applying, wrote>> /\ editable' = None
      /\ query = None
  BY DEF ChangeMode
<1>2. result' = None /\ staged' \subseteq EditedRows
  BY ShowKeeps DEF ChangeMode, WindowInv
<1>3. WindowTypeOK'
  BY <1>1, <1>2 DEF WindowInv, WindowTypeOK, jobVars, queryVars
<1>4. EditabilityBelongs' /\ AnalysisBelongs'
  BY <1>1, <1>2 DEF WindowInv, EditabilityBelongs, AnalysisBelongs, Running, queryVars
<1>5. RiskAccepted' /\ QueryWaits' /\ StopsItsOwnQuery' /\ WritesToTableOfRow'
  BY <1>1 DEF WindowInv, RiskAccepted, QueryWaits, StopsItsOwnQuery, WritesToTableOfRow, Writes, queryVars
<1> QED BY <1>3, <1>4, <1>5 DEF WindowInv

(* What is applied was drawn with the result its editability belongs to. *)
LEMMA EditsKeep ==
  ASSUME WindowInv, UNCHANGED <<active, jobVars, queryVars, resultVars>>,
         staged' \subseteq EditedRows, applying' \in Applications \cup {None},
         wrote' \in Updates \cup {None}, WritesToTableOfRow'
  PROVE  WindowInv'
<1>1. WindowTypeOK'
  BY DEF WindowInv, WindowTypeOK, jobVars, queryVars, resultVars
<1>2. RiskAccepted' /\ EditabilityBelongs' /\ AnalysisBelongs' /\ QueryWaits' /\ StopsItsOwnQuery'
  BY DEF WindowInv, RiskAccepted, EditabilityBelongs, AnalysisBelongs, Running, QueryWaits,
         StopsItsOwnQuery, queryVars, resultVars
<1> QED BY <1>1, <1>2 DEF WindowInv

LEMMA StagedKeep ==
  ASSUME WindowInv, (\E row \in EditedRows : Stage(row)) \/ Discard \/ ApplyFails PROVE WindowInv'
BY EditsKeep DEF Stage, Discard, ApplyFails, WindowInv, WindowTypeOK, WritesToTableOfRow, Writes

LEMMA ApplyKeeps == ASSUME WindowInv, Apply PROVE WindowInv'
<1>1. applying' = [rows |-> staged, result |-> result, editable |-> editable, on |-> active]
      /\ UNCHANGED <<active, jobVars, queryVars, resultVars, staged, wrote>>
  BY DEF Apply
<1>2. applying' \in Applications
  BY <1>1 DEF Applications, WindowInv, WindowTypeOK
<1>3. applying'.result = result /\ applying'.editable = editable
  BY <1>1
<1>4. WritesToTableOfRow'
  BY <1>1, <1>3 DEF WindowInv, EditabilityBelongs, WritesToTableOfRow, Writes
<1> QED BY <1>1, <1>2, <1>4, EditsKeep DEF WindowInv, WindowTypeOK

LEMMA ApplyToKeeps ==
  ASSUME WindowInv, NEW row \in EditedRows, ApplyTo(row) PROVE WindowInv'
<1>1. applying \in Applications /\ applying # None /\ UNCHANGED <<active, jobVars, queryVars, resultVars>>
  BY DEF ApplyTo, WindowInv, WindowTypeOK
<1>2. applying' \in {None, [applying EXCEPT !.rows = @ \ {row}]}
  BY DEF ApplyTo
<1>3. applying' # None => /\ applying' \in Applications /\ applying'.result = applying.result
                         /\ applying'.editable = applying.editable
  BY <1>1, <1>2 DEF Applications
<1>4. staged' \subseteq EditedRows
  BY DEF ApplyTo, WindowInv, WindowTypeOK
<1>5. CASE Writes
  <2>1. wrote' = [table |-> applying.editable = applying.result.of,
                  connection |-> applying.on = applying.result.on]
    BY <1>5 DEF ApplyTo
  <2>2. applying.editable = applying.result.of
    BY <1>1, <1>5 DEF WindowInv, WritesToTableOfRow
  <2>3. wrote' \in Updates /\ wrote'.table
    BY <2>1, <2>2 DEF Updates
  <2>4. WritesToTableOfRow'
    BY <1>1, <1>3, <1>5, <2>2, <2>3 DEF WritesToTableOfRow, Writes
  <2> QED BY <1>1, <1>3, <1>4, <2>3, <2>4, EditsKeep
<1>6. CASE ~Writes
  <2>1. wrote' = wrote
    BY <1>6 DEF ApplyTo
  <2>2. WritesToTableOfRow'
    BY <1>1, <1>3, <1>6, <2>1 DEF WindowInv, WritesToTableOfRow, Writes
  <2> QED BY <1>1, <1>3, <1>4, <2>1, <2>2, EditsKeep DEF WindowInv, WindowTypeOK
<1> QED BY <1>5, <1>6

-----------------------------------------------------------------------------
LEMMA WindowInitInv == WindowInit => WindowInv
<1> SUFFICES ASSUME WindowInit PROVE WindowInv
  OBVIOUS
<1>1. WindowTypeOK
  BY DEF WindowInit, WindowTypeOK
<1>2. RiskAccepted /\ EditabilityBelongs /\ AnalysisBelongs /\ QueryWaits /\ StopsItsOwnQuery
  BY DEF WindowInit, RiskAccepted, EditabilityBelongs, AnalysisBelongs, Running, QueryWaits,
         StopsItsOwnQuery
<1>3. WritesToTableOfRow
  BY DEF WindowInit, WritesToTableOfRow
<1> QED BY <1>1, <1>2, <1>3 DEF WindowInv

LEMMA WindowStays == ASSUME WindowInv, UNCHANGED windowVars PROVE WindowInv'
BY EditsKeep DEF windowVars, editVars, jobVars, queryVars, resultVars, WindowInv, WindowTypeOK,
                 WritesToTableOfRow, Writes

LEMMA WindowKeeps ==
  ASSUME WindowInv, [QueriesStep \/ RequestsStep]_<<part, windowVars, approvalVars>>
  PROVE  WindowInv'
<1>1. WindowNext \/ UNCHANGED windowVars
  BY DEF QueriesStep, RequestsStep
<1>2. CASE WindowNext
  BY <1>2, DialogsKeep, SwitchKeeps, QueryGoesOn, SucceedKeeps, StopKeeps, StopArrivesKeeps, StopIsHeldKeeps,
     ExportKeeps, AnalysedKeeps, ChangeModeKeeps, StagedKeep, ApplyKeeps, ApplyToKeeps DEF WindowNext
<1> QED BY <1>1, <1>2, WindowStays

(* What is risky was accepted when it runs, a stop meets no other query    *)
(* than its own, what is known of rows is known of those that are shown,   *)
(* and an edit goes to the table its row was read from (App.tsx).          *)
THEOREM WindowHolds == InterfaceSpec => []WindowInv
<1>1. InterfaceInit => WindowInv
  BY WindowInitInv DEF InterfaceInit
<1>2. WindowInv /\ [QueriesStep \/ RequestsStep]_<<part, windowVars, approvalVars>> => WindowInv'
  BY WindowKeeps
<1> QED BY <1>1, <1>2, PTL DEF InterfaceSpec

(* A request to stop meets no other query than the one it was pressed for, *)
(* and an edit no other table than the one of the row it was made in.      *)
THEOREM StopsAndEditsBelong == InterfaceSpec => [](StopsItsOwnQuery /\ WritesToTableOfRow)
<1>1. WindowInv => StopsItsOwnQuery /\ WritesToTableOfRow
  BY DEF WindowInv
<1> QED BY <1>1, WindowHolds, PTL
=============================================================================
