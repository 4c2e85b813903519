---------------------------- MODULE McpApproval ----------------------------
(***************************************************************************)
(* The approval of MCP requests in the desktop: McpUiBridge of             *)
(* lib/mcp-ui-bridge.ts, the one dialog of App.tsx and the last look of    *)
(* mcp.ui.execute in the backend.  executeSql and proposeSqlEdit arrive at *)
(* any time; what the user sees is the dialog React has committed, which   *)
(* lags behind the state when a timer or an answer of the backend sets it. *)
(* The backend's side of a request is module McpBridge; here it is whether *)
(* its client still waits.                                                 *)
(***************************************************************************)
EXTENDS Naturals

CONSTANTS
  Requests,
  Tabs,
  Connections,
  MaxMoves,     \* bound: what the user does outside the dialog
  MaxRestarts,  \* bound: how often the effect that owns the bridge runs again
  None

VARIABLES
  kind,      \* executeSql or proposeSqlEdit
  live,      \* its client waits: it is pending in the backend
  late,      \* less than the safety window is left of it
  pc,        \* where McpUiBridge.respond is with it
  asked,     \* what its proposal holds: tab, connection and revision
  pressed,   \* auxiliary: the dialog whose button approved it
  resolver,  \* mcpProposalResolverRef: the request that waits for the user
  proposal,  \* the state mcpProposal
  shown,     \* the proposal of the committed dialog and of its buttons
  armed,     \* its expiry timer is set
  tab,       \* the active tab
  bound,     \* the connection of each tab
  open,      \* the tabs there are
  revision,  \* of the text of each tab
  moves,
  restarts

vars == <<kind, live, late, pc, asked, pressed, resolver, proposal, shown, armed,
          tab, bound, open, revision, moves, restarts>>
dialog == <<proposal, shown, armed>>
editor == <<tab, bound, open, revision, moves>>

Nothing  == [tab |-> None, connection |-> None, revision |-> 0]
Active   == bound[tab]

(* What is no request is none, and the window has a tab and a connection. *)
ApprovalAssumption == None \notin Requests /\ Tabs # {} /\ Connections # {}

(* Tabs and connections are alike: any of them may be where it starts. *)
Init ==
  /\ kind     \in [Requests -> {"execute", "edit"}]
  /\ live     = [r \in Requests |-> TRUE]
  /\ late     = [r \in Requests |-> FALSE]
  /\ pc       = [r \in Requests |-> "new"]
  /\ asked    = [r \in Requests |-> Nothing]
  /\ pressed  = [r \in Requests |-> None]
  /\ resolver = None
  /\ proposal = None
  /\ shown    = None
  /\ armed    = FALSE
  /\ open     = Tabs
  /\ tab      = CHOOSE t \in Tabs : TRUE
  /\ bound    = [t \in Tabs |-> CHOOSE c \in Connections : TRUE]
  /\ revision = [t \in Tabs |-> 0]
  /\ moves    = 0
  /\ restarts = 0

-----------------------------------------------------------------------------
(* The bridge and the backend.                                             *)

(* poll hands a request to handleRequest.  It is refused without a         *)
(* connection, when the connection does not allow it, and while another    *)
(* one waits for the user.  (One that is about to expire is refused too.)  *)
TakeRefused(r) ==
  /\ pc[r] = "new" /\ live[r]
  /\ \/ resolver # None
     \/ Active # None            \* whose MCP access does not allow it
     \/ kind[r] = "execute"      \* on no connection, or in a mode it cannot serve
  /\ pc'   = [pc EXCEPT ![r] = "done"]
  /\ live' = [live EXCEPT ![r] = FALSE]
  /\ UNCHANGED <<kind, late, asked, pressed, resolver, dialog, editor, restarts>>

(* Mutant: a second proposal takes the place of the first. *)
TakeAnyway(r) ==
  /\ pc[r] = "new" /\ live[r] /\ ~late[r]
  /\ kind[r] = "execute" => Active # None
  /\ pc'       = [pc EXCEPT ![r] = "asked"]
  /\ asked'    = [asked EXCEPT ![r] =
                    [tab |-> tab, connection |-> Active, revision |-> revision[tab]]]
  /\ resolver' = r
  /\ proposal' = r
  /\ UNCHANGED <<kind, live, late, pressed, shown, armed, editor, restarts>>

Take(r) ==
  /\ pc[r] = "new" /\ live[r] /\ ~late[r] /\ resolver = None
  /\ kind[r] = "execute" => Active # None
  /\ pc'       = [pc EXCEPT ![r] = "asked"]
  /\ asked'    = [asked EXCEPT ![r] =
                    [tab |-> tab, connection |-> Active, revision |-> revision[tab]]]
  /\ resolver' = r
  /\ proposal' = r
  /\ UNCHANGED <<kind, live, late, pressed, shown, armed, editor, restarts>>

(* Less than a second is left of a request that somebody looks at. *)
GetsLate(r) ==
  /\ ~late[r] /\ (pc[r] \in {"asked", "calling"} \/ r \in {proposal, shown})
  /\ late' = [late EXCEPT ![r] = TRUE]
  /\ UNCHANGED <<kind, live, pc, asked, pressed, resolver, dialog, editor, restarts>>

(* The bridge gives a request up: its time is over, or its client cancels. *)
GivenUp(r) ==
  /\ live[r] /\ pc[r] \in {"asked", "calling"}
  /\ live' = [live EXCEPT ![r] = FALSE]
  /\ UNCHANGED <<kind, late, pc, asked, pressed, resolver, dialog, editor, restarts>>

(* mcp.ui.execute: approveExecution, which only a request that is pending  *)
(* and in time passes, and the permission of the connection.               *)
ExecuteArrives(r) ==
  /\ pc[r] = "calling"
  /\ pc' \in {[pc EXCEPT ![r] = "done"]}
             \cup (IF live[r] /\ ~late[r] THEN {[pc EXCEPT ![r] = "sql"]} ELSE {})
  /\ UNCHANGED <<kind, live, late, asked, pressed, resolver, dialog, editor, restarts>>

SqlEnds(r) ==
  /\ pc[r] = "sql"
  /\ pc'   = [pc EXCEPT ![r] = "done"]
  /\ live' = [live EXCEPT ![r] = FALSE]
  /\ UNCHANGED <<kind, late, asked, pressed, resolver, dialog, editor, restarts>>

-----------------------------------------------------------------------------
(* The dialog.                                                             *)

(* Mutant: what was approved goes to where the user is now. *)
ContinuedUnchecked(r, outcome) ==
  IF outcome = "approved" /\ kind[r] = "execute" /\ ~late[r] THEN "calling" ELSE "done"

(* handleRequest goes on in the same turn: it looks once more at the tab,  *)
(* the connection and the clock before it calls mcp.ui.execute.            *)
Continued(r, outcome) ==
  IF /\ outcome = "approved" /\ kind[r] = "execute" /\ ~late[r]
     /\ tab = asked[r].tab /\ Active = asked[r].connection
  THEN "calling" ELSE "done"

(* resolveMcpProposal answers the request that waits, if there is one, and *)
(* closes the dialog.                                                      *)
Resolve(outcome, p) ==
  /\ resolver' = None
  /\ proposal' = None
  /\ pc' = [r \in Requests |-> IF r = resolver THEN Continued(r, outcome) ELSE pc[r]]
  /\ live' = [r \in Requests |-> live[r] /\ ~(r = resolver /\ pc'[r] = "done")]
  /\ pressed' = [r \in Requests |->
                   IF r = resolver /\ outcome = "approved" THEN p ELSE pressed[r]]

(* The user's own events are committed before the next one.                *)
Committed == shown' = None /\ armed' = FALSE

Reject ==
  /\ shown # None
  /\ Resolve("rejected", None)
  /\ Committed
  /\ UNCHANGED <<kind, late, asked, editor, restarts>>

(* Is the user still where the proposal was made, with the same text?      *)
IsCurrent(p) ==
  /\ tab = asked[p].tab
  /\ Active = asked[p].connection
  /\ revision[asked[p].tab] = asked[p].revision

(* applyMcpProposal for executeSql. *)
Run ==
  /\ shown # None /\ kind[shown] = "execute"
  /\ Resolve(IF late[shown] THEN "rejected"
             ELSE IF IsCurrent(shown) THEN "approved" ELSE "stale", shown)
  /\ Committed
  /\ UNCHANGED <<kind, late, asked, editor, restarts>>

Typed(t) == revision' = [revision EXCEPT ![t] = @ + 1]

(* applyMcpProposal for proposeSqlEdit: compareAndSwapTabSql. *)
ApplyEdit ==
  /\ shown # None /\ kind[shown] = "edit"
  /\ LET p == shown
         fits == /\ ~late[p] /\ asked[p].tab \in open
                 /\ revision[asked[p].tab] = asked[p].revision
     IN /\ Resolve(IF late[p] THEN "rejected" ELSE IF fits THEN "approved" ELSE "stale", p)
        /\ IF fits THEN Typed(asked[p].tab) ELSE UNCHANGED revision
  /\ Committed
  /\ UNCHANGED <<kind, late, asked, tab, bound, open, moves, restarts>>

(* React commits the state; the effect sets the timer of what is shown.    *)
Commit ==
  /\ shown # proposal
  /\ shown' = proposal
  /\ armed' = (proposal # None)
  /\ UNCHANGED <<kind, live, late, pc, asked, pressed, resolver, proposal, editor, restarts>>

(* Mutant: only an edit has a timer. *)
DialogExpiresForEdits ==
  /\ armed /\ late[shown] /\ kind[shown] = "edit"
  /\ armed' = FALSE
  /\ Resolve("rejected", None)
  /\ UNCHANGED <<kind, late, asked, shown, editor, restarts>>

(* The expiry timer of the dialog. *)
DialogExpires ==
  /\ armed /\ late[shown]
  /\ armed' = FALSE
  /\ Resolve("rejected", None)
  /\ UNCHANGED <<kind, late, asked, shown, editor, restarts>>

(* The effect that owns the bridge is cleaned up and runs again, as after  *)
(* a change of language: the backend drops every request, the one that     *)
(* waits is rejected without an answer, and the dialog stays.              *)
Restart ==
  /\ restarts < MaxRestarts
  /\ restarts' = restarts + 1
  /\ resolver' = None
  /\ pc'   = [r \in Requests |-> IF r = resolver THEN "done" ELSE pc[r]]
  /\ live' = [r \in Requests |-> live[r] /\ pc[r] = "new"]
  /\ UNCHANGED <<kind, late, asked, pressed, dialog, editor>>

-----------------------------------------------------------------------------
(* The user, elsewhere in the window.                                      *)
SelectTab ==
  /\ tab' \in open \ {tab}
  /\ UNCHANGED <<bound, open, revision>>

ChooseConnection ==
  /\ bound' \in {[bound EXCEPT ![tab] = c] : c \in (Connections \cup {None}) \ {Active}}
  /\ UNCHANGED <<tab, open, revision>>

(* Not the last one, whose place a fresh tab would take. *)
CloseTab ==
  /\ \E t \in open :
       /\ open' = open \ {t}
       /\ open' # {}
       /\ tab' \in IF t = tab THEN open' ELSE {tab}
  /\ UNCHANGED <<bound, revision>>

EditText ==
  /\ Typed(tab)
  /\ UNCHANGED <<tab, bound, open>>

User ==
  /\ moves < MaxMoves
  /\ moves' = moves + 1
  /\ SelectTab \/ ChooseConnection \/ CloseTab \/ EditText
  /\ UNCHANGED <<kind, live, late, pc, asked, pressed, resolver, dialog, restarts>>

Next ==
  \/ \E r \in Requests :
       \/ Take(r) \/ TakeRefused(r) \/ GetsLate(r) \/ GivenUp(r)
       \/ ExecuteArrives(r) \/ SqlEnds(r)
  \/ Reject \/ Run \/ ApplyEdit \/ Commit \/ DialogExpires \/ Restart \/ User

(* Time passes, React renders, timers run, calls and statements end.       *)
Fairness ==
  /\ WF_vars(Commit) /\ WF_vars(DialogExpires)
  /\ \A r \in Requests :
       WF_vars(GetsLate(r)) /\ WF_vars(ExecuteArrives(r)) /\ WF_vars(SqlEnds(r))

Spec == Init /\ [][Next]_vars /\ Fairness

-----------------------------------------------------------------------------
TypeOK ==
  /\ kind     \in [Requests -> {"execute", "edit"}]
  /\ live     \in [Requests -> BOOLEAN]
  /\ late     \in [Requests -> BOOLEAN]
  /\ pc       \in [Requests -> {"new", "asked", "calling", "sql", "done"}]
  /\ asked    \in [Requests -> [tab : Tabs \cup {None}, connection : Connections \cup {None},
                                revision : Nat]]
  /\ pressed  \in [Requests -> Requests \cup {None}]
  /\ resolver \in Requests \cup {None}
  /\ proposal \in Requests \cup {None}
  /\ shown    \in Requests \cup {None}
  /\ armed    \in BOOLEAN
  /\ open     \subseteq Tabs
  /\ tab      \in open
  /\ bound    \in [Tabs -> Connections \cup {None}]
  /\ revision \in [Tabs -> Nat]
  /\ moves    \in Nat
  /\ restarts \in Nat

(* One request at most waits for the user, and its dialog is the one that  *)
(* is shown or comes next: nobody waits for a dialog that is not there.    *)
WaitsForItsDialog ==
  /\ \A r \in Requests : pc[r] = "asked" <=> r = resolver
  /\ resolver # None => proposal = resolver

(* The dialog that is to come next has been asked for, and so have the one *)
(* that is shown and those whose buttons were pressed.                     *)
ShownWasAsked ==
  \A p \in ({proposal, shown} \cup {pressed[r] : r \in Requests}) \ {None} :
    pc[p] # "new" /\ asked[p].tab \in Tabs

(* No statement goes to the backend without a button pressed, and the      *)
(* button of a Run dialog starts nothing on another tab or connection than *)
(* that dialog named, even when the request it answers is another one.     *)
RunsWhereShown ==
  \A r \in Requests : pc[r] \in {"calling", "sql"} =>
    /\ kind[r] = "execute" /\ pressed[r] # None
    /\ kind[pressed[r]] = "execute" =>
         /\ asked[pressed[r]].tab = asked[r].tab
         /\ asked[pressed[r]].connection = asked[r].connection

ApprovalInv == TypeOK /\ WaitsForItsDialog /\ ShownWasAsked /\ RunsWhereShown

(* Nobody waits for ever, whatever the user does: an answer, or the expiry *)
(* of the dialog, ends every request, and every dialog is closed.          *)
EveryDialogEnds ==
  /\ \A r \in Requests : pc[r] \notin {"new", "done"} ~> pc[r] = "done"
  /\ shown # None ~> shown = None
=============================================================================
