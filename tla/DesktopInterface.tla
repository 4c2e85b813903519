-------------------------- MODULE DesktopInterface --------------------------
(***************************************************************************)
(* The two things a window of the desktop asks its user about: queries and *)
(* edits of rows (DesktopWindow), and requests of MCP clients              *)
(* (McpApproval).  They share the connection of the active tab; what an    *)
(* MCP request runs does not go through the window's own query.  So a      *)
(* behaviour is about one of them, chosen at its start.                    *)
(***************************************************************************)
EXTENDS DesktopWindow

CONSTANTS Requests, Tabs, MaxMoves, MaxRestarts

VARIABLES
  part,  \* "queries" or "requests"
  kind, live, late, pc, asked, pressed, resolver, proposal, shown, armed,
  tab, bound, open, revision, moves, restarts

approvalVars == <<kind, live, late, pc, asked, pressed, resolver, proposal, shown, armed,
                  tab, bound, open, revision, moves, restarts>>

A == INSTANCE McpApproval

ASSUME InterfaceAssumption == A!ApprovalAssumption

InterfaceInit ==
  /\ part \in {"queries", "requests"}
  /\ WindowInit /\ A!Init
  /\ part = "queries" => kind = [r \in Requests |-> "edit"]
  /\ part = "requests" => active = CHOOSE c \in Connections : TRUE

QueriesStep == part = "queries" /\ WindowNext /\ UNCHANGED <<part, approvalVars>>
RequestsStep == part = "requests" /\ A!Next /\ UNCHANGED <<part, windowVars>>

(* What is fair in one part is not enabled while the other is at work.     *)
InterfaceSpec ==
  /\ InterfaceInit
  /\ [][QueriesStep \/ RequestsStep]_<<part, windowVars, approvalVars>>
  /\ WindowFairness /\ A!Fairness

-----------------------------------------------------------------------------
(* Nobody waits for a dialog that is not there, and nothing runs for an    *)
(* MCP request but where its dialog was shown, as McpApproval states it.   *)
ApprovalInv == A!ApprovalInv

(* A query the user has stopped ends, but where its stop waits behind it,  *)
(* no MCP request waits for an answer for ever, and no dialog of one       *)
(* stays: handleCancelRun, and the timeouts of mcp-approval.ts and App.tsx.*)
NothingWaitsForEver == StoppedQueriesEnd /\ A!EveryDialogEnds
=============================================================================
