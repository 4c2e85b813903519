---------------------------- MODULE BridgeCalls ----------------------------
(***************************************************************************)
(* The bridge (McpBridge) and the way of a call to the process it lives in *)
(* (RpcCalls).  What a tool call does once it has reached the backend is   *)
(* the bridge's; RpcCalls has the copies, connections and signals around   *)
(* it.  Neither reads the other's state, so a behaviour is about one of    *)
(* the two, chosen at its start.                                           *)
(***************************************************************************)
EXTENDS McpBridge

CONSTANTS Runs, Writes, ToolCalls, Attempts, MaxCalls, MaxBreaks, None

VARIABLES
  part,  \* "bridge" or "calls"
  token, call, signalled, place, open, noticed, cancellation, active, backend, executed,
  breaks

callVars ==
  <<token, call, signalled, place, open, noticed, cancellation, active, backend, executed,
    breaks>>

R == INSTANCE RpcCalls WITH Tools <- ToolCalls, aborted <- signalled

ASSUME CallsAssumption == R!CallsAssumption

CallsInit == part \in {"bridge", "calls"} /\ Init /\ R!Init

BridgeStep == part = "bridge" /\ Next /\ UNCHANGED <<part, callVars>>
CallStep == part = "calls" /\ R!Next /\ UNCHANGED <<part, vars>>

(* What is fair in one part is not enabled while the other is at work.     *)
CallsSpec ==
  /\ CallsInit
  /\ [][BridgeStep \/ CallStep]_<<part, vars, callVars>>
  /\ Fairness /\ R!Fairness

-----------------------------------------------------------------------------
(* One statement at a time whatever is repeated or given up, and no repeat *)
(* of what was answered, as RpcCalls states them.                          *)
CallsInv == R!CallsInv

(* Stopped calls end, and their statements do not run on for nobody. *)
CallsSettle == R!CallsSettle
=============================================================================
