-------------------------- MODULE DesktopProcesses --------------------------
(***************************************************************************)
(* The processes of the desktop: the shell over its two children           *)
(* (NativeShell), and the MCP listener that lives in one of them, the      *)
(* backend (McpHttp).  The shell only starts and ends processes, and a     *)
(* listener has no state outside its process, so a behaviour is about one  *)
(* of the two, chosen at its start.                                        *)
(***************************************************************************)
EXTENDS NativeShell

CONSTANTS Servers, Sessions, Uses, MaxSessions, None

VARIABLES
  part,  \* "shell" or "listener"
  server, httpServer, init, home, tracked, disposed, timer, active, use, on

listenerVars == <<server, httpServer, init, home, tracked, disposed, timer, active, use, on>>

H == INSTANCE McpHttp

ASSUME ListenerAssumption == H!HttpAssumption

ProcessesInit == part \in {"shell", "listener"} /\ Init /\ H!Init

ShellStep == part = "shell" /\ Next /\ UNCHANGED <<part, listenerVars>>
ListenerStep == part = "listener" /\ H!Next /\ UNCHANGED <<part, vars>>

(* What is fair in one part is not enabled while the other is at work.     *)
ProcessesSpec ==
  /\ ProcessesInit
  /\ [][ShellStep \/ ListenerStep]_<<part, vars, listenerVars>>
  /\ Fairness /\ H!Fairness

-----------------------------------------------------------------------------
(* The invariants of the listener's sessions, as McpHttp states them. *)
HttpInv == H!HttpInv

(* Sessions of a stopped listener, and sessions nobody uses, go. *)
SessionsEnd == H!SessionsEnd
=============================================================================
