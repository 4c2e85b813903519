----------------------------- MODULE DataEngine -----------------------------
(***************************************************************************)
(* The operations of DataEngine in                                         *)
(* apps/desktop/src-tauri/src/data_engine.rs: run_operation lets one work  *)
(* at a time, cancel stops it, and the mutex "inner" is shared with the    *)
(* edits (list, rename, drop, clear) that are no operations.  lib.rs       *)
(* dispatches them: plain commands run on the main thread, one after       *)
(* another; the S3 and MongoDB commands run on a thread of their own.      *)
(***************************************************************************)
EXTENDS Option, Naturals

CONSTANTS
  Ops,     \* operation ids, each of one call
  OnMain,  \* the operations whose command runs on the main thread
  Exports, \* those of them that write a file
  Edit     \* an edit

(* What the constants are assumed to be; EngineInv carries it along. *)
EngineAssumption ==
  /\ Exports \subseteq OnMain /\ OnMain \subseteq Ops
  /\ Edit \notin Ops /\ None \notin Ops /\ Edit # None
  /\ None \notin {"ok", "uninspected"}

VARIABLES
  pc,         \* where each call of run_operation is
  result,     \* what the body of each returned
  current,    \* current_operation
  cancelRequested,
  status,     \* operation_status: an operation and its state
  inner,      \* who holds the mutex of the connection and the maps
  published,  \* operations whose dataset, result or file is published
  main,       \* what the main thread executes
  asked,      \* operations whose cancel command waits for the main thread
  cancelled,  \* auxiliary: operations for which cancel returned true
  hit         \* auxiliary: whose statement an interrupt has ended

engineVars == <<pc, result, current, cancelRequested, status, inner, published,
          main, asked, cancelled, hit>>

EnginePlaces == {"idle", "claimed", "apart", "locked", "joined", "reported", "done", "refused"}
States == {"running", "cancelling", "succeeded", "cancelled", "failed"}

EngineInit ==
  /\ pc = [o \in Ops |-> "idle"]
  /\ result = [o \in Ops |-> None]
  /\ current = None
  /\ cancelRequested = FALSE
  /\ status = None
  /\ inner = None
  /\ published = {}
  /\ main = None
  /\ asked = {}
  /\ cancelled = {}
  /\ hit = {}

MainAfter(o) == IF main = o THEN None ELSE main

-----------------------------------------------------------------------------
(* Mutant: the request of the operation before stays. *)
ClaimKeepsRequest(o) ==
  /\ pc[o] = "idle" /\ (o \in OnMain => main = None)
  /\ current = None
  /\ current' = o
  /\ main' = IF o \in OnMain THEN o ELSE main
  /\ pc' = [pc EXCEPT ![o] = "claimed"]
  /\ UNCHANGED <<cancelRequested, result, status, inner, published, asked, cancelled, hit>>

(* run_operation, with the mutex of current_operation. *)
Claim(o) ==
  /\ pc[o] = "idle" /\ (o \in OnMain => main = None)
  /\ current = None
  /\ cancelRequested' = FALSE
  /\ current' = o
  /\ main' = IF o \in OnMain THEN o ELSE main
  /\ pc' = [pc EXCEPT ![o] = "claimed"]
  /\ UNCHANGED <<result, status, inner, published, asked, cancelled, hit>>

(* Another operation is running: the call fails at once. *)
Refuse(o) ==
  /\ pc[o] = "idle" /\ (o \in OnMain => main = None)
  /\ current # None
  /\ pc' = [pc EXCEPT ![o] = "refused"]
  /\ UNCHANGED <<result, current, cancelRequested, status, inner, published,
                 main, asked, cancelled, hit>>

(* Mutant: the request is reset where the status is. *)
BeginResets(o) ==
  /\ pc[o] = "claimed"
  /\ cancelRequested' = FALSE
  /\ status' = [op |-> o, state |-> "running"]
  /\ pc' = [pc EXCEPT ![o] = "apart"]
  /\ UNCHANGED <<result, current, inner, published, main, asked, cancelled, hit>>

(* The status is set and the body starts, with a watcher beside it. *)
Begin(o) ==
  /\ pc[o] = "claimed"
  /\ status' = [op |-> o, state |-> "running"]
  /\ pc' = [pc EXCEPT ![o] = "apart"]
  /\ UNCHANGED <<result, current, cancelRequested, inner, published, main, asked, cancelled, hit>>

(* The body has read what it needs from elsewhere and locks inner. *)
Lock(o) ==
  /\ pc[o] = "apart" /\ inner = None
  /\ inner' = o
  /\ pc' = [pc EXCEPT ![o] = "locked"]
  /\ UNCHANGED <<result, current, cancelRequested, status, published, main, asked, cancelled, hit>>

(* The body returns r, the watcher is joined.  Nothing of run_operation    *)
(* lies between what a body publishes and its return, so they are one step. *)
Return(o, r) ==
  /\ pc[o] \in {"apart", "locked"}
  /\ result' = [result EXCEPT ![o] = r]
  /\ inner' = IF inner = o THEN None ELSE inner
  /\ pc' = [pc EXCEPT ![o] = "joined"]
  /\ UNCHANGED <<current, cancelRequested, status, main, asked, cancelled>>

Complete(o) ==
  /\ Return(o, "ok")
  /\ \/ (pc[o] = "locked" \/ o \in Exports) /\ published' = published \cup {o}
     \/ UNCHANGED published
  /\ UNCHANGED hit

(* An export has published its file and cannot read its size. *)
Uninspected(o) ==
  /\ o \in Exports
  /\ Return(o, "uninspected")
  /\ published' = published \cup {o}
  /\ UNCHANGED hit

FailAlone(o) == Return(o, "error") /\ UNCHANGED <<published, hit>>

(* The watcher interrupts both connections every 10 ms while a stop is     *)
(* requested, and the loops of the body look at the flag.                  *)
Stop(o) ==
  /\ cancelRequested
  /\ Return(o, "error")
  /\ hit' = hit \cup {o}
  /\ UNCHANGED published

(* Mutant: a requested stop decides what is reported. *)
FinalStateByRequest(o) ==
  IF cancelRequested THEN "cancelled" ELSE IF result[o] = "ok" THEN "succeeded" ELSE "failed"

FinalState(o) ==
  IF result[o] = "ok" THEN "succeeded" ELSE IF cancelRequested THEN "cancelled" ELSE "failed"

(* The end of run_operation: first the status ... *)
Report(o) ==
  /\ pc[o] = "joined"
  /\ status' = IF status.op = o THEN [status EXCEPT !.state = FinalState(o)] ELSE status
  /\ pc' = [pc EXCEPT ![o] = "reported"]
  /\ UNCHANGED <<result, current, cancelRequested, inner, published, main, asked, cancelled, hit>>

(* ... then the slot, and the command returns. *)
Release(o) ==
  /\ pc[o] = "reported"
  /\ current' = IF current = o THEN None ELSE current
  /\ main' = MainAfter(o)
  /\ pc' = [pc EXCEPT ![o] = "done"]
  /\ UNCHANGED <<result, cancelRequested, status, inner, published, asked, cancelled, hit>>

-----------------------------------------------------------------------------
(* The user presses stop while the call is under way. *)
Ask(o) ==
  /\ pc[o] \in {"claimed", "apart", "locked", "joined", "reported"}
  /\ o \notin asked \cup cancelled
  /\ asked' = asked \cup {o}
  /\ UNCHANGED <<pc, result, current, cancelRequested, status, inner, published, main, cancelled, hit>>

(* cancel on the main thread, with the mutex of current_operation.  What   *)
(* it then asks of the backend for the source query is QuerySession's.     *)
Cancel(o) ==
  /\ o \in asked /\ main = None
  /\ asked' = asked \ {o}
  /\ IF current = o
       THEN /\ cancelRequested' = TRUE
            /\ cancelled' = cancelled \cup {o}
            /\ status' = IF status # None /\ status.op = o
                           THEN [status EXCEPT !.state = "cancelling"] ELSE status
       ELSE UNCHANGED <<cancelRequested, cancelled, status>>
  /\ UNCHANGED <<pc, result, current, inner, published, main, hit>>

(* list_datasets, rename_dataset, drop_dataset, clear and                  *)
(* drop_result_handle: the main thread waits for inner.                    *)
StartEdit ==
  /\ main = None
  /\ main' = Edit
  /\ UNCHANGED <<pc, result, current, cancelRequested, status, inner, published, asked, cancelled, hit>>

LockEdit ==
  /\ main = Edit /\ inner = None
  /\ inner' = Edit
  /\ UNCHANGED <<pc, result, current, cancelRequested, status, published, main, asked, cancelled, hit>>

EndEdit ==
  /\ inner = Edit
  /\ inner' = None
  /\ main' = None
  /\ UNCHANGED <<pc, result, current, cancelRequested, status, published, asked, cancelled, hit>>

(* The watcher's interrupt ends the statement of an edit on the shared     *)
(* connection: its transaction rolls back.                                 *)
HitEdit ==
  /\ cancelRequested /\ inner = Edit
  /\ \E o \in Ops : pc[o] = "apart"
  /\ hit' = hit \cup {Edit}
  /\ inner' = None
  /\ main' = None
  /\ UNCHANGED <<pc, result, current, cancelRequested, status, published, asked, cancelled>>

Step(o) == Begin(o) \/ Lock(o) \/ Stop(o) \/ Report(o) \/ Release(o)

EngineNext ==
  \/ \E o \in Ops : \/ Claim(o) \/ Refuse(o) \/ Step(o) \/ Complete(o) \/ Uninspected(o)
                    \/ FailAlone(o) \/ Ask(o) \/ Cancel(o)
  \/ StartEdit \/ LockEdit \/ EndEdit \/ HitEdit

EngineSpec == EngineInit /\ [][EngineNext]_engineVars

(* Threads that can go on do, an edit's statement ends, and the command    *)
(* queue of the main thread is fair.  Nothing says that a body ends by     *)
(* itself: a query may take as long as it likes.                           *)
Fairness ==
  /\ \A o \in Ops : WF_engineVars(Begin(o)) /\ WF_engineVars(Lock(o)) /\ WF_engineVars(Stop(o))
                    /\ WF_engineVars(Report(o)) /\ WF_engineVars(Release(o)) /\ SF_engineVars(Cancel(o))
  /\ WF_engineVars(LockEdit) /\ WF_engineVars(EndEdit)

FairSpec == EngineSpec /\ Fairness

-----------------------------------------------------------------------------
EngineTypeOK ==
  /\ pc \in [Ops -> EnginePlaces]
  /\ result \in [Ops -> {"ok", "error", "uninspected", None}]
  /\ current \in Ops \cup {None}
  /\ cancelRequested \in BOOLEAN
  /\ status \in [op : Ops, state : States] \cup {None}
  /\ inner \in Ops \cup {Edit, None}
  /\ published \subseteq Ops
  /\ main \in Ops \cup {Edit, None}
  /\ asked \subseteq Ops
  /\ cancelled \subseteq Ops
  /\ hit \subseteq Ops \cup {Edit}

Active == {"claimed", "apart", "locked", "joined", "reported"}

(* One operation at a time: the slot names the one that is active and      *)
(* inner is held by whoever works on the shared connection.                *)
OneAtATime ==
  /\ \A o \in Ops : pc[o] \in Active <=> current = o
  /\ \A o \in Ops : pc[o] = "locked" <=> inner = o

(* A request to stop is the running operation's own: it was never meant    *)
(* for the one before, and no other is interrupted by it.                  *)
StopsItsOwn ==
  /\ cancelRequested /\ current # None => current \in cancelled
  /\ hit \cap Ops \subseteq cancelled

(* What is reported at the end is what happened: success when and only     *)
(* when the body completed, and nothing published by what failed or was    *)
(* stopped, but for an export that could not inspect the file it had just  *)
(* published: that one is reported as failed.                              *)
ReportIsTrue ==
  /\ published \subseteq {o \in Ops : result[o] = "ok"} \cup {o \in Exports : result[o] = "uninspected"}
  /\ status # None =>
       /\ status.state = "succeeded" => result[status.op] = "ok"
       /\ status.state \in {"cancelled", "failed"} /\ status.op \in published =>
            result[status.op] = "uninspected"

(* What the invariants rest on: the running operation owns the status once *)
(* it has begun, results come with the end of the body, and a final state  *)
(* is reported after it.                                                   *)
StatusOfActive ==
  \A o \in Ops : pc[o] \in {"apart", "locked", "joined", "reported"} =>
    status \in [op : {o}, state : States]
ResultAtEnd ==
  \A o \in Ops : pc[o] \in {"idle", "claimed", "apart", "locked", "refused"} => result[o] = None
FinalAtEnd ==
  status # None /\ status.state \in {"succeeded", "cancelled", "failed"} =>
    pc[status.op] \in {"reported", "done"}

EngineInv == /\ EngineAssumption /\ EngineTypeOK /\ OneAtATime /\ StopsItsOwn /\ ReportIsTrue
             /\ StatusOfActive /\ ResultAtEnd /\ FinalAtEnd

(* A stop that the engine accepted ends the operation, wherever its body   *)
(* is and even if it has not begun.                                        *)
StopTakesEffect == \A o \in Ops : (o \in cancelled) ~> (current # o)
=============================================================================
