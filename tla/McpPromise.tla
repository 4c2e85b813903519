----------------------------- MODULE McpPromise -----------------------------
(***************************************************************************)
(* What the MCP bridge promises, whatever windows, clients and timers do.  *)
(* A request is accepted once, handed to the desktop at most once and in   *)
(* the order of acceptance, approved for execution at most once and only   *)
(* while it is in the hands of the desktop, and settled once, after which  *)
(* nothing happens to it any more.  At most MaxOpen requests are open.     *)
(***************************************************************************)
EXTENDS Integers, FiniteSets

CONSTANTS MaxRequests, MaxOpen, Replies

VARIABLES
  phase,    \* of every request: "new", "waiting", "handed", "closed"
  reply,    \* what the client was told, or "none"
  approved  \* the requests approved for execution

promiseVars == <<phase, reply, approved>>

Ids == 1..MaxRequests
Open == {r \in Ids : phase[r] \in {"waiting", "handed"}}
FirstWaiting(r) ==
  /\ phase[r] = "waiting"
  /\ \A older \in 1..(r - 1) : phase[older] # "waiting"

Init ==
  /\ phase = [r \in Ids |-> "new"]
  /\ reply = [r \in Ids |-> "none"]
  /\ approved = {}

(* The next request is accepted, and handed over at once if nothing waits. *)
Accept(r) ==
  /\ phase[r] = "new"
  /\ \A older \in 1..(r - 1) : phase[older] # "new"
  /\ Cardinality(Open) < MaxOpen
  /\ \/ phase' = [phase EXCEPT ![r] = "waiting"]
     \/ /\ \A other \in Ids : phase[other] # "waiting"
        /\ phase' = [phase EXCEPT ![r] = "handed"]
  /\ UNCHANGED <<reply, approved>>

Hand(r) ==
  /\ FirstWaiting(r)
  /\ phase' = [phase EXCEPT ![r] = "handed"]
  /\ UNCHANGED <<reply, approved>>

Approve(r) ==
  /\ phase[r] = "handed"
  /\ r \notin approved
  /\ approved' = approved \cup {r}
  /\ UNCHANGED <<phase, reply>>

(* Several requests may be settled together, as when a lease is given up. *)
Close(S) ==
  /\ S # {} /\ S \subseteq Open
  /\ phase' = [r \in Ids |-> IF r \in S THEN "closed" ELSE phase[r]]
  /\ \A r \in Ids : IF r \in S THEN reply'[r] \in Replies ELSE reply'[r] = reply[r]
  /\ DOMAIN reply' = Ids
  /\ UNCHANGED approved

Next ==
  \/ \E r \in Ids : Accept(r) \/ Hand(r) \/ Approve(r)
  \/ \E S \in SUBSET Ids : Close(S)

Spec == Init /\ [][Next]_promiseVars
=============================================================================
