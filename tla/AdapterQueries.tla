--------------------------- MODULE AdapterQueries ---------------------------
(***************************************************************************)
(* Statements, pool clients and cancellation in the adapters of MySQL,     *)
(* SQL Server and Oracle: mysql-adapter.ts, mssql-adapter.ts,              *)
(* oracle-adapter.ts and the functions of their introspection.ts that run  *)
(* statements.  Module QuerySession has PostgreSQL.  A call takes one of   *)
(* the clients of the pool, may register itself in the adapter's one       *)
(* cancel slot, may open a transaction, and gives all of it back; an       *)
(* action is what the adapter does between two answers of pool or server.  *)
(***************************************************************************)
EXTENDS FiniteSets

CONSTANTS
  Calls,     \* calls of the adapter's methods
  Cancels,   \* calls of cancelRunning
  Clients,   \* connections of the pool (the code has four)
  None

VARIABLES
  dialect,
  op,        \* the method each call is of
  at,        \* where it is
  holds,     \* the client each call and cancel has
  slot,      \* activeQuery (activeRequest in SQL Server)
  open,      \* clients with a transaction that a method has opened
  theirs,    \* clients with one that the user's own SQL has left open
  planned,   \* clients whose session shows plans instead of running SQL
  abandoned, \* streams that wait for the drain of a response nobody reads
  told,      \* calls that a cancel has reached
  target     \* what each cancel is after, and on which client

ASSUME CallsAreNoCancels ==
  /\ Calls \cap Cancels = {}
  /\ None \notin Calls \cup Cancels \cup Clients

vars == <<dialect, op, at, holds, slot, open, theirs, planned, abandoned, told, target>>

Dialects == {"mysql", "sqlserver", "oracle"}

(* connect and test; runQuery; runReadOnlyQuery; streamQuery; updateRow;   *)
(* SQL Server's explain; insertRow, the other explain, catalog queries.    *)
Methods(d) ==
  {"probe", "run", "stream", "update", "plain"}
    \cup (IF d = "mysql" THEN {"read only"} ELSE {})
    \cup (IF d = "sqlserver" THEN {"explain"} ELSE {})

Tracked   == {"run", "read only", "stream"}
Guarded   == {"run", "read only"}
UnderWay  == {"waiting", "beginning", "running", "reading", "committing", "undoing",
              "clearing", "resetting"}
Ended     == {"done", "failed"}
Users     == Calls \cup Cancels
Free      == {k \in Clients : \A u \in Users : holds[u] # k}

Init ==
  /\ dialect \in Dialects
  /\ op      = [c \in Calls |-> None]
  /\ at      = [u \in Users |-> "idle"]
  /\ holds   = [u \in Users |-> None]
  /\ slot    = None
  /\ open    = {}
  /\ theirs  = {}
  /\ planned = {}
  /\ abandoned = {}
  /\ told    = {}
  /\ target  = [x \in Cancels |-> [call |-> None, client |-> None]]

Goto(u, p) == at' = [at EXCEPT ![u] = p]
Give(u)    == holds' = [holds EXCEPT ![u] = None]

(* A call takes only itself out of the slot. *)
Unregister(c) == slot' = IF slot = c THEN None ELSE slot

(* The transaction a method begins before its statement. *)
Begins(c) ==
  \/ dialect = "mysql" /\ op[c] \in {"read only", "update"}
  \/ dialect = "sqlserver" /\ op[c] \in {"update", "explain"}

(* Oracle opens one with the first change. *)
Writes(c) == dialect = "oracle" /\ op[c] \in {"run", "update", "plain"}

(* What a statement leaves on its client besides: one of runQuery may be   *)
(* a START TRANSACTION or BEGIN TRAN of the user, which nothing undoes, or *)
(* the COMMIT of an earlier one.                                           *)
UsersTransaction(c) ==
  theirs' \in {theirs, theirs \ {holds[c]}} \cup
    (IF op[c] = "run" /\ dialect # "oracle" THEN {theirs \cup {holds[c]}} ELSE {})

-----------------------------------------------------------------------------
(* The handlers let one runQuery or runReadOnlyQuery of a connection run.  *)
(* SQL Server registers the request before it waits for a client.          *)
Start(c) ==
  /\ at[c] = "idle"
  /\ \E m \in Methods(dialect) :
       /\ m \in Guarded => \A d \in Calls : op[d] \in Guarded => at[d] \in Ended
       /\ op' = [op EXCEPT ![c] = m]
       /\ slot' = IF dialect = "sqlserver" /\ m \in Tracked THEN c ELSE slot
  /\ Goto(c, "waiting")
  /\ UNCHANGED <<dialect, holds, open, theirs, planned, abandoned, told, target>>

Acquire(c) ==
  /\ at[c] = "waiting"
  /\ \E k \in Free : holds' = [holds EXCEPT ![c] = k]
  /\ slot' = IF dialect # "sqlserver" /\ op[c] \in Tracked THEN c ELSE slot
  /\ Goto(c, IF Begins(c) THEN "beginning" ELSE "running")
  /\ UNCHANGED <<dialect, op, open, theirs, planned, abandoned, told, target>>

(* The pool rejects: no client was taken. *)
NoClient(u) ==
  /\ at[u] \in {"waiting", "clearing"}
  /\ Unregister(u) /\ Give(u)
  /\ Goto(u, "failed")
  /\ UNCHANGED <<dialect, op, open, theirs, planned, abandoned, told, target>>

(* START TRANSACTION READ ONLY, BEGIN, or a transaction of SQL Server.     *)
(* MySQL commits what the client had open; SQL Server nests.               *)
Begun(c) ==
  /\ at[c] = "beginning"
  /\ open' = open \cup {holds[c]}
  /\ theirs' = IF dialect = "mysql" THEN theirs \ {holds[c]} ELSE theirs
  /\ Goto(c, "running")
  /\ UNCHANGED <<dialect, op, holds, slot, planned, abandoned, told, target>>

(* Mutant: the client stays lent when the statement failed. *)
ReleaseOnSuccess(c, end) ==
  /\ Unregister(c)
  /\ IF end = "done" THEN Give(c) ELSE UNCHANGED holds
  /\ open' = IF dialect = "oracle" THEN open \ {holds[c]} ELSE open
  /\ Goto(c, end)

(* The client goes back to the pool, which rolls back what an Oracle       *)
(* connection has left.                                                    *)
Release(c, end) ==
  /\ Unregister(c)
  /\ Give(c)
  /\ open' = IF dialect = "oracle" THEN open \ {holds[c]} ELSE open
  /\ Goto(c, end)

(* SQL Server rejects the transaction: its begin is outside the try. *)
NotBegun(c) ==
  /\ at[c] = "beginning" /\ dialect = "sqlserver"
  /\ Release(c, "failed")
  /\ UNCHANGED <<dialect, op, theirs, planned, abandoned, told, target>>

(* The statement answers; a stream is read to its end. *)
Answered(c) ==
  /\ at[c] = "running" /\ c \notin abandoned
  /\ ~Begins(c)
  /\ \/ Release(c, "done") /\ UsersTransaction(c)
     \/ /\ Writes(c)
        /\ open' = open \cup {holds[c]}
        /\ Goto(c, "committing")
        /\ UNCHANGED <<holds, slot, theirs>>
  /\ UNCHANGED <<dialect, op, planned, abandoned, told, target>>

(* SQL Server's driver takes the client back when the request has ended,   *)
(* while its last rows are still to be read.                               *)
StreamServed(c) ==
  /\ at[c] = "running" /\ dialect = "sqlserver" /\ op[c] = "stream"
  /\ Give(c) /\ Goto(c, "reading")
  /\ UNCHANGED <<dialect, op, slot, open, theirs, planned, abandoned, told, target>>

StreamRead(c) ==
  /\ at[c] = "reading" /\ c \notin abandoned
  /\ \E end \in Ended : Release(c, end)
  /\ UNCHANGED <<dialect, op, theirs, planned, abandoned, told, target>>

(* The consumer closes the response while the stream waits for its drain:  *)
(* the loop that reads the generator never asks for another batch, and its *)
(* finally block never runs.                                               *)
Abandon(c) ==
  /\ at[c] \in {"running", "reading"} /\ op[c] = "stream" /\ c \notin abandoned
  /\ abandoned' = abandoned \cup {c}
  /\ UNCHANGED <<dialect, op, at, holds, slot, open, theirs, planned, told, target>>

(* SET SHOWPLAN_XML ON comes first in explain; the end of a read-only      *)
(* query leaves the slot before ROLLBACK; a row update that did not change *)
(* exactly one row is undone.                                              *)
AnsweredInTransaction(c) ==
  /\ at[c] = "running" /\ Begins(c)
  /\ \/ Goto(c, "undoing")
     \/ op[c] = "update" /\ Goto(c, "committing")
  /\ planned' = IF op[c] = "explain" THEN planned \cup {holds[c]} ELSE planned
  /\ Unregister(c)
  /\ UNCHANGED <<dialect, op, holds, open, theirs, abandoned, told, target>>

UpdatedOtherRows(c) ==
  /\ at[c] = "running" /\ Writes(c) /\ op[c] = "update"
  /\ open' = open \cup {holds[c]}
  /\ Goto(c, "undoing")
  /\ UNCHANGED <<dialect, op, holds, slot, theirs, planned, abandoned, told, target>>

(* The statement, its BEGIN or its COMMIT fails: what began is undone.     *)
FailsInTransaction(c) ==
  /\ at[c] \in {"beginning", "running", "committing"}
  /\ Begins(c) \/ Writes(c)
  /\ at[c] = "beginning" => dialect = "mysql"
  /\ IF dialect = "mysql" THEN Unregister(c) ELSE UNCHANGED slot
  /\ open' \in {open, open \cup {holds[c]}}
  /\ theirs' \in {theirs, theirs \ {holds[c]}}
  /\ planned' \in {planned, IF op[c] = "explain" THEN planned \cup {holds[c]} ELSE planned}
  /\ Goto(c, "undoing")
  /\ UNCHANGED <<dialect, op, holds, abandoned, told, target>>

Fails(c) ==
  /\ at[c] = "running" /\ ~Begins(c) /\ ~Writes(c) /\ c \notin abandoned
  /\ op[c] = "probe" => dialect # "mysql"
  /\ Release(c, "failed") /\ UsersTransaction(c)
  /\ UNCHANGED <<dialect, op, planned, abandoned, told, target>>

(* MysqlAdapter.connect releases its client only after SELECT 1 answered.  *)
ProbeFails(c) ==
  /\ at[c] = "running" /\ dialect = "mysql" /\ op[c] = "probe"
  /\ Goto(c, "failed")
  /\ UNCHANGED <<dialect, op, holds, slot, open, theirs, planned, abandoned, told, target>>

Committed(c) ==
  /\ at[c] = "committing"
  /\ Unregister(c) /\ Give(c) /\ Goto(c, "done")
  /\ open' = open \ {holds[c]}
  /\ UNCHANGED theirs
  /\ UNCHANGED <<dialect, op, planned, abandoned, told, target>>

(* Mutant: a client whose ROLLBACK failed goes back like any other. *)
UndoneOrNot(c) ==
  /\ at[c] = "undoing" /\ op[c] # "explain"
  /\ \E end \in Ended : Goto(c, end)
  /\ Unregister(c) /\ Give(c)
  /\ open' \in {open, open \ {holds[c]}}
  /\ theirs' = theirs \ {holds[c]}
  /\ UNCHANGED <<dialect, op, planned, abandoned, told, target>>

(* ROLLBACK answers, or fails: then MySQL destroys the connection, SQL     *)
(* Server's driver drops it and Oracle's pool rolls back; a new one takes  *)
(* its place.  It undoes an outer transaction of the user as well.         *)
Undone(c) ==
  /\ at[c] = "undoing" /\ op[c] # "explain"
  /\ \E end \in Ended : Goto(c, end)
  /\ Unregister(c) /\ Give(c)
  /\ open' = open \ {holds[c]}
  /\ theirs' = theirs \ {holds[c]}
  /\ UNCHANGED <<dialect, op, planned, abandoned, told, target>>

(* Mutant: the client is kept until a second one has sent OFF. *)
PlanKept(c) ==
  /\ at[c] = "undoing" /\ op[c] = "explain"
  /\ open' = open \ {holds[c]}
  /\ theirs' = theirs \ {holds[c]}
  /\ Goto(c, "clearing")
  /\ UNCHANGED <<dialect, op, holds, slot, planned, abandoned, told, target>>

(* explain: the rollback gives the client back, still in plan mode; OFF    *)
(* goes to whichever client the pool hands out next.                       *)
PlanRolledBack(c) ==
  /\ at[c] = "undoing" /\ op[c] = "explain"
  /\ Give(c)
  /\ open' = open \ {holds[c]}
  /\ theirs' = theirs \ {holds[c]}
  /\ Goto(c, "clearing")
  /\ UNCHANGED <<dialect, op, slot, planned, abandoned, told, target>>

AcquireForReset(c) ==
  /\ at[c] = "clearing"
  /\ \E k \in Free : holds' = [holds EXCEPT ![c] = k]
  /\ Goto(c, "resetting")
  /\ UNCHANGED <<dialect, op, slot, open, theirs, planned, abandoned, told, target>>

PlanModeOff(c) ==
  /\ at[c] = "resetting"
  /\ planned' \in {planned, planned \ {holds[c]}}
  /\ Give(c)
  /\ \E end \in Ended : Goto(c, end)
  /\ UNCHANGED <<dialect, op, slot, open, theirs, abandoned, told, target>>

-----------------------------------------------------------------------------
(* cancelRunning with nothing registered does nothing. *)
CancelNothing(x) ==
  /\ at[x] = "idle" /\ slot = None
  /\ Goto(x, "done")
  /\ UNCHANGED <<dialect, op, holds, slot, open, theirs, planned, abandoned, told, target>>

(* SQL Server cancels the request, Oracle breaks the connection.           *)
CancelDirectly(x) ==
  /\ at[x] = "idle" /\ slot # None /\ dialect # "mysql"
  /\ told' = told \cup {slot}
  /\ Goto(x, "done")
  /\ UNCHANGED <<dialect, op, holds, slot, open, theirs, planned, abandoned, target>>

(* MySQL needs a client of its own for KILL QUERY. *)
CancelWaits(x) ==
  /\ at[x] = "idle" /\ slot # None /\ dialect = "mysql"
  /\ target' = [target EXCEPT ![x] = [call |-> slot, client |-> holds[slot]]]
  /\ Goto(x, "waiting")
  /\ UNCHANGED <<dialect, op, holds, slot, open, theirs, planned, abandoned, told>>

(* Mutant: the query is not looked at again once a client is there. *)
StillMeantUnchecked(x) == TRUE

(* isCurrent *)
StillMeant(x) == slot = target[x].call

CancelTooLate(x) ==
  /\ at[x] = "waiting" /\ Free # {} /\ ~StillMeant(x)
  /\ Goto(x, "done")
  /\ UNCHANGED <<dialect, op, holds, slot, open, theirs, planned, abandoned, told, target>>

SendKill(x) ==
  /\ at[x] = "waiting" /\ StillMeant(x)
  /\ \E k \in Free : holds' = [holds EXCEPT ![x] = k]
  /\ Goto(x, "killing")
  /\ UNCHANGED <<dialect, op, slot, open, theirs, planned, abandoned, told, target>>

(* KILL QUERY stops what the thread runs by now, or fails. *)
KillArrives(x) ==
  /\ at[x] = "killing"
  /\ told' \in {told, told \cup {c \in Calls : holds[c] = target[x].client}}
  /\ Give(x)
  /\ Goto(x, "done")
  /\ UNCHANGED <<dialect, op, slot, open, theirs, planned, abandoned, target>>

CallStep(c) ==
  \/ Acquire(c) \/ Begun(c) \/ NotBegun(c) \/ Answered(c) \/ AnsweredInTransaction(c)
  \/ UpdatedOtherRows(c) \/ FailsInTransaction(c) \/ Fails(c) \/ ProbeFails(c)
  \/ Committed(c) \/ Undone(c) \/ PlanRolledBack(c) \/ AcquireForReset(c) \/ PlanModeOff(c)
  \/ StreamRead(c)

CancelStep(x) == CancelTooLate(x) \/ SendKill(x) \/ KillArrives(x)

Next ==
  \/ \E c \in Calls : Start(c) \/ CallStep(c) \/ StreamServed(c) \/ Abandon(c)
  \/ \E u \in Users : NoClient(u)
  \/ \E x \in Cancels : CancelNothing(x) \/ CancelDirectly(x) \/ CancelWaits(x) \/ CancelStep(x)

(* Servers answer, if only with an error, and the pool hands out the       *)
(* clients that come back; it need not ever reject.  Whoever reads a       *)
(* stream reads on, unless it has abandoned it.                            *)
Fairness ==
  /\ \A c \in Calls : WF_vars(CallStep(c)) /\ SF_vars(Acquire(c) \/ AcquireForReset(c))
  /\ \A x \in Cancels : SF_vars(CancelStep(x))

Spec == Init /\ [][Next]_vars /\ Fairness

-----------------------------------------------------------------------------
TypeOK ==
  /\ dialect \in Dialects
  /\ op \in [Calls -> Methods(dialect) \cup {None}]
  /\ at \in [Users -> UnderWay \cup Ended \cup {"idle", "killing"}]
  /\ holds \in [Users -> Clients \cup {None}]
  /\ slot \in Calls \cup {None}
  /\ open \subseteq Clients /\ theirs \subseteq Clients /\ planned \subseteq Clients
  /\ abandoned \subseteq Calls /\ told \subseteq Calls
  /\ target \in [Cancels -> [call : Calls \cup {None}, client : Clients \cup {None}]]

(* The slot names a statement that is under way on a client of its own, in *)
(* SQL Server perhaps still waiting for one, or a stream whose rows are    *)
(* still to be read: whatever ends beside it, query.cancel finds it, and   *)
(* never a client that went to somebody else.                              *)
SlotIsLive ==
  slot # None =>
    /\ op[slot] \in Tracked
    /\ at[slot] \in UnderWay
    /\ holds[slot] # None \/ (dialect = "sqlserver" /\ at[slot] \in {"waiting", "reading"})

(* No client is lent twice, and a call that ended has none, save a failed  *)
(* probe of MySQL.                                                         *)
ClientsReturned ==
  /\ \A u, v \in Users : u # v /\ holds[u] # None => holds[u] # holds[v]
  /\ \A u \in Users :
       at[u] \in Ended /\ holds[u] # None =>
         u \in Calls /\ dialect = "mysql" /\ op[u] = "probe" /\ at[u] = "failed"

(* A client is never lent with the transaction a method has opened for     *)
(* somebody before, whichever of BEGIN, statement, COMMIT and ROLLBACK     *)
(* failed.  One of the user's own SQL it may have.                         *)
NothingLeftOpen == open \cap Free = {}

(* But not in Oracle; and in MySQL no read-only query and no row update    *)
(* runs inside one.                                                        *)
TheirsEndsBefore ==
  /\ dialect = "oracle" => theirs = {}
  /\ dialect = "mysql" => \A c \in Calls :
       Begins(c) /\ at[c] \in {"running", "committing"} => holds[c] \notin theirs

(* Where a call or a cancel is tells whether it has a client; which places *)
(* there are depends on what it is.                                        *)
CallInPlace(c) ==
  /\ at[c] # "killing"
  /\ at[c] \in {"idle", "waiting", "reading", "clearing"} => holds[c] = None
  /\ at[c] \in {"beginning", "running", "committing", "undoing", "resetting"}
       => holds[c] # None
  /\ at[c] \in {"clearing", "resetting"} => op[c] = "explain" /\ dialect = "sqlserver"
  /\ at[c] = "reading" => op[c] = "stream" /\ dialect = "sqlserver"
  /\ at[c] = "beginning" => Begins(c)
  /\ at[c] \in {"committing", "undoing"} => Begins(c) \/ Writes(c)

CancelInPlace(x) ==
  /\ at[x] \in {"idle", "waiting", "killing"} \cup Ended
  /\ holds[x] # None <=> at[x] = "killing"

ClientsInUse ==
  /\ \A c \in Calls : CallInPlace(c)
  /\ \A x \in Cancels : CancelInPlace(x)

(* A transaction is open on a client only for the call that has it, which  *)
(* is one that begins one or writes and is about to commit or roll back.   *)
Transacts(u) ==
  /\ u \in Calls /\ at[u] \in {"running", "committing", "undoing"}
  /\ Begins(u) \/ Writes(u)

OpenIsOwn == \A u \in Users : holds[u] \in open => Transacts(u)

(* What a cancel of MySQL is after has a client of its own since before,   *)
(* and never gets another.                                                 *)
MeantHasNoOther ==
  \A x \in Cancels : at[x] = "waiting" =>
    /\ dialect = "mysql" /\ target[x].call # None
    /\ at[target[x].call] \notin {"idle", "waiting"}
    /\ holds[target[x].call] \in {None, target[x].client}

AdapterInv ==
  /\ TypeOK /\ SlotIsLive /\ ClientsReturned /\ NothingLeftOpen /\ TheirsEndsBefore
  /\ ClientsInUse /\ OpenIsOwn /\ MeantHasNoOther

(* MySQL's cancel kills the client of a query only while that query is     *)
(* registered: "evita matar thread reutilizada" (introspection.ts:548).    *)
KillIsCurrent == [][\A x \in Cancels :
  at'[x] = "killing" /\ at[x] # "killing" =>
    slot = target[x].call /\ holds[target[x].call] = target[x].client]_vars

(* Every call and every cancel ends but a stream that is abandoned, unless *)
(* failed probes of MySQL and abandoned streams have all clients.          *)
PoolLost == \A k \in Clients : \E c \in Calls :
  holds[c] = k /\ (at[c] = "failed" \/ c \in abandoned)
EverythingEnds == \A u \in Users :
  at[u] \in UnderWay \cup {"killing"} ~> (at[u] \in Ended \/ u \in abandoned \/ PoolLost)
=============================================================================
