---------------------------- MODULE QuerySession ----------------------------
(***************************************************************************)
(* Running and cancelling SQL on one PostgreSQL connection of the backend: *)
(* withCancellableSession and query.cancel of packages/backend/src/        *)
(* handlers.ts over the pool and the one activeQuery slot of               *)
(* PostgresAdapter, together with the analysis streams of                  *)
(* streamAnalysisQuery, which share pool and slot but not the guard        *)
(* activeQueries.                                                          *)
(*                                                                         *)
(* Every await is a point where other callbacks run, so each action is the *)
(* code between two awaits.  The database is external: a statement ends    *)
(* when it wants to, and a cancel packet travels on a connection of its    *)
(* own and stops whatever runs on the pool client when it arrives.         *)
(***************************************************************************)
EXTENDS FiniteSets

CONSTANTS
  Calls,    \* runs of query.run and runReadOnlyQuery on the connection
  Streams,  \* runs of streamAnalysisQuery on the connection
  Clients,  \* the clients of the pg pool (max: 4 in the code)
  None

ASSUME SessionAssumption ==
  /\ Calls \cap Streams = {}
  /\ None \notin Calls \cup Streams \cup Clients

VARIABLES
  pc,       \* where each call and stream is
  readOnly, \* the call is runReadOnlyQuery
  aborted,  \* its AbortSignal fired
  client,   \* the pool client it holds
  busy,     \* activeQueries.has(id)
  active,   \* adapter.activeQuery: whose statement it names
  packets,  \* cancel packets on their way: the client and the query they mean
  outcome   \* how the call or stream ended

vars == <<pc, readOnly, aborted, client, busy, active, packets, outcome>>

Users == Calls \cup Streams

(* A statement of the user's SQL is executing on the server. *)
OnServer(u) == pc[u] \in {"running", "fetching"}

(* The call is between activeQueries.add and activeQueries.delete. *)
Guarded(c) ==
  pc[c] \in {"connecting", "probing", "acquiring", "begin", "running", "rollback"}

(* adapter.connect() failed with a client in hand: nobody gives it back. *)
Leaks(u) == pc[u] = "done" /\ outcome[u] = "unreachable"

FreeClients == {k \in Clients : \A u \in Users : client[u] # k}

Goto(u, place) == pc' = [pc EXCEPT ![u] = place]

Init ==
  /\ pc       = [u \in Users |-> "idle"]
  /\ readOnly \in [Calls -> BOOLEAN]
  /\ aborted  = [u \in Users |-> FALSE]
  /\ client   = [u \in Users |-> None]
  /\ busy     = FALSE
  /\ active   = None
  /\ packets  = {}
  /\ outcome  = [u \in Users |-> "none"]

-----------------------------------------------------------------------------
(* cancelRunning of the adapter: whatever the slot names is cancelled. *)
CancelRunning ==
  packets' = IF active = None THEN packets
             ELSE packets \cup {[client |-> client[active], aim |-> active]}

Register(u) == active' = u

(* The cleanup of queryViaClient clears the slot of its own token only. *)
Unregister(u) == active' = IF active = u THEN None ELSE active

(* Mutant: the client stays checked out. *)
ReleaseNothing(u) == client' = client

Release(u) == client' = [client EXCEPT ![u] = None]

-----------------------------------------------------------------------------
(* withCancellableSession.  A second call on the connection is refused     *)
(* before the guard is touched.                                            *)

(* Mutant: the refused call runs the finally block as well. *)
RefuseClearingGuard(c) ==
  /\ pc[c] = "idle" /\ busy
  /\ Goto(c, "done")
  /\ outcome' = [outcome EXCEPT ![c] = "refused"]
  /\ busy' = FALSE
  /\ UNCHANGED <<readOnly, aborted, client, active, packets>>

Refuse(c) ==
  /\ pc[c] = "idle" /\ busy
  /\ Goto(c, "done")
  /\ outcome' = [outcome EXCEPT ![c] = "refused"]
  /\ UNCHANGED <<readOnly, aborted, client, busy, active, packets>>

(* A call whose signal fired already throws at once. *)
StartAborted(c) ==
  /\ pc[c] = "idle" /\ ~busy /\ aborted[c]
  /\ Goto(c, "done")
  /\ outcome' = [outcome EXCEPT ![c] = "cancelled"]
  /\ UNCHANGED <<readOnly, aborted, client, busy, active, packets>>

Start(c) ==
  /\ pc[c] = "idle" /\ ~busy /\ ~aborted[c]
  /\ Goto(c, "connecting")
  /\ busy' = TRUE
  /\ UNCHANGED <<readOnly, aborted, client, active, packets, outcome>>

(* adapter.connect() borrows a client and asks it for SELECT 1. *)
Probe(u) ==
  /\ pc[u] = "connecting"
  /\ \E k \in FreeClients : client' = [client EXCEPT ![u] = k]
  /\ Goto(u, "probing")
  /\ UNCHANGED <<readOnly, aborted, busy, active, packets, outcome>>

(* Mutant: only the success path of a call gives the guard back. *)
EndsEarlyKeepingGuard(u, result) ==
  /\ Goto(u, "done")
  /\ outcome' = [outcome EXCEPT ![u] = result]
  /\ busy' = busy

(* The call or stream ends before it ran anything: the finally block of    *)
(* withCancellableSession gives the guard back.                            *)
EndsEarly(u, result) ==
  /\ Goto(u, "done")
  /\ outcome' = [outcome EXCEPT ![u] = result]
  /\ busy' = (IF u \in Calls THEN FALSE ELSE busy)

(* The pool has no client to give, or the server none to the pool. *)
PoolFails(u) ==
  /\ pc[u] \in {"connecting", "acquiring"}
  /\ EndsEarly(u, "failed")
  /\ UNCHANGED <<readOnly, aborted, client, active, packets>>

(* SELECT 1 failed: connect() throws without releasing its client. *)
Unreachable(u) ==
  /\ pc[u] = "probing"
  /\ EndsEarly(u, "unreachable")
  /\ UNCHANGED <<readOnly, aborted, client, active>>

ProbeFails(u) == Unreachable(u) /\ UNCHANGED packets

(* The adapter got a client: runQueryViaPool registers the query and       *)
(* submits it in one go; runReadOnlyQueryViaPool first waits for BEGIN     *)
(* READ ONLY.                                                              *)
Submit(c) ==
  IF readOnly[c]
    THEN Goto(c, "begin") /\ UNCHANGED active
    ELSE Goto(c, "running") /\ Register(c)

(* SELECT 1 answered and the client goes back.  If the signal fired        *)
(* meanwhile the call ends, otherwise execute() is called: it takes the    *)
(* client again, unless others wait in the queue of the pool.              *)
Connected(c) ==
  /\ pc[c] = "probing"
  /\ \/ /\ aborted[c]
        /\ EndsEarly(c, "cancelled")
        /\ Release(c)
        /\ UNCHANGED active
     \/ /\ ~aborted[c]
        /\ IF \E u \in Users \ {c} : pc[u] \in {"connecting", "acquiring"}
             THEN Goto(c, "acquiring") /\ Release(c) /\ UNCHANGED active
             ELSE Submit(c) /\ UNCHANGED client
        /\ UNCHANGED <<outcome, busy>>
  /\ UNCHANGED <<readOnly, aborted, packets>>

(* The pool hands a client to a call that waited for it. *)
Acquire(c) ==
  /\ pc[c] = "acquiring"
  /\ \E k \in FreeClients : client' = [client EXCEPT ![c] = k]
  /\ Submit(c)
  /\ UNCHANGED <<readOnly, aborted, busy, packets, outcome>>

(* BEGIN READ ONLY returned and the statement is submitted, whatever the   *)
(* signal says by now; or BEGIN failed.                                    *)
Begin(c) ==
  /\ pc[c] = "begin"
  /\ \/ Goto(c, "running") /\ Register(c) /\ UNCHANGED outcome
     \/ /\ Goto(c, "rollback")
        /\ outcome' = [outcome EXCEPT ![c] = "failed"]
        /\ UNCHANGED active
  /\ UNCHANGED <<readOnly, aborted, client, busy, packets>>

(* The statement ends.  A read-only run always rolls back, the other one   *)
(* after an error.  Without a rollback the finally block of                *)
(* withCancellableSession follows at once: pg has nothing to wait for in   *)
(* `await cancellation`.                                                   *)
Ends(c, result) ==
  /\ Unregister(c)
  /\ outcome' = [outcome EXCEPT ![c] = result]
  /\ IF readOnly[c] \/ result # "completed"
       THEN Goto(c, "rollback") /\ UNCHANGED <<client, busy>>
       ELSE Goto(c, "done") /\ Release(c) /\ busy' = FALSE
  /\ UNCHANGED <<readOnly, aborted>>

Complete(c) ==
  /\ pc[c] = "running"
  /\ \E result \in {"completed", "failed"} : Ends(c, result)
  /\ UNCHANGED packets

RolledBack(c) ==
  /\ pc[c] = "rollback"
  /\ Goto(c, "done")
  /\ Release(c)
  /\ busy' = FALSE
  /\ UNCHANGED <<readOnly, aborted, active, packets, outcome>>

-----------------------------------------------------------------------------
(* streamAnalysisQuery and streamQuery, which share the actions of         *)
(* connect() with the calls.                                               *)
StartStream(s) ==
  /\ pc[s] = "idle"
  /\ Goto(s, "connecting")
  /\ UNCHANGED <<readOnly, aborted, client, busy, active, packets, outcome>>

StreamConnected(s) ==
  /\ pc[s] = "probing"
  /\ Goto(s, "acquiring")
  /\ Release(s)
  /\ UNCHANGED <<readOnly, aborted, busy, active, packets, outcome>>

(* The client is there: the abort listener is set, BEGIN READ ONLY and     *)
(* DECLARE CURSOR are under way.                                           *)
AcquireStream(s) ==
  /\ pc[s] = "acquiring"
  /\ \E k \in FreeClients : client' = [client EXCEPT ![s] = k]
  /\ Goto(s, "begin")
  /\ UNCHANGED <<readOnly, aborted, busy, active, packets, outcome>>

(* The finally block of streamQuery empties the slot, whoever is in it. *)
CloseStream(s, result) ==
  /\ Goto(s, "rollback")
  /\ active' = None
  /\ outcome' = [outcome EXCEPT ![s] = result]
  /\ UNCHANGED <<readOnly, aborted, client, busy>>

(* The loop fetches the next batch unless the signal fired. *)
Fetch(s) ==
  /\ pc[s] = "begin" /\ ~aborted[s]
  /\ Goto(s, "fetching")
  /\ Register(s)
  /\ UNCHANGED <<readOnly, aborted, client, busy, packets, outcome>>

(* The loop ends: the signal fired, or BEGIN or DECLARE failed. *)
StopStream(s) ==
  /\ pc[s] = "begin"
  /\ \/ aborted[s] /\ CloseStream(s, "cancelled")
     \/ CloseStream(s, "failed")
  /\ UNCHANGED packets

(* A batch arrived and was written to the HTTP response.  If the response  *)
(* took it, the next FETCH follows at once; otherwise the stream waits for *)
(* "drain", as it always does when the consumer closed the response: a     *)
(* write to a closed response reports that it is full.                     *)
BatchWritten(s) ==
  /\ pc[s] = "fetching"
  /\ \/ ~aborted[s] /\ UNCHANGED <<pc, active>>
     \/ Goto(s, "draining") /\ Unregister(s)
  /\ UNCHANGED <<readOnly, aborted, client, busy, packets, outcome>>

(* The last FETCH came back empty, or failed. *)
StreamEnds(s) ==
  /\ pc[s] = "fetching"
  /\ \E result \in {"completed", "failed"} : CloseStream(s, result)
  /\ UNCHANGED packets

(* The response drains only while the consumer is there.  The loop goes on *)
(* with the next FETCH, or ends: the batch was the empty one that carries  *)
(* the columns, or the rest of it holds a row that is too long.            *)
Drained(s) ==
  /\ pc[s] = "draining" /\ ~aborted[s]
  /\ \/ /\ Goto(s, "fetching")
        /\ Register(s)
        /\ UNCHANGED <<readOnly, aborted, client, busy, outcome>>
     \/ \E result \in {"completed", "failed"} : CloseStream(s, result)
  /\ UNCHANGED packets

StreamRolledBack(s) ==
  /\ pc[s] = "rollback"
  /\ Goto(s, "done")
  /\ Release(s)
  /\ UNCHANGED <<readOnly, aborted, busy, active, packets, outcome>>

-----------------------------------------------------------------------------
(* The abort listener of a call acts only once execute() was called, the   *)
(* one of a stream only while streamQuery holds its client.                *)
HearsAbort(u) ==
  IF u \in Calls THEN pc[u] \in {"acquiring", "begin", "running", "rollback"}
                 ELSE pc[u] \in {"begin", "fetching", "draining"}

(* The caller gives up: its HTTP request is closed, or the bridge aborts   *)
(* the MCP execution.                                                      *)
Abort(u) ==
  /\ ~aborted[u] /\ pc[u] # "done"
  /\ aborted' = [aborted EXCEPT ![u] = TRUE]
  /\ IF HearsAbort(u) THEN CancelRunning ELSE UNCHANGED packets
  /\ UNCHANGED <<pc, readOnly, client, busy, active, outcome>>

(* query.cancel. *)
QueryCancel ==
  /\ CancelRunning
  /\ UNCHANGED <<pc, readOnly, aborted, client, busy, active, outcome>>

(* A packet that finds no statement on its client does nothing. *)
PacketLost(p) ==
  /\ \A u \in Users : client[u] = p.client => ~OnServer(u)
  /\ packets' = packets \ {p}
  /\ UNCHANGED <<pc, readOnly, aborted, client, busy, active, outcome>>

PacketStopsCall(p, c) ==
  /\ client[c] = p.client /\ pc[c] = "running"
  /\ Ends(c, "cancelled")
  /\ packets' = packets \ {p}

(* The client was given back and lent again before the packet arrived.  *)
PacketStopsProbe(p, u) ==
  /\ client[u] = p.client
  /\ Unreachable(u)
  /\ packets' = packets \ {p}

PacketStopsStream(p, s) ==
  /\ client[s] = p.client /\ pc[s] = "fetching"
  /\ CloseStream(s, "cancelled")
  /\ packets' = packets \ {p}

-----------------------------------------------------------------------------
CallStep(c) ==
  \/ Refuse(c) \/ StartAborted(c) \/ Start(c) \/ Connected(c)
  \/ Acquire(c) \/ Begin(c) \/ Complete(c) \/ RolledBack(c)

StreamStep(s) ==
  \/ StartStream(s) \/ StreamConnected(s) \/ AcquireStream(s)
  \/ Fetch(s) \/ StopStream(s) \/ BatchWritten(s) \/ StreamEnds(s)
  \/ Drained(s) \/ StreamRolledBack(s)

ConnectStep(u) == Probe(u) \/ PoolFails(u) \/ ProbeFails(u)

PacketArrives(p) ==
  \/ PacketLost(p)
  \/ \E u \in Users : PacketStopsProbe(p, u)
  \/ \E c \in Calls : PacketStopsCall(p, c)
  \/ \E s \in Streams : PacketStopsStream(p, s)

Next ==
  \/ \E c \in Calls : CallStep(c)
  \/ \E s \in Streams : StreamStep(s)
  \/ \E u \in Users : ConnectStep(u) \/ Abort(u)
  \/ QueryCancel
  \/ \E p \in packets : PacketArrives(p)

Spec == Init /\ [][Next]_vars

(* The database answers: a statement ends (statement_timeout is 30 s), a   *)
(* rollback returns; the pool serves its queue in order, so that nobody    *)
(* waits for ever while clients come free.  Nothing is assumed of those    *)
(* who start, abort or cancel, nor that a failed connect() happens.        *)
ServerFairness ==
  /\ \A c \in Calls :
       /\ SF_vars(Probe(c) \/ Acquire(c))
       /\ WF_vars(\/ Connected(c) \/ ProbeFails(c)
                  \/ Begin(c) \/ Complete(c) \/ RolledBack(c))
  /\ \A s \in Streams :
       /\ SF_vars(Probe(s) \/ AcquireStream(s))
       /\ WF_vars(\/ StreamConnected(s) \/ ProbeFails(s)
                  \/ Fetch(s) \/ StopStream(s) \/ Drained(s) \/ StreamRolledBack(s))
       /\ SF_vars(StreamEnds(s))

FairSpec == Spec /\ ServerFairness

-----------------------------------------------------------------------------
Places == {"idle", "connecting", "probing", "acquiring", "begin", "running",
           "fetching", "draining", "rollback", "done"}
Results == {"none", "refused", "unreachable", "completed", "failed", "cancelled"}

TypeOK ==
  /\ pc \in [Users -> Places]
  /\ readOnly \in [Calls -> BOOLEAN]
  /\ aborted \in [Users -> BOOLEAN]
  /\ client \in [Users -> Clients \cup {None}]
  /\ busy \in BOOLEAN
  /\ active \in Users \cup {None}
  /\ packets \subseteq [client : Clients, aim : Users]
  /\ outcome \in [Users -> Results]

(* activeQueries holds the connection exactly while one call is under way, *)
(* refused, aborted and failed calls included: two statements of guarded   *)
(* calls never run side by side.                                           *)
GuardHeldByOne ==
  /\ busy <=> \E c \in Calls : Guarded(c)
  /\ \A c, d \in Calls : Guarded(c) /\ Guarded(d) => c = d

(* The slot never names a statement that has ended: query.cancel and the   *)
(* abort listeners do not send cancel packets after a query that is gone.  *)
ActiveIsRunning == active # None => OnServer(active)

(* A pool client is lent to one user at a time, for as long as the user    *)
(* has a statement or a transaction open, and is given back on every path  *)
(* but one: when the SELECT 1 of connect() fails it stays out for ever.    *)
ClientsReturned ==
  /\ \A u, v \in Users : client[u] = client[v] /\ client[u] # None => u = v
  /\ \A u \in Users :
       client[u] # None <=>
         \/ pc[u] \in {"probing", "begin", "running", "fetching", "draining", "rollback"}
         \/ Leaks(u)

(* A client is out of reach only of a user that is finished. *)
UnreachableIsDone == \A u \in Users : outcome[u] = "unreachable" => pc[u] = "done"

(* The inductive invariant. *)
SessionInv ==
  TypeOK /\ GuardHeldByOne /\ ActiveIsRunning /\ ClientsReturned /\ UnreachableIsDone

(* adapters-core/src/index.ts:53 "Implementations must close cursors in a  *)
(* finally block when the consumer stops early or aborts": a stream that   *)
(* is aborted with its cursor open comes to its finally block.             *)
AbortedStreamCloses ==
  \A s \in Streams :
    aborted[s] /\ pc[s] \in {"fetching", "draining"} ~> pc[s] \in {"rollback", "done"}

(* However a call ends, the connection accepts calls again, unless no      *)
(* client of the pool will come back: each went to a failed probe or to a  *)
(* stream whose consumer is gone.                                          *)
PoolExhausted ==
  \A k \in Clients : \E u \in Users :
    client[u] = k /\ (Leaks(u) \/ (pc[u] = "draining" /\ aborted[u]))
GuardReleased == busy ~> (~busy \/ PoolExhausted)
=============================================================================
