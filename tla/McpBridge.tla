------------------------------ MODULE McpBridge ------------------------------
(***************************************************************************)
(* The MCP bridge of the backend, class McpBridge of                       *)
(* packages/backend/src/mcp-bridge.ts.  MCP clients submit tool requests;  *)
(* one desktop window at a time holds the listener lease, long-polls for   *)
(* the requests and answers them.  A request leaves the bridge exactly     *)
(* once: answered by the window it was delivered to, timed out, cancelled  *)
(* by its client, or withdrawn with the lease.                             *)
(*                                                                         *)
(* The code runs on one event loop, so a handler or a timer callback is    *)
(* one atomic step.  Requests are numbered in the order of their           *)
(* submission (the code draws random ids).  Time is counted in units of    *)
(* the one-second approval window: lease and ttl hold what is left until   *)
(* listenerExpiresAt and until a request's expiresAt, and Tick lets one    *)
(* unit pass.  A due timer may still run late, as Node allows.             *)
(***************************************************************************)
EXTENDS Integers, Sequences, FiniteSets

CONSTANTS
  MaxRequests,  \* number of requests ever submitted (a bound of the model)
  Listeners,    \* ids of the desktop windows that may poll
  NoListener,   \* `undefined` for listenerId, waitingListener, deliveredTo
  MaxQueueSize, \* this.maxQueueSize
  MaxHistory,   \* MCP_MAX_HISTORY_ENTRIES
  Timeout,      \* this.timeoutMs, in units
  Lease,        \* this.listenerTtlMs, in units
  Window        \* the margin approveExecution keeps before expiresAt, in units

ASSUME BridgeAssumption ==
  /\ MaxRequests \in Nat
  /\ NoListener \notin Listeners
  /\ MaxQueueSize \in Nat \ {0}
  /\ MaxHistory \in Nat \ {0}
  /\ Timeout \in Nat \ {0}
  /\ Lease \in Nat \ {0}
  /\ Window \in Nat

VARIABLES
  submitted,  \* how many requests were accepted so far
  tool,       \* request.tool, as far as the bridge tells tools apart
  status,     \* PendingRequest.state; "settled" once it left the pending map
  owner,      \* PendingRequest.deliveredTo
  executing,  \* PendingRequest.executing
  ttl,        \* time left of the request timer and of request.expiresAt
  aborted,    \* PendingRequest.controller was aborted
  outcome,    \* how the promise handed to the MCP client was settled
  queue,      \* this.queue
  listener,   \* this.listenerId
  lease,      \* time left until this.listenerExpiresAt
  waiting,    \* this.waitingListener.listenerId
  history     \* this.historyEntries, oldest first

reqVars == <<submitted, tool, status, owner, executing, ttl, aborted, outcome>>
vars == <<reqVars, queue, listener, lease, waiting, history>>

Requests == 1..MaxRequests
Tools == {"executeSql", "readTool"}

(* "none": the promise is open.  "cancelled" is the bridge's own code      *)
(* `rejected` after a client abort; "failed" stands for the error code the *)
(* window sent.                                                            *)
Outcomes == {"none", "completed", "rejected", "invalid", "failed",
             "timeout", "cancelled", "unavailable"}

(* What a window may send: a valid result, a valid result bound to a       *)
(* connection whose MCP access is off, a malformed result or error, a      *)
(* well-formed error.                                                      *)
Responses == {"ok", "okOff", "malformed", "error"}
OutcomeOf(response) ==
  CASE response = "ok"        -> "completed"
    [] response = "okOff"     -> "rejected"
    [] response = "malformed" -> "invalid"
    [] response = "error"     -> "failed"

Pending == {r \in Requests : status[r] \in {"queued", "delivered"}}

(* expireListenerIfNeeded finds the lease run out. *)
LeaseDue == listener # NoListener /\ lease = 0

(* The requests expireListener withdraws: those no window has taken. *)
Undelivered == {r \in Requests : status[r] = "queued"}
Dropped == IF LeaseDue THEN Undelivered ELSE {}

-----------------------------------------------------------------------------
(* Settling.  ans maps each request to the outcome it is settled with in   *)
(* this step, or to "none".                                                *)
NoAnswer == [r \in Requests |-> "none"]
AnswerAll(S, o) == [r \in Requests |-> IF r \in S THEN o ELSE "none"]

(* Mutant: the path that settles a request forgets its history entry. *)
SettleHistoryForgets(h, ans) == h

(* settleHistory for every request settled in this step: an entry that was *)
(* evicted is not there to be updated.                                     *)
SettleHistory(h, ans) ==
  [i \in 1..Len(h) |->
     IF ans[h[i].id] # "none" THEN [id |-> h[i].id, status |-> ans[h[i].id]]
                              ELSE h[i]]

(* this.pending.delete, clearTimeout and resolve or reject of the promise. *)
Settle(ans) ==
  /\ status'  = [r \in Requests |-> IF ans[r] # "none" THEN "settled" ELSE status[r]]
  /\ outcome' = [r \in Requests |-> IF ans[r] # "none" THEN ans[r] ELSE outcome[r]]
  /\ ttl'     = [r \in Requests |-> IF ans[r] # "none" THEN 0 ELSE ttl[r]]
  /\ history' = SettleHistory(history, ans)
  /\ UNCHANGED <<submitted, tool, owner, executing>>

(* Mutant: the controller of a withdrawn request is not aborted. *)
AbortNothing(S) == aborted' = aborted

(* controller.abort() for the requests of S. *)
Abort(S) == aborted' = [r \in Requests |-> aborted[r] \/ r \in S]

(* splice(indexOf(r), 1); a request that is not queued leaves it alone. *)
WithoutIndex(q, i) ==
  [j \in 1..(Len(q) - 1) |-> IF j < i THEN q[j] ELSE q[j + 1]]
RemoveFromQueue(r) ==
  \/ /\ \A i \in 1..Len(queue) : queue[i] # r
     /\ queue' = queue
  \/ \E i \in 1..Len(queue) :
       /\ queue[i] = r
       /\ queue' = WithoutIndex(queue, i)

(* Mutant: a lease given up leaves its poll waiting. *)
GiveUpLeaseKeepingPoll ==
  queue' = << >> /\ listener' = NoListener /\ lease' = 0 /\ waiting' = waiting

(* What expireListener and close do besides settling requests. *)
GiveUpLease ==
  queue' = << >> /\ listener' = NoListener /\ lease' = 0 /\ waiting' = NoListener

-----------------------------------------------------------------------------
Init ==
  /\ submitted = 0
  /\ tool      = [r \in Requests |-> "readTool"]
  /\ status    = [r \in Requests |-> "unused"]
  /\ owner     = [r \in Requests |-> NoListener]
  /\ executing = [r \in Requests |-> FALSE]
  /\ ttl       = [r \in Requests |-> 0]
  /\ aborted   = [r \in Requests |-> FALSE]
  /\ outcome   = [r \in Requests |-> "none"]
  /\ queue     = << >>
  /\ listener  = NoListener
  /\ lease     = 0
  /\ waiting   = NoListener
  /\ history   = << >>

-----------------------------------------------------------------------------
(* mcp.ui.next.  expireListenerIfNeeded runs first: a lease that ran out   *)
(* is given up, with the requests still queued, before the poll claims it. *)
(* A poll of a window that does not hold a live lease throws.              *)
MayClaim(l) == listener \in {NoListener, l} \/ LeaseDue

(* claimListener of a poll that may claim: the lease is renewed. *)
Claim(l) == listener' = l /\ lease' = Lease

(* this.queue.shift(). *)
Shift == Tail(queue)

(* The poll finds a queued request and is answered with it; the same       *)
(* window's older poll, if one still waits, is answered null.              *)
PollTakes(l) ==
  /\ MayClaim(l) /\ ~LeaseDue
  /\ queue # << >>
  /\ Claim(l)
  /\ queue'  = Shift
  /\ status' = [status EXCEPT ![Head(queue)] = "delivered"]
  /\ owner'  = [owner EXCEPT ![Head(queue)] = l]
  /\ waiting' = NoListener
  /\ UNCHANGED <<submitted, tool, executing, ttl, aborted, outcome, history>>

(* The poll finds nothing: it waits, or with waitMs = 0 returns null. *)
PollFindsNothing(l, wait) ==
  /\ MayClaim(l)
  /\ LeaseDue \/ queue = << >>
  /\ Claim(l)
  /\ queue' = << >>
  /\ Settle(AnswerAll(Dropped, "unavailable"))
  /\ Abort(Dropped)
  /\ waiting' = IF wait THEN l ELSE NoListener

(* The wait of a poll ends with null: its waitMs ran out, or the window's  *)
(* HTTP request was aborted.                                               *)
PollReturnsEmpty ==
  /\ waiting # NoListener
  /\ waiting' = NoListener
  /\ UNCHANGED <<reqVars, queue, listener, lease, history>>

(* recordHistory of a new request, evicting the oldest entry. *)
RecordHistory(r) ==
  LET h == Append(history, [id |-> r, status |-> "none"])
  IN  history' = IF Len(h) > MaxHistory THEN Tail(h) ELSE h

(* Delivered requests that wait for an answer count as well. *)
HasRoom == Cardinality(Pending) < MaxQueueSize

(* Mutant: a new request overtakes the queued ones. *)
EnqueueFirst(r) == <<r>> \o queue

(* this.queue.push. *)
Enqueue(r) == Append(queue, r)

(* submit: a poll that waits for the lease holder takes the request at     *)
(* once, otherwise it is queued.  With no live listener, or with           *)
(* maxQueueSize requests pending, the call throws.                         *)
Submit(t) ==
  LET r == submitted + 1 IN
  /\ submitted < MaxRequests
  /\ listener # NoListener /\ ~LeaseDue
  /\ HasRoom
  /\ submitted' = r
  /\ tool' = [tool EXCEPT ![r] = t]
  /\ ttl'  = [ttl EXCEPT ![r] = Timeout]
  /\ RecordHistory(r)
  /\ IF waiting = listener
       THEN /\ status'  = [status EXCEPT ![r] = "delivered"]
            /\ owner'   = [owner EXCEPT ![r] = listener]
            /\ waiting' = NoListener
            /\ queue'   = queue
       ELSE /\ status'  = [status EXCEPT ![r] = "queued"]
            /\ queue'   = Enqueue(r)
            /\ UNCHANGED <<owner, waiting>>
  /\ UNCHANGED <<executing, aborted, outcome, listener, lease>>

(* mcp.ui.respond: only the window the request was delivered to, and only  *)
(* while it is pending.  The execution signal is not aborted.              *)
Respond(l, r, response) ==
  /\ status[r] = "delivered" /\ owner[r] = l
  /\ Settle([AnswerAll(Dropped, "unavailable") EXCEPT ![r] = OutcomeOf(response)])
  /\ Abort(Dropped)
  /\ IF LeaseDue
       THEN GiveUpLease
       ELSE UNCHANGED <<queue, listener, lease, waiting>>

(* Mutant: an approval is honoured after the request was settled. *)
ApproveAfterSettling(l, r) ==
  /\ owner[r] = l
  /\ tool[r] = "executeSql"
  /\ executing' = [executing EXCEPT ![r] = TRUE]
  /\ UNCHANGED <<submitted, tool, status, owner, ttl, aborted, outcome,
                 queue, listener, lease, waiting, history>>

(* approveExecution: the desktop user approved; the SQL starts. *)
ApproveExecution(l, r) ==
  /\ status[r] = "delivered" /\ owner[r] = l
  /\ tool[r] = "executeSql"
  /\ ~executing[r]
  /\ ttl[r] > Window
  /\ executing' = [executing EXCEPT ![r] = TRUE]
  /\ UNCHANGED <<submitted, tool, status, owner, ttl, aborted, outcome,
                 queue, listener, lease, waiting, history>>

(* close: every pending request is withdrawn, delivered or not. *)
Close ==
  /\ Settle(AnswerAll(Pending, "unavailable"))
  /\ Abort(Pending)
  /\ GiveUpLease

(* mcp.ui.release of the window that holds the lease. *)
Release(l) == listener = l /\ Close

(* Mutant: a lease is not given up while its last poll is waiting. *)
ExpireUnlessWaiting ==
  /\ LeaseDue /\ waiting = NoListener
  /\ Settle(AnswerAll(Undelivered, "unavailable"))
  /\ Abort(Undelivered)
  /\ GiveUpLease

(* expireListener, from its timer or from expireListenerIfNeeded in a call *)
(* that then changes nothing else (status, or a handler that throws).      *)
ExpireListener ==
  /\ LeaseDue
  /\ Settle(AnswerAll(Undelivered, "unavailable"))
  /\ Abort(Undelivered)
  /\ GiveUpLease

(* Mutant: only queued requests time out. *)
TimeoutOfQueuedOnly(r) ==
  /\ status[r] = "queued" /\ ttl[r] = 0
  /\ Settle(AnswerAll({r}, "timeout"))
  /\ Abort({r})
  /\ RemoveFromQueue(r)
  /\ UNCHANGED <<listener, lease, waiting>>

(* The request timer set by submit. *)
RequestTimeout(r) ==
  /\ r \in Pending /\ ttl[r] = 0
  /\ Settle(AnswerAll({r}, "timeout"))
  /\ Abort({r})
  /\ RemoveFromQueue(r)
  /\ UNCHANGED <<listener, lease, waiting>>

(* The MCP client goes away: onAbort of submit. *)
ClientAbort(r) ==
  /\ r \in Pending
  /\ Settle(AnswerAll({r}, "cancelled"))
  /\ Abort({r})
  /\ RemoveFromQueue(r)
  /\ UNCHANGED <<listener, lease, waiting>>

(* One unit of time passes for the clocks that run. *)
Tick ==
  /\ lease > 0 \/ \E r \in Requests : ttl[r] > 0
  /\ lease' = IF lease > 0 THEN lease - 1 ELSE 0
  /\ ttl'   = [r \in Requests |-> IF ttl[r] > 0 THEN ttl[r] - 1 ELSE 0]
  /\ UNCHANGED <<submitted, tool, status, owner, executing, aborted, outcome,
                 queue, listener, waiting, history>>

-----------------------------------------------------------------------------
Poll(l) == PollTakes(l) \/ \E wait \in BOOLEAN : PollFindsNothing(l, wait)

Next ==
  \/ \E l \in Listeners : Poll(l)
  \/ PollReturnsEmpty
  \/ \E t \in Tools : Submit(t)
  \/ \E l \in Listeners, r \in Requests, response \in Responses : Respond(l, r, response)
  \/ \E l \in Listeners, r \in Requests : ApproveExecution(l, r)
  \/ \E l \in Listeners : Release(l)
  \/ Close
  \/ ExpireListener
  \/ \E r \in Requests : RequestTimeout(r)
  \/ \E r \in Requests : ClientAbort(r)
  \/ Tick

Spec == Init /\ [][Next]_vars

(* Time passes and the event loop runs the timers that are due.  Nothing   *)
(* is assumed of the windows, of their users or of the MCP clients.        *)
Fairness ==
  /\ WF_vars(Tick)
  /\ WF_vars(ExpireListener)
  /\ \A r \in Requests : WF_vars(RequestTimeout(r))

FairSpec == Spec /\ Fairness

-----------------------------------------------------------------------------
Entries == [id : Requests, status : Outcomes]

TypeOK ==
  /\ submitted \in 0..MaxRequests
  /\ tool      \in [Requests -> Tools]
  /\ status    \in [Requests -> {"unused", "queued", "delivered", "settled"}]
  /\ owner     \in [Requests -> Listeners \cup {NoListener}]
  /\ executing \in [Requests -> BOOLEAN]
  /\ ttl       \in [Requests -> 0..Timeout]
  /\ aborted   \in [Requests -> BOOLEAN]
  /\ outcome   \in [Requests -> Outcomes]
  /\ queue     \in Seq(Requests)
  /\ listener  \in Listeners \cup {NoListener}
  /\ lease     \in 0..Lease
  /\ waiting   \in Listeners \cup {NoListener}
  /\ history   \in Seq(Entries)

(* The queue holds exactly the pending requests no window has taken, each  *)
(* once: a request that was settled while it was queued (timeout, client   *)
(* abort, close, expired lease) is not handed out later, and none is       *)
(* forgotten.                                                              *)
QueueMatchesPending ==
  /\ \A r \in Requests : status[r] = "queued" <=> \E i \in 1..Len(queue) : queue[i] = r
  /\ \A i, j \in 1..Len(queue) : i # j => queue[i] # queue[j]

(* A request is never taken by a window while an older one still waits in  *)
(* the queue, although a waiting poll is handed a new request directly.    *)
DeliveredInOrder ==
  \A a, b \in Requests :
    a < b /\ owner[b] # NoListener => status[a] # "queued"

(* A poll waits only for the window that holds the lease, and only while   *)
(* nothing is queued: no wake-up is lost, and the branch of next that      *)
(* rejects "another UI poll is already waiting" is never reached.          *)
NoLostWakeup ==
  waiting # NoListener => waiting = listener /\ queue = << >>

(* Without a listener nothing is queued: expireListener and close withdraw *)
(* every request that nobody will come and take.                           *)
NothingQueuedWithoutListener ==
  listener = NoListener => \A r \in Requests : status[r] # "queued"

(* maxQueueSize bounds queued and delivered requests together. *)
PendingBounded == Cardinality(Pending) <= MaxQueueSize

(* Every retained history entry shows what happened to its request: it is  *)
(* open exactly while the request is pending and carries the outcome the   *)
(* client saw afterwards, whichever path settled the request.              *)
HistoryAgrees ==
  /\ Len(history) <= MaxHistory
  /\ \A i \in 1..Len(history) :
       /\ history[i].status = outcome[history[i].id]
       /\ status[history[i].id] # "unused"
       /\ history[i].status = "none" <=> history[i].id \in Pending

(* The signal handed to a running execution fires exactly when its request *)
(* is settled by anyone but the window that runs it.                       *)
AbortedUnlessAnswered ==
  \A r \in Requests :
    aborted[r] <=> outcome[r] \in {"timeout", "cancelled", "unavailable"}

(* What the parts above rest on: requests are numbered as submitted, a     *)
(* request has an owner from its delivery on, and its promise is settled   *)
(* when it leaves the pending map.                                         *)
Bookkeeping ==
  \A r \in Requests :
    /\ status[r] = "unused" <=> r > submitted
    /\ status[r] \in {"unused", "queued"} => owner[r] = NoListener
    /\ status[r] = "delivered" => owner[r] # NoListener
    /\ outcome[r] # "none" <=> status[r] = "settled"
    /\ executing[r] => owner[r] # NoListener

(* The queue is in the order of submission. *)
QueueSorted == \A i, j \in 1..Len(queue) : i < j => queue[i] < queue[j]

(* The inductive invariant. *)
BridgeInv ==
  /\ TypeOK
  /\ Bookkeeping
  /\ QueueSorted
  /\ QueueMatchesPending
  /\ DeliveredInOrder
  /\ NoLostWakeup
  /\ NothingQueuedWithoutListener
  /\ PendingBounded
  /\ HistoryAgrees
  /\ AbortedUnlessAnswered

(* The outcome the MCP client saw is final: no late answer, timeout,       *)
(* cancellation or shutdown settles a request a second time.               *)
AnswerIsFinal ==
  [][\A r \in Requests :
       outcome[r] # "none" => outcome'[r] = outcome[r] /\ status'[r] = status[r]]_vars

(* A request is delivered at most once and stays with that window, even    *)
(* when the window loses its lease and another one claims it; an approval  *)
(* is never taken back.                                                    *)
DeliveredOnce ==
  [][\A r \in Requests :
       owner[r] # NoListener =>
         /\ owner'[r] = owner[r]
         /\ status'[r] # "queued"
         /\ executing[r] => executing'[r]]_vars

(* The bridge implements McpPromise: leases, windows, timers and the       *)
(* history are its own business.                                           *)
Phase(s) ==
  CASE s = "unused"    -> "new"
    [] s = "queued"    -> "waiting"
    [] s = "delivered" -> "handed"
    [] s = "settled"   -> "closed"

Promise == INSTANCE McpPromise WITH
  MaxOpen  <- MaxQueueSize,
  Replies  <- Outcomes \ {"none"},
  phase    <- [r \in Requests |-> Phase(status[r])],
  reply    <- outcome,
  approved <- {r \in Requests : executing[r]}

(* The bridge keeps the promise of McpPromise: in particular an approval   *)
(* never starts SQL for a request that is settled or already approved.     *)
KeepsPromise == Promise!Spec

(* Every accepted request is answered, however windows and clients behave. *)
EveryRequestSettles ==
  \A r \in Requests : r \in Pending ~> outcome[r] # "none"

(* A window that stops polling cannot keep the lease: to hold it for good  *)
(* it must poll again and again.                                           *)
SilentListenerLosesLease ==
  \A l \in Listeners : <>[](listener = l) => []<><<Poll(l)>>_vars
=============================================================================
