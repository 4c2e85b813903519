---------------------------- MODULE BridgeProofs ----------------------------
(***************************************************************************)
(* Proofs about McpBridge for every number of windows and requests and     *)
(* every bound, timeout and lease, and about the calls that bring a        *)
(* request to the backend (RpcCalls), for every number of calls, attempts  *)
(* and breaks.                                                             *)
(***************************************************************************)
EXTENDS BridgeCalls, FiniteSetTheorems, SequenceTheorems, TLAPS

-----------------------------------------------------------------------------
(* Facts about the sequences the bridge is built from. *)

(* Removing one element of the queue keeps a sequence, shorter by one. *)
LEMMA WithoutIndexType ==
  ASSUME NEW S, NEW q \in Seq(S), NEW i \in 1..Len(q)
  PROVE  /\ WithoutIndex(q, i) \in Seq(S)
         /\ Len(WithoutIndex(q, i)) = Len(q) - 1
         /\ \A j \in 1..(Len(q) - 1) :
              WithoutIndex(q, i)[j] = IF j < i THEN q[j] ELSE q[j + 1]
<1>1. Len(q) - 1 \in Nat
  OBVIOUS
<1>2. \A j \in 1..(Len(q) - 1) : (IF j < i THEN q[j] ELSE q[j + 1]) \in S
  OBVIOUS
<1>3. WithoutIndex(q, i) \in [1..(Len(q) - 1) -> S]
  BY <1>2 DEF WithoutIndex
<1>4. WithoutIndex(q, i) \in Seq(S)
  BY <1>1, <1>3
<1>5. Len(WithoutIndex(q, i)) = Len(q) - 1
  BY <1>1, <1>3, <1>4
<1> QED
  BY <1>4, <1>5 DEF WithoutIndex

(* settleHistory rewrites entries in place: none is added or lost. *)
LEMMA SettleHistoryType ==
  ASSUME NEW h \in Seq(Entries), NEW ans \in [Requests -> Outcomes]
  PROVE  /\ SettleHistory(h, ans) \in Seq(Entries)
         /\ Len(SettleHistory(h, ans)) = Len(h)
         /\ \A i \in 1..Len(h) :
              SettleHistory(h, ans)[i] =
                IF ans[h[i].id] # "none" THEN [id |-> h[i].id, status |-> ans[h[i].id]]
                                         ELSE h[i]
<1>1. \A i \in 1..Len(h) : h[i] \in Entries
  OBVIOUS
<1>2. SettleHistory(h, ans) \in [1..Len(h) -> Entries]
  BY <1>1 DEF SettleHistory, Entries
<1>3. SettleHistory(h, ans) \in Seq(Entries)
  BY <1>2
<1>4. Len(SettleHistory(h, ans)) = Len(h)
  BY <1>2, <1>3
<1> QED
  BY <1>3, <1>4 DEF SettleHistory

(* What a settling step leaves well typed. *)
LEMMA SettleType ==
  ASSUME TypeOK, NEW ans \in [Requests -> Outcomes], Settle(ans)
  PROVE  /\ submitted' \in 0..MaxRequests
         /\ tool'      \in [Requests -> Tools]
         /\ status'    \in [Requests -> {"unused", "queued", "delivered", "settled"}]
         /\ owner'     \in [Requests -> Listeners \cup {NoListener}]
         /\ executing' \in [Requests -> BOOLEAN]
         /\ ttl'       \in [Requests -> 0..Timeout]
         /\ outcome'   \in [Requests -> Outcomes]
         /\ history'   \in Seq(Entries)
<1>1. history \in Seq(Entries)
  BY DEF TypeOK
<1>2. history' \in Seq(Entries)
  BY <1>1, SettleHistoryType DEF Settle
<1>3. ttl' \in [Requests -> 0..Timeout]
  BY BridgeAssumption DEF TypeOK, Settle
<1> QED
  BY <1>2, <1>3 DEF TypeOK, Settle

LEMMA AnswerAllType ==
  ASSUME NEW S, NEW o \in Outcomes
  PROVE  AnswerAll(S, o) \in [Requests -> Outcomes]
BY DEF AnswerAll, Outcomes

LEMMA AbortType ==
  ASSUME TypeOK, NEW S, Abort(S)
  PROVE  aborted' \in [Requests -> BOOLEAN]
BY DEF TypeOK, Abort

LEMMA GiveUpLeaseType ==
  ASSUME GiveUpLease
  PROVE  /\ queue' \in Seq(Requests)
         /\ listener' \in Listeners \cup {NoListener}
         /\ lease' \in 0..Lease
         /\ waiting' \in Listeners \cup {NoListener}
BY BridgeAssumption DEF GiveUpLease

LEMMA RemoveFromQueueType ==
  ASSUME TypeOK, NEW r, RemoveFromQueue(r)
  PROVE  queue' \in Seq(Requests)
<1>1. queue \in Seq(Requests)
  BY DEF TypeOK
<1>2. CASE queue' = queue
  BY <1>1, <1>2
<1>3. CASE \E i \in 1..Len(queue) : queue' = WithoutIndex(queue, i)
  BY <1>1, <1>3, WithoutIndexType
<1> QED
  BY <1>2, <1>3 DEF RemoveFromQueue

(* recordHistory appends one entry and evicts at most one. *)
LEMMA RecordHistoryType ==
  ASSUME NEW h \in Seq(Entries), NEW e \in Entries
  PROVE  Append(h, e) \in Seq(Entries) /\ Tail(Append(h, e)) \in Seq(Entries)
<1>1. Append(h, e) \in Seq(Entries) /\ Append(h, e) # << >>
  BY AppendProperties
<1> QED
  BY <1>1

-----------------------------------------------------------------------------
(* Type correctness. *)

LEMMA InitType == Init => TypeOK
<1> SUFFICES ASSUME Init PROVE TypeOK
  OBVIOUS
<1> QED
  BY BridgeAssumption DEF Init, TypeOK, Tools, Outcomes, Entries, Requests

LEMMA NextType == TypeOK /\ [Next]_vars => TypeOK'
<1> SUFFICES ASSUME TypeOK, [Next]_vars
             PROVE  TypeOK'
  OBVIOUS
<1> USE BridgeAssumption
<1>1. ASSUME NEW l \in Listeners, PollTakes(l)
      PROVE  TypeOK'
  <2>1. Head(queue) \in Requests /\ queue' \in Seq(Requests)
    BY <1>1 DEF PollTakes, TypeOK, Shift
  <2> QED
    BY <1>1, <2>1 DEF PollTakes, TypeOK, Claim
<1>2. ASSUME NEW l \in Listeners, NEW wait \in BOOLEAN, PollFindsNothing(l, wait)
      PROVE  TypeOK'
  <2>1. AnswerAll(Dropped, "unavailable") \in [Requests -> Outcomes]
    BY AnswerAllType DEF Outcomes
  <2>2. Settle(AnswerAll(Dropped, "unavailable")) /\ Abort(Dropped)
    BY <1>2 DEF PollFindsNothing
  <2>3. /\ queue' \in Seq(Requests) /\ listener' \in Listeners
        /\ lease' \in 0..Lease /\ waiting' \in Listeners \cup {NoListener}
    BY <1>2 DEF PollFindsNothing, Claim
  <2> QED
    BY <2>1, <2>2, <2>3, SettleType, AbortType DEF TypeOK
<1>3. ASSUME PollReturnsEmpty
      PROVE  TypeOK'
  BY <1>3 DEF PollReturnsEmpty, TypeOK, reqVars
<1>4. ASSUME NEW t \in Tools, Submit(t)
      PROVE  TypeOK'
  <2>1. submitted + 1 \in Requests /\ submitted' \in 0..MaxRequests
    BY <1>4 DEF Submit, TypeOK, Requests
  <2>2. history' \in Seq(Entries)
    <3> DEFINE e == [id |-> submitted + 1, status |-> "none"]
    <3>1. e \in Entries /\ history \in Seq(Entries)
      BY <2>1 DEF TypeOK, Entries, Outcomes
    <3>2. history' = Append(history, e) \/ history' = Tail(Append(history, e))
      BY <1>4 DEF Submit, RecordHistory
    <3> HIDE DEF e
    <3> QED
      BY <3>1, <3>2, RecordHistoryType
  <2>3. queue' \in Seq(Requests)
    <3>1. queue' = queue \/ queue' = Append(queue, submitted + 1)
      BY <1>4 DEF Submit, Enqueue
    <3>2. queue \in Seq(Requests)
      BY DEF TypeOK
    <3> QED
      BY <2>1, <3>1, <3>2, AppendProperties
  <2>4. /\ tool' \in [Requests -> Tools] /\ ttl' \in [Requests -> 0..Timeout]
        /\ UNCHANGED <<executing, aborted, outcome, listener, lease>>
    BY <1>4, <2>1 DEF Submit, TypeOK
  <2>5. /\ status' \in [Requests -> {"unused", "queued", "delivered", "settled"}]
        /\ owner' \in [Requests -> Listeners \cup {NoListener}]
        /\ waiting' \in Listeners \cup {NoListener}
    BY <1>4, <2>1 DEF Submit, TypeOK
  <2> QED
    BY <2>1, <2>2, <2>3, <2>4, <2>5 DEF TypeOK
<1>5. ASSUME NEW l \in Listeners, NEW r \in Requests, NEW response \in Responses,
             Respond(l, r, response)
      PROVE  TypeOK'
  <2> DEFINE ans == [AnswerAll(Dropped, "unavailable") EXCEPT ![r] = OutcomeOf(response)]
  <2>1. ans \in [Requests -> Outcomes]
    <3>1. AnswerAll(Dropped, "unavailable") \in [Requests -> Outcomes]
      BY AnswerAllType DEF Outcomes
    <3>2. OutcomeOf(response) \in Outcomes
      BY DEF OutcomeOf, Responses, Outcomes
    <3> QED
      BY <3>1, <3>2
  <2>2. Settle(ans) /\ Abort(Dropped)
    BY <1>5 DEF Respond
  <2>3. /\ queue' \in Seq(Requests) /\ listener' \in Listeners \cup {NoListener}
        /\ lease' \in 0..Lease /\ waiting' \in Listeners \cup {NoListener}
    BY <1>5, GiveUpLeaseType DEF Respond, TypeOK
  <2> HIDE DEF ans
  <2> QED
    BY <2>1, <2>2, <2>3, SettleType, AbortType DEF TypeOK
<1>6. ASSUME NEW l \in Listeners, NEW r \in Requests, ApproveExecution(l, r)
      PROVE  TypeOK'
  BY <1>6 DEF ApproveExecution, TypeOK
<1>7. ASSUME Close
      PROVE  TypeOK'
  <2>1. AnswerAll(Pending, "unavailable") \in [Requests -> Outcomes]
    BY AnswerAllType DEF Outcomes
  <2> QED
    BY <1>7, <2>1, SettleType, AbortType, GiveUpLeaseType DEF Close, TypeOK
<1>8. ASSUME ExpireListener
      PROVE  TypeOK'
  <2>1. AnswerAll(Undelivered, "unavailable") \in [Requests -> Outcomes]
    BY AnswerAllType DEF Outcomes
  <2> QED
    BY <1>8, <2>1, SettleType, AbortType, GiveUpLeaseType DEF ExpireListener, TypeOK
<1>9. ASSUME NEW r \in Requests, RequestTimeout(r)
      PROVE  TypeOK'
  <2>1. AnswerAll({r}, "timeout") \in [Requests -> Outcomes]
    BY AnswerAllType DEF Outcomes
  <2> QED
    BY <1>9, <2>1, SettleType, AbortType, RemoveFromQueueType DEF RequestTimeout, TypeOK
<1>10. ASSUME NEW r \in Requests, ClientAbort(r)
       PROVE  TypeOK'
  <2>1. AnswerAll({r}, "cancelled") \in [Requests -> Outcomes]
    BY AnswerAllType DEF Outcomes
  <2> QED
    BY <1>10, <2>1, SettleType, AbortType, RemoveFromQueueType DEF ClientAbort, TypeOK
<1>11. ASSUME Tick
       PROVE  TypeOK'
  BY <1>11 DEF Tick, TypeOK
<1>12. ASSUME UNCHANGED vars
       PROVE  TypeOK'
  BY <1>12 DEF TypeOK, vars, reqVars
<1> QED
  BY <1>1, <1>2, <1>3, <1>4, <1>5, <1>6, <1>7, <1>8, <1>9, <1>10, <1>11, <1>12
     DEF Next, Poll, Release

(* The variables of the bridge keep their types, whatever the bounds. *)
THEOREM TypeCorrect == Spec => []TypeOK
<1> QED
  BY InitType, NextType, PTL DEF Spec

-----------------------------------------------------------------------------
(* The inductive invariant. *)

(* Requests leave the pending map, they never enter it: fewer are pending. *)
LEMMA FewerPending ==
  ASSUME PendingBounded, BridgeAssumption, Pending' \subseteq Pending
  PROVE  PendingBounded'
<1>1. IsFiniteSet(Requests)
  BY BridgeAssumption, FS_Interval DEF Requests
<1>2. Pending \in SUBSET Requests /\ Pending' \in SUBSET Pending
  BY DEF Pending
<1>3. IsFiniteSet(Pending)
  BY <1>1, <1>2, FS_Subset
<1>4. Cardinality(Pending') <= Cardinality(Pending)
  BY <1>2, <1>3, FS_Subset
<1>5. Cardinality(Pending) \in Nat /\ Cardinality(Pending') \in Nat
  BY <1>2, <1>3, FS_Subset, FS_CardinalityType
<1> QED
  BY <1>4, <1>5, BridgeAssumption DEF PendingBounded

Withdrawals == {"timeout", "cancelled", "unavailable"}

(* A step that settles pending requests, and aborts exactly those it       *)
(* withdraws, keeps every part of the invariant that is not about the      *)
(* queue or the lease.                                                     *)
LEMMA SettleKeeps ==
  ASSUME BridgeInv,
         NEW ans \in [Requests -> Outcomes], NEW S,
         \A r \in Requests : ans[r] # "none" => r \in Pending,
         \A r \in Requests : r \in S <=> ans[r] \in Withdrawals,
         Settle(ans), Abort(S)
  PROVE  /\ Bookkeeping'
         /\ DeliveredInOrder'
         /\ PendingBounded'
         /\ HistoryAgrees'
         /\ AbortedUnlessAnswered'
<1>1. TypeOK /\ Bookkeeping
  BY DEF BridgeInv
<1>2. Bookkeeping'
  BY <1>1 DEF Bookkeeping, Settle, TypeOK, Pending
<1>3. \A r \in Requests : status'[r] \in {status[r], "settled"}
  BY <1>1 DEF Settle, TypeOK
<1>4. DeliveredInOrder'
  BY <1>3 DEF BridgeInv, DeliveredInOrder, Settle
<1>5. PendingBounded'
  <2>1. Pending' \subseteq Pending
    BY <1>3 DEF Pending
  <2> QED
    BY <2>1, FewerPending, BridgeAssumption DEF BridgeInv
<1>6. HistoryAgrees'
  <2>1. history \in Seq(Entries)
    BY <1>1 DEF TypeOK
  <2>2. history' = SettleHistory(history, ans)
    BY DEF Settle
  <2>3. /\ Len(history') = Len(history)
        /\ \A i \in 1..Len(history) :
             history'[i] = IF ans[history[i].id] # "none"
                             THEN [id |-> history[i].id, status |-> ans[history[i].id]]
                             ELSE history[i]
    BY <2>1, <2>2, SettleHistoryType
  <2>4. Len(history') <= MaxHistory
    BY <2>3 DEF BridgeInv, HistoryAgrees
  <2>5. ASSUME NEW i \in 1..Len(history')
        PROVE  /\ history'[i].status = outcome'[history'[i].id]
               /\ status'[history'[i].id] # "unused"
               /\ history'[i].status = "none" <=> history'[i].id \in Pending'
    <3>1. i \in 1..Len(history) /\ history[i] \in Entries /\ history[i].id \in Requests
      <4>1. Len(history') = Len(history)
        BY <2>3
      <4>2. i \in 1..Len(history)
        BY <4>1
      <4>3. history[i] \in Entries
        BY <2>1, <4>2
      <4> QED
        BY <4>2, <4>3 DEF Entries
    <3>2. /\ history[i].status = outcome[history[i].id]
          /\ status[history[i].id] # "unused"
          /\ history[i].status = "none" <=> history[i].id \in Pending
      BY <3>1 DEF BridgeInv, HistoryAgrees
    <3>3. history'[i] = IF ans[history[i].id] # "none"
                          THEN [id |-> history[i].id, status |-> ans[history[i].id]]
                          ELSE history[i]
      BY <2>3, <3>1
    <3>4. CASE ans[history[i].id] # "none"
      <4>1. history'[i] = [id |-> history[i].id, status |-> ans[history[i].id]]
        BY <3>3, <3>4
      <4>2. history'[i].id = history[i].id /\ history'[i].status = ans[history[i].id]
        BY <4>1
      <4>3. /\ outcome'[history[i].id] = ans[history[i].id]
            /\ status'[history[i].id] = "settled"
        BY <3>1, <3>4 DEF Settle
      <4> QED
        BY <3>4, <4>2, <4>3 DEF Pending
    <3>5. CASE ans[history[i].id] = "none"
      <4>1. history'[i] = history[i]
        BY <3>3, <3>5
      <4>2. /\ outcome'[history[i].id] = outcome[history[i].id]
            /\ status'[history[i].id] = status[history[i].id]
        BY <3>1, <3>5 DEF Settle
      <4> QED
        BY <3>1, <3>2, <4>1, <4>2 DEF Pending
    <3> QED
      BY <3>4, <3>5
  <2> QED
    BY <2>4, <2>5 DEF HistoryAgrees
<1>7. AbortedUnlessAnswered'
  <2>1. ASSUME NEW r \in Requests
        PROVE  aborted'[r] <=> outcome'[r] \in Withdrawals
    <3>1. aborted[r] <=> outcome[r] \in Withdrawals
      BY DEF BridgeInv, AbortedUnlessAnswered, Withdrawals
    <3>2. aborted'[r] <=> (aborted[r] \/ r \in S)
      BY DEF Abort
    <3>3. outcome'[r] = IF ans[r] # "none" THEN ans[r] ELSE outcome[r]
      BY DEF Settle
    <3>4. CASE ans[r] # "none"
      <4>1. outcome[r] = "none"
        BY <1>1, <3>4 DEF Bookkeeping, Pending
      <4> QED
        BY <3>1, <3>2, <3>3, <3>4, <4>1 DEF Withdrawals
    <3>5. CASE ans[r] = "none"
      BY <3>1, <3>2, <3>3, <3>5 DEF Withdrawals
    <3> QED
      BY <3>4, <3>5
  <2> QED
    BY <2>1 DEF AbortedUnlessAnswered, Withdrawals
<1> QED
  BY <1>2, <1>4, <1>5, <1>6, <1>7

(* A queue that is emptied when nothing is queued any more. *)
LEMMA EmptiedQueue ==
  ASSUME queue' = << >>, \A r \in Requests : status'[r] # "queued"
  PROVE  QueueMatchesPending' /\ QueueSorted'
BY DEF QueueMatchesPending, QueueSorted

(* A queue from which the one settled request is spliced out. *)
LEMMA SplicedQueue ==
  ASSUME BridgeInv, NEW r \in Requests, RemoveFromQueue(r),
         status' = [x \in Requests |-> IF x = r THEN "settled" ELSE status[x]]
  PROVE  QueueMatchesPending' /\ QueueSorted'
<1>1. /\ queue \in Seq(Requests)
      /\ QueueSorted
      /\ \A x \in Requests : status[x] = "queued" <=> \E i \in 1..Len(queue) : queue[i] = x
  BY DEF BridgeInv, TypeOK, QueueMatchesPending
<1>2. \A x \in Requests : status'[x] = "queued" <=> status[x] = "queued" /\ x # r
  OBVIOUS
<1>3. CASE queue' = queue /\ \A i \in 1..Len(queue) : queue[i] # r
  <2>1. QueueSorted'
    BY <1>1, <1>3 DEF QueueSorted
  <2>2. \A x \in Requests : status'[x] = "queued" <=> \E i \in 1..Len(queue') : queue'[i] = x
    BY <1>1, <1>2, <1>3
  <2>3. \A i, j \in 1..Len(queue') : i # j => queue'[i] # queue'[j]
    BY <1>1, <1>3 DEF BridgeInv, QueueMatchesPending
  <2> QED
    BY <2>1, <2>2, <2>3 DEF QueueMatchesPending
<1>4. ASSUME NEW k \in 1..Len(queue), queue[k] = r, queue' = WithoutIndex(queue, k)
      PROVE  QueueMatchesPending' /\ QueueSorted'
  <2>1. /\ queue' \in Seq(Requests)
        /\ Len(queue') = Len(queue) - 1
        /\ \A j \in 1..(Len(queue) - 1) :
             queue'[j] = IF j < k THEN queue[j] ELSE queue[j + 1]
    BY <1>1, <1>4, WithoutIndexType
  <2>2. \A i \in 1..Len(queue) : queue[i] \in Nat
    BY <1>1, BridgeAssumption DEF Requests
  <2>3. QueueSorted'
    <3> SUFFICES ASSUME NEW i \in 1..Len(queue'), NEW j \in 1..Len(queue'), i < j
                 PROVE  queue'[i] < queue'[j]
      BY DEF QueueSorted
    <3>1. PICK a \in 1..Len(queue), b \in 1..Len(queue) :
            a < b /\ queue'[i] = queue[a] /\ queue'[j] = queue[b]
      <4>1. Len(queue) \in Nat /\ i \in 1..(Len(queue) - 1) /\ j \in 1..(Len(queue) - 1)
        BY <1>1, <2>1
      <4>2. CASE j < k
        <5>1. i < k /\ i \in 1..Len(queue) /\ j \in 1..Len(queue)
          BY <4>1, <4>2
        <5>2. queue'[i] = queue[i] /\ queue'[j] = queue[j]
          BY <2>1, <4>1, <4>2, <5>1
        <5> QED
          BY <5>1, <5>2
      <4>3. CASE i < k /\ ~(j < k)
        <5>1. i < j + 1 /\ i \in 1..Len(queue) /\ j + 1 \in 1..Len(queue)
          BY <4>1
        <5>2. queue'[i] = queue[i] /\ queue'[j] = queue[j + 1]
          BY <2>1, <4>1, <4>3
        <5> QED
          BY <5>1, <5>2
      <4>4. CASE ~(i < k)
        <5>1. ~(j < k) /\ i + 1 < j + 1 /\ i + 1 \in 1..Len(queue) /\ j + 1 \in 1..Len(queue)
          BY <4>1, <4>4
        <5>2. queue'[i] = queue[i + 1] /\ queue'[j] = queue[j + 1]
          BY <2>1, <4>1, <4>4, <5>1
        <5> QED
          BY <5>1, <5>2
      <4> QED
        BY <4>2, <4>3, <4>4
    <3> QED
      BY <1>1, <3>1 DEF QueueSorted
  <2>4. \A i, j \in 1..Len(queue') : i # j => queue'[i] # queue'[j]
    <3> SUFFICES ASSUME NEW i \in 1..Len(queue'), NEW j \in 1..Len(queue'), i # j
                 PROVE  queue'[i] # queue'[j]
      OBVIOUS
    <3>1. i \in Nat /\ j \in Nat /\ queue'[i] \in Nat /\ queue'[j] \in Nat
      BY SMTT(40), <2>1, BridgeAssumption DEF Requests
    <3>2. i < j \/ j < i
      BY <3>1
    <3> QED
      BY <2>3, <3>1, <3>2 DEF QueueSorted
  <2>5. \A i \in 1..Len(queue) : i # k => queue[i] # r
    BY <1>4 DEF BridgeInv, QueueMatchesPending
  <2>6. ASSUME NEW x \in Requests
        PROVE  status'[x] = "queued" <=> \E i \in 1..Len(queue') : queue'[i] = x
    <3>1. ASSUME status'[x] = "queued"
          PROVE  \E i \in 1..Len(queue') : queue'[i] = x
      <4>1. PICK i \in 1..Len(queue) : queue[i] = x
        BY <1>1, <1>2, <3>1
      <4>2. i # k
        BY <1>2, <1>4, <3>1, <4>1
      <4>3. CASE i < k
        <5>1. i \in 1..(Len(queue) - 1) /\ queue'[i] = x
          BY <1>1, <2>1, <4>1, <4>3
        <5> QED
          BY <2>1, <5>1
      <4>4. CASE i > k
        <5>1. i - 1 \in 1..(Len(queue) - 1) /\ ~(i - 1 < k)
          BY <1>1, <4>4
        <5>2. queue'[i - 1] = queue[(i - 1) + 1]
          BY <2>1, <5>1
        <5>3. queue'[i - 1] = x
          BY <4>1, <5>2
        <5> QED
          BY <2>1, <5>1, <5>3
      <4> QED
        BY <4>2, <4>3, <4>4
    <3>2. ASSUME NEW i \in 1..Len(queue'), queue'[i] = x
          PROVE  status'[x] = "queued"
      <4>1. PICK n \in 1..Len(queue) : n # k /\ queue[n] = x
        <5>1. CASE i < k
          BY <1>1, <2>1, <3>2, <5>1
        <5>2. CASE ~(i < k)
          <6>1. i + 1 \in 1..Len(queue) /\ i + 1 # k /\ queue[i + 1] = x
            BY <1>1, <2>1, <3>2, <5>2
          <6> QED
            BY <6>1
        <5> QED
          BY <5>1, <5>2
      <4> QED
        BY <1>1, <1>2, <2>5, <4>1
    <3> QED
      BY <3>1, <3>2
  <2> QED
    BY <2>3, <2>4, <2>6 DEF QueueMatchesPending
<1> QED
  BY <1>3, <1>4 DEF RemoveFromQueue

(* One lemma per action.  TypeOK' is NextType's business. *)

(* A step that withdraws every queued request together with the lease. *)
LEMMA WithdrawalKeeps ==
  ASSUME BridgeInv, TypeOK', NEW S,
         S \subseteq Pending, \A r \in Requests : status[r] = "queued" => r \in S,
         Settle(AnswerAll(S, "unavailable")), Abort(S), GiveUpLease
  PROVE  BridgeInv'
<1> DEFINE ans == AnswerAll(S, "unavailable")
<1>1. ans \in [Requests -> Outcomes]
  BY AnswerAllType DEF Outcomes
<1>2. \A r \in Requests : ans[r] = IF r \in S THEN "unavailable" ELSE "none"
  BY DEF AnswerAll
<1>3. /\ \A r \in Requests : ans[r] # "none" => r \in Pending
      /\ \A r \in Requests : r \in S <=> ans[r] \in Withdrawals
  BY <1>2 DEF Withdrawals
<1>4. \A r \in Requests : status'[r] # "queued"
  BY <1>2 DEF Settle
<1>5. /\ Bookkeeping' /\ DeliveredInOrder' /\ PendingBounded'
      /\ HistoryAgrees' /\ AbortedUnlessAnswered'
  <2> HIDE DEF ans
  <2>1. Settle(ans)
    BY DEF ans
  <2> QED
    BY <1>1, <1>3, <2>1, SettleKeeps
<1>6. QueueMatchesPending' /\ QueueSorted'
  BY <1>4, EmptiedQueue DEF GiveUpLease
<1>7. NoLostWakeup' /\ NothingQueuedWithoutListener'
  BY <1>4 DEF GiveUpLease, NoLostWakeup, NothingQueuedWithoutListener
<1> QED
  BY <1>5, <1>6, <1>7 DEF BridgeInv

LEMMA CloseInv ==
  ASSUME BridgeInv, TypeOK', Close
  PROVE  BridgeInv'
<1>1. \A r \in Requests : status[r] = "queued" => r \in Pending
  BY DEF Pending
<1> QED
  BY <1>1, WithdrawalKeeps DEF Close

LEMMA ExpireListenerInv ==
  ASSUME BridgeInv, TypeOK', ExpireListener
  PROVE  BridgeInv'
<1>1. Undelivered \subseteq Pending
  BY DEF Undelivered, Pending
<1>2. \A r \in Requests : status[r] = "queued" => r \in Undelivered
  BY DEF Undelivered
<1> QED
  BY <1>1, <1>2, WithdrawalKeeps DEF ExpireListener

(* A step that settles the one request r without an answer of its window. *)
LEMMA DropOneKeeps ==
  ASSUME BridgeInv, TypeOK', NEW r \in Pending, NEW o \in {"timeout", "cancelled"},
         Settle(AnswerAll({r}, o)), Abort({r}), RemoveFromQueue(r),
         UNCHANGED <<listener, lease, waiting>>
  PROVE  BridgeInv'
<1> DEFINE ans == AnswerAll({r}, o)
<1>1. ans \in [Requests -> Outcomes]
  BY AnswerAllType DEF Outcomes
<1>2. \A x \in Requests : ans[x] = IF x = r THEN o ELSE "none"
  BY DEF AnswerAll
<1>3. /\ \A x \in Requests : ans[x] # "none" => x \in Pending
      /\ \A x \in Requests : x \in {r} <=> ans[x] \in Withdrawals
  BY <1>2 DEF Withdrawals
<1>4. /\ Bookkeeping' /\ DeliveredInOrder' /\ PendingBounded'
      /\ HistoryAgrees' /\ AbortedUnlessAnswered'
  <2> HIDE DEF ans
  <2>1. Settle(ans)
    BY DEF ans
  <2> QED
    BY <1>1, <1>3, <2>1, SettleKeeps
<1>5. QueueMatchesPending' /\ QueueSorted'
  <2>1. status' = [x \in Requests |-> IF x = r THEN "settled" ELSE status[x]]
    BY <1>2 DEF Settle
  <2>2. r \in Requests
    BY DEF Pending
  <2> QED
    BY <2>1, <2>2, SplicedQueue
<1>6. \A x \in Requests : status'[x] = "queued" => status[x] = "queued"
  BY <1>2 DEF Settle
<1>7. NothingQueuedWithoutListener'
  BY <1>6 DEF BridgeInv, NothingQueuedWithoutListener
<1>8. NoLostWakeup'
  <2>1. SUFFICES ASSUME waiting # NoListener
                 PROVE  queue' = << >>
    BY DEF BridgeInv, NoLostWakeup
  <2>2. queue = << >>
    BY <2>1 DEF BridgeInv, NoLostWakeup
  <2> QED
    BY <2>2 DEF RemoveFromQueue
<1> QED
  BY <1>4, <1>5, <1>7, <1>8 DEF BridgeInv

LEMMA RequestTimeoutInv ==
  ASSUME BridgeInv, TypeOK', NEW r \in Requests, RequestTimeout(r)
  PROVE  BridgeInv'
BY DropOneKeeps DEF RequestTimeout

LEMMA ClientAbortInv ==
  ASSUME BridgeInv, TypeOK', NEW r \in Requests, ClientAbort(r)
  PROVE  BridgeInv'
BY DropOneKeeps DEF ClientAbort

LEMMA RespondInv ==
  ASSUME BridgeInv, TypeOK', NEW l \in Listeners, NEW r \in Requests,
         NEW response \in Responses, Respond(l, r, response)
  PROVE  BridgeInv'
<1> DEFINE ans == [AnswerAll(Dropped, "unavailable") EXCEPT ![r] = OutcomeOf(response)]
<1>1. OutcomeOf(response) \in {"completed", "rejected", "invalid", "failed"}
  BY DEF OutcomeOf, Responses
<1>2. r \notin Dropped
  BY DEF Respond, Dropped, Undelivered
<1>3. \A x \in Requests : ans[x] = IF x = r THEN OutcomeOf(response)
                                   ELSE IF x \in Dropped THEN "unavailable" ELSE "none"
  BY DEF AnswerAll
<1>4. ans \in [Requests -> Outcomes]
  BY <1>1, AnswerAllType DEF Outcomes
<1>5. \A x \in Requests : ans[x] # "none" => x \in Pending
  BY <1>3 DEF Respond, Pending, Dropped, Undelivered
<1>6. \A x \in Requests : x \in Dropped <=> ans[x] \in Withdrawals
  BY <1>1, <1>2, <1>3 DEF Withdrawals
<1>7. /\ Bookkeeping' /\ DeliveredInOrder' /\ PendingBounded'
      /\ HistoryAgrees' /\ AbortedUnlessAnswered'
  <2>1. Settle(ans) /\ Abort(Dropped)
    BY DEF Respond
  <2> HIDE DEF ans
  <2> QED
    BY <1>4, <1>5, <1>6, <2>1, SettleKeeps
<1>8. CASE LeaseDue
  <2>1. GiveUpLease
    BY <1>8 DEF Respond
  <2>2. \A x \in Requests : status'[x] # "queued"
    BY <1>1, <1>3, <1>8 DEF Respond, Settle, Dropped, Undelivered
  <2>3. QueueMatchesPending' /\ QueueSorted'
    BY <2>1, <2>2, EmptiedQueue DEF GiveUpLease
  <2> QED
    BY <1>7, <2>1, <2>2, <2>3
       DEF BridgeInv, GiveUpLease, NoLostWakeup, NothingQueuedWithoutListener
<1>9. CASE ~LeaseDue
  <2>1. UNCHANGED <<queue, listener, lease, waiting>>
    BY <1>9 DEF Respond
  <2>2. \A x \in Requests : status'[x] = IF x = r THEN "settled" ELSE status[x]
    BY <1>1, <1>3, <1>9 DEF Respond, Settle, Dropped
  <2>3. status[r] = "delivered"
    BY DEF Respond
  <2>4. \A x \in Requests : status'[x] = "queued" <=> status[x] = "queued"
    BY <2>2, <2>3
  <2>5. QueueMatchesPending' /\ QueueSorted'
    BY <2>1, <2>4 DEF BridgeInv, QueueMatchesPending, QueueSorted
  <2>6. NoLostWakeup' /\ NothingQueuedWithoutListener'
    BY <2>1, <2>4 DEF BridgeInv, NoLostWakeup, NothingQueuedWithoutListener
  <2> QED
    BY <1>7, <2>5, <2>6 DEF BridgeInv
<1> QED
  BY <1>8, <1>9

LEMMA PollFindsNothingInv ==
  ASSUME BridgeInv, TypeOK', NEW l \in Listeners, NEW wait \in BOOLEAN,
         PollFindsNothing(l, wait)
  PROVE  BridgeInv'
<1> DEFINE ans == AnswerAll(Dropped, "unavailable")
<1>1. ans \in [Requests -> Outcomes]
  BY AnswerAllType DEF Outcomes
<1>2. \A r \in Requests : ans[r] = IF r \in Dropped THEN "unavailable" ELSE "none"
  BY DEF AnswerAll
<1>3. /\ \A r \in Requests : ans[r] # "none" => r \in Pending
      /\ \A r \in Requests : r \in Dropped <=> ans[r] \in Withdrawals
  BY <1>2 DEF Withdrawals, Dropped, Undelivered, Pending
<1>4. /\ Bookkeeping' /\ DeliveredInOrder' /\ PendingBounded'
      /\ HistoryAgrees' /\ AbortedUnlessAnswered'
  <2>1. Settle(ans) /\ Abort(Dropped)
    BY DEF PollFindsNothing
  <2> HIDE DEF ans
  <2> QED
    BY <1>1, <1>3, <2>1, SettleKeeps
<1>5. \A r \in Requests : status'[r] # "queued"
  <2>1. CASE LeaseDue
    BY <1>2, <2>1 DEF PollFindsNothing, Settle, Dropped, Undelivered
  <2>2. CASE ~LeaseDue
    <3>1. queue = << >>
      BY <2>2 DEF PollFindsNothing
    <3>2. \A r \in Requests : status[r] # "queued"
      BY <3>1 DEF BridgeInv, QueueMatchesPending
    <3> QED
      BY <1>2, <3>2 DEF PollFindsNothing, Settle
  <2> QED
    BY <2>1, <2>2
<1>6. queue' = << >> /\ listener' = l /\ waiting' \in {l, NoListener}
  BY DEF PollFindsNothing, Claim
<1>7. QueueMatchesPending' /\ QueueSorted'
  BY <1>5, <1>6, EmptiedQueue
<1> QED
  BY <1>4, <1>5, <1>6, <1>7 DEF BridgeInv, NoLostWakeup, NothingQueuedWithoutListener

(* A step that leaves the requests alone, apart from their clocks. *)
LEMMA RequestsUntouched ==
  ASSUME BridgeInv, TypeOK',
         UNCHANGED <<submitted, tool, status, owner, aborted, outcome, queue, listener, history>>,
         \A r \in Requests : executing'[r] => executing[r] \/ owner[r] # NoListener,
         waiting' \in {waiting, NoListener}
  PROVE  BridgeInv'
<1>1. Bookkeeping' /\ DeliveredInOrder' /\ AbortedUnlessAnswered'
  BY DEF BridgeInv, Bookkeeping, DeliveredInOrder, AbortedUnlessAnswered
<1>2. Pending' = Pending
  BY DEF Pending
<1>3. PendingBounded' /\ HistoryAgrees'
  BY <1>2 DEF BridgeInv, PendingBounded, HistoryAgrees
<1>4. QueueMatchesPending' /\ QueueSorted'
  BY DEF BridgeInv, QueueMatchesPending, QueueSorted
<1>5. NoLostWakeup' /\ NothingQueuedWithoutListener'
  BY DEF BridgeInv, NoLostWakeup, NothingQueuedWithoutListener
<1> QED
  BY <1>1, <1>3, <1>4, <1>5 DEF BridgeInv

LEMMA PollReturnsEmptyInv ==
  ASSUME BridgeInv, TypeOK', PollReturnsEmpty
  PROVE  BridgeInv'
BY RequestsUntouched DEF PollReturnsEmpty, reqVars

LEMMA ApproveExecutionInv ==
  ASSUME BridgeInv, TypeOK', NEW l \in Listeners, NEW r \in Requests, ApproveExecution(l, r)
  PROVE  BridgeInv'
<1>1. \A x \in Requests : executing'[x] => executing[x] \/ owner[x] # NoListener
  BY DEF BridgeInv, Bookkeeping, ApproveExecution
<1>2. waiting' = waiting
  BY DEF ApproveExecution
<1> QED
  BY <1>1, <1>2, RequestsUntouched DEF ApproveExecution

LEMMA TickInv ==
  ASSUME BridgeInv, TypeOK', Tick
  PROVE  BridgeInv'
BY RequestsUntouched DEF Tick

(* Only the head leaves the queue, and it is the oldest request in it. *)
LEMMA PollTakesInv ==
  ASSUME BridgeInv, TypeOK', NEW l \in Listeners, PollTakes(l)
  PROVE  BridgeInv'
<1>1. PICK h \in Requests : h = Head(queue)
  BY DEF PollTakes, BridgeInv, TypeOK
<1>2. /\ status' = [status EXCEPT ![h] = "delivered"]
      /\ owner' = [owner EXCEPT ![h] = l]
      /\ UNCHANGED <<submitted, executing, aborted, outcome, history>>
      /\ listener' = l /\ waiting' = NoListener /\ queue' = Tail(queue)
  BY <1>1 DEF PollTakes, Claim, Shift
<1>3. /\ queue \in Seq(Requests) /\ queue # << >>
      /\ status \in [Requests -> {"unused", "queued", "delivered", "settled"}]
      /\ owner \in [Requests -> Listeners \cup {NoListener}]
  BY DEF PollTakes, BridgeInv, TypeOK
<1>4. Len(queue) \in Nat /\ 1 \in 1..Len(queue) /\ queue[1] = h
  BY <1>1, <1>3
<1>5. /\ Len(queue') = Len(queue) - 1
      /\ \A i \in 1..Len(queue') : queue'[i] = queue[i + 1] /\ i + 1 \in 1..Len(queue)
  <2>1. Len(Tail(queue)) = Len(queue) - 1
    BY <1>3, HeadTailProperties
  <2>2. \A i \in 1..Len(queue') : queue'[i] = queue[i + 1]
    BY <1>2, <1>3, HeadTailProperties
  <2> QED
    BY <1>2, <1>4, <2>1, <2>2
<1>6. status[h] = "queued"
  BY <1>4 DEF BridgeInv, QueueMatchesPending
<1>7. \A a \in Requests : status[a] = "queued" => a = h \/ h < a
  <2> SUFFICES ASSUME NEW a \in Requests, status[a] = "queued", a # h
               PROVE  h < a
    OBVIOUS
  <2>1. PICK i \in 1..Len(queue) : queue[i] = a
    BY DEF BridgeInv, QueueMatchesPending
  <2>2. 1 < i
    BY <1>4, <2>1
  <2> QED
    BY <1>4, <2>1, <2>2 DEF BridgeInv, QueueSorted
<1>8. NoListener \notin Listeners
  BY BridgeAssumption
<1>9. Bookkeeping'
  BY <1>2, <1>3, <1>6, <1>8 DEF BridgeInv, Bookkeeping
<1>10. DeliveredInOrder'
  <2> SUFFICES ASSUME NEW a \in Requests, NEW b \in Requests,
                      a < b, owner'[b] # NoListener
               PROVE  status'[a] # "queued"
    BY DEF DeliveredInOrder
  <2>1. CASE b = h
    <3>1. a # h /\ ~(h < a)
      BY <2>1, BridgeAssumption DEF Requests
    <3> QED
      BY <1>2, <1>3, <1>7, <3>1
  <2>2. CASE b # h
    <3>1. status[a] # "queued"
      BY <1>2, <1>3, <2>2 DEF BridgeInv, DeliveredInOrder
    <3> QED
      BY <1>2, <1>3, <3>1
  <2> QED
    BY <2>1, <2>2
<1>11. Pending' = Pending
  BY <1>2, <1>3, <1>6 DEF Pending
<1>12. PendingBounded'
  BY <1>11 DEF BridgeInv, PendingBounded
<1>13. HistoryAgrees'
  BY <1>2, <1>3, <1>11 DEF BridgeInv, HistoryAgrees
<1>14. AbortedUnlessAnswered'
  BY <1>2 DEF BridgeInv, AbortedUnlessAnswered
<1>15. QueueSorted'
  <2> SUFFICES ASSUME NEW i \in 1..Len(queue'), NEW j \in 1..Len(queue'), i < j
               PROVE  queue'[i] < queue'[j]
    BY DEF QueueSorted
  <2>1. i + 1 < j + 1
    OBVIOUS
  <2> QED
    BY <1>5, <2>1 DEF BridgeInv, QueueSorted
<1>16. QueueMatchesPending'
  <2>1. \A i, j \in 1..Len(queue') : i # j => queue'[i] # queue'[j]
    BY <1>5 DEF BridgeInv, QueueMatchesPending
  <2>2. ASSUME NEW x \in Requests, status'[x] = "queued"
        PROVE  \E i \in 1..Len(queue') : queue'[i] = x
    <3>1. status[x] = "queued" /\ x # h
      BY <1>2, <1>3, <2>2
    <3>2. PICK i \in 1..Len(queue) : queue[i] = x
      BY <3>1 DEF BridgeInv, QueueMatchesPending
    <3>3. i # 1
      BY <1>4, <3>1, <3>2
    <3>4. i - 1 \in 1..Len(queue') /\ (i - 1) + 1 = i
      BY <1>4, <1>5, <3>3
    <3>5. queue'[i - 1] = x
      BY <1>5, <3>2, <3>4
    <3> QED
      BY <3>4, <3>5
  <2>3. ASSUME NEW x \in Requests, NEW i \in 1..Len(queue'), queue'[i] = x
        PROVE  status'[x] = "queued"
    <3>1. i + 1 \in 1..Len(queue) /\ queue[i + 1] = x /\ i + 1 # 1
      BY <1>5, <2>3
    <3>2. status[x] = "queued"
      BY <3>1 DEF BridgeInv, QueueMatchesPending
    <3>3. x # h
      BY <1>4, <3>1 DEF BridgeInv, QueueMatchesPending
    <3> QED
      BY <1>2, <1>3, <3>2, <3>3
  <2> QED
    BY <2>1, <2>2, <2>3 DEF QueueMatchesPending
<1>17. NoLostWakeup' /\ NothingQueuedWithoutListener'
  BY <1>2, <1>8 DEF NoLostWakeup, NothingQueuedWithoutListener
<1> QED
  BY <1>9, <1>10, <1>12, <1>13, <1>14, <1>15, <1>16, <1>17 DEF BridgeInv

(* A new request takes the next number: it is the youngest everywhere. *)
LEMMA SubmitInv ==
  ASSUME BridgeInv, TypeOK', NEW t \in Tools, Submit(t)
  PROVE  BridgeInv'
<1>1. PICK n \in Requests : n = submitted + 1
  <2>1. submitted + 1 \in Requests
    BY BridgeAssumption DEF Submit, BridgeInv, TypeOK, Requests
  <2> QED
    BY <2>1
<1>2. /\ submitted \in Nat
      /\ queue \in Seq(Requests) /\ history \in Seq(Entries)
      /\ status \in [Requests -> {"unused", "queued", "delivered", "settled"}]
      /\ owner \in [Requests -> Listeners \cup {NoListener}]
      /\ listener \in Listeners
  BY BridgeAssumption DEF Submit, BridgeInv, TypeOK
<1>3. /\ submitted' = n /\ HasRoom
      /\ UNCHANGED <<executing, aborted, outcome, listener>>
  BY <1>1 DEF Submit
<1>4. /\ status[n] = "unused" /\ owner[n] = NoListener /\ outcome[n] = "none"
      /\ ~aborted[n] /\ ~executing[n]
  BY <1>1, <1>2 DEF BridgeInv, Bookkeeping, AbortedUnlessAnswered
<1>5. \A r \in Requests : status[r] # "unused" => r < n
  BY <1>1, <1>2, BridgeAssumption DEF BridgeInv, Bookkeeping, Requests
<1>6. \/ /\ waiting = listener /\ waiting' = NoListener /\ queue' = queue
         /\ status' = [status EXCEPT ![n] = "delivered"]
         /\ owner' = [owner EXCEPT ![n] = listener]
      \/ /\ waiting # listener /\ waiting' = waiting /\ queue' = Append(queue, n)
         /\ status' = [status EXCEPT ![n] = "queued"]
         /\ owner' = owner
  BY <1>1 DEF Submit, Enqueue
<1>7. \A r \in Requests : r # n => status'[r] = status[r] /\ owner'[r] = owner[r]
  BY <1>2, <1>6
<1>8. status'[n] \in {"queued", "delivered"} /\ (status'[n] = "delivered" <=> owner'[n] # NoListener)
  BY <1>2, <1>4, <1>6, BridgeAssumption
<1>9. Bookkeeping'
  <2> SUFFICES ASSUME NEW r \in Requests
               PROVE  /\ status'[r] = "unused" <=> r > submitted'
                      /\ status'[r] \in {"unused", "queued"} => owner'[r] = NoListener
                      /\ status'[r] = "delivered" => owner'[r] # NoListener
                      /\ outcome'[r] # "none" <=> status'[r] = "settled"
                      /\ executing'[r] => owner'[r] # NoListener
    BY DEF Bookkeeping
  <2>1. CASE r = n
    <3>1. ~(n > n)
      BY BridgeAssumption DEF Requests
    <3> QED
      BY <1>3, <1>4, <1>8, <2>1, <3>1
  <2>2. CASE r # n
    <3>1. r > submitted <=> r > n
      BY <1>1, <1>2, <2>2, BridgeAssumption DEF Requests
    <3> QED
      BY <1>3, <1>7, <2>2, <3>1 DEF BridgeInv, Bookkeeping
  <2> QED
    BY <2>1, <2>2
<1>10. Pending' = Pending \cup {n}
  BY <1>7, <1>8 DEF Pending
<1>11. PendingBounded'
  <2>1. IsFiniteSet(Requests) /\ Pending \subseteq Requests
    BY BridgeAssumption, FS_Interval DEF Requests, Pending
  <2>2. IsFiniteSet(Pending)
    BY <2>1, FS_Subset
  <2>3. n \notin Pending
    BY <1>4 DEF Pending
  <2>4. Cardinality(Pending') = Cardinality(Pending) + 1
    BY <1>10, <2>2, <2>3, FS_AddElement
  <2>5. Cardinality(Pending) \in Nat
    BY <2>2, FS_CardinalityType
  <2> QED
    BY <1>3, <2>4, <2>5, BridgeAssumption DEF HasRoom, PendingBounded
<1>12. AbortedUnlessAnswered'
  BY <1>3 DEF BridgeInv, AbortedUnlessAnswered
<1>13. DeliveredInOrder'
  <2> SUFFICES ASSUME NEW a \in Requests, NEW b \in Requests,
                      a < b, owner'[b] # NoListener
               PROVE  status'[a] # "queued"
    BY DEF DeliveredInOrder
  <2>1. a # b
    BY BridgeAssumption DEF Requests
  <2>2. CASE b = n
    <3>1. waiting = listener
      BY <1>4, <1>6, <2>2
    <3>2. queue = << >>
      BY <1>2, <3>1, BridgeAssumption DEF BridgeInv, NoLostWakeup
    <3>3. status[a] # "queued"
      BY <3>2 DEF BridgeInv, QueueMatchesPending
    <3> QED
      BY <1>7, <2>1, <2>2, <3>3
  <2>3. CASE b # n
    <3>1. owner[b] # NoListener
      BY <1>7, <2>3
    <3>2. status[b] # "unused"
      BY <3>1 DEF BridgeInv, Bookkeeping
    <3>3. b < n /\ a # n
      BY <1>5, <3>2, BridgeAssumption DEF Requests
    <3> QED
      BY <1>7, <3>1, <3>3 DEF BridgeInv, DeliveredInOrder
  <2> QED
    BY <2>2, <2>3
<1>14. QueueMatchesPending' /\ QueueSorted'
  <2>1. \A i \in 1..Len(queue) : queue[i] \in Requests /\ status[queue[i]] = "queued"
    BY <1>2 DEF BridgeInv, QueueMatchesPending
  <2>2. \A i \in 1..Len(queue) : queue[i] < n /\ queue[i] # n
    BY <1>4, <1>5, <2>1
  <2>3. CASE queue' = queue /\ status' = [status EXCEPT ![n] = "delivered"]
    <3>1. \A r \in Requests : status'[r] = "queued" <=> status[r] = "queued"
      BY <1>2, <1>4, <2>3
    <3> QED
      BY <2>3, <3>1 DEF BridgeInv, QueueMatchesPending, QueueSorted
  <2>4. CASE queue' = Append(queue, n) /\ status' = [status EXCEPT ![n] = "queued"]
    <3>1. /\ Len(queue) \in Nat
          /\ Len(queue') = Len(queue) + 1
          /\ \A i \in 1..Len(queue) : queue'[i] = queue[i]
          /\ queue'[Len(queue) + 1] = n
      BY <1>2, <2>4, AppendProperties
    <3>2. \A i \in 1..Len(queue') : i \in 1..Len(queue) \/ i = Len(queue) + 1
      BY <3>1
    <3>3. QueueSorted'
      <4> SUFFICES ASSUME NEW i \in 1..Len(queue'), NEW j \in 1..Len(queue'), i < j
                   PROVE  queue'[i] < queue'[j]
        BY DEF QueueSorted
      <4>1. i \in 1..Len(queue)
        BY <3>1
      <4>2. CASE j \in 1..Len(queue)
        BY <3>1, <4>1, <4>2 DEF BridgeInv, QueueSorted
      <4>3. CASE j = Len(queue) + 1
        BY <2>2, <3>1, <4>1, <4>3
      <4> QED
        BY <3>2, <4>2, <4>3
    <3>4. \A i, j \in 1..Len(queue') : i # j => queue'[i] # queue'[j]
      <4> SUFFICES ASSUME NEW i \in 1..Len(queue'), NEW j \in 1..Len(queue'), i # j
                   PROVE  queue'[i] # queue'[j]
        OBVIOUS
      <4>1. CASE i \in 1..Len(queue) /\ j \in 1..Len(queue)
        BY <3>1, <4>1 DEF BridgeInv, QueueMatchesPending
      <4>2. CASE i \in 1..Len(queue) /\ j = Len(queue) + 1
        BY <2>2, <3>1, <4>2
      <4>3. CASE i = Len(queue) + 1 /\ j \in 1..Len(queue)
        BY <2>2, <3>1, <4>3
      <4> QED
        BY <3>2, <4>1, <4>2, <4>3
    <3>5. ASSUME NEW r \in Requests
          PROVE  status'[r] = "queued" <=> \E i \in 1..Len(queue') : queue'[i] = r
      <4>1. CASE r = n
        <5>1. Len(queue) + 1 \in 1..Len(queue')
          BY <3>1
        <5> QED
          BY <1>2, <2>4, <3>1, <4>1, <5>1
      <4>2. CASE r # n
        <5>1. status'[r] = "queued" <=> \E i \in 1..Len(queue) : queue[i] = r
          BY <1>7, <4>2 DEF BridgeInv, QueueMatchesPending
        <5>2. \A i \in 1..Len(queue) : i \in 1..Len(queue')
          BY <3>1
        <5> QED
          BY <3>1, <3>2, <4>2, <5>1, <5>2
      <4> QED
        BY <4>1, <4>2
    <3> QED
      BY <3>3, <3>4, <3>5 DEF QueueMatchesPending
  <2> QED
    BY <1>6, <2>3, <2>4
<1>15. HistoryAgrees'
  <2> DEFINE e == [id |-> n, status |-> "none"]
  <2>1. e \in Entries /\ e.id = n /\ e.status = "none"
    BY DEF Entries, Outcomes
  <2>2. history' = IF Len(Append(history, e)) > MaxHistory
                     THEN Tail(Append(history, e)) ELSE Append(history, e)
    BY <1>1 DEF Submit, RecordHistory
  <2> HIDE DEF e
  <2>3. /\ Len(history) \in Nat
        /\ Append(history, e) \in Seq(Entries)
        /\ Append(history, e) # << >>
        /\ Len(Append(history, e)) = Len(history) + 1
        /\ \A i \in 1..Len(history) : Append(history, e)[i] = history[i]
        /\ Append(history, e)[Len(history) + 1] = e
    BY <1>2, <2>1, AppendProperties
  <2>4. /\ Len(history) <= MaxHistory
        /\ \A i \in 1..Len(history) :
             /\ history[i] \in Entries /\ history[i].id \in Requests
             /\ history[i].status = outcome[history[i].id]
             /\ status[history[i].id] # "unused"
             /\ history[i].status = "none" <=> history[i].id \in Pending
    <3>1. \A i \in 1..Len(history) : history[i] \in Entries
      BY <1>2
    <3>2. \A i \in 1..Len(history) : history[i].id \in Requests
      BY <3>1 DEF Entries
    <3> QED
      BY <3>1, <3>2 DEF BridgeInv, HistoryAgrees
  <2> DEFINE Agrees(x) == /\ x.status = outcome'[x.id]
                          /\ status'[x.id] # "unused"
                          /\ x.status = "none" <=> x.id \in Pending'
  <2>5. Agrees(e)
    BY <1>3, <1>4, <1>8, <1>10, <2>1
  <2>6. \A i \in 1..Len(history) : Agrees(history[i])
    <3> SUFFICES ASSUME NEW i \in 1..Len(history)
                 PROVE  Agrees(history[i])
      OBVIOUS
    <3>1. history[i].id \in Requests /\ history[i].id # n
      BY <1>4, <2>4
    <3> QED
      BY <1>3, <1>7, <1>10, <2>4, <3>1
  <2> HIDE DEF Agrees
  <2>7. \A i \in 1..Len(Append(history, e)) : Agrees(Append(history, e)[i])
    <3>1. \A i \in 1..Len(Append(history, e)) : i \in 1..Len(history) \/ i = Len(history) + 1
      BY <2>3
    <3> QED
      BY <2>3, <2>5, <2>6, <3>1
  <2>8. ASSUME Len(history') <= MaxHistory, \A i \in 1..Len(history') : Agrees(history'[i])
        PROVE  HistoryAgrees'
    <3>1. ASSUME NEW i \in 1..Len(history')
          PROVE  /\ history'[i].status = outcome'[history'[i].id]
                 /\ status'[history'[i].id] # "unused"
                 /\ history'[i].status = "none" <=> history'[i].id \in Pending'
      <4>1. Agrees(history'[i])
        BY <2>8
      <4> QED
        BY <4>1 DEF Agrees
    <3> QED
      BY <2>8, <3>1 DEF HistoryAgrees
  <2>9. CASE history' = Tail(Append(history, e))
    <3>1. /\ Len(history') = Len(history)
          /\ \A i \in 1..Len(history') : history'[i] = Append(history, e)[i + 1]
      BY <2>3, <2>9, HeadTailProperties
    <3>2. \A i \in 1..Len(history') : i + 1 \in 1..Len(Append(history, e))
      BY <2>3, <3>1
    <3>3. \A i \in 1..Len(history') : Agrees(history'[i])
      BY <2>7, <3>1, <3>2
    <3> QED
      BY <2>4, <2>8, <3>1, <3>3
  <2>10. CASE history' = Append(history, e) /\ ~(Len(Append(history, e)) > MaxHistory)
    <3>1. Len(history') <= MaxHistory
      BY <2>3, <2>10, BridgeAssumption
    <3> QED
      BY <2>7, <2>8, <2>10, <3>1
  <2> QED
    BY <2>2, <2>9, <2>10
<1>16. NoLostWakeup' /\ NothingQueuedWithoutListener'
  <2>1. listener' # NoListener
    BY <1>2, <1>3, BridgeAssumption
  <2>2. NoLostWakeup'
    BY <1>6 DEF BridgeInv, NoLostWakeup
  <2> QED
    BY <2>1, <2>2 DEF NothingQueuedWithoutListener
<1> QED
  BY <1>9, <1>11, <1>12, <1>13, <1>14, <1>15, <1>16 DEF BridgeInv

LEMMA InitInv == Init => BridgeInv
<1> SUFFICES ASSUME Init PROVE BridgeInv
  OBVIOUS
<1>1. TypeOK
  BY InitType
<1>2. Pending = {}
  BY DEF Init, Pending
<1>3. PendingBounded
  BY <1>2, FS_EmptySet, BridgeAssumption DEF PendingBounded
<1>4. Bookkeeping
  BY BridgeAssumption DEF Init, Bookkeeping, Requests
<1>5. HistoryAgrees
  BY BridgeAssumption DEF Init, HistoryAgrees
<1>6. QueueMatchesPending /\ QueueSorted
  BY DEF Init, QueueMatchesPending, QueueSorted
<1>7. /\ DeliveredInOrder /\ NoLostWakeup
      /\ NothingQueuedWithoutListener /\ AbortedUnlessAnswered
  BY DEF Init, DeliveredInOrder, NoLostWakeup, NothingQueuedWithoutListener,
         AbortedUnlessAnswered
<1> QED
  BY <1>1, <1>3, <1>4, <1>5, <1>6, <1>7 DEF BridgeInv

LEMMA NextInv == BridgeInv /\ [Next]_vars => BridgeInv'
<1> SUFFICES ASSUME BridgeInv, [Next]_vars
             PROVE  BridgeInv'
  OBVIOUS
<1>1. TypeOK'
  BY NextType DEF BridgeInv
<1>2. CASE UNCHANGED vars
  BY <1>1, <1>2, RequestsUntouched DEF vars, reqVars
<1>3. CASE Next
  BY <1>1, <1>3, PollTakesInv, PollFindsNothingInv, PollReturnsEmptyInv, SubmitInv,
     RespondInv, ApproveExecutionInv, CloseInv, ExpireListenerInv, RequestTimeoutInv,
     ClientAbortInv, TickInv
     DEF Next, Poll, Release
<1> QED
  BY <1>2, <1>3

(* The parts of the invariant hold together, whatever the bounds. *)
THEOREM InvariantHolds == Spec => []BridgeInv
<1> QED
  BY InitInv, NextInv, PTL DEF Spec

(* No request is handed out after it was settled and none is forgotten:    *)
(* the queue of the bridge is the set of pending, undelivered requests, in *)
(* the order of their submission.                                          *)
THEOREM QueueCorrect == Spec => [](QueueMatchesPending /\ DeliveredInOrder)
<1>1. BridgeInv => QueueMatchesPending /\ DeliveredInOrder
  BY DEF BridgeInv
<1> QED
  BY <1>1, InvariantHolds, PTL

(* A waiting poll is never passed over, and nothing waits for a window     *)
(* that is gone.                                                           *)
THEOREM WakeupsCorrect == Spec => [](NoLostWakeup /\ NothingQueuedWithoutListener)
<1>1. BridgeInv => NoLostWakeup /\ NothingQueuedWithoutListener
  BY DEF BridgeInv
<1> QED
  BY <1>1, InvariantHolds, PTL

(* maxQueueSize bounds the pending requests, delivered ones included. *)
THEOREM PendingIsBounded == Spec => []PendingBounded
<1>1. BridgeInv => PendingBounded
  BY DEF BridgeInv
<1> QED
  BY <1>1, InvariantHolds, PTL

(* The history shows what happened to every request it still holds. *)
THEOREM HistoryCorrect == Spec => []HistoryAgrees
<1>1. BridgeInv => HistoryAgrees
  BY DEF BridgeInv
<1> QED
  BY <1>1, InvariantHolds, PTL

(* The abort signal tells a running execution that its answer is unwanted, *)
(* and never fires for a request its own window answered.                  *)
THEOREM AbortCorrect == Spec => []AbortedUnlessAnswered
<1>1. BridgeInv => AbortedUnlessAnswered
  BY DEF BridgeInv
<1> QED
  BY <1>1, InvariantHolds, PTL

-----------------------------------------------------------------------------
(* What a step may never do. *)

(* The steps that settle requests, in one shape. *)
Settling ==
  \/ \E l \in Listeners, wait \in BOOLEAN : PollFindsNothing(l, wait)
  \/ \E l \in Listeners, r \in Requests, response \in Responses : Respond(l, r, response)
  \/ Close
  \/ ExpireListener
  \/ \E r \in Requests : RequestTimeout(r) \/ ClientAbort(r)

LEMMA SettlingShape ==
  ASSUME Settling
  PROVE  \E ans \in [Requests -> Outcomes] :
           Settle(ans) /\ \A r \in Requests : ans[r] # "none" => r \in Pending
<1>1. ASSUME NEW S \in SUBSET Pending, NEW o \in Outcomes, Settle(AnswerAll(S, o))
      PROVE  \E ans \in [Requests -> Outcomes] :
               Settle(ans) /\ \A r \in Requests : ans[r] # "none" => r \in Pending
  <2>1. AnswerAll(S, o) \in [Requests -> Outcomes]
    BY AnswerAllType
  <2>2. \A r \in Requests : AnswerAll(S, o)[r] # "none" => r \in Pending
    BY DEF AnswerAll
  <2> QED
    BY <1>1, <2>1, <2>2
<1>2. /\ Dropped \subseteq Pending /\ Undelivered \subseteq Pending
      /\ {"unavailable", "timeout", "cancelled"} \subseteq Outcomes
  BY DEF Dropped, Undelivered, Pending, Outcomes
<1>3. ASSUME NEW l \in Listeners, NEW wait \in BOOLEAN, PollFindsNothing(l, wait)
      PROVE  Settle(AnswerAll(Dropped, "unavailable"))
  BY <1>3 DEF PollFindsNothing
<1>4. ASSUME NEW l \in Listeners, NEW r \in Requests, NEW response \in Responses,
             Respond(l, r, response)
      PROVE  \E ans \in [Requests -> Outcomes] :
               Settle(ans) /\ \A x \in Requests : ans[x] # "none" => x \in Pending
  <2> DEFINE ans == [AnswerAll(Dropped, "unavailable") EXCEPT ![r] = OutcomeOf(response)]
  <2>1. AnswerAll(Dropped, "unavailable") \in [Requests -> Outcomes]
    BY AnswerAllType DEF Outcomes
  <2>2. OutcomeOf(response) \in Outcomes
    BY DEF OutcomeOf, Responses, Outcomes
  <2>3. ans \in [Requests -> Outcomes]
    BY <2>1, <2>2
  <2>4. \A x \in Requests : ans[x] # "none" => x \in Pending
    BY <1>2, <1>4 DEF AnswerAll, Respond, Pending
  <2>5. Settle(ans)
    BY <1>4 DEF Respond
  <2> HIDE DEF ans
  <2> QED
    BY <2>3, <2>4, <2>5
<1>5. Close => Settle(AnswerAll(Pending, "unavailable"))
  BY DEF Close
<1>6. ExpireListener => Settle(AnswerAll(Undelivered, "unavailable"))
  BY DEF ExpireListener
<1>7. ASSUME NEW r \in Requests, RequestTimeout(r) \/ ClientAbort(r)
      PROVE  /\ {r} \subseteq Pending
             /\ Settle(AnswerAll({r}, "timeout")) \/ Settle(AnswerAll({r}, "cancelled"))
  BY <1>7 DEF RequestTimeout, ClientAbort
<1> QED
  BY <1>1, <1>2, <1>3, <1>4, <1>5, <1>6, <1>7 DEF Settling

LEMMA NextShape ==
  ASSUME [Next]_vars
  PROVE  \/ Settling
         \/ \E l \in Listeners : PollTakes(l)
         \/ \E t \in Tools : Submit(t)
         \/ \E l \in Listeners, r \in Requests : ApproveExecution(l, r)
         \/ UNCHANGED <<status, owner, executing, outcome>>
BY DEF Next, Poll, Release, Settling, PollReturnsEmpty, Tick, vars, reqVars

LEMMA AnswersStay ==
  ASSUME BridgeInv, [Next]_vars, NEW r \in Requests, outcome[r] # "none"
  PROVE  outcome'[r] = outcome[r] /\ status'[r] = status[r]
<1>1. /\ status \in [Requests -> {"unused", "queued", "delivered", "settled"}]
      /\ queue \in Seq(Requests)
      /\ status[r] = "settled"
  BY DEF BridgeInv, TypeOK, Bookkeeping
<1>2. CASE Settling
  BY <1>1, <1>2, SettlingShape DEF Settle, Pending
<1>3. ASSUME NEW l \in Listeners, PollTakes(l)
      PROVE  outcome'[r] = outcome[r] /\ status'[r] = status[r]
  <2>1. Len(queue) \in Nat /\ 1 \in 1..Len(queue) /\ Head(queue) = queue[1]
    BY <1>1, <1>3 DEF PollTakes
  <2>2. status[Head(queue)] = "queued"
    BY <1>1, <2>1 DEF BridgeInv, QueueMatchesPending
  <2> QED
    BY <1>1, <1>3, <2>2 DEF PollTakes
<1>4. ASSUME NEW t \in Tools, Submit(t)
      PROVE  outcome'[r] = outcome[r] /\ status'[r] = status[r]
  <2>1. status[r] # "unused" /\ r # submitted + 1
    BY <1>1, BridgeAssumption DEF BridgeInv, TypeOK, Bookkeeping, Requests
  <2> QED
    BY <1>1, <1>4, <2>1 DEF Submit
<1>5. ASSUME NEW l \in Listeners, NEW x \in Requests, ApproveExecution(l, x)
      PROVE  outcome'[r] = outcome[r] /\ status'[r] = status[r]
  BY <1>5 DEF ApproveExecution
<1> QED
  BY <1>2, <1>3, <1>4, <1>5, NextShape

(* No late answer, timeout, cancellation or shutdown changes what the      *)
(* client was told.                                                        *)
THEOREM AnswersAreFinal == Spec => AnswerIsFinal
<1>1. BridgeInv /\ [Next]_vars =>
        [\A r \in Requests :
           outcome[r] # "none" => outcome'[r] = outcome[r] /\ status'[r] = status[r]]_vars
  BY AnswersStay
<1> QED
  BY <1>1, InvariantHolds, PTL DEF Spec, AnswerIsFinal

LEMMA DeliveriesStay ==
  ASSUME BridgeInv, [Next]_vars, NEW r \in Requests, owner[r] # NoListener
  PROVE  /\ owner'[r] = owner[r]
         /\ status'[r] # "queued"
         /\ executing[r] => executing'[r]
<1>1. /\ status \in [Requests -> {"unused", "queued", "delivered", "settled"}]
      /\ owner \in [Requests -> Listeners \cup {NoListener}]
      /\ executing \in [Requests -> BOOLEAN]
      /\ queue \in Seq(Requests)
      /\ status[r] \notin {"unused", "queued"}
  BY DEF BridgeInv, TypeOK, Bookkeeping
<1>2. CASE Settling
  BY <1>1, <1>2, SettlingShape DEF Settle
<1>3. ASSUME NEW l \in Listeners, PollTakes(l)
      PROVE  /\ owner'[r] = owner[r] /\ status'[r] # "queued"
             /\ executing[r] => executing'[r]
  <2>1. Len(queue) \in Nat /\ 1 \in 1..Len(queue) /\ Head(queue) = queue[1]
    BY <1>1, <1>3 DEF PollTakes
  <2>2. r # Head(queue)
    BY <1>1, <2>1 DEF BridgeInv, QueueMatchesPending
  <2> QED
    BY <1>1, <1>3, <2>2 DEF PollTakes
<1>4. ASSUME NEW t \in Tools, Submit(t)
      PROVE  /\ owner'[r] = owner[r] /\ status'[r] # "queued"
             /\ executing[r] => executing'[r]
  <2>1. r # submitted + 1
    BY <1>1, BridgeAssumption DEF BridgeInv, TypeOK, Bookkeeping, Requests
  <2> QED
    BY <1>1, <1>4, <2>1 DEF Submit
<1>5. ASSUME NEW l \in Listeners, NEW x \in Requests, ApproveExecution(l, x)
      PROVE  /\ owner'[r] = owner[r] /\ status'[r] # "queued"
             /\ executing[r] => executing'[r]
  BY <1>1, <1>5 DEF ApproveExecution
<1> QED
  BY <1>1, <1>2, <1>3, <1>4, <1>5, NextShape

(* A request belongs to the window that took it, whoever holds the lease   *)
(* afterwards, and an approval is not taken back.                          *)
THEOREM DeliveriesAreFinal == Spec => DeliveredOnce
<1>1. BridgeInv /\ [Next]_vars =>
        [\A r \in Requests :
           owner[r] # NoListener =>
             /\ owner'[r] = owner[r]
             /\ status'[r] # "queued"
             /\ executing[r] => executing'[r]]_vars
  BY DeliveriesStay
<1> QED
  BY <1>1, InvariantHolds, PTL DEF Spec, DeliveredOnce

-----------------------------------------------------------------------------
(* The bridge implements McpPromise. *)

PhaseMap == [r \in Requests |-> Phase(status[r])]
ApprovedMap == {r \in Requests : executing[r]}

(* The abstract step, with the bridge's state put for the abstract one. *)
PromiseStep == Promise!Next \/ UNCHANGED <<PhaseMap, outcome, ApprovedMap>>

LEMMA PhaseTells ==
  ASSUME TypeOK
  PROVE  \A r \in Requests :
           /\ PhaseMap[r] = "new" <=> status[r] = "unused"
           /\ PhaseMap[r] = "waiting" <=> status[r] = "queued"
           /\ PhaseMap[r] = "handed" <=> status[r] = "delivered"
           /\ PhaseMap[r] = "closed" <=> status[r] = "settled"
<1> SUFFICES ASSUME NEW r \in Requests
             PROVE  /\ Phase(status[r]) = "new" <=> status[r] = "unused"
                    /\ Phase(status[r]) = "waiting" <=> status[r] = "queued"
                    /\ Phase(status[r]) = "handed" <=> status[r] = "delivered"
                    /\ Phase(status[r]) = "closed" <=> status[r] = "settled"
  BY DEF PhaseMap
<1>1. status[r] \in {"unused", "queued", "delivered", "settled"}
  BY DEF TypeOK
<1> QED
  BY <1>1 DEF Phase

LEMMA OpenIsPending ==
  ASSUME TypeOK
  PROVE  Promise!Open = Pending
BY PhaseTells DEF Promise!Open, Promise!Ids, Requests, Pending, PhaseMap

LEMMA SettlingIsClose ==
  ASSUME BridgeInv, BridgeInv', Settling
  PROVE  PromiseStep
<1>1. PICK ans \in [Requests -> Outcomes] :
        Settle(ans) /\ \A r \in Requests : ans[r] # "none" => r \in Pending
  BY SettlingShape
<1> DEFINE S == {r \in Requests : ans[r] # "none"}
<1>2. TypeOK
  BY DEF BridgeInv
<1>3. /\ status' = [r \in Requests |-> IF r \in S THEN "settled" ELSE status[r]]
      /\ outcome' = [r \in Requests |-> IF r \in S THEN ans[r] ELSE outcome[r]]
      /\ executing' = executing
  BY <1>1 DEF Settle
<1>4. ApprovedMap' = ApprovedMap
  BY <1>3 DEF ApprovedMap
<1>5. CASE S = {}
  <2>1. status' = status /\ outcome' = outcome
    BY <1>2, <1>3, <1>5 DEF TypeOK
  <2> QED
    BY <1>4, <2>1 DEF PromiseStep, PhaseMap
<1>6. CASE S # {}
  <2>1. S \subseteq Promise!Open
    BY <1>1, <1>2, OpenIsPending
  <2>2. PhaseMap' = [r \in Requests |-> IF r \in S THEN "closed" ELSE PhaseMap[r]]
    <3> HIDE DEF S
    <3>1. Phase("settled") = "closed"
      BY DEF Phase
    <3>2. \A r \in Requests : status'[r] = IF r \in S THEN "settled" ELSE status[r]
      BY <1>3
    <3>3. PhaseMap' = [r \in Requests |-> Phase(status'[r])]
      BY DEF PhaseMap
    <3>4. ASSUME NEW r \in Requests
          PROVE  Phase(status'[r]) = IF r \in S THEN "closed" ELSE PhaseMap[r]
      BY <3>1, <3>2 DEF PhaseMap
    <3> QED
      BY <3>3, <3>4
  <2>3. /\ \A r \in Requests :
             IF r \in S THEN outcome'[r] \in Outcomes \ {"none"} ELSE outcome'[r] = outcome[r]
        /\ DOMAIN outcome' = Requests
    BY <1>3
  <2> HIDE DEF S
  <2>4. Promise!Close(S)
    BY <1>4, <1>6, <2>1, <2>2, <2>3
       DEF Promise!Close, Promise!Ids, Requests, PhaseMap, ApprovedMap
  <2>5. S \in SUBSET Promise!Ids
    BY DEF S, Promise!Ids, Requests
  <2> QED
    BY <2>4, <2>5 DEF PromiseStep, Promise!Next
<1> QED
  BY <1>5, <1>6

LEMMA PollTakesIsHand ==
  ASSUME BridgeInv, NEW l \in Listeners, PollTakes(l)
  PROVE  PromiseStep
<1>1. TypeOK /\ queue \in Seq(Requests) /\ queue # << >>
  BY DEF BridgeInv, TypeOK, PollTakes
<1>2. PICK h \in Requests : h = Head(queue)
  BY <1>1
<1>3. Len(queue) \in Nat /\ 1 \in 1..Len(queue) /\ queue[1] = h
  BY <1>1, <1>2
<1>4. status[h] = "queued"
  BY <1>3 DEF BridgeInv, QueueMatchesPending
<1>5. ASSUME NEW a \in 1..(h - 1)
      PROVE  status[a] # "queued"
  <2>1. a \in Requests /\ a < h
    BY BridgeAssumption DEF Requests
  <2> SUFFICES ASSUME status[a] = "queued" PROVE FALSE
    OBVIOUS
  <2>2. PICK i \in 1..Len(queue) : queue[i] = a
    BY <2>1 DEF BridgeInv, QueueMatchesPending
  <2>3. i = 1 \/ 1 < i
    BY <1>3
  <2>4. h < a
    BY <1>3, <2>1, <2>2, <2>3, BridgeAssumption DEF BridgeInv, QueueSorted, Requests
  <2> QED
    BY <2>1, <2>4, BridgeAssumption DEF Requests
<1>6. /\ status' = [status EXCEPT ![h] = "delivered"]
      /\ UNCHANGED <<outcome, executing>>
  BY <1>2 DEF PollTakes
<1>7. PhaseMap' = [PhaseMap EXCEPT ![h] = "handed"]
  BY <1>1, <1>6 DEF PhaseMap, Phase, TypeOK
<1>8. /\ PhaseMap[h] = "waiting"
      /\ \A a \in 1..(h - 1) : PhaseMap[a] # "waiting"
  <2>1. \A a \in 1..(h - 1) : a \in Requests
    BY BridgeAssumption DEF Requests
  <2> QED
    BY <1>1, <1>4, <1>5, <2>1, PhaseTells
<1>9. ApprovedMap' = ApprovedMap
  BY <1>6 DEF ApprovedMap
<1>10. Promise!Hand(h)
  BY <1>6, <1>7, <1>8, <1>9
     DEF Promise!Hand, Promise!FirstWaiting, PhaseMap, ApprovedMap
<1> QED
  BY <1>10 DEF PromiseStep, Promise!Next, Promise!Ids, Requests

LEMMA SubmitIsAccept ==
  ASSUME BridgeInv, NEW t \in Tools, Submit(t)
  PROVE  PromiseStep
<1>1. TypeOK /\ submitted \in Nat /\ submitted + 1 \in Requests
  BY BridgeAssumption DEF BridgeInv, TypeOK, Submit, Requests
<1>2. PICK n \in Requests : n = submitted + 1
  BY <1>1
<1>3. /\ status[n] = "unused"
      /\ \A a \in 1..(n - 1) : a \in Requests /\ status[a] # "unused"
  BY <1>1, <1>2, BridgeAssumption DEF BridgeInv, Bookkeeping, Requests
<1>4. /\ PhaseMap[n] = "new"
      /\ \A a \in 1..(n - 1) : PhaseMap[a] # "new"
  BY <1>1, <1>3, PhaseTells
<1>5. Promise!Cardinality(Promise!Open) < MaxQueueSize
  BY <1>1, OpenIsPending DEF Submit, HasRoom, Promise!Cardinality, Cardinality
<1>6. /\ UNCHANGED <<outcome, executing>>
      /\ \/ status' = [status EXCEPT ![n] = "queued"]
         \/ waiting = listener /\ status' = [status EXCEPT ![n] = "delivered"]
  BY <1>2 DEF Submit
<1>7. ApprovedMap' = ApprovedMap
  BY <1>6 DEF ApprovedMap
<1>8. CASE status' = [status EXCEPT ![n] = "queued"]
  <2>1. PhaseMap' = [PhaseMap EXCEPT ![n] = "waiting"]
    BY <1>1, <1>8 DEF PhaseMap, Phase, TypeOK
  <2>2. Promise!Accept(n)
    BY <1>4, <1>5, <1>6, <1>7, <2>1 DEF Promise!Accept, PhaseMap, ApprovedMap
  <2> QED
    BY <2>2 DEF PromiseStep, Promise!Next, Promise!Ids, Requests
<1>9. CASE waiting = listener /\ status' = [status EXCEPT ![n] = "delivered"]
  <2>1. queue = << >>
    BY <1>9 DEF BridgeInv, NoLostWakeup, Submit
  <2>2. \A r \in Requests : status[r] # "queued"
    BY <2>1 DEF BridgeInv, QueueMatchesPending
  <2>3. \A r \in Requests : PhaseMap[r] # "waiting"
    BY <1>1, <2>2, PhaseTells
  <2>4. PhaseMap' = [PhaseMap EXCEPT ![n] = "handed"]
    BY <1>1, <1>9 DEF PhaseMap, Phase, TypeOK
  <2>5. Promise!Accept(n)
    BY <1>4, <1>5, <1>6, <1>7, <2>3, <2>4
       DEF Promise!Accept, Promise!Ids, Requests, PhaseMap, ApprovedMap
  <2> QED
    BY <2>5 DEF PromiseStep, Promise!Next, Promise!Ids, Requests
<1> QED
  BY <1>6, <1>8, <1>9

LEMMA ApproveExecutionIsApprove ==
  ASSUME BridgeInv, NEW l \in Listeners, NEW r \in Requests, ApproveExecution(l, r)
  PROVE  PromiseStep
<1>1. TypeOK
  BY DEF BridgeInv
<1>2. PhaseMap[r] = "handed"
  BY <1>1, PhaseTells DEF ApproveExecution
<1>3. r \notin ApprovedMap
  BY DEF ApproveExecution, ApprovedMap
<1>4. ApprovedMap' = ApprovedMap \cup {r}
  BY <1>1 DEF ApproveExecution, ApprovedMap, TypeOK
<1>5. PhaseMap' = PhaseMap /\ outcome' = outcome
  BY DEF ApproveExecution, PhaseMap
<1>6. Promise!Approve(r)
  BY <1>2, <1>3, <1>4, <1>5 DEF Promise!Approve, PhaseMap, ApprovedMap
<1> QED
  BY <1>6 DEF PromiseStep, Promise!Next, Promise!Ids, Requests

LEMMA InitIsPromised == Init => Promise!Init
BY DEF Init, Promise!Init, Promise!Ids, Requests, Phase

LEMMA NextIsPromised ==
  BridgeInv /\ BridgeInv' /\ [Next]_vars => [Promise!Next]_(Promise!promiseVars)
<1> SUFFICES ASSUME BridgeInv, BridgeInv', [Next]_vars
             PROVE  PromiseStep
  BY DEF PromiseStep, Promise!promiseVars, PhaseMap, ApprovedMap
<1>1. UNCHANGED <<status, owner, executing, outcome>> => PromiseStep
  BY DEF PromiseStep, PhaseMap, ApprovedMap
<1> QED
  BY <1>1, NextShape, SettlingIsClose, PollTakesIsHand, SubmitIsAccept,
     ApproveExecutionIsApprove

(* Whatever windows, clients and timers do, a request is accepted, handed  *)
(* over, approved and settled as McpPromise says, each at most once.       *)
THEOREM BridgeKeepsPromise == Spec => KeepsPromise
<1> QED
  BY InitIsPromised, NextIsPromised, InvariantHolds, PTL
     DEF Spec, KeepsPromise, Promise!Spec

-----------------------------------------------------------------------------
(* The calls: each action keeps the five parts of CallsInv. *)

(* How often a call may be sent, and what its copies are. *)
LEMMA AttemptsAre ==
  \A c \in R!Calls :
    R!AttemptsOf(c) \in Nat /\ 1 <= R!AttemptsOf(c) /\ R!AttemptsOf(c) <= Attempts
BY CallsAssumption DEF R!CallsAssumption, R!AttemptsOf

LEMMA CopyOf ==
  \A c \in R!Calls : \A i \in Nat :
    1 <= i /\ i <= R!AttemptsOf(c) =>
      /\ <<c, i>> \in R!Copies
      /\ <<c, i>>[1] = c /\ <<c, i>>[2] = i
<1> SUFFICES ASSUME NEW c \in R!Calls, NEW i \in Nat, 1 <= i, i <= R!AttemptsOf(c)
             PROVE  <<c, i>> \in R!Copies
  OBVIOUS
<1>1. i \in 1 .. Attempts
  BY AttemptsAre, CallsAssumption DEF R!CallsAssumption
<1> QED
  BY <1>1 DEF R!Copies

LEMMA CopyParts ==
  \A r \in R!Copies :
    /\ r[1] \in R!Calls
    /\ r[2] \in Nat /\ 1 <= r[2] /\ r[2] <= R!AttemptsOf(r[1])
    /\ r = <<r[1], r[2]>>
BY CallsAssumption DEF R!Copies, R!CallsAssumption

(* A call, taken apart, and what a client writes of it. *)
LEMMA CallIs ==
  ASSUME R!TypeOK, NEW c \in R!Calls
  PROVE  /\ call[c] = [at |-> call[c].at, attempt |-> call[c].attempt, got |-> call[c].got]
         /\ call[c].at \in R!Stages /\ call[c].attempt \in Nat
         /\ call[c].got \in {None, "result", "error", "lost", "aborted"}
BY DEF R!TypeOK

LEMMA EndsIs ==
  ASSUME R!TypeOK, NEW c \in R!Calls, NEW got \in {"result", "error", "lost", "aborted"}
  PROVE  /\ R!Ends(c, got) \in
              [R!Calls -> [at : R!Stages, attempt : Nat,
                           got : {None, "result", "error", "lost", "aborted"}]]
         /\ R!Ends(c, got)[c].at = "ended" /\ R!Ends(c, got)[c].got = got
         /\ R!Ends(c, got)[c].attempt = call[c].attempt
         /\ \A d \in R!Calls : d # c => R!Ends(c, got)[d] = call[d]
<1> DEFINE row == [call[c] EXCEPT !.at = "ended", !.got = got]
<1>1. call[c] \in [at : R!Stages, attempt : Nat,
                   got : {None, "result", "error", "lost", "aborted"}]
  BY DEF R!TypeOK
<1>2. row \in [at : R!Stages, attempt : Nat,
               got : {None, "result", "error", "lost", "aborted"}]
  BY <1>1 DEF R!Stages
<1>3. row.at = "ended" /\ row.got = got /\ row.attempt = call[c].attempt
  BY <1>1
<1>4. R!Ends(c, got) = [call EXCEPT ![c] = row]
  BY DEF R!Ends, R!TypeOK
<1> HIDE DEF row
<1> QED
  BY <1>2, <1>3, <1>4 DEF R!TypeOK

(* A call that is over, whatever it got, needs no connection; a result is  *)
(* that of its copy.                                                       *)
LEMMA CallEnds ==
  ASSUME R!CallsInv, NEW c \in R!Calls, NEW got \in {"result", "error", "lost", "aborted"},
         call' = R!Ends(c, got),
         open' = open \ {R!Copy(c)},
         R!At(c, "fetching") \/ got # "result",
         got = "result" => R!Copy(c) \in executed,
         signalled' \subseteq R!Calls,
         UNCHANGED <<token, place, R!Server>>
  PROVE  R!CallsInv'
<1>0. R!TypeOK /\ R!SentSoFar /\ R!OneConnection /\ R!OneStatement
      /\ R!RepeatsOnlyWhatWasLost
  BY DEF R!CallsInv
<1>1. /\ call' \in [R!Calls -> [at : R!Stages, attempt : Nat,
                              got : {None, "result", "error", "lost", "aborted"}]]
      /\ call'[c].at = "ended" /\ call'[c].got = got
      /\ \A d \in R!Calls : call'[d].attempt = call[d].attempt
      /\ \A d \in R!Calls : d # c => call'[d] = call[d]
  <2>1. R!TypeOK
    BY <1>0
  <2>2. /\ call' \in [R!Calls -> [at : R!Stages, attempt : Nat,
                              got : {None, "result", "error", "lost", "aborted"}]]
        /\ call'[c].at = "ended" /\ call'[c].got = got
        /\ call'[c].attempt = call[c].attempt
        /\ \A d \in R!Calls : d # c => call'[d] = call[d]
    BY <2>1, EndsIs
  <2> QED
    BY <2>2
<1>2. R!TypeOK'
  BY <1>0, <1>1 DEF R!TypeOK, R!Server
<1>3. R!SentSoFar'
  BY <1>0, <1>1, CopyParts DEF R!SentSoFar, R!Server, R!At
<1>4. R!OneConnection'
  <2> SUFFICES ASSUME NEW r \in open' PROVE R!At(r[1], "fetching")' /\ r[2] = call'[r[1]].attempt
    BY DEF R!OneConnection
  <2>1. r \in R!Copies /\ r \in open /\ r # R!Copy(c)
    BY <1>0 DEF R!TypeOK
  <2>2. r[1] # c
    BY <1>0, <2>1, CopyParts DEF R!OneConnection, R!Copy
  <2> QED
    BY <1>0, <1>1, <2>1, <2>2, CopyParts DEF R!OneConnection, R!At
<1>5. R!OneStatement'
  BY <1>0 DEF R!OneStatement, R!AtWork, R!Server
<1>6. R!RepeatsOnlyWhatWasLost'
  <2>1. \A d \in R!Calls : R!Copy(d)' = R!Copy(d)
    BY <1>1 DEF R!Copy
  <2> QED
    BY <1>0, <1>1, <2>1, CopyParts DEF R!RepeatsOnlyWhatWasLost, R!At, R!Server
<1> QED
  BY <1>2, <1>3, <1>4, <1>5, <1>6 DEF R!CallsInv

(* The next copy is sent while no other of the call has a connection. *)
LEMMA CallSends ==
  ASSUME R!CallsInv, NEW c \in R!Calls, call[c].at \in {"token", "ready", "sleeping"},
         R!Fetch(c)
  PROVE  R!CallsInv'
<1>0. R!TypeOK /\ R!SentSoFar /\ R!OneConnection /\ R!OneStatement
      /\ R!RepeatsOnlyWhatWasLost
  BY DEF R!CallsInv
<1>1. R!Copy(c) \notin open
  <2>1. R!Copy(c)[1] = c
    BY DEF R!Copy
  <2> QED
    BY <1>0, <2>1 DEF R!OneConnection, R!At
<1>2. CASE c \in signalled
  <2>1. open' = open \ {R!Copy(c)}
    BY <1>1, <1>2 DEF R!Fetch
  <2>2. /\ call' = R!Ends(c, "aborted") /\ signalled' \subseteq R!Calls
        /\ UNCHANGED <<token, place, R!Server>>
    BY <1>0, <1>2 DEF R!Fetch, R!TypeOK
  <2> QED
    BY <2>1, <2>2, CallEnds
<1>3. CASE c \notin signalled
  <2> DEFINE next == call[c].attempt + 1
             sent == <<c, next>>
             fetching == [at |-> "fetching", attempt |-> next, got |-> call[c].got]
  <2>1. /\ next \in Nat /\ 1 <= next /\ next <= R!AttemptsOf(c)
        /\ sent \in R!Copies /\ sent[1] = c /\ sent[2] = next
    <3>1. call[c].attempt \in Nat /\ call[c].attempt < R!AttemptsOf(c)
      <4>1. call[c].attempt \in Nat
        BY <1>0, CallIs
      <4>2. R!AttemptsOf(c) \in Nat /\ 1 <= R!AttemptsOf(c)
        BY AttemptsAre
      <4> QED
        BY <1>0, <4>1, <4>2 DEF R!SentSoFar, R!At
    <3>2. next \in Nat /\ 1 <= next /\ next <= R!AttemptsOf(c)
      BY <3>1, AttemptsAre
    <3> QED
      BY <3>2, CopyOf
  <2>2. /\ call' = [call EXCEPT ![c] = fetching]
        /\ place' = [place EXCEPT ![sent] = "sent"]
        /\ open' = open \cup {sent}
        /\ UNCHANGED <<token, signalled, R!Server>>
    BY <1>0, <1>3, CallIs DEF R!Fetch, R!TypeOK
  <2>3. fetching \in [at : R!Stages, attempt : Nat,
                      got : {None, "result", "error", "lost", "aborted"}]
    BY <1>0, <2>1, CallIs DEF R!Stages
  <2>4. /\ call'[c].at = "fetching" /\ call'[c].attempt = next /\ call'[c].got = call[c].got
        /\ \A d \in R!Calls : d # c => call'[d] = call[d]
    BY <1>0, <2>2 DEF R!TypeOK
  <2>5. /\ place[sent] = "unsent" /\ place'[sent] = "sent"
        /\ \A r \in R!Copies : r # sent => place'[r] = place[r]
    BY <1>0, <2>1, <2>2 DEF R!TypeOK, R!SentSoFar
  <2>6. \A r \in R!Copies : r[1] = c /\ r # sent => r[2] # next
    BY <2>1, CopyParts
  <2>7. \A r \in open : r[1] # c
    BY <1>0 DEF R!OneConnection, R!At
  <2> HIDE DEF next, sent, fetching
  <2>11. R!TypeOK'
    <3>1. call' \in [R!Calls -> [at : R!Stages, attempt : Nat,
                                 got : {None, "result", "error", "lost", "aborted"}]]
      BY <1>0, <2>2, <2>3 DEF R!TypeOK
    <3>2. place' \in [R!Copies -> R!Places]
      BY <1>0, <2>1, <2>2 DEF R!TypeOK, R!Places
    <3> QED
      BY <1>0, <2>1, <2>2, <3>1, <3>2 DEF R!TypeOK, R!Server
  <2>12. R!SentSoFar'
    <3>1. \A d \in R!Calls :
            /\ call'[d].attempt <= R!AttemptsOf(d)
            /\ call'[d].at \in {"idle", "token", "ready"} => call'[d].attempt = 0
            /\ R!At(d, "sleeping")' => call'[d].attempt < R!AttemptsOf(d)
            /\ R!At(d, "fetching")' => call'[d].attempt > 0
      BY <1>0, <2>1, <2>4 DEF R!SentSoFar, R!At
    <3>2. ASSUME NEW r \in R!Copies
          PROVE  place'[r] = "unsent" <=> r[2] > call'[r[1]].attempt
      <4>1. r[2] \in Nat /\ r[1] \in R!Calls /\ call[c].attempt \in Nat
        BY <1>0, CopyParts, CallIs
      <4>2. CASE r = sent
        BY <2>1, <2>4, <2>5, <4>2
      <4>3. CASE r # sent /\ r[1] = c
        BY <1>0, <2>4, <2>5, <2>6, <4>1, <4>3 DEF R!SentSoFar, next
      <4>4. CASE r[1] # c
        BY <1>0, <2>1, <2>4, <2>5, <4>1, <4>4 DEF R!SentSoFar
      <4> QED
        BY <4>2, <4>3, <4>4
    <3> QED
      BY <3>1, <3>2 DEF R!SentSoFar
  <2>13. R!OneConnection'
    <3> SUFFICES ASSUME NEW r \in open'
                 PROVE  R!At(r[1], "fetching")' /\ r[2] = call'[r[1]].attempt
      BY DEF R!OneConnection
    <3>1. CASE r = sent
      BY <2>1, <2>4, <3>1 DEF R!At
    <3>2. CASE r \in open
      BY <1>0, <2>4, <2>7, <3>2, CopyParts DEF R!OneConnection, R!At, R!TypeOK
    <3> QED
      BY <2>2, <3>1, <3>2
  <2>14. R!OneStatement'
    BY <1>0, <2>1, <2>2, <2>5 DEF R!OneStatement, R!AtWork, R!Server
  <2>15. R!RepeatsOnlyWhatWasLost'
    <3>1. \A r \in R!Copies : r[2] < call'[r[1]].attempt => r \notin open'
      <4> SUFFICES ASSUME NEW r \in R!Copies, r \in open' PROVE ~(r[2] < call'[r[1]].attempt)
        OBVIOUS
      <4> QED
        BY <2>13, <2>11, CopyParts, CallIs DEF R!OneConnection, R!TypeOK
    <3>2. \A d \in R!Calls : call'[d].got \in {"result", "error"} => R!At(d, "ended")'
      BY <1>0, <2>4 DEF R!RepeatsOnlyWhatWasLost, R!At
    <3>3. \A d \in R!Calls : call'[d].got = "result" => R!Copy(d)' \in executed'
      <4>1. call[c].got # "result"
        BY <1>0 DEF R!RepeatsOnlyWhatWasLost, R!At
      <4> QED
        BY <1>0, <2>2, <2>4, <4>1 DEF R!RepeatsOnlyWhatWasLost, R!Copy, R!Server
    <3>4. \A r \in R!Copies :
            place'[r] \in {"executing", "cancelling", "result"} => r \in executed'
      BY <1>0, <2>2, <2>5 DEF R!RepeatsOnlyWhatWasLost, R!Server
    <3> QED
      BY <3>1, <3>2, <3>3, <3>4 DEF R!RepeatsOnlyWhatWasLost
  <2> QED
    BY <2>11, <2>12, <2>13, <2>14, <2>15 DEF R!CallsInv
<1> QED
  BY <1>2, <1>3

LEMMA CallsSend ==
  ASSUME R!CallsInv, NEW c \in R!Calls, R!Send(c)
  PROVE  R!CallsInv'
BY CallSends DEF R!Send, R!At

LEMMA CallsSleepOver ==
  ASSUME R!CallsInv, NEW c \in R!Calls, R!SleepOver(c)
  PROVE  R!CallsInv'
BY CallSends DEF R!SleepOver, R!At

LEMMA CallsTokenFails ==
  ASSUME R!CallsInv, R!TokenFails
  PROVE  R!CallsInv'
<1>0. R!TypeOK /\ R!SentSoFar /\ R!OneConnection /\ R!OneStatement
      /\ R!RepeatsOnlyWhatWasLost
  BY DEF R!CallsInv
<1>1. \A c \in R!Calls :
        /\ call'[c] \in [at : R!Stages, attempt : Nat,
                         got : {None, "result", "error", "lost", "aborted"}]
        /\ call'[c].attempt = call[c].attempt
        /\ \/ call'[c] = call[c]
           \/ R!At(c, "token") /\ call'[c].at = "ended" /\ call'[c].got = "error"
  <2> SUFFICES ASSUME NEW c \in R!Calls
               PROVE  /\ call'[c] \in [at : R!Stages, attempt : Nat,
                                       got : {None, "result", "error", "lost", "aborted"}]
                      /\ call'[c].attempt = call[c].attempt
                      /\ \/ call'[c] = call[c]
                         \/ /\ R!At(c, "token")
                            /\ call'[c].at = "ended" /\ call'[c].got = "error"
    OBVIOUS
  <2>1. CASE ~R!At(c, "token")
    BY <1>0, <2>1 DEF R!TokenFails, R!TypeOK
  <2>2. CASE R!At(c, "token")
    <3>1. call'[c] = [at |-> "ended", attempt |-> call[c].attempt, got |-> "error"]
      <4>1. call[c] = [at |-> call[c].at, attempt |-> call[c].attempt, got |-> call[c].got]
      BY <1>0, CallIs
    <4>2. call'[c] = [call[c] EXCEPT !.at = "ended", !.got = "error"]
      BY <2>2 DEF R!TokenFails
    <4> QED
      BY <4>1, <4>2
    <3>2. call[c].attempt \in Nat
      BY <1>0, CallIs
    <3> QED
      BY <2>2, <3>1, <3>2 DEF R!Stages
  <2> QED
    BY <2>1, <2>2
<1>2. R!TypeOK'
  <2>1. call' \in [R!Calls -> [at : R!Stages, attempt : Nat,
                               got : {None, "result", "error", "lost", "aborted"}]]
    BY <1>1 DEF R!TokenFails
  <2> QED
    BY <1>0, <2>1 DEF R!TokenFails, R!TypeOK, R!Wire
<1>3. R!SentSoFar'
  BY <1>0, <1>1, CopyParts DEF R!SentSoFar, R!At, R!TokenFails, R!Wire
<1>4. R!OneConnection'
  BY <1>0, <1>1, CopyParts DEF R!OneConnection, R!At, R!TokenFails, R!Wire, R!TypeOK
<1>5. R!OneStatement'
  BY <1>0 DEF R!OneStatement, R!AtWork, R!TokenFails, R!Wire
<1>6. R!RepeatsOnlyWhatWasLost'
  BY <1>0, <1>1, CopyParts DEF R!RepeatsOnlyWhatWasLost, R!At, R!Copy, R!TokenFails, R!Wire
<1> QED
  BY <1>2, <1>3, <1>4, <1>5, <1>6 DEF R!CallsInv

LEMMA CallsFetchFails ==
  ASSUME R!CallsInv, NEW c \in R!Calls, R!FetchFails(c)
  PROVE  R!CallsInv'
<1>0. R!TypeOK /\ R!SentSoFar /\ R!OneConnection /\ R!OneStatement
      /\ R!RepeatsOnlyWhatWasLost
  BY DEF R!CallsInv
<1>1. CASE ~(call[c].attempt < R!AttemptsOf(c))
  BY <1>0, <1>1, CallEnds DEF R!FetchFails, R!Wire, R!Server, R!TypeOK
<1>2. CASE call[c].attempt < R!AttemptsOf(c)
  <2>1. call' = [call EXCEPT ![c] =
          [at |-> "sleeping", attempt |-> call[c].attempt, got |-> call[c].got]]
    <3>1. call[c] = [at |-> call[c].at, attempt |-> call[c].attempt, got |-> call[c].got]
      BY <1>0, CallIs
    <3>2. [call[c] EXCEPT !.at = "sleeping"]
            = [at |-> "sleeping", attempt |-> call[c].attempt, got |-> call[c].got]
      BY <3>1
    <3>3. call' = [call EXCEPT ![c] = [call[c] EXCEPT !.at = "sleeping"]]
      BY <1>0, <1>2 DEF R!FetchFails, R!TypeOK
    <3> QED
      BY <3>2, <3>3
  <2>2. /\ call' \in [R!Calls -> [at : R!Stages, attempt : Nat,
                              got : {None, "result", "error", "lost", "aborted"}]]
        /\ call'[c].at = "sleeping"
        /\ \A d \in R!Calls : d # c => call'[d] = call[d]
        /\ \A d \in R!Calls : call'[d].attempt = call[d].attempt /\ call'[d].got = call[d].got
    BY <1>0, <2>1, CallIs DEF R!TypeOK, R!Stages
  <2>3. R!TypeOK'
    BY <1>0, <2>2 DEF R!TypeOK, R!FetchFails, R!Wire
  <2>4. R!SentSoFar'
    BY <1>0, <1>2, <2>2, CopyParts DEF R!SentSoFar, R!At, R!FetchFails, R!Wire
  <2>5. R!OneConnection'
    <3> SUFFICES ASSUME NEW r \in open
                 PROVE  R!At(r[1], "fetching")' /\ r[2] = call'[r[1]].attempt
      BY DEF R!OneConnection, R!FetchFails, R!Wire
    <3>1. r \in R!Copies
      BY <1>0 DEF R!TypeOK
    <3>2. r[1] # c
      BY <1>0, <3>1, CopyParts DEF R!OneConnection, R!Copy, R!FetchFails
    <3> QED
      BY <1>0, <2>2, <3>1, <3>2, CopyParts DEF R!OneConnection, R!At
  <2>6. R!OneStatement'
    BY <1>0 DEF R!OneStatement, R!AtWork, R!FetchFails, R!Wire
  <2>7. R!RepeatsOnlyWhatWasLost'
    <3>1. \A d \in R!Calls : R!Copy(d)' = R!Copy(d)
      BY <2>2 DEF R!Copy
    <3> QED
      BY <1>0, <2>2, <3>1, CopyParts
         DEF R!RepeatsOnlyWhatWasLost, R!At, R!FetchFails, R!Wire
  <2> QED
    BY <2>3, <2>4, <2>5, <2>6, <2>7 DEF R!CallsInv
<1> QED
  BY <1>1, <1>2

LEMMA CallsReceive ==
  ASSUME R!CallsInv, NEW c \in R!Calls, R!Receive(c)
  PROVE  R!CallsInv'
<1>0. R!TypeOK /\ R!SentSoFar /\ R!RepeatsOnlyWhatWasLost
  BY DEF R!CallsInv
<1>1. R!Copy(c) \in R!Copies
  <2>1. call[c].attempt \in Nat /\ 1 <= call[c].attempt
        /\ call[c].attempt <= R!AttemptsOf(c)
    <3>1. call[c].attempt \in Nat
      BY <1>0, CallIs
    <3> QED
      BY <1>0, <3>1 DEF R!Receive, R!SentSoFar, R!At
  <2> QED
    BY <2>1, CopyOf DEF R!Copy
<1>2. /\ open' = open \ {R!Copy(c)} /\ signalled' \subseteq R!Calls
      /\ UNCHANGED <<token, place, R!Server>> /\ R!At(c, "fetching")
  BY <1>0 DEF R!Receive, R!TypeOK
<1>3. CASE call' = R!Ends(c, "lost")
  BY <1>2, <1>3, CallEnds
<1>4. CASE place[R!Copy(c)] = "result" /\ call' = R!Ends(c, "result")
  <2>1. R!Copy(c) \in executed
    BY <1>0, <1>1, <1>4 DEF R!RepeatsOnlyWhatWasLost
  <2> QED
    BY <1>2, <1>4, <2>1, CallEnds
<1>5. CASE call' = R!Ends(c, "error")
  BY <1>2, <1>5, CallEnds
<1> QED
  BY <1>3, <1>4, <1>5 DEF R!Receive

LEMMA CallsAbort ==
  ASSUME R!CallsInv, NEW c \in R!Calls, R!Abort(c)
  PROVE  R!CallsInv'
<1>0. R!TypeOK /\ R!SentSoFar /\ R!OneConnection /\ R!OneStatement
      /\ R!RepeatsOnlyWhatWasLost
  BY DEF R!CallsInv
<1>1. CASE R!At(c, "fetching")
  BY <1>0, <1>1, CallEnds DEF R!Abort, R!TypeOK
<1>2. CASE ~R!At(c, "fetching")
  <2>1. R!TypeOK'
    BY <1>0, <1>2 DEF R!Abort, R!TypeOK, R!Server
  <2> QED
    BY <1>0, <1>2, <2>1
       DEF R!CallsInv, R!Abort, R!Server, R!SentSoFar, R!OneConnection, R!OneStatement,
           R!RepeatsOnlyWhatWasLost, R!At, R!AtWork, R!Copy
<1> QED
  BY <1>1, <1>2


LEMMA CallsBegin ==
  ASSUME R!CallsInv, NEW c \in R!Calls, R!Begin(c)
  PROVE  R!CallsInv'
<1> USE CopyParts DEF R!Begin, R!Wire, R!Server, R!Client
<1>0. R!TypeOK /\ R!SentSoFar /\ R!OneConnection /\ R!OneStatement
      /\ R!RepeatsOnlyWhatWasLost
  BY DEF R!CallsInv
<1>1. R!TypeOK'
  BY <1>0 DEF R!TypeOK, R!Stages, R!Places
<1>2. R!SentSoFar'
  BY <1>0 DEF R!TypeOK, R!SentSoFar, R!At
<1>3. R!OneConnection'
  BY <1>0 DEF R!TypeOK, R!OneConnection, R!At
<1>4. R!OneStatement'
  BY <1>0, CallsAssumption DEF R!TypeOK, R!SentSoFar, R!OneStatement, R!AtWork, R!CallsAssumption
<1>5. R!RepeatsOnlyWhatWasLost'
  BY <1>0, AttemptsAre DEF R!TypeOK, R!RepeatsOnlyWhatWasLost, R!OneStatement, R!At, R!Copy
<1> QED
  BY <1>1, <1>2, <1>3, <1>4, <1>5 DEF R!CallsInv

LEMMA CallsTokenArrives ==
  ASSUME R!CallsInv, R!TokenArrives
  PROVE  R!CallsInv'
<1> USE CopyParts DEF R!TokenArrives, R!Wire, R!Server, R!Client
<1>0. R!TypeOK /\ R!SentSoFar /\ R!OneConnection /\ R!OneStatement
      /\ R!RepeatsOnlyWhatWasLost
  BY DEF R!CallsInv
<1>1. R!TypeOK'
  BY <1>0 DEF R!TypeOK, R!Stages, R!Places
<1>2. R!SentSoFar'
  BY <1>0 DEF R!TypeOK, R!SentSoFar, R!At
<1>3. R!OneConnection'
  BY <1>0 DEF R!TypeOK, R!OneConnection, R!At
<1>4. R!OneStatement'
  BY <1>0, CallsAssumption DEF R!TypeOK, R!SentSoFar, R!OneStatement, R!AtWork, R!CallsAssumption
<1>5. R!RepeatsOnlyWhatWasLost'
  BY <1>0, AttemptsAre DEF R!TypeOK, R!RepeatsOnlyWhatWasLost, R!OneStatement, R!At, R!Copy
<1> QED
  BY <1>1, <1>2, <1>3, <1>4, <1>5 DEF R!CallsInv

LEMMA CallsBreak ==
  ASSUME R!CallsInv, NEW r \in R!Copies, R!Break(r)
  PROVE  R!CallsInv'
<1> USE CopyParts DEF R!Break, R!Wire, R!Server, R!Client
<1>0. R!TypeOK /\ R!SentSoFar /\ R!OneConnection /\ R!OneStatement
      /\ R!RepeatsOnlyWhatWasLost
  BY DEF R!CallsInv
<1>1. R!TypeOK'
  BY <1>0 DEF R!TypeOK, R!Stages, R!Places
<1>2. R!SentSoFar'
  BY <1>0 DEF R!TypeOK, R!SentSoFar, R!At
<1>3. R!OneConnection'
  BY <1>0 DEF R!TypeOK, R!OneConnection, R!At
<1>4. R!OneStatement'
  BY <1>0, CallsAssumption DEF R!TypeOK, R!SentSoFar, R!OneStatement, R!AtWork, R!CallsAssumption
<1>5. R!RepeatsOnlyWhatWasLost'
  BY <1>0, AttemptsAre DEF R!TypeOK, R!RepeatsOnlyWhatWasLost, R!OneStatement, R!At, R!Copy
<1> QED
  BY <1>1, <1>2, <1>3, <1>4, <1>5 DEF R!CallsInv

LEMMA CallsRefuse ==
  ASSUME R!CallsInv, NEW r \in R!Copies, R!Refuse(r)
  PROVE  R!CallsInv'
<1> USE CopyParts DEF R!Refuse, R!Wire, R!Server, R!Client
<1>0. R!TypeOK /\ R!SentSoFar /\ R!OneConnection /\ R!OneStatement
      /\ R!RepeatsOnlyWhatWasLost
  BY DEF R!CallsInv
<1>1. R!TypeOK'
  BY <1>0 DEF R!TypeOK, R!Stages, R!Places
<1>2. R!SentSoFar'
  BY <1>0 DEF R!TypeOK, R!SentSoFar, R!At
<1>3. R!OneConnection'
  BY <1>0 DEF R!TypeOK, R!OneConnection, R!At
<1>4. R!OneStatement'
  BY <1>0, CallsAssumption DEF R!TypeOK, R!SentSoFar, R!OneStatement, R!AtWork, R!CallsAssumption
<1>5. R!RepeatsOnlyWhatWasLost'
  BY <1>0, AttemptsAre DEF R!TypeOK, R!RepeatsOnlyWhatWasLost, R!OneStatement, R!At, R!Copy
<1> QED
  BY <1>1, <1>2, <1>3, <1>4, <1>5 DEF R!CallsInv

LEMMA CallsReadBodyFails ==
  ASSUME R!CallsInv, NEW r \in R!Copies, R!ReadBodyFails(r)
  PROVE  R!CallsInv'
<1> USE CopyParts DEF R!ReadBodyFails, R!Moved, R!Wire, R!Server, R!Client
<1>0. R!TypeOK /\ R!SentSoFar /\ R!OneConnection /\ R!OneStatement
      /\ R!RepeatsOnlyWhatWasLost
  BY DEF R!CallsInv
<1>1. R!TypeOK'
  BY <1>0 DEF R!TypeOK, R!Stages, R!Places
<1>2. R!SentSoFar'
  BY <1>0 DEF R!TypeOK, R!SentSoFar, R!At
<1>3. R!OneConnection'
  BY <1>0 DEF R!TypeOK, R!OneConnection, R!At
<1>4. R!OneStatement'
  BY <1>0, CallsAssumption DEF R!TypeOK, R!SentSoFar, R!OneStatement, R!AtWork, R!CallsAssumption
<1>5. R!RepeatsOnlyWhatWasLost'
  BY <1>0, AttemptsAre DEF R!TypeOK, R!RepeatsOnlyWhatWasLost, R!OneStatement, R!At, R!Copy
<1> QED
  BY <1>1, <1>2, <1>3, <1>4, <1>5 DEF R!CallsInv

LEMMA CallsReach ==
  ASSUME R!CallsInv, NEW r \in R!Copies, R!Reach(r)
  PROVE  R!CallsInv'
<1> USE CopyParts DEF R!Reach, R!Moved, R!Execute, R!Wire, R!Server, R!Client
<1>0. R!TypeOK /\ R!SentSoFar /\ R!OneConnection /\ R!OneStatement
      /\ R!RepeatsOnlyWhatWasLost
  BY DEF R!CallsInv
<1>1. R!TypeOK'
  BY <1>0 DEF R!TypeOK, R!Stages, R!Places
<1>2. R!SentSoFar'
  BY <1>0 DEF R!TypeOK, R!SentSoFar, R!At
<1>3. R!OneConnection'
  BY <1>0 DEF R!TypeOK, R!OneConnection, R!At
<1>4. R!OneStatement'
  BY <1>0, CallsAssumption DEF R!TypeOK, R!SentSoFar, R!OneStatement, R!AtWork, R!CallsAssumption
<1>5. R!RepeatsOnlyWhatWasLost'
  BY <1>0, AttemptsAre DEF R!TypeOK, R!RepeatsOnlyWhatWasLost, R!OneStatement, R!At, R!Copy
<1> QED
  BY <1>1, <1>2, <1>3, <1>4, <1>5 DEF R!CallsInv

LEMMA CallsReachMcp ==
  ASSUME R!CallsInv, NEW r \in R!Copies, R!ReachMcp(r)
  PROVE  R!CallsInv'
<1> USE CopyParts DEF R!ReachMcp, R!Moved, R!Execute, R!Wire, R!Server, R!Client
<1>0. R!TypeOK /\ R!SentSoFar /\ R!OneConnection /\ R!OneStatement
      /\ R!RepeatsOnlyWhatWasLost
  BY DEF R!CallsInv
<1>1. R!TypeOK'
  BY <1>0 DEF R!TypeOK, R!Stages, R!Places
<1>2. R!SentSoFar'
  BY <1>0 DEF R!TypeOK, R!SentSoFar, R!At
<1>3. R!OneConnection'
  BY <1>0 DEF R!TypeOK, R!OneConnection, R!At
<1>4. R!OneStatement'
  BY <1>0, CallsAssumption DEF R!TypeOK, R!SentSoFar, R!OneStatement, R!AtWork, R!CallsAssumption
<1>5. R!RepeatsOnlyWhatWasLost'
  BY <1>0, AttemptsAre DEF R!TypeOK, R!RepeatsOnlyWhatWasLost, R!OneStatement, R!At, R!Copy
<1> QED
  BY <1>1, <1>2, <1>3, <1>4, <1>5 DEF R!CallsInv

LEMMA CallsConnected ==
  ASSUME R!CallsInv, NEW r \in R!Copies, R!Connected(r)
  PROVE  R!CallsInv'
<1> USE CopyParts DEF R!Connected, R!Moved, R!Execute, R!Answered, R!Wire, R!Server, R!Client
<1>0. R!TypeOK /\ R!SentSoFar /\ R!OneConnection /\ R!OneStatement
      /\ R!RepeatsOnlyWhatWasLost
  BY DEF R!CallsInv
<1>1. R!TypeOK'
  BY <1>0 DEF R!TypeOK, R!Stages, R!Places
<1>2. R!SentSoFar'
  BY <1>0 DEF R!TypeOK, R!SentSoFar, R!At
<1>3. R!OneConnection'
  BY <1>0 DEF R!TypeOK, R!OneConnection, R!At
<1>4. R!OneStatement'
  BY <1>0, CallsAssumption DEF R!TypeOK, R!SentSoFar, R!OneStatement, R!AtWork, R!CallsAssumption
<1>5. R!RepeatsOnlyWhatWasLost'
  BY <1>0, AttemptsAre DEF R!TypeOK, R!RepeatsOnlyWhatWasLost, R!OneStatement, R!At, R!Copy
<1> QED
  BY <1>1, <1>2, <1>3, <1>4, <1>5 DEF R!CallsInv

LEMMA CallsConnectFails ==
  ASSUME R!CallsInv, NEW r \in R!Copies, R!ConnectFails(r)
  PROVE  R!CallsInv'
<1> USE CopyParts DEF R!ConnectFails, R!Moved, R!Answered, R!Wire, R!Server, R!Client
<1>0. R!TypeOK /\ R!SentSoFar /\ R!OneConnection /\ R!OneStatement
      /\ R!RepeatsOnlyWhatWasLost
  BY DEF R!CallsInv
<1>1. R!TypeOK'
  BY <1>0 DEF R!TypeOK, R!Stages, R!Places
<1>2. R!SentSoFar'
  BY <1>0 DEF R!TypeOK, R!SentSoFar, R!At
<1>3. R!OneConnection'
  BY <1>0 DEF R!TypeOK, R!OneConnection, R!At
<1>4. R!OneStatement'
  BY <1>0, CallsAssumption DEF R!TypeOK, R!SentSoFar, R!OneStatement, R!AtWork, R!CallsAssumption
<1>5. R!RepeatsOnlyWhatWasLost'
  BY <1>0, AttemptsAre DEF R!TypeOK, R!RepeatsOnlyWhatWasLost, R!OneStatement, R!At, R!Copy
<1> QED
  BY <1>1, <1>2, <1>3, <1>4, <1>5 DEF R!CallsInv

LEMMA CallsNotice ==
  ASSUME R!CallsInv, NEW r \in R!Copies, R!Notice(r)
  PROVE  R!CallsInv'
<1> USE CopyParts DEF R!Notice, R!Wire, R!Server, R!Client
<1>0. R!TypeOK /\ R!SentSoFar /\ R!OneConnection /\ R!OneStatement
      /\ R!RepeatsOnlyWhatWasLost
  BY DEF R!CallsInv
<1>1. R!TypeOK'
  BY <1>0 DEF R!TypeOK, R!Stages, R!Places
<1>2. R!SentSoFar'
  BY <1>0 DEF R!TypeOK, R!SentSoFar, R!At
<1>3. R!OneConnection'
  BY <1>0 DEF R!TypeOK, R!OneConnection, R!At
<1>4. R!OneStatement'
  BY <1>0, CallsAssumption DEF R!TypeOK, R!SentSoFar, R!OneStatement, R!AtWork, R!CallsAssumption
<1>5. R!RepeatsOnlyWhatWasLost'
  BY <1>0, AttemptsAre DEF R!TypeOK, R!RepeatsOnlyWhatWasLost, R!OneStatement, R!At, R!Copy
<1> QED
  BY <1>1, <1>2, <1>3, <1>4, <1>5 DEF R!CallsInv

LEMMA CallsWorkEnds ==
  ASSUME R!CallsInv, NEW r \in R!Copies, R!WorkEnds(r)
  PROVE  R!CallsInv'
<1> USE CopyParts DEF R!WorkEnds, R!Moved, R!Answered, R!MustWait, R!Wire, R!Server, R!Client
<1>0. R!TypeOK /\ R!SentSoFar /\ R!OneConnection /\ R!OneStatement
      /\ R!RepeatsOnlyWhatWasLost
  BY DEF R!CallsInv
<1>1. R!TypeOK'
  BY <1>0 DEF R!TypeOK, R!Stages, R!Places
<1>2. R!SentSoFar'
  BY <1>0 DEF R!TypeOK, R!SentSoFar, R!At
<1>3. R!OneConnection'
  BY <1>0 DEF R!TypeOK, R!OneConnection, R!At
<1>4. R!OneStatement'
  BY <1>0, CallsAssumption DEF R!TypeOK, R!SentSoFar, R!OneStatement, R!AtWork, R!CallsAssumption
<1>5. R!RepeatsOnlyWhatWasLost'
  BY <1>0, AttemptsAre DEF R!TypeOK, R!RepeatsOnlyWhatWasLost, R!OneStatement, R!At, R!Copy
<1> QED
  BY <1>1, <1>2, <1>3, <1>4, <1>5 DEF R!CallsInv

LEMMA CallsCancelEnds ==
  ASSUME R!CallsInv, NEW r \in R!Copies, R!CancelEnds(r)
  PROVE  R!CallsInv'
<1> USE CopyParts DEF R!CancelEnds, R!Moved, R!Answered, R!Wire, R!Server, R!Client
<1>0. R!TypeOK /\ R!SentSoFar /\ R!OneConnection /\ R!OneStatement
      /\ R!RepeatsOnlyWhatWasLost
  BY DEF R!CallsInv
<1>1. R!TypeOK'
  BY <1>0 DEF R!TypeOK, R!Stages, R!Places
<1>2. R!SentSoFar'
  BY <1>0 DEF R!TypeOK, R!SentSoFar, R!At
<1>3. R!OneConnection'
  BY <1>0 DEF R!TypeOK, R!OneConnection, R!At
<1>4. R!OneStatement'
  BY <1>0, CallsAssumption DEF R!TypeOK, R!SentSoFar, R!OneStatement, R!AtWork, R!CallsAssumption
<1>5. R!RepeatsOnlyWhatWasLost'
  BY <1>0, AttemptsAre DEF R!TypeOK, R!RepeatsOnlyWhatWasLost, R!OneStatement, R!At, R!Copy
<1> QED
  BY <1>1, <1>2, <1>3, <1>4, <1>5 DEF R!CallsInv

LEMMA CallsStarts ==
  ASSUME R!CallsInv, R!Starts
  PROVE  R!CallsInv'
<1> USE CopyParts DEF R!Starts, R!Wire, R!Server, R!Client
<1>0. R!TypeOK /\ R!SentSoFar /\ R!OneConnection /\ R!OneStatement
      /\ R!RepeatsOnlyWhatWasLost
  BY DEF R!CallsInv
<1>1. R!TypeOK'
  BY <1>0 DEF R!TypeOK, R!Stages, R!Places
<1>2. R!SentSoFar'
  BY <1>0 DEF R!TypeOK, R!SentSoFar, R!At
<1>3. R!OneConnection'
  BY <1>0 DEF R!TypeOK, R!OneConnection, R!At
<1>4. R!OneStatement'
  BY <1>0, CallsAssumption DEF R!TypeOK, R!SentSoFar, R!OneStatement, R!AtWork, R!CallsAssumption
<1>5. R!RepeatsOnlyWhatWasLost'
  BY <1>0, AttemptsAre DEF R!TypeOK, R!RepeatsOnlyWhatWasLost, R!OneStatement, R!At, R!Copy
<1> QED
  BY <1>1, <1>2, <1>3, <1>4, <1>5 DEF R!CallsInv

LEMMA CallsShutdown ==
  ASSUME R!CallsInv, R!Shutdown
  PROVE  R!CallsInv'
<1> USE CopyParts DEF R!Shutdown, R!Wire, R!Server, R!Client
<1>0. R!TypeOK /\ R!SentSoFar /\ R!OneConnection /\ R!OneStatement
      /\ R!RepeatsOnlyWhatWasLost
  BY DEF R!CallsInv
<1>1. R!TypeOK'
  BY <1>0 DEF R!TypeOK, R!Stages, R!Places
<1>2. R!SentSoFar'
  BY <1>0 DEF R!TypeOK, R!SentSoFar, R!At
<1>3. R!OneConnection'
  BY <1>0 DEF R!TypeOK, R!OneConnection, R!At
<1>4. R!OneStatement'
  BY <1>0, CallsAssumption DEF R!TypeOK, R!SentSoFar, R!OneStatement, R!AtWork, R!CallsAssumption
<1>5. R!RepeatsOnlyWhatWasLost'
  BY <1>0, AttemptsAre DEF R!TypeOK, R!RepeatsOnlyWhatWasLost, R!OneStatement, R!At, R!Copy
<1> QED
  BY <1>1, <1>2, <1>3, <1>4, <1>5 DEF R!CallsInv

LEMMA CallsClosed ==
  ASSUME R!CallsInv, R!Closed
  PROVE  R!CallsInv'
<1> USE CopyParts DEF R!Closed, R!Gone, R!Wire, R!Server, R!Client
<1>0. R!TypeOK /\ R!SentSoFar /\ R!OneConnection /\ R!OneStatement
      /\ R!RepeatsOnlyWhatWasLost
  BY DEF R!CallsInv
<1>1. R!TypeOK'
  BY <1>0 DEF R!TypeOK, R!Stages, R!Places
<1>2. R!SentSoFar'
  BY <1>0 DEF R!TypeOK, R!SentSoFar, R!At
<1>3. R!OneConnection'
  BY <1>0 DEF R!TypeOK, R!OneConnection, R!At
<1>4. R!OneStatement'
  BY <1>0, CallsAssumption DEF R!TypeOK, R!SentSoFar, R!OneStatement, R!AtWork, R!CallsAssumption
<1>5. R!RepeatsOnlyWhatWasLost'
  BY <1>0, AttemptsAre DEF R!TypeOK, R!RepeatsOnlyWhatWasLost, R!OneStatement, R!At, R!Copy
<1> QED
  BY <1>1, <1>2, <1>3, <1>4, <1>5 DEF R!CallsInv

LEMMA CallsDies ==
  ASSUME R!CallsInv, R!Dies
  PROVE  R!CallsInv'
<1> USE CopyParts DEF R!Dies, R!Gone, R!Wire, R!Server, R!Client
<1>0. R!TypeOK /\ R!SentSoFar /\ R!OneConnection /\ R!OneStatement
      /\ R!RepeatsOnlyWhatWasLost
  BY DEF R!CallsInv
<1>1. R!TypeOK'
  BY <1>0 DEF R!TypeOK, R!Stages, R!Places
<1>2. R!SentSoFar'
  BY <1>0 DEF R!TypeOK, R!SentSoFar, R!At
<1>3. R!OneConnection'
  BY <1>0 DEF R!TypeOK, R!OneConnection, R!At
<1>4. R!OneStatement'
  BY <1>0, CallsAssumption DEF R!TypeOK, R!SentSoFar, R!OneStatement, R!AtWork, R!CallsAssumption
<1>5. R!RepeatsOnlyWhatWasLost'
  BY <1>0, AttemptsAre DEF R!TypeOK, R!RepeatsOnlyWhatWasLost, R!OneStatement, R!At, R!Copy
<1> QED
  BY <1>1, <1>2, <1>3, <1>4, <1>5 DEF R!CallsInv

LEMMA CallsInit0 ==
  ASSUME R!Init
  PROVE  R!CallsInv
<1>0. /\ \A c \in R!Calls : call[c] = [at |-> "idle", attempt |-> 0, got |-> None]
      /\ \A r \in R!Copies : place[r] = "unsent" /\ cancellation[r] = "none"
  BY DEF R!Init, R!Idle
<1>1. R!TypeOK
  BY DEF R!Init, R!Idle, R!TypeOK, R!Stages, R!Places
<1>2. R!SentSoFar
  <2>1. \A c \in R!Calls : R!AttemptsOf(c) \in Nat
    BY AttemptsAre
  <2> QED
    BY <1>0, <2>1, CopyParts DEF R!SentSoFar, R!At
<1>3. R!OneConnection /\ R!OneStatement
  BY <1>0 DEF R!Init, R!OneConnection, R!OneStatement, R!AtWork
<1>4. R!RepeatsOnlyWhatWasLost
  BY <1>0, CallsAssumption
     DEF R!Init, R!RepeatsOnlyWhatWasLost, R!CallsAssumption
<1> QED
  BY <1>1, <1>2, <1>3, <1>4 DEF R!CallsInv

LEMMA CallsNext ==
  ASSUME R!CallsInv, R!Next
  PROVE  R!CallsInv'
BY CallsBegin, CallsSend, CallsSleepOver, CallsFetchFails, CallsReceive, CallsAbort,
   CallsBreak, CallsRefuse, CallsReadBodyFails, CallsReach, CallsReachMcp, CallsConnected,
   CallsConnectFails, CallsNotice, CallsWorkEnds, CallsCancelEnds, CallsTokenArrives,
   CallsTokenFails, CallsStarts, CallsShutdown, CallsClosed, CallsDies
   DEF R!Next

LEMMA CallsStutter ==
  ASSUME R!CallsInv, UNCHANGED callVars
  PROVE  R!CallsInv'
BY DEF callVars, R!CallsInv, R!TypeOK, R!SentSoFar, R!OneConnection, R!OneStatement,
       R!RepeatsOnlyWhatWasLost, R!At, R!AtWork, R!Copy

(* Whatever breaks, is sent again, given up or cancelled, and whenever the *)
(* backend starts, closes or dies: one statement of the connection at a    *)
(* time, cancels that meet no other, one connection of each call and no    *)
(* repetition of what was answered.                                        *)
THEOREM CallsHold == CallsSpec => []CallsInv
<1>1. CallsInit => CallsInv
  BY CallsInit0 DEF CallsInit, CallsInv
<1>2. CallsInv /\ [BridgeStep \/ CallStep]_<<part, vars, callVars>> => CallsInv'
  BY CallsNext, CallsStutter DEF CallsInv, BridgeStep, CallStep, callVars
<1> QED
  BY <1>1, <1>2, PTL DEF CallsSpec

(* What holds of the bridge holds beside the calls: the specification the  *)
(* run checks implies the bridge's own.                                    *)
THEOREM BridgeIsPart == CallsSpec => Spec
<1>1. [BridgeStep \/ CallStep]_<<part, vars, callVars>> => [Next]_vars
  BY DEF BridgeStep, CallStep
<1>2. CallsInit => Init
  BY DEF CallsInit
<1> QED
  BY <1>1, <1>2, PTL DEF CallsSpec, Spec

(* So the run's invariant of the bridge and its promise are theorems of   *)
(* the specification the run checks.                                       *)
THEOREM BridgeHoldsBesideCalls == CallsSpec => []BridgeInv /\ KeepsPromise
<1> QED
  BY BridgeIsPart, InvariantHolds, BridgeKeepsPromise, PTL
=============================================================================
