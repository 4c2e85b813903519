---------------------------- MODULE QueryProofs ----------------------------
(***************************************************************************)
(* Queries of two kinds of connection, for every value of the constants.   *)
(* QuerySession: the guard activeQueries, the slot activeQuery and the     *)
(* clients of the pool stay consistent with where each call and stream is. *)
(* The inductive invariant is SessionInv; there is a lemma per action, and *)
(* one for each block of code that several actions run: the end of a       *)
(* statement, a failed probe, the finally block of a stream.               *)
(* MongoSql: the pipeline and the split of a statement give its rows.      *)
(* What the user writes is a list of parts, so what a condition means and  *)
(* becomes is shown part by part, and what clauses do item by item.        *)
(***************************************************************************)
EXTENDS QuerySession, MongoSql, FiniteSetTheorems, SequenceTheorems, WellFoundedInduction, TLAPS

USE SessionAssumption DEF SessionInv, TypeOK, Goto, Users

(* A statement of a call ends. *)
LEMMA EndsKeeps ==
  ASSUME SessionInv, NEW c \in Calls, pc[c] = "running", packets' \subseteq packets,
         NEW result \in {"completed", "failed", "cancelled"}, Ends(c, result)
  PROVE  SessionInv'
<1>1. TypeOK'
  BY DEF Ends, Unregister, Release, Places, Results
<1>2. GuardHeldByOne'
  BY DEF Ends, Unregister, Release, GuardHeldByOne, Guarded
<1>3. ActiveIsRunning'
  BY DEF Ends, Unregister, Release, ActiveIsRunning, OnServer
<1>4. ClientsReturned'
  BY DEF Ends, Unregister, Release, ClientsReturned, Leaks, UnreachableIsDone
<1>5. UnreachableIsDone'
  BY DEF Ends, Unregister, Release, UnreachableIsDone
<1> QED BY <1>1, <1>2, <1>3, <1>4, <1>5

(* SELECT 1 fails. *)
LEMMA UnreachableKeeps ==
  ASSUME SessionInv, NEW u \in Users, Unreachable(u), packets' \subseteq packets
  PROVE  SessionInv'
<1>1. TypeOK'
  BY DEF Unreachable, EndsEarly, Places, Results
<1>2. GuardHeldByOne'
  BY DEF Unreachable, EndsEarly, GuardHeldByOne, Guarded
<1>3. ActiveIsRunning'
  BY DEF Unreachable, EndsEarly, ActiveIsRunning, OnServer
<1>4. ClientsReturned'
  BY DEF Unreachable, EndsEarly, ClientsReturned, Leaks, UnreachableIsDone
<1>5. UnreachableIsDone'
  BY DEF Unreachable, EndsEarly, UnreachableIsDone
<1> QED BY <1>1, <1>2, <1>3, <1>4, <1>5

(* The finally block of a stream starts. *)
LEMMA CloseStreamKeeps ==
  ASSUME SessionInv, NEW s \in Streams, pc[s] \in {"begin", "fetching", "draining"}, packets' \subseteq packets,
         NEW result \in {"completed", "failed", "cancelled"}, CloseStream(s, result)
  PROVE  SessionInv'
<1>1. TypeOK'
  BY DEF CloseStream, Places, Results
<1>2. GuardHeldByOne'
  BY DEF CloseStream, GuardHeldByOne, Guarded
<1>3. ActiveIsRunning'
  BY DEF CloseStream, ActiveIsRunning, OnServer
<1>4. ClientsReturned'
  BY DEF CloseStream, ClientsReturned, Leaks, UnreachableIsDone
<1>5. UnreachableIsDone'
  BY DEF CloseStream, UnreachableIsDone
<1> QED BY <1>1, <1>2, <1>3, <1>4, <1>5

LEMMA RefuseKeeps ==
  ASSUME SessionInv, NEW c \in Calls, Refuse(c) PROVE SessionInv'
<1>1. TypeOK'
  BY DEF Refuse, Places, Results
<1>2. GuardHeldByOne'
  BY DEF Refuse, GuardHeldByOne, Guarded
<1>3. ActiveIsRunning'
  BY DEF Refuse, ActiveIsRunning, OnServer
<1>4. ClientsReturned'
  BY DEF Refuse, ClientsReturned, Leaks, UnreachableIsDone
<1>5. UnreachableIsDone'
  BY DEF Refuse, UnreachableIsDone
<1> QED BY <1>1, <1>2, <1>3, <1>4, <1>5

LEMMA StartAbortedKeeps ==
  ASSUME SessionInv, NEW c \in Calls, StartAborted(c) PROVE SessionInv'
<1>1. TypeOK'
  BY DEF StartAborted, Places, Results
<1>2. GuardHeldByOne'
  BY DEF StartAborted, GuardHeldByOne, Guarded
<1>3. ActiveIsRunning'
  BY DEF StartAborted, ActiveIsRunning, OnServer
<1>4. ClientsReturned'
  BY DEF StartAborted, ClientsReturned, Leaks, UnreachableIsDone
<1>5. UnreachableIsDone'
  BY DEF StartAborted, UnreachableIsDone
<1> QED BY <1>1, <1>2, <1>3, <1>4, <1>5

LEMMA StartKeeps ==
  ASSUME SessionInv, NEW c \in Calls, Start(c) PROVE SessionInv'
<1>1. TypeOK'
  BY DEF Start, Places, Results
<1>2. GuardHeldByOne'
  BY DEF Start, GuardHeldByOne, Guarded
<1>3. ActiveIsRunning'
  BY DEF Start, ActiveIsRunning, OnServer
<1>4. ClientsReturned'
  BY DEF Start, ClientsReturned, Leaks, UnreachableIsDone
<1>5. UnreachableIsDone'
  BY DEF Start, UnreachableIsDone
<1> QED BY <1>1, <1>2, <1>3, <1>4, <1>5

LEMMA AcquireKeeps ==
  ASSUME SessionInv, NEW c \in Calls, Acquire(c) PROVE SessionInv'
<1>1. TypeOK'
  BY DEF Acquire, Submit, Register, FreeClients, Places, Results
<1>2. GuardHeldByOne'
  BY DEF Acquire, Submit, Register, FreeClients, GuardHeldByOne, Guarded
<1>3. ActiveIsRunning'
  BY DEF Acquire, Submit, Register, FreeClients, ActiveIsRunning, OnServer
<1>4. ClientsReturned'
  BY DEF Acquire, Submit, Register, FreeClients, ClientsReturned, Leaks, UnreachableIsDone
<1>5. UnreachableIsDone'
  BY DEF Acquire, Submit, Register, FreeClients, UnreachableIsDone
<1> QED BY <1>1, <1>2, <1>3, <1>4, <1>5

LEMMA BeginKeeps ==
  ASSUME SessionInv, NEW c \in Calls, Begin(c) PROVE SessionInv'
<1>1. TypeOK'
  BY DEF Begin, Register, Places, Results
<1>2. GuardHeldByOne'
  BY DEF Begin, Register, GuardHeldByOne, Guarded
<1>3. ActiveIsRunning'
  BY DEF Begin, Register, ActiveIsRunning, OnServer
<1>4. ClientsReturned'
  BY DEF Begin, Register, ClientsReturned, Leaks, UnreachableIsDone
<1>5. UnreachableIsDone'
  BY DEF Begin, Register, UnreachableIsDone
<1> QED BY <1>1, <1>2, <1>3, <1>4, <1>5

LEMMA RolledBackKeeps ==
  ASSUME SessionInv, NEW c \in Calls, RolledBack(c) PROVE SessionInv'
<1>1. TypeOK'
  BY DEF RolledBack, Release, Places, Results
<1>2. GuardHeldByOne'
  BY DEF RolledBack, Release, GuardHeldByOne, Guarded
<1>3. ActiveIsRunning'
  BY DEF RolledBack, Release, ActiveIsRunning, OnServer
<1>4. ClientsReturned'
  BY DEF RolledBack, Release, ClientsReturned, Leaks, UnreachableIsDone
<1>5. UnreachableIsDone'
  BY DEF RolledBack, Release, UnreachableIsDone
<1> QED BY <1>1, <1>2, <1>3, <1>4, <1>5

LEMMA StartStreamKeeps ==
  ASSUME SessionInv, NEW s \in Streams, StartStream(s) PROVE SessionInv'
<1>1. TypeOK'
  BY DEF StartStream, Places, Results
<1>2. GuardHeldByOne'
  BY DEF StartStream, GuardHeldByOne, Guarded
<1>3. ActiveIsRunning'
  BY DEF StartStream, ActiveIsRunning, OnServer
<1>4. ClientsReturned'
  BY DEF StartStream, ClientsReturned, Leaks, UnreachableIsDone
<1>5. UnreachableIsDone'
  BY DEF StartStream, UnreachableIsDone
<1> QED BY <1>1, <1>2, <1>3, <1>4, <1>5

LEMMA StreamConnectedKeeps ==
  ASSUME SessionInv, NEW s \in Streams, StreamConnected(s) PROVE SessionInv'
<1>1. TypeOK'
  BY DEF StreamConnected, Release, Places, Results
<1>2. GuardHeldByOne'
  BY DEF StreamConnected, Release, GuardHeldByOne, Guarded
<1>3. ActiveIsRunning'
  BY DEF StreamConnected, Release, ActiveIsRunning, OnServer
<1>4. ClientsReturned'
  BY DEF StreamConnected, Release, ClientsReturned, Leaks, UnreachableIsDone
<1>5. UnreachableIsDone'
  BY DEF StreamConnected, Release, UnreachableIsDone
<1> QED BY <1>1, <1>2, <1>3, <1>4, <1>5

LEMMA AcquireStreamKeeps ==
  ASSUME SessionInv, NEW s \in Streams, AcquireStream(s) PROVE SessionInv'
<1>1. TypeOK'
  BY DEF AcquireStream, FreeClients, Places, Results
<1>2. GuardHeldByOne'
  BY DEF AcquireStream, FreeClients, GuardHeldByOne, Guarded
<1>3. ActiveIsRunning'
  BY DEF AcquireStream, FreeClients, ActiveIsRunning, OnServer
<1>4. ClientsReturned'
  BY DEF AcquireStream, FreeClients, ClientsReturned, Leaks, UnreachableIsDone
<1>5. UnreachableIsDone'
  BY DEF AcquireStream, FreeClients, UnreachableIsDone
<1> QED BY <1>1, <1>2, <1>3, <1>4, <1>5

LEMMA FetchKeeps ==
  ASSUME SessionInv, NEW s \in Streams, Fetch(s) PROVE SessionInv'
<1>1. TypeOK'
  BY DEF Fetch, Register, Places, Results
<1>2. GuardHeldByOne'
  BY DEF Fetch, Register, GuardHeldByOne, Guarded
<1>3. ActiveIsRunning'
  BY DEF Fetch, Register, ActiveIsRunning, OnServer
<1>4. ClientsReturned'
  BY DEF Fetch, Register, ClientsReturned, Leaks, UnreachableIsDone
<1>5. UnreachableIsDone'
  BY DEF Fetch, Register, UnreachableIsDone
<1> QED BY <1>1, <1>2, <1>3, <1>4, <1>5

LEMMA BatchWrittenKeeps ==
  ASSUME SessionInv, NEW s \in Streams, BatchWritten(s) PROVE SessionInv'
<1>1. TypeOK'
  BY DEF BatchWritten, Unregister, Places, Results
<1>2. GuardHeldByOne'
  BY DEF BatchWritten, Unregister, GuardHeldByOne, Guarded
<1>3. ActiveIsRunning'
  BY DEF BatchWritten, Unregister, ActiveIsRunning, OnServer
<1>4. ClientsReturned'
  BY DEF BatchWritten, Unregister, ClientsReturned, Leaks, UnreachableIsDone
<1>5. UnreachableIsDone'
  BY DEF BatchWritten, Unregister, UnreachableIsDone
<1> QED BY <1>1, <1>2, <1>3, <1>4, <1>5

(* After the drain the stream fetches again, or ends. *)
LEMMA DrainedKeeps ==
  ASSUME SessionInv, NEW s \in Streams, Drained(s) PROVE SessionInv'
<1>1. CASE /\ Goto(s, "fetching")
           /\ Register(s)
           /\ UNCHANGED <<readOnly, aborted, client, busy, packets, outcome>>
  <2>1. TypeOK'
    BY <1>1 DEF Drained, Register, Places, Results
  <2>2. GuardHeldByOne'
    BY <1>1 DEF Drained, Register, GuardHeldByOne, Guarded
  <2>3. ActiveIsRunning'
    BY <1>1 DEF Drained, Register, ActiveIsRunning, OnServer
  <2>4. ClientsReturned'
    BY <1>1 DEF Drained, Register, ClientsReturned, Leaks, UnreachableIsDone
  <2>5. UnreachableIsDone'
    BY <1>1 DEF Drained, Register, UnreachableIsDone
  <2> QED BY <2>1, <2>2, <2>3, <2>4, <2>5
<1>2. ASSUME NEW result \in {"completed", "failed"}, CloseStream(s, result) PROVE SessionInv'
  BY <1>2, CloseStreamKeeps DEF Drained
<1> QED BY <1>1, <1>2 DEF Drained

LEMMA StreamRolledBackKeeps ==
  ASSUME SessionInv, NEW s \in Streams, StreamRolledBack(s) PROVE SessionInv'
<1>1. TypeOK'
  BY DEF StreamRolledBack, Release, Places, Results
<1>2. GuardHeldByOne'
  BY DEF StreamRolledBack, Release, GuardHeldByOne, Guarded
<1>3. ActiveIsRunning'
  BY DEF StreamRolledBack, Release, ActiveIsRunning, OnServer
<1>4. ClientsReturned'
  BY DEF StreamRolledBack, Release, ClientsReturned, Leaks, UnreachableIsDone
<1>5. UnreachableIsDone'
  BY DEF StreamRolledBack, Release, UnreachableIsDone
<1> QED BY <1>1, <1>2, <1>3, <1>4, <1>5

LEMMA ProbeKeeps ==
  ASSUME SessionInv, NEW u \in Users, Probe(u) PROVE SessionInv'
<1>1. TypeOK'
  BY DEF Probe, FreeClients, Places, Results
<1>2. GuardHeldByOne'
  BY DEF Probe, FreeClients, GuardHeldByOne, Guarded
<1>3. ActiveIsRunning'
  BY DEF Probe, FreeClients, ActiveIsRunning, OnServer
<1>4. ClientsReturned'
  BY DEF Probe, FreeClients, ClientsReturned, Leaks, UnreachableIsDone
<1>5. UnreachableIsDone'
  BY DEF Probe, FreeClients, UnreachableIsDone
<1> QED BY <1>1, <1>2, <1>3, <1>4, <1>5

LEMMA PoolFailsKeeps ==
  ASSUME SessionInv, NEW u \in Users, PoolFails(u) PROVE SessionInv'
<1>1. TypeOK'
  BY DEF PoolFails, EndsEarly, Places, Results
<1>2. GuardHeldByOne'
  BY DEF PoolFails, EndsEarly, GuardHeldByOne, Guarded
<1>3. ActiveIsRunning'
  BY DEF PoolFails, EndsEarly, ActiveIsRunning, OnServer
<1>4. ClientsReturned'
  BY DEF PoolFails, EndsEarly, ClientsReturned, Leaks, UnreachableIsDone
<1>5. UnreachableIsDone'
  BY DEF PoolFails, EndsEarly, UnreachableIsDone
<1> QED BY <1>1, <1>2, <1>3, <1>4, <1>5

(* After the SELECT 1 a call is called off, waits, or submits its SQL. *)
LEMMA ConnectedKeeps ==
  ASSUME SessionInv, NEW c \in Calls, Connected(c) PROVE SessionInv'
<1>1. CASE aborted[c]
<2>1. TypeOK'
  BY <1>1 DEF Connected, EndsEarly, Release, Places, Results
<2>2. GuardHeldByOne'
  BY <1>1 DEF Connected, EndsEarly, Release, GuardHeldByOne, Guarded
<2>3. ActiveIsRunning'
  BY <1>1 DEF Connected, EndsEarly, Release, ActiveIsRunning, OnServer
<2>4. ClientsReturned'
  BY <1>1 DEF Connected, EndsEarly, Release, ClientsReturned, Leaks, UnreachableIsDone
<2>5. UnreachableIsDone'
  BY <1>1 DEF Connected, EndsEarly, Release, UnreachableIsDone
<2> QED BY <2>1, <2>2, <2>3, <2>4, <2>5
<1>2. CASE ~aborted[c] /\ ~readOnly[c]
<2>1. TypeOK'
  BY <1>2 DEF Connected, Submit, Register, Release, Places, Results
<2>2. GuardHeldByOne'
  BY <1>2 DEF Connected, Submit, Register, Release, GuardHeldByOne, Guarded
<2>3. ActiveIsRunning'
  BY <1>2 DEF Connected, Submit, Register, Release, ActiveIsRunning, OnServer
<2>4. ClientsReturned'
  BY <1>2 DEF Connected, Submit, Register, Release, ClientsReturned, Leaks, UnreachableIsDone
<2>5. UnreachableIsDone'
  BY <1>2 DEF Connected, Submit, Register, Release, UnreachableIsDone
<2> QED BY <2>1, <2>2, <2>3, <2>4, <2>5
<1>3. CASE ~aborted[c] /\ readOnly[c]
<2>1. TypeOK'
  BY <1>3 DEF Connected, Submit, Register, Release, Places, Results
<2>2. GuardHeldByOne'
  BY <1>3 DEF Connected, Submit, Register, Release, GuardHeldByOne, Guarded
<2>3. ActiveIsRunning'
  BY <1>3 DEF Connected, Submit, Register, Release, ActiveIsRunning, OnServer
<2>4. ClientsReturned'
  BY <1>3 DEF Connected, Submit, Register, Release, ClientsReturned, Leaks, UnreachableIsDone
<2>5. UnreachableIsDone'
  BY <1>3 DEF Connected, Submit, Register, Release, UnreachableIsDone
<2> QED BY <2>1, <2>2, <2>3, <2>4, <2>5
<1> QED BY <1>1, <1>2, <1>3

(* Whoever cancels, the packet names a client and the query on it. *)
LEMMA CancelKeeps ==
  ASSUME SessionInv, CancelRunning \/ packets' \subseteq packets,
         aborted' \in [Users -> BOOLEAN],
         UNCHANGED <<pc, readOnly, client, busy, active, outcome>>
  PROVE  SessionInv'
<1>1. TypeOK'
  BY DEF CancelRunning, Places, Results, ActiveIsRunning, ClientsReturned, OnServer
<1>2. GuardHeldByOne'
  BY DEF CancelRunning, GuardHeldByOne, Guarded
<1>3. ActiveIsRunning'
  BY DEF CancelRunning, ActiveIsRunning, OnServer
<1>4. ClientsReturned'
  BY DEF CancelRunning, ClientsReturned, Leaks, UnreachableIsDone
<1>5. UnreachableIsDone'
  BY DEF CancelRunning, UnreachableIsDone
<1> QED BY <1>1, <1>2, <1>3, <1>4, <1>5

(* One step of the connection. *)
LEMMA StepKeeps ==
  ASSUME SessionInv, [Next]_vars PROVE SessionInv'
<1>1. ASSUME NEW c \in Calls, CallStep(c) PROVE SessionInv'
  <2>1. CASE Complete(c)
    <3>1. PICK result \in {"completed", "failed"} : Ends(c, result)
      BY <2>1 DEF Complete
    <3> QED BY <2>1, <3>1, EndsKeeps DEF Complete
  <2> QED
    BY <1>1, <2>1, RefuseKeeps, StartAbortedKeeps, StartKeeps, ConnectedKeeps,
       AcquireKeeps, BeginKeeps, RolledBackKeeps
    DEF CallStep
<1>2. ASSUME NEW s \in Streams, StreamStep(s) PROVE SessionInv'
  <2>1. CASE StopStream(s)
    <3>1. PICK result \in {"cancelled", "failed"} : CloseStream(s, result)
      BY <2>1 DEF StopStream
    <3> QED BY <2>1, <3>1, CloseStreamKeeps DEF StopStream
  <2>2. CASE StreamEnds(s)
    <3>1. PICK result \in {"completed", "failed"} : CloseStream(s, result)
      BY <2>2 DEF StreamEnds
    <3> QED BY <2>2, <3>1, CloseStreamKeeps DEF StreamEnds
  <2> QED
    BY <1>2, <2>1, <2>2, StartStreamKeeps, StreamConnectedKeeps, AcquireStreamKeeps,
       FetchKeeps, BatchWrittenKeeps, DrainedKeeps, StreamRolledBackKeeps
    DEF StreamStep
<1>3. ASSUME NEW u \in Users, ConnectStep(u) PROVE SessionInv'
  BY <1>3, ProbeKeeps, PoolFailsKeeps, UnreachableKeeps DEF ConnectStep, ProbeFails
<1>4. ASSUME NEW u \in Users, Abort(u) PROVE SessionInv'
  BY <1>4, CancelKeeps DEF Abort
<1>5. CASE QueryCancel
  BY <1>5, CancelKeeps DEF QueryCancel
<1>6. ASSUME NEW p \in packets, PacketArrives(p) PROVE SessionInv'
  <2>1. CASE PacketLost(p)
    BY <2>1, CancelKeeps DEF PacketLost
  <2>2. ASSUME NEW u \in Users, PacketStopsProbe(p, u) PROVE SessionInv'
    BY <2>2, UnreachableKeeps DEF PacketStopsProbe
  <2>3. ASSUME NEW c \in Calls, PacketStopsCall(p, c) PROVE SessionInv'
    BY <2>3, EndsKeeps DEF PacketStopsCall
  <2>4. ASSUME NEW s \in Streams, PacketStopsStream(p, s) PROVE SessionInv'
    BY <2>4, CloseStreamKeeps DEF PacketStopsStream
  <2> QED BY <1>6, <2>1, <2>2, <2>3, <2>4 DEF PacketArrives
<1>7. CASE UNCHANGED vars
  BY <1>7, CancelKeeps DEF vars
<1> QED BY <1>1, <1>2, <1>3, <1>4, <1>5, <1>6, <1>7 DEF Next

(* Nobody has started: the guard is free, the slot empty, every client in  *)
(* the pool.                                                               *)
LEMMA InitInvariant == Init => SessionInv
BY DEF Init, Places, Results, GuardHeldByOne, Guarded, ActiveIsRunning,
       ClientsReturned, Leaks, UnreachableIsDone

(* The inductive invariant holds in every reachable state. *)
THEOREM InvariantHolds == Spec => []SessionInv
BY InitInvariant, StepKeeps, PTL DEF Spec

(* Two statements of guarded calls never run side by side, and the guard   *)
(* is held exactly while a call is under way.                              *)
THEOREM GuardCorrect == Spec => []GuardHeldByOne
<1>1. SessionInv => GuardHeldByOne
  OBVIOUS
<1> QED BY <1>1, InvariantHolds, PTL

(* The slot never names a statement that has ended. *)
THEOREM SlotCorrect == Spec => []ActiveIsRunning
<1>1. SessionInv => ActiveIsRunning
  OBVIOUS
<1> QED BY <1>1, InvariantHolds, PTL

(* No pool client is lent twice, and every path but a failed probe gives   *)
(* its client back.                                                        *)
THEOREM PoolCorrect == Spec => []ClientsReturned
<1>1. SessionInv => ClientsReturned
  OBVIOUS
<1> QED BY <1>1, InvariantHolds, PTL

HIDE SessionAssumption DEF SessionInv, TypeOK, Goto, Users

-----------------------------------------------------------------------------
(* MongoSql: what a condition means and becomes are functions of its       *)
(* parts, defined by recursion.  Every number is in a set that has a       *)
(* number whenever it has those below: the induction of the lemmas below.  *)
LEMMA InductBelow ==
  ASSUME NEW S, \A n \in Nat : (\A m \in 0 .. n - 1 : m \in S) => n \in S
  PROVE  Nat \subseteq S
<1> DEFINE T == {n \in Nat : n \notin S}
           R == {p \in Nat \X Nat : p[1] < p[2]}
<1> SUFFICES ASSUME T # {} PROVE FALSE
  OBVIOUS
<1>1. PICK x \in T : \A y \in T : <<y, x>> \notin R
  <2>1. IsWellFoundedOn(R, Nat)
    BY NatLessThanWellFounded DEF OpToRel
  <2>2. T \subseteq Nat
    OBVIOUS
  <2> HIDE DEF T, R
  <2> QED
    BY <2>1, <2>2, WFMin, Zenon
<1>2. x \in Nat /\ x \notin S
  OBVIOUS
<1>3. \A m \in 0 .. x - 1 : m \in S
  <2> SUFFICES ASSUME NEW m \in 0 .. x - 1, m \notin S PROVE FALSE
    OBVIOUS
  <2>1. m \in T /\ <<m, x>> \in R
    BY <1>2
  <2> QED
    BY <1>1, <2>1
<1> QED
  BY <1>2, <1>3

(* The same for the numbers up to one. *)
LEMMA InductUpTo ==
  ASSUME NEW n \in Nat, NEW S, \A k \in 1 .. n : (\A j \in 1 .. k - 1 : j \in S) => k \in S
  PROVE  1 .. n \subseteq S
<1> DEFINE R == {k \in Nat : k \in 1 .. n => k \in S}
<1>1. ASSUME NEW k \in Nat, \A m \in 0 .. k - 1 : m \in R PROVE k \in R
  <2> SUFFICES ASSUME k \in 1 .. n PROVE k \in S
    OBVIOUS
  <2>1. \A j \in 1 .. k - 1 : j \in S
    BY <1>1
  <2> QED
    BY <2>1
<1>2. Nat \subseteq R
  <2> HIDE DEF R
  <2> QED
    BY <1>1, InductBelow
<1> QED
  BY <1>2

-----------------------------------------------------------------------------
(* Each part is an atom, or a connective of earlier parts. *)
LEMMA PartsAre ==
  ASSUME NEW e, IsCondition(e), NEW k \in 1 .. Len(e)
  PROVE  \/ IsAtom(e[k]) /\ e[k].op \notin {"not", "and", "or"}
         \/ e[k].op = "not" /\ e[k].of \in 1 .. k - 1
         \/ e[k].op \in {"and", "or"} /\ e[k].of \in 1 .. k - 1 /\ e[k].with \in 1 .. k - 1
BY DEF IsCondition, IsList, IsAtom, IsNot, IsBoth

LEMMA ConditionDomain ==
  ASSUME NEW e, IsCondition(e)
  PROVE  DOMAIN e = 1 .. Len(e) /\ Len(e) \in Nat
BY DEF IsCondition, IsList

(* The truth of each part is made of those of its parts. *)
LEMMA TruthsAre ==
  ASSUME NEW e, IsCondition(e), NEW row
  PROVE  \A k \in 1 .. Len(e) :
           Truths(e, row)[k] =
             CASE e[k].op = "not" -> Negated(Truths(e, row)[e[k].of])
               [] e[k].op = "and" -> BothTrue(Truths(e, row)[e[k].of], Truths(e, row)[e[k].with])
               [] e[k].op = "or" -> Negated(BothTrue(Negated(Truths(e, row)[e[k].of]), Negated(Truths(e, row)[e[k].with])))
               [] OTHER -> Decides(e[k], row)
<1> DEFINE n == Len(e)
           Step(f, k) ==
             CASE e[k].op = "not" -> Negated(f[e[k].of])
               [] e[k].op = "and" -> BothTrue(f[e[k].of], f[e[k].with])
               [] e[k].op = "or" -> Negated(BothTrue(Negated(f[e[k].of]), Negated(f[e[k].with])))
               [] OTHER -> Decides(e[k], row)
           Is(f, m) == f = [k \in 1 .. m |-> Step(f, k)]
           S == {m \in Nat : m <= n => \E f : Is(f, m)}
<1>1. DOMAIN e = 1 .. n /\ n \in Nat
  BY ConditionDomain
<1>2. ASSUME NEW k \in 1 .. n, NEW f, NEW g, \A j \in 1 .. k - 1 : f[j] = g[j]
      PROVE  Step(f, k) = Step(g, k)
  BY <1>2, PartsAre
<1> HIDE DEF n, Step
<1>3. 0 \in S
  <2> DEFINE f == [k \in 1 .. 0 |-> 0]
  <2>1. f = [k \in 1 .. 0 |-> Step(f, k)]
    OBVIOUS
  <2> QED
    BY <2>1
<1>4. ASSUME NEW m \in Nat, m \in S PROVE m + 1 \in S
  <2> SUFFICES ASSUME m + 1 <= n PROVE \E g : Is(g, m + 1)
    OBVIOUS
  <2>1. PICK f : Is(f, m)
    BY <1>1, <1>4
  <2> DEFINE g == [k \in 1 .. m + 1 |-> IF k = m + 1 THEN Step(f, m + 1) ELSE f[k]]
  <2>2. \A k \in 1 .. m : f[k] = Step(f, k)
    BY <2>1
  <2>3. ASSUME NEW k \in 1 .. m + 1 PROVE Step(f, k) = Step(g, k)
    <3>1. k \in 1 .. n /\ \A j \in 1 .. k - 1 : f[j] = g[j]
      BY <1>1
    <3> HIDE DEF g
    <3> QED
      BY <1>2, <3>1
  <2>4. ASSUME NEW k \in 1 .. m + 1 PROVE g[k] = Step(g, k)
    BY <2>2, <2>3
  <2> HIDE DEF g
  <2>5. Is(g, m + 1)
    <3>1. DOMAIN g = 1 .. m + 1 /\ g = [k \in DOMAIN g |-> g[k]]
      BY DEF g
    <3> QED
      BY <2>4, <3>1
  <2> QED
    BY <2>5
<1>5. n \in S
  <2> HIDE DEF S
  <2> QED
    BY <1>1, <1>3, <1>4, InductBelow
<1> DEFINE t == CHOOSE f : Is(f, n)
<1>6. Is(t, n)
  BY <1>1, <1>5
<1>7. Truths(e, row) = t
  BY <1>1 DEF Truths, Step
<1> HIDE DEF t
<1>8. \A k \in 1 .. n : t[k] = Step(t, k)
  BY <1>6
<1> QED
  BY <1>7, <1>8 DEF n, Step

(* So is whether MongoDB finds it, ... *)
LEMMA FindsAre ==
  ASSUME NEW e, IsCondition(e), NEW row
  PROVE  \A k \in 1 .. Len(e) :
           Finds(e, row)[k] =
             \/ e[k].op = "and" /\ Finds(e, row)[e[k].of] /\ Finds(e, row)[e[k].with]
             \/ e[k].op = "or" /\ (Finds(e, row)[e[k].of] \/ Finds(e, row)[e[k].with])
             \/ /\ e[k].op \notin {"and", "or"} /\ FindsItem(e[k])
                /\ e[k].right.value # Null /\ HasItem(Of(e[k].left, row), e[k].right.value)
             \/ e[k].op \notin {"and", "or"} /\ ~FindsItem(e[k]) /\ Truths(e, row)[k] = "true"
<1> DEFINE n == Len(e)
           Step(f, k) ==
             \/ e[k].op = "and" /\ f[e[k].of] /\ f[e[k].with]
             \/ e[k].op = "or" /\ (f[e[k].of] \/ f[e[k].with])
             \/ /\ e[k].op \notin {"and", "or"} /\ FindsItem(e[k])
                /\ e[k].right.value # Null /\ HasItem(Of(e[k].left, row), e[k].right.value)
             \/ e[k].op \notin {"and", "or"} /\ ~FindsItem(e[k]) /\ Truths(e, row)[k] = "true"
           Is(f, m) == f = [k \in 1 .. m |-> Step(f, k)]
           S == {m \in Nat : m <= n => \E f : Is(f, m)}
<1>1. DOMAIN e = 1 .. n /\ n \in Nat
  BY ConditionDomain
<1>2. ASSUME NEW k \in 1 .. n, NEW f, NEW g, \A j \in 1 .. k - 1 : f[j] = g[j]
      PROVE  Step(f, k) = Step(g, k)
  BY <1>2, PartsAre
<1> HIDE DEF n, Step
<1>3. 0 \in S
  <2> DEFINE f == [k \in 1 .. 0 |-> 0]
  <2>1. f = [k \in 1 .. 0 |-> Step(f, k)]
    OBVIOUS
  <2> QED
    BY <2>1
<1>4. ASSUME NEW m \in Nat, m \in S PROVE m + 1 \in S
  <2> SUFFICES ASSUME m + 1 <= n PROVE \E g : Is(g, m + 1)
    OBVIOUS
  <2>1. PICK f : Is(f, m)
    BY <1>1, <1>4
  <2> DEFINE g == [k \in 1 .. m + 1 |-> IF k = m + 1 THEN Step(f, m + 1) ELSE f[k]]
  <2>2. \A k \in 1 .. m : f[k] = Step(f, k)
    BY <2>1
  <2>3. ASSUME NEW k \in 1 .. m + 1 PROVE Step(f, k) = Step(g, k)
    <3>1. k \in 1 .. n /\ \A j \in 1 .. k - 1 : f[j] = g[j]
      BY <1>1
    <3> HIDE DEF g
    <3> QED
      BY <1>2, <3>1
  <2>4. ASSUME NEW k \in 1 .. m + 1 PROVE g[k] = Step(g, k)
    BY <2>2, <2>3
  <2> HIDE DEF g
  <2>5. Is(g, m + 1)
    <3>1. DOMAIN g = 1 .. m + 1 /\ g = [k \in DOMAIN g |-> g[k]]
      BY DEF g
    <3> QED
      BY <2>4, <3>1
  <2> QED
    BY <2>5
<1>5. n \in S
  <2> HIDE DEF S
  <2> QED
    BY <1>1, <1>3, <1>4, InductBelow
<1> DEFINE t == CHOOSE f : Is(f, n)
<1>6. Is(t, n)
  BY <1>1, <1>5
<1>7. Finds(e, row) = t
  BY <1>1 DEF Finds, Step
<1> HIDE DEF t
<1>8. \A k \in 1 .. n : t[k] = Step(t, k)
  BY <1>6
<1> QED
  BY <1>7, <1>8 DEF n, Step

(* ... its predicate, plain and negated, ... *)
LEMMA PredicatesAre ==
  ASSUME NEW e, IsCondition(e), NEW row
  PROVE  \A k \in 1 .. Len(e), negated \in BOOLEAN :
           Predicates(e, row)[k][negated] <=>
             \/ e[k].op = "not" /\ Predicates(e, row)[e[k].of][~negated]
             \/ /\ e[k].op = (IF negated THEN "or" ELSE "and")
                /\ Predicates(e, row)[e[k].of][negated] /\ Predicates(e, row)[e[k].with][negated]
             \/ /\ e[k].op = (IF negated THEN "and" ELSE "or")
                /\ Predicates(e, row)[e[k].of][negated] \/ Predicates(e, row)[e[k].with][negated]
             \/ e[k].op \notin {"not", "and", "or"} /\ AtomPredicate(e[k], negated, row)
<1> DEFINE n == Len(e)
           Step(f, k) ==
             [negated \in BOOLEAN |->
                \/ e[k].op = "not" /\ f[e[k].of][~negated]
                \/ /\ e[k].op = (IF negated THEN "or" ELSE "and")
                   /\ f[e[k].of][negated] /\ f[e[k].with][negated]
                \/ /\ e[k].op = (IF negated THEN "and" ELSE "or")
                   /\ f[e[k].of][negated] \/ f[e[k].with][negated]
                \/ e[k].op \notin {"not", "and", "or"} /\ AtomPredicate(e[k], negated, row)]
           Is(f, m) == f = [k \in 1 .. m |-> Step(f, k)]
           S == {m \in Nat : m <= n => \E f : Is(f, m)}
<1>1. DOMAIN e = 1 .. n /\ n \in Nat
  BY ConditionDomain
<1>2. ASSUME NEW k \in 1 .. n, NEW f, NEW g, \A j \in 1 .. k - 1 : f[j] = g[j]
      PROVE  Step(f, k) = Step(g, k)
  BY <1>2, PartsAre
<1> HIDE DEF n, Step
<1>3. 0 \in S
  <2> DEFINE f == [k \in 1 .. 0 |-> 0]
  <2>1. f = [k \in 1 .. 0 |-> Step(f, k)]
    OBVIOUS
  <2> QED
    BY <2>1
<1>4. ASSUME NEW m \in Nat, m \in S PROVE m + 1 \in S
  <2> SUFFICES ASSUME m + 1 <= n PROVE \E g : Is(g, m + 1)
    OBVIOUS
  <2>1. PICK f : Is(f, m)
    BY <1>1, <1>4
  <2> DEFINE g == [k \in 1 .. m + 1 |-> IF k = m + 1 THEN Step(f, m + 1) ELSE f[k]]
  <2>2. \A k \in 1 .. m : f[k] = Step(f, k)
    BY <2>1
  <2>3. ASSUME NEW k \in 1 .. m + 1 PROVE Step(f, k) = Step(g, k)
    <3>1. k \in 1 .. n /\ \A j \in 1 .. k - 1 : f[j] = g[j]
      BY <1>1
    <3> HIDE DEF g
    <3> QED
      BY <1>2, <3>1
  <2>4. ASSUME NEW k \in 1 .. m + 1 PROVE g[k] = Step(g, k)
    BY <2>2, <2>3
  <2> HIDE DEF g
  <2>5. Is(g, m + 1)
    <3>1. DOMAIN g = 1 .. m + 1 /\ g = [k \in DOMAIN g |-> g[k]]
      BY DEF g
    <3> QED
      BY <2>4, <3>1
  <2> QED
    BY <2>5
<1>5. n \in S
  <2> HIDE DEF S
  <2> QED
    BY <1>1, <1>3, <1>4, InductBelow
<1> DEFINE t == CHOOSE f : Is(f, n)
<1>6. Is(t, n)
  BY <1>1, <1>5
<1>7. Predicates(e, row) = t
  BY <1>1 DEF Predicates, Step
<1> HIDE DEF t
<1>8. \A k \in 1 .. n : t[k] = Step(t, k)
  BY <1>6
<1>9. ASSUME NEW k \in 1 .. n, NEW negated \in BOOLEAN
      PROVE  Step(t, k)[negated] <=>
               \/ e[k].op = "not" /\ t[e[k].of][~negated]
               \/ /\ e[k].op = (IF negated THEN "or" ELSE "and")
                  /\ t[e[k].of][negated] /\ t[e[k].with][negated]
               \/ /\ e[k].op = (IF negated THEN "and" ELSE "or")
                  /\ t[e[k].of][negated] \/ t[e[k].with][negated]
               \/ e[k].op \notin {"not", "and", "or"} /\ AtomPredicate(e[k], negated, row)
  BY DEF Step
<1> QED
  BY <1>7, <1>8, <1>9 DEF n

(* ... its match, ... *)
LEMMA MatchesAre ==
  ASSUME NEW e, IsCondition(e), NEW row
  PROVE  \A k \in 1 .. Len(e) :
           Matches(e, row)[k] =
             \/ e[k].op = "and" /\ Matches(e, row)[e[k].of] /\ Matches(e, row)[e[k].with]
             \/ e[k].op = "or" /\ (Matches(e, row)[e[k].of] \/ Matches(e, row)[e[k].with])
             \/ /\ e[k].op = "contains" /\ e[k].right.value # Null
                /\ Of(e[k].left, row).list /\ HasItem(Of(e[k].left, row), e[k].right.value)
             \/ /\ e[k].op \notin {"and", "or", "contains"} /\ MatchesItem(e[k])
                /\ HasItem(Of(e[k].left, row), e[k].right.value)
             \/ /\ e[k].op \notin {"and", "or", "contains"} /\ ~MatchesItem(e[k])
                /\ Predicates(e, row)[k][FALSE]
<1> DEFINE n == Len(e)
           Step(f, k) ==
             \/ e[k].op = "and" /\ f[e[k].of] /\ f[e[k].with]
             \/ e[k].op = "or" /\ (f[e[k].of] \/ f[e[k].with])
             \/ /\ e[k].op = "contains" /\ e[k].right.value # Null
                /\ Of(e[k].left, row).list /\ HasItem(Of(e[k].left, row), e[k].right.value)
             \/ /\ e[k].op \notin {"and", "or", "contains"} /\ MatchesItem(e[k])
                /\ HasItem(Of(e[k].left, row), e[k].right.value)
             \/ /\ e[k].op \notin {"and", "or", "contains"} /\ ~MatchesItem(e[k])
                /\ Predicates(e, row)[k][FALSE]
           Is(f, m) == f = [k \in 1 .. m |-> Step(f, k)]
           S == {m \in Nat : m <= n => \E f : Is(f, m)}
<1>1. DOMAIN e = 1 .. n /\ n \in Nat
  BY ConditionDomain
<1>2. ASSUME NEW k \in 1 .. n, NEW f, NEW g, \A j \in 1 .. k - 1 : f[j] = g[j]
      PROVE  Step(f, k) = Step(g, k)
  BY <1>2, PartsAre
<1> HIDE DEF n, Step
<1>3. 0 \in S
  <2> DEFINE f == [k \in 1 .. 0 |-> 0]
  <2>1. f = [k \in 1 .. 0 |-> Step(f, k)]
    OBVIOUS
  <2> QED
    BY <2>1
<1>4. ASSUME NEW m \in Nat, m \in S PROVE m + 1 \in S
  <2> SUFFICES ASSUME m + 1 <= n PROVE \E g : Is(g, m + 1)
    OBVIOUS
  <2>1. PICK f : Is(f, m)
    BY <1>1, <1>4
  <2> DEFINE g == [k \in 1 .. m + 1 |-> IF k = m + 1 THEN Step(f, m + 1) ELSE f[k]]
  <2>2. \A k \in 1 .. m : f[k] = Step(f, k)
    BY <2>1
  <2>3. ASSUME NEW k \in 1 .. m + 1 PROVE Step(f, k) = Step(g, k)
    <3>1. k \in 1 .. n /\ \A j \in 1 .. k - 1 : f[j] = g[j]
      BY <1>1
    <3> HIDE DEF g
    <3> QED
      BY <1>2, <3>1
  <2>4. ASSUME NEW k \in 1 .. m + 1 PROVE g[k] = Step(g, k)
    BY <2>2, <2>3
  <2> HIDE DEF g
  <2>5. Is(g, m + 1)
    <3>1. DOMAIN g = 1 .. m + 1 /\ g = [k \in DOMAIN g |-> g[k]]
      BY DEF g
    <3> QED
      BY <2>4, <3>1
  <2> QED
    BY <2>5
<1>5. n \in S
  <2> HIDE DEF S
  <2> QED
    BY <1>1, <1>3, <1>4, InductBelow
<1> DEFINE t == CHOOSE f : Is(f, n)
<1>6. Is(t, n)
  BY <1>1, <1>5
<1>7. Matches(e, row) = t
  BY <1>1 DEF Matches, Step
<1> HIDE DEF t
<1>8. \A k \in 1 .. n : t[k] = Step(t, k)
  BY <1>6
<1> QED
  BY <1>7, <1>8 DEF n, Step

(* ... whether it is translated, ... *)
LEMMA TranslatesAre ==
  ASSUME NEW e, IsCondition(e)
  PROVE  \A k \in 1 .. Len(e), matching \in BOOLEAN :
           Translates(e)[k][matching] <=>
             /\ e[k].op = "not" => Translates(e)[e[k].of][FALSE]
             /\ e[k].op \in {"and", "or"} => Translates(e)[e[k].of][matching] /\ Translates(e)[e[k].with][matching]
             /\ e[k].op = "contains" => matching
<1> DEFINE n == Len(e)
           Step(f, k) ==
             [matching \in BOOLEAN |->
                /\ e[k].op = "not" => f[e[k].of][FALSE]
                /\ e[k].op \in {"and", "or"} => f[e[k].of][matching] /\ f[e[k].with][matching]
                /\ e[k].op = "contains" => matching]
           Is(f, m) == f = [k \in 1 .. m |-> Step(f, k)]
           S == {m \in Nat : m <= n => \E f : Is(f, m)}
<1>1. DOMAIN e = 1 .. n /\ n \in Nat
  BY ConditionDomain
<1>2. ASSUME NEW k \in 1 .. n, NEW f, NEW g, \A j \in 1 .. k - 1 : f[j] = g[j]
      PROVE  Step(f, k) = Step(g, k)
  BY <1>2, PartsAre
<1> HIDE DEF n, Step
<1>3. 0 \in S
  <2> DEFINE f == [k \in 1 .. 0 |-> 0]
  <2>1. f = [k \in 1 .. 0 |-> Step(f, k)]
    OBVIOUS
  <2> QED
    BY <2>1
<1>4. ASSUME NEW m \in Nat, m \in S PROVE m + 1 \in S
  <2> SUFFICES ASSUME m + 1 <= n PROVE \E g : Is(g, m + 1)
    OBVIOUS
  <2>1. PICK f : Is(f, m)
    BY <1>1, <1>4
  <2> DEFINE g == [k \in 1 .. m + 1 |-> IF k = m + 1 THEN Step(f, m + 1) ELSE f[k]]
  <2>2. \A k \in 1 .. m : f[k] = Step(f, k)
    BY <2>1
  <2>3. ASSUME NEW k \in 1 .. m + 1 PROVE Step(f, k) = Step(g, k)
    <3>1. k \in 1 .. n /\ \A j \in 1 .. k - 1 : f[j] = g[j]
      BY <1>1
    <3> HIDE DEF g
    <3> QED
      BY <1>2, <3>1
  <2>4. ASSUME NEW k \in 1 .. m + 1 PROVE g[k] = Step(g, k)
    BY <2>2, <2>3
  <2> HIDE DEF g
  <2>5. Is(g, m + 1)
    <3>1. DOMAIN g = 1 .. m + 1 /\ g = [k \in DOMAIN g |-> g[k]]
      BY DEF g
    <3> QED
      BY <2>4, <3>1
  <2> QED
    BY <2>5
<1>5. n \in S
  <2> HIDE DEF S
  <2> QED
    BY <1>1, <1>3, <1>4, InductBelow
<1> DEFINE t == CHOOSE f : Is(f, n)
<1>6. Is(t, n)
  BY <1>1, <1>5
<1>7. Translates(e) = t
  BY <1>1 DEF Translates, Step
<1> HIDE DEF t
<1>8. \A k \in 1 .. n : t[k] = Step(t, k)
  BY <1>6
<1>9. ASSUME NEW k \in 1 .. n, NEW matching \in BOOLEAN
      PROVE  Step(t, k)[matching] <=>
               /\ e[k].op = "not" => t[e[k].of][FALSE]
               /\ e[k].op \in {"and", "or"} => t[e[k].of][matching] /\ t[e[k].with][matching]
               /\ e[k].op = "contains" => matching
  BY DEF Step
<1> QED
  BY <1>7, <1>8, <1>9 DEF n

(* ... what it reads, ... *)
LEMMA OperandsInAre ==
  ASSUME NEW e, IsCondition(e)
  PROVE  \A k \in 1 .. Len(e) :
           OperandsIn(e)[k] =
             CASE e[k].op = "not" -> OperandsIn(e)[e[k].of]
               [] e[k].op \in {"and", "or"} -> OperandsIn(e)[e[k].of] \cup OperandsIn(e)[e[k].with]
               [] OTHER -> {e[k].left, e[k].right}
<1> DEFINE n == Len(e)
           Step(f, k) ==
             CASE e[k].op = "not" -> f[e[k].of]
               [] e[k].op \in {"and", "or"} -> f[e[k].of] \cup f[e[k].with]
               [] OTHER -> {e[k].left, e[k].right}
           Is(f, m) == f = [k \in 1 .. m |-> Step(f, k)]
           S == {m \in Nat : m <= n => \E f : Is(f, m)}
<1>1. DOMAIN e = 1 .. n /\ n \in Nat
  BY ConditionDomain
<1>2. ASSUME NEW k \in 1 .. n, NEW f, NEW g, \A j \in 1 .. k - 1 : f[j] = g[j]
      PROVE  Step(f, k) = Step(g, k)
  BY <1>2, PartsAre
<1> HIDE DEF n, Step
<1>3. 0 \in S
  <2> DEFINE f == [k \in 1 .. 0 |-> 0]
  <2>1. f = [k \in 1 .. 0 |-> Step(f, k)]
    OBVIOUS
  <2> QED
    BY <2>1
<1>4. ASSUME NEW m \in Nat, m \in S PROVE m + 1 \in S
  <2> SUFFICES ASSUME m + 1 <= n PROVE \E g : Is(g, m + 1)
    OBVIOUS
  <2>1. PICK f : Is(f, m)
    BY <1>1, <1>4
  <2> DEFINE g == [k \in 1 .. m + 1 |-> IF k = m + 1 THEN Step(f, m + 1) ELSE f[k]]
  <2>2. \A k \in 1 .. m : f[k] = Step(f, k)
    BY <2>1
  <2>3. ASSUME NEW k \in 1 .. m + 1 PROVE Step(f, k) = Step(g, k)
    <3>1. k \in 1 .. n /\ \A j \in 1 .. k - 1 : f[j] = g[j]
      BY <1>1
    <3> HIDE DEF g
    <3> QED
      BY <1>2, <3>1
  <2>4. ASSUME NEW k \in 1 .. m + 1 PROVE g[k] = Step(g, k)
    BY <2>2, <2>3
  <2> HIDE DEF g
  <2>5. Is(g, m + 1)
    <3>1. DOMAIN g = 1 .. m + 1 /\ g = [k \in DOMAIN g |-> g[k]]
      BY DEF g
    <3> QED
      BY <2>4, <3>1
  <2> QED
    BY <2>5
<1>5. n \in S
  <2> HIDE DEF S
  <2> QED
    BY <1>1, <1>3, <1>4, InductBelow
<1> DEFINE t == CHOOSE f : Is(f, n)
<1>6. Is(t, n)
  BY <1>1, <1>5
<1>7. OperandsIn(e) = t
  BY <1>1 DEF OperandsIn, Step
<1> HIDE DEF t
<1>8. \A k \in 1 .. n : t[k] = Step(t, k)
  BY <1>6
<1> QED
  BY <1>7, <1>8 DEF n, Step

(* ... whether it moves, ... *)
LEMMA MovesAre ==
  ASSUME NEW e, IsCondition(e)
  PROVE  \A k \in 1 .. Len(e) :
           Moves(e)[k] =
             \/ e[k].op \in {"and", "or"} /\ Moves(e)[e[k].of] /\ Moves(e)[e[k].with]
             \/ e[k].op = "contains" /\ e[k].right.value # Null
             \/ e[k].op \notin {"and", "or"} /\ MatchesItem(e[k])
<1> DEFINE n == Len(e)
           Step(f, k) ==
             \/ e[k].op \in {"and", "or"} /\ f[e[k].of] /\ f[e[k].with]
             \/ e[k].op = "contains" /\ e[k].right.value # Null
             \/ e[k].op \notin {"and", "or"} /\ MatchesItem(e[k])
           Is(f, m) == f = [k \in 1 .. m |-> Step(f, k)]
           S == {m \in Nat : m <= n => \E f : Is(f, m)}
<1>1. DOMAIN e = 1 .. n /\ n \in Nat
  BY ConditionDomain
<1>2. ASSUME NEW k \in 1 .. n, NEW f, NEW g, \A j \in 1 .. k - 1 : f[j] = g[j]
      PROVE  Step(f, k) = Step(g, k)
  BY <1>2, PartsAre
<1> HIDE DEF n, Step
<1>3. 0 \in S
  <2> DEFINE f == [k \in 1 .. 0 |-> 0]
  <2>1. f = [k \in 1 .. 0 |-> Step(f, k)]
    OBVIOUS
  <2> QED
    BY <2>1
<1>4. ASSUME NEW m \in Nat, m \in S PROVE m + 1 \in S
  <2> SUFFICES ASSUME m + 1 <= n PROVE \E g : Is(g, m + 1)
    OBVIOUS
  <2>1. PICK f : Is(f, m)
    BY <1>1, <1>4
  <2> DEFINE g == [k \in 1 .. m + 1 |-> IF k = m + 1 THEN Step(f, m + 1) ELSE f[k]]
  <2>2. \A k \in 1 .. m : f[k] = Step(f, k)
    BY <2>1
  <2>3. ASSUME NEW k \in 1 .. m + 1 PROVE Step(f, k) = Step(g, k)
    <3>1. k \in 1 .. n /\ \A j \in 1 .. k - 1 : f[j] = g[j]
      BY <1>1
    <3> HIDE DEF g
    <3> QED
      BY <1>2, <3>1
  <2>4. ASSUME NEW k \in 1 .. m + 1 PROVE g[k] = Step(g, k)
    BY <2>2, <2>3
  <2> HIDE DEF g
  <2>5. Is(g, m + 1)
    <3>1. DOMAIN g = 1 .. m + 1 /\ g = [k \in DOMAIN g |-> g[k]]
      BY DEF g
    <3> QED
      BY <2>4, <3>1
  <2> QED
    BY <2>5
<1>5. n \in S
  <2> HIDE DEF S
  <2> QED
    BY <1>1, <1>3, <1>4, InductBelow
<1> DEFINE t == CHOOSE f : Is(f, n)
<1>6. Is(t, n)
  BY <1>1, <1>5
<1>7. Moves(e) = t
  BY <1>1 DEF Moves, Step
<1> HIDE DEF t
<1>8. \A k \in 1 .. n : t[k] = Step(t, k)
  BY <1>6
<1> QED
  BY <1>7, <1>8 DEF n, Step

(* ... and how it is split. *)
LEMMA SplitsAre ==
  ASSUME NEW e, IsCondition(e)
  PROVE  \A k \in 1 .. Len(e) :
           Splits(e)[k] =
             IF e[k].op = "and" /\ ~Moves(e)[k] THEN Splits(e)[e[k].of] \cup Splits(e)[e[k].with] ELSE {k}
<1> DEFINE n == Len(e)
           Step(f, k) ==
             IF e[k].op = "and" /\ ~Moves(e)[k] THEN f[e[k].of] \cup f[e[k].with] ELSE {k}
           Is(f, m) == f = [k \in 1 .. m |-> Step(f, k)]
           S == {m \in Nat : m <= n => \E f : Is(f, m)}
<1>1. DOMAIN e = 1 .. n /\ n \in Nat
  BY ConditionDomain
<1>2. ASSUME NEW k \in 1 .. n, NEW f, NEW g, \A j \in 1 .. k - 1 : f[j] = g[j]
      PROVE  Step(f, k) = Step(g, k)
  BY <1>2, PartsAre
<1> HIDE DEF n, Step
<1>3. 0 \in S
  <2> DEFINE f == [k \in 1 .. 0 |-> 0]
  <2>1. f = [k \in 1 .. 0 |-> Step(f, k)]
    OBVIOUS
  <2> QED
    BY <2>1
<1>4. ASSUME NEW m \in Nat, m \in S PROVE m + 1 \in S
  <2> SUFFICES ASSUME m + 1 <= n PROVE \E g : Is(g, m + 1)
    OBVIOUS
  <2>1. PICK f : Is(f, m)
    BY <1>1, <1>4
  <2> DEFINE g == [k \in 1 .. m + 1 |-> IF k = m + 1 THEN Step(f, m + 1) ELSE f[k]]
  <2>2. \A k \in 1 .. m : f[k] = Step(f, k)
    BY <2>1
  <2>3. ASSUME NEW k \in 1 .. m + 1 PROVE Step(f, k) = Step(g, k)
    <3>1. k \in 1 .. n /\ \A j \in 1 .. k - 1 : f[j] = g[j]
      BY <1>1
    <3> HIDE DEF g
    <3> QED
      BY <1>2, <3>1
  <2>4. ASSUME NEW k \in 1 .. m + 1 PROVE g[k] = Step(g, k)
    BY <2>2, <2>3
  <2> HIDE DEF g
  <2>5. Is(g, m + 1)
    <3>1. DOMAIN g = 1 .. m + 1 /\ g = [k \in DOMAIN g |-> g[k]]
      BY DEF g
    <3> QED
      BY <2>4, <3>1
  <2> QED
    BY <2>5
<1>5. n \in S
  <2> HIDE DEF S
  <2> QED
    BY <1>1, <1>3, <1>4, InductBelow
<1> DEFINE t == CHOOSE f : Is(f, n)
<1>6. Is(t, n)
  BY <1>1, <1>5
<1>7. Splits(e) = t
  BY <1>1 DEF Splits, Step
<1> HIDE DEF t
<1>8. \A k \in 1 .. n : t[k] = Step(t, k)
  BY <1>6
<1> QED
  BY <1>7, <1>8 DEF n, Step

-----------------------------------------------------------------------------
TruthValues == {"true", "false", "unknown"}

(* An atom has a truth; its predicate is that it is true, and its negated  *)
(* predicate that it is false, which with a null is not the same as not    *)
(* true.                                                                   *)
LEMMA AtomsAreDecided ==
  ASSUME NEW a, IsAtom(a), NEW row
  PROVE  Decides(a, row) \in TruthValues
BY DEF IsAtom, Decides, Truth, Negated, InList, TruthValues

LEMMA AtomPredicates ==
  ASSUME NEW a, IsAtom(a), a.op # "contains", NEW row
  PROVE  /\ AtomPredicate(a, FALSE, row) <=> Decides(a, row) = "true"
         /\ AtomPredicate(a, TRUE, row) <=> Decides(a, row) = "false"
<1> DEFINE u == Of(a.left, row)
           v == Of(a.right, row)
<1>1. CASE a.op = "null"
  BY <1>1 DEF AtomPredicate, Decides, Truth
<1>2. CASE a.op = "in"
  <2>1. Decides(a, row) = IF a.kind = "in" THEN InList(u, a.list) ELSE Negated(InList(u, a.list))
    BY <1>2 DEF Decides
  <2>2. ASSUME NEW negated \in BOOLEAN
        PROVE  AtomPredicate(a, negated, row) <=>
                 IF (a.kind = "not in") # negated THEN Null \notin a.list /\ NonNull(u) /\ u \notin a.list
                 ELSE NonNull(u) /\ u \in a.list \ {Null}
    BY <1>2 DEF AtomPredicate
  <2>3. InList(u, a.list) = "true" <=> u # Null /\ u \in a.list
    BY DEF InList
  <2>4. InList(u, a.list) = "false" <=> u # Null /\ u \notin a.list /\ Null \notin a.list
    BY DEF InList
  <2>5. a.kind \in {"in", "not in"}
    BY <1>2 DEF IsAtom
  <2> HIDE DEF u
  <2> QED
    BY <2>1, <2>2, <2>3, <2>4, <2>5 DEF Negated, NonNull
<1>3. CASE a.op = "compare"
  <2>1. Decides(a, row) = IF Null \in {u, v} THEN "unknown" ELSE Truth(Compares(a.kind, u, v))
    BY <1>3 DEF Decides
  <2>2. AtomPredicate(a, FALSE, row) <=> NonNull(u) /\ NonNull(v) /\ Compares(a.kind, u, v)
    BY <1>3 DEF AtomPredicate
  <2>3. AtomPredicate(a, TRUE, row) <=> NonNull(u) /\ NonNull(v) /\ Compares(Inverted(a.kind), u, v)
    BY <1>3 DEF AtomPredicate, ComparedInversely
  <2>4. a.kind \in Comparisons
    BY <1>3 DEF IsAtom
  <2> HIDE DEF u, v
  <2>5. Compares(Inverted(a.kind), u, v) <=> ~Compares(a.kind, u, v)
    BY <2>4 DEF Comparisons, Compares, Inverted
  <2> QED
    BY <2>1, <2>2, <2>3, <2>5 DEF Truth, NonNull
<1> QED
  BY <1>1, <1>2, <1>3 DEF IsAtom

(* Each part has a truth. *)
LEMMA PartsHaveTruth ==
  ASSUME NEW e, IsCondition(e), NEW row
  PROVE  \A k \in 1 .. Len(e) : Truths(e, row)[k] \in TruthValues
<1> DEFINE S == {k \in 1 .. Len(e) : Truths(e, row)[k] \in TruthValues}
<1>1. Len(e) \in Nat
  BY ConditionDomain
<1>2. ASSUME NEW k \in 1 .. Len(e), \A j \in 1 .. k - 1 : j \in S PROVE k \in S
  BY <1>2, PartsAre, TruthsAre, AtomsAreDecided DEF Negated, BothTrue, TruthValues
<1>3. 1 .. Len(e) \subseteq S
  <2> HIDE DEF S
  <2> QED
    BY <1>1, <1>2, InductUpTo
<1> QED
  BY <1>3

(* Where predicate translates, it says of each part that it is true, and   *)
(* under a NOT that it is false.                                           *)
LEMMA PredicatesDecide ==
  ASSUME NEW e, IsCondition(e), NEW row
  PROVE  \A k \in 1 .. Len(e) : Translates(e)[k][FALSE] =>
           /\ Predicates(e, row)[k][FALSE] <=> Truths(e, row)[k] = "true"
           /\ Predicates(e, row)[k][TRUE] <=> Truths(e, row)[k] = "false"
<1> DEFINE t == Truths(e, row)
           p == Predicates(e, row)
           Decided(k) == (p[k][FALSE] <=> t[k] = "true") /\ (p[k][TRUE] <=> t[k] = "false")
           S == {k \in 1 .. Len(e) : Translates(e)[k][FALSE] => Decided(k)}
<1>1. Len(e) \in Nat
  BY ConditionDomain
<1>2. ASSUME NEW k \in 1 .. Len(e), \A j \in 1 .. k - 1 : j \in S PROVE k \in S
  <2> SUFFICES ASSUME Translates(e)[k][FALSE] PROVE Decided(k)
    OBVIOUS
  <2>1. CASE e[k].op = "not"
    <3>1. e[k].of \in 1 .. k - 1 /\ t[k] = Negated(t[e[k].of])
      BY <2>1, PartsAre, TruthsAre
    <3>2. (p[k][FALSE] <=> p[e[k].of][TRUE]) /\ (p[k][TRUE] <=> p[e[k].of][FALSE])
      BY <2>1, PredicatesAre
    <3>3. Translates(e)[e[k].of][FALSE]
      BY <2>1, TranslatesAre
    <3>4. Decided(e[k].of)
      BY <1>2, <3>1, <3>3
    <3> HIDE DEF t, p
    <3> QED
      BY <3>1, <3>2, <3>4 DEF Negated
  <2>2. CASE e[k].op = "and"
    <3>1. e[k].of \in 1 .. k - 1 /\ e[k].with \in 1 .. k - 1 /\ t[k] = BothTrue(t[e[k].of], t[e[k].with])
      BY <2>2, PartsAre, TruthsAre
    <3>2. /\ p[k][FALSE] <=> (p[e[k].of][FALSE] /\ p[e[k].with][FALSE])
          /\ p[k][TRUE] <=> (p[e[k].of][TRUE] \/ p[e[k].with][TRUE])
      BY <2>2, PredicatesAre
    <3>3. Translates(e)[e[k].of][FALSE] /\ Translates(e)[e[k].with][FALSE]
      BY <2>2, TranslatesAre
    <3>4. Decided(e[k].of) /\ Decided(e[k].with)
      BY <1>2, <3>1, <3>3
    <3>5. t[e[k].of] \in TruthValues /\ t[e[k].with] \in TruthValues
      BY <1>1, <3>1, PartsHaveTruth
    <3> HIDE DEF t, p
    <3> QED
      BY <3>1, <3>2, <3>4, <3>5 DEF BothTrue, TruthValues
  <2>3. CASE e[k].op = "or"
    <3>1. /\ e[k].of \in 1 .. k - 1 /\ e[k].with \in 1 .. k - 1
          /\ t[k] = Negated(BothTrue(Negated(t[e[k].of]), Negated(t[e[k].with])))
      BY <2>3, PartsAre, TruthsAre
    <3>2. /\ p[k][FALSE] <=> (p[e[k].of][FALSE] \/ p[e[k].with][FALSE])
          /\ p[k][TRUE] <=> (p[e[k].of][TRUE] /\ p[e[k].with][TRUE])
      BY <2>3, PredicatesAre
    <3>3. Translates(e)[e[k].of][FALSE] /\ Translates(e)[e[k].with][FALSE]
      BY <2>3, TranslatesAre
    <3>4. Decided(e[k].of) /\ Decided(e[k].with)
      BY <1>2, <3>1, <3>3
    <3>5. t[e[k].of] \in TruthValues /\ t[e[k].with] \in TruthValues
      BY <1>1, <3>1, PartsHaveTruth
    <3> HIDE DEF t, p
    <3> QED
      BY <3>1, <3>2, <3>4, <3>5 DEF BothTrue, Negated, TruthValues
  <2>4. CASE e[k].op \notin {"not", "and", "or"}
    <3>1. IsAtom(e[k]) /\ t[k] = Decides(e[k], row)
      BY <2>4, PartsAre, TruthsAre
    <3>2. (p[k][FALSE] <=> AtomPredicate(e[k], FALSE, row)) /\ (p[k][TRUE] <=> AtomPredicate(e[k], TRUE, row))
      BY <2>4, PredicatesAre
    <3>3. e[k].op # "contains"
      BY <2>4, TranslatesAre
    <3> HIDE DEF t, p
    <3> QED
      BY <3>1, <3>2, <3>3, AtomPredicates
  <2> QED
    BY <2>1, <2>2, <2>3, <2>4
<1>3. 1 .. Len(e) \subseteq S
  <2> HIDE DEF S
  <2> QED
    BY <1>1, <1>2, InductUpTo
<1> QED
  BY <1>3

(* Where match translates, it finds of each part what it should. *)
LEMMA MatchesFind ==
  ASSUME NEW e, IsCondition(e), NEW row
  PROVE  \A k \in 1 .. Len(e) : Translates(e)[k][TRUE] => (Matches(e, row)[k] <=> Finds(e, row)[k])
<1> DEFINE f == Finds(e, row)
           m == Matches(e, row)
           S == {k \in 1 .. Len(e) : Translates(e)[k][TRUE] => (m[k] <=> f[k])}
<1>1. Len(e) \in Nat
  BY ConditionDomain
<1>2. ASSUME NEW k \in 1 .. Len(e), \A j \in 1 .. k - 1 : j \in S PROVE k \in S
  <2> SUFFICES ASSUME Translates(e)[k][TRUE] PROVE m[k] <=> f[k]
    OBVIOUS
  <2>1. CASE e[k].op \in {"and", "or"}
    <3>1. e[k].of \in 1 .. k - 1 /\ e[k].with \in 1 .. k - 1
      BY <2>1, PartsAre
    <3>2. Translates(e)[e[k].of][TRUE] /\ Translates(e)[e[k].with][TRUE]
      BY <2>1, TranslatesAre
    <3>3. (m[e[k].of] <=> f[e[k].of]) /\ (m[e[k].with] <=> f[e[k].with])
      BY <1>2, <3>1, <3>2
    <3>4. CASE e[k].op = "and"
      <4>1. m[k] <=> m[e[k].of] /\ m[e[k].with]
        BY <3>4, MatchesAre
      <4>2. f[k] <=> f[e[k].of] /\ f[e[k].with]
        BY <3>4, FindsAre
      <4> HIDE DEF m, f
      <4> QED
        BY <3>3, <4>1, <4>2
    <3>5. CASE e[k].op = "or"
      <4>1. m[k] <=> m[e[k].of] \/ m[e[k].with]
        BY <3>5, MatchesAre
      <4>2. f[k] <=> f[e[k].of] \/ f[e[k].with]
        BY <3>5, FindsAre
      <4> HIDE DEF m, f
      <4> QED
        BY <3>3, <4>1, <4>2
    <3> QED
      BY <2>1, <3>4, <3>5
  <2>2. CASE e[k].op = "contains"
    <3>1. IsAtom(e[k]) /\ e[k].right.kind = "literal"
      BY <2>2, PartsAre DEF IsAtom
    <3>2. f[k] <=> Decides(e[k], row) = "true"
      <4>1. Truths(e, row)[k] = Decides(e[k], row)
        BY <2>2, TruthsAre
      <4>2. ~FindsItem(e[k])
        BY <2>2 DEF FindsItem
      <4>3. f[k] <=> Truths(e, row)[k] = "true"
        BY <2>2, <4>2, FindsAre
      <4> HIDE DEF f
      <4> QED
        BY <4>1, <4>3
    <3>3. m[k] <=> /\ e[k].right.value # Null
                 /\ Of(e[k].left, row).list /\ HasItem(Of(e[k].left, row), e[k].right.value)
      BY <2>2, MatchesAre
    <3>4. Of(e[k].right, row) = e[k].right.value
      BY <3>1 DEF Of
    <3>5. ~Null.list
      BY DEF Null
    <3> HIDE DEF m, f
    <3> QED
      BY <2>2, <3>2, <3>3, <3>4, <3>5 DEF Decides, Truth
  <2>3. CASE e[k].op \notin {"and", "or", "contains"} /\ FindsItem(e[k])
    <3>1. f[k] <=> (e[k].right.value # Null /\ HasItem(Of(e[k].left, row), e[k].right.value))
      BY <2>3, FindsAre
    <3>2. CASE e[k].right.value # Null
      <4>1. m[k] <=> HasItem(Of(e[k].left, row), e[k].right.value)
        BY <2>3, <3>2, MatchesAre DEF MatchesItem
      <4> HIDE DEF m, f
      <4> QED
        BY <3>1, <3>2, <4>1
    <3>3. CASE e[k].right.value = Null
      <4>1. m[k] <=> Predicates(e, row)[k][FALSE]
        BY <2>3, <3>3, MatchesAre DEF MatchesItem
      <4>2. Predicates(e, row)[k][FALSE] <=> AtomPredicate(e[k], FALSE, row)
        BY <2>3, PredicatesAre DEF FindsItem
      <4>3. ~AtomPredicate(e[k], FALSE, row)
        BY <2>3, <3>3 DEF FindsItem, AtomPredicate, Of, NonNull
      <4> HIDE DEF m, f
      <4> QED
        BY <3>1, <3>3, <4>1, <4>2, <4>3
    <3> QED
      BY <3>2, <3>3
  <2>4. CASE e[k].op \notin {"and", "or", "contains"} /\ ~FindsItem(e[k])
    <3>1. f[k] <=> (Truths(e, row)[k] = "true")
      BY <2>4, FindsAre
    <3>2. m[k] <=> Predicates(e, row)[k][FALSE]
      BY <2>4, MatchesAre DEF MatchesItem
    <3>3. Translates(e)[k][FALSE]
      BY <2>4, TranslatesAre
    <3>4. Predicates(e, row)[k][FALSE] <=> Truths(e, row)[k] = "true"
      BY <3>3, PredicatesDecide
    <3> HIDE DEF m, f
    <3> QED
      BY <3>1, <3>2, <3>4
  <2> QED
    BY <2>1, <2>2, <2>3, <2>4
<1>3. 1 .. Len(e) \subseteq S
  <2> HIDE DEF S
  <2> QED
    BY <1>1, <1>2, InductUpTo
<1> QED
  BY <1>3

(* So a condition that is translated keeps what SQL keeps. *)
LEMMA PredicateHolds ==
  ASSUME NEW e, IsCondition(e), Translatable(e, FALSE), NEW row
  PROVE  Predicate(e, row) <=> Holds(e, row)
<1>1. CASE e = NoCondition
  BY <1>1 DEF Predicate, Holds
<1>2. CASE e # NoCondition
  <2>1. Len(e) \in 1 .. Len(e)
    BY <1>2, ConditionDomain DEF IsCondition, IsList, NoCondition
  <2>2. Translates(e)[Len(e)][FALSE]
    BY <1>2 DEF Translatable
  <2> QED
    BY <1>2, <2>1, <2>2, PredicatesDecide DEF Predicate, Holds
<1> QED
  BY <1>1, <1>2

LEMMA MatchFinds ==
  ASSUME NEW e, IsCondition(e), Translatable(e, TRUE), NEW row
  PROVE  Match(e, row) <=> IsFound(e, row)
<1>1. CASE e = NoCondition
  BY <1>1 DEF Match, IsFound
<1>2. CASE e # NoCondition
  <2>1. Len(e) \in 1 .. Len(e)
    BY <1>2, ConditionDomain DEF IsCondition, IsList, NoCondition
  <2>2. Translates(e)[Len(e)][TRUE]
    BY <1>2 DEF Translatable
  <2> QED
    BY <1>2, <2>1, <2>2, MatchesFind DEF Match, IsFound
<1> QED
  BY <1>1, <1>2

-----------------------------------------------------------------------------
(* Lists.  A list that is kept or sorted grows item by item.               *)
LEMMA Induct ==
  ASSUME NEW S, 0 \in S, \A n \in Nat : n \in S => n + 1 \in S
  PROVE  Nat \subseteq S
<1>1. ASSUME NEW n \in Nat, \A m \in 0 .. n - 1 : m \in S PROVE n \in S
  <2>1. n = 0 \/ (n - 1 \in Nat /\ n - 1 \in 0 .. n - 1 /\ (n - 1) + 1 = n)
    OBVIOUS
  <2> QED
    BY <1>1, <2>1
<1> QED
  BY <1>1, InductBelow

(* What is kept of a list is kept item by item, ... *)
LEMMA KeptIs ==
  ASSUME NEW s, Len(s) \in Nat, NEW S
  PROVE  \E t : /\ Kept(s, S) = t[Len(s)] /\ t[0] = <<>>
               /\ \A k \in 1 .. Len(s) : t[k] = IF s[k] \in S THEN Append(t[k - 1], s[k]) ELSE t[k - 1]
<1> DEFINE n == Len(s)
           Step(f, k) == IF k = 0 THEN <<>> ELSE IF s[k] \in S THEN Append(f[k - 1], s[k]) ELSE f[k - 1]
           Is(f, m) == f = [k \in 0 .. m |-> Step(f, k)]
           S_ == {m \in Nat : \E f : Is(f, m)}
<1>1. ASSUME NEW k \in Nat, NEW f, NEW g, k > 0 => f[k - 1] = g[k - 1] PROVE Step(f, k) = Step(g, k)
  BY <1>1
<1> HIDE DEF Step
<1>2. 0 \in S_
  <2> DEFINE f == [k \in 0 .. 0 |-> <<>>]
  <2>1. Step(f, 0) = <<>>
    BY DEF Step
  <2>2. f = [k \in 0 .. 0 |-> Step(f, k)]
    BY <2>1
  <2> QED
    BY <2>2
<1>3. ASSUME NEW m \in Nat, m \in S_ PROVE m + 1 \in S_
  <2>1. PICK f : Is(f, m)
    BY <1>3
  <2> DEFINE g == [k \in 0 .. m + 1 |-> IF k = m + 1 THEN Step(f, m + 1) ELSE f[k]]
  <2>2. \A k \in 0 .. m : f[k] = Step(f, k)
    BY <2>1
  <2>3. \A k \in 0 .. m : g[k] = f[k]
    OBVIOUS
  <2>4. ASSUME NEW k \in 0 .. m + 1 PROVE Step(f, k) = Step(g, k)
    <3>1. k > 0 => f[k - 1] = g[k - 1]
      BY <2>3
    <3> HIDE DEF g
    <3> QED
      BY <1>1, <3>1
  <2>5. ASSUME NEW k \in 0 .. m + 1 PROVE g[k] = Step(g, k)
    BY <2>2, <2>4
  <2> HIDE DEF g
  <2>6. Is(g, m + 1)
    <3>1. g = [k \in 0 .. m + 1 |-> g[k]]
      BY DEF g
    <3> QED
      BY <2>5, <3>1
  <2> QED
    BY <2>6
<1>4. n \in S_
  <2> HIDE DEF S_
  <2> QED
    BY <1>2, <1>3, Induct
<1> DEFINE t == CHOOSE f : Is(f, n)
<1>5. Is(t, n)
  BY <1>4
<1>6. Kept(s, S) = t[n]
  BY DEF Kept, Step
<1> HIDE DEF t
<1>7. \A k \in 0 .. n : t[k] = Step(t, k)
  BY <1>5
<1>8. t[0] = <<>> /\ \A k \in 1 .. n : t[k] = IF s[k] \in S THEN Append(t[k - 1], s[k]) ELSE t[k - 1]
  BY <1>7 DEF Step
<1> QED
  BY <1>6, <1>8

(* ... and a list is sorted item by item. *)
LEMMA SortedIs ==
  ASSUME NEW q, NEW s, Len(s) \in Nat
  PROVE  \E t : /\ Sorted(q, s) = t[Len(s)] /\ t[0] = <<>>
               /\ \A k \in 1 .. Len(s) : t[k] = Inserted(q, t[k - 1], s[k])
<1> DEFINE n == Len(s)
           Step(f, k) == IF k = 0 THEN <<>> ELSE Inserted(q, f[k - 1], s[k])
           Is(f, m) == f = [k \in 0 .. m |-> Step(f, k)]
           S_ == {m \in Nat : \E f : Is(f, m)}
<1>1. ASSUME NEW k \in Nat, NEW f, NEW g, k > 0 => f[k - 1] = g[k - 1] PROVE Step(f, k) = Step(g, k)
  BY <1>1
<1> HIDE DEF Step
<1>2. 0 \in S_
  <2> DEFINE f == [k \in 0 .. 0 |-> <<>>]
  <2>1. Step(f, 0) = <<>>
    BY DEF Step
  <2>2. f = [k \in 0 .. 0 |-> Step(f, k)]
    BY <2>1
  <2> QED
    BY <2>2
<1>3. ASSUME NEW m \in Nat, m \in S_ PROVE m + 1 \in S_
  <2>1. PICK f : Is(f, m)
    BY <1>3
  <2> DEFINE g == [k \in 0 .. m + 1 |-> IF k = m + 1 THEN Step(f, m + 1) ELSE f[k]]
  <2>2. \A k \in 0 .. m : f[k] = Step(f, k)
    BY <2>1
  <2>3. \A k \in 0 .. m : g[k] = f[k]
    OBVIOUS
  <2>4. ASSUME NEW k \in 0 .. m + 1 PROVE Step(f, k) = Step(g, k)
    <3>1. k > 0 => f[k - 1] = g[k - 1]
      BY <2>3
    <3> HIDE DEF g
    <3> QED
      BY <1>1, <3>1
  <2>5. ASSUME NEW k \in 0 .. m + 1 PROVE g[k] = Step(g, k)
    BY <2>2, <2>4
  <2> HIDE DEF g
  <2>6. Is(g, m + 1)
    <3>1. g = [k \in 0 .. m + 1 |-> g[k]]
      BY DEF g
    <3> QED
      BY <2>5, <3>1
  <2> QED
    BY <2>6
<1>4. n \in S_
  <2> HIDE DEF S_
  <2> QED
    BY <1>2, <1>3, Induct
<1> DEFINE t == CHOOSE f : Is(f, n)
<1>5. Is(t, n)
  BY <1>4
<1>6. Sorted(q, s) = t[n]
  BY DEF Sorted, Step
<1> HIDE DEF t
<1>7. \A k \in 0 .. n : t[k] = Step(t, k)
  BY <1>5
<1>8. t[0] = <<>> /\ \A k \in 1 .. n : t[k] = Inserted(q, t[k - 1], s[k])
  BY <1>7 DEF Step
<1> QED
  BY <1>6, <1>8

(* What is kept of two lists that go together, by sets that agree on what  *)
(* goes together, goes together.                                           *)
LEMMA KeptTogether ==
  ASSUME NEW A, NEW B, NEW s \in Seq(A), NEW r \in Seq(B), Len(s) = Len(r), NEW P, NEW S, NEW R,
         \A i \in 1 .. Len(s) : <<s[i], r[i]>> \in P /\ (s[i] \in S <=> r[i] \in R)
  PROVE  /\ Kept(s, S) \in Seq(A \cap S) /\ Kept(r, R) \in Seq(B \cap R)
         /\ Len(Kept(s, S)) = Len(Kept(r, R))
         /\ \A i \in 1 .. Len(Kept(s, S)) : <<Kept(s, S)[i], Kept(r, R)[i]>> \in P
<1>1. PICK a : /\ Kept(s, S) = a[Len(s)] /\ a[0] = <<>>
               /\ \A k \in 1 .. Len(s) : a[k] = IF s[k] \in S THEN Append(a[k - 1], s[k]) ELSE a[k - 1]
  BY KeptIs
<1>2. PICK b : /\ Kept(r, R) = b[Len(r)] /\ b[0] = <<>>
               /\ \A k \in 1 .. Len(r) : b[k] = IF r[k] \in R THEN Append(b[k - 1], r[k]) ELSE b[k - 1]
  BY KeptIs
<1> DEFINE Together(x, y) == /\ x \in Seq(A \cap S) /\ y \in Seq(B \cap R) /\ Len(x) = Len(y)
                             /\ \A i \in 1 .. Len(x) : <<x[i], y[i]>> \in P
           T == {k \in Nat : k <= Len(s) => Together(a[k], b[k])}
<1>3. 0 \in T
  <2>1. \A C : <<>> \in Seq(C) /\ Len(<<>>) = 0
    BY EmptySeq
  <2>2. Together(<<>>, <<>>)
    BY <2>1
  <2> HIDE DEF Together
  <2> QED
    BY <1>1, <1>2, <2>2
<1>4. ASSUME NEW k \in Nat, k \in T PROVE k + 1 \in T
  <2> SUFFICES ASSUME k + 1 <= Len(s) PROVE Together(a[k + 1], b[k + 1])
    OBVIOUS
  <2>1. Together(a[k], b[k])
    BY <1>4
  <2>2. k + 1 \in 1 .. Len(s) /\ (k + 1) - 1 = k
    OBVIOUS
  <2>3. CASE s[k + 1] \in S
    <3>1. r[k + 1] \in R /\ <<s[k + 1], r[k + 1]>> \in P
      BY <2>2, <2>3
    <3>2. s[k + 1] \in A \cap S /\ r[k + 1] \in B \cap R
      BY <2>2, <2>3, <3>1
    <3>3. a[k + 1] = Append(a[k], s[k + 1]) /\ b[k + 1] = Append(b[k], r[k + 1])
      BY <1>1, <1>2, <2>2, <2>3, <3>1
    <3>4. ASSUME NEW x, NEW y, Together(x, y)
          PROVE  Together(Append(x, s[k + 1]), Append(y, r[k + 1]))
      <4> DEFINE c == s[k + 1]
                 d == r[k + 1]
      <4>1. /\ Append(x, c) \in Seq(A \cap S) /\ Len(Append(x, c)) = Len(x) + 1
            /\ \A i \in 1 .. Len(x) + 1 : Append(x, c)[i] = IF i <= Len(x) THEN x[i] ELSE c
        BY <3>2, <3>4
      <4>2. /\ Append(y, d) \in Seq(B \cap R) /\ Len(Append(y, d)) = Len(x) + 1
            /\ \A i \in 1 .. Len(x) + 1 : Append(y, d)[i] = IF i <= Len(x) THEN y[i] ELSE d
        BY <3>2, <3>4
      <4>3. <<c, d>> \in P /\ Len(x) \in Nat /\ Len(x) = Len(y) /\ \A i \in 1 .. Len(x) : <<x[i], y[i]>> \in P
        BY <3>1, <3>4
      <4> HIDE DEF c, d
      <4>4. ASSUME NEW i \in 1 .. Len(x) + 1 PROVE <<Append(x, c)[i], Append(y, d)[i]>> \in P
        <5>1. CASE i <= Len(x)
          <6>1. Append(x, c)[i] = x[i] /\ Append(y, d)[i] = y[i] /\ i \in 1 .. Len(x)
            BY <4>1, <4>2, <4>3, <5>1
          <6> QED
            BY <4>3, <6>1
        <5>2. CASE i > Len(x)
          <6>1. Append(x, c)[i] = c /\ Append(y, d)[i] = d
            BY <4>1, <4>2, <4>3, <5>2
          <6> QED
            BY <4>3, <6>1
        <5>3. i <= Len(x) \/ i > Len(x)
          BY <4>3
        <5> QED
          BY <5>1, <5>2, <5>3
      <4>5. Together(Append(x, c), Append(y, d))
        BY <4>1, <4>2, <4>3, <4>4
      <4> QED
        BY <4>5 DEF c, d
    <3> HIDE DEF Together
    <3> QED
      BY <2>1, <3>3, <3>4
  <2>4. CASE s[k + 1] \notin S
    <3>1. r[k + 1] \notin R
      BY <2>2, <2>4
    <3>2. a[k + 1] = a[k] /\ b[k + 1] = b[k]
      BY <1>1, <1>2, <2>2, <2>4, <3>1
    <3> HIDE DEF Together
    <3> QED
      BY <2>1, <3>2
  <2> QED
    BY <2>3, <2>4
<1>5. Len(s) \in T
  <2> HIDE DEF T
  <2> QED
    BY <1>3, <1>4, Induct
<1>6. Together(a[Len(s)], b[Len(s)])
  <2> HIDE DEF Together
  <2> QED
    BY <1>5
<1> QED
  BY <1>1, <1>2, <1>6

LEMMA KeptIsList ==
  ASSUME NEW A, NEW s \in Seq(A), NEW S
  PROVE  Kept(s, S) \in Seq(A \cap S)
<1> DEFINE P == {<<s[i], s[i]>> : i \in 1 .. Len(s)}
<1>1. \A i \in 1 .. Len(s) : <<s[i], s[i]>> \in P
  OBVIOUS
<1> HIDE DEF P
<1> QED
  BY <1>1, KeptTogether

LEMMA KeptStays ==
  ASSUME NEW A, NEW s \in Seq(A), NEW S
  PROVE  Kept(s, S) \in Seq(A)
<1>1. Kept(s, S) \in Seq(A \cap S) /\ A \cap S \subseteq A
  BY KeptIsList
<1> QED
  BY <1>1, SeqMonotonic

(* Sets that agree on the items of a list keep the same. *)
LEMMA KeptAlike ==
  ASSUME NEW A, NEW s \in Seq(A), NEW S, NEW R, \A i \in 1 .. Len(s) : s[i] \in S <=> s[i] \in R
  PROVE  Kept(s, S) = Kept(s, R)
<1> DEFINE P == {<<s[i], s[i]>> : i \in 1 .. Len(s)}
<1>0. \A i \in 1 .. Len(s) : <<s[i], s[i]>> \in P
  OBVIOUS
<1> HIDE DEF P
<1>1. /\ Kept(s, S) \in Seq(A \cap S) /\ Kept(s, R) \in Seq(A \cap R)
      /\ Len(Kept(s, S)) = Len(Kept(s, R))
      /\ \A i \in 1 .. Len(Kept(s, S)) : <<Kept(s, S)[i], Kept(s, R)[i]>> \in P
  BY <1>0, KeptTogether
<1>2. Kept(s, S) \in Seq(A) /\ Kept(s, R) \in Seq(A)
  BY <1>1, SeqMonotonic
<1>3. \A i \in 1 .. Len(Kept(s, S)) : Kept(s, S)[i] = Kept(s, R)[i]
  BY <1>1 DEF P
<1> QED
  BY <1>1, <1>2, <1>3, SeqEqual

(* A list stays a list of the same items when it is sorted or cut.         *)
LEMMA InsertedIsList ==
  ASSUME NEW A, NEW s \in Seq(A), NEW r \in A, NEW q
  PROVE  /\ Inserted(q, s, r) \in Seq(A) /\ Len(Inserted(q, s, r)) = Len(s) + 1
         /\ PlaceOf(q, s, r) \in 1 .. Len(s) + 1
         /\ \A i \in 1 .. Len(s) + 1 :
              Inserted(q, s, r)[i] =
                IF i < PlaceOf(q, s, r) THEN s[i] ELSE IF i = PlaceOf(q, s, r) THEN r ELSE s[i - 1]
<1> DEFINE before == {i \in 1 .. Len(s) : ~Before(q, r, s[i])}
           at == PlaceOf(q, s, r)
           new == [i \in 1 .. Len(s) + 1 |-> IF i < at THEN s[i] ELSE IF i = at THEN r ELSE s[i - 1]]
<1>1. DOMAIN s = 1 .. Len(s) /\ Len(s) \in Nat
  OBVIOUS
<1>2. IsFiniteSet(1 .. Len(s)) /\ Cardinality(1 .. Len(s)) = Len(s)
  <2>1. \A n \in Nat : IsFiniteSet(1 .. n) /\ Cardinality(1 .. n) = n
    BY FS_Interval
  <2> QED
    BY <1>1, <2>1
<1>3. Cardinality(before) \in 0 .. Len(s)
  <2>1. before \subseteq 1 .. Len(s)
    OBVIOUS
  <2> HIDE DEF before
  <2>2. IsFiniteSet(before) /\ Cardinality(before) <= Cardinality(1 .. Len(s))
    BY <1>2, <2>1, FS_Subset
  <2>3. Cardinality(before) \in Nat
    BY <2>2, FS_CardinalityType
  <2> QED
    BY <1>1, <1>2, <2>2, <2>3
<1>4. at = Cardinality(before) + 1
  BY <1>1 DEF PlaceOf
<1> HIDE DEF before, at
<1>5. \A i \in 1 .. Len(s) + 1 : new[i] \in A
  BY <1>1, <1>3, <1>4
<1>6. new \in Seq(A) /\ Len(new) = Len(s) + 1
  BY <1>1, <1>5
<1>7. Inserted(q, s, r) = new
  BY DEF Inserted, at
<1> QED
  BY <1>3, <1>4, <1>6, <1>7 DEF at

LEMMA LimitedIsList ==
  ASSUME NEW A, NEW s \in Seq(A), NEW n \in Nat \cup {NoLimit}
  PROVE  /\ Limited(n, s) \in Seq(A)
         /\ Len(Limited(n, s)) = IF n # NoLimit /\ n < Len(s) THEN n ELSE Len(s)
         /\ \A i \in 1 .. Len(Limited(n, s)) : Limited(n, s)[i] = s[i]
<1>1. CASE n # NoLimit /\ n < Len(s)
  <2>1. Limited(n, s) = SubSeq(s, 1, n) /\ n \in Nat
    BY <1>1 DEF Limited
  <2>2. \A i \in 1 .. n : s[i] \in A
    BY <1>1, <2>1
  <2>3. SubSeq(s, 1, n) \in Seq(A) /\ Len(SubSeq(s, 1, n)) = n /\ \A i \in 1 .. n : SubSeq(s, 1, n)[i] = s[i]
    BY <2>1, <2>2, SubSeqProperties
  <2> QED
    BY <1>1, <2>1, <2>3
<1>2. CASE ~(n # NoLimit /\ n < Len(s))
  BY <1>2 DEF Limited
<1> QED
  BY <1>1, <1>2

SortsTo(q, s, t) ==
  Sorted(q, s) = t[Len(s)] /\ t[0] = <<>> /\ \A k \in 1 .. Len(s) : t[k] = Inserted(q, t[k - 1], s[k])

LEMMA SortedOf ==
  ASSUME NEW A, NEW s \in Seq(A), NEW q
  PROVE  \E t : SortsTo(q, s, t)
<1>1. Len(s) \in Nat
  OBVIOUS
<1>2. \E t : /\ Sorted(q, s) = t[Len(s)] /\ t[0] = <<>>
            /\ \A k \in 1 .. Len(s) : t[k] = Inserted(q, t[k - 1], s[k])
  BY <1>1, SortedIs
<1> QED
  BY <1>2 DEF SortsTo

(* Lists that go together stay together when they are sorted, if what goes *)
(* together is ordered alike, ...                                          *)
LEMMA SortedTogether ==
  ASSUME NEW A, NEW B, NEW s \in Seq(A), NEW r \in Seq(B), Len(s) = Len(r), NEW P, NEW q,
         \A i \in 1 .. Len(s) : <<s[i], r[i]>> \in P,
         \A x, y \in P : Before(q, x[1], y[1]) <=> Before(q, x[2], y[2])
  PROVE  /\ Sorted(q, s) \in Seq(A) /\ Sorted(q, r) \in Seq(B) /\ Len(Sorted(q, s)) = Len(s)
         /\ Len(Sorted(q, r)) = Len(r)
         /\ \A i \in 1 .. Len(s) : <<Sorted(q, s)[i], Sorted(q, r)[i]>> \in P
<1>0. Len(s) \in Nat /\ Len(r) \in Nat
  OBVIOUS
<1>7. PICK a : SortsTo(q, s, a)
  BY SortedOf
<1>8. PICK b : SortsTo(q, r, b)
  BY SortedOf
<1>1. /\ Sorted(q, s) = a[Len(s)] /\ a[0] = <<>>
      /\ \A k \in 1 .. Len(s) : a[k] = Inserted(q, a[k - 1], s[k])
  BY <1>7 DEF SortsTo
<1>2. /\ Sorted(q, r) = b[Len(r)] /\ b[0] = <<>>
      /\ \A k \in 1 .. Len(r) : b[k] = Inserted(q, b[k - 1], r[k])
  BY <1>8 DEF SortsTo
<1> DEFINE Together(x, y, n) == /\ x \in Seq(A) /\ y \in Seq(B) /\ Len(x) = n /\ Len(y) = n
                                /\ \A i \in 1 .. n : <<x[i], y[i]>> \in P
           T == {k \in Nat : k <= Len(s) => Together(a[k], b[k], k)}
<1>3. 0 \in T
  <2>1. \A C : <<>> \in Seq(C) /\ Len(<<>>) = 0
    BY EmptySeq
  <2>2. Together(<<>>, <<>>, 0)
    BY <2>1
  <2> HIDE DEF Together
  <2> QED
    BY <1>1, <1>2, <2>2
<1>4. ASSUME NEW k \in Nat, k \in T PROVE k + 1 \in T
  <2> SUFFICES ASSUME k + 1 <= Len(s) PROVE Together(a[k + 1], b[k + 1], k + 1)
    OBVIOUS
  <2>1. Together(a[k], b[k], k)
    BY <1>4
  <2>2. k + 1 \in 1 .. Len(s) /\ (k + 1) - 1 = k
    OBVIOUS
  <2>3. /\ a[k + 1] = Inserted(q, a[k], s[k + 1]) /\ b[k + 1] = Inserted(q, b[k], r[k + 1])
        /\ s[k + 1] \in A /\ r[k + 1] \in B /\ <<s[k + 1], r[k + 1]>> \in P
    BY <1>1, <1>2, <2>2
  <2>4. ASSUME NEW x, NEW y, Together(x, y, k), NEW c, NEW d, c \in A, d \in B, <<c, d>> \in P
        PROVE  Together(Inserted(q, x, c), Inserted(q, y, d), k + 1)
    <3> DEFINE at == PlaceOf(q, x, c)
    <3>1. DOMAIN x = 1 .. k /\ DOMAIN y = 1 .. k /\ Len(x) = k /\ Len(y) = k
      BY <2>4
    <3>2. \A i \in 1 .. k : Before(q, c, x[i]) <=> Before(q, d, y[i])
      <4> SUFFICES ASSUME NEW i \in 1 .. k PROVE Before(q, c, x[i]) <=> Before(q, d, y[i])
        OBVIOUS
      <4>1. <<x[i], y[i]>> \in P
        BY <2>4
      <4> QED
        BY <2>4, <4>1
    <3>3. at = PlaceOf(q, y, d)
      BY <3>1, <3>2 DEF PlaceOf
    <3>0. x \in Seq(A) /\ y \in Seq(B) /\ c \in A /\ d \in B /\ <<c, d>> \in P
      BY <2>4
    <3>4. /\ Inserted(q, x, c) \in Seq(A) /\ Len(Inserted(q, x, c)) = k + 1
          /\ at \in 1 .. k + 1
          /\ \A i \in 1 .. k + 1 : Inserted(q, x, c)[i] = IF i < at THEN x[i] ELSE IF i = at THEN c ELSE x[i - 1]
      <4>1. /\ Inserted(q, x, c) \in Seq(A) /\ Len(Inserted(q, x, c)) = Len(x) + 1
            /\ PlaceOf(q, x, c) \in 1 .. Len(x) + 1
            /\ \A i \in 1 .. Len(x) + 1 :
                 Inserted(q, x, c)[i] =
                   IF i < PlaceOf(q, x, c) THEN x[i] ELSE IF i = PlaceOf(q, x, c) THEN c ELSE x[i - 1]
        BY <3>0, InsertedIsList
      <4> QED
        BY <3>1, <4>1
    <3>5. /\ Inserted(q, y, d) \in Seq(B) /\ Len(Inserted(q, y, d)) = k + 1
          /\ \A i \in 1 .. k + 1 : Inserted(q, y, d)[i] = IF i < at THEN y[i] ELSE IF i = at THEN d ELSE y[i - 1]
      <4>1. /\ Inserted(q, y, d) \in Seq(B) /\ Len(Inserted(q, y, d)) = Len(y) + 1
            /\ \A i \in 1 .. Len(y) + 1 :
                 Inserted(q, y, d)[i] =
                   IF i < PlaceOf(q, y, d) THEN y[i] ELSE IF i = PlaceOf(q, y, d) THEN d ELSE y[i - 1]
        BY <3>0, InsertedIsList
      <4> HIDE DEF at
      <4> QED
        BY <3>1, <3>3, <4>1
    <3> HIDE DEF at
    <3>6. ASSUME NEW i \in 1 .. k + 1 PROVE <<Inserted(q, x, c)[i], Inserted(q, y, d)[i]>> \in P
      <4>1. CASE i < at
        BY <2>4, <3>4, <3>5, <4>1
      <4>2. CASE i = at
        <5>1. Inserted(q, x, c)[i] = c /\ Inserted(q, y, d)[i] = d
          BY <3>4, <3>5, <4>2
        <5> QED
          BY <3>0, <5>1
      <4>3. CASE i > at
        <5>1. i - 1 \in 1 .. k
          BY <3>4, <4>3
        <5>2. <<x[i - 1], y[i - 1]>> \in P
          BY <2>4, <5>1
        <5>3. Inserted(q, x, c)[i] = x[i - 1] /\ Inserted(q, y, d)[i] = y[i - 1]
          BY <3>4, <3>5, <4>3
        <5> QED
          BY <5>2, <5>3
      <4> QED
        BY <3>4, <4>1, <4>2, <4>3
    <3> QED
      BY <3>4, <3>5, <3>6
  <2> HIDE DEF Together
  <2> QED
    BY <2>1, <2>3, <2>4
<1>5. Len(s) \in T
  <2> HIDE DEF T
  <2> QED
    BY <1>3, <1>4, Induct
<1>6. Together(a[Len(s)], b[Len(s)], Len(s))
  <2> HIDE DEF Together
  <2> QED
    BY <1>0, <1>5
<1> QED
  BY <1>1, <1>2, <1>6

LEMMA SortedIsList ==
  ASSUME NEW A, NEW s \in Seq(A), NEW q
  PROVE  Sorted(q, s) \in Seq(A)
<1> DEFINE P == {<<s[i], s[i]>> : i \in 1 .. Len(s)}
<1>1. \A x, y \in P : Before(q, x[1], y[1]) <=> Before(q, x[2], y[2])
  OBVIOUS
<1>2. \A i \in 1 .. Len(s) : <<s[i], s[i]>> \in P
  OBVIOUS
<1> HIDE DEF P
<1> QED
  BY <1>1, <1>2, SortedTogether

-----------------------------------------------------------------------------
(* The translated pipeline. *)
USE MongoAssumption DEF MongoAssumption

(* A function of 1 .. n is a list of its values. *)
LEMMA FunctionIsList ==
  ASSUME NEW n \in Nat, NEW h, h = [k \in 1 .. n |-> h[k]]
  PROVE  Len(h) = n /\ h \in Seq({h[k] : k \in 1 .. n})
<1> DEFINE A == {h[k] : k \in 1 .. n}
<1>1. \A k \in 1 .. n : h[k] \in A
  OBVIOUS
<1> HIDE DEF A
<1>2. [k \in 1 .. n |-> h[k]] \in Seq(A) /\ Len([k \in 1 .. n |-> h[k]]) = n
  BY <1>1
<1> QED
  BY <1>2 DEF A

(* A condition without a part is no condition. *)
LEMMA ConditionIsEmpty ==
  ASSUME NEW e, IsCondition(e)
  PROVE  e = NoCondition <=> Len(e) = 0
BY DEF IsCondition, IsList, NoCondition

(* HAVING, with the outputs its columns name, is a condition. *)
LEMMA HavingParts ==
  ASSUME NEW q \in Selects
  PROVE  /\ Len(Having(q)) = Len(q.having) /\ IsList(Having(q))
         /\ \A k \in 1 .. Len(q.having) :
              /\ q.having[k].op \in {"not", "and", "or"} => Having(q)[k] = q.having[k]
              /\ q.having[k].op \notin {"not", "and", "or"} =>
                   Having(q)[k] = Atom(q.having[k].op, q.having[k].kind, OutputNamed(q, q.having[k].left),
                                       OutputNamed(q, q.having[k].right), q.having[k].list)
<1> DEFINE e == q.having
           h == Having(q)
<1>1. IsCondition(e)
  OBVIOUS
<1>2. DOMAIN e = 1 .. Len(e) /\ Len(e) \in Nat
  BY <1>1, ConditionDomain
<1>3. h = [k \in 1 .. Len(e) |->
             IF e[k].op \in {"not", "and", "or"} THEN e[k]
             ELSE [e[k] EXCEPT !.left = OutputNamed(q, e[k].left), !.right = OutputNamed(q, e[k].right)]]
  BY <1>2 DEF Having, Resolved
<1> HIDE DEF h
<1>4. Len(h) = Len(e) /\ IsList(h)
  <2>1. h = [k \in 1 .. Len(e) |-> h[k]]
    BY <1>3
  <2> QED
    BY <1>2, <2>1, FunctionIsList DEF IsList
<1>5. ASSUME NEW k \in 1 .. Len(e), e[k].op \notin {"not", "and", "or"}
      PROVE  h[k] = Atom(e[k].op, e[k].kind, OutputNamed(q, e[k].left), OutputNamed(q, e[k].right), e[k].list)
  <2>1. IsAtom(e[k])
    BY <1>1, <1>5, PartsAre
  <2> QED
    BY <1>3, <1>5, <2>1 DEF IsAtom, Atom
<1> QED
  BY <1>3, <1>4, <1>5 DEF h

LEMMA HavingIsCondition ==
  ASSUME NEW q \in Selects
  PROVE  IsCondition(Having(q))
<1> DEFINE e == q.having
           h == Having(q)
<1>1. IsCondition(e)
  OBVIOUS
<1>2. ASSUME NEW k \in 1 .. Len(e)
      PROVE  IsAtom(h[k]) \/ IsNot(h[k], 1 .. k - 1) \/ IsBoth(h[k], 1 .. k - 1)
  <2>1. CASE IsAtom(e[k])
    <3>1. e[k].op \notin {"not", "and", "or"}
      BY <2>1 DEF IsAtom
    <3>2. h[k] = Atom(e[k].op, e[k].kind, OutputNamed(q, e[k].left), OutputNamed(q, e[k].right), e[k].list)
      BY <3>1, HavingParts
    <3>3. e[k].right.kind = "literal" => OutputNamed(q, e[k].right) = e[k].right
      BY DEF OutputNamed, IsColumn
    <3> HIDE DEF h
    <3>4. /\ h[k].op = e[k].op /\ h[k].kind = e[k].kind /\ h[k].list = e[k].list
          /\ h[k].left = OutputNamed(q, e[k].left) /\ h[k].right = OutputNamed(q, e[k].right)
      BY <3>2 DEF Atom
    <3> QED
      BY <2>1, <3>2, <3>3, <3>4 DEF IsAtom
  <2>2. CASE e[k].op \in {"not", "and", "or"}
    <3>1. h[k] = e[k]
      BY <2>2, HavingParts
    <3> QED
      BY <1>1, <3>1 DEF IsCondition
  <2> QED
    BY <1>1, <2>1, <2>2 DEF IsCondition, IsNot, IsBoth
<1>3. Len(h) = Len(e) /\ IsList(h)
  BY HavingParts
<1> HIDE DEF h
<1> QED
  BY <1>2, <1>3 DEF IsCondition, h

(* The aggregates of the pipeline are those of SQL, of no document too.    *)
LEMMA AggregatesAlike ==
  ASSUME NEW D, NEW docs \in Seq(D), NEW k \in AggregatesOf
  PROVE  LET x == Aggregate(k[1], k[2]) IN
           /\ Reference(x, Slot(x, docs)) = Aggregated(x, docs)
           /\ docs = <<>> => Reference(x, Default(x)) = Aggregated(x, docs)
<1> DEFINE x == Aggregate(k[1], k[2])
           present == Present(x.name, docs)
           counted == IF x.name = "*" THEN DOMAIN docs ELSE present
<1>1. /\ x.kind \in AggregateKinds /\ x.kind = k[1] /\ x.name = k[2]
      /\ x.name = "*" => x.kind = "count"
  <2>1. x.kind = k[1] /\ x.name = k[2]
    BY DEF Aggregate
  <2>2. CASE k = <<"count", "*">>
    BY <2>1, <2>2 DEF AggregateKinds
  <2>3. CASE k \in AggregateKinds \X Fields
    BY <2>1, <2>3
  <2> QED
    BY <2>2, <2>3 DEF AggregatesOf
<1>2. IsFiniteSet(counted) /\ (Cardinality(counted) = 0 <=> counted = {})
  <2>1. DOMAIN docs = 1 .. Len(docs) /\ Len(docs) \in Nat
    OBVIOUS
  <2>2. IsFiniteSet(1 .. Len(docs))
    BY <2>1, FS_Interval
  <2>3. counted \subseteq 1 .. Len(docs)
    BY <2>1 DEF Present
  <2> HIDE DEF counted
  <2>4. IsFiniteSet(counted)
    BY <2>2, <2>3, FS_Subset
  <2> QED
    BY <2>4, FS_EmptySet
<1>3. docs = <<>> => DOMAIN docs = {} /\ counted = {} /\ present = {}
  BY DEF Present
<1>4. Cardinality({}) = 0
  BY FS_EmptySet
<1>5. CASE x.kind = "count"
  <2>1. Aggregated(x, docs) = Scalar(Cardinality(counted))
    BY <1>5 DEF Aggregated
  <2>2. Reference(x, Slot(x, docs)) = Scalar(Cardinality(counted))
    BY <1>5 DEF Reference, Slot
  <2>3. Reference(x, Default(x)) = Scalar(0)
    BY <1>5 DEF Reference, Default
  <2> HIDE DEF x, counted
  <2> QED
    BY <1>3, <1>4, <2>1, <2>2, <2>3 DEF x
<1>6. CASE x.kind = "sum"
  <2>1. Aggregated(x, docs) = IF present = {} THEN Null ELSE Scalar(SumOf(Amounts(x.name, docs)))
    BY <1>6 DEF Aggregated
  <2>2. counted = present
    BY <1>1, <1>6
  <2>3. Reference(x, Slot(x, docs)) =
          IF Cardinality(counted) = 0 THEN Null ELSE Scalar(SumOf(Amounts(x.name, docs)))
    BY <1>6 DEF Reference, Slot
  <2>4. Reference(x, Default(x)) = Null
    BY <1>6 DEF Reference, Default
  <2> HIDE DEF x, counted, present
  <2> QED
    BY <1>2, <1>3, <2>1, <2>2, <2>3, <2>4 DEF x
<1>7. CASE x.kind = "max"
  <2>1. Aggregated(x, docs) = IF present = {} THEN Null ELSE Scalar(Largest(Amounts(x.name, docs)))
    BY <1>7 DEF Aggregated
  <2>2. counted = present
    BY <1>1, <1>7
  <2>3. Reference(x, Slot(x, docs)) = IF counted = {} THEN Null ELSE Scalar(Largest(Amounts(x.name, docs)))
    BY <1>7 DEF Reference, Slot
  <2>4. Reference(x, Default(x)) = Null
    BY <1>7 DEF Reference, Default
  <2> HIDE DEF x, counted, present
  <2> QED
    BY <1>3, <2>1, <2>2, <2>3, <2>4 DEF x
<1> QED
  BY <1>1, <1>5, <1>6, <1>7 DEF AggregateKinds

(* So are the rows of its groups. *)
LEMMA GroupsAreLists ==
  ASSUME NEW D, NEW docs \in Seq(D), NEW q
  PROVE  /\ DOMAIN GroupsOf(q, docs) = 1 .. Len(GroupsOf(q, docs)) /\ Len(GroupsOf(q, docs)) \in Nat
         /\ \A n \in DOMAIN GroupsOf(q, docs) : GroupsOf(q, docs)[n] \in Seq(D)
<1>1. CASE q.group = <<>>
  BY <1>1 DEF GroupsOf
<1>2. CASE q.group # <<>>
  <2> DEFINE numbers == [i \in DOMAIN docs |-> i]
             firsts == Kept(numbers, Firsts(q, docs))
             S(n) == {d \in ToSet(docs) : Key(q, d) = Key(q, docs[firsts[n]])}
  <2>1. numbers \in Seq(Nat)
    OBVIOUS
  <2>2. firsts \in Seq(Nat \cap Firsts(q, docs))
    <3> HIDE DEF numbers
    <3> QED
      BY <2>1, KeptIsList
  <2>3. GroupsOf(q, docs) = [n \in DOMAIN firsts |-> Kept(docs, S(n))]
    BY <1>2 DEF GroupsOf, Groups
  <2> HIDE DEF firsts, S
  <2>4. \A n \in DOMAIN firsts : Kept(docs, S(n)) \in Seq(D)
    BY KeptStays
  <2>5. DOMAIN firsts = 1 .. Len(firsts) /\ Len(firsts) \in Nat
    BY <2>2
  <2> QED
    BY <2>3, <2>4, <2>5
<1> QED
  BY <1>1, <1>2

LEMMA StageRowsAlike ==
  ASSUME NEW D, NEW docs \in Seq(D), NEW q
  PROVE  /\ StageRow(q, docs) = AggregateRow(q, docs)
         /\ docs = <<>> => DefaultRow(q) = AggregateRow(q, docs)
<1>1. [k \in AggregatesOf |-> LET x == Aggregate(k[1], k[2]) IN Reference(x, Slot(x, docs))]
        = [k \in AggregatesOf |-> Aggregated(Aggregate(k[1], k[2]), docs)]
  BY AggregatesAlike
<1>2. docs = <<>> =>
        [k \in AggregatesOf |-> LET x == Aggregate(k[1], k[2]) IN Reference(x, Default(x))]
          = [k \in AggregatesOf |-> Aggregated(Aggregate(k[1], k[2]), docs)]
  BY AggregatesAlike
<1> QED
  BY <1>1, <1>2 DEF StageRow, DefaultRow, AggregateRow

LEMMA GroupStageSelects ==
  ASSUME NEW D, NEW docs \in Seq(D), NEW q, IsGrouped(q)
  PROVE  GroupStage(q, docs) = SelectedRows(q, docs)
<1> DEFINE groups == GroupsOf(q, docs)
<1>1. SelectedRows(q, docs) = [n \in DOMAIN groups |-> AggregateRow(q, groups[n])]
  BY DEF SelectedRows
<1>2. CASE q.group = <<>> /\ docs = <<>>
  <2>1. groups = <<docs>>
    BY <1>2 DEF GroupsOf
  <2>2. DefaultRow(q) = AggregateRow(q, docs)
    BY <1>2, StageRowsAlike
  <2>3. GroupStage(q, docs) = <<DefaultRow(q)>>
    BY <1>2 DEF GroupStage
  <2> HIDE DEF groups
  <2> QED
    BY <1>1, <2>1, <2>2, <2>3
<1>3. CASE ~(q.group = <<>> /\ docs = <<>>)
  <2>1. GroupStage(q, docs) = [n \in DOMAIN groups |-> StageRow(q, groups[n])]
    BY <1>3 DEF GroupStage
  <2>2. \A n \in DOMAIN groups : groups[n] \in Seq(D)
    BY GroupsAreLists
  <2> HIDE DEF groups
  <2>3. \A n \in DOMAIN groups : StageRow(q, groups[n]) = AggregateRow(q, groups[n])
    BY <2>2, StageRowsAlike
  <2> QED
    BY <1>1, <2>1, <2>3
<1> QED
  BY <1>2, <1>3

LEMMA HavingStageKeeps ==
  ASSUME NEW q \in Selects, Translatable(Having(q), FALSE), NEW rows
  PROVE  HavingStage(q, rows) = HavingRows(q, rows)
<1>1. \A r : Predicate(Having(q), r) <=> Holds(Having(q), r)
  BY HavingIsCondition, PredicateHolds
<1> QED
  BY <1>1 DEF HavingStage, HavingRows

(* The join on the last document keeps what SQL keeps: null is no key.     *)
LEMMA LookedUpIsSource ==
  ASSUME NEW q \in Selects, NEW docs \in Collections
  PROVE  (IF q.latest.keys = <<>> THEN docs ELSE LookedUp(q, docs)) = SourceOf(q, docs)
<1> DEFINE newest == Newest(q, docs)
<1>1. ASSUME NEW d \in ToSet(docs), NEW f \in ToSet(q.latest.keys)
      PROVE  Agrees(d, newest[1], f) <=>
               Decides(Compare("eq", Column(f), Literal(newest[1][<<"column", f>>])), RowOf(d)) = "true"
  <2>1. f \in Fields
    <3>1. q.latest.keys \in Seq(Fields)
      OBVIOUS
    <3>2. PICK i \in DOMAIN q.latest.keys : f = q.latest.keys[i]
      BY DEF ToSet
    <3> QED
      BY <3>1, <3>2
  <2>2. Of(Column(f), RowOf(d)) = d[f]
    BY <2>1 DEF Of, Column, RowOf
  <2>3. Of(Literal(newest[1][<<"column", f>>]), RowOf(d)) = newest[1][<<"column", f>>]
    BY DEF Of, Literal
  <2> HIDE DEF newest
  <2> QED
    BY <2>2, <2>3 DEF Agrees, NonNull, Decides, Compare, Atom, Truth, Compares
<1>2. {d \in ToSet(docs) : newest # <<>> /\ \A f \in ToSet(q.latest.keys) : Agrees(d, newest[1], f)}
        = OfLatest(q, docs)
  BY <1>1 DEF OfLatest
<1> QED
  BY <1>2 DEF LookedUp, SourceOf

LEMMA SourceIsList ==
  ASSUME NEW q, NEW D, NEW docs \in Seq(D)
  PROVE  SourceOf(q, docs) \in Seq(D)
BY KeptStays DEF SourceOf

(* What is translated is the meaning of the statement, if its WHERE finds  *)
(* the same.                                                               *)
LEMMA TranslatedMeans ==
  ASSUME NEW q \in Selects, NEW docs \in Collections, Translatable(Having(q), FALSE), NEW found
  PROVE  Translated(q, docs, found) = Meaning(q, docs, found)
<1> DEFINE source == SourceOf(q, docs)
           matched == Kept(source, found)
<1>1. PICK D : docs \in Seq(D)
  OBVIOUS
<1>2. source \in Seq(D)
  BY <1>1, SourceIsList
<1>3. matched \in Seq(D)
  BY <1>2, KeptStays
<1>4. Translated(q, docs, found) = Pipeline(q, source, found)
  BY LookedUpIsSource DEF Translated
<1>5. (IF IsGrouped(q) THEN GroupStage(q, matched) ELSE RowsOf(matched)) = SelectedRows(q, matched)
  <2> HIDE DEF matched
  <2>1. IsGrouped(q) => GroupStage(q, matched) = SelectedRows(q, matched)
    BY <1>3, GroupStageSelects
  <2>2. ~IsGrouped(q) => RowsOf(matched) = SelectedRows(q, matched)
    BY DEF SelectedRows
  <2> QED
    BY <2>1, <2>2
<1>6. HavingStage(q, SelectedRows(q, matched)) = HavingRows(q, SelectedRows(q, matched))
  BY HavingStageKeeps
<1>7. Pipeline(q, source, found) = Projected(q, Limited(q.limit, Sorted(q, HavingRows(q, SelectedRows(q, matched)))))
  <2> HIDE DEF source
  <2> QED
    BY <1>5, <1>6 DEF Pipeline
<1> QED
  BY <1>4, <1>7 DEF Meaning

(* One row more than asked for shows as much as all of them. *)
LEMMA ResultIsShown ==
  ASSUME NEW A, NEW rows \in Seq(A)
  PROVE  Result(rows) = Shown(rows)
<1> DEFINE fetched == Limited(RowLimit + 1, rows)
           n == Len(rows)
<1>1. n \in Nat /\ RowLimit \in Nat /\ RowLimit + 1 \in Nat /\ RowLimit # NoLimit /\ RowLimit + 1 # NoLimit
  BY DEF NoLimit
<1>2. /\ fetched \in Seq(A) /\ Len(fetched) = (IF RowLimit + 1 < n THEN RowLimit + 1 ELSE n)
      /\ \A i \in 1 .. Len(fetched) : fetched[i] = rows[i]
  BY <1>1, LimitedIsList
<1> HIDE DEF fetched
<1>3. /\ Limited(RowLimit, fetched) \in Seq(A)
      /\ Len(Limited(RowLimit, fetched)) = IF RowLimit < Len(fetched) THEN RowLimit ELSE Len(fetched)
      /\ \A i \in 1 .. Len(Limited(RowLimit, fetched)) : Limited(RowLimit, fetched)[i] = fetched[i]
  BY <1>1, <1>2, LimitedIsList
<1>4. /\ Limited(RowLimit, rows) \in Seq(A)
      /\ Len(Limited(RowLimit, rows)) = IF RowLimit < n THEN RowLimit ELSE n
      /\ \A i \in 1 .. Len(Limited(RowLimit, rows)) : Limited(RowLimit, rows)[i] = rows[i]
  BY <1>1, LimitedIsList
<1> HIDE DEF n
<1>5. Len(Limited(RowLimit, fetched)) = Len(Limited(RowLimit, rows))
  BY <1>1, <1>2, <1>3, <1>4
<1>6. \A i \in 1 .. Len(Limited(RowLimit, rows)) : Limited(RowLimit, fetched)[i] = Limited(RowLimit, rows)[i]
  BY <1>1, <1>2, <1>3, <1>4, <1>5
<1>7. Limited(RowLimit, fetched) = Limited(RowLimit, rows)
  BY <1>3, <1>4, <1>5, <1>6, SeqEqual
<1>8. Len(fetched) > RowLimit <=> n > RowLimit
  BY <1>1, <1>2
<1> QED
  BY <1>7, <1>8 DEF Result, Shown, fetched, n

(* What a statement means is a list. *)
LEMMA SelectedIsList ==
  ASSUME NEW D, NEW docs \in Seq(D), NEW q
  PROVE  \E A : SelectedRows(q, docs) \in Seq(A)
<1> DEFINE rows == SelectedRows(q, docs)
<1>1. CASE IsGrouped(q)
  <2>1. DOMAIN GroupsOf(q, docs) = 1 .. Len(GroupsOf(q, docs)) /\ Len(GroupsOf(q, docs)) \in Nat
    BY GroupsAreLists
  <2>2. rows = [n \in DOMAIN GroupsOf(q, docs) |-> AggregateRow(q, GroupsOf(q, docs)[n])]
    BY <1>1 DEF SelectedRows
  <2> HIDE DEF rows
  <2>3. rows = [n \in 1 .. Len(GroupsOf(q, docs)) |-> rows[n]]
    BY <2>1, <2>2
  <2> QED
    BY <2>1, <2>3, FunctionIsList DEF rows
<1>2. CASE ~IsGrouped(q)
  <2>1. DOMAIN docs = 1 .. Len(docs) /\ Len(docs) \in Nat
    OBVIOUS
  <2>2. rows = [i \in DOMAIN docs |-> RowOf(docs[i])]
    BY <1>2 DEF SelectedRows, RowsOf
  <2> HIDE DEF rows
  <2>3. rows = [n \in 1 .. Len(docs) |-> rows[n]]
    BY <2>1, <2>2
  <2> QED
    BY <2>1, <2>3, FunctionIsList DEF rows
<1> QED
  BY <1>1, <1>2

LEMMA ProjectedIsList ==
  ASSUME NEW A, NEW rows \in Seq(A), NEW q
  PROVE  \E B : Projected(q, rows) \in Seq(B)
<1>1. DOMAIN rows = 1 .. Len(rows) /\ Len(rows) \in Nat
  OBVIOUS
<1> DEFINE p == Projected(q, rows)
<1>2. p = [n \in 1 .. Len(rows) |-> p[n]]
  <2>1. p = [n \in DOMAIN rows |->
               IF Star(q) THEN [f \in Fields |-> rows[n][<<"column", f>>]]
               ELSE [i \in DOMAIN q.outputs |-> Of(q.outputs[i].of, rows[n])]]
    BY DEF Projected
  <2> HIDE DEF p
  <2> QED
    BY <1>1, <2>1
<1> HIDE DEF p
<1>3. p \in Seq({p[k] : k \in 1 .. Len(rows)})
  BY <1>1, <1>2, FunctionIsList
<1> QED
  BY <1>3 DEF p

LEMMA MeaningIsList ==
  ASSUME NEW q \in Selects, NEW docs \in Collections, NEW found
  PROVE  \E A : Meaning(q, docs, found) \in Seq(A)
<1> DEFINE kept == Kept(SourceOf(q, docs), found)
           having == HavingRows(q, SelectedRows(q, kept))
           limited == Limited(q.limit, Sorted(q, having))
<1>1. PICK D : docs \in Seq(D)
  OBVIOUS
<1>2. kept \in Seq(D)
  BY <1>1, SourceIsList, KeptStays
<1>3. PICK A : SelectedRows(q, kept) \in Seq(A)
  <2> HIDE DEF kept
  <2> QED
    BY <1>2, SelectedIsList
<1>4. having \in Seq(A)
  BY <1>3, KeptStays DEF HavingRows
<1>5. limited \in Seq(A)
  <2> HIDE DEF having
  <2>1. Sorted(q, having) \in Seq(A)
    BY <1>4, SortedIsList
  <2> QED
    BY <2>1, LimitedIsList
<1>6. Meaning(q, docs, found) = Projected(q, limited)
  BY DEF Meaning
<1> QED
  BY <1>5, <1>6, ProjectedIsList

(* So a statement that is translated gives the rows of its SQL. *)
LEMMA TranslationMeans ==
  ASSUME IsCondition(where), select \in Selects \cup {NoStatement}
  PROVE  TranslationKeepsMeaning
<1> SUFFICES ASSUME select # NoStatement, NEW docs \in Collections
             PROVE  /\ ~Unsupported(select, where, FALSE) =>
                         Translated(select, docs, {d \in ToSet(docs) : Predicate(where, RowOf(d))})
                           = Meaning(select, docs, {d \in ToSet(docs) : Holds(where, RowOf(d))})
                    /\ ~Unsupported(select, where, TRUE) =>
                         Result(Translated(select, docs, {d \in ToSet(docs) : Match(where, RowOf(d))}))
                           = Shown(Meaning(select, docs, {d \in ToSet(docs) : IsFound(where, RowOf(d))}))
  BY DEF TranslationKeepsMeaning, IsWritten
<1>1. select \in Selects
  OBVIOUS
<1>2. ASSUME ~Unsupported(select, where, FALSE)
      PROVE  Translated(select, docs, {d \in ToSet(docs) : Predicate(where, RowOf(d))})
               = Meaning(select, docs, {d \in ToSet(docs) : Holds(where, RowOf(d))})
  <2>1. Translatable(where, FALSE) /\ Translatable(Having(select), FALSE)
    BY <1>2 DEF Unsupported
  <2>2. {d \in ToSet(docs) : Predicate(where, RowOf(d))} = {d \in ToSet(docs) : Holds(where, RowOf(d))}
    BY <2>1, PredicateHolds
  <2> QED
    BY <1>1, <2>1, <2>2, TranslatedMeans
<1>3. ASSUME ~Unsupported(select, where, TRUE)
      PROVE  Result(Translated(select, docs, {d \in ToSet(docs) : Match(where, RowOf(d))}))
               = Shown(Meaning(select, docs, {d \in ToSet(docs) : IsFound(where, RowOf(d))}))
  <2> DEFINE found == {d \in ToSet(docs) : IsFound(where, RowOf(d))}
  <2>1. Translatable(where, TRUE) /\ Translatable(Having(select), FALSE)
    BY <1>3 DEF Unsupported
  <2>2. {d \in ToSet(docs) : Match(where, RowOf(d))} = found
    BY <2>1, MatchFinds
  <2> HIDE DEF found
  <2>3. Translated(select, docs, found) = Meaning(select, docs, found)
    BY <1>1, <2>1, TranslatedMeans
  <2>4. PICK A : Meaning(select, docs, found) \in Seq(A)
    BY <1>1, MeaningIsList
  <2>5. Result(Meaning(select, docs, found)) = Shown(Meaning(select, docs, found))
    BY <2>4, ResultIsShown
  <2> QED
    BY <2>2, <2>3, <2>5 DEF found
<1> QED
  BY <1>2, <1>3

-----------------------------------------------------------------------------
(* The split.  A condition is true when all the parts it is split into are. *)
LEMMA SplitHolds ==
  ASSUME NEW e, IsCondition(e), NEW row
  PROVE  \A k \in 1 .. Len(e) :
           /\ Splits(e)[k] \subseteq 1 .. k
           /\ Truths(e, row)[k] = "true" <=> \A j \in Splits(e)[k] : Truths(e, row)[j] = "true"
<1> DEFINE t == Truths(e, row)
           p == Splits(e)
           S == {k \in 1 .. Len(e) : /\ p[k] \subseteq 1 .. k
                                     /\ t[k] = "true" <=> \A j \in p[k] : t[j] = "true"}
<1>1. Len(e) \in Nat
  BY ConditionDomain
<1>2. ASSUME NEW k \in 1 .. Len(e), \A j \in 1 .. k - 1 : j \in S PROVE k \in S
  <2>1. CASE e[k].op = "and" /\ ~Moves(e)[k]
    <3>1. e[k].of \in 1 .. k - 1 /\ e[k].with \in 1 .. k - 1 /\ t[k] = BothTrue(t[e[k].of], t[e[k].with])
      BY <2>1, PartsAre, TruthsAre
    <3>2. p[k] = p[e[k].of] \cup p[e[k].with]
      BY <2>1, SplitsAre
    <3>3. t[e[k].of] \in TruthValues /\ t[e[k].with] \in TruthValues
      BY <1>1, <3>1, PartsHaveTruth
    <3>4. e[k].of \in S /\ e[k].with \in S
      BY <1>2, <3>1
    <3>5. t[k] = "true" <=> t[e[k].of] = "true" /\ t[e[k].with] = "true"
      BY <3>1, <3>3 DEF BothTrue, TruthValues
    <3> HIDE DEF t, p
    <3>6. p[k] \subseteq 1 .. k
      BY <3>1, <3>2, <3>4
    <3> QED
      BY <3>2, <3>4, <3>5, <3>6
  <2>2. CASE ~(e[k].op = "and" /\ ~Moves(e)[k])
    <3>1. p[k] = {k}
      BY <2>2, SplitsAre
    <3> HIDE DEF t, p
    <3> QED
      BY <3>1
  <2> QED
    BY <2>1, <2>2
<1>3. 1 .. Len(e) \subseteq S
  <2> HIDE DEF S
  <2> QED
    BY <1>1, <1>2, InductUpTo
<1> QED
  BY <1>3

(* Without an array, MongoDB finds what moves as SQL decides it. *)
LEMMA MovedMatches ==
  ASSUME NEW e, IsCondition(e), NEW row,
         \A k \in 1 .. Len(e) : IsAtom(e[k]) => ~Of(e[k].left, row).list
  PROVE  \A k \in 1 .. Len(e) : Moves(e)[k] => (Matches(e, row)[k] <=> Truths(e, row)[k] = "true")
<1> DEFINE t == Truths(e, row)
           m == Matches(e, row)
           S == {k \in 1 .. Len(e) : Moves(e)[k] => (m[k] <=> t[k] = "true")}
<1>1. Len(e) \in Nat
  BY ConditionDomain
<1>2. ASSUME NEW k \in 1 .. Len(e), \A j \in 1 .. k - 1 : j \in S PROVE k \in S
  <2> SUFFICES ASSUME Moves(e)[k] PROVE m[k] <=> t[k] = "true"
    OBVIOUS
  <2> DEFINE u == Of(e[k].left, row)
             v == e[k].right.value
  <2>1. CASE e[k].op \in {"and", "or"}
    <3>1. e[k].of \in 1 .. k - 1 /\ e[k].with \in 1 .. k - 1
      BY <2>1, PartsAre
    <3>2. Moves(e)[e[k].of] /\ Moves(e)[e[k].with]
      BY <2>1, MovesAre DEF MatchesItem, FindsItem
    <3>3. (m[e[k].of] <=> t[e[k].of] = "true") /\ (m[e[k].with] <=> t[e[k].with] = "true")
      BY <1>2, <3>1, <3>2
    <3>4. t[e[k].of] \in TruthValues /\ t[e[k].with] \in TruthValues
      BY <1>1, <3>1, PartsHaveTruth
    <3>5. CASE e[k].op = "and"
      <4>1. m[k] <=> m[e[k].of] /\ m[e[k].with]
        BY <3>5, MatchesAre
      <4>2. t[k] = BothTrue(t[e[k].of], t[e[k].with])
        BY <3>5, TruthsAre
      <4> HIDE DEF m, t
      <4> QED
        BY <3>3, <3>4, <4>1, <4>2 DEF BothTrue, TruthValues
    <3>6. CASE e[k].op = "or"
      <4>1. m[k] <=> m[e[k].of] \/ m[e[k].with]
        BY <3>6, MatchesAre
      <4>2. t[k] = Negated(BothTrue(Negated(t[e[k].of]), Negated(t[e[k].with])))
        BY <3>6, TruthsAre
      <4> HIDE DEF m, t
      <4> QED
        BY <3>3, <3>4, <4>1, <4>2 DEF BothTrue, Negated, TruthValues
    <3> QED
      BY <2>1, <3>5, <3>6
  <2>2. CASE e[k].op = "contains"
    <3>1. IsAtom(e[k]) /\ ~u.list
      BY <2>2, PartsAre
    <3>2. m[k] <=> v # Null /\ u.list /\ HasItem(u, v)
      BY <2>2, MatchesAre
    <3>3. t[k] = Decides(e[k], row)
      BY <2>2, TruthsAre
    <3> HIDE DEF m, t
    <3> QED
      BY <2>2, <3>1, <3>2, <3>3 DEF Decides, Truth
  <2>3. CASE e[k].op \notin {"and", "or", "contains"}
    <3>1. MatchesItem(e[k])
      BY <2>3, MovesAre
    <3>2. e[k].op = "compare" /\ e[k].kind = "eq" /\ e[k].right.kind = "literal" /\ v # Null
      BY <3>1 DEF MatchesItem, FindsItem
    <3>3. ~u.list
      BY <3>2, PartsAre
    <3>4. m[k] <=> HasItem(u, v)
      BY <2>3, <3>1, MatchesAre
    <3>5. t[k] = Decides(e[k], row)
      BY <3>2, TruthsAre
    <3>6. Of(e[k].right, row) = v
      BY <3>2 DEF Of
    <3>7. Decides(e[k], row) = IF Null \in {u, v} THEN "unknown" ELSE Truth(u = v)
      BY <3>2, <3>6 DEF Decides, Compares
    <3> HIDE DEF m, t, u, v
    <3> QED
      BY <3>2, <3>3, <3>4, <3>5, <3>7 DEF HasItem, Truth
  <2> QED
    BY <2>1, <2>2, <2>3
<1>3. 1 .. Len(e) \subseteq S
  <2> HIDE DEF S
  <2> QED
    BY <1>1, <1>2, InductUpTo
<1> QED
  BY <1>3

(* A part has the same truth in rows that give its operands the same.      *)
LEMMA TruthsRead ==
  ASSUME NEW e, IsCondition(e), NEW r, NEW s
  PROVE  \A k \in 1 .. Len(e) :
           (\A x \in OperandsIn(e)[k] : Of(x, r) = Of(x, s)) => Truths(e, r)[k] = Truths(e, s)[k]
<1> DEFINE t == Truths(e, r)
           u == Truths(e, s)
           o == OperandsIn(e)
           Alike(k) == \A x \in o[k] : Of(x, r) = Of(x, s)
           S == {k \in 1 .. Len(e) : Alike(k) => t[k] = u[k]}
<1>1. Len(e) \in Nat
  BY ConditionDomain
<1>2. ASSUME NEW k \in 1 .. Len(e), \A j \in 1 .. k - 1 : j \in S PROVE k \in S
  <2> SUFFICES ASSUME Alike(k) PROVE t[k] = u[k]
    OBVIOUS
  <2>1. CASE e[k].op = "not"
    <3>1. e[k].of \in 1 .. k - 1 /\ t[k] = Negated(t[e[k].of]) /\ u[k] = Negated(u[e[k].of])
      BY <2>1, PartsAre, TruthsAre
    <3>2. o[k] = o[e[k].of]
      BY <2>1, OperandsInAre
    <3> HIDE DEF t, u, o
    <3> QED
      BY <1>2, <3>1, <3>2
  <2>2. CASE e[k].op \in {"and", "or"}
    <3>1. e[k].of \in 1 .. k - 1 /\ e[k].with \in 1 .. k - 1
      BY <2>2, PartsAre
    <3>2. o[k] = o[e[k].of] \cup o[e[k].with]
      BY <2>2, OperandsInAre
    <3>3. t[e[k].of] = u[e[k].of] /\ t[e[k].with] = u[e[k].with]
      <4> HIDE DEF t, u, o
      <4> QED
        BY <1>2, <3>1, <3>2
    <3>4. e[k].op = "and" => t[k] = BothTrue(t[e[k].of], t[e[k].with]) /\ u[k] = BothTrue(u[e[k].of], u[e[k].with])
      BY TruthsAre
    <3>5. e[k].op = "or" => /\ t[k] = Negated(BothTrue(Negated(t[e[k].of]), Negated(t[e[k].with])))
                           /\ u[k] = Negated(BothTrue(Negated(u[e[k].of]), Negated(u[e[k].with])))
      BY TruthsAre
    <3> HIDE DEF t, u
    <3> QED
      BY <2>2, <3>3, <3>4, <3>5
  <2>3. CASE e[k].op \notin {"not", "and", "or"}
    <3>1. t[k] = Decides(e[k], r) /\ u[k] = Decides(e[k], s)
      BY <2>3, TruthsAre
    <3>2. o[k] = {e[k].left, e[k].right}
      BY <2>3, OperandsInAre
    <3>3. Of(e[k].left, r) = Of(e[k].left, s) /\ Of(e[k].right, r) = Of(e[k].right, s)
      BY <3>2
    <3> HIDE DEF t, u
    <3> QED
      BY <3>1, <3>3 DEF Decides
  <2> QED
    BY <2>1, <2>2, <2>3
<1>3. 1 .. Len(e) \subseteq S
  <2> HIDE DEF S
  <2> QED
    BY <1>1, <1>2, InductUpTo
<1> QED
  BY <1>3

(* What is kept twice is kept once by what both keep. *)
LEMMA KeptAppend ==
  ASSUME NEW A, NEW s \in Seq(A), NEW c \in A, NEW S
  PROVE  Kept(Append(s, c), S) = IF c \in S THEN Append(Kept(s, S), c) ELSE Kept(s, S)
<1> DEFINE n == Len(s)
           l == Append(s, c)
<1>1. n \in Nat /\ l \in Seq(A) /\ Len(l) = n + 1 /\ l[n + 1] = c /\ \A k \in 1 .. n : l[k] = s[k]
  OBVIOUS
<1>2. PICK a : /\ Kept(s, S) = a[n] /\ a[0] = <<>>
               /\ \A k \in 1 .. n : a[k] = IF s[k] \in S THEN Append(a[k - 1], s[k]) ELSE a[k - 1]
  BY KeptIs
<1> HIDE DEF l
<1>3. PICK b : /\ Kept(l, S) = b[Len(l)] /\ b[0] = <<>>
               /\ \A k \in 1 .. Len(l) : b[k] = IF l[k] \in S THEN Append(b[k - 1], l[k]) ELSE b[k - 1]
  <2>1. Len(l) \in Nat
    BY <1>1
  <2> QED
    BY <2>1, KeptIs
<1> HIDE DEF n
<1> DEFINE T == {k \in Nat : k <= n => a[k] = b[k]}
<1>4. 0 \in T
  BY <1>2, <1>3
<1>5. ASSUME NEW k \in Nat, k \in T PROVE k + 1 \in T
  <2> SUFFICES ASSUME k + 1 <= n PROVE a[k + 1] = b[k + 1]
    OBVIOUS
  <2>1. k + 1 \in 1 .. n /\ k + 1 \in 1 .. n + 1 /\ (k + 1) - 1 = k /\ l[k + 1] = s[k + 1]
    BY <1>1
  <2>2. a[k] = b[k]
    BY <1>1, <1>5
  <2>3. a[k + 1] = IF s[k + 1] \in S THEN Append(a[k], s[k + 1]) ELSE a[k]
    BY <1>2, <2>1 DEF n
  <2>4. b[k + 1] = IF l[k + 1] \in S THEN Append(b[k], l[k + 1]) ELSE b[k]
    BY <1>1, <1>3, <2>1
  <2> QED
    BY <2>1, <2>2, <2>3, <2>4
<1>6. a[n] = b[n]
  <2>1. Nat \subseteq T
    <3> HIDE DEF T
    <3> QED
      BY <1>4, <1>5, Induct
  <2> QED
    BY <1>1, <2>1
<1>7. n + 1 \in 1 .. n + 1 /\ (n + 1) - 1 = n
  BY <1>1
<1>8. b[n + 1] = IF c \in S THEN Append(b[n], c) ELSE b[n]
  BY <1>1, <1>3, <1>7
<1>9. Kept(l, S) = b[n + 1] /\ Kept(s, S) = a[n]
  BY <1>1, <1>2, <1>3 DEF n
<1> QED
  BY <1>6, <1>8, <1>9 DEF l

LEMMA KeptTwice ==
  ASSUME NEW A, NEW s \in Seq(A), NEW M, NEW T, NEW H,
         \A i \in 1 .. Len(s) : s[i] \in H <=> s[i] \in M /\ s[i] \in T
  PROVE  Kept(Kept(s, M), T) = Kept(s, H)
<1>1. PICK a : /\ Kept(s, M) = a[Len(s)] /\ a[0] = <<>>
               /\ \A k \in 1 .. Len(s) : a[k] = IF s[k] \in M THEN Append(a[k - 1], s[k]) ELSE a[k - 1]
  BY KeptIs
<1>2. PICK b : /\ Kept(s, H) = b[Len(s)] /\ b[0] = <<>>
               /\ \A k \in 1 .. Len(s) : b[k] = IF s[k] \in H THEN Append(b[k - 1], s[k]) ELSE b[k - 1]
  BY KeptIs
<1> DEFINE S == {k \in Nat : k <= Len(s) => a[k] \in Seq(A) /\ Kept(a[k], T) = b[k]}
<1>3. 0 \in S
  <2>1. Len(<<>>) = 0 /\ <<>> \in Seq(A)
    BY EmptySeq
  <2>2. Kept(<<>>, T) = <<>>
    BY <2>1, KeptIs
  <2> QED
    BY <1>1, <1>2, <2>1, <2>2
<1>4. ASSUME NEW k \in Nat, k \in S PROVE k + 1 \in S
  <2> SUFFICES ASSUME k + 1 <= Len(s) PROVE a[k + 1] \in Seq(A) /\ Kept(a[k + 1], T) = b[k + 1]
    OBVIOUS
  <2>1. k + 1 \in 1 .. Len(s) /\ (k + 1) - 1 = k /\ s[k + 1] \in A
    OBVIOUS
  <2>2. a[k] \in Seq(A) /\ Kept(a[k], T) = b[k]
    BY <1>4
  <2>3. a[k + 1] = IF s[k + 1] \in M THEN Append(a[k], s[k + 1]) ELSE a[k]
    BY <1>1, <2>1
  <2>4. b[k + 1] = IF s[k + 1] \in H THEN Append(b[k], s[k + 1]) ELSE b[k]
    BY <1>2, <2>1
  <2>5. s[k + 1] \in H <=> s[k + 1] \in M /\ s[k + 1] \in T
    BY <2>1
  <2>6. Kept(Append(a[k], s[k + 1]), T) = IF s[k + 1] \in T THEN Append(b[k], s[k + 1]) ELSE b[k]
    <3>1. \A x \in Seq(A), c \in A : Kept(Append(x, c), T) = IF c \in T THEN Append(Kept(x, T), c) ELSE Kept(x, T)
      BY KeptAppend
    <3> QED
      BY <2>1, <2>2, <3>1
  <2>7. Append(a[k], s[k + 1]) \in Seq(A)
    BY <2>1, <2>2
  <2> QED
    BY <2>2, <2>3, <2>4, <2>5, <2>6, <2>7
<1>5. Len(s) \in S
  <2> HIDE DEF S
  <2> QED
    BY <1>3, <1>4, Induct
<1> QED
  BY <1>1, <1>2, <1>5

-----------------------------------------------------------------------------
(* What the clauses behind a WHERE read of a row. *)
LEMMA MinOf ==
  ASSUME NEW S, S \subseteq Nat, S # {}
  PROVE  Min(S) \in S
<1>1. PICK x \in S : \A y \in S : x <= y
  <2> DEFINE T == {n \in Nat : n \notin S}
  <2> SUFFICES ASSUME \A x \in S : \E y \in S : ~(x <= y) PROVE FALSE
    OBVIOUS
  <2>1. ASSUME NEW n \in Nat, \A m \in 0 .. n - 1 : m \in T PROVE n \in T
    <3> SUFFICES ASSUME n \in S PROVE FALSE
      OBVIOUS
    <3>1. PICK y \in S : ~(n <= y)
      OBVIOUS
    <3>2. y \in Nat /\ y \in 0 .. n - 1
      BY <3>1
    <3> QED
      BY <2>1, <3>2
  <2>2. Nat \subseteq T
    <3> HIDE DEF T
    <3> QED
      BY <2>1, InductBelow
  <2> QED
    BY <2>2
<1> QED
  BY <1>1 DEF Min

LEMMA OutputNamedIs ==
  ASSUME NEW q \in Selects, NEW x
  PROVE  OutputNamed(q, x) = x \/ \E i \in DOMAIN q.outputs : OutputNamed(q, x) = q.outputs[i].of
<1> DEFINE at == {i \in DOMAIN q.outputs : q.outputs[i].name = x.name}
<1>1. CASE IsColumn(x) /\ at # {}
  <2>1. at \subseteq DOMAIN q.outputs /\ at \subseteq Nat
    <3>1. IsList(q.outputs)
      OBVIOUS
    <3>2. DOMAIN q.outputs = 1 .. Len(q.outputs) /\ Len(q.outputs) \in Nat
      BY <3>1 DEF IsList
    <3> QED
      BY <3>2
  <2>2. Min(at) \in at
    <3> HIDE DEF at
    <3> QED
      BY <1>1, <2>1, MinOf
  <2>3. OutputNamed(q, x) = q.outputs[Min(at)].of
    BY <1>1 DEF OutputNamed
  <2> HIDE DEF at
  <2> QED
    BY <2>1, <2>2, <2>3
<1>2. CASE ~(IsColumn(x) /\ at # {})
  BY <1>2 DEF OutputNamed
<1> QED
  BY <1>1, <1>2

(* HAVING reads what its outputs are and what it names. *)
LEMMA HavingReads ==
  ASSUME NEW q \in Selects
  PROVE  \A k \in 1 .. Len(q.having) : \A x \in OperandsIn(Having(q))[k] :
           \E y \in OperandsIn(q.having)[k] : x = OutputNamed(q, y)
<1> DEFINE e == q.having
           h == Having(q)
           o == OperandsIn(e)
           p == OperandsIn(h)
           Named(k) == \A x \in p[k] : \E y \in o[k] : x = OutputNamed(q, y)
           S == {k \in 1 .. Len(e) : Named(k)}
<1>1. IsCondition(e) /\ IsCondition(h) /\ Len(h) = Len(e) /\ Len(e) \in Nat
  BY HavingIsCondition, HavingParts, ConditionDomain
<1>2. ASSUME NEW k \in 1 .. Len(e), \A j \in 1 .. k - 1 : j \in S PROVE k \in S
  <2>1. CASE e[k].op \in {"not", "and", "or"}
    <3>1. h[k] = e[k]
      BY <2>1, HavingParts
    <3>2. e[k].op = "not" => e[k].of \in 1 .. k - 1 /\ o[k] = o[e[k].of] /\ p[k] = p[e[k].of]
      <4> SUFFICES ASSUME e[k].op = "not" PROVE e[k].of \in 1 .. k - 1 /\ o[k] = o[e[k].of] /\ p[k] = p[e[k].of]
        OBVIOUS
      <4>1. e[k].of \in 1 .. k - 1
        BY <1>1, PartsAre
      <4>2. o[k] = o[e[k].of]
        BY <1>1, OperandsInAre
      <4>3. p[k] = p[h[k].of]
        <5>1. k \in 1 .. Len(h) /\ h[k].op = "not"
          BY <1>1, <3>1
        <5> HIDE DEF h, e
        <5> QED
          BY <1>1, <5>1, OperandsInAre
      <4> QED
        BY <3>1, <4>1, <4>2, <4>3
    <3>3. e[k].op \in {"and", "or"} =>
            /\ e[k].of \in 1 .. k - 1 /\ e[k].with \in 1 .. k - 1
            /\ o[k] = o[e[k].of] \cup o[e[k].with] /\ p[k] = p[e[k].of] \cup p[e[k].with]
      BY <1>1, <3>1, PartsAre, OperandsInAre
    <3> HIDE DEF e, h, o, p
    <3> QED
      BY <1>2, <2>1, <3>2, <3>3
  <2>2. CASE e[k].op \notin {"not", "and", "or"}
    <3>1. /\ h[k].op = e[k].op
          /\ h[k].left = OutputNamed(q, e[k].left) /\ h[k].right = OutputNamed(q, e[k].right)
      <4>1. h[k] = Atom(e[k].op, e[k].kind, OutputNamed(q, e[k].left), OutputNamed(q, e[k].right), e[k].list)
        BY <2>2, HavingParts
      <4> HIDE DEF h
      <4> QED
        BY <4>1 DEF Atom
    <3>2. o[k] = {e[k].left, e[k].right}
      BY <1>1, <2>2, OperandsInAre
    <3>3. p[k] = {h[k].left, h[k].right}
      BY <1>1, <2>2, <3>1, OperandsInAre
    <3> HIDE DEF e, h, o, p
    <3> QED
      BY <3>1, <3>2, <3>3
  <2> QED
    BY <2>1, <2>2
<1>3. 1 .. Len(e) \subseteq S
  <2> HIDE DEF S
  <2> QED
    BY <1>1, <1>2, InductUpTo
<1> QED
  BY <1>3

(* What there is of a row, of the fields that are read: columns, and in a  *)
(* grouped statement aggregates.                                           *)
ReadKeys(q, e) ==
  ({"column"} \X FieldsRead(q, e))
    \cup {k \in AggregatesOf : IsGrouped(q) /\ k[2] \in FieldsRead(q, e) \cup {"*"}}
AgreeOn(q, e, r, s) == \A k \in ReadKeys(q, e) : r[k] = s[k]
IsReadOf(q, e, x) == x.kind = "literal" \/ <<x.kind, x.name>> \in ReadKeys(q, e)

LEMMA ReadsAgree ==
  ASSUME NEW q, NEW e, NEW r, NEW s, AgreeOn(q, e, r, s), NEW x, IsReadOf(q, e, x)
  PROVE  Of(x, r) = Of(x, s)
BY DEF AgreeOn, IsReadOf, Of

LEMMA OperandsAreRead ==
  ASSUME NEW q \in Selects, NEW e, NEW x \in OperandsOf(q)
  PROVE  IsReadOf(q, e, x)
<1> SUFFICES ASSUME x.kind # "literal" PROVE <<x.kind, x.name>> \in ReadKeys(q, e)
  BY DEF IsReadOf
<1> DEFINE outputs == {q.outputs[i].of : i \in DOMAIN q.outputs}
           orders == {q.order[i].of : i \in DOMAIN q.order}
<1>1. IsOperand(q, x)
  OBVIOUS
<1>2. x \in outputs \cup orders \cup Operands(q.having)
  <2>1. CASE x \in outputs
    BY <2>1
  <2>2. CASE x \in {OrderedBy(q, i) : i \in DOMAIN q.order}
    <3>1. PICK i \in DOMAIN q.order : x = OutputNamed(q, q.order[i].of)
      BY <2>2 DEF OrderedBy
    <3> QED
      BY <3>1, OutputNamedIs
  <2>3. CASE x \in Operands(Having(q))
    <3>1. Having(q) # NoCondition /\ x \in OperandsIn(Having(q))[Len(Having(q))]
      BY <2>3 DEF Operands
    <3>2. Len(Having(q)) = Len(q.having) /\ IsCondition(Having(q)) /\ IsCondition(q.having)
      BY HavingIsCondition, HavingParts
    <3>3. Len(q.having) \in 1 .. Len(q.having)
      BY <3>1, <3>2, ConditionIsEmpty, ConditionDomain
    <3>4. PICK y \in OperandsIn(q.having)[Len(q.having)] : x = OutputNamed(q, y)
      BY <3>1, <3>2, <3>3, HavingReads
    <3>5. y \in Operands(q.having)
      BY <3>2, <3>3, ConditionIsEmpty DEF Operands
    <3> QED
      BY <3>4, <3>5, OutputNamedIs
  <2> QED
    BY <2>1, <2>2, <2>3 DEF OperandsOf
<1>3. x.name \in ClauseNames(q, UNION {OperandsIn(e)[k] : k \in Rest(e)}) \cup NamesOf(outputs)
  BY <1>2 DEF ClauseNames, NamesOf
<1>4. x.name \in Fields => x.name \in FieldsRead(q, e)
  <2> HIDE DEF outputs
  <2> QED
    BY <1>3 DEF FieldsRead, outputs
<1>5. CASE x.kind = "column" /\ x.name \in Fields
  BY <1>4, <1>5 DEF ReadKeys
<1>6. CASE IsGrouped(q) /\ <<x.kind, x.name>> \in AggregatesOf
  <2>1. x.name \in Fields \cup {"*"}
    BY <1>6 DEF AggregatesOf
  <2> QED
    BY <1>4, <1>6, <2>1 DEF ReadKeys
<1> QED
  BY <1>1, <1>5, <1>6 DEF IsOperand

-----------------------------------------------------------------------------
(* The clauses behind a WHERE leave the same of lists of documents that    *)
(* have the same in the fields that are read.                              *)
Alike(q, e, c, d) == \A f \in FieldsRead(q, e) : c[f] = d[f]
DocsAlike(A, B, q, e, s, r) ==
  s \in Seq(A) /\ r \in Seq(B) /\ Len(s) = Len(r) /\ \A i \in 1 .. Len(s) : Alike(q, e, s[i], r[i])

(* They are alike in what is kept of them, ... *)
LEMMA KeptDocsAlike ==
  ASSUME NEW A, NEW B, NEW q, NEW e, NEW s, NEW r, DocsAlike(A, B, q, e, s, r), NEW S, NEW R,
         \A i \in 1 .. Len(s) : s[i] \in S <=> r[i] \in R
  PROVE  DocsAlike(A, B, q, e, Kept(s, S), Kept(r, R))
<1> DEFINE P == {x \in A \X B : Alike(q, e, x[1], x[2])}
<1>1. s \in Seq(A) /\ r \in Seq(B) /\ Len(s) = Len(r)
  BY DEF DocsAlike
<1>2. \A i \in 1 .. Len(s) : <<s[i], r[i]>> \in P /\ (s[i] \in S <=> r[i] \in R)
  BY <1>1 DEF DocsAlike
<1> HIDE DEF P
<1>3. /\ Kept(s, S) \in Seq(A \cap S) /\ Kept(r, R) \in Seq(B \cap R)
      /\ Len(Kept(s, S)) = Len(Kept(r, R))
      /\ \A i \in 1 .. Len(Kept(s, S)) : <<Kept(s, S)[i], Kept(r, R)[i]>> \in P
  BY <1>1, <1>2, KeptTogether
<1>4. Kept(s, S) \in Seq(A) /\ Kept(r, R) \in Seq(B)
  BY <1>1, KeptStays
<1>5. \A i \in 1 .. Len(Kept(s, S)) : Alike(q, e, Kept(s, S)[i], Kept(r, R)[i])
  BY <1>3 DEF P
<1> QED
  BY <1>3, <1>4, <1>5 DEF DocsAlike

LEMMA ReadsGroup ==
  ASSUME NEW q \in Selects, NEW e
  PROVE  ToSet(q.group) \subseteq FieldsRead(q, e) /\ FieldsRead(q, e) \subseteq Fields
<1>1. ToSet(q.group) \subseteq Fields
  <2>1. q.group \in Seq(Fields)
    OBVIOUS
  <2> QED
    BY <2>1 DEF ToSet
<1>2. ToSet(q.group) \subseteq ClauseNames(q, UNION {OperandsIn(e)[k] : k \in Rest(e)})
  BY DEF ClauseNames
<1> QED
  BY <1>1, <1>2 DEF FieldsRead

(* ... in their groups, ... *)
LEMMA GroupsAlike ==
  ASSUME NEW A, NEW B, NEW q \in Selects, NEW e, NEW s, NEW r, DocsAlike(A, B, q, e, s, r)
  PROVE  /\ Len(GroupsOf(q, s)) = Len(GroupsOf(q, r))
         /\ \A n \in 1 .. Len(GroupsOf(q, s)) : DocsAlike(A, B, q, e, GroupsOf(q, s)[n], GroupsOf(q, r)[n])
<1>1. s \in Seq(A) /\ r \in Seq(B) /\ Len(s) = Len(r) /\ \A i \in 1 .. Len(s) : Alike(q, e, s[i], r[i])
  BY DEF DocsAlike
<1>2. CASE q.group = <<>>
  <2>1. GroupsOf(q, s) = <<s>> /\ GroupsOf(q, r) = <<r>>
    BY <1>2 DEF GroupsOf
  <2>2. Len(<<s>>) = 1 /\ Len(<<r>>) = 1 /\ <<s>>[1] = s /\ <<r>>[1] = r
    OBVIOUS
  <2> QED
    BY <2>1, <2>2
<1>3. CASE q.group # <<>>
  <2> DEFINE firsts == Kept([i \in DOMAIN s |-> i], Firsts(q, s))
             S(n) == {d \in ToSet(s) : Key(q, d) = Key(q, s[firsts[n]])}
             R(n) == {d \in ToSet(r) : Key(q, d) = Key(q, r[firsts[n]])}
  <2>1. \A i \in 1 .. Len(s) : Key(q, s[i]) = Key(q, r[i])
    BY <1>1, ReadsGroup DEF Alike, Key
  <2>2. DOMAIN s = 1 .. Len(s) /\ DOMAIN r = DOMAIN s /\ Len(s) \in Nat
    BY <1>1
  <2>3. Firsts(q, s) = Firsts(q, r) /\ Firsts(q, s) \subseteq 1 .. Len(s)
    <3>1. \A i \in DOMAIN s : \A j \in 1 .. i - 1 : j \in DOMAIN s
      BY <2>2
    <3> QED
      BY <2>1, <2>2, <3>1 DEF Firsts
  <2>4. firsts = Kept([i \in DOMAIN r |-> i], Firsts(q, r))
    BY <2>2, <2>3
  <2>5. firsts \in Seq(1 .. Len(s))
    <3>1. [i \in DOMAIN s |-> i] \in Seq(1 .. Len(s))
      BY <2>2
    <3> QED
      BY <3>1, KeptStays
  <2>6. GroupsOf(q, s) = [n \in DOMAIN firsts |-> Kept(s, S(n))]
    BY <1>3 DEF GroupsOf, Groups
  <2>7. GroupsOf(q, r) = [n \in DOMAIN firsts |-> Kept(r, R(n))]
    BY <1>3, <2>4 DEF GroupsOf, Groups
  <2>8. ASSUME NEW n \in 1 .. Len(firsts)
        PROVE  DocsAlike(A, B, q, e, Kept(s, S(n)), Kept(r, R(n)))
    <3>1. firsts[n] \in 1 .. Len(s)
      BY <2>5
    <3>2. \A i \in 1 .. Len(s) : s[i] \in S(n) <=> r[i] \in R(n)
      BY <2>1, <2>2, <3>1 DEF ToSet
    <3> HIDE DEF S, R
    <3> QED
      BY <3>2, KeptDocsAlike
  <2> HIDE DEF firsts, S, R
  <2>9. DOMAIN firsts = 1 .. Len(firsts) /\ Len(firsts) \in Nat
    BY <2>5
  <2>10. Len(GroupsOf(q, s)) = Len(firsts) /\ Len(GroupsOf(q, r)) = Len(firsts)
    BY <2>6, <2>7, <2>9
  <2> QED
    BY <2>6, <2>7, <2>8, <2>9, <2>10
<1> QED
  BY <1>2, <1>3

(* ... and in the rows of the groups: alike in the documents, they agree   *)
(* in the keys, ...                                                        *)
LEMMA AggregateRowsAgree ==
  ASSUME NEW A, NEW B, NEW q \in Selects, NEW e, NEW s, NEW r, DocsAlike(A, B, q, e, s, r)
  PROVE  AgreeOn(q, e, AggregateRow(q, s), AggregateRow(q, r))
<1>0. s \in Seq(A) /\ r \in Seq(B) /\ Len(s) = Len(r) /\ \A i \in 1 .. Len(s) : Alike(q, e, s[i], r[i])
  BY DEF DocsAlike
<1>1. DOMAIN s = 1 .. Len(s) /\ DOMAIN r = DOMAIN s /\ Len(s) \in Nat
  BY <1>0
<1>2. ASSUME NEW f \in FieldsRead(q, e)
      PROVE  Present(f, s) = Present(f, r) /\ Amounts(f, s) = Amounts(f, r)
  <2>1. \A i \in DOMAIN s : s[i][f] = r[i][f]
    BY <1>0, <1>1 DEF Alike
  <2>2. Present(f, s) = Present(f, r)
    BY <1>1, <2>1 DEF Present
  <2> QED
    BY <2>1, <2>2 DEF Amounts, Present
<1>3. ASSUME NEW k \in AggregatesOf, k[2] \in FieldsRead(q, e) \cup {"*"}
      PROVE  Aggregated(Aggregate(k[1], k[2]), s) = Aggregated(Aggregate(k[1], k[2]), r)
  <2> DEFINE x == Aggregate(k[1], k[2])
  <2>1. x.kind = k[1] /\ x.name = k[2]
    BY DEF Aggregate
  <2> HIDE DEF x
  <2>2. CASE k[2] = "*"
    <3>1. k = <<"count", "*">>
      BY <2>2 DEF AggregatesOf
    <3> QED
      BY <1>1, <2>1, <3>1 DEF Aggregated, x
  <2>3. CASE k[2] \in FieldsRead(q, e)
    <3>1. Present(x.name, s) = Present(x.name, r) /\ Amounts(x.name, s) = Amounts(x.name, r)
      BY <1>2, <2>1, <2>3
    <3> QED
      BY <1>1, <3>1 DEF Aggregated, x
  <2> QED
    BY <1>3, <2>2, <2>3
<1>4. ASSUME NEW f \in FieldsRead(q, e), Contains(q.group, f)
      PROVE  s[1][f] = r[1][f]
  <2>1. CASE Len(s) = 0
    <3>1. s = <<>> /\ r = <<>>
      BY <1>0, <2>1, EmptySeq
    <3> QED
      BY <3>1
  <2>2. CASE Len(s) > 0
    <3>1. 1 \in 1 .. Len(s)
      BY <1>1, <2>2
    <3> QED
      BY <1>0, <3>1 DEF Alike
  <2> QED
    BY <1>1, <2>1, <2>2
<1> SUFFICES ASSUME NEW k \in ReadKeys(q, e) PROVE AggregateRow(q, s)[k] = AggregateRow(q, r)[k]
  BY DEF AgreeOn
<1>5. CASE k \in {"column"} \X FieldsRead(q, e)
  <2>1. k \in {"column"} \X Fields /\ k[1] = "column" /\ k[2] \in FieldsRead(q, e)
    BY <1>5, ReadsGroup
  <2> QED
    BY <1>4, <2>1 DEF AggregateRow, GroupRow
<1>6. CASE k \in AggregatesOf /\ k[2] \in FieldsRead(q, e) \cup {"*"}
  <2>1. k[1] # "column"
    BY <1>6 DEF AggregatesOf, AggregateKinds
  <2> QED
    BY <1>3, <1>6, <2>1 DEF AggregateRow, GroupRow
<1> QED
  BY <1>5, <1>6 DEF ReadKeys

(* ... as they do in a statement that is not grouped. *)
LEMMA SelectedAgree ==
  ASSUME NEW A, NEW B, NEW q \in Selects, NEW e, NEW s, NEW r, DocsAlike(A, B, q, e, s, r)
  PROVE  /\ Len(SelectedRows(q, s)) = Len(SelectedRows(q, r))
         /\ \A n \in 1 .. Len(SelectedRows(q, s)) : AgreeOn(q, e, SelectedRows(q, s)[n], SelectedRows(q, r)[n])
<1>0. s \in Seq(A) /\ r \in Seq(B) /\ Len(s) = Len(r) /\ \A i \in 1 .. Len(s) : Alike(q, e, s[i], r[i])
  BY DEF DocsAlike
<1>1. CASE IsGrouped(q)
  <2> DEFINE g == GroupsOf(q, s)
             h == GroupsOf(q, r)
  <2>0. Len(g) = Len(h) /\ \A n \in 1 .. Len(g) : DocsAlike(A, B, q, e, g[n], h[n])
    BY GroupsAlike
  <2>1. /\ DOMAIN g = 1 .. Len(g) /\ Len(g) \in Nat /\ DOMAIN h = 1 .. Len(h) /\ Len(h) = Len(g)
    <3>1. DOMAIN g = 1 .. Len(g) /\ Len(g) \in Nat /\ DOMAIN h = 1 .. Len(h)
      BY <1>0, GroupsAreLists
    <3> QED
      BY <2>0, <3>1
  <2>3. /\ SelectedRows(q, s) = [n \in DOMAIN g |-> AggregateRow(q, g[n])]
        /\ SelectedRows(q, r) = [n \in DOMAIN h |-> AggregateRow(q, h[n])]
    BY <1>1 DEF SelectedRows
  <2> HIDE DEF g, h
  <2>2. \A n \in 1 .. Len(g) : AgreeOn(q, e, AggregateRow(q, g[n]), AggregateRow(q, h[n]))
    BY <2>0, AggregateRowsAgree
  <2>4. Len(SelectedRows(q, s)) = Len(g) /\ Len(SelectedRows(q, r)) = Len(g)
    BY <2>1, <2>3
  <2> QED
    BY <2>1, <2>2, <2>3, <2>4
<1>2. CASE ~IsGrouped(q)
  <2>1. DOMAIN s = 1 .. Len(s) /\ DOMAIN r = DOMAIN s /\ Len(s) \in Nat
    BY <1>0
  <2>2. /\ SelectedRows(q, s) = [n \in DOMAIN s |-> RowOf(s[n])]
        /\ SelectedRows(q, r) = [n \in DOMAIN r |-> RowOf(r[n])]
    BY <1>2 DEF SelectedRows, RowsOf
  <2>3. Len(SelectedRows(q, s)) = Len(s) /\ Len(SelectedRows(q, r)) = Len(s)
    BY <2>1, <2>2
  <2>4. ASSUME NEW n \in 1 .. Len(s) PROVE AgreeOn(q, e, RowOf(s[n]), RowOf(r[n]))
    <3> SUFFICES ASSUME NEW k \in ReadKeys(q, e) PROVE RowOf(s[n])[k] = RowOf(r[n])[k]
      BY DEF AgreeOn
    <3>1. k \in {"column"} \X FieldsRead(q, e)
      BY <1>2 DEF ReadKeys
    <3>2. k \in {"column"} \X Fields /\ k[2] \in FieldsRead(q, e)
      BY <3>1, ReadsGroup
    <3> QED
      BY <1>0, <3>2 DEF RowOf, Alike
  <2> QED
    BY <2>1, <2>2, <2>3, <2>4
<1> QED
  BY <1>1, <1>2

(* Each item that is to be kept is. *)
LEMMA KeptHas ==
  ASSUME NEW A, NEW s \in Seq(A), NEW S, NEW i \in 1 .. Len(s), s[i] \in S
  PROVE  s[i] \in ToSet(Kept(s, S))
<1>1. PICK a : /\ Kept(s, S) = a[Len(s)] /\ a[0] = <<>>
               /\ \A k \in 1 .. Len(s) : a[k] = IF s[k] \in S THEN Append(a[k - 1], s[k]) ELSE a[k - 1]
  BY KeptIs
<1> DEFINE T == {k \in Nat : k <= Len(s) => a[k] \in Seq(A) /\ (i <= k => s[i] \in ToSet(a[k]))}
<1>2. 0 \in T
  <2>1. <<>> \in Seq(A)
    BY EmptySeq
  <2>2. ~(i <= 0) /\ 0 \in Nat
    OBVIOUS
  <2>3. a[0] \in Seq(A)
    BY <1>1, <2>1
  <2> QED
    BY <2>2, <2>3
<1>3. ASSUME NEW k \in Nat, k \in T PROVE k + 1 \in T
  <2> SUFFICES ASSUME k + 1 <= Len(s)
               PROVE  a[k + 1] \in Seq(A) /\ (i <= k + 1 => s[i] \in ToSet(a[k + 1]))
    OBVIOUS
  <2>1. k + 1 \in 1 .. Len(s) /\ (k + 1) - 1 = k /\ s[k + 1] \in A
    OBVIOUS
  <2>2. a[k] \in Seq(A) /\ (i <= k => s[i] \in ToSet(a[k]))
    BY <1>3
  <2>3. a[k + 1] = IF s[k + 1] \in S THEN Append(a[k], s[k + 1]) ELSE a[k]
    BY <1>1, <2>1
  <2>4. ASSUME NEW x \in Seq(A), NEW c \in A PROVE ToSet(Append(x, c)) = ToSet(x) \cup {c}
    <3>1. /\ Append(x, c) \in Seq(A) /\ Len(Append(x, c)) = Len(x) + 1 /\ Append(x, c)[Len(x) + 1] = c
          /\ \A j \in 1 .. Len(x) : Append(x, c)[j] = x[j]
      BY <2>4, AppendProperties
    <3>2. DOMAIN x = 1 .. Len(x) /\ DOMAIN Append(x, c) = 1 .. Len(x) + 1 /\ Len(x) \in Nat
      BY <3>1
    <3>3. \A j \in 1 .. Len(x) + 1 : j \in 1 .. Len(x) \/ j = Len(x) + 1
      BY <3>2
    <3>4. \A j \in 1 .. Len(x) : j \in 1 .. Len(x) + 1
      BY <3>2
    <3>5. Len(x) + 1 \in 1 .. Len(x) + 1
      BY <3>2
    <3> QED
      BY <3>1, <3>2, <3>3, <3>4, <3>5 DEF ToSet
  <2>5. CASE s[k + 1] \in S
    <3>1. a[k + 1] \in Seq(A) /\ ToSet(a[k + 1]) = ToSet(a[k]) \cup {s[k + 1]}
      BY <2>1, <2>2, <2>3, <2>4, <2>5
    <3>2. i <= k + 1 => i <= k \/ i = k + 1
      OBVIOUS
    <3> QED
      BY <2>2, <3>1, <3>2
  <2>6. CASE s[k + 1] \notin S
    <3>1. i <= k + 1 => i <= k
      BY <2>6
    <3> QED
      BY <2>2, <2>3, <2>6, <3>1
  <2> QED
    BY <2>5, <2>6
<1>4. Len(s) \in T
  <2> HIDE DEF T
  <2> QED
    BY <1>2, <1>3, Induct
<1> QED
  BY <1>1, <1>4

-----------------------------------------------------------------------------
(* Rows that agree in the keys stay so, until what is shown of them is the *)
(* same.                                                                   *)
RowsAgree(A, B, q, e, s, r) ==
  s \in Seq(A) /\ r \in Seq(B) /\ Len(s) = Len(r) /\ \A i \in 1 .. Len(s) : AgreeOn(q, e, s[i], r[i])

LEMMA HavingAgrees ==
  ASSUME NEW q \in Selects, NEW e, NEW r, NEW s, AgreeOn(q, e, r, s)
  PROVE  Holds(Having(q), r) <=> Holds(Having(q), s)
<1> DEFINE h == Having(q)
<1>1. IsCondition(h)
  BY HavingIsCondition
<1>2. CASE h = NoCondition
  BY <1>2 DEF Holds
<1>3. CASE h # NoCondition
  <2> HIDE DEF h
  <2>1. Len(h) \in 1 .. Len(h)
    BY <1>1, <1>3, ConditionIsEmpty, ConditionDomain
  <2>2. \A x \in OperandsIn(h)[Len(h)] : x \in OperandsOf(q)
    BY <1>3 DEF OperandsOf, Operands, h
  <2>3. \A x \in OperandsIn(h)[Len(h)] : Of(x, r) = Of(x, s)
    BY <2>2, OperandsAreRead, ReadsAgree
  <2>4. Truths(h, r)[Len(h)] = Truths(h, s)[Len(h)]
    BY <1>1, <2>1, <2>3, TruthsRead
  <2> QED
    BY <1>3, <2>4 DEF Holds, h
<1> QED
  BY <1>2, <1>3

LEMMA OrdersAgree ==
  ASSUME NEW q \in Selects, NEW e, NEW r, NEW s, AgreeOn(q, e, r, s)
  PROVE  \A i \in DOMAIN q.order : Of(OrderedBy(q, i), r) = Of(OrderedBy(q, i), s)
<1>1. \A i \in DOMAIN q.order : OrderedBy(q, i) \in OperandsOf(q)
  BY DEF OperandsOf
<1> QED
  BY <1>1, OperandsAreRead, ReadsAgree

LEMMA BeforeAgrees ==
  ASSUME NEW q \in Selects, NEW e, NEW r, NEW s, AgreeOn(q, e, r, s), NEW t, NEW u, AgreeOn(q, e, t, u),
         DOMAIN q.order \subseteq Nat, \A i \in DOMAIN q.order : 1 .. i \subseteq DOMAIN q.order
  PROVE  Before(q, r, t) <=> Before(q, s, u)
<1>1. \A i \in DOMAIN q.order : /\ Of(OrderedBy(q, i), r) = Of(OrderedBy(q, i), s)
                               /\ Of(OrderedBy(q, i), t) = Of(OrderedBy(q, i), u)
  BY OrdersAgree
<1>2. \A i \in DOMAIN q.order : \A j \in 1 .. i - 1 : j \in DOMAIN q.order
  OBVIOUS
<1> QED
  BY <1>1, <1>2 DEF Before

LEMMA ProjectedAgree ==
  ASSUME NEW A, NEW B, NEW q \in Selects, NEW e, NEW s, NEW r, RowsAgree(A, B, q, e, s, r)
  PROVE  Projected(q, s) = Projected(q, r)
<1>1. DOMAIN s = 1 .. Len(s) /\ DOMAIN r = DOMAIN s /\ \A n \in DOMAIN s : AgreeOn(q, e, s[n], r[n])
  BY DEF RowsAgree
<1>2. CASE Star(q)
  <2>1. FieldsRead(q, e) = Fields
    BY <1>2 DEF FieldsRead
  <2>2. \A n \in DOMAIN s, f \in Fields : s[n][<<"column", f>>] = r[n][<<"column", f>>]
    BY <1>1, <2>1 DEF AgreeOn, ReadKeys
  <2> QED
    BY <1>1, <1>2, <2>2 DEF Projected
<1>3. CASE ~Star(q)
  <2>1. \A i \in DOMAIN q.outputs : q.outputs[i].of \in OperandsOf(q)
    BY DEF OperandsOf
  <2>2. \A n \in DOMAIN s, i \in DOMAIN q.outputs : Of(q.outputs[i].of, s[n]) = Of(q.outputs[i].of, r[n])
    BY <1>1, <2>1, OperandsAreRead, ReadsAgree
  <2> QED
    BY <1>1, <1>3, <2>2 DEF Projected
<1> QED
  BY <1>2, <1>3

LEMMA ShownAgree ==
  ASSUME NEW A, NEW B, NEW q \in Selects, NEW e, NEW s, NEW r, RowsAgree(A, B, q, e, s, r)
  PROVE  Projected(q, Limited(q.limit, Sorted(q, HavingRows(q, s))))
           = Projected(q, Limited(q.limit, Sorted(q, HavingRows(q, r))))
<1> DEFINE P == {x \in A \X B : AgreeOn(q, e, x[1], x[2])}
           a == HavingRows(q, s)
           b == HavingRows(q, r)
           c == Sorted(q, a)
           d == Sorted(q, b)
           Paired(x, y) == /\ x \in Seq(A) /\ y \in Seq(B) /\ Len(x) = Len(y)
                           /\ \A i \in 1 .. Len(x) : <<x[i], y[i]>> \in P
<1>1. Paired(s, r)
  BY DEF RowsAgree
<1>2. \A x \in P : AgreeOn(q, e, x[1], x[2])
  OBVIOUS
<1> HIDE DEF P
<1>3. Paired(a, b)
  <2>1. CASE q.having = NoCondition
    <3>1. a = s /\ b = r
      BY <2>1 DEF HavingRows
    <3> HIDE DEF a, b
    <3> QED
      BY <1>1, <3>1
  <2>2. CASE q.having # NoCondition
    <3> DEFINE S == {x \in ToSet(s) : Holds(Having(q), x)}
               R == {x \in ToSet(r) : Holds(Having(q), x)}
    <3>1. \A i \in 1 .. Len(s) : s[i] \in S <=> r[i] \in R
      <4> SUFFICES ASSUME NEW i \in 1 .. Len(s) PROVE s[i] \in S <=> r[i] \in R
        OBVIOUS
      <4>1. s[i] \in ToSet(s) /\ r[i] \in ToSet(r)
        BY <1>1 DEF ToSet
      <4>2. AgreeOn(q, e, s[i], r[i])
        BY DEF RowsAgree
      <4>3. Holds(Having(q), s[i]) <=> Holds(Having(q), r[i])
        BY <4>2, HavingAgrees
      <4> QED
        BY <4>1, <4>3
    <3>2. a = Kept(s, S) /\ b = Kept(r, R)
      BY <2>2 DEF HavingRows
    <3> HIDE DEF S, R, a, b
    <3>0. s \in Seq(A) /\ r \in Seq(B) /\ Len(s) = Len(r)
      BY <1>1
    <3>5. \A i \in 1 .. Len(s) : <<s[i], r[i]>> \in P /\ (s[i] \in S <=> r[i] \in R)
      BY <1>1, <3>1
    <3>3. /\ Kept(s, S) \in Seq(A \cap S) /\ Kept(r, R) \in Seq(B \cap R)
          /\ Len(Kept(s, S)) = Len(Kept(r, R))
          /\ \A i \in 1 .. Len(Kept(s, S)) : <<Kept(s, S)[i], Kept(r, R)[i]>> \in P
      BY <3>0, <3>5, KeptTogether
    <3>4. Kept(s, S) \in Seq(A) /\ Kept(r, R) \in Seq(B)
      BY <1>1, KeptStays
    <3> QED
      BY <3>2, <3>3, <3>4
  <2> QED
    BY <2>1, <2>2
<1>4. Paired(c, d)
  <2> HIDE DEF a, b
  <2>1. \A x, y \in P : Before(q, x[1], y[1]) <=> Before(q, x[2], y[2])
    <3>1. DOMAIN q.order \subseteq Nat /\ \A i \in DOMAIN q.order : 1 .. i \subseteq DOMAIN q.order
      <4>1. IsList(q.order)
        OBVIOUS
      <4>2. DOMAIN q.order = 1 .. Len(q.order) /\ Len(q.order) \in Nat
        BY <4>1 DEF IsList
      <4> QED
        BY <4>2
    <3> QED
      BY <1>2, <3>1, BeforeAgrees
  <2>2. /\ Sorted(q, a) \in Seq(A) /\ Sorted(q, b) \in Seq(B) /\ Len(Sorted(q, a)) = Len(a)
        /\ Len(Sorted(q, b)) = Len(b)
        /\ \A i \in 1 .. Len(a) : <<Sorted(q, a)[i], Sorted(q, b)[i]>> \in P
    BY <1>3, <2>1, SortedTogether
  <2> QED
    BY <1>3, <2>2
<1> DEFINE x == Limited(q.limit, c)
           y == Limited(q.limit, d)
<1>5. Paired(x, y)
  <2> HIDE DEF c, d
  <2>1. /\ x \in Seq(A) /\ Len(x) = IF q.limit # NoLimit /\ q.limit < Len(c) THEN q.limit ELSE Len(c)
        /\ \A i \in 1 .. Len(x) : x[i] = c[i]
    BY <1>4, LimitedIsList
  <2>2. /\ y \in Seq(B) /\ Len(y) = IF q.limit # NoLimit /\ q.limit < Len(d) THEN q.limit ELSE Len(d)
        /\ \A i \in 1 .. Len(y) : y[i] = d[i]
    BY <1>4, LimitedIsList
  <2> HIDE DEF x, y
  <2>3. Len(x) = Len(y) /\ Len(x) <= Len(c) /\ Len(x) \in Nat
    BY <1>4, <2>1, <2>2
  <2>4. ASSUME NEW i \in 1 .. Len(x) PROVE <<x[i], y[i]>> \in P
    <3>1. i \in 1 .. Len(c) /\ i \in 1 .. Len(y)
      BY <1>4, <2>3
    <3> QED
      BY <1>4, <2>1, <2>2, <3>1
  <2> QED
    BY <2>1, <2>2, <2>3, <2>4
<1> HIDE DEF x, y
<1>6. RowsAgree(A, B, q, e, x, y)
  BY <1>2, <1>5 DEF RowsAgree
<1>7. Projected(q, x) = Projected(q, y)
  BY <1>6, ProjectedAgree
<1> QED
  BY <1>7 DEF x, y, c, d, a, b

-----------------------------------------------------------------------------
(* A statement that is split means, over what was read, what it means over *)
(* everything.                                                             *)
Condition(e) == IsCondition(e) /\ \A k \in 1 .. Len(e) : e[k].op \notin {"not", "and", "or"} => e[k] \in Atoms

LEMMA SplitKeeps ==
  ASSUME NEW e, Condition(e), e # NoCondition, NEW d \in [Fields -> Value], \A f \in Fields : ~d[f].list
  PROVE  Holds(e, RowOf(d)) <=>
           /\ \A k \in Moved(e) : Matches(e, RowOf(d))[k]
           /\ \A k \in Rest(e) : Truths(e, RowOf(d))[k] = "true"
<1> DEFINE row == RowOf(d)
<1>1. IsCondition(e) /\ Len(e) \in 1 .. Len(e)
  BY ConditionIsEmpty, ConditionDomain DEF Condition
<1>2. Holds(e, row) <=> \A j \in Split(e) : Truths(e, row)[j] = "true"
  BY <1>1, SplitHolds DEF Holds, Split
<1>3. Split(e) \subseteq 1 .. Len(e)
  BY <1>1, SplitHolds DEF Split
<1>4. ASSUME NEW k \in 1 .. Len(e), IsAtom(e[k]) PROVE ~Of(e[k].left, row).list
  <2>1. e[k] \in Atoms
    BY <1>4 DEF IsAtom, Condition
  <2>2. IsScalarOrField(e[k].left)
    BY <2>1
  <2> QED
    BY <2>2 DEF IsScalarOrField, Of, RowOf
<1>5. \A k \in 1 .. Len(e) : Moves(e)[k] => (Matches(e, row)[k] <=> Truths(e, row)[k] = "true")
  <2> HIDE DEF row
  <2> QED
    BY <1>1, <1>4, MovedMatches
<1>6. \A k \in Moved(e) : k \in 1 .. Len(e) /\ Moves(e)[k]
  BY <1>3 DEF Moved
<1>7. Split(e) = Moved(e) \cup Rest(e)
  BY DEF Moved, Rest
<1> HIDE DEF row
<1> QED
  BY <1>2, <1>5, <1>6, <1>7 DEF row

(* What is left of the WHERE reads the fields that are read. *)
LEMMA PartsReadAtoms ==
  ASSUME NEW e, Condition(e)
  PROVE  \A k \in 1 .. Len(e) : \A x \in OperandsIn(e)[k] : IsScalarOrField(x)
<1> DEFINE S == {k \in 1 .. Len(e) : \A x \in OperandsIn(e)[k] : IsScalarOrField(x)}
<1>1. IsCondition(e) /\ Len(e) \in Nat
  BY ConditionDomain DEF Condition
<1>2. ASSUME NEW k \in 1 .. Len(e), \A j \in 1 .. k - 1 : j \in S PROVE k \in S
  <2>1. CASE e[k].op = "not"
    <3>1. e[k].of \in 1 .. k - 1 /\ OperandsIn(e)[k] = OperandsIn(e)[e[k].of]
      BY <1>1, <2>1, PartsAre, OperandsInAre
    <3> QED
      BY <1>2, <3>1
  <2>2. CASE e[k].op \in {"and", "or"}
    <3>1. /\ e[k].of \in 1 .. k - 1 /\ e[k].with \in 1 .. k - 1
          /\ OperandsIn(e)[k] = OperandsIn(e)[e[k].of] \cup OperandsIn(e)[e[k].with]
      BY <1>1, <2>2, PartsAre, OperandsInAre
    <3> QED
      BY <1>2, <3>1
  <2>3. CASE e[k].op \notin {"not", "and", "or"}
    <3>1. e[k] \in Atoms
      BY <2>3 DEF Condition
    <3>2. OperandsIn(e)[k] = {e[k].left, e[k].right}
      BY <1>1, <2>3, OperandsInAre
    <3>3. IsScalarOrField(e[k].left) /\ IsScalarOrField(e[k].right)
      BY <3>1
    <3> QED
      BY <3>2, <3>3
  <2> QED
    BY <2>1, <2>2, <2>3
<1>3. 1 .. Len(e) \subseteq S
  <2> HIDE DEF S
  <2> QED
    BY <1>1, <1>2, InductUpTo
<1> QED
  BY <1>3

LEMMA RestReads ==
  ASSUME NEW q, NEW e, Condition(e), e # NoCondition, NEW d,
         NEW k \in Rest(e)
  PROVE  Truths(e, RowOf(Narrowed(q, e, d)))[k] = Truths(e, RowOf(d))[k]
<1> DEFINE r == RowOf(d)
           s == RowOf(Narrowed(q, e, d))
<1>1. IsCondition(e) /\ Len(e) \in 1 .. Len(e)
  BY ConditionIsEmpty, ConditionDomain DEF Condition
<1>2. k \in 1 .. Len(e)
  BY <1>1, SplitHolds DEF Rest, Split
<1>3. ASSUME NEW x \in OperandsIn(e)[k] PROVE Of(x, s) = Of(x, r)
  <2>1. IsScalarOrField(x)
    BY <1>2, PartsReadAtoms
  <2>2. CASE x.kind = "literal"
    BY <2>2 DEF Of
  <2>3. CASE x.kind = "column" /\ x.name \in Fields
    <3>1. x.name \in ClauseNames(q, UNION {OperandsIn(e)[j] : j \in Rest(e)})
      BY <2>3 DEF ClauseNames, NamesOf
    <3>2. x.name \in FieldsRead(q, e)
      BY <2>3, <3>1 DEF FieldsRead
    <3> QED
      BY <2>3, <3>2 DEF Of, RowOf, Narrowed
  <2> QED
    BY <2>1, <2>2, <2>3 DEF IsScalarOrField
<1> HIDE DEF r, s
<1> QED
  BY <1>1, <1>2, <1>3, TruthsRead DEF r, s

LEMMA SourceMeans ==
  ASSUME Condition(where), select \in Selects \cup {NoStatement}
  PROVE  SourceKeepsMeaning
<1> DEFINE q == select
           e == where
<1> SUFFICES ASSUME select # NoStatement, HasPlan(q, e), NEW docs \in Collections, ~HasArrays(docs)
             PROVE  LET snapshot == Snapshot(q, e, Found(e, docs)) IN
                      Meaning(q, snapshot,
                              {d \in ToSet(snapshot) : \A k \in Rest(e) : Truths(e, RowOf(d))[k] = "true"})
                        = Meaning(q, docs, {d \in ToSet(docs) : Holds(e, RowOf(d))})
  BY DEF SourceKeepsMeaning, IsWritten
<1> DEFINE A == [Fields -> Value]
           M == {d \in ToSet(docs) : \A k \in Moved(e) : Matches(e, RowOf(d))[k]}
           found == Found(e, docs)
           snapshot == Snapshot(q, e, found)
           T == {d \in ToSet(found) : \A k \in Rest(e) : Truths(e, RowOf(d))[k] = "true"}
           R == {d \in ToSet(snapshot) : \A k \in Rest(e) : Truths(e, RowOf(d))[k] = "true"}
           H == {d \in ToSet(docs) : Holds(e, RowOf(d))}
           B == {snapshot[i] : i \in 1 .. Len(found)}
<1>1. q \in Selects /\ q.latest.keys = <<>> /\ Moved(e) # {} /\ e # NoCondition
  BY DEF HasPlan, Moved, Split
<1>2. docs \in Seq(A)
  OBVIOUS
<1>3. found = Kept(docs, M) /\ found \in Seq(A \cap M)
  BY <1>2, KeptIsList DEF Found
<1>4. found \in Seq(A)
  BY <1>2, KeptStays DEF Found
<1>5. \A i \in 1 .. Len(docs) : docs[i] \in H <=> docs[i] \in M /\ docs[i] \in T
  <2> SUFFICES ASSUME NEW i \in 1 .. Len(docs) PROVE docs[i] \in H <=> docs[i] \in M /\ docs[i] \in T
    OBVIOUS
  <2>1. docs[i] \in A /\ docs[i] \in ToSet(docs) /\ \A f \in Fields : ~docs[i][f].list
    BY <1>2 DEF ToSet, HasArrays
  <2>2. docs[i] \in M => docs[i] \in ToSet(found)
    <3> QED
      BY <1>2, <1>3, <2>1, KeptHas
  <2>3. Holds(e, RowOf(docs[i])) <=>
          /\ \A k \in Moved(e) : Matches(e, RowOf(docs[i]))[k]
          /\ \A k \in Rest(e) : Truths(e, RowOf(docs[i]))[k] = "true"
    BY <1>1, <2>1, SplitKeeps
  <2> HIDE DEF found
  <2> QED
    BY <2>1, <2>2, <2>3
<1>6. Kept(found, T) = Kept(docs, H)
  <2> HIDE DEF found, M, T, H
  <2> QED
    BY <1>2, <1>3, <1>5, KeptTwice
<1>7. /\ snapshot = [i \in 1 .. Len(found) |-> Narrowed(q, e, found[i])]
      /\ snapshot \in Seq(B) /\ Len(snapshot) = Len(found) /\ Len(found) \in Nat
  <2>1. DOMAIN found = 1 .. Len(found) /\ Len(found) \in Nat
    BY <1>4
  <2>2. snapshot = [i \in 1 .. Len(found) |-> Narrowed(q, e, found[i])]
    BY <2>1 DEF Snapshot
  <2> HIDE DEF found, snapshot
  <2>3. snapshot = [i \in 1 .. Len(found) |-> snapshot[i]]
    BY <2>2
  <2> QED
    BY <2>1, <2>2, <2>3, FunctionIsList
<1> HIDE DEF found, snapshot
<1>8. ASSUME NEW i \in 1 .. Len(found)
      PROVE  Alike(q, e, found[i], snapshot[i]) /\ (found[i] \in T <=> snapshot[i] \in R)
  <2>1. snapshot[i] = Narrowed(q, e, found[i])
    BY <1>7
  <2>2. Alike(q, e, found[i], snapshot[i])
    BY <1>1, <2>1, ReadsGroup DEF Alike, Narrowed
  <2>3. found[i] \in ToSet(found) /\ snapshot[i] \in ToSet(snapshot)
    BY <1>4, <1>7 DEF ToSet
  <2>4. \A k \in Rest(e) : Truths(e, RowOf(snapshot[i]))[k] = Truths(e, RowOf(found[i]))[k]
    BY <1>1, <2>1, RestReads
  <2> QED
    BY <2>2, <2>3, <2>4
<1>9. DocsAlike(A, B, q, e, Kept(found, T), Kept(snapshot, R))
  <2>1. DocsAlike(A, B, q, e, found, snapshot)
    BY <1>4, <1>7, <1>8 DEF DocsAlike
  <2> HIDE DEF T, R, A, B, q, e
  <2> QED
    BY <1>8, <2>1, KeptDocsAlike
<1> DEFINE s == Kept(found, T)
           r == Kept(snapshot, R)
<1>10. PICK C : SelectedRows(q, s) \in Seq(C)
  <2>1. s \in Seq(A)
    BY <1>4, KeptStays
  <2> HIDE DEF s
  <2> QED
    BY <2>1, SelectedIsList
<1>11. PICK D : SelectedRows(q, r) \in Seq(D)
  <2>1. r \in Seq(B)
    BY <1>7, KeptStays
  <2> HIDE DEF r
  <2> QED
    BY <2>1, SelectedIsList
<1>12. /\ Meaning(q, docs, H) = Projected(q, Limited(q.limit, Sorted(q, HavingRows(q, SelectedRows(q, s)))))
       /\ Meaning(q, snapshot, R) = Projected(q, Limited(q.limit, Sorted(q, HavingRows(q, SelectedRows(q, r)))))
  BY <1>1, <1>6 DEF Meaning, SourceOf
<1> HIDE DEF s, r, A, B
<1>13. RowsAgree(C, D, q, e, SelectedRows(q, s), SelectedRows(q, r))
  <2>1. DocsAlike(A, B, q, e, s, r)
    BY <1>9 DEF s, r
  <2>2. /\ Len(SelectedRows(q, s)) = Len(SelectedRows(q, r))
        /\ \A n \in 1 .. Len(SelectedRows(q, s)) : AgreeOn(q, e, SelectedRows(q, s)[n], SelectedRows(q, r)[n])
    BY <1>1, <2>1, SelectedAgree
  <2> QED
    BY <1>10, <1>11, <2>2 DEF RowsAgree
<1>14. Meaning(q, snapshot, R) = Meaning(q, docs, H)
  BY <1>1, <1>12, <1>13, ShownAgree
<1> QED
  BY <1>14 DEF snapshot, found

-----------------------------------------------------------------------------
(* What the user has written is a condition of atoms and clauses there are. *)
StatementIs == Condition(where) /\ select \in Selects \cup {NoStatement}

LEMMA AddedIsCondition ==
  ASSUME Condition(where), NEW p,
         \/ p \in Atoms \/ IsNot(p, 1 .. Len(where)) \/ IsBoth(p, 1 .. Len(where))
  PROVE  Condition(Append(where, p))
<1> DEFINE n == Len(where)
           e == Append(where, p)
<1>1. IsCondition(where) /\ n \in Nat /\ where = [k \in 1 .. n |-> where[k]]
  BY ConditionDomain DEF Condition, IsCondition, IsList
<1>2. PICK C : where \in Seq(C)
  BY <1>1, FunctionIsList
<1>3. /\ Len(e) = n + 1 /\ e = [k \in 1 .. n + 1 |-> e[k]]
      /\ e[n + 1] = p /\ \A k \in 1 .. n : e[k] = where[k]
  <2>1. where \in Seq(C \cup {p}) /\ p \in C \cup {p}
    BY <1>2, SeqMonotonic
  <2>2. /\ e \in Seq(C \cup {p}) /\ Len(e) = n + 1
        /\ \A k \in 1 .. n + 1 : e[k] = IF k = n + 1 THEN p ELSE where[k]
    BY <2>1, AppendProperties
  <2> HIDE DEF e
  <2>3. n + 1 \in 1 .. n + 1 /\ \A k \in 1 .. n : k \in 1 .. n + 1 /\ k # n + 1
    BY <1>1
  <2> HIDE DEF n
  <2>4. e = [k \in 1 .. n + 1 |-> e[k]]
    BY <2>2
  <2> QED
    BY <2>2, <2>3, <2>4
<1> HIDE DEF e
<1>4. ASSUME NEW k \in 1 .. Len(e)
      PROVE  /\ IsAtom(e[k]) \/ IsNot(e[k], 1 .. k - 1) \/ IsBoth(e[k], 1 .. k - 1)
             /\ e[k].op \notin {"not", "and", "or"} => e[k] \in Atoms
  <2>1. CASE k \in 1 .. n
    BY <1>1, <1>3, <2>1 DEF Condition, IsCondition
  <2>2. CASE k = n + 1
    <3>1. e[k] = p /\ 1 .. k - 1 = 1 .. n
      BY <1>1, <1>3, <2>2
    <3>2. p \in Atoms => IsAtom(p)
      OBVIOUS
    <3> QED
      BY <3>1, <3>2 DEF IsNot, IsBoth
  <2> QED
    BY <1>1, <1>3, <2>1, <2>2
<1>5. IsList(e)
  BY <1>1, <1>3 DEF IsList
<1> QED
  BY <1>4, <1>5 DEF Condition, IsCondition, e

LEMMA StatementStays ==
  ASSUME StatementIs, [MongoNext]_mongoVars
  PROVE  StatementIs'
<1>1. Condition(where) /\ Len(where) \in Nat
  BY ConditionDomain DEF StatementIs, Condition
<1>2. ASSUME NEW q \in Selects, Select(q) PROVE StatementIs'
  BY <1>1, <1>2 DEF Select, StatementIs, Condition
<1>3. ASSUME NEW a \in Atoms, AddPart(a) PROVE StatementIs'
  <2>1. Condition(Append(where, a))
    BY <1>1, AddedIsCondition
  <2> QED
    BY <1>3, <2>1 DEF AddPart, StatementIs, Condition
<1>4. ASSUME where # NoCondition, AddPart(Not(Len(where))) PROVE StatementIs'
  <2>1. Len(where) \in 1 .. Len(where)
    BY <1>1, <1>4, ConditionIsEmpty DEF Condition
  <2>2. IsNot(Not(Len(where)), 1 .. Len(where))
    BY <2>1 DEF IsNot, Not
  <2>3. Condition(Append(where, Not(Len(where))))
    BY <1>1, <2>2, AddedIsCondition
  <2> QED
    BY <1>4, <2>3 DEF AddPart, StatementIs, Condition
<1>5. ASSUME NEW i \in 1 .. Len(where) - 1, NEW op \in {"and", "or"}, AddPart(Both(op, i, Len(where)))
      PROVE  StatementIs'
  <2>1. i \in 1 .. Len(where) /\ Len(where) \in 1 .. Len(where)
    BY <1>1
  <2>2. IsBoth(Both(op, i, Len(where)), 1 .. Len(where))
    BY <2>1 DEF IsBoth, Both
  <2>3. Condition(Append(where, Both(op, i, Len(where))))
    BY <1>1, <2>2, AddedIsCondition
  <2> QED
    BY <1>5, <2>3 DEF AddPart, StatementIs, Condition
<1>6. CASE UNCHANGED mongoVars
  BY <1>6 DEF mongoVars, StatementIs, Condition
<1> QED
  BY <1>2, <1>3, <1>4, <1>5, <1>6 DEF MongoNext

(* What is written in SQL for MongoDB gives the rows of SQL: translated to *)
(* a pipeline, or split into a filter and a rest.                          *)
THEOREM MongoHolds == MongoSpec => []MongoInv
<1>1. MongoInit => StatementIs
  BY DEF MongoInit, StatementIs, Condition, IsCondition, IsList, NoCondition
<1>2. StatementIs /\ [MongoNext]_mongoVars => StatementIs'
  BY StatementStays
<1>3. StatementIs => MongoInv
  BY TranslationMeans, SourceMeans DEF StatementIs, Condition, MongoInv
<1> QED
  BY <1>1, <1>2, <1>3, PTL DEF MongoSpec

=============================================================================
