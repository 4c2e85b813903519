---------------------------- MODULE AdapterProofs ----------------------------
(***************************************************************************)
(* The adapters.  Pools: whatever the server refuses and whenever a cancel *)
(* comes, for any number of calls, cancels and clients.  What makes        *)
(* AdapterInv inductive is where a call or a cancel may hold a client      *)
(* (ClientsInUse), what its transaction is (OpenIsOwn) and that a call     *)
(* somebody means to cancel keeps its client (MeantHasNoOther).            *)
(* JdbcAdapter: for any number of adapters and calls, whatever order their *)
(* requests and answers arrive in.  A connect or a close is asked for or   *)
(* answered once (AskedOnce), and its answer still says what the sidecar   *)
(* has (ChangesAreKnown), since nobody else may change it (OneConnect,     *)
(* OneCloser).  Introspection: what is joined by the name of a key is that *)
(* key.  SqlReaders: by induction on the places of a text, a reader stands *)
(* where the database does (ReadsAlike) and what it has called code lies   *)
(* before the end of its last solid piece (Standing).                      *)
(***************************************************************************)
EXTENDS AdapterFamilies, WellFoundedInduction, TLAPS

(* What one user's step leaves of the others. *)
OthersStay(u) ==
  /\ dialect' = dialect
  /\ \A v \in Users : v # u => at'[v] = at[v] /\ holds'[v] = holds[v]
  /\ \A c \in Calls : c # u => op'[c] = op[c]

(* What it may do with its client, the transaction there and the slot.     *)
ClientStep(u) ==
  /\ holds'[u] \in {None, holds[u]} \cup Free
  /\ at'[u] \in Ended /\ holds'[u] # None =>
       u \in Calls /\ dialect = "mysql" /\ op'[u] = "probe" /\ at'[u] = "failed"
  /\ open' \subseteq open \cup {holds[u]}
  /\ holds'[u] # holds[u] => holds[u] \notin open'
  /\ holds'[u] \in open' => Transacts(u)'

(* It may leave one of the user there, but not where it has its own.       *)
TheirsStep(u) ==
  /\ theirs' \subseteq theirs \cup {holds[u]}
  /\ dialect = "oracle" => theirs' = {}
  /\ dialect = "mysql" /\ u \in Calls /\ Begins(u)' /\ at'[u] \in {"running", "committing"} =>
       holds'[u] \notin theirs'

SlotStep(u) ==
  /\ slot' \notin {None, u} => slot' = slot
  /\ slot' = u =>
       /\ op'[u] \in Tracked /\ at'[u] \in UnderWay
       /\ holds'[u] # None \/ (dialect = "sqlserver" /\ at'[u] \in {"waiting", "reading"})

(* A call that a cancel may be after has its client, and gets no other.    *)
MeantStep(c) ==
  /\ target' = target
  /\ dialect = "mysql" /\ at[c] \notin {"idle", "waiting"} =>
       at'[c] \notin {"idle", "waiting"} /\ holds'[c] \in {None, holds[c]}

LEMMA OpenIsHeld ==
  ASSUME TypeOK
  PROVE  NothingLeftOpen <=> \A k \in open : \E u \in Users : holds[u] = k
BY DEF NothingLeftOpen, Free, TypeOK

LEMMA OpenIsHeldNext ==
  ASSUME TypeOK'
  PROVE  NothingLeftOpen' <=> \A k \in open' : \E u \in Users : holds'[u] = k
BY DEF NothingLeftOpen, Free, TypeOK

LEMMA UserStep ==
  ASSUME AdapterInv, TypeOK', NEW u \in Users,
         OthersStay(u), ClientStep(u), TheirsStep(u), SlotStep(u), MeantHasNoOther',
         u \in Calls => CallInPlace(u)', u \in Cancels => CancelInPlace(u)'
  PROVE  AdapterInv'
<1>0. /\ TypeOK /\ SlotIsLive /\ ClientsReturned /\ NothingLeftOpen /\ TheirsEndsBefore
      /\ ClientsInUse /\ OpenIsOwn
  BY DEF AdapterInv
<1> USE CallsAreNoCancels
<1>1. SlotIsLive'
  BY <1>0 DEF SlotIsLive, SlotStep, OthersStay, TypeOK, Users
<1>2. ClientsReturned'
  <2>1. ASSUME NEW v \in Users, NEW w \in Users, v # w, holds'[v] # None
        PROVE  holds'[v] # holds'[w]
    <3>1. holds[v] # None => holds[v] # holds[w]
      BY <1>0, <2>1 DEF ClientsReturned
    <3>2. holds[w] # None => holds[w] # holds[v]
      BY <1>0, <2>1 DEF ClientsReturned
    <3>3. \A k \in Free : k # holds[v] /\ k # holds[w]
      BY DEF Free
    <3>4. CASE v = u
      BY <2>1, <3>1, <3>3, <3>4 DEF OthersStay, ClientStep
    <3>5. CASE w = u
      BY <2>1, <3>1, <3>2, <3>3, <3>5 DEF OthersStay, ClientStep
    <3>6. CASE v # u /\ w # u
      BY <2>1, <3>1, <3>6 DEF OthersStay
    <3> QED
      BY <3>4, <3>5, <3>6
  <2>2. ASSUME NEW v \in Users, at'[v] \in Ended, holds'[v] # None
        PROVE  v \in Calls /\ dialect' = "mysql" /\ op'[v] = "probe" /\ at'[v] = "failed"
    <3>1. CASE v = u
      BY <2>2, <3>1 DEF ClientStep, OthersStay
    <3>2. CASE v # u
      BY <1>0, <2>2, <3>2 DEF ClientsReturned, OthersStay
    <3> QED
      BY <3>1, <3>2
  <2> QED
    BY <2>1, <2>2 DEF ClientsReturned
<1>3. NothingLeftOpen'
  <2>1. ASSUME NEW k \in open' PROVE \E v \in Users : holds'[v] = k
    <3>1. k = holds[u] => holds'[u] = k
      BY DEF ClientStep
    <3>2. k \in open => \E v \in Users : holds[v] = k
      BY <1>0, OpenIsHeld
    <3> QED
      BY <3>1, <3>2 DEF ClientStep, OthersStay
  <2> QED
    BY <2>1, OpenIsHeldNext
<1>4. OpenIsOwn'
  <2>1. ASSUME NEW v \in Users, v # u, holds'[v] \in open'
        PROVE  Transacts(v)'
    <3>1. holds'[v] = holds[v] /\ at'[v] = at[v] /\ (v \in Calls => op'[v] = op[v])
          /\ dialect' = dialect
      BY <2>1 DEF OthersStay
    <3>2. holds[v] # holds[u]
      BY <1>0, <2>1, <3>1 DEF ClientsReturned, TypeOK
    <3>3. holds[v] \in open
      BY <2>1, <3>1, <3>2 DEF ClientStep
    <3>4. Transacts(v)
      BY <1>0, <3>3 DEF OpenIsOwn
    <3> QED
      BY <3>1, <3>4 DEF Transacts, Begins, Writes
  <2> QED
    BY <2>1 DEF OpenIsOwn, ClientStep
<1>5. ClientsInUse'
  <2>1. ASSUME NEW c \in Calls, c # u PROVE CallInPlace(c)'
    <3>1. CallInPlace(c) /\ c \in Users
      BY <1>0 DEF ClientsInUse, Users
    <3>2. at'[c] = at[c] /\ holds'[c] = holds[c] /\ op'[c] = op[c] /\ dialect' = dialect
      BY <2>1, <3>1 DEF OthersStay
    <3> QED
      BY <3>1, <3>2 DEF CallInPlace, Begins, Writes
  <2>2. ASSUME NEW x \in Cancels, x # u PROVE CancelInPlace(x)'
    <3>1. CancelInPlace(x) /\ x \in Users
      BY <1>0 DEF ClientsInUse, Users
    <3> QED
      BY <2>2, <3>1 DEF CancelInPlace, OthersStay
  <2> QED
    BY <2>1, <2>2 DEF ClientsInUse
<1>6. TheirsEndsBefore'
  <2>1. ASSUME dialect' = "mysql", NEW c \in Calls, c # u, Begins(c)',
               at'[c] \in {"running", "committing"}
        PROVE  holds'[c] \notin theirs'
    <3>1. CallInPlace(c) /\ c \in Users
      BY <1>0 DEF ClientsInUse, Users
    <3>2. at'[c] = at[c] /\ holds'[c] = holds[c] /\ op'[c] = op[c] /\ dialect' = dialect
      BY <2>1, <3>1 DEF OthersStay
    <3>3. holds[c] \notin theirs
      BY <1>0, <2>1, <3>2 DEF TheirsEndsBefore, Begins
    <3>4. holds[c] # None
      BY <2>1, <3>1, <3>2 DEF CallInPlace
    <3>5. holds[c] # holds[u]
      BY <1>0, <2>1, <3>1, <3>4 DEF ClientsReturned
    <3> QED
      BY <3>2, <3>3, <3>5 DEF TheirsStep
  <2>2. dialect' = dialect
    BY DEF OthersStay
  <2> QED
    BY <2>1, <2>2 DEF TheirsEndsBefore, TheirsStep
<1> QED
  BY <1>1, <1>2, <1>3, <1>4, <1>5, <1>6 DEF AdapterInv

LEMMA MeantKept ==
  ASSUME AdapterInv, NEW c \in Calls, OthersStay(c), MeantStep(c)
  PROVE  MeantHasNoOther'
<1> SUFFICES ASSUME NEW x \in Cancels, at'[x] = "waiting"
             PROVE  /\ dialect' = "mysql" /\ target'[x].call # None
                    /\ at'[target'[x].call] \notin {"idle", "waiting"}
                    /\ holds'[target'[x].call] \in {None, target'[x].client}
  BY DEF MeantHasNoOther
<1>1. x # c /\ x \in Users
  BY CallsAreNoCancels DEF Users
<1>2. /\ dialect = "mysql" /\ target[x].call # None
      /\ at[target[x].call] \notin {"idle", "waiting"}
      /\ holds[target[x].call] \in {None, target[x].client}
  BY <1>1 DEF AdapterInv, MeantHasNoOther, OthersStay
<1>3. target[x].call \in Calls /\ target[x].call \in Users
  BY <1>2 DEF AdapterInv, TypeOK, Users
<1> QED
  BY <1>2, <1>3 DEF OthersStay, MeantStep

LEMMA StartKeeps ==
  ASSUME AdapterInv, NEW c \in Calls, Start(c)
  PROVE  AdapterInv'
<1> USE CallsAreNoCancels DEF Start, Goto, Give, Unregister
<1>0. /\ TypeOK /\ SlotIsLive /\ NothingLeftOpen /\ TheirsEndsBefore /\ CallInPlace(c)
      /\ c \in Users /\ (holds[c] \in open => Transacts(c))
  BY DEF AdapterInv, ClientsInUse, OpenIsOwn, Users
<1>1. TypeOK'
  BY <1>0 DEF TypeOK, UnderWay, Ended, Free, CallInPlace, Users
<1>2. OthersStay(c)
  BY <1>0 DEF OthersStay, TypeOK, Users
<1>3. ClientStep(c)
  BY <1>0 DEF ClientStep, TypeOK, Transacts, CallInPlace, Begins, Writes, Ended, Free, Methods
<1>4. SlotStep(c)
  BY <1>0 DEF SlotStep, SlotIsLive, TypeOK, Tracked, UnderWay, CallInPlace, Begins, Ended
<1>5. CallInPlace(c)'
  BY <1>0 DEF TypeOK, CallInPlace, Begins, Writes, Ended, Free
<1>6. MeantStep(c)
  BY <1>0 DEF MeantStep, TypeOK, CallInPlace, Ended, Methods
<1>7. TheirsStep(c)
  BY <1>0 DEF TheirsStep, TheirsEndsBefore, TypeOK, CallInPlace, Begins, Ended, UsersTransaction
<1> QED
  BY <1>0, <1>1, <1>2, <1>3, <1>4, <1>5, <1>6, <1>7, UserStep, MeantKept

LEMMA AcquireKeeps ==
  ASSUME AdapterInv, NEW c \in Calls, Acquire(c)
  PROVE  AdapterInv'
<1> USE CallsAreNoCancels DEF Acquire, Goto, Give, Unregister
<1>0. /\ TypeOK /\ SlotIsLive /\ NothingLeftOpen /\ TheirsEndsBefore /\ CallInPlace(c)
      /\ c \in Users /\ (holds[c] \in open => Transacts(c))
  BY DEF AdapterInv, ClientsInUse, OpenIsOwn, Users
<1>1. TypeOK'
  BY <1>0 DEF TypeOK, UnderWay, Ended, Free, CallInPlace, Users
<1>2. OthersStay(c)
  BY <1>0 DEF OthersStay, TypeOK, Users
<1>3. ClientStep(c)
  <2>1. PICK k \in Free : holds' = [holds EXCEPT ![c] = k]
    BY DEF Acquire
  <2>2. holds'[c] = k /\ k \in Clients /\ k # None /\ k \notin open
    BY <1>0, <2>1 DEF TypeOK, Free, NothingLeftOpen
  <2> QED
    BY <1>0, <2>2 DEF ClientStep, TypeOK, CallInPlace, Ended
<1>4. SlotStep(c)
  <2>1. PICK k \in Free : holds' = [holds EXCEPT ![c] = k]
    BY DEF Acquire
  <2>2. holds'[c] # None
    BY <1>0, <2>1 DEF TypeOK, Free
  <2> QED
    BY <1>0, <2>2 DEF SlotStep, SlotIsLive, TypeOK, UnderWay
<1>5. CallInPlace(c)'
  BY <1>0 DEF TypeOK, CallInPlace, Begins, Writes, Ended, Free
<1>6. MeantStep(c)
  BY <1>0 DEF MeantStep, TypeOK, CallInPlace, Ended, Methods
<1>7. TheirsStep(c)
  BY <1>0 DEF TheirsStep, TheirsEndsBefore, TypeOK, CallInPlace, Begins, Ended, UsersTransaction
<1> QED
  BY <1>0, <1>1, <1>2, <1>3, <1>4, <1>5, <1>6, <1>7, UserStep, MeantKept

LEMMA BegunKeeps ==
  ASSUME AdapterInv, NEW c \in Calls, Begun(c)
  PROVE  AdapterInv'
<1> USE CallsAreNoCancels DEF Begun, Goto, Give, Unregister
<1>0. /\ TypeOK /\ SlotIsLive /\ NothingLeftOpen /\ TheirsEndsBefore /\ CallInPlace(c)
      /\ c \in Users /\ (holds[c] \in open => Transacts(c))
  BY DEF AdapterInv, ClientsInUse, OpenIsOwn, Users
<1>1. TypeOK'
  BY <1>0 DEF TypeOK, UnderWay, Ended, Free, CallInPlace, Users
<1>2. OthersStay(c)
  BY <1>0 DEF OthersStay, TypeOK, Users
<1>3. ClientStep(c)
  BY <1>0 DEF ClientStep, TypeOK, Transacts, CallInPlace, Begins, Writes, Ended, Free, Methods
<1>4. SlotStep(c)
  BY <1>0 DEF SlotStep, SlotIsLive, TypeOK, Tracked, UnderWay, CallInPlace, Begins, Ended
<1>5. CallInPlace(c)'
  BY <1>0 DEF TypeOK, CallInPlace, Begins, Writes, Ended, Free
<1>6. MeantStep(c)
  BY <1>0 DEF MeantStep, TypeOK, CallInPlace, Ended, Methods
<1>7. TheirsStep(c)
  BY <1>0 DEF TheirsStep, TheirsEndsBefore, TypeOK, CallInPlace, Begins, Ended, UsersTransaction
<1> QED
  BY <1>0, <1>1, <1>2, <1>3, <1>4, <1>5, <1>6, <1>7, UserStep, MeantKept

LEMMA NotBegunKeeps ==
  ASSUME AdapterInv, NEW c \in Calls, NotBegun(c)
  PROVE  AdapterInv'
<1> USE CallsAreNoCancels DEF NotBegun, Release, Goto, Give, Unregister
<1>0. /\ TypeOK /\ SlotIsLive /\ NothingLeftOpen /\ TheirsEndsBefore /\ CallInPlace(c)
      /\ c \in Users /\ (holds[c] \in open => Transacts(c))
  BY DEF AdapterInv, ClientsInUse, OpenIsOwn, Users
<1>1. TypeOK'
  BY <1>0 DEF TypeOK, UnderWay, Ended, Free, CallInPlace, Users
<1>2. OthersStay(c)
  BY <1>0 DEF OthersStay, TypeOK, Users
<1>3. ClientStep(c)
  BY <1>0 DEF ClientStep, TypeOK, Transacts, CallInPlace, Begins, Writes, Ended, Free, Methods
<1>4. SlotStep(c)
  BY <1>0 DEF SlotStep, SlotIsLive, TypeOK, Tracked, UnderWay, CallInPlace, Begins, Ended
<1>5. CallInPlace(c)'
  BY <1>0 DEF TypeOK, CallInPlace, Begins, Writes, Ended, Free
<1>6. MeantStep(c)
  BY <1>0 DEF MeantStep, TypeOK, CallInPlace, Ended, Methods
<1>7. TheirsStep(c)
  BY <1>0 DEF TheirsStep, TheirsEndsBefore, TypeOK, CallInPlace, Begins, Ended, UsersTransaction
<1> QED
  BY <1>0, <1>1, <1>2, <1>3, <1>4, <1>5, <1>6, <1>7, UserStep, MeantKept

LEMMA AnsweredKeeps ==
  ASSUME AdapterInv, NEW c \in Calls, Answered(c)
  PROVE  AdapterInv'
<1> USE CallsAreNoCancels DEF Answered, Release, Goto, Give, Unregister
<1>0. /\ TypeOK /\ SlotIsLive /\ NothingLeftOpen /\ TheirsEndsBefore /\ CallInPlace(c)
      /\ c \in Users /\ (holds[c] \in open => Transacts(c))
  BY DEF AdapterInv, ClientsInUse, OpenIsOwn, Users
<1>1. TypeOK'
  <2>1. theirs' \subseteq Clients
    BY <1>0 DEF TypeOK, CallInPlace, UsersTransaction
  <2> QED
    BY <1>0, <2>1 DEF TypeOK, UnderWay, Ended, Free, CallInPlace, Users
<1>2. OthersStay(c)
  BY <1>0 DEF OthersStay, TypeOK, Users
<1>3. ClientStep(c)
  BY <1>0 DEF ClientStep, TypeOK, Transacts, CallInPlace, Begins, Writes, Ended, Free, Methods
<1>4. SlotStep(c)
  BY <1>0 DEF SlotStep, SlotIsLive, TypeOK, Tracked, UnderWay, CallInPlace, Begins, Ended
<1>5. CallInPlace(c)'
  BY <1>0 DEF TypeOK, CallInPlace, Begins, Writes, Ended, Free
<1>6. MeantStep(c)
  BY <1>0 DEF MeantStep, TypeOK, CallInPlace, Ended, Methods
<1>7. TheirsStep(c)
  BY <1>0 DEF TheirsStep, TheirsEndsBefore, TypeOK, CallInPlace, Begins, Ended, UsersTransaction
<1> QED
  BY <1>0, <1>1, <1>2, <1>3, <1>4, <1>5, <1>6, <1>7, UserStep, MeantKept

LEMMA StreamServedKeeps ==
  ASSUME AdapterInv, NEW c \in Calls, StreamServed(c)
  PROVE  AdapterInv'
<1> USE CallsAreNoCancels DEF StreamServed, Goto, Give, Unregister
<1>0. /\ TypeOK /\ SlotIsLive /\ NothingLeftOpen /\ TheirsEndsBefore /\ CallInPlace(c)
      /\ c \in Users /\ (holds[c] \in open => Transacts(c))
  BY DEF AdapterInv, ClientsInUse, OpenIsOwn, Users
<1>1. TypeOK'
  BY <1>0 DEF TypeOK, UnderWay, Ended, Free, CallInPlace, Users
<1>2. OthersStay(c)
  BY <1>0 DEF OthersStay, TypeOK, Users
<1>3. ClientStep(c)
  BY <1>0 DEF ClientStep, TypeOK, Transacts, CallInPlace, Begins, Writes, Ended, Free, Methods
<1>4. SlotStep(c)
  BY <1>0 DEF SlotStep, SlotIsLive, TypeOK, Tracked, UnderWay, CallInPlace, Begins, Ended
<1>5. CallInPlace(c)'
  BY <1>0 DEF TypeOK, CallInPlace, Begins, Writes, Ended, Free
<1>6. MeantStep(c)
  BY <1>0 DEF MeantStep, TypeOK, CallInPlace, Ended, Methods
<1>7. TheirsStep(c)
  BY <1>0 DEF TheirsStep, TheirsEndsBefore, TypeOK, CallInPlace, Begins, Ended
<1> QED
  BY <1>0, <1>1, <1>2, <1>3, <1>4, <1>5, <1>6, <1>7, UserStep, MeantKept

LEMMA StreamReadKeeps ==
  ASSUME AdapterInv, NEW c \in Calls, StreamRead(c)
  PROVE  AdapterInv'
<1> USE CallsAreNoCancels DEF StreamRead, Release, Goto, Give, Unregister
<1>0. /\ TypeOK /\ SlotIsLive /\ NothingLeftOpen /\ TheirsEndsBefore /\ CallInPlace(c)
      /\ c \in Users /\ (holds[c] \in open => Transacts(c))
  BY DEF AdapterInv, ClientsInUse, OpenIsOwn, Users
<1>1. TypeOK'
  BY <1>0 DEF TypeOK, UnderWay, Ended, Free, CallInPlace, Users
<1>2. OthersStay(c)
  BY <1>0 DEF OthersStay, TypeOK, Users
<1>3. ClientStep(c)
  BY <1>0 DEF ClientStep, TypeOK, Transacts, CallInPlace, Begins, Writes, Ended, Free, Methods
<1>4. SlotStep(c)
  BY <1>0 DEF SlotStep, SlotIsLive, TypeOK, Tracked, UnderWay, CallInPlace, Begins, Ended
<1>5. CallInPlace(c)'
  BY <1>0 DEF TypeOK, CallInPlace, Begins, Writes, Ended, Free
<1>6. MeantStep(c)
  BY <1>0 DEF MeantStep, TypeOK, CallInPlace, Ended, Methods
<1>7. TheirsStep(c)
  BY <1>0 DEF TheirsStep, TheirsEndsBefore, TypeOK, CallInPlace, Begins, Ended
<1> QED
  BY <1>0, <1>1, <1>2, <1>3, <1>4, <1>5, <1>6, <1>7, UserStep, MeantKept

LEMMA AbandonKeeps ==
  ASSUME AdapterInv, NEW c \in Calls, Abandon(c)
  PROVE  AdapterInv'
<1> USE CallsAreNoCancels DEF Abandon, Goto, Give, Unregister
<1>0. /\ TypeOK /\ SlotIsLive /\ NothingLeftOpen /\ TheirsEndsBefore /\ CallInPlace(c)
      /\ c \in Users /\ (holds[c] \in open => Transacts(c))
  BY DEF AdapterInv, ClientsInUse, OpenIsOwn, Users
<1>1. TypeOK'
  BY <1>0 DEF TypeOK, UnderWay, Ended, Free, CallInPlace, Users
<1>2. OthersStay(c)
  BY <1>0 DEF OthersStay, TypeOK, Users
<1>3. ClientStep(c)
  BY <1>0 DEF ClientStep, TypeOK, Transacts, CallInPlace, Begins, Writes, Ended, Free, Methods
<1>4. SlotStep(c)
  BY <1>0 DEF SlotStep, SlotIsLive, TypeOK, Tracked, UnderWay, CallInPlace, Begins, Ended
<1>5. CallInPlace(c)'
  BY <1>0 DEF TypeOK, CallInPlace, Begins, Writes, Ended, Free
<1>6. MeantStep(c)
  BY <1>0 DEF MeantStep, TypeOK, CallInPlace, Ended, Methods
<1>7. TheirsStep(c)
  BY <1>0 DEF TheirsStep, TheirsEndsBefore, TypeOK, CallInPlace, Begins, Ended
<1> QED
  BY <1>0, <1>1, <1>2, <1>3, <1>4, <1>5, <1>6, <1>7, UserStep, MeantKept

LEMMA AnsweredInTransactionKeeps ==
  ASSUME AdapterInv, NEW c \in Calls, AnsweredInTransaction(c)
  PROVE  AdapterInv'
<1> USE CallsAreNoCancels DEF AnsweredInTransaction, Goto, Give, Unregister
<1>0. /\ TypeOK /\ SlotIsLive /\ NothingLeftOpen /\ TheirsEndsBefore /\ CallInPlace(c)
      /\ c \in Users /\ (holds[c] \in open => Transacts(c))
  BY DEF AdapterInv, ClientsInUse, OpenIsOwn, Users
<1>1. TypeOK'
  BY <1>0 DEF TypeOK, UnderWay, Ended, Free, CallInPlace, Users
<1>2. OthersStay(c)
  BY <1>0 DEF OthersStay, TypeOK, Users
<1>3. ClientStep(c)
  BY <1>0 DEF ClientStep, TypeOK, Transacts, CallInPlace, Begins, Writes, Ended, Free, Methods
<1>4. SlotStep(c)
  BY <1>0 DEF SlotStep, SlotIsLive, TypeOK, Tracked, UnderWay, CallInPlace, Begins, Ended
<1>5. CallInPlace(c)'
  BY <1>0 DEF TypeOK, CallInPlace, Begins, Writes, Ended, Free
<1>6. MeantStep(c)
  BY <1>0 DEF MeantStep, TypeOK, CallInPlace, Ended, Methods
<1>7. TheirsStep(c)
  BY <1>0 DEF TheirsStep, TheirsEndsBefore, TypeOK, CallInPlace, Begins, Ended, UsersTransaction
<1> QED
  BY <1>0, <1>1, <1>2, <1>3, <1>4, <1>5, <1>6, <1>7, UserStep, MeantKept

LEMMA UpdatedOtherRowsKeeps ==
  ASSUME AdapterInv, NEW c \in Calls, UpdatedOtherRows(c)
  PROVE  AdapterInv'
<1> USE CallsAreNoCancels DEF UpdatedOtherRows, Goto, Give, Unregister
<1>0. /\ TypeOK /\ SlotIsLive /\ NothingLeftOpen /\ TheirsEndsBefore /\ CallInPlace(c)
      /\ c \in Users /\ (holds[c] \in open => Transacts(c))
  BY DEF AdapterInv, ClientsInUse, OpenIsOwn, Users
<1>1. TypeOK'
  BY <1>0 DEF TypeOK, UnderWay, Ended, Free, CallInPlace, Users
<1>2. OthersStay(c)
  BY <1>0 DEF OthersStay, TypeOK, Users
<1>3. ClientStep(c)
  BY <1>0 DEF ClientStep, TypeOK, Transacts, CallInPlace, Begins, Writes, Ended, Free, Methods
<1>4. SlotStep(c)
  BY <1>0 DEF SlotStep, SlotIsLive, TypeOK, Tracked, UnderWay, CallInPlace, Begins, Ended
<1>5. CallInPlace(c)'
  BY <1>0 DEF TypeOK, CallInPlace, Begins, Writes, Ended, Free
<1>6. MeantStep(c)
  BY <1>0 DEF MeantStep, TypeOK, CallInPlace, Ended, Methods
<1>7. TheirsStep(c)
  BY <1>0 DEF TheirsStep, TheirsEndsBefore, TypeOK, CallInPlace, Begins, Ended, UsersTransaction
<1> QED
  BY <1>0, <1>1, <1>2, <1>3, <1>4, <1>5, <1>6, <1>7, UserStep, MeantKept

LEMMA FailsInTransactionKeeps ==
  ASSUME AdapterInv, NEW c \in Calls, FailsInTransaction(c)
  PROVE  AdapterInv'
<1> USE CallsAreNoCancels DEF FailsInTransaction, Goto, Give, Unregister
<1>0. /\ TypeOK /\ SlotIsLive /\ NothingLeftOpen /\ TheirsEndsBefore /\ CallInPlace(c)
      /\ c \in Users /\ (holds[c] \in open => Transacts(c))
  BY DEF AdapterInv, ClientsInUse, OpenIsOwn, Users
<1>1. TypeOK'
  BY <1>0 DEF TypeOK, UnderWay, Ended, Free, CallInPlace, Users
<1>2. OthersStay(c)
  BY <1>0 DEF OthersStay, TypeOK, Users
<1>3. ClientStep(c)
  BY <1>0 DEF ClientStep, TypeOK, Transacts, CallInPlace, Begins, Writes, Ended, Free, Methods
<1>4. SlotStep(c)
  BY <1>0 DEF SlotStep, SlotIsLive, TypeOK, Tracked, UnderWay, CallInPlace, Begins, Ended
<1>5. CallInPlace(c)'
  BY <1>0 DEF TypeOK, CallInPlace, Begins, Writes, Ended, Free
<1>6. MeantStep(c)
  BY <1>0 DEF MeantStep, TypeOK, CallInPlace, Ended, Methods
<1>7. TheirsStep(c)
  BY <1>0 DEF TheirsStep, TheirsEndsBefore, TypeOK, CallInPlace, Begins, Ended, UsersTransaction
<1> QED
  BY <1>0, <1>1, <1>2, <1>3, <1>4, <1>5, <1>6, <1>7, UserStep, MeantKept

LEMMA FailsKeeps ==
  ASSUME AdapterInv, NEW c \in Calls, Fails(c)
  PROVE  AdapterInv'
<1> USE CallsAreNoCancels DEF Fails, Release, Goto, Give, Unregister
<1>0. /\ TypeOK /\ SlotIsLive /\ NothingLeftOpen /\ TheirsEndsBefore /\ CallInPlace(c)
      /\ c \in Users /\ (holds[c] \in open => Transacts(c))
  BY DEF AdapterInv, ClientsInUse, OpenIsOwn, Users
<1>1. TypeOK'
  <2>1. theirs' \subseteq Clients
    BY <1>0 DEF TypeOK, CallInPlace, UsersTransaction
  <2> QED
    BY <1>0, <2>1 DEF TypeOK, UnderWay, Ended, Free, CallInPlace, Users
<1>2. OthersStay(c)
  BY <1>0 DEF OthersStay, TypeOK, Users
<1>3. ClientStep(c)
  BY <1>0 DEF ClientStep, TypeOK, Transacts, CallInPlace, Begins, Writes, Ended, Free, Methods
<1>4. SlotStep(c)
  BY <1>0 DEF SlotStep, SlotIsLive, TypeOK, Tracked, UnderWay, CallInPlace, Begins, Ended
<1>5. CallInPlace(c)'
  BY <1>0 DEF TypeOK, CallInPlace, Begins, Writes, Ended, Free
<1>6. MeantStep(c)
  BY <1>0 DEF MeantStep, TypeOK, CallInPlace, Ended, Methods
<1>7. TheirsStep(c)
  BY <1>0 DEF TheirsStep, TheirsEndsBefore, TypeOK, CallInPlace, Begins, Ended, UsersTransaction
<1> QED
  BY <1>0, <1>1, <1>2, <1>3, <1>4, <1>5, <1>6, <1>7, UserStep, MeantKept

LEMMA ProbeFailsKeeps ==
  ASSUME AdapterInv, NEW c \in Calls, ProbeFails(c)
  PROVE  AdapterInv'
<1> USE CallsAreNoCancels DEF ProbeFails, Goto, Give, Unregister
<1>0. /\ TypeOK /\ SlotIsLive /\ NothingLeftOpen /\ TheirsEndsBefore /\ CallInPlace(c)
      /\ c \in Users /\ (holds[c] \in open => Transacts(c))
  BY DEF AdapterInv, ClientsInUse, OpenIsOwn, Users
<1>1. TypeOK'
  BY <1>0 DEF TypeOK, UnderWay, Ended, Free, CallInPlace, Users
<1>2. OthersStay(c)
  BY <1>0 DEF OthersStay, TypeOK, Users
<1>3. ClientStep(c)
  BY <1>0 DEF ClientStep, TypeOK, Transacts, CallInPlace, Begins, Writes, Ended, Free, Methods
<1>4. SlotStep(c)
  BY <1>0 DEF SlotStep, SlotIsLive, TypeOK, Tracked, UnderWay, CallInPlace, Begins, Ended
<1>5. CallInPlace(c)'
  BY <1>0 DEF TypeOK, CallInPlace, Begins, Writes, Ended, Free
<1>6. MeantStep(c)
  BY <1>0 DEF MeantStep, TypeOK, CallInPlace, Ended, Methods
<1>7. TheirsStep(c)
  BY <1>0 DEF TheirsStep, TheirsEndsBefore, TypeOK, CallInPlace, Begins, Ended, UsersTransaction
<1> QED
  BY <1>0, <1>1, <1>2, <1>3, <1>4, <1>5, <1>6, <1>7, UserStep, MeantKept

LEMMA CommittedKeeps ==
  ASSUME AdapterInv, NEW c \in Calls, Committed(c)
  PROVE  AdapterInv'
<1> USE CallsAreNoCancels DEF Committed, Goto, Give, Unregister
<1>0. /\ TypeOK /\ SlotIsLive /\ NothingLeftOpen /\ TheirsEndsBefore /\ CallInPlace(c)
      /\ c \in Users /\ (holds[c] \in open => Transacts(c))
  BY DEF AdapterInv, ClientsInUse, OpenIsOwn, Users
<1>1. TypeOK'
  BY <1>0 DEF TypeOK, UnderWay, Ended, Free, CallInPlace, Users
<1>2. OthersStay(c)
  BY <1>0 DEF OthersStay, TypeOK, Users
<1>3. ClientStep(c)
  BY <1>0 DEF ClientStep, TypeOK, Transacts, CallInPlace, Begins, Writes, Ended, Free, Methods
<1>4. SlotStep(c)
  BY <1>0 DEF SlotStep, SlotIsLive, TypeOK, Tracked, UnderWay, CallInPlace, Begins, Ended
<1>5. CallInPlace(c)'
  BY <1>0 DEF TypeOK, CallInPlace, Begins, Writes, Ended, Free
<1>6. MeantStep(c)
  BY <1>0 DEF MeantStep, TypeOK, CallInPlace, Ended, Methods
<1>7. TheirsStep(c)
  BY <1>0 DEF TheirsStep, TheirsEndsBefore, TypeOK, CallInPlace, Begins, Ended, UsersTransaction
<1> QED
  BY <1>0, <1>1, <1>2, <1>3, <1>4, <1>5, <1>6, <1>7, UserStep, MeantKept

LEMMA UndoneKeeps ==
  ASSUME AdapterInv, NEW c \in Calls, Undone(c)
  PROVE  AdapterInv'
<1> USE CallsAreNoCancels DEF Undone, Goto, Give, Unregister
<1>0. /\ TypeOK /\ SlotIsLive /\ NothingLeftOpen /\ TheirsEndsBefore /\ CallInPlace(c)
      /\ c \in Users /\ (holds[c] \in open => Transacts(c))
  BY DEF AdapterInv, ClientsInUse, OpenIsOwn, Users
<1>1. TypeOK'
  BY <1>0 DEF TypeOK, UnderWay, Ended, Free, CallInPlace, Users
<1>2. OthersStay(c)
  BY <1>0 DEF OthersStay, TypeOK, Users
<1>3. ClientStep(c)
  BY <1>0 DEF ClientStep, TypeOK, Transacts, CallInPlace, Begins, Writes, Ended, Free, Methods
<1>4. SlotStep(c)
  BY <1>0 DEF SlotStep, SlotIsLive, TypeOK, Tracked, UnderWay, CallInPlace, Begins, Ended
<1>5. CallInPlace(c)'
  BY <1>0 DEF TypeOK, CallInPlace, Begins, Writes, Ended, Free
<1>6. MeantStep(c)
  BY <1>0 DEF MeantStep, TypeOK, CallInPlace, Ended, Methods
<1>7. TheirsStep(c)
  BY <1>0 DEF TheirsStep, TheirsEndsBefore, TypeOK, CallInPlace, Begins, Ended, UsersTransaction
<1> QED
  BY <1>0, <1>1, <1>2, <1>3, <1>4, <1>5, <1>6, <1>7, UserStep, MeantKept

LEMMA PlanRolledBackKeeps ==
  ASSUME AdapterInv, NEW c \in Calls, PlanRolledBack(c)
  PROVE  AdapterInv'
<1> USE CallsAreNoCancels DEF PlanRolledBack, Goto, Give, Unregister
<1>0. /\ TypeOK /\ SlotIsLive /\ NothingLeftOpen /\ TheirsEndsBefore /\ CallInPlace(c)
      /\ c \in Users /\ (holds[c] \in open => Transacts(c))
  BY DEF AdapterInv, ClientsInUse, OpenIsOwn, Users
<1>1. TypeOK'
  BY <1>0 DEF TypeOK, UnderWay, Ended, Free, CallInPlace, Users
<1>2. OthersStay(c)
  BY <1>0 DEF OthersStay, TypeOK, Users
<1>3. ClientStep(c)
  BY <1>0 DEF ClientStep, TypeOK, Transacts, CallInPlace, Begins, Writes, Ended, Free, Methods
<1>4. SlotStep(c)
  BY <1>0 DEF SlotStep, SlotIsLive, TypeOK, Tracked, UnderWay, CallInPlace, Begins, Ended
<1>5. CallInPlace(c)'
  BY <1>0 DEF TypeOK, CallInPlace, Begins, Writes, Ended, Free
<1>6. MeantStep(c)
  BY <1>0 DEF MeantStep, TypeOK, CallInPlace, Ended, Methods
<1>7. TheirsStep(c)
  BY <1>0 DEF TheirsStep, TheirsEndsBefore, TypeOK, CallInPlace, Begins, Ended, UsersTransaction
<1> QED
  BY <1>0, <1>1, <1>2, <1>3, <1>4, <1>5, <1>6, <1>7, UserStep, MeantKept

LEMMA AcquireForResetKeeps ==
  ASSUME AdapterInv, NEW c \in Calls, AcquireForReset(c)
  PROVE  AdapterInv'
<1> USE CallsAreNoCancels DEF AcquireForReset, Goto, Give, Unregister
<1>0. /\ TypeOK /\ SlotIsLive /\ NothingLeftOpen /\ TheirsEndsBefore /\ CallInPlace(c)
      /\ c \in Users /\ (holds[c] \in open => Transacts(c))
  BY DEF AdapterInv, ClientsInUse, OpenIsOwn, Users
<1>1. TypeOK'
  BY <1>0 DEF TypeOK, UnderWay, Ended, Free, CallInPlace, Users
<1>2. OthersStay(c)
  BY <1>0 DEF OthersStay, TypeOK, Users
<1>3. ClientStep(c)
  <2>1. PICK k \in Free : holds' = [holds EXCEPT ![c] = k]
    BY DEF AcquireForReset
  <2>2. holds'[c] = k /\ k \in Clients /\ k # None /\ k \notin open
    BY <1>0, <2>1 DEF TypeOK, Free, NothingLeftOpen
  <2> QED
    BY <1>0, <2>2 DEF ClientStep, TypeOK, CallInPlace, Ended
<1>4. SlotStep(c)
  <2>1. PICK k \in Free : holds' = [holds EXCEPT ![c] = k]
    BY DEF AcquireForReset
  <2>2. holds'[c] # None
    BY <1>0, <2>1 DEF TypeOK, Free
  <2> QED
    BY <1>0, <2>2 DEF SlotStep, SlotIsLive, TypeOK, UnderWay
<1>5. CallInPlace(c)'
  BY <1>0 DEF TypeOK, CallInPlace, Begins, Writes, Ended, Free
<1>6. MeantStep(c)
  BY <1>0 DEF MeantStep, TypeOK, CallInPlace, Ended, Methods
<1>7. TheirsStep(c)
  BY <1>0 DEF TheirsStep, TheirsEndsBefore, TypeOK, CallInPlace, Begins, Ended, UsersTransaction
<1> QED
  BY <1>0, <1>1, <1>2, <1>3, <1>4, <1>5, <1>6, <1>7, UserStep, MeantKept

LEMMA PlanModeOffKeeps ==
  ASSUME AdapterInv, NEW c \in Calls, PlanModeOff(c)
  PROVE  AdapterInv'
<1> USE CallsAreNoCancels DEF PlanModeOff, Goto, Give, Unregister
<1>0. /\ TypeOK /\ SlotIsLive /\ NothingLeftOpen /\ TheirsEndsBefore /\ CallInPlace(c)
      /\ c \in Users /\ (holds[c] \in open => Transacts(c))
  BY DEF AdapterInv, ClientsInUse, OpenIsOwn, Users
<1>1. TypeOK'
  BY <1>0 DEF TypeOK, UnderWay, Ended, Free, CallInPlace, Users
<1>2. OthersStay(c)
  BY <1>0 DEF OthersStay, TypeOK, Users
<1>3. ClientStep(c)
  BY <1>0 DEF ClientStep, TypeOK, Transacts, CallInPlace, Begins, Writes, Ended, Free, Methods
<1>4. SlotStep(c)
  BY <1>0 DEF SlotStep, SlotIsLive, TypeOK, Tracked, UnderWay, CallInPlace, Begins, Ended
<1>5. CallInPlace(c)'
  BY <1>0 DEF TypeOK, CallInPlace, Begins, Writes, Ended, Free
<1>6. MeantStep(c)
  BY <1>0 DEF MeantStep, TypeOK, CallInPlace, Ended, Methods
<1>7. TheirsStep(c)
  BY <1>0 DEF TheirsStep, TheirsEndsBefore, TypeOK, CallInPlace, Begins, Ended, UsersTransaction
<1> QED
  BY <1>0, <1>1, <1>2, <1>3, <1>4, <1>5, <1>6, <1>7, UserStep, MeantKept

LEMMA CancelNothingKeeps ==
  ASSUME AdapterInv, NEW x \in Cancels, CancelNothing(x)
  PROVE  AdapterInv'
<1> USE CallsAreNoCancels DEF CancelNothing, Goto, Give, Unregister
<1>0. /\ TypeOK /\ SlotIsLive /\ NothingLeftOpen /\ TheirsEndsBefore /\ CancelInPlace(x)
      /\ x \in Users /\ (holds[x] \in open => Transacts(x))
  BY DEF AdapterInv, ClientsInUse, OpenIsOwn, Users
<1>1. TypeOK'
  BY <1>0 DEF TypeOK, UnderWay, Ended, Free, CancelInPlace, Users
<1>2. OthersStay(x)
  BY <1>0 DEF OthersStay, TypeOK, Users
<1>3. ClientStep(x)
  BY <1>0 DEF ClientStep, TypeOK, Transacts, CancelInPlace, Begins, Writes, Ended, Free, Methods
<1>4. SlotStep(x)
  BY <1>0 DEF SlotStep, SlotIsLive, TypeOK, Tracked, UnderWay, CancelInPlace, Begins, Ended
<1>5. CancelInPlace(x)'
  BY <1>0 DEF TypeOK, CancelInPlace, Begins, Writes, Ended, Free
<1>6. MeantHasNoOther'
  BY <1>0, <1>2 DEF AdapterInv, MeantHasNoOther, OthersStay, TypeOK, Users, Ended
<1>7. TheirsStep(x)
  BY <1>0 DEF TheirsStep, TheirsEndsBefore, TypeOK, Ended
<1> QED
  BY <1>0, <1>1, <1>2, <1>3, <1>4, <1>5, <1>6, <1>7, UserStep

LEMMA CancelDirectlyKeeps ==
  ASSUME AdapterInv, NEW x \in Cancels, CancelDirectly(x)
  PROVE  AdapterInv'
<1> USE CallsAreNoCancels DEF CancelDirectly, Goto, Give, Unregister
<1>0. /\ TypeOK /\ SlotIsLive /\ NothingLeftOpen /\ TheirsEndsBefore /\ CancelInPlace(x)
      /\ x \in Users /\ (holds[x] \in open => Transacts(x))
  BY DEF AdapterInv, ClientsInUse, OpenIsOwn, Users
<1>1. TypeOK'
  BY <1>0 DEF TypeOK, UnderWay, Ended, Free, CancelInPlace, Users
<1>2. OthersStay(x)
  BY <1>0 DEF OthersStay, TypeOK, Users
<1>3. ClientStep(x)
  BY <1>0 DEF ClientStep, TypeOK, Transacts, CancelInPlace, Begins, Writes, Ended, Free, Methods
<1>4. SlotStep(x)
  BY <1>0 DEF SlotStep, SlotIsLive, TypeOK, Tracked, UnderWay, CancelInPlace, Begins, Ended
<1>5. CancelInPlace(x)'
  BY <1>0 DEF TypeOK, CancelInPlace, Begins, Writes, Ended, Free
<1>6. MeantHasNoOther'
  BY <1>0, <1>2 DEF AdapterInv, MeantHasNoOther, OthersStay, TypeOK, Users, Ended
<1>7. TheirsStep(x)
  BY <1>0 DEF TheirsStep, TheirsEndsBefore, TypeOK, Ended
<1> QED
  BY <1>0, <1>1, <1>2, <1>3, <1>4, <1>5, <1>6, <1>7, UserStep

LEMMA CancelWaitsKeeps ==
  ASSUME AdapterInv, NEW x \in Cancels, CancelWaits(x)
  PROVE  AdapterInv'
<1> USE CallsAreNoCancels DEF CancelWaits, Goto, Give, Unregister
<1>0. /\ TypeOK /\ SlotIsLive /\ NothingLeftOpen /\ TheirsEndsBefore /\ CancelInPlace(x)
      /\ x \in Users /\ (holds[x] \in open => Transacts(x))
  BY DEF AdapterInv, ClientsInUse, OpenIsOwn, Users
<1>1. TypeOK'
  BY <1>0 DEF TypeOK, UnderWay, Ended, Free, CancelInPlace, Users
<1>2. OthersStay(x)
  BY <1>0 DEF OthersStay, TypeOK, Users
<1>3. ClientStep(x)
  BY <1>0 DEF ClientStep, TypeOK, Transacts, CancelInPlace, Begins, Writes, Ended, Free, Methods
<1>4. SlotStep(x)
  BY <1>0 DEF SlotStep, SlotIsLive, TypeOK, Tracked, UnderWay, CancelInPlace, Begins, Ended
<1>5. CancelInPlace(x)'
  BY <1>0 DEF TypeOK, CancelInPlace, Begins, Writes, Ended, Free
<1>6. MeantHasNoOther'
  <2> SUFFICES ASSUME NEW y \in Cancels, at'[y] = "waiting"
               PROVE  /\ dialect' = "mysql" /\ target'[y].call # None
                      /\ at'[target'[y].call] \notin {"idle", "waiting"}
                      /\ holds'[target'[y].call] \in {None, target'[y].client}
    BY DEF MeantHasNoOther
  <2>1. /\ dialect = "mysql" /\ dialect' = dialect
        /\ slot \in Calls /\ slot \in Users /\ slot # x /\ slot # None
    BY <1>0 DEF TypeOK, Users
  <2>2. at[slot] \notin {"idle", "waiting"}
    <3>1. CallInPlace(slot)
      BY <2>1 DEF AdapterInv, ClientsInUse
    <3> QED
      BY <1>0, <2>1, <3>1 DEF SlotIsLive, CallInPlace, UnderWay
  <2>3. CASE y = x
    <3>1. target'[x].call = slot /\ target'[x].client = holds[slot]
      BY <1>0 DEF TypeOK
    <3> QED
      BY <1>2, <2>1, <2>2, <2>3, <3>1 DEF OthersStay
  <2>4. CASE y # x
    <3>1. at[y] = "waiting" /\ target'[y] = target[y]
      BY <1>0, <2>4 DEF TypeOK
    <3>2. /\ target[y].call # None
          /\ at[target[y].call] \notin {"idle", "waiting"}
          /\ holds[target[y].call] \in {None, target[y].client}
      BY <3>1 DEF AdapterInv, MeantHasNoOther
    <3>3. target[y].call \in Calls /\ target[y].call \in Users /\ target[y].call # x
      BY <1>0, <3>2 DEF TypeOK, Users
    <3> QED
      BY <1>2, <2>1, <3>1, <3>2, <3>3 DEF OthersStay
  <2> QED
    BY <2>3, <2>4
<1>7. TheirsStep(x)
  BY <1>0 DEF TheirsStep, TheirsEndsBefore, TypeOK, Ended
<1> QED
  BY <1>0, <1>1, <1>2, <1>3, <1>4, <1>5, <1>6, <1>7, UserStep

LEMMA CancelTooLateKeeps ==
  ASSUME AdapterInv, NEW x \in Cancels, CancelTooLate(x)
  PROVE  AdapterInv'
<1> USE CallsAreNoCancels DEF CancelTooLate, StillMeant, Goto, Give, Unregister
<1>0. /\ TypeOK /\ SlotIsLive /\ NothingLeftOpen /\ TheirsEndsBefore /\ CancelInPlace(x)
      /\ x \in Users /\ (holds[x] \in open => Transacts(x))
  BY DEF AdapterInv, ClientsInUse, OpenIsOwn, Users
<1>1. TypeOK'
  BY <1>0 DEF TypeOK, UnderWay, Ended, Free, CancelInPlace, Users
<1>2. OthersStay(x)
  BY <1>0 DEF OthersStay, TypeOK, Users
<1>3. ClientStep(x)
  BY <1>0 DEF ClientStep, TypeOK, Transacts, CancelInPlace, Begins, Writes, Ended, Free, Methods
<1>4. SlotStep(x)
  BY <1>0 DEF SlotStep, SlotIsLive, TypeOK, Tracked, UnderWay, CancelInPlace, Begins, Ended
<1>5. CancelInPlace(x)'
  BY <1>0 DEF TypeOK, CancelInPlace, Begins, Writes, Ended, Free
<1>6. MeantHasNoOther'
  BY <1>0, <1>2 DEF AdapterInv, MeantHasNoOther, OthersStay, TypeOK, Users, Ended
<1>7. TheirsStep(x)
  BY <1>0 DEF TheirsStep, TheirsEndsBefore, TypeOK, Ended
<1> QED
  BY <1>0, <1>1, <1>2, <1>3, <1>4, <1>5, <1>6, <1>7, UserStep

LEMMA SendKillKeeps ==
  ASSUME AdapterInv, NEW x \in Cancels, SendKill(x)
  PROVE  AdapterInv'
<1> USE CallsAreNoCancels DEF SendKill, StillMeant, Goto, Give, Unregister
<1>0. /\ TypeOK /\ SlotIsLive /\ NothingLeftOpen /\ TheirsEndsBefore /\ CancelInPlace(x)
      /\ x \in Users /\ (holds[x] \in open => Transacts(x))
  BY DEF AdapterInv, ClientsInUse, OpenIsOwn, Users
<1>1. TypeOK'
  BY <1>0 DEF TypeOK, UnderWay, Ended, Free, CancelInPlace, Users
<1>2. OthersStay(x)
  BY <1>0 DEF OthersStay, TypeOK, Users
<1>3. ClientStep(x)
  <2>1. PICK k \in Free : holds' = [holds EXCEPT ![x] = k]
    BY DEF SendKill
  <2>2. holds'[x] = k /\ k \in Clients /\ k # None /\ k \notin open
    BY <1>0, <2>1 DEF TypeOK, Free, NothingLeftOpen
  <2> QED
    BY <1>0, <2>2 DEF ClientStep, TypeOK, CancelInPlace, Ended
<1>4. SlotStep(x)
  BY <1>0 DEF SlotStep, SlotIsLive, TypeOK, Tracked, UnderWay, CancelInPlace, Begins, Ended
<1>5. CancelInPlace(x)'
  BY <1>0 DEF TypeOK, CancelInPlace, Begins, Writes, Ended, Free
<1>6. MeantHasNoOther'
  BY <1>0, <1>2 DEF AdapterInv, MeantHasNoOther, OthersStay, TypeOK, Users, Ended
<1>7. TheirsStep(x)
  BY <1>0 DEF TheirsStep, TheirsEndsBefore, TypeOK, Ended
<1> QED
  BY <1>0, <1>1, <1>2, <1>3, <1>4, <1>5, <1>6, <1>7, UserStep

LEMMA KillArrivesKeeps ==
  ASSUME AdapterInv, NEW x \in Cancels, KillArrives(x)
  PROVE  AdapterInv'
<1> USE CallsAreNoCancels DEF KillArrives, Goto, Give, Unregister
<1>0. /\ TypeOK /\ SlotIsLive /\ NothingLeftOpen /\ TheirsEndsBefore /\ CancelInPlace(x)
      /\ x \in Users /\ (holds[x] \in open => Transacts(x))
  BY DEF AdapterInv, ClientsInUse, OpenIsOwn, Users
<1>1. TypeOK'
  BY <1>0 DEF TypeOK, UnderWay, Ended, Free, CancelInPlace, Users
<1>2. OthersStay(x)
  BY <1>0 DEF OthersStay, TypeOK, Users
<1>3. ClientStep(x)
  BY <1>0 DEF ClientStep, TypeOK, Transacts, CancelInPlace, Begins, Writes, Ended, Free, Methods
<1>4. SlotStep(x)
  BY <1>0 DEF SlotStep, SlotIsLive, TypeOK, Tracked, UnderWay, CancelInPlace, Begins, Ended
<1>5. CancelInPlace(x)'
  BY <1>0 DEF TypeOK, CancelInPlace, Begins, Writes, Ended, Free
<1>6. MeantHasNoOther'
  BY <1>0, <1>2 DEF AdapterInv, MeantHasNoOther, OthersStay, TypeOK, Users, Ended
<1>7. TheirsStep(x)
  BY <1>0 DEF TheirsStep, TheirsEndsBefore, TypeOK, Ended
<1> QED
  BY <1>0, <1>1, <1>2, <1>3, <1>4, <1>5, <1>6, <1>7, UserStep

LEMMA NoCallClientKeeps ==
  ASSUME AdapterInv, NEW c \in Calls, NoClient(c)
  PROVE  AdapterInv'
<1> USE CallsAreNoCancels DEF NoClient, Goto, Give, Unregister
<1>0. /\ TypeOK /\ SlotIsLive /\ NothingLeftOpen /\ TheirsEndsBefore /\ CallInPlace(c)
      /\ c \in Users /\ (holds[c] \in open => Transacts(c))
  BY DEF AdapterInv, ClientsInUse, OpenIsOwn, Users
<1>1. TypeOK'
  BY <1>0 DEF TypeOK, UnderWay, Ended, Free, CallInPlace, Users
<1>2. OthersStay(c)
  BY <1>0 DEF OthersStay, TypeOK, Users
<1>3. ClientStep(c)
  BY <1>0 DEF ClientStep, TypeOK, Transacts, CallInPlace, Begins, Writes, Ended, Free, Methods
<1>4. SlotStep(c)
  BY <1>0 DEF SlotStep, SlotIsLive, TypeOK, Tracked, UnderWay, CallInPlace, Begins, Ended
<1>5. CallInPlace(c)'
  BY <1>0 DEF TypeOK, CallInPlace, Begins, Writes, Ended, Free
<1>6. MeantStep(c)
  BY <1>0 DEF MeantStep, TypeOK, CallInPlace, Ended, Methods
<1>7. TheirsStep(c)
  BY <1>0 DEF TheirsStep, TheirsEndsBefore, TypeOK, CallInPlace, Begins, Ended, UsersTransaction
<1> QED
  BY <1>0, <1>1, <1>2, <1>3, <1>4, <1>5, <1>6, <1>7, UserStep, MeantKept

LEMMA NoCancelClientKeeps ==
  ASSUME AdapterInv, NEW x \in Cancels, NoClient(x)
  PROVE  AdapterInv'
<1> USE CallsAreNoCancels DEF NoClient, Goto, Give, Unregister
<1>0. /\ TypeOK /\ SlotIsLive /\ NothingLeftOpen /\ TheirsEndsBefore /\ CancelInPlace(x)
      /\ x \in Users /\ (holds[x] \in open => Transacts(x))
  BY DEF AdapterInv, ClientsInUse, OpenIsOwn, Users
<1>1. TypeOK'
  BY <1>0 DEF TypeOK, UnderWay, Ended, Free, CancelInPlace, Users
<1>2. OthersStay(x)
  BY <1>0 DEF OthersStay, TypeOK, Users
<1>3. ClientStep(x)
  BY <1>0 DEF ClientStep, TypeOK, Transacts, CancelInPlace, Begins, Writes, Ended, Free, Methods
<1>4. SlotStep(x)
  BY <1>0 DEF SlotStep, SlotIsLive, TypeOK, Tracked, UnderWay, CancelInPlace, Begins, Ended
<1>5. CancelInPlace(x)'
  BY <1>0 DEF TypeOK, CancelInPlace, Begins, Writes, Ended, Free
<1>6. MeantHasNoOther'
  BY <1>0, <1>2 DEF AdapterInv, MeantHasNoOther, OthersStay, TypeOK, Users, Ended
<1>7. TheirsStep(x)
  BY <1>0 DEF TheirsStep, TheirsEndsBefore, TypeOK, Ended
<1> QED
  BY <1>0, <1>1, <1>2, <1>3, <1>4, <1>5, <1>6, <1>7, UserStep

LEMMA AdapterInit0 ==
  ASSUME Init
  PROVE  AdapterInv
<1> USE CallsAreNoCancels DEF Init, Users
<1>1. TypeOK
  BY DEF TypeOK
<1>2. /\ SlotIsLive /\ ClientsReturned /\ NothingLeftOpen /\ TheirsEndsBefore
      /\ OpenIsOwn /\ MeantHasNoOther
  BY DEF SlotIsLive, ClientsReturned, NothingLeftOpen, TheirsEndsBefore, OpenIsOwn, MeantHasNoOther
<1>3. ClientsInUse
  BY DEF ClientsInUse, CallInPlace, CancelInPlace
<1> QED
  BY <1>1, <1>2, <1>3 DEF AdapterInv

LEMMA AdapterNext0 ==
  ASSUME AdapterInv, Next
  PROVE  AdapterInv'
BY StartKeeps, AcquireKeeps, BegunKeeps, NotBegunKeeps, AnsweredKeeps,
   AnsweredInTransactionKeeps, UpdatedOtherRowsKeeps, FailsInTransactionKeeps, FailsKeeps,
   ProbeFailsKeeps, CommittedKeeps, UndoneKeeps, PlanRolledBackKeeps,
   AcquireForResetKeeps, PlanModeOffKeeps, StreamServedKeeps, StreamReadKeeps, AbandonKeeps,
   NoCallClientKeeps, NoCancelClientKeeps,
   CancelNothingKeeps, CancelDirectlyKeeps, CancelWaitsKeeps, CancelTooLateKeeps,
   SendKillKeeps, KillArrivesKeeps
   DEF Next, CallStep, CancelStep, Users

LEMMA AdapterStutter ==
  ASSUME AdapterInv, UNCHANGED vars
  PROVE  AdapterInv'
<1> USE DEF vars
<1>1. (TypeOK /\ SlotIsLive /\ ClientsReturned /\ NothingLeftOpen)'
  BY DEF AdapterInv, TypeOK, SlotIsLive, ClientsReturned, NothingLeftOpen, Free
<1>4. TheirsEndsBefore'
  BY DEF AdapterInv, TheirsEndsBefore, Begins
<1>2. ClientsInUse'
  BY DEF AdapterInv, ClientsInUse, CallInPlace, CancelInPlace, Begins, Writes
<1>3. OpenIsOwn' /\ MeantHasNoOther'
  BY DEF AdapterInv, OpenIsOwn, Transacts, Begins, Writes, MeantHasNoOther
<1> QED
  BY <1>1, <1>2, <1>3, <1>4 DEF AdapterInv

LEMMA PoolStepKeeps ==
  ASSUME AdapterInv, [AdapterNext]_adapterVars
  PROVE  AdapterInv'
BY AdapterNext0, AdapterStutter
   DEF AdapterNext, PoolStep, JdbcStep, CatalogStep, TextStep, adapterVars

(* Whatever the server refuses, whenever a cancel comes and whoever stops  *)
(* reading a stream, for every number of calls, cancels and clients: the   *)
(* slot names a statement that is under way, no client is lent twice, or   *)
(* kept by a call that ended other than a failed probe, or lent with a     *)
(* transaction that an adapter has opened; and of those that the user's    *)
(* own SQL leaves open none is around a read-only query or a row update of *)
(* MySQL, or in Oracle.                                                    *)
THEOREM AdapterHolds == AdapterSpec => []AdapterInv
<1>1. AdapterInit => AdapterInv
  BY AdapterInit0 DEF AdapterInit
<1>2. AdapterInv /\ [AdapterNext]_adapterVars => AdapterInv'
  BY PoolStepKeeps
<1> QED
  BY <1>1, <1>2, PTL DEF AdapterSpec

LEMMA KillsAreCurrent ==
  ASSUME AdapterInv, [AdapterNext]_adapterVars, NEW x \in Cancels,
         at'[x] = "killing", at[x] # "killing"
  PROVE  slot = target[x].call /\ holds[target[x].call] = target[x].client
<1>0. TypeOK /\ SlotIsLive /\ MeantHasNoOther /\ ClientsInUse
  BY DEF AdapterInv
<1>1. Next \/ UNCHANGED vars
  BY DEF AdapterNext, PoolStep, JdbcStep, CatalogStep, TextStep, adapterVars
<1>2. Next
  BY <1>1 DEF vars
<1>3. SendKill(x)
  <2>1. ASSUME NEW c \in Calls, Start(c) \/ CallStep(c) \/ StreamServed(c) \/ Abandon(c)
        PROVE  FALSE
    BY <1>0, <2>1, CallsAreNoCancels
       DEF TypeOK, Users, Ended, Start, CallStep, Acquire, Begun, NotBegun, Answered,
           AnsweredInTransaction, UpdatedOtherRows, FailsInTransaction, Fails, ProbeFails,
           Committed, Undone, PlanRolledBack, AcquireForReset, PlanModeOff, StreamServed,
           StreamRead, Abandon, Goto, Release
  <2>2. ASSUME NEW u \in Users, NoClient(u) PROVE FALSE
    BY <1>0, <2>2 DEF TypeOK, Users, NoClient, Goto
  <2>3. ASSUME NEW y \in Cancels,
               CancelNothing(y) \/ CancelDirectly(y) \/ CancelWaits(y) \/ CancelTooLate(y)
                 \/ KillArrives(y)
        PROVE  FALSE
    BY <1>0, <2>3
       DEF TypeOK, Users, CancelNothing, CancelDirectly, CancelWaits, CancelTooLate,
           KillArrives, Goto
  <2>4. ASSUME NEW y \in Cancels, SendKill(y) PROVE y = x
    BY <1>0, <2>4 DEF TypeOK, Users, SendKill, Goto
  <2> QED
    BY <1>2, <2>1, <2>2, <2>3, <2>4 DEF Next, CancelStep
<1>4. slot = target[x].call /\ at[x] = "waiting"
  BY <1>3 DEF SendKill, StillMeant
<1> QED
  BY <1>0, <1>4 DEF MeantHasNoOther, SlotIsLive, TypeOK

(* MySQL's KILL QUERY leaves only while the query it is meant for is       *)
(* registered and still has the client that is named.                      *)
THEOREM KillsHitTheirQuery == AdapterSpec => KillIsCurrent
<1>1. AdapterInv /\ [AdapterNext]_adapterVars =>
        [\A x \in Cancels : at'[x] = "killing" /\ at[x] # "killing" =>
           slot = target[x].call /\ holds[target[x].call] = target[x].client]_vars
  BY KillsAreCurrent
<1> QED
  BY <1>1, AdapterHolds, PTL DEF AdapterSpec, KillIsCurrent


-----------------------------------------------------------------------------
(* JdbcSidecar.  The messages about a connect or a close, by the call they *)
(* are of.                                                                 *)
Rq(c, p) == J!Request(c, p) \in requests
Sv(c, p) == serving = J!Request(c, p)
An(c, p, ok) == J!Answer(J!Request(c, p), ok) \in answers

Changing == {"connect", "close"}

LEMMA MessagesAre ==
  ASSUME J!TypeOK
  PROVE  /\ \A r \in requests :
              r.call \in JdbcCalls /\ r.path \in J!Paths /\ r = J!Request(r.call, r.path)
         /\ serving # None =>
              /\ serving.call \in JdbcCalls /\ serving.path \in J!Paths
              /\ serving = J!Request(serving.call, serving.path)
         /\ \A m \in answers :
              /\ m.call \in JdbcCalls /\ m.path \in J!Paths /\ m.ok \in BOOLEAN
              /\ m = J!Answer(J!Request(m.call, m.path), m.ok)
         /\ \A c \in JdbcCalls, p \in J!Paths : J!Request(c, p) # None
<1>1. \A r \in requests :
        r.call \in JdbcCalls /\ r.path \in J!Paths /\ r = J!Request(r.call, r.path)
  BY DEF J!TypeOK, J!Request
<1>2. serving # None =>
        /\ serving.call \in JdbcCalls /\ serving.path \in J!Paths
        /\ serving = J!Request(serving.call, serving.path)
  BY DEF J!TypeOK, J!Request
<1>3. \A m \in answers :
        /\ m.call \in JdbcCalls /\ m.path \in J!Paths /\ m.ok \in BOOLEAN
        /\ m = J!Answer(J!Request(m.call, m.path), m.ok)
  BY DEF J!TypeOK, J!Request, J!Answer
<1>4. \A c \in JdbcCalls, p \in J!Paths : J!Request(c, p) # None
  BY JdbcAssumption DEF J!SidecarAssumption, J!Request, J!Paths
<1> QED
  BY <1>1, <1>2, <1>3, <1>4

LEMMA RequestsDiffer ==
  ASSUME NEW c, NEW p, NEW d, NEW q
  PROVE  /\ J!Request(c, p) = J!Request(d, q) <=> c = d /\ p = q
         /\ J!Request(c, p).call = c /\ J!Request(c, p).path = p
BY DEF J!Request

LEMMA AnswersDiffer ==
  ASSUME NEW c, NEW p, NEW ok, NEW d, NEW q, NEW k
  PROVE  J!Answer(J!Request(c, p), ok) = J!Answer(J!Request(d, q), k)
           <=> c = d /\ p = q /\ ok = k
BY DEF J!Answer, J!Request

LEMMA RequestTaken ==
  ASSUME J!TypeOK, NEW r \in requests, requests' = requests \ {r}
  PROVE  \A c \in JdbcCalls, p \in Changing :
           Rq(c, p)' <=> Rq(c, p) /\ ~(c = r.call /\ p = r.path)
<1>1. r = J!Request(r.call, r.path)
  BY MessagesAre
<1>2. ASSUME NEW c \in JdbcCalls, NEW p \in Changing
      PROVE  Rq(c, p)' <=> Rq(c, p) /\ ~(c = r.call /\ p = r.path)
  <2>1. J!Request(c, p) = r <=> c = r.call /\ p = r.path
    BY <1>1, RequestsDiffer
  <2> QED
    BY <2>1 DEF Rq
<1> QED
  BY <1>2

LEMMA AnswerGiven ==
  ASSUME J!TypeOK, NEW r, r = J!Request(r.call, r.path), NEW ok \in BOOLEAN,
         answers' = answers \cup {J!Answer(r, ok)}
  PROVE  \A c \in JdbcCalls, p \in Changing, k \in BOOLEAN :
           An(c, p, k)' <=> An(c, p, k) \/ (c = r.call /\ p = r.path /\ k = ok)
<1>1. ASSUME NEW c \in JdbcCalls, NEW p \in Changing, NEW k \in BOOLEAN
      PROVE  An(c, p, k)' <=> An(c, p, k) \/ (c = r.call /\ p = r.path /\ k = ok)
  <2>1. J!Answer(J!Request(c, p), k) = J!Answer(r, ok)
          <=> c = r.call /\ p = r.path /\ k = ok
    BY AnswersDiffer
  <2> QED
    BY <2>1 DEF An
<1> QED
  BY <1>1

LEMMA AnswerTaken ==
  ASSUME J!TypeOK, NEW r \in answers, answers' = answers \ {r}
  PROVE  \A c \in JdbcCalls, p \in Changing, k \in BOOLEAN :
           An(c, p, k)' <=> An(c, p, k) /\ ~(c = r.call /\ p = r.path /\ k = r.ok)
<1>1. r = J!Answer(J!Request(r.call, r.path), r.ok)
  BY MessagesAre
<1>2. ASSUME NEW c \in JdbcCalls, NEW p \in Changing, NEW k \in BOOLEAN
      PROVE  An(c, p, k)' <=> An(c, p, k) /\ ~(c = r.call /\ p = r.path /\ k = r.ok)
  <2>1. J!Answer(J!Request(c, p), k) = r <=> c = r.call /\ p = r.path /\ k = r.ok
    BY <1>1, AnswersDiffer
  <2> QED
    BY <2>1 DEF An
<1> QED
  BY <1>2

LEMMA AskedOnceIs ==
  J!AskedOnce <=>
    /\ \A c \in JdbcCalls, p \in Changing :
         /\ Rq(c, p) \/ Sv(c, p) => place[c] = p
         /\ Rq(c, p) => ~Sv(c, p)
         /\ \A ok \in BOOLEAN : An(c, p, ok) =>
              place[c] = p /\ ~Rq(c, p) /\ ~Sv(c, p) /\ ~An(c, p, ~ok)
    /\ serving # None => serving.path \in {"connect", "query", "stream", "catalog"}
BY DEF J!AskedOnce, Changing, Rq, Sv, An, J!Asked, J!WaitsFor

LEMMA AskedOnceNext ==
  J!AskedOnce' <=>
    /\ \A c \in JdbcCalls, p \in Changing :
         /\ Rq(c, p)' \/ Sv(c, p)' => place'[c] = p
         /\ Rq(c, p)' => ~Sv(c, p)'
         /\ \A ok \in BOOLEAN : An(c, p, ok)' =>
              place'[c] = p /\ ~Rq(c, p)' /\ ~Sv(c, p)' /\ ~An(c, p, ~ok)'
    /\ serving' # None => serving'.path \in {"connect", "query", "stream", "catalog"}
BY DEF J!AskedOnce, Changing, Rq, Sv, An, J!Asked, J!WaitsFor

(* What ChangesAreKnown says of one call. *)
Known1(c) ==
  /\ place[c] = "connect" => ~connected[of[c]]
  /\ up /\ J!OneCloser(of[c]) /\ place[c] = "connect" =>
       /\ Rq(c, "connect") \/ Sv(c, "connect") => of[c] \notin handles
       /\ \A ok \in BOOLEAN : An(c, "connect", ok) => (ok <=> of[c] \in handles)
  /\ up /\ J!OneCloser(of[c]) /\ place[c] = "close" =>
       /\ connected[of[c]]
       /\ Rq(c, "close") \/ Sv(c, "close") => of[c] \in handles
       /\ \A ok \in BOOLEAN : An(c, "close", ok) => ok /\ of[c] \notin handles

LEMMA ChangesAreKnownIs == J!ChangesAreKnown <=> \A c \in JdbcCalls : Known1(c)
BY DEF J!ChangesAreKnown, Known1, Rq, Sv, An, J!Asked, J!WaitsFor

LEMMA ChangesAreKnownNext == J!ChangesAreKnown' <=> \A c \in JdbcCalls : Known1(c)'
BY DEF J!ChangesAreKnown, Known1, Rq, Sv, An, J!Asked, J!WaitsFor

LEMMA OneCloserSame ==
  ASSUME of' = of, method' = method
  PROVE  \A a : J!OneCloser(a)' <=> J!OneCloser(a)
BY DEF J!OneCloser, J!Closes

LEMMA SidecarParts ==
  J!SidecarInv <=>
    /\ J!TypeOK /\ J!AdapterKnows /\ J!AskedOnce /\ J!ChangesAreKnown /\ J!OneConnect
    /\ J!RegisteredIsServed
BY DEF J!SidecarInv

(* Where an adapter has neither a connect nor a close under way, it knows. *)
LEMMA Knows ==
  ASSUME J!SidecarInv, NEW a \in Adapters, up, J!OneCloser(a),
         \A c \in JdbcCalls : of[c] = a => place[c] \notin Changing
  PROVE  connected[a] <=> a \in handles
BY DEF J!SidecarInv, J!AdapterKnows, J!WaitsFor, Changing

(* A connect finds no other connect, and no close where one call closes.   *)
LEMMA Alone ==
  ASSUME J!SidecarInv, NEW c \in JdbcCalls, NEW d \in JdbcCalls, c # d,
         of[c] = of[d], place[c] \in Changing, place[d] \in Changing
  PROVE  ~(up /\ J!OneCloser(of[c]))
<1> SUFFICES ASSUME up, J!OneCloser(of[c]) PROVE FALSE
  OBVIOUS
<1>0. J!OneConnect /\ J!TypeOK
  BY DEF J!SidecarInv
<1>1. ~(place[c] = "connect" /\ place[d] = "connect")
  BY <1>0 DEF J!OneConnect, J!WaitsFor
<1>2. ~(place[c] = "close" /\ place[d] = "close")
  BY <1>0 DEF J!OneConnect, J!WaitsFor, J!OneCloser
<1>3. Known1(c) /\ Known1(d)
  BY ChangesAreKnownIs DEF J!SidecarInv
<1>4. ~(place[c] = "connect" /\ place[d] = "close")
  BY <1>3 DEF Known1
<1>5. ~(place[c] = "close" /\ place[d] = "connect")
  BY <1>3 DEF Known1
<1> QED
  BY <1>1, <1>2, <1>4, <1>5 DEF Changing

LEMMA OfAdapter ==
  ASSUME J!SidecarInv, NEW c \in JdbcCalls, place[c] # "idle"
  PROVE  of[c] \in Adapters /\ of[c] # None /\ method[c] \in J!Methods /\ method[c] # None
BY JdbcAssumption DEF J!SidecarInv, J!OneConnect, J!TypeOK, J!SidecarAssumption

-----------------------------------------------------------------------------
LEMMA StartIs ==
  ASSUME J!SidecarInv, NEW c \in JdbcCalls, J!Start(c)
  PROVE  /\ place[c] = "idle" /\ of[c] = None
         /\ UNCHANGED <<connected, answers, serving, handles, statements, stopped, up>>
         /\ \E a \in Adapters, m \in J!Methods,
               next \in J!Paths \cup {"done", "waiting"} :
              /\ method' = [method EXCEPT ![c] = m] /\ of' = [of EXCEPT ![c] = a]
              /\ place' = [place EXCEPT ![c] = next]
              /\ next = "connect" => connecting[a] = None /\ ~connected[a]
              /\ next = "waiting" => connecting[a] # None
              /\ next = "close" =>
                   m \in {"test", "close"} /\ connected[a] /\ connecting[a] = None
              /\ requests' = requests \cup
                   (IF next \in {"waiting", "done"} THEN {} ELSE {J!Request(c, next)})
              /\ connecting' = IF next = "connect" THEN [connecting EXCEPT ![a] = c]
                               ELSE connecting
<1>0. J!TypeOK /\ J!OneConnect
  BY DEF J!SidecarInv
<1>1. place[c] = "idle" /\ of[c] = None
  BY <1>0 DEF J!OneConnect, J!Start
<1>2. PICK a \in Adapters, m \in J!Methods :
        /\ method' = [method EXCEPT ![c] = m] /\ of' = [of EXCEPT ![c] = a]
        /\ place' = [place EXCEPT ![c] = J!FirstPlace(a, m)]
        /\ requests' = requests \cup
             (IF J!FirstPlace(a, m) \in {"waiting", "done"} THEN {} ELSE J!Posted({c}, J!FirstPlace(a, m)))
        /\ connecting' = IF J!FirstPlace(a, m) = "connect" THEN [connecting EXCEPT ![a] = c]
                         ELSE connecting
  BY DEF J!Start
<1>3. connected[a] \in BOOLEAN
  BY <1>0 DEF J!TypeOK
<1>4. /\ J!FirstPlace(a, m) \in J!Paths \cup {"done", "waiting"}
      /\ J!FirstPlace(a, m) = "connect" => connecting[a] = None /\ ~connected[a]
      /\ J!FirstPlace(a, m) = "waiting" => connecting[a] # None
      /\ J!FirstPlace(a, m) = "close" =>
           m \in {"test", "close"} /\ connected[a] /\ connecting[a] = None
  <2>1. CASE m = "cancel"
    <3>1. J!FirstPlace(a, m) = "cancel"
      BY <2>1 DEF J!FirstPlace
    <3> QED
      BY <3>1 DEF J!Paths, J!Methods
  <2>2. CASE m # "cancel" /\ J!MustWait(a)
    <3>1. J!FirstPlace(a, m) = "waiting"
      BY <2>2 DEF J!FirstPlace
    <3> QED
      BY <2>2, <3>1 DEF J!MustWait
  <2>3. CASE m # "cancel" /\ ~J!MustWait(a) /\ connected[a]
    <3>1. J!FirstPlace(a, m) = J!AfterConnect(m, TRUE)
      BY <2>3 DEF J!FirstPlace
    <3>2. connecting[a] = None
      BY <2>3 DEF J!MustWait
    <3>3. J!AfterConnect(m, TRUE) = IF m \in {"test", "close"} THEN "close" ELSE m
      BY DEF J!AfterConnect
    <3> QED
      BY <2>3, <3>1, <3>2, <3>3 DEF J!Paths, J!Methods
  <2>4. CASE m # "cancel" /\ ~J!MustWait(a) /\ ~connected[a]
    <3>1. J!FirstPlace(a, m) = IF m = "close" THEN "done" ELSE "connect"
      BY <2>4 DEF J!FirstPlace
    <3> QED
      BY <2>4, <3>1 DEF J!MustWait, J!Paths
  <2> QED
    BY <1>3, <2>1, <2>2, <2>3, <2>4
<1>5. J!Posted({c}, J!FirstPlace(a, m)) = {J!Request(c, J!FirstPlace(a, m))}
  BY DEF J!Posted
<1>7. UNCHANGED <<connected, answers, serving, handles, statements, stopped, up>>
  BY DEF J!Start, J!sidecar
<1> QED
  BY <1>1, <1>2, <1>4, <1>5, <1>7

LEMMA JdbcStart ==
  ASSUME J!SidecarInv, NEW c \in JdbcCalls, J!Start(c)
  PROVE  J!SidecarInv'
<1>0. /\ J!TypeOK /\ J!AdapterKnows /\ J!AskedOnce /\ J!ChangesAreKnown /\ J!OneConnect
      /\ J!RegisteredIsServed
  BY DEF J!SidecarInv
<1>1. /\ place[c] = "idle" /\ of[c] = None
      /\ UNCHANGED <<connected, answers, serving, handles, statements, stopped, up>>
  BY StartIs
<1>2. PICK a \in Adapters, m \in J!Methods,
           next \in J!Paths \cup {"done", "waiting"} :
        /\ method' = [method EXCEPT ![c] = m] /\ of' = [of EXCEPT ![c] = a]
        /\ place' = [place EXCEPT ![c] = next]
        /\ next = "connect" => connecting[a] = None /\ ~connected[a]
        /\ next = "waiting" => connecting[a] # None
        /\ next = "close" => m \in {"test", "close"} /\ connected[a] /\ connecting[a] = None
        /\ requests' = requests \cup
             (IF next \in {"waiting", "done"} THEN {} ELSE {J!Request(c, next)})
        /\ connecting' = IF next = "connect" THEN [connecting EXCEPT ![a] = c]
                         ELSE connecting
  BY StartIs
<1>3. /\ method'[c] = m /\ of'[c] = a /\ place'[c] = next
      /\ \A d \in JdbcCalls : d # c =>
           method'[d] = method[d] /\ of'[d] = of[d] /\ place'[d] = place[d]
      /\ a # None /\ c # None /\ m # None /\ next # "idle"
  BY <1>0, <1>2, JdbcAssumption DEF J!TypeOK, J!SidecarAssumption, J!Paths, J!Methods
<1>4. \A d \in JdbcCalls, p \in Changing :
        /\ Rq(d, p)' <=> Rq(d, p) \/ (d = c /\ p = next)
        /\ Sv(d, p)' = Sv(d, p)
        /\ \A ok \in BOOLEAN : An(d, p, ok)' = An(d, p, ok)
  BY <1>1, <1>2, RequestsDiffer DEF Rq, Sv, An, Changing
<1>5. \A b \in Adapters : J!OneCloser(b)' => J!OneCloser(b)
  BY <1>1, <1>3, JdbcAssumption DEF J!OneCloser, J!Closes, J!SidecarAssumption
<1>6. J!OneCloser(a)' /\ next = "close" => \A d \in JdbcCalls : of[d] = a => ~J!Closes(d)
  BY <1>1, <1>2, <1>3 DEF J!OneCloser, J!Closes
<1>11. J!TypeOK'
  BY <1>0, <1>1, <1>2 DEF J!TypeOK, J!Request, J!Ended
<1>12. J!AskedOnce'
  <2>1. \A d \in JdbcCalls, p \in Changing :
          /\ Rq(d, p) \/ Sv(d, p) => place[d] = p
          /\ Rq(d, p) => ~Sv(d, p)
          /\ \A ok \in BOOLEAN : An(d, p, ok) =>
               place[d] = p /\ ~Rq(d, p) /\ ~Sv(d, p) /\ ~An(d, p, ~ok)
    BY <1>0, AskedOnceIs
  <2>2. \A p \in Changing :
          ~Rq(c, p) /\ ~Sv(c, p) /\ (\A ok \in BOOLEAN : ~An(c, p, ok))
    BY <1>1, <2>1 DEF Changing
  <2>3. \A d \in JdbcCalls, p \in Changing :
          /\ Rq(d, p)' \/ Sv(d, p)' => place'[d] = p
          /\ Rq(d, p)' => ~Sv(d, p)'
          /\ \A ok \in BOOLEAN : An(d, p, ok)' =>
               place'[d] = p /\ ~Rq(d, p)' /\ ~Sv(d, p)' /\ ~An(d, p, ~ok)'
    <3> SUFFICES ASSUME NEW d \in JdbcCalls, NEW p \in Changing
                 PROVE  /\ Rq(d, p)' \/ Sv(d, p)' => place'[d] = p
                        /\ Rq(d, p)' => ~Sv(d, p)'
                        /\ \A ok \in BOOLEAN : An(d, p, ok)' =>
                             place'[d] = p /\ ~Rq(d, p)' /\ ~Sv(d, p)' /\ ~An(d, p, ~ok)'
      OBVIOUS
    <3>1. CASE d = c
      <4>1. ~Sv(c, p)' /\ (\A ok \in BOOLEAN : ~An(c, p, ok)')
        BY <1>4, <2>2, Zenon
      <4>2. Rq(c, p)' => place'[c] = p
        BY <1>3, <1>4, <2>2, Zenon
      <4> QED
        BY <3>1, <4>1, <4>2
    <3>2. CASE d # c
      <4>1. (Rq(d, p)' <=> Rq(d, p)) /\ (Sv(d, p)' <=> Sv(d, p)) /\ place'[d] = place[d]
        BY <1>3, <1>4, <3>2
      <4>2. \A ok \in BOOLEAN : An(d, p, ok)' <=> An(d, p, ok)
        BY <1>4
      <4>3. \A ok \in BOOLEAN : (~ok) \in BOOLEAN
        OBVIOUS
      <4> QED
        BY <2>1, <4>1, <4>2, <4>3, Zenon
    <3> QED
      BY <3>1, <3>2
  <2>4. serving' # None => serving'.path \in {"connect", "query", "stream", "catalog"}
    BY <1>0, <1>1, AskedOnceIs
  <2> QED
    BY <2>3, <2>4, AskedOnceNext
<1>13. J!OneConnect'
  <2>1. ASSUME NEW d \in JdbcCalls, d # c
        PROVE  /\ place'[d] = "connect" <=> (of'[d] # None /\ connecting'[of'[d]] = d)
               /\ place'[d] = "waiting" => connecting'[of'[d]] # None
    <3>1. /\ place[d] = "connect" <=> (of[d] # None /\ connecting[of[d]] = d)
          /\ place[d] = "waiting" => connecting[of[d]] # None
          /\ place[d] = "idle" <=> of[d] = None
      BY <1>0 DEF J!OneConnect, J!WaitsFor
    <3>2. d # None /\ (of[d] # None => of[d] \in Adapters)
      BY <1>0, JdbcAssumption DEF J!TypeOK, J!SidecarAssumption
    <3> QED
      BY <1>0, <1>2, <1>3, <2>1, <3>1, <3>2 DEF J!TypeOK
  <2>2. /\ place'[c] = "connect" <=> (of'[c] # None /\ connecting'[of'[c]] = c)
        /\ place'[c] = "waiting" => connecting'[of'[c]] # None
    <3>1. connecting[a] # c
      BY <1>0, <1>1, <1>3 DEF J!OneConnect
    <3> QED
      BY <1>0, <1>2, <1>3, <3>1 DEF J!TypeOK
  <2>3. ASSUME NEW d \in JdbcCalls
        PROVE  /\ place'[d] = "idle" <=> of'[d] = None
               /\ of'[d] = None <=> method'[d] = None
               /\ place'[d] = "close" => method'[d] \in {"test", "close"}
    BY <1>0, <1>2, <1>3 DEF J!OneConnect, J!WaitsFor, J!Closes
  <2>4. ASSUME NEW b \in Adapters, connecting'[b] # None
        PROVE  of'[connecting'[b]] = b
    <3>1. connecting[b] # None =>
            of[connecting[b]] = b /\ connecting[b] \in JdbcCalls /\ connecting[b] # c
      BY <1>0, <1>1, JdbcAssumption DEF J!OneConnect, J!TypeOK, J!SidecarAssumption
    <3> QED
      BY <1>0, <1>2, <1>3, <2>4, <3>1 DEF J!TypeOK
  <2> QED
    BY <2>1, <2>2, <2>3, <2>4 DEF J!OneConnect, J!WaitsFor, J!Closes
<1>14. J!AdapterKnows'
  <2> SUFFICES ASSUME NEW b \in Adapters, up', J!OneCloser(b)'
               PROVE  \/ connected'[b] <=> b \in handles'
                      \/ \E d \in JdbcCalls :
                           of'[d] = b /\ (place'[d] = "close" \/ place'[d] = "connect")
    BY DEF J!AdapterKnows, J!WaitsFor
  <2>1. CASE connected[b] <=> b \in handles
    BY <1>1, <2>1
  <2>2. CASE \E d \in JdbcCalls : of[d] = b /\ (place[d] = "close" \/ place[d] = "connect")
    BY <1>1, <1>3, <2>2
  <2> QED
    BY <1>0, <1>1, <1>5, <2>1, <2>2 DEF J!AdapterKnows, J!WaitsFor
<1>15. J!ChangesAreKnown'
  <2>1. ASSUME NEW d \in JdbcCalls, d # c PROVE Known1(d)'
    <3>1. Known1(d)
      BY <1>0, ChangesAreKnownIs
    <3>2. place[d] \in Changing => of[d] \in Adapters
      BY OfAdapter DEF Changing
    <3> QED
      BY <1>1, <1>3, <1>4, <1>5, <2>1, <3>1, <3>2 DEF Known1, Changing
  <2>2. Known1(c)'
    <3>1. \A p \in Changing : \A ok \in BOOLEAN : ~An(c, p, ok)'
      BY <1>0, <1>1, <1>4, AskedOnceIs DEF Changing
    <3>2. ASSUME up, J!OneCloser(a)', next \in Changing
          PROVE  connected[a] <=> a \in handles
      <4>1. ASSUME NEW d \in JdbcCalls, of[d] = a PROVE place[d] \notin Changing
        <5>1. Known1(d) /\ d # c
          BY <1>0, <1>1, <1>3, <4>1, ChangesAreKnownIs
        <5>2. place[d] # "connect"
          BY <1>0, <1>2, <1>3, <3>2, <4>1, JdbcAssumption
             DEF J!OneConnect, J!WaitsFor, Changing, J!SidecarAssumption
        <5>3. CASE next = "close"
          <6>1. place[d] # "close"
            BY <1>0, <1>6, <3>2, <4>1, <5>3 DEF J!OneConnect, J!WaitsFor
          <6> QED
            BY <5>2, <6>1 DEF Changing
        <5>4. CASE next = "connect"
          BY <1>2, <1>5, <3>2, <4>1, <5>1, <5>2, <5>4 DEF Known1, Changing
        <5> QED
          BY <3>2, <5>3, <5>4 DEF Changing
      <4> QED
        BY <1>5, <3>2, <4>1, Knows
    <3>3. /\ next = "connect" => ~connected'[a]
          /\ up' /\ J!OneCloser(a)' /\ next = "connect" => a \notin handles'
          /\ up' /\ J!OneCloser(a)' /\ next = "close" => connected'[a] /\ a \in handles'
      BY <1>1, <1>2, <3>2 DEF Changing
    <3> QED
      BY <1>3, <3>1, <3>3 DEF Known1, Changing
  <2> QED
    BY <2>1, <2>2, ChangesAreKnownNext
<1>16. J!RegisteredIsServed'
  <2> SUFFICES ASSUME NEW b \in Adapters, statements[b] # None
               PROVE  serving = J!Request(statements[b], "stream") /\ of'[statements[b]] = b
    BY <1>0, <1>1 DEF J!RegisteredIsServed, J!Request
  <2>1. serving = J!Request(statements[b], "stream") /\ of[statements[b]] = b
        /\ statements[b] \in JdbcCalls
    BY <1>0 DEF J!RegisteredIsServed, J!TypeOK
  <2>2. statements[b] # c
    BY <1>1, <2>1, JdbcAssumption DEF J!SidecarAssumption
  <2> QED
    BY <1>3, <2>1, <2>2
<1> QED
  BY <1>11, <1>12, <1>13, <1>14, <1>15, <1>16 DEF J!SidecarInv

(* A step of the sidecar, or of nobody's answer, moves no call.            *)
LEMMA ServerStep ==
  ASSUME J!SidecarInv, J!TypeOK', J!RegisteredIsServed',
         UNCHANGED <<method, of, place, connected, connecting>>, up' => up,
         serving' # None => serving'.path \in {"connect", "query", "stream", "catalog"},
         \A c \in JdbcCalls, p \in Changing :
           /\ Rq(c, p)' \/ Sv(c, p)' => Rq(c, p) \/ Sv(c, p)
           /\ Rq(c, p)' => ~Sv(c, p)'
           /\ \A ok \in BOOLEAN : An(c, p, ok)' =>
                (Rq(c, p) \/ Sv(c, p) \/ An(c, p, ok)) /\ ~Rq(c, p)' /\ ~Sv(c, p)'
                  /\ ~An(c, p, ~ok)',
         \A a \in Adapters : up' /\ J!OneCloser(a) /\ ~(a \in handles' <=> a \in handles) =>
           \E c \in JdbcCalls : of[c] = a /\ place[c] \in Changing,
         \A c \in JdbcCalls : Known1(c)'
  PROVE  J!SidecarInv'
<1>0. /\ J!TypeOK /\ J!AdapterKnows /\ J!AskedOnce /\ J!ChangesAreKnown /\ J!OneConnect
      /\ J!RegisteredIsServed
  BY DEF J!SidecarInv
<1>1. J!AskedOnce'
  <2>1. ASSUME NEW c \in JdbcCalls, NEW p \in Changing
        PROVE  /\ Rq(c, p)' \/ Sv(c, p)' => place'[c] = p
               /\ \A ok \in BOOLEAN : An(c, p, ok)' => place'[c] = p
    BY <1>0, AskedOnceIs
  <2> QED
    BY <2>1, AskedOnceNext
<1>2. J!OneConnect'
  BY <1>0 DEF J!OneConnect, J!WaitsFor, J!Closes
<1>3. J!ChangesAreKnown'
  BY ChangesAreKnownNext
<1>4. J!AdapterKnows'
  BY <1>0, OneCloserSame DEF J!AdapterKnows, J!WaitsFor, Changing
<1> QED
  BY <1>1, <1>2, <1>3, <1>4 DEF J!SidecarInv

LEMMA OnceEach ==
  ASSUME J!SidecarInv, NEW c \in JdbcCalls, NEW p \in Changing
  PROVE  /\ Rq(c, p) \/ Sv(c, p) => place[c] = p
         /\ Rq(c, p) => ~Sv(c, p)
         /\ \A ok \in BOOLEAN : An(c, p, ok) =>
              place[c] = p /\ ~Rq(c, p) /\ ~Sv(c, p) /\ ~An(c, p, ~ok)
BY AskedOnceIs DEF J!SidecarInv

LEMMA Untouched ==
  ASSUME J!SidecarInv, NEW c \in JdbcCalls, NEW p \in Changing,
         Rq(c, p)' <=> Rq(c, p), Sv(c, p)' <=> Sv(c, p),
         \A k \in BOOLEAN : An(c, p, k)' <=> An(c, p, k)
  PROVE  /\ Rq(c, p)' \/ Sv(c, p)' => Rq(c, p) \/ Sv(c, p)
         /\ Rq(c, p)' => ~Sv(c, p)'
         /\ \A ok \in BOOLEAN : An(c, p, ok)' =>
              (Rq(c, p) \/ Sv(c, p) \/ An(c, p, ok)) /\ ~Rq(c, p)' /\ ~Sv(c, p)'
                /\ ~An(c, p, ~ok)'
<1>1. \A ok \in BOOLEAN : (~ok) \in BOOLEAN
  OBVIOUS
<1> QED
  BY <1>1, OnceEach, Zenon

LEMMA JdbcRefused ==
  ASSUME J!SidecarInv, NEW r \in requests, J!Refused(r)
  PROVE  J!SidecarInv'
<1>0. /\ J!TypeOK /\ J!AskedOnce /\ J!RegisteredIsServed
      /\ r.call \in JdbcCalls /\ r.path \in J!Paths /\ r = J!Request(r.call, r.path)
      /\ J!Answer(r, FALSE) \in [call : JdbcCalls, path : J!Paths, ok : BOOLEAN]
  BY MessagesAre DEF J!SidecarInv, J!Answer
<1>1. /\ requests' = requests \ {r} /\ answers' = answers \cup {J!Answer(r, FALSE)}
      /\ UNCHANGED <<method, of, place, connected, connecting>>
      /\ UNCHANGED <<serving, handles, statements, stopped, up>>
      /\ r.path \in Changing => ~up
  BY DEF J!Refused, J!Reply, J!sidecar, Changing
<1>2. \A c \in JdbcCalls, p \in Changing :
        /\ Rq(c, p)' <=> Rq(c, p) /\ ~(c = r.call /\ p = r.path)
        /\ Sv(c, p)' <=> Sv(c, p)
        /\ \A k \in BOOLEAN : An(c, p, k)' <=> An(c, p, k) \/ (c = r.call /\ p = r.path /\ k = FALSE)
  <2>1. \A c \in JdbcCalls, p \in Changing :
          Rq(c, p)' <=> Rq(c, p) /\ ~(c = r.call /\ p = r.path)
    BY <1>0, <1>1, RequestTaken
  <2>2. \A c \in JdbcCalls, p \in Changing, k \in BOOLEAN :
          An(c, p, k)' <=> An(c, p, k) \/ (c = r.call /\ p = r.path /\ k = FALSE)
    <3> DEFINE no == FALSE
    <3>1. no \in BOOLEAN /\ answers' = answers \cup {J!Answer(r, no)}
      BY <1>1
    <3> HIDE DEF no
    <3>2. \A c \in JdbcCalls, p \in Changing, k \in BOOLEAN :
            An(c, p, k)' <=> An(c, p, k) \/ (c = r.call /\ p = r.path /\ k = no)
      BY <1>0, <3>1, AnswerGiven
    <3> QED
      BY <3>2 DEF no
  <2> QED
    BY <1>1, <2>1, <2>2 DEF Sv
<1>3. r.path \in Changing => Rq(r.call, r.path)
  BY <1>0 DEF Rq
<1>4. J!TypeOK'
  BY <1>0, <1>1 DEF J!TypeOK
<1>5. J!RegisteredIsServed'
  BY <1>0, <1>1 DEF J!RegisteredIsServed, J!Request
<1>6. ASSUME NEW c \in JdbcCalls, NEW p \in Changing
      PROVE  /\ Rq(c, p)' \/ Sv(c, p)' => Rq(c, p) \/ Sv(c, p)
             /\ Rq(c, p)' => ~Sv(c, p)'
             /\ \A ok \in BOOLEAN : An(c, p, ok)' =>
                  (Rq(c, p) \/ Sv(c, p) \/ An(c, p, ok)) /\ ~Rq(c, p)' /\ ~Sv(c, p)'
                    /\ ~An(c, p, ~ok)'
  <2>1. CASE c = r.call /\ p = r.path
    BY <1>2, <1>3, <2>1, OnceEach
  <2>2. CASE ~(c = r.call /\ p = r.path)
    BY <1>2, <2>2, Untouched
  <2> QED
    BY <2>1, <2>2
<1>7. ASSUME NEW c \in JdbcCalls PROVE Known1(c)'
  <2>1. Known1(c) /\ (J!OneCloser(of[c])' <=> J!OneCloser(of[c]))
    BY <1>1, ChangesAreKnownIs, OneCloserSame DEF J!SidecarInv
  <2>2. CASE ~up
    BY <1>1, <2>1, <2>2 DEF Known1
  <2>3. CASE up
    <3>1. \A p \in Changing : /\ (Rq(c, p)' <=> Rq(c, p)) /\ (Sv(c, p)' <=> Sv(c, p))
                              /\ \A k \in BOOLEAN : An(c, p, k)' <=> An(c, p, k)
      BY <1>1, <1>2, <2>3
    <3> QED
      BY <1>1, <2>1, <3>1 DEF Known1, Changing
  <2> QED
    BY <2>2, <2>3
<1> QED
  BY <1>0, <1>1, <1>4, <1>5, <1>6, <1>7, ServerStep DEF J!AskedOnce

LEMMA JdbcTake ==
  ASSUME J!SidecarInv, NEW r \in requests, J!Take(r)
  PROVE  J!SidecarInv'
<1>0. /\ J!TypeOK /\ J!AskedOnce /\ J!RegisteredIsServed
      /\ r.call \in JdbcCalls /\ r.path \in J!Paths /\ r = J!Request(r.call, r.path)
      /\ r # None
  BY MessagesAre DEF J!SidecarInv
<1>1. /\ requests' = requests \ {r} /\ serving = None /\ serving' = r
      /\ r.path \in {"connect", "query", "stream", "catalog"}
      /\ UNCHANGED <<method, of, place, connected, connecting>>
      /\ UNCHANGED <<answers, handles, stopped, up>>
  BY DEF J!Take
<1>2. \A c \in JdbcCalls, p \in Changing :
        /\ Rq(c, p)' <=> Rq(c, p) /\ ~(c = r.call /\ p = r.path)
        /\ ~Sv(c, p)
        /\ Sv(c, p)' <=> c = r.call /\ p = r.path
        /\ \A k \in BOOLEAN : An(c, p, k)' <=> An(c, p, k)
  <2>1. ASSUME NEW c \in JdbcCalls, NEW p \in Changing
        PROVE  ~Sv(c, p) /\ (Sv(c, p)' <=> c = r.call /\ p = r.path)
    <3>1. p \in J!Paths
      BY DEF Changing, J!Paths, J!Methods
    <3>2. J!Request(c, p) # None /\ (J!Request(c, p) = r <=> c = r.call /\ p = r.path)
      BY <1>0, <3>1, MessagesAre, RequestsDiffer
    <3> QED
      BY <1>1, <3>2 DEF Sv
  <2> QED
    BY <1>0, <1>1, <2>1, RequestTaken DEF An
<1>3. r.path \in Changing => Rq(r.call, r.path)
  BY <1>0 DEF Rq
<1>4. J!TypeOK'
  BY <1>0, <1>1 DEF J!TypeOK, J!Take
<1>5. J!RegisteredIsServed'
  <2>1. \A a \in Adapters : statements[a] = None
    BY <1>0, <1>1, MessagesAre DEF J!RegisteredIsServed, J!TypeOK, J!Paths, J!Methods
  <2>2. of[r.call] \in Adapters
    <3>1. r.path \in {"query", "stream", "catalog"} => of[r.call] \in Adapters
      BY <1>0, <1>1 DEF J!Take, J!TypeOK
    <3>2. r.path = "connect" => of[r.call] \in Adapters
      BY <1>0, <1>3, OnceEach, OfAdapter DEF Changing
    <3> QED
      BY <1>1, <3>1, <3>2
  <2>3. ASSUME NEW a \in Adapters, statements'[a] # None
        PROVE  r.path = "stream" /\ statements'[a] = r.call /\ of[r.call] = a
    BY <1>0, <2>1, <2>2, <2>3 DEF J!Take, J!TypeOK
  <2> QED
    BY <1>0, <1>1, <2>3 DEF J!RegisteredIsServed, J!Request
<1>6. ASSUME NEW c \in JdbcCalls, NEW p \in Changing
      PROVE  /\ Rq(c, p)' \/ Sv(c, p)' => Rq(c, p) \/ Sv(c, p)
             /\ Rq(c, p)' => ~Sv(c, p)'
             /\ \A ok \in BOOLEAN : An(c, p, ok)' =>
                  (Rq(c, p) \/ Sv(c, p) \/ An(c, p, ok)) /\ ~Rq(c, p)' /\ ~Sv(c, p)'
                    /\ ~An(c, p, ~ok)'
  <2>1. CASE c = r.call /\ p = r.path
    BY <1>2, <1>3, <2>1, OnceEach
  <2>2. CASE ~(c = r.call /\ p = r.path)
    BY <1>2, <2>2, Untouched
  <2> QED
    BY <2>1, <2>2
<1>7. ASSUME NEW c \in JdbcCalls PROVE Known1(c)'
  <2>1. Known1(c) /\ (J!OneCloser(of[c])' <=> J!OneCloser(of[c]))
    BY <1>1, ChangesAreKnownIs, OneCloserSame DEF J!SidecarInv
  <2>2. \A p \in Changing : /\ Rq(c, p)' \/ Sv(c, p)' => Rq(c, p) \/ Sv(c, p)
                            /\ \A k \in BOOLEAN : An(c, p, k)' <=> An(c, p, k)
    BY <1>2, <1>6
  <2> QED
    BY <1>1, <2>1, <2>2 DEF Known1, Changing
<1> QED
  BY <1>0, <1>1, <1>4, <1>5, <1>6, <1>7, ServerStep

LEMMA JdbcTakeShort ==
  ASSUME J!SidecarInv, NEW r \in requests, J!TakeShort(r)
  PROVE  J!SidecarInv'
<1> DEFINE yes == TRUE
           a == of[r.call]
<1>0. /\ J!TypeOK /\ J!AskedOnce /\ J!RegisteredIsServed
      /\ r.call \in JdbcCalls /\ r.path \in J!Paths /\ r = J!Request(r.call, r.path)
      /\ J!Answer(r, TRUE) \in [call : JdbcCalls, path : J!Paths, ok : BOOLEAN]
  BY MessagesAre DEF J!SidecarInv, J!Answer
<1>1. /\ requests' = requests \ {r} /\ answers' = answers \cup {J!Answer(r, yes)}
      /\ serving = None /\ r.path \in {"cancel", "close"} /\ up
      /\ UNCHANGED <<method, of, place, connected, connecting>>
      /\ UNCHANGED <<serving, up>>
      /\ stopped' = stopped \cup ({statements[a]} \ {None})
      /\ statements' = IF r.path = "close" THEN [statements EXCEPT ![a] = None] ELSE statements
      /\ handles' = IF r.path = "close" THEN handles \ {a} ELSE handles
      /\ yes \in BOOLEAN
  BY DEF J!TakeShort, J!Reply
<1> HIDE DEF yes, a
<1>2. \A c \in JdbcCalls, p \in Changing :
        /\ Rq(c, p)' <=> Rq(c, p) /\ ~(c = r.call /\ p = r.path)
        /\ Sv(c, p)' <=> Sv(c, p)
        /\ \A k \in BOOLEAN : An(c, p, k)' <=> An(c, p, k) \/ (c = r.call /\ p = r.path /\ k = yes)
  <2>1. \A c \in JdbcCalls, p \in Changing :
          Rq(c, p)' <=> Rq(c, p) /\ ~(c = r.call /\ p = r.path)
    BY <1>0, <1>1, RequestTaken
  <2>2. \A c \in JdbcCalls, p \in Changing, k \in BOOLEAN :
          An(c, p, k)' <=> An(c, p, k) \/ (c = r.call /\ p = r.path /\ k = yes)
    BY <1>0, <1>1, AnswerGiven
  <2> QED
    BY <1>1, <2>1, <2>2 DEF Sv
<1>3. r.path = "close" => Rq(r.call, "close") /\ place[r.call] = "close"
  BY <1>0, OnceEach DEF Rq, Changing
<1>31. a \in Adapters
  BY <1>0 DEF J!TypeOK, a
<1>32. \A b \in Adapters : statements[b] = None
  <2>1. \A c \in JdbcCalls : J!Request(c, "stream") # None
    BY <1>0, MessagesAre DEF J!Paths, J!Methods
  <2> QED
    BY <1>0, <1>1, <2>1 DEF J!RegisteredIsServed, J!TypeOK
<1>33. /\ \A b \in Adapters : statements'[b] = None
       /\ statements' \in [Adapters -> JdbcCalls \cup {None}]
  BY <1>0, <1>1, <1>32 DEF J!TypeOK
<1>34. stopped' = {}
  BY <1>0, <1>1, <1>31, <1>32 DEF J!RegisteredIsServed
<1>4. J!TypeOK'
  BY <1>0, <1>1, <1>33, <1>34 DEF J!TypeOK, yes
<1>5. J!RegisteredIsServed'
  BY <1>0, <1>1, <1>33, <1>34 DEF J!RegisteredIsServed
<1>6. ASSUME NEW c \in JdbcCalls, NEW p \in Changing
      PROVE  /\ Rq(c, p)' \/ Sv(c, p)' => Rq(c, p) \/ Sv(c, p)
             /\ Rq(c, p)' => ~Sv(c, p)'
             /\ \A ok \in BOOLEAN : An(c, p, ok)' =>
                  (Rq(c, p) \/ Sv(c, p) \/ An(c, p, ok)) /\ ~Rq(c, p)' /\ ~Sv(c, p)'
                    /\ ~An(c, p, ~ok)'
  <2>1. CASE c = r.call /\ p = r.path
    BY <1>1, <1>2, <1>3, <2>1, OnceEach DEF Changing
  <2>2. CASE ~(c = r.call /\ p = r.path)
    BY <1>2, <2>2, Untouched
  <2> QED
    BY <2>1, <2>2
<1>7. ASSUME NEW c \in JdbcCalls PROVE Known1(c)'
  <2>1. Known1(c) /\ (J!OneCloser(of[c])' <=> J!OneCloser(of[c]))
    BY <1>1, ChangesAreKnownIs, OneCloserSame DEF J!SidecarInv
  <2>2. CASE c = r.call /\ r.path = "close"
    <3>1. /\ ~Rq(c, "close")' /\ ~Sv(c, "close")' /\ place'[c] = "close"
          /\ \A k \in BOOLEAN : An(c, "close", k)' => k = yes
          /\ of'[c] \notin handles'
      BY <1>1, <1>2, <1>3, <1>6, <2>2, OnceEach DEF Changing, a
    <3> QED
      BY <1>1, <2>1, <3>1 DEF Known1, yes
  <2>3. CASE c # r.call /\ r.path = "close" /\ of[c] = a /\ place[c] \in Changing
    <3>1. ~(up /\ J!OneCloser(of[c]))
      BY <1>0, <1>3, <2>3, Alone DEF Changing, a
    <3> QED
      BY <1>1, <2>1, <3>1 DEF Known1
  <2>4. CASE r.path # "close" \/ (c # r.call /\ (of[c] # a \/ place[c] \notin Changing))
    <3>1. \A p \in Changing : /\ (Rq(c, p)' <=> Rq(c, p)) /\ (Sv(c, p)' <=> Sv(c, p))
                              /\ \A k \in BOOLEAN : An(c, p, k)' <=> An(c, p, k)
      BY <1>1, <1>2, <2>4 DEF Changing
    <3>2. place[c] \in Changing => (of[c] \in handles' <=> of[c] \in handles)
      BY <1>1, <2>4 DEF a
    <3> QED
      BY <1>1, <2>1, <3>1, <3>2 DEF Known1, Changing
  <2> QED
    BY <2>2, <2>3, <2>4
<1>8. ASSUME NEW b \in Adapters, ~(b \in handles' <=> b \in handles)
      PROVE  \E c \in JdbcCalls : of[c] = b /\ place[c] \in Changing
  BY <1>0, <1>1, <1>3, <1>8 DEF a, Changing
<1> QED
  BY <1>0, <1>1, <1>4, <1>5, <1>6, <1>7, <1>8, ServerStep DEF J!AskedOnce

LEMMA JdbcDatabaseAnswers ==
  ASSUME J!SidecarInv, J!DatabaseAnswers
  PROVE  J!SidecarInv'
<1> DEFINE c == serving.call
           p == serving.path
<1>0. /\ J!TypeOK /\ J!AskedOnce /\ J!RegisteredIsServed /\ serving # None
      /\ c \in JdbcCalls /\ p \in J!Paths /\ serving = J!Request(c, p)
      /\ p \in {"connect", "query", "stream", "catalog"}
  BY MessagesAre DEF J!SidecarInv, J!DatabaseAnswers, J!AskedOnce
<1>1. PICK ok \in BOOLEAN :
        /\ serving' = None /\ answers' = answers \cup {J!Answer(serving, ok)}
        /\ statements' = [statements EXCEPT ![of[c]] = None]
        /\ handles' = IF ok /\ p = "connect" THEN handles \cup {of[c]} ELSE handles
        /\ UNCHANGED <<method, of, place, connected, connecting>>
        /\ UNCHANGED <<requests, stopped, up>>
  BY DEF J!DatabaseAnswers, J!Finish, J!Reply
<1>2. J!Answer(serving, ok) \in [call : JdbcCalls, path : J!Paths, ok : BOOLEAN]
  BY <1>0 DEF J!Answer
<1>3. \A d \in JdbcCalls, q \in Changing :
        /\ Rq(d, q)' <=> Rq(d, q)
        /\ Sv(d, q) <=> d = c /\ q = p
        /\ ~Sv(d, q)'
        /\ \A k \in BOOLEAN : An(d, q, k)' <=> An(d, q, k) \/ (d = c /\ q = p /\ k = ok)
  <2>1. \A d \in JdbcCalls, q \in Changing : Sv(d, q) <=> d = c /\ q = p
    BY <1>0, RequestsDiffer DEF Sv
  <2>2. \A d \in JdbcCalls, q \in Changing : ~Sv(d, q)'
    BY <1>0, <1>1, MessagesAre DEF Sv, Changing, J!Paths, J!Methods
  <2>3. \A d \in JdbcCalls, q \in Changing, k \in BOOLEAN :
          An(d, q, k)' <=> An(d, q, k) \/ (d = c /\ q = p /\ k = ok)
    BY <1>0, <1>1, AnswerGiven
  <2> QED
    BY <1>1, <2>1, <2>2, <2>3 DEF Rq
<1> HIDE DEF c, p
<1>31. p = "connect" => Sv(c, "connect") /\ place[c] = "connect" /\ of[c] \in Adapters
  BY <1>0, <1>3, OnceEach, OfAdapter DEF Changing
<1>4. J!TypeOK'
  <2>1. statements' \in [Adapters -> JdbcCalls \cup {None}]
    BY <1>0, <1>1 DEF J!TypeOK
  <2>2. handles' \subseteq Adapters
    BY <1>0, <1>1, <1>31 DEF J!TypeOK
  <2> QED
    BY <1>0, <1>1, <1>2, <2>1, <2>2 DEF J!TypeOK
<1>5. J!RegisteredIsServed'
  <2> SUFFICES ASSUME NEW b \in Adapters, statements'[b] # None PROVE FALSE
    BY <1>0, <1>1 DEF J!RegisteredIsServed
  <2>1. statements[b] # None /\ b # of[c]
    BY <1>0, <1>1 DEF J!TypeOK
  <2>2. serving = J!Request(statements[b], "stream") /\ of[statements[b]] = b
    BY <1>0, <2>1 DEF J!RegisteredIsServed
  <2>3. statements[b] = c
    BY <2>2, RequestsDiffer DEF c
  <2> QED
    BY <2>1, <2>2, <2>3
<1>6. ASSUME NEW d \in JdbcCalls, NEW q \in Changing
      PROVE  /\ Rq(d, q)' \/ Sv(d, q)' => Rq(d, q) \/ Sv(d, q)
             /\ Rq(d, q)' => ~Sv(d, q)'
             /\ \A k \in BOOLEAN : An(d, q, k)' =>
                  (Rq(d, q) \/ Sv(d, q) \/ An(d, q, k)) /\ ~Rq(d, q)' /\ ~Sv(d, q)'
                    /\ ~An(d, q, ~k)'
  <2>1. CASE d = c /\ q = p
    <3>1. Sv(d, q) /\ ~Rq(d, q) /\ (\A k \in BOOLEAN : ~An(d, q, k))
      BY <1>3, <2>1, OnceEach
    <3> QED
      BY <1>3, <2>1, <3>1
  <2>2. CASE ~(d = c /\ q = p)
    BY <1>3, <2>2, Untouched
  <2> QED
    BY <2>1, <2>2
<1>7. ASSUME NEW d \in JdbcCalls PROVE Known1(d)'
  <2>1. Known1(d) /\ (J!OneCloser(of[d])' <=> J!OneCloser(of[d]))
    BY <1>1, ChangesAreKnownIs, OneCloserSame DEF J!SidecarInv
  <2>2. CASE d = c /\ p = "connect"
    <3>1. /\ ~Rq(d, "connect")' /\ ~Sv(d, "connect")' /\ place[d] = "connect"
          /\ \A k \in BOOLEAN : An(d, "connect", k)' => k = ok
      <4>1. Sv(d, "connect") /\ ~Rq(d, "connect")
              /\ (\A k \in BOOLEAN : ~An(d, "connect", k))
        BY <1>31, <2>2, OnceEach DEF Changing
      <4> QED
        BY <1>3, <1>31, <2>2, <4>1 DEF Changing
    <3>2. up /\ J!OneCloser(of[d]) => of[d] \notin handles
      BY <1>31, <2>1, <2>2 DEF Known1
    <3>3. up /\ J!OneCloser(of[d]) => (ok <=> of[d] \in handles')
      BY <1>1, <2>2, <3>2
    <3> QED
      BY <1>1, <2>1, <3>1, <3>3 DEF Known1
  <2>3. CASE d # c /\ p = "connect" /\ of[d] = of[c] /\ place[d] \in Changing
    <3>1. ~(up /\ J!OneCloser(of[d]))
      BY <1>0, <1>31, <2>3, Alone DEF Changing
    <3> QED
      BY <1>1, <2>1, <3>1 DEF Known1
  <2>4. CASE p # "connect" \/ (d # c /\ (of[d] # of[c] \/ place[d] \notin Changing))
    <3>1. \A q \in Changing : /\ (Rq(d, q)' <=> Rq(d, q))
                              /\ Sv(d, q)' => Sv(d, q)
                              /\ \A k \in BOOLEAN : An(d, q, k)' <=> An(d, q, k)
      BY <1>0, <1>3, <2>4 DEF Changing
    <3>2. place[d] \in Changing => (of[d] \in handles' <=> of[d] \in handles)
      BY <1>1, <2>4
    <3> QED
      BY <1>1, <2>1, <3>1, <3>2 DEF Known1, Changing
  <2> QED
    BY <2>2, <2>3, <2>4
<1>8. ASSUME NEW b \in Adapters, ~(b \in handles' <=> b \in handles)
      PROVE  \E d \in JdbcCalls : of[d] = b /\ place[d] \in Changing
  BY <1>0, <1>1, <1>31, <1>8 DEF Changing
<1> QED
  BY <1>0, <1>1, <1>4, <1>5, <1>6, <1>7, <1>8, ServerStep

LEMMA JdbcSidecarDies ==
  ASSUME J!SidecarInv, J!SidecarDies
  PROVE  J!SidecarInv'
<1>0. /\ J!TypeOK /\ J!AskedOnce /\ J!RegisteredIsServed
  BY DEF J!SidecarInv
<1>1. /\ up /\ up' = FALSE /\ serving' = None /\ handles' = {}
      /\ statements' = [a \in Adapters |-> None]
      /\ answers' = answers \cup {J!Answer(r, FALSE) : r \in {serving} \ {None}}
      /\ UNCHANGED <<method, of, place, connected, connecting>>
      /\ UNCHANGED <<requests, stopped>>
  BY DEF J!SidecarDies
<1> DEFINE no == FALSE
<1>2. \A d \in JdbcCalls, q \in Changing :
        /\ Rq(d, q)' <=> Rq(d, q)
        /\ ~Sv(d, q)'
        /\ \A k \in BOOLEAN : An(d, q, k)' <=> An(d, q, k) \/ (Sv(d, q) /\ k = no)
  <2>0. \A d \in JdbcCalls, q \in Changing : J!Request(d, q) # None
    BY <1>0, MessagesAre DEF Changing, J!Paths, J!Methods
  <2>1. CASE serving = None
    <3>1. answers' = answers
      BY <1>1, <2>1
    <3> QED
      BY <1>1, <2>0, <2>1, <3>1 DEF Rq, Sv, An
  <2>2. CASE serving # None
    <3>1. answers' = answers \cup {J!Answer(serving, no)} /\ no \in BOOLEAN
      BY <1>1, <2>2
    <3>2. serving = J!Request(serving.call, serving.path)
      BY <1>0, <2>2, MessagesAre
    <3> HIDE DEF no
    <3>3. \A d \in JdbcCalls, q \in Changing, k \in BOOLEAN :
            An(d, q, k)' <=> An(d, q, k) \/ (d = serving.call /\ q = serving.path /\ k = no)
      BY <1>0, <3>1, <3>2, AnswerGiven
    <3>4. \A d \in JdbcCalls, q \in Changing :
            Sv(d, q) <=> d = serving.call /\ q = serving.path
      BY <3>2, RequestsDiffer DEF Sv
    <3> QED
      BY <1>1, <2>0, <3>3, <3>4 DEF Rq, Sv
  <2> QED
    BY <2>1, <2>2
<1> HIDE DEF no
<1>4. J!TypeOK'
  <2>1. \A r \in {serving} \ {None} :
          J!Answer(r, FALSE) \in [call : JdbcCalls, path : J!Paths, ok : BOOLEAN]
    BY <1>0, MessagesAre DEF J!Answer
  <2>2. answers' \subseteq [call : JdbcCalls, path : J!Paths, ok : BOOLEAN]
    <3>1. answers \subseteq [call : JdbcCalls, path : J!Paths, ok : BOOLEAN]
      BY <1>0 DEF J!TypeOK
    <3> QED
      BY <1>1, <2>1, <3>1
  <2>3. statements' \in [Adapters -> JdbcCalls \cup {None}] /\ handles' \subseteq Adapters
    BY <1>1
  <2>4. up' \in BOOLEAN /\ serving' \in [call : JdbcCalls, path : J!Paths] \cup {None}
    BY <1>1
  <2> QED
    BY <1>0, <1>1, <2>2, <2>3, <2>4 DEF J!TypeOK
<1>5. J!RegisteredIsServed'
  BY <1>0, <1>1 DEF J!RegisteredIsServed
<1>6. ASSUME NEW d \in JdbcCalls, NEW q \in Changing
      PROVE  /\ Rq(d, q)' \/ Sv(d, q)' => Rq(d, q) \/ Sv(d, q)
             /\ Rq(d, q)' => ~Sv(d, q)'
             /\ \A k \in BOOLEAN : An(d, q, k)' =>
                  (Rq(d, q) \/ Sv(d, q) \/ An(d, q, k)) /\ ~Rq(d, q)' /\ ~Sv(d, q)'
                    /\ ~An(d, q, ~k)'
  <2>1. CASE Sv(d, q)
    <3>1. ~Rq(d, q) /\ (\A k \in BOOLEAN : ~An(d, q, k))
      BY <2>1, OnceEach
    <3> QED
      BY <1>2, <2>1, <3>1
  <2>2. CASE ~Sv(d, q)
    <3>1. \A k \in BOOLEAN : An(d, q, k)' <=> An(d, q, k)
      BY <1>2, <2>2
    <3>2. (Rq(d, q)' <=> Rq(d, q)) /\ (Sv(d, q)' <=> Sv(d, q))
      BY <1>2, <2>2
    <3> QED
      BY <3>1, <3>2, Untouched
  <2> QED
    BY <2>1, <2>2
<1>7. ASSUME NEW d \in JdbcCalls PROVE Known1(d)'
  <2>1. Known1(d)
    BY ChangesAreKnownIs DEF J!SidecarInv
  <2> QED
    BY <1>1, <2>1 DEF Known1
<1> QED
  BY <1>0, <1>1, <1>4, <1>5, <1>6, <1>7, ServerStep

(* A call that changes nothing of its adapter ends.                        *)
LEMMA CallEnds ==
  ASSUME J!SidecarInv, NEW c \in JdbcCalls, NEW e \in {"done", "failed"},
         place[c] \notin {"connect", "close", "waiting", "idle"},
         place' = [place EXCEPT ![c] = e], J!TypeOK',
         UNCHANGED <<method, of, connected, connecting>>,
         UNCHANGED <<serving, handles, statements, stopped, up>>,
         \A d \in JdbcCalls, p \in Changing :
           /\ Rq(d, p)' <=> Rq(d, p)
           /\ \A k \in BOOLEAN : An(d, p, k)' <=> An(d, p, k)
  PROVE  J!SidecarInv'
<1>0. /\ J!TypeOK /\ J!AdapterKnows /\ J!AskedOnce /\ J!ChangesAreKnown /\ J!OneConnect
      /\ J!RegisteredIsServed
  BY DEF J!SidecarInv
<1>1. place'[c] = e /\ \A d \in JdbcCalls : d # c => place'[d] = place[d]
  BY <1>0 DEF J!TypeOK
<1>2. \A d \in JdbcCalls, p \in Changing : Sv(d, p)' <=> Sv(d, p)
  BY DEF Sv
<1>3. J!AskedOnce'
  <2>1. ASSUME NEW d \in JdbcCalls, NEW p \in Changing
        PROVE  /\ Rq(d, p)' \/ Sv(d, p)' => place'[d] = p
               /\ Rq(d, p)' => ~Sv(d, p)'
               /\ \A ok \in BOOLEAN : An(d, p, ok)' =>
                    place'[d] = p /\ ~Rq(d, p)' /\ ~Sv(d, p)' /\ ~An(d, p, ~ok)'
    <3>1. place[d] = p => place'[d] = p
      BY <1>1 DEF Changing
    <3>2. (Sv(d, p)' <=> Sv(d, p)) /\ (Rq(d, p)' <=> Rq(d, p))
            /\ \A k \in BOOLEAN : An(d, p, k)' <=> An(d, p, k)
      BY <1>2
    <3>3. /\ Rq(d, p)' \/ Sv(d, p)' => Rq(d, p) \/ Sv(d, p)
          /\ Rq(d, p)' => ~Sv(d, p)'
          /\ \A ok \in BOOLEAN : An(d, p, ok)' =>
               (Rq(d, p) \/ Sv(d, p) \/ An(d, p, ok)) /\ ~Rq(d, p)' /\ ~Sv(d, p)'
                 /\ ~An(d, p, ~ok)'
      BY <3>2, Untouched
    <3> QED
      BY <3>1, <3>3, OnceEach
  <2>2. serving' # None => serving'.path \in {"connect", "query", "stream", "catalog"}
    BY <1>0, AskedOnceIs
  <2> QED
    BY <2>1, <2>2, AskedOnceNext
<1>4. J!OneConnect'
  <2>1. ASSUME NEW d \in JdbcCalls
        PROVE  /\ place'[d] = "idle" <=> place[d] = "idle"
               /\ place'[d] = "connect" <=> place[d] = "connect"
               /\ place'[d] = "close" <=> place[d] = "close"
               /\ place'[d] = "waiting" <=> place[d] = "waiting"
    BY <1>1
  <2> QED
    BY <1>0, <2>1 DEF J!OneConnect, J!WaitsFor, J!Closes
<1>5. J!ChangesAreKnown'
  <2>1. ASSUME NEW d \in JdbcCalls PROVE Known1(d)'
    <3>1. Known1(d) /\ (J!OneCloser(of[d])' <=> J!OneCloser(of[d]))
      BY <1>0, ChangesAreKnownIs, OneCloserSame
    <3>2. place'[d] \in Changing => place'[d] = place[d]
      BY <1>1 DEF Changing
    <3>3. \A p \in Changing : /\ (Sv(d, p)' <=> Sv(d, p)) /\ (Rq(d, p)' <=> Rq(d, p))
                              /\ \A k \in BOOLEAN : An(d, p, k)' <=> An(d, p, k)
      BY <1>2
    <3> QED
      BY <3>1, <3>2, <3>3 DEF Known1, Changing
  <2> QED
    BY <2>1, ChangesAreKnownNext
<1>6. J!AdapterKnows'
  <2>1. \A d \in JdbcCalls : /\ place'[d] = "connect" <=> place[d] = "connect"
                             /\ place'[d] = "close" <=> place[d] = "close"
    BY <1>1
  <2> QED
    BY <1>0, <2>1, OneCloserSame DEF J!AdapterKnows, J!WaitsFor
<1>7. J!RegisteredIsServed'
  BY <1>0 DEF J!RegisteredIsServed, J!Request
<1> QED
  BY <1>3, <1>4, <1>5, <1>6, <1>7 DEF J!SidecarInv

LEMMA JdbcAbortStream ==
  ASSUME J!SidecarInv, NEW c \in JdbcCalls, J!AbortStream(c)
  PROVE  J!SidecarInv'
<1>1. /\ place[c] = "stream" /\ place' = [place EXCEPT ![c] = "failed"]
      /\ requests' = requests \cup {J!Request(c, "cancel")}
      /\ UNCHANGED <<method, of, connected, connecting, answers>>
      /\ UNCHANGED <<serving, handles, statements, stopped, up>>
  BY DEF J!AbortStream, J!WaitsFor, J!Posted, J!sidecar
<1>2. \A d \in JdbcCalls, p \in Changing :
        /\ Rq(d, p)' <=> Rq(d, p)
        /\ \A k \in BOOLEAN : An(d, p, k)' <=> An(d, p, k)
  BY <1>1, RequestsDiffer DEF Rq, An, Changing
<1>3. J!TypeOK'
  <2>0. J!TypeOK /\ of[c] \in Adapters
    BY <1>1, OfAdapter DEF J!SidecarInv
  <2>1. J!Request(c, "cancel") \in [call : JdbcCalls, path : J!Paths]
          /\ J!Request(c, "cancel").call = c
    BY DEF J!Request, J!Paths, J!Methods
  <2>2. place' \in [JdbcCalls -> J!Paths \cup J!Ended \cup {"idle", "waiting"}]
    BY <1>1, <2>0 DEF J!TypeOK, J!Ended
  <2> QED
    BY <1>1, <2>0, <2>1, <2>2 DEF J!TypeOK
<1> QED
  BY <1>1, <1>2, <1>3, CallEnds

(* An answer that nobody waits for, or one to a statement or a cancel.     *)
LEMMA JdbcReceiveOther ==
  ASSUME J!SidecarInv, NEW r \in answers, J!Receive(r),
         place[r.call] # r.path \/ r.path \notin Changing
  PROVE  J!SidecarInv'
<1>0. /\ J!TypeOK /\ J!AskedOnce /\ J!RegisteredIsServed
      /\ r.call \in JdbcCalls /\ r.path \in J!Paths /\ r.ok \in BOOLEAN
      /\ r = J!Answer(J!Request(r.call, r.path), r.ok)
  BY MessagesAre DEF J!SidecarInv
<1>1. /\ answers' = answers \ {r}
      /\ UNCHANGED <<method, of>> /\ UNCHANGED <<serving, handles, statements, stopped, up>>
  BY DEF J!Receive, J!sidecar
<1>2. r.path \notin Changing
  BY <1>0, OnceEach DEF An
<1>3. /\ UNCHANGED <<connected, connecting, requests>>
      /\ place[r.call] # r.path => place' = place
      /\ place[r.call] = r.path => \E e \in {"done", "failed"} :
           place' = [place EXCEPT ![r.call] = e]
  BY <1>2 DEF J!Receive, Changing
<1>4. \A d \in JdbcCalls, p \in Changing :
        /\ Rq(d, p)' <=> Rq(d, p)
        /\ Sv(d, p)' <=> Sv(d, p)
        /\ \A k \in BOOLEAN : An(d, p, k)' <=> An(d, p, k)
  BY <1>0, <1>1, <1>2, <1>3, AnswerTaken DEF Rq, Sv
<1>5. J!TypeOK'
  <2>1. place' \in [JdbcCalls -> J!Paths \cup J!Ended \cup {"idle", "waiting"}]
    BY <1>0, <1>3 DEF J!TypeOK, J!Ended
  <2> QED
    BY <1>0, <1>1, <1>3, <2>1 DEF J!TypeOK
<1>6. CASE place[r.call] = r.path
  <2>1. PICK e \in {"done", "failed"} : place' = [place EXCEPT ![r.call] = e]
    BY <1>3, <1>6
  <2>2. place[r.call] \notin {"connect", "close", "waiting", "idle"}
    BY <1>0, <1>2, <1>6 DEF Changing, J!Paths, J!Methods
  <2> QED
    BY <1>0, <1>1, <1>3, <1>4, <1>5, <2>1, <2>2, CallEnds
<1>7. CASE place[r.call] # r.path
  <2>1. UNCHANGED <<method, of, place, connected, connecting>>
    BY <1>1, <1>3, <1>7
  <2>2. J!RegisteredIsServed'
    BY <1>0, <1>1 DEF J!RegisteredIsServed, J!Request
  <2>3. ASSUME NEW c \in JdbcCalls, NEW p \in Changing
        PROVE  /\ Rq(c, p)' \/ Sv(c, p)' => Rq(c, p) \/ Sv(c, p)
               /\ Rq(c, p)' => ~Sv(c, p)'
               /\ \A ok \in BOOLEAN : An(c, p, ok)' =>
                    (Rq(c, p) \/ Sv(c, p) \/ An(c, p, ok)) /\ ~Rq(c, p)' /\ ~Sv(c, p)'
                      /\ ~An(c, p, ~ok)'
    BY <1>4, Untouched
  <2>4. ASSUME NEW c \in JdbcCalls PROVE Known1(c)'
    <3>1. Known1(c) /\ (J!OneCloser(of[c])' <=> J!OneCloser(of[c]))
      BY <2>1, ChangesAreKnownIs, OneCloserSame DEF J!SidecarInv
    <3>2. \A p \in Changing : /\ (Sv(c, p)' <=> Sv(c, p)) /\ (Rq(c, p)' <=> Rq(c, p))
                              /\ \A k \in BOOLEAN : An(c, p, k)' <=> An(c, p, k)
      BY <1>4
    <3> QED
      BY <1>1, <2>1, <3>1, <3>2 DEF Known1, Changing
  <2> QED
    BY <1>0, <1>1, <1>5, <2>1, <2>2, <2>3, <2>4, ServerStep DEF J!AskedOnce
<1> QED
  BY <1>6, <1>7

LEMMA JdbcReceiveClose ==
  ASSUME J!SidecarInv, NEW r \in answers, J!Receive(r),
         place[r.call] = r.path, r.path = "close"
  PROVE  J!SidecarInv'
<1> DEFINE c == r.call
           a == of[c]
<1>0. /\ J!TypeOK /\ J!AskedOnce /\ J!RegisteredIsServed /\ J!AdapterKnows /\ J!OneConnect
      /\ c \in JdbcCalls /\ r.ok \in BOOLEAN /\ place[c] = "close" /\ a \in Adapters
      /\ r = J!Answer(J!Request(c, "close"), r.ok)
  BY MessagesAre, OfAdapter DEF J!SidecarInv
<1>1. /\ answers' = answers \ {r}
      /\ UNCHANGED <<method, of, connecting, requests>>
      /\ UNCHANGED <<serving, handles, statements, stopped, up>>
      /\ connected' = [connected EXCEPT ![a] = FALSE]
      /\ \E e \in {"done", "failed"} : place' = [place EXCEPT ![c] = e]
  BY DEF J!Receive, J!sidecar, J!Closed
<1>2. /\ place'[c] \in {"done", "failed"}
      /\ \A d \in JdbcCalls : d # c => place'[d] = place[d]
      /\ ~connected'[a]
      /\ \A b \in Adapters : b # a => connected'[b] = connected[b]
  BY <1>0, <1>1 DEF J!TypeOK
<1>3. /\ An(c, "close", r.ok)
      /\ \A d \in JdbcCalls, p \in Changing :
           /\ Rq(d, p)' <=> Rq(d, p)
           /\ Sv(d, p)' <=> Sv(d, p)
           /\ \A k \in BOOLEAN :
                An(d, p, k)' <=> An(d, p, k) /\ ~(d = c /\ p = "close" /\ k = r.ok)
  BY <1>0, <1>1, AnswerTaken DEF Rq, Sv, An
<1>4. up /\ J!OneCloser(a) => a \notin handles
  BY <1>0, <1>3, ChangesAreKnownIs DEF Known1, J!SidecarInv
<1> HIDE DEF c, a
<1>5. J!TypeOK'
  <2>1. place' \in [JdbcCalls -> J!Paths \cup J!Ended \cup {"idle", "waiting"}]
    BY <1>0, <1>1 DEF J!TypeOK, J!Ended
  <2>2. connected' \in [Adapters -> BOOLEAN]
    BY <1>0, <1>1 DEF J!TypeOK
  <2> QED
    BY <1>0, <1>1, <2>1, <2>2 DEF J!TypeOK
<1>6. J!AskedOnce'
  <2>1. ASSUME NEW d \in JdbcCalls, NEW p \in Changing
        PROVE  /\ Rq(d, p)' \/ Sv(d, p)' => place'[d] = p
               /\ Rq(d, p)' => ~Sv(d, p)'
               /\ \A ok \in BOOLEAN : An(d, p, ok)' =>
                    place'[d] = p /\ ~Rq(d, p)' /\ ~Sv(d, p)' /\ ~An(d, p, ~ok)'
    <3>0. \A k \in BOOLEAN : (~k) \in BOOLEAN
      OBVIOUS
    <3>1. CASE d = c
      <4>1. ~Rq(c, p) /\ ~Sv(c, p)
        BY <1>0, <1>3, OnceEach DEF Changing
      <4>2. \A k \in BOOLEAN : ~An(c, p, k)'
        BY <1>0, <1>3, OnceEach DEF Changing
      <4> QED
        BY <1>3, <3>0, <3>1, <4>1, <4>2
    <3>2. CASE d # c
      <4>1. /\ (Rq(d, p)' <=> Rq(d, p)) /\ (Sv(d, p)' <=> Sv(d, p)) /\ place'[d] = place[d]
            /\ \A k \in BOOLEAN : An(d, p, k)' <=> An(d, p, k)
        BY <1>2, <1>3, <3>2
      <4> QED
        BY <3>0, <4>1, OnceEach, Zenon
    <3> QED
      BY <3>1, <3>2
  <2>2. serving' # None => serving'.path \in {"connect", "query", "stream", "catalog"}
    BY <1>0, <1>1, AskedOnceIs
  <2> QED
    BY <2>1, <2>2, AskedOnceNext
<1>7. J!OneConnect'
  <2>1. ASSUME NEW d \in JdbcCalls
        PROVE  /\ place'[d] = "idle" <=> place[d] = "idle"
               /\ place'[d] = "connect" <=> place[d] = "connect"
               /\ place'[d] = "close" => place[d] = "close"
               /\ place'[d] = "waiting" <=> place[d] = "waiting"
    BY <1>0, <1>2
  <2> QED
    BY <1>0, <1>1, <2>1 DEF J!OneConnect, J!WaitsFor, J!Closes
<1>8. J!ChangesAreKnown'
  <2>1. ASSUME NEW d \in JdbcCalls PROVE Known1(d)'
    <3>1. Known1(d) /\ (J!OneCloser(of[d])' <=> J!OneCloser(of[d]))
      BY <1>1, ChangesAreKnownIs, OneCloserSame DEF J!SidecarInv
    <3>2. CASE d = c
      BY <1>2, <3>2 DEF Known1
    <3>3. CASE d # c /\ place[d] \in Changing /\ of[d] = a
      <4>1. ~(up /\ J!OneCloser(of[d]))
        BY <1>0, <3>3, Alone DEF Changing, a
      <4> QED
        BY <1>1, <1>2, <3>1, <3>3, <4>1 DEF Known1
    <3>4. CASE d # c /\ place[d] \in Changing /\ of[d] # a
      <4>1. of[d] \in Adapters
        BY <3>4, OfAdapter DEF Changing
      <4>2. connected'[of[d]] = connected[of[d]] /\ place'[d] = place[d]
        BY <1>2, <3>4, <4>1
      <4>3. \A p \in Changing : /\ (Sv(d, p)' <=> Sv(d, p)) /\ (Rq(d, p)' <=> Rq(d, p))
                                /\ \A k \in BOOLEAN : An(d, p, k)' <=> An(d, p, k)
        BY <1>3, <3>4
      <4> QED
        BY <1>1, <3>1, <4>2, <4>3 DEF Known1, Changing
    <3>5. CASE d # c /\ place[d] \notin Changing
      BY <1>2, <3>5 DEF Known1, Changing
    <3> QED
      BY <3>2, <3>3, <3>4, <3>5
  <2> QED
    BY <2>1, ChangesAreKnownNext
<1>9. J!AdapterKnows'
  <2> SUFFICES ASSUME NEW b \in Adapters, up', J!OneCloser(b)'
               PROVE  \/ connected'[b] <=> b \in handles'
                      \/ \E d \in JdbcCalls :
                           of'[d] = b /\ (place'[d] = "close" \/ place'[d] = "connect")
    BY DEF J!AdapterKnows, J!WaitsFor
  <2>1. up /\ J!OneCloser(b)
    BY <1>1, OneCloserSame
  <2>2. CASE b = a
    BY <1>1, <1>2, <1>4, <2>1, <2>2
  <2>3. CASE b # a
    <3>1. \/ connected[b] <=> b \in handles
          \/ \E d \in JdbcCalls : of[d] = b /\ (place[d] = "close" \/ place[d] = "connect")
      BY <1>0, <2>1 DEF J!AdapterKnows, J!WaitsFor
    <3> QED
      BY <1>1, <1>2, <2>3, <3>1 DEF a
  <2> QED
    BY <2>2, <2>3
<1>10. J!RegisteredIsServed'
  BY <1>0, <1>1 DEF J!RegisteredIsServed, J!Request
<1> QED
  BY <1>5, <1>6, <1>7, <1>8, <1>9, <1>10 DEF J!SidecarInv

(* A connect is answered: who waited goes on, and what it sends is a close *)
(* or a statement.                                                         *)
LEMMA JdbcReceiveConnect ==
  ASSUME J!SidecarInv, NEW r \in answers, J!Receive(r),
         place[r.call] = r.path, r.path = "connect"
  PROVE  J!SidecarInv'
<1> DEFINE c == r.call
           a == of[c]
           ok == r.ok
           W == {c} \cup {d \in JdbcCalls : place[d] = "waiting" /\ of[d] = a}
           nx(d) == J!AfterConnect(method[d], ok)
<1>0. /\ J!TypeOK /\ J!AskedOnce /\ J!RegisteredIsServed /\ J!AdapterKnows /\ J!OneConnect
      /\ c \in JdbcCalls /\ ok \in BOOLEAN /\ place[c] = "connect" /\ a \in Adapters
      /\ r = J!Answer(J!Request(c, "connect"), ok)
  BY MessagesAre, OfAdapter DEF J!SidecarInv
<1>1. /\ answers' = answers \ {r}
      /\ UNCHANGED <<method, of>>
      /\ UNCHANGED <<serving, handles, statements, stopped, up>>
      /\ connected' = [connected EXCEPT ![a] = @ \/ ok]
      /\ connecting' = [connecting EXCEPT ![a] = None]
      /\ place' = [d \in JdbcCalls |-> IF d \in W THEN nx(d) ELSE place[d]]
      /\ requests' = requests \cup
           {J!Request(d, nx(d)) : d \in {e \in W : nx(e) \notin {"done", "failed"}}}
  <2>1. J!Connected(r.call, r.ok)
    BY DEF J!Receive
  <2>2. answers' = answers \ {r} /\ UNCHANGED <<method, of>>
          /\ UNCHANGED <<serving, handles, statements, stopped, up>>
    BY DEF J!Receive, J!sidecar
  <2>3. connected' = [connected EXCEPT ![a] = @ \/ ok] /\ connecting' = [connecting EXCEPT ![a] = None]
    BY <2>1 DEF J!Connected
  <2>4. \A d \in W : [e \in W |-> J!AfterConnect(method[e], ok)][d] = nx(d)
    OBVIOUS
  <2>5. place' = [d \in JdbcCalls |-> IF d \in W THEN [e \in W |-> J!AfterConnect(method[e], ok)][d]
                                      ELSE place[d]]
    BY <2>1 DEF J!Connected
  <2>6. requests' = requests \cup
          {J!Request(d, [e \in W |-> J!AfterConnect(method[e], ok)][d]) :
             d \in {e \in W : [f \in W |-> J!AfterConnect(method[f], ok)][e] \notin J!Ended}}
    BY <2>1 DEF J!Connected
  <2>7. place' = [d \in JdbcCalls |-> IF d \in W THEN nx(d) ELSE place[d]]
    BY <2>4, <2>5
  <2>8. requests' = requests \cup
          {J!Request(d, nx(d)) : d \in {e \in W : nx(e) \notin {"done", "failed"}}}
    BY <2>4, <2>6 DEF J!Ended
  <2> QED
    BY <2>2, <2>3, <2>7, <2>8
<1>2. ASSUME NEW d \in W
      PROVE  /\ d \in JdbcCalls /\ of[d] = a /\ place[d] \in {"connect", "waiting"}
             /\ nx(d) \in J!Paths \cup {"done", "failed"}
             /\ nx(d) # "connect" /\ nx(d) # "waiting" /\ nx(d) # "idle"
             /\ nx(d) = "close" => ok /\ method[d] \in {"test", "close"}
  <2>1. d \in JdbcCalls /\ of[d] = a /\ place[d] \in {"connect", "waiting"}
    BY <1>0
  <2>2. method[d] \in J!Methods
    BY <2>1, OfAdapter
  <2> QED
    BY <2>1, <2>2 DEF J!AfterConnect, J!Paths, J!Methods
<1>3. /\ An(c, "connect", ok) /\ ~connected[a]
      /\ up /\ J!OneCloser(a) => (ok <=> a \in handles)
      /\ connecting[a] = c
  BY <1>0, ChangesAreKnownIs DEF Known1, An, J!SidecarInv, J!OneConnect, J!WaitsFor
<1>4. ASSUME NEW d \in JdbcCalls
      PROVE  /\ d \in W => place'[d] = nx(d)
             /\ d \notin W => place'[d] = place[d]
             /\ d \notin W /\ of[d] = a => place[d] # "connect" /\ place[d] # "waiting"
  <2>1. d \notin W /\ of[d] = a => place[d] # "connect"
    BY <1>0, <1>3 DEF J!OneConnect, J!WaitsFor
  <2> QED
    BY <1>1, <2>1
<1>5. ASSUME NEW d \in JdbcCalls, NEW p \in Changing
      PROVE  /\ Rq(d, p)' <=> Rq(d, p) \/ (d \in W /\ p = "close" /\ nx(d) = "close")
             /\ Sv(d, p)' <=> Sv(d, p)
             /\ \A k \in BOOLEAN :
                  An(d, p, k)' <=> An(d, p, k) /\ ~(d = c /\ p = "connect" /\ k = ok)
  <2>1. J!Request(d, p) \in {J!Request(e, nx(e)) : e \in {f \in W : nx(f) \notin {"done", "failed"}}}
          <=> d \in W /\ p = nx(d)
    <3>1. \A e \in W : J!Request(d, p) = J!Request(e, nx(e)) <=> d = e /\ p = nx(e)
      BY RequestsDiffer
    <3> QED
      BY <3>1 DEF Changing
  <2>2. d \in W /\ p = nx(d) <=> d \in W /\ p = "close" /\ nx(d) = "close"
    BY <1>2 DEF Changing
  <2>3. Rq(d, p)' <=> Rq(d, p) \/ (d \in W /\ p = nx(d))
    BY <1>1, <2>1 DEF Rq
  <2>4. \A k \in BOOLEAN :
          An(d, p, k)' <=> An(d, p, k) /\ ~(d = r.call /\ p = r.path /\ k = r.ok)
    BY <1>0, <1>1, AnswerTaken
  <2> QED
    BY <1>1, <2>2, <2>3, <2>4 DEF Sv
<1>6. J!TypeOK'
  <2>1. place' \in [JdbcCalls -> J!Paths \cup J!Ended \cup {"idle", "waiting"}]
    BY <1>0, <1>1, <1>2 DEF J!TypeOK, J!Ended
  <2>2. connected' \in [Adapters -> BOOLEAN] /\ connecting' \in [Adapters -> JdbcCalls \cup {None}]
    BY <1>0, <1>1 DEF J!TypeOK
  <2>3. ASSUME NEW q \in requests'
        PROVE  q \in [call : JdbcCalls, path : J!Paths] /\ of'[q.call] \in Adapters
    <3>1. CASE q \in requests
      BY <1>0, <1>1, <3>1 DEF J!TypeOK
    <3>2. CASE q \notin requests
      <4>1. PICK d \in W : q = J!Request(d, nx(d)) /\ nx(d) \notin {"done", "failed"}
        BY <1>1, <2>3, <3>2
      <4>2. nx(d) \in J!Paths /\ d \in JdbcCalls /\ of[d] \in Adapters
        BY <1>0, <1>2, <4>1
      <4>3. q \in [call : JdbcCalls, path : J!Paths] /\ q.call = d
        BY <4>1, <4>2 DEF J!Request
      <4> QED
        BY <1>1, <4>2, <4>3
    <3> QED
      BY <3>1, <3>2
  <2> QED
    BY <1>0, <1>1, <2>1, <2>2, <2>3 DEF J!TypeOK
<1>7. J!AskedOnce'
  <2>1. ASSUME NEW d \in JdbcCalls, NEW p \in Changing
        PROVE  /\ Rq(d, p)' \/ Sv(d, p)' => place'[d] = p
               /\ Rq(d, p)' => ~Sv(d, p)'
               /\ \A k \in BOOLEAN : An(d, p, k)' =>
                    place'[d] = p /\ ~Rq(d, p)' /\ ~Sv(d, p)' /\ ~An(d, p, ~k)'
    <3>0. \A k \in BOOLEAN : (~k) \in BOOLEAN
      OBVIOUS
    <3>1. CASE d \in W
      <4>1. ~Rq(d, p) /\ ~Sv(d, p)
        BY <1>0, <1>2, <1>3, <3>1, OnceEach DEF Changing
      <4>2. \A k \in BOOLEAN : ~An(d, p, k)'
        BY <1>0, <1>2, <1>3, <1>5, <3>1, OnceEach DEF Changing
      <4>3. Rq(d, p)' => place'[d] = p
        BY <1>4, <1>5, <3>1, <4>1
      <4> QED
        BY <1>5, <3>0, <4>1, <4>2, <4>3
    <3>2. CASE d \notin W
      <4>1. /\ (Rq(d, p)' <=> Rq(d, p)) /\ (Sv(d, p)' <=> Sv(d, p)) /\ place'[d] = place[d]
            /\ \A k \in BOOLEAN : An(d, p, k)' <=> An(d, p, k)
        BY <1>4, <1>5, <3>2
      <4> HIDE DEF W
      <4> QED
        BY <3>0, <4>1, OnceEach, Zenon
    <3> QED
      BY <3>1, <3>2
  <2>2. serving' # None => serving'.path \in {"connect", "query", "stream", "catalog"}
    BY <1>0, <1>1, AskedOnceIs
  <2> QED
    BY <2>1, <2>2, AskedOnceNext
<1>8. J!OneConnect'
  <2>1. /\ connecting'[a] = None
        /\ \A b \in Adapters : b # a => connecting'[b] = connecting[b]
        /\ None \notin JdbcCalls
    BY <1>0, <1>1, JdbcAssumption DEF J!TypeOK, J!SidecarAssumption
  <2>2. ASSUME NEW d \in JdbcCalls
        PROVE  /\ place'[d] = "idle" <=> of[d] = None
               /\ of[d] = None <=> method[d] = None
               /\ place'[d] = "connect" <=> of[d] # None /\ connecting'[of[d]] = d
               /\ place'[d] = "close" => method[d] \in {"test", "close"}
               /\ place'[d] = "waiting" => connecting'[of[d]] # None
    <3>1. /\ place[d] = "idle" <=> of[d] = None
          /\ of[d] = None <=> method[d] = None
          /\ place[d] = "connect" <=> of[d] # None /\ connecting[of[d]] = d
          /\ place[d] = "close" => method[d] \in {"test", "close"}
          /\ place[d] = "waiting" => connecting[of[d]] # None
          /\ of[d] # None => of[d] \in Adapters
      BY <1>0 DEF J!OneConnect, J!WaitsFor, J!Closes, J!TypeOK
    <3>2. CASE d \in W
      BY <1>2, <1>4, <2>1, <3>1, <3>2
    <3>3. CASE d \notin W
      BY <1>3, <1>4, <2>1, <3>1, <3>3
    <3> QED
      BY <3>2, <3>3
  <2>3. ASSUME NEW b \in Adapters, connecting'[b] # None
        PROVE  of[connecting'[b]] = b
    BY <1>0, <2>1, <2>3 DEF J!OneConnect
  <2> QED
    BY <1>1, <2>2, <2>3 DEF J!OneConnect, J!WaitsFor, J!Closes
<1>81. /\ connected'[a] <=> ok
       /\ \A b \in Adapters : b # a => connected'[b] = connected[b]
  BY <1>0, <1>1, <1>3 DEF J!TypeOK
<1> HIDE DEF W, nx, a, ok
<1>9. J!ChangesAreKnown'
  <2>1. ASSUME NEW d \in JdbcCalls PROVE Known1(d)'
    <3>1. Known1(d) /\ (J!OneCloser(of[d])' <=> J!OneCloser(of[d]))
      BY <1>1, ChangesAreKnownIs, OneCloserSame DEF J!SidecarInv
    <3>2. CASE d \in W
      <4>1. place'[d] # "connect" /\ of[d] = a
        BY <1>2, <1>4, <3>2
      <4>2. place'[d] = "close" => ok
        BY <1>2, <1>4, <3>2
      <4>3. \A k \in BOOLEAN : ~An(d, "close", k)'
        <5>1. place[d] # "close"
          BY <1>2, <3>2
        <5> QED
          BY <1>5, <5>1, OnceEach DEF Changing
      <4> QED
        BY <1>1, <1>3, <1>81, <3>1, <4>1, <4>2, <4>3 DEF Known1
    <3>3. CASE d \notin W /\ place[d] \in Changing /\ of[d] = a
      <4>1. d # c /\ place[d] = "close"
        BY <1>0, <1>4, <3>3 DEF Changing
      <4>2. ~(up /\ J!OneCloser(of[d]))
        BY <1>0, <3>3, <4>1, Alone DEF Changing, a
      <4> QED
        BY <1>1, <1>4, <3>1, <3>3, <4>1, <4>2 DEF Known1
    <3>4. CASE d \notin W /\ place[d] \in Changing /\ of[d] # a
      <4>1. of[d] \in Adapters
        BY <3>4, OfAdapter DEF Changing
      <4>2. connected'[of[d]] = connected[of[d]] /\ place'[d] = place[d] /\ d # c
        BY <1>4, <1>81, <3>4, <4>1 DEF a
      <4>3. \A p \in Changing : /\ (Sv(d, p)' <=> Sv(d, p)) /\ (Rq(d, p)' <=> Rq(d, p))
                                /\ \A k \in BOOLEAN : An(d, p, k)' <=> An(d, p, k)
        BY <1>5, <3>4, <4>2
      <4> QED
        BY <1>1, <3>1, <4>2, <4>3 DEF Known1, Changing
    <3>5. CASE d \notin W /\ place[d] \notin Changing
      BY <1>4, <3>5 DEF Known1, Changing
    <3> QED
      BY <3>2, <3>3, <3>4, <3>5
  <2> QED
    BY <2>1, ChangesAreKnownNext
<1>10. J!AdapterKnows'
  <2> SUFFICES ASSUME NEW b \in Adapters, up', J!OneCloser(b)'
               PROVE  \/ connected'[b] <=> b \in handles'
                      \/ \E d \in JdbcCalls :
                           of'[d] = b /\ (place'[d] = "close" \/ place'[d] = "connect")
    BY DEF J!AdapterKnows, J!WaitsFor
  <2>1. up /\ J!OneCloser(b)
    BY <1>1, OneCloserSame
  <2>2. CASE b = a
    BY <1>1, <1>3, <1>81, <2>1, <2>2
  <2>3. CASE b # a
    <3>1. \/ connected[b] <=> b \in handles
          \/ \E d \in JdbcCalls : of[d] = b /\ (place[d] = "close" \/ place[d] = "connect")
      BY <1>0, <2>1 DEF J!AdapterKnows, J!WaitsFor
    <3> QED
      BY <1>1, <1>2, <1>4, <1>81, <2>3, <3>1
  <2> QED
    BY <2>2, <2>3
<1>11. J!RegisteredIsServed'
  BY <1>0, <1>1 DEF J!RegisteredIsServed, J!Request
<1> QED
  BY <1>6, <1>7, <1>8, <1>9, <1>10, <1>11 DEF J!SidecarInv

LEMMA JdbcInit ==
  ASSUME J!Init
  PROVE  J!SidecarInv
<1>1. J!TypeOK
  BY DEF J!Init, J!TypeOK, J!Ended
<1>2. /\ \A c \in JdbcCalls, p \in Changing :
            ~Rq(c, p) /\ ~Sv(c, p) /\ \A k \in BOOLEAN : ~An(c, p, k)
      /\ serving = None
  <2>1. \A c \in JdbcCalls, p \in J!Paths : J!Request(c, p) # None
    BY <1>1, MessagesAre
  <2> QED
    BY <2>1 DEF J!Init, Rq, Sv, An, Changing, J!Paths, J!Methods
<1>3. J!AskedOnce
  BY <1>2, AskedOnceIs
<1>4. \A c \in JdbcCalls : place[c] = "idle"
  BY DEF J!Init
<1>5. J!ChangesAreKnown
  BY <1>4, ChangesAreKnownIs DEF Known1
<1>6. J!OneConnect
  BY JdbcAssumption DEF J!Init, J!OneConnect, J!WaitsFor, J!SidecarAssumption
<1>7. J!AdapterKnows /\ J!RegisteredIsServed
  BY DEF J!Init, J!AdapterKnows, J!RegisteredIsServed
<1> QED
  BY <1>1, <1>3, <1>5, <1>6, <1>7 DEF J!SidecarInv

LEMMA JdbcNext ==
  ASSUME J!SidecarInv, J!Next
  PROVE  J!SidecarInv'
<1>1. ASSUME NEW c \in JdbcCalls, J!Start(c) \/ J!AbortStream(c) PROVE J!SidecarInv'
  BY <1>1, JdbcStart, JdbcAbortStream
<1>2. ASSUME NEW r \in answers, J!Receive(r) PROVE J!SidecarInv'
  BY <1>2, JdbcReceiveOther, JdbcReceiveClose, JdbcReceiveConnect DEF Changing
<1>3. ASSUME NEW r \in requests, J!Refused(r) \/ J!Take(r) \/ J!TakeShort(r)
      PROVE  J!SidecarInv'
  BY <1>3, JdbcRefused, JdbcTake, JdbcTakeShort
<1>4. J!DatabaseAnswers \/ J!SidecarDies => J!SidecarInv'
  BY JdbcDatabaseAnswers, JdbcSidecarDies
<1> QED
  BY <1>1, <1>2, <1>3, <1>4 DEF J!Next, J!Deliver, J!Serve

LEMMA JdbcStutter ==
  ASSUME J!SidecarInv, UNCHANGED jdbcVars
  PROVE  J!SidecarInv'
BY DEF jdbcVars, J!SidecarInv, J!TypeOK, J!AdapterKnows, J!AskedOnce, J!ChangesAreKnown,
       J!OneConnect, J!RegisteredIsServed, J!OneCloser, J!Closes, J!WaitsFor, J!Asked

(* Whatever the order in which requests and answers arrive, an adapter     *)
(* that one caller at a time closes knows whether its connection is there. *)
THEOREM SidecarHolds == AdapterSpec => []SidecarInv
<1>1. AdapterInit => SidecarInv
  BY JdbcInit DEF AdapterInit, SidecarInv
<1>2. SidecarInv /\ [AdapterNext]_adapterVars => SidecarInv'
  <2> SUFFICES ASSUME J!SidecarInv, [AdapterNext]_adapterVars PROVE J!SidecarInv'
    BY DEF SidecarInv
  <2>1. J!Next \/ UNCHANGED jdbcVars
    BY DEF AdapterNext, PoolStep, JdbcStep, CatalogStep, TextStep, adapterVars
  <2> QED
    BY <2>1, JdbcNext, JdbcStutter
<1> QED
  BY <1>1, <1>2, PTL DEF AdapterSpec

-----------------------------------------------------------------------------
(* Introspection.  The catalog that the last query read is one a database  *)
(* can have, and what was seen of relations was asked for.                 *)
CatalogState ==
  /\ catalog \in Catalogs /\ atColumns \in Catalogs /\ atConstraints \in Catalogs
  /\ family \in Families /\ \A t \in rels : Allowed(t)

LEMMA CatalogHas ==
  ASSUME NEW c \in Catalogs
  PROVE  /\ c.constraints \subseteq Constraints
         /\ \A t \in Tables : c.columns[t] \subseteq Columns
         /\ \A p, u \in c.constraints :
              p.kind = "P" /\ u.kind = "P" /\ u.table = p.table => u = p
BY DEF Catalogs, Consistent

(* A join by the name of a primary key finds the columns of that key only. *)
LEMMA JoinFindsOneKey ==
  ASSUME NEW f, NEW c \in Catalogs, NEW p \in c.constraints, NEW u \in c.constraints,
         p.kind = "P", NameOf(f, u) = NameOf(f, p), f = "mysql" => u.table = p.table
  PROVE  u = p
<1>0. p \in Constraints /\ u \in Constraints
  BY CatalogHas
<1>1. /\ IsConstraint(p) /\ IsConstraint(u)
  BY <1>0, CatalogAssumption
<1>2. CASE f # "mysql"
  BY <1>0, <1>1, <1>2 DEF NameOf, IsConstraint
<1>3. CASE f = "mysql"
  <2>1. u.kind = "P"
    BY <1>1, <1>3 DEF NameOf, IsConstraint
  <2> QED
    BY <1>3, <2>1, CatalogHas
<1> QED
  BY <1>2, <1>3

LEMMA KeysTrue ==
  ASSUME CatalogState
  PROVE  KeysAreTrue
<1> SUFFICES ASSUME NEW t \in Tables
             PROVE  ReportedKey(t) = KeyNow(atConstraints, t) \cap ReportedColumns(t)
  BY DEF KeysAreTrue
<1>0. atConstraints \in Catalogs /\ atColumns \in Catalogs
  BY DEF CatalogState
<1>1. ReportedColumns(t) \subseteq Columns
  BY <1>0, CatalogHas DEF ReportedColumns
<1>2. ASSUME NEW col \in ReportedColumns(t), <<t, col>> \in KeyColumns(family, atConstraints)
      PROVE  col \in KeyNow(atConstraints, t)
  <2>1. PICK p \in atConstraints.constraints, u \in atConstraints.constraints :
          /\ p.kind = "P" /\ NameOf(family, u) = NameOf(family, p)
          /\ family = "mysql" => u.table = p.table
          /\ u.table = t /\ col \in UsedColumns(u)
    BY <1>2 DEF KeyColumns
  <2>2. u = p
    BY <1>0, <2>1, JoinFindsOneKey
  <2> QED
    BY <2>1, <2>2 DEF KeyNow
<1>3. ASSUME NEW col \in ReportedColumns(t), col \in KeyNow(atConstraints, t)
      PROVE  <<t, col>> \in KeyColumns(family, atConstraints)
  <2>1. PICK p \in atConstraints.constraints :
          p.kind = "P" /\ p.table = t /\ col \in UsedColumns(p)
    BY <1>3 DEF KeyNow
  <2>2. <<t, col>> \in Tables \X Columns /\ <<t, col>>[1] = t /\ <<t, col>>[2] = col
    BY <1>1
  <2> QED
    BY <2>1, <2>2 DEF KeyColumns
<1> QED
  BY <1>2, <1>3 DEF ReportedKey

LEMMA ReferencesTrue ==
  ASSUME CatalogState
  PROVE  ReferencesAreTrue
<1> SUFFICES ASSUME NEW t \in Tables
             PROVE  /\ \A r \in ReportedReferences(t) : \E k \in atConstraints.constraints :
                         /\ k.kind = "R" /\ k.table = t /\ KeyOf(k).table = r.to
                         /\ \E i, j \in DOMAIN k.columns :
                              /\ k.columns[i] = r.column /\ KeyOf(k).columns[j] = r.at
                              /\ i = j \/ (Len(k.columns) > 1 /\ family \in {"pg", "mssql"})
                    /\ \A k \in atConstraints.constraints : \A i \in DOMAIN k.columns :
                         k.kind = "R" /\ k.table = t /\ k.columns[i] \in ReportedColumns(t) =>
                           [table |-> t, column |-> k.columns[i], to |-> KeyOf(k).table,
                            at |-> KeyOf(k).columns[i]] \in ReportedReferences(t)
  BY DEF ReferencesAreTrue
<1>0. \A k \in atConstraints.constraints :
        k.columns \in Seq(Columns) /\ DOMAIN k.columns = 1 .. Len(k.columns)
          /\ Len(k.columns) \in Nat
  BY CatalogHas, CatalogAssumption DEF CatalogState, IsConstraint
<1>1. ASSUME NEW r \in ReportedReferences(t)
      PROVE  \E k \in atConstraints.constraints :
               /\ k.kind = "R" /\ k.table = t /\ KeyOf(k).table = r.to
               /\ \E i, j \in DOMAIN k.columns :
                    /\ k.columns[i] = r.column /\ KeyOf(k).columns[j] = r.at
                    /\ i = j \/ (Len(k.columns) > 1 /\ family \in {"pg", "mssql"})
  <2>1. r \in References(family, atConstraints) /\ r.table = t
    BY DEF ReportedReferences
  <2>2. PICK k \in atConstraints.constraints :
          /\ k.kind = "R"
          /\ \E ij \in (DOMAIN k.columns) \X (DOMAIN k.columns) :
               /\ SameColumn(family, ij[1], ij[2])
               /\ r = [table |-> k.table, column |-> k.columns[ij[1]],
                       to |-> KeyOf(k).table, at |-> KeyOf(k).columns[ij[2]]]
    BY <2>1 DEF References
  <2>3. PICK ij \in (DOMAIN k.columns) \X (DOMAIN k.columns) :
               /\ SameColumn(family, ij[1], ij[2])
               /\ r = [table |-> k.table, column |-> k.columns[ij[1]],
                       to |-> KeyOf(k).table, at |-> KeyOf(k).columns[ij[2]]]
    BY <2>2
  <2>4. ij[1] = ij[2] \/ (Len(k.columns) > 1 /\ family \in {"pg", "mssql"})
    BY <1>0, <2>3 DEF SameColumn, CatalogState, Families
  <2> QED
    BY <2>1, <2>2, <2>3, <2>4
<1>2. ASSUME NEW k \in atConstraints.constraints, NEW i \in DOMAIN k.columns,
             k.kind = "R", k.table = t, k.columns[i] \in ReportedColumns(t)
      PROVE  [table |-> t, column |-> k.columns[i], to |-> KeyOf(k).table,
              at |-> KeyOf(k).columns[i]] \in ReportedReferences(t)
  <2>1. <<i, i>> \in (DOMAIN k.columns) \X (DOMAIN k.columns) /\ SameColumn(family, i, i)
    BY DEF SameColumn
  <2> DEFINE ref == [table |-> t, column |-> k.columns[i], to |-> KeyOf(k).table,
                     at |-> KeyOf(k).columns[i]]
  <2>2. ref \in {[table |-> k.table, column |-> k.columns[ij[1]], to |-> KeyOf(k).table,
                  at |-> KeyOf(k).columns[ij[2]]] :
                   ij \in {ij \in (DOMAIN k.columns) \X (DOMAIN k.columns) :
                             SameColumn(family, ij[1], ij[2])}}
    BY <1>2, <2>1
  <2>3. ref \in References(family, atConstraints)
    BY <1>2, <2>2 DEF References
  <2> QED
    BY <1>2, <2>3 DEF ReportedReferences
<1> QED
  BY <1>1, <1>2

LEMMA CatalogSteps ==
  ASSUME CatalogState, CatalogNext \/ UNCHANGED catalogVars
  PROVE  CatalogState'
<1>1. CASE ReadRelations
  BY <1>1 DEF CatalogState, ReadRelations, Allowed
<1>2. CASE ReadColumns \/ ReadConstraints
  BY <1>2 DEF CatalogState, ReadColumns, ReadConstraints, Allowed
<1>3. CASE Ddl
  BY <1>3 DEF CatalogState, Ddl, Allowed
<1>4. CASE UNCHANGED catalogVars
  BY <1>4 DEF CatalogState, catalogVars, Allowed
<1> QED
  BY <1>1, <1>2, <1>3, <1>4 DEF CatalogNext

(* However other sessions change the catalog between the queries of an     *)
(* introspection, and whatever its keys: columns are reported of tables    *)
(* asked for, those of a primary key are its own, and every reference is   *)
(* one that a foreign key makes, in place where the dialect knows places.  *)
THEOREM CatalogHolds == AdapterSpec => []CatalogInv
<1>1. AdapterInit => CatalogState
  <2> SUFFICES ASSUME CatalogInit PROVE CatalogState
    BY DEF AdapterInit
  <2> QED
    BY DEF CatalogInit, CatalogState
<1>2. CatalogState /\ [AdapterNext]_adapterVars => CatalogState'
  <2> SUFFICES ASSUME CatalogState, [AdapterNext]_adapterVars PROVE CatalogState'
    OBVIOUS
  <2>1. CatalogNext \/ UNCHANGED catalogVars
    BY DEF AdapterNext, PoolStep, JdbcStep, CatalogStep, TextStep, adapterVars
  <2> QED
    BY <2>1, CatalogSteps
<1>3. CatalogState => CatalogInv
  <2>1. CatalogState => ColumnsBelong
    BY DEF CatalogState, ColumnsBelong, ReportedColumns
  <2> QED
    BY <2>1, KeysTrue, ReferencesTrue DEF CatalogInv
<1> QED
  BY <1>1, <1>2, <1>3, PTL DEF AdapterSpec

-----------------------------------------------------------------------------
(* SqlReaders: a reading is a function defined by recursion over the places *)
(* of a text.  A set of numbers that has 0, and with each number the next, *)
(* is all of them: the induction of the lemmas below, by sets.             *)
LEMMA Induct ==
  ASSUME NEW S, 0 \in S, \A n \in Nat : n \in S => n + 1 \in S
  PROVE  Nat \subseteq S
<1> DEFINE Missed == {n \in Nat : n \notin S}
           Below == {p \in Nat \X Nat : p[1] < p[2]}
<1> SUFFICES ASSUME Missed # {} PROVE FALSE
  OBVIOUS
<1>1. PICK x \in Missed : \A y \in Missed : <<y, x>> \notin Below
  <2>1. IsWellFoundedOn(Below, Nat)
    BY NatLessThanWellFounded DEF OpToRel
  <2>2. Missed \subseteq Nat
    OBVIOUS
  <2> HIDE DEF Missed, Below
  <2> QED
    BY <2>1, <2>2, WFMin, Zenon
<1>2. x # 0 /\ x \in Nat
  OBVIOUS
<1>3. x - 1 \in Nat /\ x - 1 < x
  BY <1>2
<1>4. x - 1 \in S
  <2>1. <<x - 1, x>> \in Below
    BY <1>2, <1>3
  <2> QED
    BY <1>1, <1>3, <2>1
<1> QED
  BY <1>2, <1>3, <1>4

(* A reading is the steps of its reader, one for each piece.               *)
LEMMA RunIs ==
  ASSUME NEW r, NEW t, Len(t) \in Nat
  PROVE  /\ T!Run(r, t)[0] = T!Unread
         /\ \A k \in 1 .. Len(t) : T!Run(r, t)[k] = T!Read(r, T!Run(r, t)[k - 1], t[k])
<1> DEFINE n == Len(t)
           Is(f, m) == f = [k \in 0 .. m |-> IF k = 0 THEN T!Unread ELSE T!Read(r, f[k - 1], t[k])]
           S == {m \in Nat : \E f : Is(f, m)}
<1>1. 0 \in S
  <2> DEFINE f == [k \in 0 .. 0 |-> T!Unread]
  <2>1. f = [k \in 0 .. 0 |-> IF k = 0 THEN T!Unread ELSE T!Read(r, f[k - 1], t[k])]
    OBVIOUS
  <2> QED
    BY <2>1
<1>2. ASSUME NEW m \in Nat, m \in S PROVE m + 1 \in S
  <2>1. PICK f : Is(f, m)
    BY <1>2
  <2> DEFINE g == [k \in 0 .. m + 1 |-> IF k = m + 1 THEN T!Read(r, f[m], t[m + 1]) ELSE f[k]]
  <2>2. \A k \in 0 .. m : f[k] = IF k = 0 THEN T!Unread ELSE T!Read(r, f[k - 1], t[k])
    BY <2>1
  <2>3. \A k \in 0 .. m : g[k] = f[k] /\ k \in 0 .. m + 1
    OBVIOUS
  <2>4. g[m + 1] = T!Read(r, g[m], t[m + 1])
    BY <2>3
  <2>5. ASSUME NEW k \in 0 .. m + 1
        PROVE  g[k] = IF k = 0 THEN T!Unread ELSE T!Read(r, g[k - 1], t[k])
    <3>1. CASE k = m + 1
      <4>1. k # 0 /\ k - 1 = m
        BY <3>1
      <4> HIDE DEF g
      <4> QED
        BY <2>4, <3>1, <4>1
    <3>2. CASE k # m + 1 /\ k # 0
      <4>1. k \in 0 .. m /\ k - 1 \in 0 .. m
        BY <3>2
      <4> HIDE DEF g
      <4> QED
        BY <2>2, <2>3, <3>2, <4>1
    <3>3. CASE k = 0
      BY <2>2, <2>3, <3>3
    <3> QED
      BY <3>1, <3>2, <3>3
  <2>6. Is(g, m + 1)
    <3> DEFINE h == [k \in 0 .. m + 1 |-> IF k = 0 THEN T!Unread ELSE T!Read(r, g[k - 1], t[k])]
    <3>1. \A k \in 0 .. m + 1 : g[k] = h[k]
      BY <2>5
    <3> QED
      BY <3>1
  <2> HIDE DEF g
  <2> QED
    BY <2>6
<1>3. n \in S
  <2> HIDE DEF S
  <2> QED
    BY <1>1, <1>2, Induct
<1> DEFINE g == CHOOSE f : Is(f, n)
<1>4. Is(g, n)
  BY <1>3
<1>5. T!Run(r, t) = g
  BY DEF T!Run
<1>6. \A k \in 0 .. n : g[k] = IF k = 0 THEN T!Unread ELSE T!Read(r, g[k - 1], t[k])
  <2> HIDE DEF g
  <2> QED
    BY <1>4
<1> HIDE DEF g
<1> QED
  BY <1>5, <1>6

(* Two readers whose every step agrees read the same.                      *)
LEMMA RunsAgree ==
  ASSUME NEW r, NEW q, NEW t, Len(t) \in Nat,
         \A k \in 1 .. Len(t) : T!Read(q, T!Run(r, t)[k - 1], t[k]) = T!Read(r, T!Run(r, t)[k - 1], t[k])
  PROVE  \A k \in 0 .. Len(t) : T!Run(q, t)[k] = T!Run(r, t)[k]
<1> DEFINE S == {k \in Nat : k <= Len(t) => T!Run(q, t)[k] = T!Run(r, t)[k]}
<1>1. 0 \in S
  BY RunIs
<1>2. ASSUME NEW k \in Nat, k \in S PROVE k + 1 \in S
  <2> SUFFICES ASSUME k + 1 <= Len(t) PROVE T!Run(q, t)[k + 1] = T!Run(r, t)[k + 1]
    OBVIOUS
  <2>1. k + 1 \in 1 .. Len(t) /\ (k + 1) - 1 = k /\ T!Run(q, t)[k] = T!Run(r, t)[k]
    BY <1>2
  <2> QED
    BY <2>1, RunIs
<1>3. Nat \subseteq S
  <2> HIDE DEF S
  <2> QED
    BY <1>1, <1>2, Induct
<1> QED
  BY <1>3

(* What was read so far is the reading of that much of the text.           *)
LEMMA RunOfPrefix ==
  ASSUME NEW r, NEW X, NEW t \in Seq(X), NEW m \in 0 .. Len(t)
  PROVE  T!Reading(r, SubSeq(t, 1, m)) = T!Run(r, t)[m]
<1> DEFINE u == SubSeq(t, 1, m)
           S == {k \in Nat : k <= m => T!Run(r, u)[k] = T!Run(r, t)[k]}
<1>0. Len(t) \in Nat /\ Len(u) = m /\ m \in Nat /\ \A k \in 1 .. m : u[k] = t[k] /\ k \in 1 .. Len(t)
  OBVIOUS
<1> HIDE DEF u
<1>1. 0 \in S
  BY <1>0, RunIs
<1>2. ASSUME NEW k \in Nat, k \in S PROVE k + 1 \in S
  <2> SUFFICES ASSUME k + 1 <= m PROVE T!Run(r, u)[k + 1] = T!Run(r, t)[k + 1]
    OBVIOUS
  <2>1. k + 1 \in 1 .. m /\ (k + 1) - 1 = k /\ T!Run(r, u)[k] = T!Run(r, t)[k]
    BY <1>2
  <2>2. T!Run(r, u)[k + 1] = T!Read(r, T!Run(r, u)[k], u[k + 1])
    BY SMTT(40), <1>0, <2>1, RunIs
  <2>3. T!Run(r, t)[k + 1] = T!Read(r, T!Run(r, t)[k], t[k + 1])
    BY <1>0, <2>1, RunIs
  <2> QED
    BY <1>0, <2>1, <2>2, <2>3
<1>3. m \in S
  <2> HIDE DEF S
  <2> QED
    BY <1>0, <1>1, <1>2, Induct
<1> QED
  BY <1>0, <1>3 DEF u, T!Reading

(* A step of two readers that know the same of what they meet.             *)
LEMMA ReadSame ==
  ASSUME NEW r, NEW q, NEW s, NEW p,
         p \in q.lines <=> p \in r.lines, p \in q.opens <=> p \in r.opens,
         p = "open" /\ s.mode = "block" => (q.nests <=> r.nests),
         p = "backslash" /\ s.mode \notin {"code", "line", "block"} => (s.mode \in q.escapes <=> s.mode \in r.escapes)
  PROVE  T!Read(q, s, p) = T!Read(r, s, p)
<1>1. CASE s.mode = "code"
  BY <1>1 DEF T!Read
<1>2. CASE s.mode = "line"
  BY <1>2 DEF T!Read
<1>3. CASE s.mode = "block"
  BY <1>3 DEF T!Read
<1>4. CASE s.mode \notin {"code", "line", "block"}
  BY <1>4 DEF T!Read
<1> QED
  BY <1>1, <1>2, <1>3, <1>4
(* What a reader knows after k pieces: where it stands, that all its code   *)
(* is solid, and that it was in code where its last solid piece ended.     *)
Standing(r, t, k) ==
  LET s == T!Run(r, t)[k]
  IN /\ s.at = k /\ s.solid \in 0 .. k /\ s.code \subseteq 1 .. s.solid
     /\ s.mode \in {"code", "line", "block"} => T!Run(r, t)[s.solid].mode = "code"
     /\ \A j \in s.code : T!Run(r, t)[j - 1].mode = "code"

LEMMA StandingHolds ==
  ASSUME NEW r, NEW t, Len(t) \in Nat, r.opens \cap {"code", "line", "block"} = {}
  PROVE  \A k \in 0 .. Len(t) : Standing(r, t, k)
<1> DEFINE n == Len(t)
           run == T!Run(r, t)
           S == {k \in Nat : k <= n => Standing(r, t, k)}
<1>1. 0 \in S
  <2>1. run[0] = T!Unread
    BY RunIs
  <2> HIDE DEF run
  <2> QED
    BY <2>1 DEF Standing, T!Unread, run
<1>2. ASSUME NEW k \in Nat, k \in S PROVE k + 1 \in S
  <2> SUFFICES ASSUME k + 1 <= n PROVE Standing(r, t, k + 1)
    OBVIOUS
  <2>1. Standing(r, t, k)
    BY <1>2
  <2>2. run[k + 1] = T!Read(r, run[k], t[k + 1])
    <3>1. k + 1 \in 1 .. n /\ (k + 1) - 1 = k
      BY <1>2
    <3> QED
      BY <3>1, RunIs
  <2> DEFINE s == run[k]
             e == run[k + 1]
  <2>3. /\ s.at = k /\ s.solid \in 0 .. k /\ s.code \subseteq 1 .. s.solid
        /\ s.mode \in {"code", "line", "block"} => run[s.solid].mode = "code"
        /\ \A j \in s.code : run[j - 1].mode = "code"
    BY <2>1 DEF Standing
  <2> SUFFICES /\ e.at = k + 1 /\ e.solid \in 0 .. k + 1 /\ e.code \subseteq 1 .. e.solid
               /\ e.mode \in {"code", "line", "block"} => run[e.solid].mode = "code"
               /\ \A j \in e.code : run[j - 1].mode = "code"
    BY DEF Standing
  <2>4. /\ e.at = k + 1
        /\ \/ e.solid = s.solid /\ e.code = s.code
              /\ (e.mode \in {"code", "line", "block"} => s.mode \in {"code", "line", "block"})
           \/ e.solid = k + 1 /\ e.code = s.code /\ e.mode = "code"
           \/ e.solid = k + 1 /\ e.code = s.code \cup {k + 1} /\ s.mode = "code"
              /\ (e.mode \in {"code", "line", "block"} => e.mode = "code")
    <3> HIDE DEF run
    <3>1. CASE s.mode = "code"
      BY <2>2, <2>3, <3>1 DEF T!Read
    <3>2. CASE s.mode = "line"
      BY <2>2, <2>3, <3>2 DEF T!Read
    <3>3. CASE s.mode = "block"
      BY <2>2, <2>3, <3>3 DEF T!Read
    <3>4. CASE s.mode \notin {"code", "line", "block"}
      BY <2>2, <2>3, <3>4 DEF T!Read
    <3> QED
      BY <3>1, <3>2, <3>3, <3>4
  <2>5. e.solid \in 0 .. k + 1 /\ e.code \subseteq 1 .. e.solid
    <3> HIDE DEF run
    <3> QED
      BY <2>3, <2>4
  <2>6. e.mode \in {"code", "line", "block"} => run[e.solid].mode = "code"
    <3> HIDE DEF run
    <3> QED
      BY <2>3, <2>4
  <2>7. \A j \in e.code : run[j - 1].mode = "code"
    <3>1. (k + 1) - 1 = k
      OBVIOUS
    <3> HIDE DEF run
    <3> QED
      BY <2>3, <2>4, <3>1
  <2> QED
    BY <2>4, <2>5, <2>6, <2>7
<1>3. Nat \subseteq S
  <2> HIDE DEF S
  <2> QED
    BY <1>1, <1>2, Induct
<1> QED
  BY <1>3

(* A place of code that has been passed is known by then.                  *)
LEMMA CodeStays ==
  ASSUME NEW r, NEW t, Len(t) \in Nat, r.opens \cap {"code", "line", "block"} = {},
         NEW m \in 0 .. Len(t), NEW i \in T!Run(r, t)[Len(t)].code, i <= m
  PROVE  i \in T!Run(r, t)[m].code
<1> DEFINE n == Len(t)
           run == T!Run(r, t)
           S == {k \in Nat : m <= k /\ k <= n /\ i \in run[k].code => i \in run[m].code}
<1>1. 0 \in S
  OBVIOUS
<1>2. ASSUME NEW k \in Nat, k \in S PROVE k + 1 \in S
  <2> SUFFICES ASSUME m <= k, k + 1 <= n, i \in run[k + 1].code PROVE i \in run[k].code
    BY <1>2
  <2>1. k + 1 \in 1 .. n /\ (k + 1) - 1 = k /\ k \in 0 .. n
    BY <1>2
  <2>2. run[k + 1] = T!Read(r, run[k], t[k + 1]) /\ run[k].at = k
    <3>1. Standing(r, t, k)
      BY <2>1, StandingHolds
    <3> QED
      BY <2>1, <3>1, RunIs DEF Standing
  <2> HIDE DEF run
  <2>3. run[k + 1].code \subseteq run[k].code \cup {k + 1}
    BY <2>2 DEF T!Read
  <2> QED
    BY <2>3
<1>3. n \in S
  <2> HIDE DEF S
  <2> QED
    BY <1>1, <1>2, Induct
<1> QED
  BY <1>3

(* The pieces a text of a dialect may have, and what is known of the text. *)
PiecesOf(d) == T!Writing \cup T!Queries \cup T!Comments \cup T!Literals(d)
TextTypeOK == server \in T!Dialects /\ pieces \subseteq PiecesOf(server) /\ text \in Seq(PiecesOf(server))

LEMMA TextSteps ==
  ASSUME TextTypeOK, T!Type \/ UNCHANGED textVars
  PROVE  TextTypeOK'
<1>1. CASE T!Type
  <2>1. PICK p \in pieces : text' = Append(text, p)
    BY <1>1 DEF T!Type
  <2>2. server' = server /\ pieces' = pieces
    BY <1>1 DEF T!Type
  <2>3. PiecesOf(server') = PiecesOf(server)
    BY <2>2
  <2>4. Append(text, p) \in Seq(PiecesOf(server))
    BY <2>1 DEF TextTypeOK
  <2> QED
    BY <2>1, <2>2, <2>3, <2>4 DEF TextTypeOK
<1>2. CASE UNCHANGED textVars
  <2>1. PiecesOf(server') = PiecesOf(server)
    BY <1>2 DEF textVars
  <2> QED
    BY <1>2, <2>1 DEF textVars, TextTypeOK
<1> QED
  BY <1>1, <1>2

(* A reader that stands where the database does all along the text.        *)
ServerReader == T!Database(server)
ReadsAlike(q) == \A k \in 0 .. Len(text) : T!Run(q, text)[k] = T!Run(ServerReader, text)[k]

LEMMA ModeBefore ==
  ASSUME TextTypeOK, NEW k \in 1 .. Len(text)
  PROVE  T!Before(k) = T!Run(ServerReader, text)[k - 1].mode
<1>1. k - 1 \in 0 .. Len(text)
  BY DEF TextTypeOK
<1> QED
  BY <1>1, RunOfPrefix DEF TextTypeOK, T!Before, ServerReader

(* It does so if it knows the comments, quotes and escapes of this text.   *)
LEMMA ReadsAlikeWhen ==
  ASSUME TextTypeOK, NEW q,
         \A p \in PiecesOf(server) : (p \in q.lines <=> p \in ServerReader.lines) /\ (p \in q.opens <=> p \in ServerReader.opens),
         (q.nests <=> ServerReader.nests) \/ \A i \in 1 .. Len(text) : text[i] = "open" => T!Before(i) # "block",
         \A i \in 1 .. Len(text) :
           text[i] = "backslash" => (T!Before(i) \in q.escapes <=> T!Before(i) \in ServerReader.escapes)
  PROVE  ReadsAlike(q)
<1>1. Len(text) \in Nat /\ \A k \in 1 .. Len(text) : text[k] \in PiecesOf(server)
  BY DEF TextTypeOK
<1>2. ASSUME NEW k \in 1 .. Len(text)
      PROVE  T!Read(q, T!Run(ServerReader, text)[k - 1], text[k]) = T!Read(ServerReader, T!Run(ServerReader, text)[k - 1], text[k])
  <2>1. T!Before(k) = T!Run(ServerReader, text)[k - 1].mode
    BY ModeBefore
  <2> DEFINE s == T!Run(ServerReader, text)[k - 1]
             p == text[k]
  <2>2. p \in q.lines <=> p \in ServerReader.lines
    BY <1>1
  <2>3. p \in q.opens <=> p \in ServerReader.opens
    BY <1>1
  <2>4. p = "open" /\ s.mode = "block" => (q.nests <=> ServerReader.nests)
    BY <2>1
  <2>5. p = "backslash" /\ s.mode \notin {"code", "line", "block"} => (s.mode \in q.escapes <=> s.mode \in ServerReader.escapes)
    BY <2>1
  <2> HIDE DEF s, p
  <2>6. T!Read(q, s, p) = T!Read(ServerReader, s, p)
    BY <2>2, <2>3, <2>4, <2>5, ReadSame
  <2> QED
    BY <2>6 DEF s, p
<1> QED
  BY <1>1, <1>2, RunsAgree DEF ReadsAlike

LEMMA SplitterReadsTheSame == TextTypeOK => ReadsAlike(T!Splitter(server))
<1> SUFFICES ASSUME TextTypeOK PROVE ReadsAlike(T!Splitter(server))
  OBVIOUS
<1> DEFINE q == T!Splitter(server)
<1>0. \A i \in 1 .. Len(text) : text[i] \in PiecesOf(server)
  BY DEF TextTypeOK
<1>1. \A p \in PiecesOf(server) : (p \in q.lines <=> p \in ServerReader.lines) /\ (p \in q.opens <=> p \in ServerReader.opens)
  BY ZenonT(60)
  DEF TextTypeOK, PiecesOf, ServerReader, T!Dialects, T!Splitter, T!Database, T!Reader, T!Writing, T!Queries,
      T!Comments, T!Literals
<1>2. q.nests <=> ServerReader.nests
  BY DEF TextTypeOK, ServerReader, T!Dialects, T!Splitter, T!Database, T!Reader
<1>3. "backslash" \in PiecesOf(server) => q.escapes = ServerReader.escapes
  BY DEF TextTypeOK, PiecesOf, ServerReader, T!Dialects, T!Splitter, T!Database, T!Reader, T!Writing, T!Queries, T!Comments, T!Literals
<1> HIDE DEF q
<1> QED
  BY <1>0, <1>1, <1>2, <1>3, ReadsAlikeWhen DEF q

LEMMA LexerReadsTheSame == TextTypeOK /\ T!LexerKnows => ReadsAlike(T!Lexer(server))
<1> SUFFICES ASSUME TextTypeOK, T!LexerKnows PROVE ReadsAlike(T!Lexer(server))
  OBVIOUS
<1> DEFINE q == T!Lexer(server)
<1>0. \A i \in 1 .. Len(text) : text[i] \in PiecesOf(server) /\ i \in DOMAIN text
  BY DEF TextTypeOK
<1>1. \A p \in PiecesOf(server) : (p \in q.lines <=> p \in ServerReader.lines) /\ (p \in q.opens <=> p \in ServerReader.opens)
  <2>1. CASE server = "pg"
    BY <2>1 DEF PiecesOf, ServerReader, T!Lexer, T!Database, T!Reader
  <2>2. CASE server = "mysql"
    BY <2>2 DEF PiecesOf, ServerReader, T!Lexer, T!Database, T!Reader, T!Writing, T!Queries, T!Comments, T!Literals
  <2>3. CASE server = "mssql"
    BY <2>3 DEF PiecesOf, ServerReader, T!Lexer, T!Database, T!Reader, T!Writing, T!Queries, T!Comments, T!Literals
  <2>4. CASE server = "oracle"
    BY <2>4 DEF PiecesOf, ServerReader, T!Lexer, T!Database, T!Reader, T!Writing, T!Queries, T!Comments, T!Literals
  <2> QED
    BY <2>1, <2>2, <2>3, <2>4 DEF TextTypeOK, T!Dialects
<1>2. (q.nests <=> ServerReader.nests) \/ server = "mssql"
  BY DEF TextTypeOK, ServerReader, T!Dialects, T!Lexer, T!Database, T!Reader
<1>3. "backslash" \in PiecesOf(server) => q.escapes = ServerReader.escapes
  BY DEF TextTypeOK, PiecesOf, ServerReader, T!Dialects, T!Lexer, T!Database, T!Reader, T!Writing, T!Queries, T!Comments, T!Literals
<1> HIDE DEF q
<1> QED
  BY <1>0, <1>1, <1>2, <1>3, ReadsAlikeWhen DEF q, T!LexerKnows

LEMMA CapperReadsTheSame == TextTypeOK /\ T!CapperKnows => ReadsAlike(T!Capper(server))
<1> SUFFICES ASSUME TextTypeOK, T!CapperKnows PROVE ReadsAlike(T!Capper(server))
  OBVIOUS
<1> DEFINE q == T!Capper(server)
<1>0. \A i \in 1 .. Len(text) : i \in DOMAIN text
  BY DEF TextTypeOK
<1>1. q.lines = ServerReader.lines /\ q.opens = ServerReader.opens /\ (q.nests <=> ServerReader.nests)
  BY DEF TextTypeOK, ServerReader, T!Dialects, T!Capper, T!PostgresReader, T!MysqlReader, T!MssqlReader, T!OracleReader,
         T!Database, T!Reader
<1>2. \A i \in 1 .. Len(text) :
        text[i] = "backslash" => (T!Before(i) \in q.escapes <=> T!Before(i) \in ServerReader.escapes)
  BY <1>0 DEF T!CapperKnows, ServerReader
<1> HIDE DEF q
<1> QED
  BY <1>1, <1>2, ReadsAlikeWhen DEF q

(* Who reads as the database finds its code, or, if strict, none.          *)
LEMMA CodeReadAlike ==
  ASSUME TextTypeOK, NEW q, ReadsAlike(q)
  PROVE  /\ T!Code(ServerReader, text) = T!Run(ServerReader, text)[Len(text)].code
         /\ T!Code(q, text) \in {{}, T!Code(ServerReader, text)}
         /\ ~q.strict => T!Code(q, text) = T!Code(ServerReader, text)
<1>1. ~ServerReader.strict
  BY DEF TextTypeOK, T!Dialects, ServerReader, T!Database, T!Reader
<1>2. T!Run(q, text)[Len(text)] = T!Run(ServerReader, text)[Len(text)]
  BY DEF TextTypeOK, ReadsAlike
<1> QED
  BY <1>1, <1>2 DEF T!Code, T!Reading

(* Where the database finds code, and the last of such places.             *)
LEMMA PlacesOfCode ==
  ASSUME TextTypeOK
  PROVE  /\ ServerReader.opens \cap {"code", "line", "block"} = {}
         /\ T!Run(ServerReader, text)[Len(text)].code \subseteq 1 .. Len(text)
<1>1. ServerReader.opens \cap {"code", "line", "block"} = {}
  BY DEF TextTypeOK, T!Dialects, ServerReader, T!Database, T!Reader
<1>2. Len(text) \in Nat
  BY DEF TextTypeOK
<1>3. Standing(ServerReader, text, Len(text))
  BY <1>1, <1>2, StandingHolds
<1> QED
  BY <1>1, <1>2, <1>3 DEF Standing

LEMMA LatestIs ==
  ASSUME NEW n \in Nat, NEW C, C \subseteq 1 .. n, C # {}
  PROVE  \E i \in C : i = T!Latest(C) /\ \A j \in C : ~(j > i)
<1> DEFINE Most(m) == C \cap 1 .. m # {} => \E i \in C \cap 1 .. m : \A j \in C \cap 1 .. m : j <= i
           S == {m \in Nat : Most(m)}
<1>1. 0 \in S
  OBVIOUS
<1>2. ASSUME NEW m \in Nat, m \in S PROVE m + 1 \in S
  <2>1. CASE m + 1 \in C
    <3>1. m + 1 \in C \cap 1 .. m + 1 /\ \A j \in C \cap 1 .. m + 1 : j <= m + 1
      BY <2>1
    <3> QED
      BY <3>1
  <2>2. CASE m + 1 \notin C
    <3>1. C \cap 1 .. m + 1 = C \cap 1 .. m
      BY <2>2
    <3> QED
      BY <1>2, <3>1
  <2> QED
    BY <2>1, <2>2
<1>3. Most(n)
  <2>1. n \in S
    <3> HIDE DEF S
    <3> QED
      BY <1>1, <1>2, Induct
  <2> QED
    BY <2>1
<1>4. \E i \in C : \A j \in C : j <= i
  BY <1>3
<1>5. T!Latest(C) \in C /\ \A j \in C : j <= T!Latest(C)
  BY <1>4 DEF T!Latest
<1>6. PICK i \in C : i = T!Latest(C)
  BY <1>5
<1> QED
  BY <1>5, <1>6

LEMMA AgreementHolds == ASSUME TextTypeOK PROVE T!ReadersAgree
<1>1. T!Same(T!Splitter(server))
  <2>1. ~T!Splitter(server).strict
    BY DEF T!Splitter, T!Reader
  <2> QED
    BY <2>1, SplitterReadsTheSame, CodeReadAlike DEF T!Same, ServerReader
<1>2. T!LexerKnows => T!Same(T!Lexer(server))
  <2>1. ~T!Lexer(server).strict
    BY DEF T!Lexer, T!Reader
  <2> QED
    BY <2>1, LexerReadsTheSame, CodeReadAlike DEF T!Same, ServerReader
<1>3. T!CapperKnows /\ T!Code(T!Capper(server), text) # {} => T!Same(T!Capper(server))
  BY CapperReadsTheSame, CodeReadAlike DEF T!Same, ServerReader
<1> QED
  BY <1>1, <1>2, <1>3 DEF T!ReadersAgree

LEMMA RisksHold == ASSUME TextTypeOK PROVE T!RisksAreSeen
<1> DEFINE C == T!Code(T!Database(server), text)
           L == T!Code(T!Lexer(server), text)
<1>0. Len(text) \in Nat /\ C \subseteq 1 .. Len(text)
  BY PlacesOfCode, SplitterReadsTheSame, CodeReadAlike DEF TextTypeOK, ServerReader
<1> SUFFICES ASSUME T!LexerKnows
             PROVE  /\ \A i \in T!At(C, text, {"DELETE"}) :
                         (\A j \in T!At(C, text, {"WHERE"}) :
                            ~(i < j /\ T!SameStatement(C, text, i, j) /\ T!Depth(C, text, j) = T!Depth(C, text, i)))
                         => T!Risky(L, text)
                    /\ T!ReadOnly(L, text) \/ T!Explainable(L, text) =>
                         /\ T!At(C, text, {"DELETE", "UPDATE"}) = {}
                         /\ \A i \in T!At(C, text, {";"}) : ~\E j \in C : j > i /\ text[j] # ";"
  BY DEF T!RisksAreSeen
<1>1. L = C
  BY AgreementHolds DEF T!ReadersAgree, T!Same
<1> HIDE DEF C, L
<1>2. ASSUME NEW i \in T!At(C, text, {"DELETE"}),
             \A j \in T!At(C, text, {"WHERE"}) :
               ~(i < j /\ T!SameStatement(C, text, i, j) /\ T!Depth(C, text, j) = T!Depth(C, text, i))
      PROVE  T!Risky(C, text)
  <2>1. ~T!HasWhere(C, text, i)
    BY <1>2 DEF T!HasWhere
  <2>2. i \in T!At(C, text, {"DELETE", "UPDATE"})
    BY DEF T!At
  <2> QED
    BY <2>1, <2>2 DEF T!Risky
<1>3. ASSUME T!ReadOnly(C, text)
      PROVE  /\ T!At(C, text, {"DELETE", "UPDATE"}) = {}
             /\ \A i \in T!At(C, text, {";"}) : ~\E j \in C : j > i /\ text[j] # ";"
  <2>1. T!At(C, text, T!Writes) = {} /\ \A i \in T!At(C, text, {";"}) : ~\E j \in C : j > i /\ text[j] # ";"
    BY <1>3 DEF T!ReadOnly
  <2> QED
    BY <2>1 DEF T!At, T!Writes
<1>4. ASSUME T!Explainable(C, text)
      PROVE  /\ T!At(C, text, {"DELETE", "UPDATE"}) = {}
             /\ \A i \in T!At(C, text, {";"}) : ~\E j \in C : j > i /\ text[j] # ";"
  <2>1. /\ C # {} /\ T!At(C, text, {";"}) \subseteq {T!Latest(C)}
        /\ T!At(C, text, {"DELETE", "UPDATE"}) = {}
    BY <1>4 DEF T!Explainable
  <2>2. PICK l \in C : l = T!Latest(C) /\ \A j \in C : ~(j > l)
    BY <1>0, <2>1, LatestIs
  <2>3. \A i \in T!At(C, text, {";"}) : \A j \in C : ~(j > i)
    BY <1>0, <2>1, <2>2
  <2> QED
    BY <2>1, <2>3
<1> QED
  BY <1>1, <1>2, <1>3, <1>4

(* Where the statement ends that gets a limit, and what was read by then.  *)
LEMMA CapHolds == ASSUME TextTypeOK PROVE T!CapIsSafe
<1> DEFINE C == T!Code(T!Database(server), text)
           K == T!Code(T!Capper(server), text)
           n == Len(text)
           run == T!Run(ServerReader, text)
           ends == T!Top(C, text, {";"})
           c == T!CapAt(server, text)
<1> SUFFICES ASSUME T!CapperKnows, T!MayCap(server, K, text),
                    T!Reading(T!Database(server), text).mode \in {"code", "line"}
             PROVE  /\ text[T!First(C)] = "SELECT"
                    /\ server # "oracle" => ~\E i \in ends : \E j \in C : j > i
                    /\ server \in {"pg", "mysql"} =>
                         /\ T!Top(C, text, {"LIMIT"}) = {}
                         /\ T!Reading(T!Database(server), SubSeq(text, 1, c)).mode = "code"
                         /\ \A i \in C : i > c => text[i] = ";"
  BY DEF T!CapIsSafe
<1>1. K = C /\ C = run[n].code /\ K # {}
  <2>1. K # {}
    BY DEF T!MayCap
  <2> QED
    BY <2>1, CapperReadsTheSame, CodeReadAlike DEF ServerReader
<1>2. n \in Nat /\ C \subseteq 1 .. n /\ ServerReader.opens \cap {"code", "line", "block"} = {}
  BY <1>1, PlacesOfCode DEF TextTypeOK
<1>3. T!MayCap(server, C, text)
  BY <1>1
<1>4. PICK l \in C : l = T!Latest(C) /\ \A j \in C : ~(j > l)
  BY <1>1, <1>2, LatestIs
<1>5. \A m \in 0 .. n : Standing(ServerReader, text, m)
  BY <1>2, StandingHolds
<1>6. run[n].mode \in {"code", "line"}
  BY DEF ServerReader, T!Reading
<1>7. ReadsAlike(T!Capper(server))
  BY CapperReadsTheSame
<1>8. /\ c = IF server = "mssql" THEN T!First(C)
             ELSE T!Reading(T!Capper(server), IF ends = {} THEN text ELSE SubSeq(text, 1, T!First(ends) - 1)).solid
  BY <1>1 DEF T!CapAt
<1> HIDE DEF C, K, run, c
<1>9. text[T!First(C)] = "SELECT"
  BY <1>3 DEF T!MayCap
<1>10. server # "oracle" => ends \subseteq {l}
  <2>1. CASE server = "pg"
    BY <1>3, <1>4, <2>1 DEF T!MayCap, T!PostgresCaps
  <2>2. CASE server = "mysql"
    BY <1>3, <1>4, <2>2 DEF T!MayCap, T!MysqlCaps
  <2>3. CASE server = "mssql"
    BY <1>3, <2>3 DEF T!MayCap, T!MssqlCaps, T!Top, T!At
  <2> QED
    BY <2>1, <2>2, <2>3 DEF TextTypeOK, T!Dialects
<1>11. server # "oracle" => ~\E i \in ends : \E j \in C : j > i
  BY <1>2, <1>4, <1>10
<1>12. ASSUME server \in {"pg", "mysql"}
       PROVE  /\ T!Top(C, text, {"LIMIT"}) = {}
              /\ T!Reading(T!Database(server), SubSeq(text, 1, c)).mode = "code"
              /\ \A i \in C : i > c => text[i] = ";"
  <2>1. T!Top(C, text, {"LIMIT"}) = {}
    <3>1. CASE server = "pg"
      BY <1>3, <3>1 DEF T!MayCap, T!PostgresCaps, T!Top, T!At
    <3>2. CASE server = "mysql"
      BY <1>3, <3>2 DEF T!MayCap, T!MysqlCaps, T!Top, T!At
    <3> QED
      BY <1>12, <3>1, <3>2
  <2>2. PICK m \in 0 .. n : /\ c = run[m].solid /\ run[m].mode \in {"code", "line"}
                           /\ \A i \in C : i > m => text[i] = ";"
    <3>1. CASE ends = {}
      <4>1. c = T!Run(T!Capper(server), text)[n].solid
        BY <1>8, <1>12, <3>1 DEF T!Reading
      <4>2. c = run[n].solid
        BY <1>2, <1>7, <4>1 DEF ReadsAlike, run
      <4>3. n \in 0 .. n /\ \A i \in C : ~(i > n)
        BY <1>2
      <4> QED
        BY <1>6, <4>2, <4>3
    <3>2. CASE ends # {}
      <4>1. ends = {l}
        BY <1>10, <1>12, <3>2
      <4>2. T!First(ends) = l
        <5>1. l \in ends /\ \A j \in ends : j = l
          BY <4>1
        <5> HIDE DEF ends
        <5>2. \A j \in ends : l <= j
          <6>1. l \in Int
            BY <1>2
          <6> QED
            BY <5>1, <6>1
        <5>3. T!First(ends) \in ends
          BY <5>1, <5>2 DEF T!First
        <5> QED
          BY <5>1, <5>3
      <4>3. l \in C /\ l \in 1 .. n /\ l - 1 \in 0 .. n
        BY <1>2, <1>4
      <4>4. text[l] = ";"
        <5>1. l \in ends
          BY <4>1
        <5> QED
          BY <5>1 DEF T!Top, T!At
      <4>5. c = run[l - 1].solid
        <5>1. c = T!Reading(T!Capper(server), SubSeq(text, 1, l - 1)).solid
          BY <1>8, <1>12, <3>2, <4>2
        <5>2. T!Reading(T!Capper(server), SubSeq(text, 1, l - 1)) = T!Run(T!Capper(server), text)[l - 1]
          BY <4>3, RunOfPrefix DEF TextTypeOK
        <5> QED
          BY <1>7, <4>3, <5>1, <5>2 DEF ReadsAlike, run
      <4>6. run[l - 1].mode = "code"
        BY <1>1, <1>2, <1>5, <4>3 DEF Standing, run
      <4>7. \A i \in C : i > l - 1 => i = l
        <5>1. \A i \in C : i \in Int
          BY <1>2
        <5> QED
          BY <1>4, <4>3, <5>1
      <4> QED
        BY <4>3, <4>4, <4>5, <4>6, <4>7
    <3> QED
      BY <3>1, <3>2
  <2>3. c \in 0 .. m /\ run[m].code \subseteq 1 .. c /\ run[c].mode = "code"
    BY <1>5, <2>2 DEF Standing, run
  <2>4. T!Reading(T!Database(server), SubSeq(text, 1, c)).mode = "code"
    <3>1. c \in 0 .. n
      BY <1>2, <2>3
    <3> QED
      BY <2>3, <3>1, RunOfPrefix DEF TextTypeOK, ServerReader, run
  <2>5. ASSUME NEW i \in C, i > c PROVE text[i] = ";"
    <3>1. ~(i <= m)
      <4> SUFFICES ASSUME i <= m PROVE i \in run[m].code
        BY <1>2, <2>3, <2>5
      <4> QED
        BY <1>1, <1>2, CodeStays DEF run
    <3>2. m \in Int /\ i \in Int
      BY <1>2
    <3>3. i > m
      BY <3>1, <3>2
    <3> QED
      BY <2>2, <3>3
  <2> QED
    BY <2>1, <2>4, <2>5
<1> QED
  BY <1>9, <1>11, <1>12

(* For a text of any length, in all that the readers know of its dialect,  *)
(* the editor, the warnings and the adapter find the code that the         *)
(* database finds: no DELETE without a WHERE goes by unseen, nothing is    *)
(* called read-only that writes, and a row limit lands in code, behind a   *)
(* single read.                                                            *)
THEOREM ReadersHold == AdapterSpec => []ReadersInv
<1>1. AdapterInit => TextTypeOK
  <2> SUFFICES ASSUME T!ReadersInit PROVE TextTypeOK
    BY DEF AdapterInit
  <2>1. pieces \subseteq PiecesOf(server)
    BY DEF T!ReadersInit, PiecesOf
  <2>2. text \in Seq(PiecesOf(server))
    <3>1. "SELECT" \in PiecesOf(server) /\ "DELETE" \in PiecesOf(server)
      BY DEF PiecesOf, T!Writing
    <3> HIDE DEF PiecesOf
    <3> DEFINE S == PiecesOf(server)
    <3> HIDE DEF S
    <3>2. <<"SELECT">> \in Seq(S) /\ <<"DELETE">> \in Seq(S)
      BY <3>1 DEF S
    <3>3. text \in {<<"SELECT">>, <<"DELETE">>}
      BY DEF T!ReadersInit
    <3> QED
      BY <3>2, <3>3 DEF S
  <2> QED
    BY <2>1, <2>2 DEF T!ReadersInit, TextTypeOK
<1>2. TextTypeOK /\ [AdapterNext]_adapterVars => TextTypeOK'
  <2> SUFFICES ASSUME TextTypeOK, [AdapterNext]_adapterVars PROVE TextTypeOK'
    OBVIOUS
  <2>1. T!Type \/ UNCHANGED textVars
    BY DEF AdapterNext, PoolStep, JdbcStep, CatalogStep, TextStep, adapterVars
  <2> QED
    BY <2>1, TextSteps
<1>3. TextTypeOK => ReadersInv
  BY AgreementHolds, RisksHold, CapHolds DEF ReadersInv, T!ReadersInv
<1> QED
  BY <1>1, <1>2, <1>3, PTL DEF AdapterSpec
=============================================================================
