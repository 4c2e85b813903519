---------------------------- MODULE JdbcSidecar ----------------------------
(***************************************************************************)
(* JDBC connections through the JVM sidecar: JdbcAdapter with its client   *)
(* in adapters-jdbc, the /jdbc contexts of Main.kt and                     *)
(* JdbcConnectionManager.  The backend and the sidecar each have their own *)
(* idea of which connections are open; requests and answers travel on      *)
(* connections of their own, so neither keeps an order, and the sidecar    *)
(* serves one request at a time.                                           *)
(***************************************************************************)
EXTENDS Naturals, FiniteSets

CONSTANTS
  Adapters,  \* instances of JdbcAdapter, each with its remote handle
  Calls,     \* calls of their methods
  None

VARIABLES
  method,          \* the method of each call
  of,          \* its adapter
  place,          \* where it is
  connected,   \* connected of each adapter
  connecting,  \* the call whose connect everybody waits for
  requests,    \* requests on their way to the sidecar
  serving,     \* the request it is serving
  answers,     \* answers on their way back
  handles,     \* connections of the sidecar
  statements,  \* activeStatements: the call whose statement is registered
  stopped,     \* calls whose statement was cancelled
  up           \* the sidecar runs

vars == <<method, of, place, connected, connecting, requests, serving, answers,
          handles, statements, stopped, up>>
sidecar == <<serving, handles, statements, stopped, up>>

Methods == {"query", "stream", "catalog", "test", "close", "cancel"}
Ended   == {"done", "failed"}

SidecarAssumption ==
  None \notin Calls \cup Adapters \cup Methods \cup [call : Calls, path : Methods \cup {"connect"}]

(* An adapter that is new, or one that earlier calls have connected. *)
Init ==
  /\ method     = [c \in Calls |-> None]
  /\ of         = [c \in Calls |-> None]
  /\ place      = [c \in Calls |-> "idle"]
  /\ handles    \in SUBSET Adapters
  /\ connected  = [a \in Adapters |-> a \in handles]
  /\ connecting = [a \in Adapters |-> None]
  /\ requests   = {}
  /\ serving    = None
  /\ answers    = {}
  /\ statements = [a \in Adapters |-> None]
  /\ stopped    = {}
  /\ up         = TRUE

Request(c, path)   == [call |-> c, path |-> path]
Answer(r, ok)      == [call |-> r.call, path |-> r.path, ok |-> ok]
(* Where a call is while it waits for the answer to a request. *)
WaitsFor(c, path)  == place[c] = path
Posted(cs, path)   == {Request(c, path) : c \in cs}

-----------------------------------------------------------------------------
(* The adapter.                                                            *)

(* What follows connect: a statement or a catalog query, the close of      *)
(* test, the close of close.                                               *)
AfterConnect(m, ok) ==
  IF ok THEN IF m \in {"test", "close"} THEN "close" ELSE m
  ELSE IF m \in {"test", "close"} THEN "done" ELSE "failed"

MustWait(a) == connecting[a] # None

FirstPlace(a, m) ==
  CASE m = "cancel" -> "cancel"
    [] m # "cancel" /\ MustWait(a) -> "waiting"
    [] m # "cancel" /\ ~MustWait(a) /\ connected[a] -> AfterConnect(m, TRUE)
    [] m # "cancel" /\ ~MustWait(a) /\ ~connected[a] -> IF m = "close" THEN "done" ELSE "connect"

(* A method is called.  The handlers let one runQuery of a connection run. *)
(* connect returns at once on a connected adapter and waits for a connect  *)
(* under way; close waits for it too and then closes what is connected.    *)
Start(c) ==
  /\ place[c] = "idle"
  /\ \E a \in Adapters, m \in Methods :
       LET next == FirstPlace(a, m)
       IN /\ m = "query" =>
               \A d \in Calls : method[d] = "query" /\ of[d] = a => place[d] \in Ended
          /\ method' = [method EXCEPT ![c] = m]
          /\ of' = [of EXCEPT ![c] = a]
          /\ place' = [place EXCEPT ![c] = next]
          /\ requests' = requests \cup
               IF next \in {"waiting", "done"} THEN {} ELSE Posted({c}, next)
          /\ connecting' = IF next = "connect" THEN [connecting EXCEPT ![a] = c] ELSE connecting
  /\ UNCHANGED <<connected, answers, sidecar>>

(* Mutant: who waits is resumed only when the connect succeeds. *)
ConnectedWakesOnSuccess(c, ok) ==
  LET a     == of[c]
      woken == {c} \cup {d \in Calls : ok /\ place[d] = "waiting" /\ of[d] = a}
      next  == [d \in woken |-> AfterConnect(method[d], ok)]
  IN /\ connected'  = [connected EXCEPT ![a] = @ \/ ok]
     /\ connecting' = [connecting EXCEPT ![a] = None]
     /\ place' = [d \in Calls |-> IF d \in woken THEN next[d] ELSE place[d]]
     /\ requests' = requests \cup
          {Request(d, next[d]) : d \in {e \in woken : next[e] \notin Ended}}

(* The answer of /jdbc/connect resumes the caller and all who wait.        *)
Connected(c, ok) ==
  LET a     == of[c]
      woken == {c} \cup {d \in Calls : place[d] = "waiting" /\ of[d] = a}
      next  == [d \in woken |-> AfterConnect(method[d], ok)]
  IN /\ connected'  = [connected EXCEPT ![a] = @ \/ ok]
     /\ connecting' = [connecting EXCEPT ![a] = None]
     /\ place' = [d \in Calls |-> IF d \in woken THEN next[d] ELSE place[d]]
     /\ requests' = requests \cup
          {Request(d, next[d]) : d \in {e \in woken : next[e] \notin Ended}}

(* Whatever the answer of /jdbc/close, the adapter is not connected.       *)
Closed(c) == connected' = [connected EXCEPT ![of[c]] = FALSE]

(* An answer arrives at the call that waits for it, or at nobody. *)
Receive(r) ==
  /\ answers' = answers \ {r}
  /\ IF place[r.call] # r.path THEN UNCHANGED <<place, connected, connecting, requests>>
     ELSE IF r.path = "connect" THEN Connected(r.call, r.ok)
     ELSE /\ IF r.path = "close" THEN Closed(r.call) ELSE UNCHANGED connected
          /\ place' = [place EXCEPT ![r.call] =
                      IF r.ok \/ method[r.call] = "test" THEN "done" ELSE "failed"]
          /\ UNCHANGED <<connecting, requests>>
  /\ UNCHANGED <<method, of, sidecar>>

(* The consumer of a stream goes: its fetch is given up, its reader hears  *)
(* no more, and the listener sends a cancel.                               *)
AbortStream(c) ==
  /\ WaitsFor(c, "stream")
  /\ place' = [place EXCEPT ![c] = "failed"]
  /\ requests' = requests \cup Posted({c}, "cancel")
  /\ UNCHANGED <<method, of, connected, connecting, answers, sidecar>>

-----------------------------------------------------------------------------
(* The sidecar.                                                            *)
Reply(r, ok) == answers' = answers \cup {Answer(r, ok)}

(* Without a sidecar, or without a connection, the request is refused. *)
Refused(r) ==
  /\ ~up \/ (serving = None /\ r.path \in {"query", "stream", "catalog"}
               /\ of[r.call] \notin handles)
  /\ requests' = requests \ {r}
  /\ Reply(r, FALSE)
  /\ UNCHANGED <<method, of, place, connected, connecting, sidecar>>

(* A driver is loaded, or a statement created; only a stream registers it. *)
Take(r) ==
  /\ up /\ serving = None
  /\ r.path = "connect" \/ (r.path \in {"query", "stream", "catalog"} /\ of[r.call] \in handles)
  /\ requests' = requests \ {r}
  /\ serving' = r
  /\ statements' = IF r.path = "stream" THEN [statements EXCEPT ![of[r.call]] = r.call]
                   ELSE statements
  /\ UNCHANGED <<method, of, place, connected, connecting, answers, handles, stopped, up>>

(* cancel finds what is registered, close forgets it and the connection. *)
TakeShort(r) ==
  /\ up /\ serving = None /\ r.path \in {"cancel", "close"}
  /\ requests' = requests \ {r}
  /\ LET a == of[r.call]
     IN /\ stopped' = stopped \cup ({statements[a]} \ {None})
        /\ statements' = IF r.path = "close" THEN [statements EXCEPT ![a] = None] ELSE statements
        /\ handles' = IF r.path = "close" THEN handles \ {a} ELSE handles
  /\ Reply(r, TRUE)
  /\ UNCHANGED <<method, of, place, connected, connecting, serving, up>>

(* Mutant: a handler that throws leaves its exchange open. *)
FinishAnsweringSuccess(ok) ==
  /\ serving' = None
  /\ IF ok THEN Reply(serving, ok) ELSE UNCHANGED answers
  /\ statements' = [statements EXCEPT ![of[serving.call]] = None]

Finish(ok) ==
  /\ serving' = None
  /\ Reply(serving, ok)
  /\ statements' = [statements EXCEPT ![of[serving.call]] = None]

(* The database answers, with an error at the latest: to a connect, which  *)
(* replaces a connection of the same handle, or to a statement.            *)
DatabaseAnswers ==
  /\ serving # None
  /\ \E ok \in BOOLEAN :
       /\ ok => serving.call \notin stopped
       /\ Finish(ok)
       /\ handles' = IF ok /\ serving.path = "connect" THEN handles \cup {of[serving.call]}
                     ELSE handles
  /\ UNCHANGED <<method, of, place, connected, connecting, requests, stopped, up>>

(* The process ends; fetch rejects what was sent to it. *)
SidecarDies ==
  /\ up
  /\ up' = FALSE
  /\ serving' = None
  /\ answers' = answers \cup {Answer(r, FALSE) : r \in {serving} \ {None}}
  /\ handles' = {}
  /\ statements' = [a \in Adapters |-> None]
  /\ UNCHANGED <<method, of, place, connected, connecting, requests, stopped>>

Deliver == \E r \in answers : Receive(r)
Serve   == \E r \in requests : Refused(r) \/ Take(r) \/ TakeShort(r)

Next ==
  \/ \E c \in Calls : Start(c) \/ AbortStream(c)
  \/ Deliver \/ Serve \/ DatabaseAnswers \/ SidecarDies

(* Messages arrive and the sidecar serves; the database need not answer.   *)
SlowFairness == WF_vars(Deliver) /\ WF_vars(Serve)

Fairness == SlowFairness /\ WF_vars(DatabaseAnswers)

Spec == Init /\ [][Next]_vars /\ Fairness

-----------------------------------------------------------------------------
Paths == (Methods \cup {"connect"}) \ {"test"}

TypeOK ==
  /\ method \in [Calls -> Methods \cup {None}]
  /\ of \in [Calls -> Adapters \cup {None}]
  /\ place \in [Calls -> Paths \cup Ended \cup {"idle", "waiting"}]
  /\ connected \in [Adapters -> BOOLEAN]
  /\ connecting \in [Adapters -> Calls \cup {None}]
  /\ requests \subseteq [call : Calls, path : Paths]
  /\ \A r \in requests : of[r.call] \in Adapters
  /\ serving \in [call : Calls, path : Paths] \cup {None}
  /\ answers \subseteq [call : Calls, path : Paths, ok : BOOLEAN]
  /\ handles \subseteq Adapters
  /\ statements \in [Adapters -> Calls \cup {None}]
  /\ stopped \subseteq Calls
  /\ up \in BOOLEAN

Closes(c) == method[c] \in {"test", "close"}

OneCloser(a) ==
  \A c, d \in Calls : of[c] = a /\ of[d] = a /\ Closes(c) /\ Closes(d) => c = d

(* While the sidecar runs, an adapter that thinks it is connected has its  *)
(* connection there and one that does not has none, but for a connect or a *)
(* close under way.  It takes one caller at a time of test and close: the  *)
(* answers of two closes and of the connect between them may be exchanged. *)
AdapterKnows ==
  \A a \in Adapters : up /\ OneCloser(a) =>
    (connected[a] <=> a \in handles)
      \/ \E c \in Calls : of[c] = a /\ (WaitsFor(c, "close") \/ WaitsFor(c, "connect"))

(* A call that waits for a connect or a close is asked for or answered     *)
(* once, and these are all the connects and closes there are.              *)
Asked(c, path) == Request(c, path) \in requests \/ serving = Request(c, path)

AskedOnce ==
  /\ \A c \in Calls, path \in {"connect", "close"} :
       /\ Asked(c, path) => WaitsFor(c, path)
       /\ Request(c, path) \in requests => serving # Request(c, path)
       /\ \A ok \in BOOLEAN : Answer(Request(c, path), ok) \in answers =>
            /\ WaitsFor(c, path) /\ ~Asked(c, path)
            /\ Answer(Request(c, path), ~ok) \notin answers
  /\ serving # None => serving.path \in {"connect", "query", "stream", "catalog"}

(* A connect under way finds no connection and has made one when it is     *)
(* answered so; a close under way finds one, which is gone when it is      *)
(* answered.                                                               *)
ChangesAreKnown ==
  \A c \in Calls :
    /\ WaitsFor(c, "connect") => ~connected[of[c]]
    /\ up /\ OneCloser(of[c]) /\ WaitsFor(c, "connect") =>
         /\ Asked(c, "connect") => of[c] \notin handles
         /\ \A ok \in BOOLEAN : Answer(Request(c, "connect"), ok) \in answers =>
              (ok <=> of[c] \in handles)
    /\ up /\ OneCloser(of[c]) /\ WaitsFor(c, "close") =>
         /\ connected[of[c]]
         /\ Asked(c, "close") => of[c] \in handles
         /\ \A ok \in BOOLEAN : Answer(Request(c, "close"), ok) \in answers =>
              ok /\ of[c] \notin handles

(* One connect of an adapter at a time, and everybody who waits waits for  *)
(* one that is under way.                                                  *)
OneConnect ==
  /\ \A c \in Calls :
       /\ place[c] = "idle" <=> of[c] = None
       /\ of[c] = None <=> method[c] = None
       /\ WaitsFor(c, "connect") <=> (of[c] # None /\ connecting[of[c]] = c)
       /\ WaitsFor(c, "close") => Closes(c)
       /\ place[c] = "waiting" => connecting[of[c]] # None
  /\ \A a \in Adapters : connecting[a] # None => of[connecting[a]] = a

(* What is registered for cancellation is the stream being served, so that *)
(* no cancel, which is served when nothing else is, ever finds a statement.*)
RegisteredIsServed ==
  /\ \A a \in Adapters : statements[a] # None =>
       serving = Request(statements[a], "stream") /\ of[statements[a]] = a
  /\ stopped = {}

SidecarInv ==
  /\ TypeOK /\ AdapterKnows /\ AskedOnce /\ ChangesAreKnown /\ OneConnect
  /\ RegisteredIsServed

(* Whatever fails, and if the sidecar is gone for good, every call ends.   *)
CallsEnd == \A c \in Calls : place[c] # "idle" ~> place[c] \in Ended

(* adapters-core/src/index.ts:56 "Cancela a query em andamento iniciada    *)
(* pela ultima chamada a runQuery": a query that is running when a cancel  *)
(* of its connection is sent ends, however long the database would take.   *)
CancelStopsQuery ==
  \A c, x \in Calls :
    /\ serving = Request(c, "query")
    /\ of[x] = of[c] /\ Request(x, "cancel") \in requests
    ~> place[c] \in Ended
=============================================================================
