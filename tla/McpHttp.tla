------------------------------ MODULE McpHttp ------------------------------
(***************************************************************************)
(* The Streamable HTTP listener for MCP: mcp.http.start and mcp.http.stop  *)
(* of packages/backend/src/mcp-handlers.ts over the sessions of            *)
(* packages/mcp-server/src/index.ts, with their limit and their idle       *)
(* timers.  An action is the code between two awaits; requests are under   *)
(* way while the listener is stopped and another is started.               *)
(***************************************************************************)
EXTENDS Naturals, FiniteSets

CONSTANTS
  Servers,      \* HTTP servers, one for each start
  Sessions,     \* initialize requests, each with the session it makes
  Uses,         \* requests that name a session
  MaxSessions,
  None

HttpAssumption ==
  /\ IsFiniteSet(Sessions) /\ IsFiniteSet(Uses) /\ MaxSessions \in Nat
  /\ None \notin Servers \cup Sessions

VARIABLES
  server,      \* where the life of each server is
  httpServer,  \* the one in charge
  init,        \* where each initialize request is
  home,        \* the server it came to
  tracked,     \* the session is in state.sessions
  disposed,
  timer,       \* its idle timer is set
  active,      \* activeRequests
  use,         \* where each other request is
  on           \* the session it names

vars == <<server, httpServer, init, home, tracked, disposed, timer, active, use, on>>
listener == <<server, httpServer>>
session  == <<tracked, disposed, timer, active>>

Init ==
  /\ server     = [v \in Servers |-> "new"]
  /\ httpServer = None
  /\ init       = [s \in Sessions |-> "none"]
  /\ home       = [s \in Sessions |-> None]
  /\ tracked    = [s \in Sessions |-> FALSE]
  /\ disposed   = [s \in Sessions |-> FALSE]
  /\ timer      = [s \in Sessions |-> FALSE]
  /\ active     = [s \in Sessions |-> 0]
  /\ use        = [u \in Uses |-> "idle"]
  /\ on         = [u \in Uses |-> None]

Accepts(v)  == server[v] \in {"listening", "stopping"}
At(v)       == {s \in Sessions : home[s] = v}
Tracked(v)  == {s \in At(v) : tracked[s]}
InMaking    == {"connecting", "open", "failing"}
Pending(v)  == {s \in At(v) : init[s] \in InMaking}

-----------------------------------------------------------------------------
HasRoom(v) == Cardinality(Tracked(v)) + Cardinality(Pending(v)) < MaxSessions

(* disposeSession, as far as its first await. *)
Dispose(gone) ==
  /\ disposed' = [s \in Sessions |-> disposed[s] \/ s \in gone]
  /\ tracked'  = [s \in Sessions |-> tracked[s] /\ s \notin gone]
  /\ timer'    = [s \in Sessions |-> timer[s] /\ s \notin gone]

(* beginSessionRequest. *)
Begins(s) ==
  /\ active' = [active EXCEPT ![s] = @ + 1]
  /\ timer'  = [timer EXCEPT ![s] = FALSE]

(* Mutant: only the initialize request sets the timer. *)
EndsOfOne(s) ==
  /\ active' = [active EXCEPT ![s] = @ - 1]
  /\ timer'  = [timer EXCEPT ![s] =
                  @ \/ (active[s] = 1 /\ tracked[s] /\ init[s] = "open")]

(* endSessionRequest: the last one sets the idle timer. *)
Ends(s) ==
  /\ active' = [active EXCEPT ![s] = @ - 1]
  /\ timer'  = [timer EXCEPT ![s] = @ \/ (active[s] = 1 /\ tracked[s] /\ ~disposed[s])]

-----------------------------------------------------------------------------
(* The listener.                                                           *)
Starting == \E v \in Servers : server[v] = "binding"

(* mcp.http.start.  startingHttp lasts until listen has succeeded or not.  *)
StartHttp(v) ==
  /\ server[v] = "new" /\ httpServer = None /\ ~Starting
  /\ server' = [server EXCEPT ![v] = "binding"]
  /\ UNCHANGED <<httpServer, init, home, session, use, on>>

Listens(v) ==
  /\ server[v] = "binding"
  /\ server' = [server EXCEPT ![v] = "listening"]
  /\ httpServer' = v
  /\ UNCHANGED <<init, home, session, use, on>>

(* The port is taken, perhaps by a listener that is still being stopped.   *)
PortTaken(v) ==
  /\ server[v] = "binding"
  /\ server' = [server EXCEPT ![v] = "closed"]
  /\ UNCHANGED <<httpServer, init, home, session, use, on>>

(* mcp.http.stop, and the end of the backend: the sessions there are go    *)
(* first, while requests are still accepted.                               *)
StopHttp ==
  /\ httpServer # None /\ ~Starting
  /\ server' = [server EXCEPT ![httpServer] = "stopping"]
  /\ httpServer' = None
  /\ Dispose(Tracked(httpServer))
  /\ UNCHANGED <<init, home, active, use, on>>

(* closeHttpListener: what is being read breaks off, what is handled goes  *)
(* on without its client.                                                  *)
CloseListener(v) ==
  /\ server[v] = "stopping"
  /\ server' = [server EXCEPT ![v] = "closing"]
  /\ init' = [s \in Sessions |-> IF s \in At(v) /\ init[s] = "reading" THEN "over" ELSE init[s]]
  /\ use'  = [u \in Uses |-> IF use[u] = "reading" /\ on[u] \in At(v) THEN "idle" ELSE use[u]]
  /\ UNCHANGED <<httpServer, home, session, on>>

(* The event close of the server disposes of what has come since. *)
Closed(v) ==
  /\ server[v] = "closing"
  /\ server' = [server EXCEPT ![v] = "closed"]
  /\ Dispose(Tracked(v))
  /\ UNCHANGED <<httpServer, init, home, active, use, on>>

-----------------------------------------------------------------------------
(* initialize.                                                             *)
InitRequest(s) ==
  /\ init[s] = "none"
  /\ \E v \in Servers : Accepts(v) /\ home' = [home EXCEPT ![s] = v]
  /\ init' = [init EXCEPT ![s] = "reading"]
  /\ UNCHANGED <<listener, session, use, on>>

(* The body has been read: 400, 503, or a session is made. *)
InitBody(s) ==
  /\ init[s] = "reading"
  /\ \/ init' = [init EXCEPT ![s] = "over"] /\ UNCHANGED session
     \/ /\ HasRoom(home[s])
        /\ init' = [init EXCEPT ![s] = "connecting"]
        /\ Begins(s)
        /\ UNCHANGED <<tracked, disposed>>
  /\ UNCHANGED <<listener, home, use, on>>

(* onsessioninitialized. *)
SessionInitialized(s) ==
  /\ init[s] = "connecting"
  /\ init'    = [init EXCEPT ![s] = "open"]
  /\ tracked' = [tracked EXCEPT ![s] = TRUE]
  /\ UNCHANGED <<listener, home, disposed, timer, active, use, on>>

InitAnswered(s) ==
  /\ init[s] = "open"
  /\ init' = [init EXCEPT ![s] = "over"]
  /\ Ends(s)
  /\ UNCHANGED <<listener, home, tracked, disposed, use, on>>

(* An error, or a status of 400 and more. *)
InitFails(s) ==
  /\ init[s] \in {"connecting", "open"}
  /\ init' = [init EXCEPT ![s] = "failing"]
  /\ Dispose({s})
  /\ UNCHANGED <<listener, home, active, use, on>>

(* Its server is closed; until then it counts against the limit. *)
InitFailed(s) ==
  /\ init[s] = "failing"
  /\ init' = [init EXCEPT ![s] = "over"]
  /\ Ends(s)
  /\ UNCHANGED <<listener, home, tracked, disposed, use, on>>

-----------------------------------------------------------------------------
(* Requests of a session.                                                  *)

(* The session is looked up before the body is read.  GET and DELETE have  *)
(* none.                                                                   *)
Request(u, s) ==
  /\ use[u] = "idle" /\ tracked[s] /\ Accepts(home[s])
  /\ on' = [on EXCEPT ![u] = s]
  /\ \/ use' = [use EXCEPT ![u] = "reading"] /\ UNCHANGED session
     \/ /\ use' = [use EXCEPT ![u] = "handling"]
        /\ Begins(s)
        /\ UNCHANGED <<tracked, disposed>>
  /\ UNCHANGED <<listener, init, home>>

(* By now the session may be gone. *)
Body(u) ==
  /\ use[u] = "reading"
  /\ \/ use' = [use EXCEPT ![u] = "idle"] /\ UNCHANGED session
     \/ /\ use' = [use EXCEPT ![u] = "handling"]
        /\ Begins(on[u])
        /\ UNCHANGED <<tracked, disposed>>
  /\ UNCHANGED <<listener, init, home, on>>

(* DELETE: onsessionclosed forgets the session while it is being handled.  *)
Deleted(u) ==
  /\ use[u] = "handling" /\ tracked[on[u]]
  /\ tracked' = [tracked EXCEPT ![on[u]] = FALSE]
  /\ timer'   = [timer EXCEPT ![on[u]] = FALSE]
  /\ UNCHANGED <<listener, init, home, disposed, active, use, on>>

Answered(u) ==
  /\ use[u] = "handling"
  /\ use' = [use EXCEPT ![u] = "idle"]
  /\ Ends(on[u])
  /\ UNCHANGED <<listener, init, home, tracked, disposed, on>>

(* Mutant: the timer of a session that was used in between is set again.   *)
IdleTimerAgain(s) ==
  /\ timer[s]
  /\ IF \E u \in Uses : on[u] = s THEN UNCHANGED <<tracked, disposed, timer>>
     ELSE Dispose({s})
  /\ UNCHANGED <<listener, init, home, active, use, on>>

IdleTimer(s) ==
  /\ timer[s]
  /\ Dispose({s})
  /\ UNCHANGED <<listener, init, home, active, use, on>>

Next ==
  \/ \E v \in Servers :
       StartHttp(v) \/ Listens(v) \/ PortTaken(v) \/ CloseListener(v) \/ Closed(v)
  \/ StopHttp
  \/ \E s \in Sessions :
       \/ InitRequest(s) \/ InitBody(s) \/ SessionInitialized(s)
       \/ InitAnswered(s) \/ InitFails(s) \/ InitFailed(s) \/ IdleTimer(s)
       \/ \E u \in Uses : Request(u, s)
  \/ \E u \in Uses : Body(u) \/ Deleted(u) \/ Answered(u)

(* Timers run, a listener that is being closed is closed, initialize ends  *)
(* and the SDK answers the requests of a session it has not closed.        *)
Fairness ==
  /\ \A v \in Servers : WF_vars(CloseListener(v)) /\ WF_vars(Closed(v))
  /\ \A s \in Sessions :
       WF_vars(IdleTimer(s)) /\ WF_vars(InitAnswered(s) \/ InitFails(s)) /\ WF_vars(InitFailed(s))
  /\ \A u \in Uses : WF_vars(use[u] = "handling" /\ tracked[on[u]] /\ Answered(u))

Spec == Init /\ [][Next]_vars /\ Fairness

-----------------------------------------------------------------------------
TypeOK ==
  /\ server     \in [Servers -> {"new", "binding", "listening", "stopping", "closing", "closed"}]
  /\ httpServer \in Servers \cup {None}
  /\ init       \in [Sessions -> {"none", "reading", "over"} \cup InMaking]
  /\ home       \in [Sessions -> Servers \cup {None}]
  /\ tracked    \in [Sessions -> BOOLEAN]
  /\ disposed   \in [Sessions -> BOOLEAN]
  /\ timer      \in [Sessions -> BOOLEAN]
  /\ active     \in [Sessions -> Nat]
  /\ use        \in [Uses -> {"idle", "reading", "handling"}]
  /\ on         \in [Uses -> Sessions \cup {None}]

(* No session lives for ever: one that is in the map is in use or has its  *)
(* idle timer set, and a timer is set only for a session nobody uses.      *)
TrackedIsWatched ==
  \A s \in Sessions :
    /\ tracked[s] => ~disposed[s] /\ (active[s] > 0 \/ timer[s])
    /\ timer[s] => tracked[s] /\ active[s] = 0

(* activeRequests counts what is under way, whatever became of the session.*)
ActiveCounts ==
  \A s \in Sessions :
    active[s] = Cardinality({u \in Uses : use[u] = "handling" /\ on[u] = s})
                + (IF init[s] \in InMaking THEN 1 ELSE 0)

(* A listener that accepts requests is the one in charge or is being       *)
(* stopped: none is left that stop no longer reaches.                      *)
NoStrayListener ==
  /\ \A v \in Servers : server[v] = "listening" <=> httpServer = v
  /\ httpServer # None => ~Starting

(* maxSessions bounds the sessions of a listener and the ones in the       *)
(* making together.                                                        *)
WithinCapacity ==
  \A v \in Servers : Cardinality(Tracked(v) \cup Pending(v)) <= MaxSessions

(* A session is in the map from onsessioninitialized on, and once only; a  *)
(* request is of a session; and one start of a listener is under way.      *)
InOrder ==
  /\ \A s \in Sessions : init[s] \in {"none", "reading", "connecting"} =>
       ~tracked[s] /\ ~disposed[s]
  /\ \A u \in Uses : use[u] # "idle" => on[u] \in Sessions
  /\ \A v, w \in Servers : server[v] = "binding" /\ server[w] = "binding" => v = w

HttpInv ==
  /\ TypeOK /\ TrackedIsWatched /\ ActiveCounts /\ NoStrayListener /\ WithinCapacity
  /\ InOrder

(* docs/MCP.md:76 "Parar HTTP encerra as sessoes": a session of a listener *)
(* that was stopped goes, even one whose initialize came to its end after  *)
(* the listener was closed.  And sessions nobody uses expire.              *)
SessionsEnd ==
  /\ \A s \in Sessions :
       tracked[s] /\ server[home[s]] \in {"stopping", "closing", "closed"} ~> ~tracked[s]
  /\ <>[](\A u \in Uses : use[u] = "idle") => <>[](\A s \in Sessions : ~tracked[s])
=============================================================================
