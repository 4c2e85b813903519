------------------------------ MODULE RpcCalls ------------------------------
(***************************************************************************)
(* A call on its way to the backend and back: the clients (lib/backend.ts  *)
(* of the window, with its token, its retries and its abort, and           *)
(* backend-client.ts of the MCP server, with its one attempt and its       *)
(* timer), the connections between, which may break at any moment, and the *)
(* backend that reads, runs and answers each copy of the call, starting,   *)
(* closing down or dying meanwhile.  All statements are of one connection  *)
(* of a database.                                                          *)
(***************************************************************************)
EXTENDS Naturals, FiniteSets

CONSTANTS
  Runs,      \* calls that run a statement under the guard of the connection
  Writes,    \* calls that write without it (row.update, row.insert, ...)
  Tools,     \* calls of the MCP server
  Attempts,  \* how often the window sends one call (retries + 1, 5 in the code)
  MaxCalls,  \* bound: calls begun
  MaxBreaks, \* bound: connections that break by themselves
  None

VARIABLES
  token,     \* authTokenPromise
  call,      \* the calls as their client sees them
  aborted,   \* their signals
  place,     \* where the backend is with the copies it was sent
  open,      \* the copies whose connection holds
  noticed,   \* those whose signal the backend has aborted
  cancellation, \* of their statements: none, asked of the adapter, or back
  active,    \* activeQueries, for the one connection
  backend,
  executed,  \* the copies that reached the database or the bridge
  breaks     \* counts down to MaxBreaks

callVars ==
  <<token, call, aborted, place, open, noticed, cancellation, active, backend, executed,
    breaks>>

Calls == Runs \cup Writes \cup Tools
AttemptsOf(c) == IF c \in Tools THEN 1 ELSE Attempts

Copies == {r \in Calls \X (1 .. Attempts) : r[2] <= AttemptsOf(r[1])}

(* The window sends a call once at least, and what a call is decides what  *)
(* is done with it.                                                        *)
CallsAssumption ==
  /\ Attempts \in Nat \ {0}
  /\ Runs \cap Writes = {} /\ Tools \cap (Runs \cup Writes) = {}
  /\ None \notin Copies \cup {"result", "error", "lost", "aborted"}

Idle == [at |-> "idle", attempt |-> 0, got |-> None]

Init ==
  /\ token = "none"
  /\ call = [c \in Calls |-> Idle]
  /\ aborted = {}
  /\ place = [r \in Copies |-> "unsent"]
  /\ open = {} /\ noticed = {}
  /\ cancellation = [r \in Copies |-> "none"]
  /\ active = None
  /\ backend = "down"
  /\ executed = {}
  /\ breaks = 0

At(c, there) == call[c].at = there
Copy(c) == <<c, call[c].attempt>>
Ends(c, got) == [call EXCEPT ![c].at = "ended", ![c].got = got]

Wire == <<place, open, noticed, cancellation, active, backend, executed, breaks>>
Server == <<noticed, cancellation, active, backend, executed, breaks>>

-----------------------------------------------------------------------------
(* The clients. *)

(* A tool has the token from its descriptor; the window asks the shell     *)
(* once, however many calls wait for it.                                   *)
Begin(c) ==
  /\ At(c, "idle")
  /\ Cardinality({d \in Calls : ~At(d, "idle")}) < MaxCalls
  /\ call' = [call EXCEPT ![c].at = IF c \in Tools THEN "ready" ELSE "token"]
  /\ token' = IF c \notin Tools /\ token = "none" THEN "asked" ELSE token
  /\ UNCHANGED <<aborted, Wire>>

TokenArrives ==
  /\ token = "asked"
  /\ token' = "known"
  /\ UNCHANGED <<call, aborted, Wire>>

(* The promise is forgotten, so that the next call asks again. *)
TokenFails ==
  /\ token = "asked"
  /\ token' = "none"
  /\ call' = [c \in Calls |->
       IF At(c, "token") THEN [call[c] EXCEPT !.at = "ended", !.got = "error"] ELSE call[c]]
  /\ UNCHANGED <<aborted, Wire>>

(* fetch refuses a signal that is aborted already. *)
Fetch(c) ==
  /\ UNCHANGED <<token, aborted, Server>>
  /\ \/ /\ c \in aborted
        /\ call' = Ends(c, "aborted")
        /\ UNCHANGED <<place, open>>
     \/ /\ c \notin aborted
        /\ call' = [call EXCEPT ![c].at = "fetching", ![c].attempt = @ + 1]
        /\ place' = [place EXCEPT ![<<c, call[c].attempt + 1>>] = "sent"]
        /\ open' = open \cup {<<c, call[c].attempt + 1>>}

Send(c) ==
  /\ \/ At(c, "token") /\ token = "known"
     \/ At(c, "ready")
  /\ Fetch(c)

SleepOver(c) ==
  /\ At(c, "sleeping")
  /\ Fetch(c)

(* fetch rejects: the connection is refused, or broke before the answer.   *)
FetchFails(c) ==
  /\ At(c, "fetching") /\ Copy(c) \notin open
  /\ call' = IF call[c].attempt < AttemptsOf(c)
             THEN [call EXCEPT ![c].at = "sleeping"]
             ELSE Ends(c, "lost")
  /\ UNCHANGED <<token, aborted, Wire>>

(* The answer is read whole; one that breaks off is not asked for again.   *)
Receive(c) ==
  /\ At(c, "fetching")
  /\ place[Copy(c)] \in {"result", "error"}
  /\ \/ /\ Copy(c) \in open
        /\ call' = Ends(c, place[Copy(c)])
     \/ /\ Copy(c) \notin open
        /\ call' = Ends(c, "lost")
  /\ open' = open \ {Copy(c)}
  /\ UNCHANGED <<token, aborted, place, Server>>

(* The user stops a query, or the 125 s of the MCP client pass.  While it  *)
(* fetches, fetch rejects and its connection goes; a sleep and the token   *)
(* are waited for first.                                                   *)
Abort(c) ==
  /\ call[c].at \notin {"idle", "ended"} /\ c \notin aborted
  /\ c \notin Writes
  /\ aborted' = aborted \cup {c}
  /\ IF At(c, "fetching")
     THEN call' = Ends(c, "aborted") /\ open' = open \ {Copy(c)}
     ELSE UNCHANGED <<call, open>>
  /\ UNCHANGED <<token, place, Server>>

-----------------------------------------------------------------------------
(* The connections. *)

Break(r) ==
  /\ r \in open /\ breaks < MaxBreaks
  /\ open' = open \ {r}
  /\ breaks' = breaks + 1
  /\ UNCHANGED <<token, call, aborted, place, noticed, cancellation, active, backend>>
  /\ UNCHANGED executed

Refuse(r) ==
  /\ r \in open /\ place[r] = "sent" /\ backend # "up"
  /\ open' = open \ {r}
  /\ place' = [place EXCEPT ![r] = "gone"]
  /\ UNCHANGED <<token, call, aborted, Server>>

-----------------------------------------------------------------------------
(* The backend. *)

Client == <<token, call, aborted>>

Moved(r, there) == place' = [place EXCEPT ![r] = there]

(* What a request that has run is answered, and what it frees. *)
Answered(r, there) ==
  /\ Moved(r, there)
  /\ active' = IF active = r THEN None ELSE active

Execute(r) ==
  /\ Moved(r, "executing")
  /\ executed' = executed \cup {r}

(* The body is too large, cut short or no JSON: answered, not dispatched.  *)
ReadBodyFails(r) ==
  /\ place[r] = "sent" /\ backend = "up"
  /\ Moved(r, "error")
  /\ UNCHANGED <<Client, open, Server>>

(* /rpc: the body is whole and dispatched, whether or not its connection   *)
(* still holds.                                                            *)
Reach(r) ==
  /\ place[r] = "sent" /\ backend = "up" /\ r[1] \notin Tools
  /\ UNCHANGED <<Client, open, noticed, cancellation, backend, breaks>>
  /\ \/ r[1] \in Runs /\ active # None /\ Moved(r, "error") /\ UNCHANGED <<active, executed>>
     \/ /\ r[1] \in Runs /\ active = None /\ active' = r
        /\ Moved(r, "connecting") /\ UNCHANGED executed
     \/ r[1] \notin Runs /\ Execute(r) /\ UNCHANGED active

(* /mcp: the call goes to the bridge. *)
ReachMcp(r) ==
  /\ place[r] = "sent" /\ backend = "up" /\ r[1] \in Tools
  /\ Execute(r)
  /\ UNCHANGED <<Client, open, noticed, cancellation, active, backend, breaks>>

(* A mistake: the signal is not looked at again after the connect. *)
StillWantedAlways(r) == TRUE

(* The second throwIfAborted of withCancellableSession. *)
StillWanted(r) == r \notin noticed

Connected(r) ==
  /\ place[r] = "connecting"
  /\ UNCHANGED <<Client, open, noticed, cancellation, backend, breaks>>
  /\ \/ StillWanted(r) /\ Execute(r) /\ UNCHANGED active
     \/ ~StillWanted(r) /\ Answered(r, "error") /\ UNCHANGED executed

ConnectFails(r) ==
  /\ place[r] = "connecting"
  /\ Answered(r, "error")
  /\ UNCHANGED <<Client, open, noticed, cancellation, backend, executed, breaks>>

(* trackRequestAbort hears that the connection closed: a statement that    *)
(* runs is cancelled, once; what runs without the guard is not.            *)
Notice(r) ==
  /\ place[r] \in {"connecting", "executing"} /\ r \notin open \cup noticed
  /\ noticed' = noticed \cup {r}
  /\ cancellation' = IF r[1] \in Runs /\ place[r] = "executing"
                     THEN [cancellation EXCEPT ![r] = "asked"] ELSE cancellation
  /\ UNCHANGED <<Client, place, open, active, backend, executed, breaks>>

(* A mistake: the guard is given back before the cancel has come back. *)
MustWaitNever(r) == FALSE

(* A cancel that is under way is awaited before the guard is given back.   *)
MustWait(r) == cancellation[r] = "asked"

(* The work ends, by itself or because it was cancelled. *)
WorkEnds(r) ==
  /\ place[r] = "executing"
  /\ \E there \in {"result", "error"} :
       IF MustWait(r)
       THEN Moved(r, "cancelling") /\ UNCHANGED active
       ELSE Answered(r, there)
  /\ UNCHANGED <<Client, open, noticed, cancellation, backend, executed, breaks>>

CancelEnds(r) ==
  /\ cancellation[r] = "asked"
  /\ cancellation' = [cancellation EXCEPT ![r] = "back"]
  /\ IF place[r] = "cancelling" THEN Answered(r, "error") ELSE UNCHANGED <<place, active>>
  /\ UNCHANGED <<Client, open, noticed, backend, executed, breaks>>

(* The port answers, a while after the window began to call. *)
Starts ==
  /\ backend = "down" /\ \A r \in Copies : place[r] \in {"unsent", "sent", "gone"}
  /\ backend' = "up"
  /\ UNCHANGED <<Client, place, open, noticed, cancellation, active, executed, breaks>>

AtWork(r) == place[r] \in {"connecting", "executing", "cancelling"}

(* gracefulShutdown: the bridge answers what it holds; the server takes no *)
(* connection any more and waits for the requests it has.                  *)
Shutdown ==
  /\ backend = "up"
  /\ backend' = "closing"
  /\ place' = [r \in Copies |->
       IF r[1] \in Tools /\ place[r] = "executing" THEN "error" ELSE place[r]]
  /\ UNCHANGED <<Client, open, noticed, cancellation, active, executed, breaks>>

Gone ==
  /\ backend' = "gone"
  /\ open' = {} /\ noticed' = {} /\ active' = None
  /\ cancellation' = [r \in Copies |-> "none"]
  /\ place' = [r \in Copies |-> IF place[r] = "unsent" THEN "unsent" ELSE "gone"]
  /\ UNCHANGED <<Client, executed, breaks>>

Closed ==
  /\ backend = "closing"
  /\ \A r \in Copies : ~AtWork(r) /\ r \notin open
  /\ Gone

(* The shell kills it, or it dies. *)
Dies == backend \in {"up", "closing"} /\ Gone

-----------------------------------------------------------------------------
Next ==
  \/ \E c \in Calls :
       Begin(c) \/ Send(c) \/ SleepOver(c) \/ FetchFails(c) \/ Receive(c) \/ Abort(c)
  \/ \E r \in Copies :
       \/ Break(r) \/ Refuse(r) \/ ReadBodyFails(r) \/ Reach(r) \/ ReachMcp(r)
       \/ Connected(r) \/ ConnectFails(r) \/ Notice(r) \/ WorkEnds(r) \/ CancelEnds(r)
  \/ TokenArrives \/ TokenFails \/ Starts \/ Shutdown \/ Closed \/ Dies

(* The clients go on, the shell answers for the token, the event loop of   *)
(* the backend runs what it has and a connect and a cancel come back.      *)
(* Nothing says that a statement ends.                                     *)
Fairness ==
  /\ \A c \in Calls : WF_callVars(Send(c) \/ SleepOver(c) \/ FetchFails(c) \/ Receive(c))
  /\ \A r \in Copies :
         WF_callVars(Refuse(r) \/ Reach(r) \/ ReachMcp(r) \/ Connected(r) \/ Notice(r)
                     \/ CancelEnds(r))
  /\ WF_callVars(TokenArrives \/ TokenFails)

-----------------------------------------------------------------------------
Stages == {"idle", "token", "ready", "fetching", "sleeping", "ended"}

Places ==
  {"unsent", "sent", "connecting", "executing", "cancelling", "result", "error", "gone"}

TypeOK ==
  /\ token \in {"none", "asked", "known"}
  /\ call \in [Calls -> [at : Stages, attempt : Nat,
                         got : {None, "result", "error", "lost", "aborted"}]]
  /\ aborted \subseteq Calls
  /\ place \in [Copies -> Places]
  /\ open \subseteq Copies /\ noticed \subseteq Copies /\ executed \subseteq Copies
  /\ cancellation \in [Copies -> {"none", "asked", "back"}]
  /\ active \in Copies \cup {None}
  /\ backend \in {"down", "up", "closing", "gone"}
  /\ breaks \in Nat

(* fetchWithRetry sends a call no more often than it may, and the copies   *)
(* it sent are those up to its attempt.                                    *)
SentSoFar ==
  /\ \A c \in Calls :
       /\ call[c].attempt <= AttemptsOf(c)
       /\ call[c].at \in {"idle", "token", "ready"} => call[c].attempt = 0
       /\ At(c, "sleeping") => call[c].attempt < AttemptsOf(c)
       /\ At(c, "fetching") => call[c].attempt > 0
  /\ \A r \in Copies : place[r] = "unsent" <=> r[2] > call[r[1]].attempt

(* Only the copy a call waits for has a connection. *)
OneConnection ==
  \A r \in open : At(r[1], "fetching") /\ r[2] = call[r[1]].attempt

(* withCancellableSession: whatever breaks, is aborted or is sent again,   *)
(* at most one statement under the guard is at work, and a cancel is under *)
(* way only for the request that holds the guard: it never meets the       *)
(* statement of another.                                                   *)
OneStatement ==
  /\ \A r \in Copies : r[1] \in Runs /\ AtWork(r) => active = r
  /\ \A r \in Copies : cancellation[r] = "asked" =>
       r[1] \in Runs /\ active = r /\ place[r] \in {"executing", "cancelling"}
  /\ \A r \in Copies : place[r] = "cancelling" => cancellation[r] = "asked"

(* fetchWithRetry: what reached the backend is sent again only when the    *)
(* connection of every earlier copy is gone without an answer, so a call   *)
(* the backend answered is sent no more; and a result is the answer of the *)
(* copy sent last, which was executed.                                     *)
RepeatsOnlyWhatWasLost ==
  /\ \A r \in Copies : r[2] < call[r[1]].attempt => r \notin open
  /\ \A c \in Calls : call[c].got \in {"result", "error"} => At(c, "ended")
  /\ \A c \in Calls : call[c].got = "result" => Copy(c) \in executed
  /\ \A r \in Copies : place[r] \in {"executing", "cancelling", "result"} => r \in executed

CallsInv ==
  TypeOK /\ SentSoFar /\ OneConnection /\ OneStatement /\ RepeatsOnlyWhatWasLost

(* An aborted call ends whatever the backend does, and a statement whose   *)
(* caller is gone is cancelled or over: it does not run on for nobody.     *)
CallsSettle ==
  /\ \A c \in Calls : c \in aborted ~> At(c, "ended")
  /\ \A r \in Runs \X (1 .. Attempts) :
       place[r] = "executing" /\ r \notin open ~>
         place[r] # "executing" \/ cancellation[r] # "none"

=============================================================================
