------------------------- MODULE ConnectionSessions -------------------------
(***************************************************************************)
(* The sessions of saved connections: restoreConnections and the handlers  *)
(* connection.add, remove, test and listSchemas of                         *)
(* packages/backend/src/handlers.ts, with the keyring of keyring.ts and    *)
(* the saved rows (module MetadataCache has those in detail).  Handlers    *)
(* run between awaits: an action is what happens from the answer of one    *)
(* keyring call, or of one close(), to the next await.                     *)
(***************************************************************************)
EXTENDS Naturals

CONSTANTS
  Ids,          \* connection ids
  Touched,      \* bound: those that calls are about; the others are only restored
  Calls,        \* RPC calls; a call stands for the configuration and the password it carries
  Saved,        \* the configuration of a row an earlier version wrote, and its password
  MaxRestarts,  \* bound: how often the backend restarts
  None

Kinds == {"database", "legacy", "s3"}
Operations == {"add", "s3", "remove", "test"}
Secrets == Calls \cup {Saved}

ASSUME SessionsAssumption ==
  /\ Saved \notin Calls /\ None \notin Calls \cup Ids \cup Operations \cup {Saved}
  /\ Ids \cap Calls = {} /\ Touched \subseteq Ids
  /\ MaxRestarts \in Nat

VARIABLES
  rows,       \* saved connections: what configuration, of which kind
  keyring,    \* the password of each slot
  sessions,   \* the Map sessions
  adapters,   \* made by a call, or for an id at the start: none, open or closed
  restored,   \* connectionsRestored is resolved
  todo,       \* rows that restoreConnections has still to visit
  migrating,  \* the one whose password it is moving to the keyring
  op,         \* what each call does
  of,         \* for which id
  own,        \* with a password of its own
  at,         \* and where it is
  got,        \* the password a call read
  restarts,
  stuck,      \* calls that wait for a client which does not come back to its pool
  faults,     \* auxiliary: what has gone wrong with an id, as far as it explains its state
  promised    \* auxiliary: the password the last successful add left
vars == <<rows, keyring, sessions, adapters, restored, todo, migrating,
          op, of, own, at, got, restarts, stuck, faults, promised>>
call == <<op, of, own, at>>
boot == <<restored, todo, migrating, restarts>>
aux  == <<faults, promised>>

Adapters == Calls \cup Ids
Row      == [config : Secrets, kind : Kinds]
Session  == [config : Secrets, password : Secrets \cup {None}, adapter : Adapters]
Faults   == {"overlap", "unread", "unsaved", "broken"}
Places   == {"idle", "setting", "reading", "closing", "s3 closing", "s3 setting", "s3 reading",
             "s3 deleting", "removing", "deleting", "testing", "done", "failed"}

ASSUME NothingAssumption == None \notin Row \cup Session

(* Only rows of databases have an adapter to restore. *)
Restorable(table) == {i \in Ids : table[i] # None /\ table[i].kind # "s3"}

Init ==
  /\ rows \in [Ids -> {None} \cup [config : {Saved}, kind : Kinds]]
  /\ keyring \in [Ids -> {None, Saved}]
  /\ sessions  = [i \in Ids |-> None]
  /\ adapters  = [a \in Adapters |-> "none"]
  /\ todo      = Restorable(rows)
  /\ restored  = (todo = {})
  /\ migrating = None
  /\ op        = [c \in Calls |-> None]
  /\ of        = [c \in Calls |-> None]
  /\ own       = [c \in Calls |-> FALSE]
  /\ at        = [c \in Calls |-> "idle"]
  /\ got       = [c \in Calls |-> None]
  /\ restarts  = 0
  /\ stuck     = {}
  /\ faults    = [i \in Ids |-> {}]
  /\ promised  = [i \in Ids |-> None]

Under(c)   == at[c] \notin {"idle", "done", "failed"}
Busy(i)    == \E c \in Calls : Under(c) /\ of[c] = i /\ op[c] # "test"
Goto(c, p) == at' = [at EXCEPT ![c] = p] /\ UNCHANGED <<op, of, own>>
At(c, p)   == at[c] = p
Id(c)      == of[c]
Open(a)    == [adapters EXCEPT ![a] = "open"]

Fault(i, f)   == [faults EXCEPT ![i] = @ \cup {f}]
Mended(i, fs) == [faults EXCEPT ![i] = @ \ fs]

-----------------------------------------------------------------------------
(* restoreConnections: one row after another, awaiting the keyring.        *)
Visited(i) == /\ todo' = todo \ {i}
              /\ restored' = (todo \ {i} = {})

(* The keyring cannot be read, or the adapter cannot be made: no session. *)
SkipRestore(i) ==
  /\ migrating = None /\ i \in todo
  /\ Visited(i)
  /\ UNCHANGED <<rows, keyring, sessions, adapters, migrating, call, got, restarts, aux>>

RestoredSession(i, password) ==
  /\ sessions' = [sessions EXCEPT ![i] =
       [config |-> rows[i].config, password |-> password, adapter |-> i]]
  /\ adapters' = Open(i)

RestoreDatabase(i) ==
  /\ migrating = None /\ i \in todo
  /\ rows[i].kind = "database"
  /\ RestoredSession(i, keyring[i])
  /\ Visited(i)
  /\ UNCHANGED <<rows, keyring, migrating, call, got, restarts, aux>>

(* Mutant: the row is cleaned before the password is safe. *)
BeginMigrationRowFirst(i) ==
  /\ migrating = None /\ i \in todo
  /\ rows[i].kind = "legacy" /\ keyring[i] = None
  /\ migrating' = i
  /\ rows' = [rows EXCEPT ![i].kind = "database"]
  /\ UNCHANGED <<keyring, sessions, adapters, restored, todo, call, got, restarts, aux>>

(* An endpoint of an old version holds the password: it goes to the        *)
(* keyring first, unless one is there, and only then leaves the row.       *)
BeginMigration(i) ==
  /\ migrating = None /\ i \in todo
  /\ rows[i].kind = "legacy" /\ keyring[i] = None
  /\ migrating' = i
  /\ UNCHANGED <<rows, keyring, sessions, adapters, restored, todo, call, got, restarts, aux>>

StoreMigrated(i) ==
  /\ migrating = i /\ keyring[i] = None
  /\ keyring' = [keyring EXCEPT ![i] = rows[i].config]
  /\ UNCHANGED <<rows, sessions, adapters, restored, todo, migrating, call, got, restarts, aux>>

(* The password cannot be stored, or the row not be written. *)
MigrationFails(i) ==
  /\ migrating = i
  /\ migrating' = None
  /\ Visited(i)
  /\ UNCHANGED <<rows, keyring, sessions, adapters, call, got, restarts, aux>>

(* The clean row is written and the session made, if its adapter can be. *)
FinishMigration(i) ==
  /\ i \in todo /\ migrating \in {None, i}
  /\ rows[i].kind = "legacy" /\ keyring[i] # None
  /\ rows' = [rows EXCEPT ![i].kind = "database"]
  /\ RestoredSession(i, keyring[i]) \/ UNCHANGED <<sessions, adapters>>
  /\ migrating' = None
  /\ Visited(i)
  /\ UNCHANGED <<keyring, call, got, restarts, aux>>

RestoreStep ==
  /\ \E i \in Ids :
       \/ SkipRestore(i) \/ RestoreDatabase(i) \/ BeginMigration(i) \/ StoreMigrated(i)
       \/ MigrationFails(i) \/ FinishMigration(i)
  /\ UNCHANGED stuck

-----------------------------------------------------------------------------
(* A call begins once connectionsRestored is resolved.                     *)
Begin(c, what, i, with, place) ==
  /\ restored /\ At(c, "idle")
  /\ op'  = [op EXCEPT ![c] = what]
  /\ of'  = [of EXCEPT ![c] = i]
  /\ own' = [own EXCEPT ![c] = with]
  /\ at'  = [at EXCEPT ![c] = place]
  /\ faults' = IF what # "test" /\ Busy(i) THEN Fault(i, "overlap") ELSE faults
  /\ promised' = IF what # "test" /\ (with \/ what # "add")
                 THEN [promised EXCEPT ![i] = None] ELSE promised

StartAdd(c, i) ==
  /\ \E with \in BOOLEAN : Begin(c, "add", i, with, IF with THEN "setting" ELSE "reading")
  /\ UNCHANGED <<rows, keyring, sessions, adapters, got, boot>>

StartTest(c, i) ==
  /\ Begin(c, "test", i, FALSE, "reading")
  /\ UNCHANGED <<rows, keyring, sessions, adapters, got, boot>>

SetPassword(c) ==
  /\ At(c, "setting") \/ At(c, "s3 setting")
  /\ keyring' = [keyring EXCEPT ![Id(c)] = c]
  /\ Goto(c, IF At(c, "setting") THEN "reading" ELSE "s3 reading")
  /\ UNCHANGED <<rows, sessions, adapters, got, boot, aux>>

(* setPassword rejects: the handler throws. *)
SetFails(c) ==
  /\ At(c, "setting") \/ At(c, "s3 setting")
  /\ Goto(c, "failed")
  /\ UNCHANGED <<rows, keyring, sessions, adapters, got, boot, aux>>

(* readStoredPassword: what the keyring holds, or nothing when it fails.   *)
Answer(c) == {keyring[Id(c)], None}

(* close() of the previous adapter begins; its errors are ignored. *)
ClosePrevious(i) ==
  adapters' = IF sessions[i] = None THEN adapters
              ELSE [adapters EXCEPT ![sessions[i].adapter] = "closed"]

(* The session and the row, with no await between them.  The row cannot be *)
(* written when, say, its group has been deleted: the session is there all *)
(* the same.                                                               *)
Install(c, password) ==
  LET i == Id(c) IN
  /\ sessions' = [sessions EXCEPT ![i] = [config |-> c, password |-> password, adapter |-> c]]
  /\ \/ /\ rows' = [rows EXCEPT ![i] = [config |-> c, kind |-> "database"]]
        /\ Goto(c, "done")
        /\ faults' = IF password = None /\ keyring[i] # None
                     THEN [faults EXCEPT ![i] = (@ \ {"unsaved", "broken"}) \cup {"unread"}]
                     ELSE Mended(i, {"unsaved", "broken", "unread"})
        /\ promised' = IF own[c] THEN [promised EXCEPT ![i] = c] ELSE promised
     \/ /\ Goto(c, "failed")
        /\ faults' = [faults EXCEPT ![i] = (@ \ {"broken"}) \cup {"unsaved", "unread"}]
        /\ UNCHANGED <<rows, promised>>

(* The answer of the keyring: a password that cannot be read back fails    *)
(* the call; otherwise the previous adapter is closed first.               *)
Refused(c, password) == own[c] /\ password # c

ReadRefused(c) ==
  /\ At(c, "reading") /\ op[c] = "add"
  /\ \E password \in Answer(c) : Refused(c, password)
  /\ Goto(c, "failed")
  /\ UNCHANGED <<rows, keyring, sessions, adapters, got, boot, aux>>

ReadThenClose(c) ==
  /\ At(c, "reading") /\ op[c] = "add" /\ sessions[Id(c)] # None
  /\ \E password \in Answer(c) : ~Refused(c, password) /\ got' = [got EXCEPT ![c] = password]
  /\ ClosePrevious(Id(c))
  /\ Goto(c, "closing")
  /\ UNCHANGED <<rows, keyring, sessions, boot, aux>>

ReadAndInstall(c) ==
  /\ At(c, "reading") /\ op[c] = "add" /\ sessions[Id(c)] = None
  /\ \E password \in Answer(c) : ~Refused(c, password) /\ Install(c, password)
  /\ adapters' = Open(c)
  /\ UNCHANGED <<keyring, got, boot>>

InstallClosed(c) ==
  /\ At(c, "closing")
  /\ Install(c, got[c])
  /\ adapters' = Open(c)
  /\ got' = [got EXCEPT ![c] = None]
  /\ UNCHANGED <<keyring, boot>>

(* The constructor of the adapter throws, on an endpoint it cannot parse:  *)
(* the session of before keeps the adapter that was closed.                *)
MakeFails(c) ==
  /\ At(c, "closing") \/ (At(c, "reading") /\ sessions[Id(c)] = None /\ op[c] = "add")
  /\ Goto(c, "failed")
  /\ faults' = IF At(c, "closing") THEN Fault(Id(c), "broken") ELSE faults
  /\ UNCHANGED <<rows, keyring, sessions, adapters, got, boot, promised>>

-----------------------------------------------------------------------------
(* connection.add of S3: no adapter, the keys in the keyring.  After the   *)
(* previous adapter is closed its session is dropped.                      *)
Forget(i) == sessions' = [sessions EXCEPT ![i] = None]

(* With an Access Key ID the secret is set, when given, and must be there; *)
(* without one the old secret is deleted, and a new one is an error.       *)
S3Password(with) == IF with THEN {"s3 setting", "failed"} ELSE {"s3 reading", "s3 deleting"}

StartS3(c, i) ==
  /\ \E with \in BOOLEAN :
       IF sessions[i] # None
       THEN Begin(c, "s3", i, with, "s3 closing") /\ ClosePrevious(i) /\ UNCHANGED sessions
       ELSE (\E place \in S3Password(with) : Begin(c, "s3", i, with, place)) /\ UNCHANGED <<sessions, adapters>>
  /\ UNCHANGED <<rows, keyring, got, boot>>

S3Closed(c) ==
  /\ At(c, "s3 closing")
  /\ Forget(Id(c))
  /\ \E place \in S3Password(own[c]) : Goto(c, place)
  /\ UNCHANGED <<rows, keyring, adapters, got, boot, aux>>

S3Save(c) ==
  \/ /\ rows' = [rows EXCEPT ![Id(c)] = [config |-> c, kind |-> "s3"]]
     /\ Goto(c, "done")
     /\ promised' = IF own[c] THEN [promised EXCEPT ![Id(c)] = c] ELSE promised
  \/ Goto(c, "failed") /\ UNCHANGED <<rows, promised>>

S3Read(c) ==
  /\ At(c, "s3 reading")
  /\ \E secret \in Answer(c) :
       IF secret = None THEN Goto(c, "failed") /\ UNCHANGED <<rows, promised>> ELSE S3Save(c)
  /\ UNCHANGED <<keyring, sessions, adapters, got, boot, faults>>

(* deletePassword, whose errors are ignored. *)
DeletePassword(i) == keyring' \in {keyring, [keyring EXCEPT ![i] = None]}

S3Deleted(c) ==
  /\ At(c, "s3 deleting")
  /\ DeletePassword(Id(c))
  /\ S3Save(c)
  /\ UNCHANGED <<sessions, adapters, got, boot, faults>>

-----------------------------------------------------------------------------
(* Mutant: the session is left until the password is gone. *)
DropRowOnly(i) ==
  /\ rows' = [rows EXCEPT ![i] = None]
  /\ UNCHANGED sessions

(* connection.remove: the session and the row go together, then the        *)
(* password.                                                               *)
Drop(i) ==
  /\ Forget(i)
  /\ rows' = [rows EXCEPT ![i] = None]

StartRemove(c, i) ==
  /\ IF sessions[i] # None
     THEN Begin(c, "remove", i, FALSE, "removing") /\ ClosePrevious(i) /\ UNCHANGED <<rows, sessions>>
     ELSE Begin(c, "remove", i, FALSE, "deleting") /\ Drop(i) /\ UNCHANGED adapters
  /\ UNCHANGED <<keyring, got, boot>>

RemoveClosed(c) ==
  /\ At(c, "removing")
  /\ Drop(Id(c))
  /\ Goto(c, "deleting")
  /\ UNCHANGED <<keyring, adapters, got, boot, aux>>

(* Mutant: the call waits for a password that was never there. *)
RemoveDoneWithPassword(c) ==
  /\ At(c, "deleting") /\ keyring[Id(c)] # None
  /\ DeletePassword(Id(c))
  /\ Goto(c, "done")
  /\ UNCHANGED <<rows, sessions, adapters, got, boot, aux>>

RemoveDone(c) ==
  /\ At(c, "deleting")
  /\ DeletePassword(Id(c))
  /\ Goto(c, "done")
  /\ UNCHANGED <<rows, sessions, adapters, got, boot, aux>>

-----------------------------------------------------------------------------
(* connection.test and listSchemas: an adapter of their own, closed on     *)
(* every path.                                                             *)
TestOpens(c) ==
  /\ At(c, "reading") /\ op[c] = "test"
  /\ \/ adapters' = Open(c) /\ Goto(c, "testing")
     \/ Goto(c, "failed") /\ UNCHANGED adapters
  /\ UNCHANGED <<rows, keyring, sessions, got, boot, aux>>

TestEnds(c) ==
  /\ At(c, "testing")
  /\ adapters' = [adapters EXCEPT ![c] = "closed"]
  /\ \E end \in {"done", "failed"} : Goto(c, end)
  /\ UNCHANGED <<rows, keyring, sessions, got, boot, aux>>

(* The process ends, in closeBackendResources or by a crash, and another   *)
(* one starts: rows and keyring are what is left.                          *)
Restart ==
  /\ restarts < MaxRestarts
  /\ restarts'  = restarts + 1
  /\ sessions'  = [i \in Ids |-> None]
  /\ adapters'  = [a \in Adapters |-> "none"]
  /\ todo'      = Restorable(rows)
  /\ restored'  = (todo' = {})
  /\ migrating' = None
  /\ at' = [c \in Calls |-> IF Under(c) THEN "failed" ELSE at[c]]
  /\ got'  = [c \in Calls |-> None]
  /\ stuck' = {}
  /\ faults' = [i \in Ids |-> faults[i] \cap {"overlap"}]
  /\ UNCHANGED <<rows, keyring, op, of, own, promised>>

Closing(c) == at[c] \in {"closing", "s3 closing", "removing"}

(* close() does not answer.  That of PostgreSQL and MySQL is the end() of  *)
(* a pool and waits for the clients that are lent, of which one may never  *)
(* come back: its SELECT 1 has failed, nobody reads on in its stream, or   *)
(* its query does not end.  That of JDBC waits behind the query.           *)
CloseHangs(c) ==
  /\ Closing(c) \/ At(c, "testing")
  /\ c \notin stuck
  /\ stuck' = stuck \cup {c}
  /\ UNCHANGED <<rows, keyring, sessions, adapters, call, got, boot, aux>>

Start(c) ==
  /\ \E i \in Touched : StartAdd(c, i) \/ StartTest(c, i) \/ StartS3(c, i) \/ StartRemove(c, i)
  /\ UNCHANGED stuck

Continue(c) ==
  /\ c \notin stuck
  /\ \/ SetPassword(c) \/ SetFails(c) \/ ReadRefused(c) \/ ReadThenClose(c) \/ ReadAndInstall(c)
     \/ InstallClosed(c) \/ MakeFails(c) \/ S3Closed(c) \/ S3Read(c) \/ S3Deleted(c)
     \/ RemoveClosed(c) \/ RemoveDone(c) \/ TestOpens(c) \/ TestEnds(c)
  /\ UNCHANGED stuck

Next ==
  \/ RestoreStep \/ Restart
  \/ \E c \in Calls : Start(c) \/ Continue(c) \/ CloseHangs(c)

(* The event loop goes on, and keyring and database answer, if only with   *)
(* an error; and so does close(), unless it hangs.                         *)
Fairness == WF_vars(RestoreStep) /\ \A c \in Calls : WF_vars(Continue(c))

Spec == Init /\ [][Next]_vars /\ Fairness

-----------------------------------------------------------------------------
TypeOK ==
  /\ rows \in [Ids -> Row \cup {None}]
  /\ keyring \in [Ids -> Secrets \cup {None}]
  /\ sessions \in [Ids -> Session \cup {None}]
  /\ adapters \in [Adapters -> {"none", "open", "closed"}]
  /\ restored \in BOOLEAN
  /\ todo \subseteq Ids
  /\ migrating \in Ids \cup {None}
  /\ op \in [Calls -> Operations \cup {None}]
  /\ of \in [Calls -> Ids \cup {None}]
  /\ own \in [Calls -> BOOLEAN]
  /\ at \in [Calls -> Places]
  /\ got \in [Calls -> Secrets \cup {None}]
  /\ restarts \in 0 .. MaxRestarts
  /\ stuck \subseteq Calls
  /\ faults \in [Ids -> SUBSET Faults]
  /\ promised \in [Ids -> Calls \cup {None}]

InCourse(c) ==
  \/ op[c] = "add" /\ at[c] \in {"setting", "reading", "closing"}
  \/ op[c] = "s3" /\ at[c] \in {"s3 closing", "s3 setting", "s3 reading", "s3 deleting"}
  \/ op[c] = "remove" /\ at[c] \in {"removing", "deleting"}
  \/ op[c] = "test" /\ at[c] \in {"reading", "testing"}

(* However adds and removals of one id overlap: a session runs the         *)
(* configuration that is saved.  Only an add whose row could not be        *)
(* written leaves a session the next start will not know, and only an edit *)
(* to S3 that overlaps an add leaves one over a row without an adapter.    *)
SessionIsSaved == \A i \in Ids :
  sessions[i] # None /\ "unsaved" \notin faults[i] =>
    /\ rows[i] # None
    /\ \/ rows[i].kind # "s3" /\ rows[i].config = sessions[i].config
       \/ rows[i].kind = "s3" /\ "overlap" \in faults[i]

(* While no two calls of an id overlap no adapter is forgotten: one that   *)
(* is open is in the session of its id or belongs to a test under way.     *)
NothingLeaks == \A a \in Adapters :
  adapters[a] = "open" =>
    \/ \E i \in Ids : sessions[i] # None /\ sessions[i].adapter = a
    \/ a \in Calls /\ (At(a, "testing") \/ "overlap" \in faults[Id(a)])
    \/ a \in Ids /\ "overlap" \in faults[a]

(* A session can be used: its adapter is open, unless a call is closing it *)
(* or an adapter that could not be made has left it closed.                *)
SessionIsUsable == \A i \in Ids :
  sessions[i] # None /\ faults[i] \cap {"overlap", "broken"} = {} =>
    \/ adapters[sessions[i].adapter] = "open"
    \/ \E c \in Calls : Id(c) = i /\ Closing(c)

(* A password that connection.add accepted survives: through tests,        *)
(* edits without a password and restarts the keyring holds it, and         *)
(* the session has it unless reading it failed.                            *)
PasswordIsKept == \A i \in Ids :
  promised[i] # None /\ "overlap" \notin faults[i] =>
    /\ keyring[i] = promised[i]
    /\ sessions[i] # None /\ "unread" \notin faults[i] =>
         sessions[i].password = promised[i]

(* The start visits rows that have no session yet, and calls wait for it.  *)
StartFirst ==
  /\ restored <=> todo = {}
  /\ todo \subseteq Restorable(rows)
  /\ migrating # None => migrating \in todo
  /\ \A i \in todo : sessions[i] = None
  /\ \A c \in Calls : Under(c) => restored

(* What each operation goes through, and which adapters are whose.         *)
CallsInOrder ==
  /\ \A c \in Calls : Under(c) =>
       /\ InCourse(c)
       /\ at[c] \in {"setting", "s3 setting"} => own[c]
       /\ at[c] = "s3 deleting" => ~own[c]
  /\ \A i \in Ids : sessions[i] # None =>
       sessions[i].adapter \in {i} \cup {c \in Calls : op[c] = "add" /\ Id(c) = i}
  /\ \A c \in Calls : at[c] = "idle" => op[c] = None /\ adapters[c] # "open"
  /\ \A c \in Calls : at[c] # "idle" => Id(c) \in Ids

(* What a call that nothing overlaps has seen is still so.                 *)
OnlyCall(c) == \A d \in Calls : Under(d) /\ op[d] # "test" /\ Id(d) = Id(c) => d = c

SeenIsSo(c) ==
  /\ Closing(c) /\ sessions[Id(c)] # None => adapters[sessions[Id(c)].adapter] # "open"
  /\ at[c] \in {"s3 setting", "s3 reading", "s3 deleting"} => sessions[Id(c)] = None
  /\ At(c, "closing") => got[c] \in {None, keyring[Id(c)]}
  /\ At(c, "closing") /\ own[c] => got[c] = c
  /\ At(c, "s3 reading") /\ own[c] => keyring[Id(c)] = c
  /\ own[c] \/ op[c] # "add" => promised[Id(c)] = None

CallsAlone ==
  \A c \in Calls :
    Under(c) /\ op[c] # "test" /\ "overlap" \notin faults[Id(c)] => OnlyCall(c) /\ SeenIsSo(c)

ConnectionInv ==
  /\ TypeOK /\ SessionIsSaved /\ NothingLeaks /\ SessionIsUsable /\ PasswordIsKept
  /\ StartFirst /\ CallsInOrder /\ CallsAlone

(* The credential of an old endpoint is in the row or in the keyring until *)
(* some call touches the connection, whatever fails during the migration   *)
(* and however often the backend restarts.                                 *)
LegacyPasswordKept == [][\A i \in Ids :
  rows[i] # None /\ rows[i].kind = "legacy"
    => \/ rows'[i] = rows[i]
       \/ keyring'[i] # None
       \/ \E c \in Calls : Id(c) = i \/ of'[c] = i]_vars

(* The start ends, whatever the keyring does: every handler waits for      *)
(* connectionsRestored.  And every call gets an end, whatever the others   *)
(* of its id wait for, unless the close() it waits for itself hangs.       *)
EveryCallEnds ==
  (~restored ~> restored) /\ \A c \in Calls : Under(c) ~> ~Under(c) \/ c \in stuck
=============================================================================
