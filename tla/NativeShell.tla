---------------------------- MODULE NativeShell ----------------------------
(***************************************************************************)
(* The desktop shell as supervisor of its two child processes, lib.rs: the *)
(* start, the commands that stop, restart and update, which run one at a   *)
(* time on the main thread, the thread that waits for the backend and then *)
(* watches it, the thread that waits for the JVM sidecar, and processes    *)
(* that end when they like, the shell included.  A section under the mutex *)
(* of a child's slot is one step.                                          *)
(***************************************************************************)
VARIABLES
  windows,   \* the platform: children belong to a job that ends with the shell
  running,   \* the shell runs
  child,     \* the process of each kind: gone, starting or up
  slot,      \* BackendChild and SidecarChild hold it
  lost,      \* taken from its slot and not killed
  token,     \* AuthToken is set
  path,      \* McpDescriptorPath is set
  file,      \* the descriptor on disk: none, current, one whose deletion has failed,
             \* or left by an earlier run
  status,    \* of the JVM sidecar
  main,      \* where the main thread is
  op,        \* in which command or event
  failed,    \* which has failed to kill something
  monitor,   \* where the thread of the backend is
  health     \* where the thread of the sidecar is

vars == <<windows, running, child, slot, lost, token, path, file, status, main, op,
          failed, monitor, health>>
shell     == <<windows, running>>
processes == <<child, slot, lost>>
published == <<path, file>>
command   == <<main, op, failed>>

Processes == {"backend", "jvm"}
StopsAll  == {"update", "restart", "exit"}
Commands  == StopsAll \cup {"stop_backend", "stop_jvm", "launcher", "token"}

Alive(p) == child[p] # "gone"

Init ==
  /\ windows \in BOOLEAN
  /\ running = FALSE
  /\ child   = [p \in Processes |-> "gone"]
  /\ slot    = [p \in Processes |-> FALSE]
  /\ lost    = {}
  /\ token   = FALSE
  /\ path    = FALSE
  /\ file    = "none"
  /\ status  = "checking"
  /\ main    = "idle"
  /\ op      = "none"
  /\ failed  = FALSE
  /\ monitor = "gone"
  /\ health  = "gone"

-----------------------------------------------------------------------------
(* Processes.                                                              *)

(* The shell starts: both ports must be free, the descriptor of an earlier *)
(* run is removed.  Without a runtime directory a Unix shell stops what it *)
(* started and fails, a Windows shell goes on without its monitor.         *)
Launch ==
  /\ ~running
  /\ \A p \in Processes : ~Alive(p)
  /\ \E dir \in {TRUE} \cup (IF windows THEN {FALSE} ELSE {}), java \in BOOLEAN :
       /\ running' = TRUE
       /\ child'   = [p \in Processes |->
                        IF p = "backend" \/ java THEN "starting" ELSE "gone"]
       /\ slot'    = [p \in Processes |-> p = "backend" \/ java]
       /\ status'  = IF java THEN "checking" ELSE "unavailable"
       /\ monitor' = IF dir THEN "check" ELSE "gone"
       /\ health'  = IF java THEN "check" ELSE "gone"
       /\ file'    \in IF dir THEN {"none"} ELSE {"none", file}
  /\ UNCHANGED <<windows, lost, token, path, command>>

ComesUp(p) ==
  /\ child[p] = "starting"
  /\ child' = [child EXCEPT ![p] = "up"]
  /\ UNCHANGED <<shell, slot, lost, token, published, status, command, monitor, health>>

Ends(p) ==
  /\ Alive(p)
  /\ child' = [child EXCEPT ![p] = "gone"]
  /\ lost'  = lost \ {p}
  /\ UNCHANGED <<shell, slot, token, published, status, command, monitor, health>>

(* What remains of a shell that is no more. *)
Off ==
  /\ running' = FALSE
  /\ slot'    = [p \in Processes |-> FALSE]
  /\ token'   = FALSE
  /\ path'    = FALSE
  /\ file'    = IF file = "none" THEN "none" ELSE "left"
  /\ main'    = "idle" /\ op' = "none" /\ failed' = FALSE
  /\ monitor' = "gone" /\ health' = "gone"
  /\ lost'    = {}
  /\ UNCHANGED <<windows, status>>

(* The shell is killed, or it is replaced by the installer: its job takes  *)
(* the children with it on Windows.                                        *)
Crash ==
  /\ running
  /\ child' = IF windows THEN [p \in Processes |-> "gone"] ELSE child
  /\ Off

-----------------------------------------------------------------------------
(* The main thread.                                                        *)
Goto(place) == main' = place /\ UNCHANGED <<op, failed>>
Return      == main' = "idle" /\ op' = "none" /\ failed' = FALSE

Begin ==
  /\ running /\ main = "idle"
  /\ \E c \in Commands :
       /\ op' = c
       /\ main' = CASE c \in StopsAll   -> "take_backend"
                    [] c = "launcher"   -> "ask_path"
                    [] c = "token"      -> "wait_token"
                    [] OTHER            -> c
  /\ failed' = FALSE
  /\ UNCHANGED <<shell, processes, token, published, status, monitor, health>>

(* stop_managed_sidecars: the child is taken from its slot and then killed.*)
Take(p, here, kill, next) ==
  /\ main = here
  /\ slot' = [slot EXCEPT ![p] = FALSE]
  /\ Goto(IF slot[p] THEN kill ELSE next)
  /\ UNCHANGED <<shell, child, lost, token, published, status, monitor, health>>

(* A kill that fails leaves a process nobody holds any more. *)
Kill(p, here, next) ==
  /\ main = here
  /\ \/ /\ child' = [child EXCEPT ![p] = "gone"]
        /\ UNCHANGED <<lost, failed>>
     \/ /\ Alive(p)
        /\ lost'   = lost \cup {p}
        /\ failed' = TRUE
        /\ UNCHANGED child
  /\ main' = next
  /\ UNCHANGED <<shell, slot, token, published, status, op, monitor, health>>

StopBackend == Take("backend", "take_backend", "kill_backend", "take_jvm")
                 \/ Kill("backend", "kill_backend", "take_jvm")
StopJvm     == Take("jvm", "take_jvm", "kill_jvm", "close_job")
                 \/ Kill("jvm", "kill_jvm", "close_job")

(* Windows: the job ends what is left in it.  Update and restart give up   *)
(* when something could not be killed, the exit goes on.                   *)
CloseJob ==
  /\ main = "close_job"
  /\ IF windows THEN /\ child' = [p \in Processes |-> "gone"]
                     /\ lost'  = {}
     ELSE UNCHANGED <<child, lost>>
  /\ IF failed /\ op # "exit" THEN Return ELSE Goto("take_path")
  /\ UNCHANGED <<shell, slot, token, published, status, monitor, health>>

(* Mutant: the slot is emptied before the kill, as when everything stops.  *)
StopOneTaking(p, next) ==
  /\ slot' = [slot EXCEPT ![p] = FALSE]
  /\ \/ child' = [child EXCEPT ![p] = "gone"] /\ Goto(next)
     \/ Alive(p) /\ slot[p] /\ UNCHANGED child /\ Return

(* stop_managed_process: killed while its slot is locked, and kept in it   *)
(* when that fails.                                                        *)
StopOne(p, next) ==
  \/ /\ slot'  = [slot EXCEPT ![p] = FALSE]
     /\ child' = IF slot[p] THEN [child EXCEPT ![p] = "gone"] ELSE child
     /\ Goto(next)
  \/ /\ slot[p] /\ Alive(p)
     /\ Return
     /\ UNCHANGED <<slot, child>>

StopManaged ==
  /\ \/ main = "stop_backend" /\ StopOne("backend", "take_path")
     \/ main = "stop_jvm" /\ StopOne("jvm", "unavailable")
  /\ UNCHANGED <<shell, lost, token, published, status, monitor, health>>

JvmUnavailable ==
  /\ main = "unavailable"
  /\ status' = "unavailable"
  /\ Return
  /\ UNCHANGED <<shell, processes, token, published, monitor, health>>

(* remove_mcp_runtime_descriptor: the path is taken, then its file goes.   *)
(* A deletion that fails is logged; without the path nobody repeats it.    *)
Delete ==
  \/ file' = "none"
  \/ file = "current" /\ file' = "undeletable"

TakePath ==
  /\ main = "take_path"
  /\ path' = FALSE
  /\ Goto(IF path THEN "delete_file" ELSE "removed")
  /\ UNCHANGED <<shell, processes, token, file, status, monitor, health>>

DeleteFile ==
  /\ main = "delete_file"
  /\ Delete
  /\ Goto("removed")
  /\ UNCHANGED <<shell, processes, token, path, status, monitor, health>>

(* What follows: the installer, the end of this process, or the answer.    *)
Removed ==
  /\ main = "removed"
  /\ IF op \in {"restart", "exit"} THEN Off /\ UNCHANGED child
     ELSE /\ token' = (token /\ op # "stop_backend")
          /\ Return
          /\ UNCHANGED <<shell, processes, published, status, monitor, health>>

(* get_mcp_launcher_config: a path to no file, or of a backend that ended, *)
(* is removed.                                                             *)
Launcher ==
  /\ \/ /\ main = "ask_path"
        /\ IF path THEN Goto("ask_file") ELSE Return
     \/ /\ main = "ask_file"
        /\ IF file # "none" /\ slot["backend"] /\ Alive("backend") THEN Return
           ELSE Goto("take_path")
  /\ UNCHANGED <<shell, processes, token, published, status, monitor, health>>

(* get_auth_token waits for the token, for 30 seconds at most. *)
GetToken ==
  /\ main = "wait_token"
  /\ Return
  /\ UNCHANGED <<shell, processes, token, published, status, monitor, health>>

Main ==
  \/ StopBackend \/ StopJvm \/ CloseJob \/ StopManaged \/ JvmUnavailable
  \/ TakePath \/ DeleteFile \/ Removed \/ Launcher \/ GetToken

-----------------------------------------------------------------------------
(* The thread of the backend.                                              *)

(* Mutant: a backend that is no longer managed needs no cleaning. *)
MonitorChecksOwnOnly ==
  /\ monitor \in {"check", "watch"}
  /\ monitor' = IF ~slot["backend"] THEN "gone"
                ELSE IF ~Alive("backend") THEN "take_path"
                ELSE IF monitor = "check" THEN "probe" ELSE "watch"
  /\ UNCHANGED <<shell, processes, token, published, status, command, health>>

(* Each round looks at the slot first, before readiness and afterwards.    *)
MonitorChecks ==
  /\ monitor \in {"check", "watch"}
  /\ monitor' = IF ~slot["backend"] \/ ~Alive("backend") THEN "take_path"
                ELSE IF monitor = "check" THEN "probe" ELSE "watch"
  /\ UNCHANGED <<shell, processes, token, published, status, command, health>>

(* /health with the proof only our backend can give. *)
MonitorProbes ==
  /\ monitor = "probe"
  /\ monitor' = IF child["backend"] = "up" THEN "token" ELSE "check"
  /\ UNCHANGED <<shell, processes, token, published, status, command, health>>

MonitorSetsToken ==
  /\ monitor = "token"
  /\ token' = TRUE
  /\ monitor' = "publish"
  /\ UNCHANGED <<shell, processes, published, status, command, health>>

(* Written and recorded under the lock of the slot, if the child lives. *)
MonitorPublishes ==
  /\ monitor = "publish"
  /\ \/ /\ slot["backend"] /\ Alive("backend")
        /\ file' = "current" /\ path' = TRUE /\ monitor' = "watch"
     \/ monitor' = "take_path" /\ UNCHANGED published
  /\ UNCHANGED <<shell, processes, token, status, command, health>>

MonitorRemoves ==
  /\ \/ /\ monitor = "take_path"
        /\ path' = FALSE
        /\ monitor' = IF path THEN "delete_file" ELSE "gone"
        /\ UNCHANGED file
     \/ /\ monitor = "delete_file"
        /\ Delete
        /\ monitor' = "gone"
        /\ UNCHANGED path
  /\ UNCHANGED <<shell, processes, token, status, command, health>>

Monitor ==
  \/ MonitorChecks \/ MonitorProbes \/ MonitorSetsToken
  \/ MonitorPublishes \/ MonitorRemoves

-----------------------------------------------------------------------------
(* The thread of the JVM sidecar: until it answers, ends, or 30 seconds    *)
(* have passed.  A sidecar that is no longer managed is probed on.         *)
HealthChecks ==
  /\ health = "check"
  /\ health' = IF slot["jvm"] /\ ~Alive("jvm") THEN "unavailable" ELSE "probe"
  /\ UNCHANGED <<shell, processes, token, published, status, command, monitor>>

HealthProbes ==
  /\ health = "probe"
  /\ health' = IF child["jvm"] = "up" THEN "ready" ELSE "check"
  /\ UNCHANGED <<shell, processes, token, published, status, command, monitor>>

(* Mutant: the thread ends at its deadline without a word. *)
HealthGivesUpSilently ==
  /\ health = "check"
  /\ health' = "gone"
  /\ UNCHANGED <<shell, processes, token, published, status, command, monitor>>

HealthGivesUp ==
  /\ health = "check"
  /\ health' = "unavailable"
  /\ UNCHANGED <<shell, processes, token, published, status, command, monitor>>

HealthEmits ==
  /\ health \in {"ready", "unavailable"}
  /\ status' = health
  /\ health' = "gone"
  /\ UNCHANGED <<shell, processes, token, published, command, monitor>>

Health == HealthChecks \/ HealthProbes \/ HealthEmits

Next ==
  \/ Launch \/ Crash \/ \E p \in Processes : ComesUp(p) \/ Ends(p)
  \/ Begin \/ Main \/ Monitor \/ Health \/ HealthGivesUp

(* Threads run, probes end, the deadline of the sidecar comes.             *)
Fairness == WF_vars(Main) /\ WF_vars(Monitor) /\ WF_vars(Health) /\ SF_vars(HealthGivesUp)

Spec == Init /\ [][Next]_vars /\ Fairness

-----------------------------------------------------------------------------
TypeOK ==
  /\ windows \in BOOLEAN
  /\ running \in BOOLEAN
  /\ child \in [Processes -> {"gone", "starting", "up"}]
  /\ slot \in [Processes -> BOOLEAN]
  /\ lost \subseteq Processes
  /\ token \in BOOLEAN /\ path \in BOOLEAN /\ failed \in BOOLEAN
  /\ file \in {"none", "current", "undeletable", "left"}
  /\ status \in {"checking", "ready", "unavailable"}
  /\ main \in {"idle", "take_backend", "kill_backend", "take_jvm", "kill_jvm", "close_job",
               "take_path", "delete_file", "removed", "stop_backend", "stop_jvm",
               "unavailable", "ask_path", "ask_file", "wait_token"}
  /\ op \in Commands \cup {"none"}
  /\ monitor \in {"gone", "check", "probe", "token", "publish", "watch", "take_path",
                  "delete_file"}
  /\ health \in {"gone", "check", "probe", "ready", "unavailable"}

(* A living child is in its slot, about to be killed, or one that could    *)
(* not be killed when everything was stopped.                              *)
NoOrphan ==
  running => \A p \in Processes :
    Alive(p) => slot[p] \/ p \in lost \/ main = (IF p = "jvm" THEN "kill_jvm" ELSE "kill_backend")

(* A descriptor of this run is on record, or somebody is deleting it, or   *)
(* the one attempt to delete it has failed, and by then it is off record.  *)
DescriptorOwned ==
  /\ file = "current" => path \/ main = "delete_file" \/ monitor = "delete_file"
  /\ path => file = "current"

(* When the shell leaves in order, a descriptor stays on disk only when    *)
(* its deletion has failed or the monitor has just undertaken it.          *)
LeavesClean ==
  main = "removed" /\ op \in {"restart", "exit"} =>
    /\ ~path /\ (file = "current" => monitor = "delete_file")
    /\ \A p \in Processes : Alive(p) => p \in lost

(* A command that stops everything has emptied the slots it went through,  *)
(* and nothing is left of a shell that does not run.                       *)
StopsInOrder ==
  /\ op \in StopsAll =>
       /\ main \in {"take_backend", "kill_backend", "take_jvm", "kill_jvm", "close_job",
                   "take_path", "delete_file", "removed"}
       /\ main # "take_backend" => ~slot["backend"]
       /\ main \notin {"take_backend", "kill_backend", "take_jvm"} => ~slot["jvm"]
  /\ ~running =>
       main = "idle" /\ op = "none" /\ monitor = "gone" /\ ~path /\ file \in {"none", "left"}

(* The monitor publishes once, and whoever takes the path does so after.   *)
PublishedOnce ==
  /\ path => monitor \in {"watch", "take_path"}
  /\ main = "delete_file" => ~path /\ monitor \in {"watch", "take_path", "delete_file", "gone"}

ShellInv ==
  /\ TypeOK /\ NoOrphan /\ DescriptorOwned /\ LeavesClean
  /\ StopsInOrder /\ PublishedOnce

(* A backend that ended or was given up takes its descriptor with it, or   *)
(* its deletion has been tried and has failed: otherwise MCP clients do    *)
(* not go on finding an endpoint nobody serves.                            *)
DescriptorGoes ==
  running /\ ~(slot["backend"] /\ Alive("backend")) ~> file \in {"none", "undeletable", "left"}

(* The interface does not show "checking" for ever, and no command hangs.  *)
StatusSettles ==
  /\ running /\ status = "checking" ~> status # "checking" \/ ~running
  /\ main # "idle" ~> main = "idle"
=============================================================================
