-------------------------- MODULE ProcessesProofs --------------------------
(***************************************************************************)
(* Theorems about the processes of the desktop: the shell over its         *)
(* children, and the MCP listener with its sessions.                       *)
(***************************************************************************)
EXTENDS DesktopProcesses, FiniteSetTheorems, TLAPS

-----------------------------------------------------------------------------
(* NativeShell.                                                            *)

(* Each group of the shell's actions keeps the invariant.                  *)
LEMMA LaunchKeeps ==
  ASSUME ShellInv, Launch
  PROVE  ShellInv'
<1>0. TypeOK /\ NoOrphan /\ DescriptorOwned /\ LeavesClean /\ StopsInOrder /\ PublishedOnce
  BY DEF ShellInv
<1> USE DEF Launch, shell, processes, published, command
<1>1. TypeOK'
  <2>1. windows' \in BOOLEAN /\ running' \in BOOLEAN /\ token' \in BOOLEAN /\ path' \in BOOLEAN
          /\ failed' \in BOOLEAN
    BY <1>0 DEF TypeOK
  <2>2. /\ child' \in [Processes -> {"gone", "starting", "up"}]
        /\ slot' \in [Processes -> BOOLEAN] /\ lost' \subseteq Processes
    BY <1>0 DEF TypeOK, Processes
  <2>3. file' \in {"none", "current", "undeletable", "left"} /\ status' \in {"checking", "ready", "unavailable"}
    BY <1>0 DEF TypeOK
  <2>4. main' \in {"idle", "take_backend", "kill_backend", "take_jvm", "kill_jvm", "close_job",
                   "take_path", "delete_file", "removed", "stop_backend", "stop_jvm",
                   "unavailable", "ask_path", "ask_file", "wait_token"}
    BY <1>0 DEF TypeOK, Commands, StopsAll
  <2>5. op' \in Commands \cup {"none"}
    BY <1>0 DEF TypeOK, Commands, StopsAll
  <2>6. /\ monitor' \in {"gone", "check", "probe", "token", "publish", "watch", "take_path",
                        "delete_file"}
        /\ health' \in {"gone", "check", "probe", "ready", "unavailable"}
    BY <1>0 DEF TypeOK
  <2> QED
    BY <2>1, <2>2, <2>3, <2>4, <2>5, <2>6 DEF TypeOK
<1>2. NoOrphan'
  BY <1>0 DEF TypeOK, NoOrphan, Alive, Processes, StopsInOrder
<1>3. DescriptorOwned' /\ PublishedOnce'
  BY <1>0 DEF TypeOK, DescriptorOwned, PublishedOnce, StopsInOrder, Processes, StopsAll, Commands
<1>4. StopsInOrder'
  BY <1>0 DEF TypeOK, StopsInOrder, Commands, StopsAll, Processes
<1>5. LeavesClean'
  BY <1>0 DEF TypeOK, LeavesClean, StopsInOrder, NoOrphan, DescriptorOwned, PublishedOnce, Alive, Processes, StopsAll, Commands
<1> QED
  BY <1>1, <1>2, <1>3, <1>4, <1>5 DEF ShellInv

(* A process ends or comes up, the shell among them.                       *)
LEMMA ProcessKeeps ==
  ASSUME ShellInv, NEW p \in Processes, Crash \/ ComesUp(p) \/ Ends(p)
  PROVE  ShellInv'
<1>0. TypeOK /\ NoOrphan /\ DescriptorOwned /\ LeavesClean /\ StopsInOrder /\ PublishedOnce
  BY DEF ShellInv
<1> USE DEF Crash, Off, ComesUp, Ends, shell, processes, published, command
<1>1. TypeOK'
  <2>1. windows' \in BOOLEAN /\ running' \in BOOLEAN /\ token' \in BOOLEAN /\ path' \in BOOLEAN
          /\ failed' \in BOOLEAN
    BY <1>0 DEF TypeOK
  <2>2. /\ child' \in [Processes -> {"gone", "starting", "up"}]
        /\ slot' \in [Processes -> BOOLEAN] /\ lost' \subseteq Processes
    BY <1>0 DEF TypeOK, Processes
  <2>3. file' \in {"none", "current", "undeletable", "left"} /\ status' \in {"checking", "ready", "unavailable"}
    BY <1>0 DEF TypeOK
  <2>4. main' \in {"idle", "take_backend", "kill_backend", "take_jvm", "kill_jvm", "close_job",
                   "take_path", "delete_file", "removed", "stop_backend", "stop_jvm",
                   "unavailable", "ask_path", "ask_file", "wait_token"}
    BY <1>0 DEF TypeOK, Commands, StopsAll
  <2>5. op' \in Commands \cup {"none"}
    BY <1>0 DEF TypeOK, Commands, StopsAll
  <2>6. /\ monitor' \in {"gone", "check", "probe", "token", "publish", "watch", "take_path",
                        "delete_file"}
        /\ health' \in {"gone", "check", "probe", "ready", "unavailable"}
    BY <1>0 DEF TypeOK
  <2> QED
    BY <2>1, <2>2, <2>3, <2>4, <2>5, <2>6 DEF TypeOK
<1>2. NoOrphan'
  BY <1>0 DEF TypeOK, NoOrphan, Alive, Processes, StopsInOrder
<1>3. DescriptorOwned' /\ PublishedOnce'
  BY <1>0 DEF TypeOK, DescriptorOwned, PublishedOnce, StopsInOrder, Processes, StopsAll, Commands
<1>4. StopsInOrder'
  BY <1>0 DEF TypeOK, StopsInOrder, Commands, StopsAll, Processes
<1>5. LeavesClean'
  BY <1>0 DEF TypeOK, LeavesClean, StopsInOrder, NoOrphan, DescriptorOwned, PublishedOnce, Alive, Processes, StopsAll, Commands
<1> QED
  BY <1>1, <1>2, <1>3, <1>4, <1>5 DEF ShellInv

(* The main thread takes the children from their slots and kills them.     *)
LEMMA StopKeeps ==
  ASSUME ShellInv, StopBackend \/ StopJvm \/ CloseJob
  PROVE  ShellInv'
<1>0. TypeOK /\ NoOrphan /\ DescriptorOwned /\ LeavesClean /\ StopsInOrder /\ PublishedOnce
  BY DEF ShellInv
<1> USE DEF StopBackend, StopJvm, Take, Kill, CloseJob, Goto, Return, shell, processes, published, command
<1>1. TypeOK'
  <2>1. windows' \in BOOLEAN /\ running' \in BOOLEAN /\ token' \in BOOLEAN /\ path' \in BOOLEAN
          /\ failed' \in BOOLEAN
    BY <1>0 DEF TypeOK
  <2>2. /\ child' \in [Processes -> {"gone", "starting", "up"}]
        /\ slot' \in [Processes -> BOOLEAN] /\ lost' \subseteq Processes
    BY <1>0 DEF TypeOK, Processes
  <2>3. file' \in {"none", "current", "undeletable", "left"} /\ status' \in {"checking", "ready", "unavailable"}
    BY <1>0 DEF TypeOK
  <2>4. main' \in {"idle", "take_backend", "kill_backend", "take_jvm", "kill_jvm", "close_job",
                   "take_path", "delete_file", "removed", "stop_backend", "stop_jvm",
                   "unavailable", "ask_path", "ask_file", "wait_token"}
    BY <1>0 DEF TypeOK, Commands, StopsAll
  <2>5. op' \in Commands \cup {"none"}
    BY <1>0 DEF TypeOK, Commands, StopsAll
  <2>6. /\ monitor' \in {"gone", "check", "probe", "token", "publish", "watch", "take_path",
                        "delete_file"}
        /\ health' \in {"gone", "check", "probe", "ready", "unavailable"}
    BY <1>0 DEF TypeOK
  <2> QED
    BY <2>1, <2>2, <2>3, <2>4, <2>5, <2>6 DEF TypeOK
<1>2. NoOrphan'
  BY <1>0 DEF TypeOK, NoOrphan, Alive, Processes, StopsInOrder
<1>3. DescriptorOwned' /\ PublishedOnce'
  BY <1>0 DEF TypeOK, DescriptorOwned, PublishedOnce, StopsInOrder, Processes, StopsAll, Commands
<1>4. StopsInOrder'
  BY <1>0 DEF TypeOK, StopsInOrder, Commands, StopsAll, Processes
<1>5. LeavesClean'
  BY <1>0 DEF TypeOK, LeavesClean, StopsInOrder, NoOrphan, DescriptorOwned, PublishedOnce, Alive, Processes, StopsAll, Commands
<1> QED
  BY <1>1, <1>2, <1>3, <1>4, <1>5 DEF ShellInv

(* The other commands of the main thread.                                  *)
LEMMA CommandKeeps ==
  ASSUME ShellInv, Begin \/ StopManaged \/ JvmUnavailable \/ Launcher \/ GetToken
  PROVE  ShellInv'
<1>0. TypeOK /\ NoOrphan /\ DescriptorOwned /\ LeavesClean /\ StopsInOrder /\ PublishedOnce
  BY DEF ShellInv
<1> USE DEF Begin, StopManaged, StopOne, JvmUnavailable, Launcher, GetToken, Goto, Return, shell, processes, published, command
<1>1. TypeOK'
  <2>1. windows' \in BOOLEAN /\ running' \in BOOLEAN /\ token' \in BOOLEAN /\ path' \in BOOLEAN
          /\ failed' \in BOOLEAN
    BY <1>0 DEF TypeOK
  <2>2. /\ child' \in [Processes -> {"gone", "starting", "up"}]
        /\ slot' \in [Processes -> BOOLEAN] /\ lost' \subseteq Processes
    BY ZenonT(60), <1>0 DEF TypeOK, Processes
  <2>3. file' \in {"none", "current", "undeletable", "left"} /\ status' \in {"checking", "ready", "unavailable"}
    BY <1>0 DEF TypeOK
  <2>4. main' \in {"idle", "take_backend", "kill_backend", "take_jvm", "kill_jvm", "close_job",
                   "take_path", "delete_file", "removed", "stop_backend", "stop_jvm",
                   "unavailable", "ask_path", "ask_file", "wait_token"}
    BY <1>0 DEF TypeOK, Commands, StopsAll
  <2>5. op' \in Commands \cup {"none"}
    BY <1>0 DEF TypeOK, Commands, StopsAll
  <2>6. /\ monitor' \in {"gone", "check", "probe", "token", "publish", "watch", "take_path",
                        "delete_file"}
        /\ health' \in {"gone", "check", "probe", "ready", "unavailable"}
    BY <1>0 DEF TypeOK
  <2> QED
    BY <2>1, <2>2, <2>3, <2>4, <2>5, <2>6 DEF TypeOK
<1>2. NoOrphan'
  BY <1>0 DEF TypeOK, NoOrphan, Alive, Processes, StopsInOrder
<1>3. DescriptorOwned' /\ PublishedOnce'
  BY <1>0 DEF TypeOK, DescriptorOwned, PublishedOnce, StopsInOrder, Processes, StopsAll, Commands
<1>4. StopsInOrder'
  BY <1>0 DEF TypeOK, StopsInOrder, Commands, StopsAll, Processes
<1>5. LeavesClean'
  BY <1>0 DEF TypeOK, LeavesClean, StopsInOrder, NoOrphan, DescriptorOwned, PublishedOnce, Alive, Processes, StopsAll, Commands
<1> QED
  BY <1>1, <1>2, <1>3, <1>4, <1>5 DEF ShellInv

(* The descriptor is taken and deleted, and the command ends.              *)
LEMMA RemovalKeeps ==
  ASSUME ShellInv, TakePath \/ DeleteFile \/ Removed
  PROVE  ShellInv'
<1>0. TypeOK /\ NoOrphan /\ DescriptorOwned /\ LeavesClean /\ StopsInOrder /\ PublishedOnce
  BY DEF ShellInv
<1> USE DEF TakePath, DeleteFile, Delete, Removed, Goto, Return, Off, shell, processes, published, command
<1>1. TypeOK'
  <2>1. windows' \in BOOLEAN /\ running' \in BOOLEAN /\ token' \in BOOLEAN /\ path' \in BOOLEAN
          /\ failed' \in BOOLEAN
    BY <1>0 DEF TypeOK
  <2>2. /\ child' \in [Processes -> {"gone", "starting", "up"}]
        /\ slot' \in [Processes -> BOOLEAN] /\ lost' \subseteq Processes
    BY <1>0 DEF TypeOK, Processes
  <2>3. file' \in {"none", "current", "undeletable", "left"} /\ status' \in {"checking", "ready", "unavailable"}
    BY <1>0 DEF TypeOK
  <2>4. main' \in {"idle", "take_backend", "kill_backend", "take_jvm", "kill_jvm", "close_job",
                   "take_path", "delete_file", "removed", "stop_backend", "stop_jvm",
                   "unavailable", "ask_path", "ask_file", "wait_token"}
    BY <1>0 DEF TypeOK, Commands, StopsAll
  <2>5. op' \in Commands \cup {"none"}
    BY <1>0 DEF TypeOK, Commands, StopsAll
  <2>6. /\ monitor' \in {"gone", "check", "probe", "token", "publish", "watch", "take_path",
                        "delete_file"}
        /\ health' \in {"gone", "check", "probe", "ready", "unavailable"}
    BY <1>0 DEF TypeOK
  <2> QED
    BY <2>1, <2>2, <2>3, <2>4, <2>5, <2>6 DEF TypeOK
<1>2. NoOrphan'
  BY <1>0 DEF TypeOK, NoOrphan, Alive, Processes, StopsInOrder
<1>3. DescriptorOwned' /\ PublishedOnce'
  BY <1>0 DEF TypeOK, DescriptorOwned, PublishedOnce, StopsInOrder, Processes, StopsAll, Commands
<1>4. StopsInOrder'
  BY <1>0 DEF TypeOK, StopsInOrder, Commands, StopsAll, Processes
<1>5. LeavesClean'
  BY <1>0 DEF TypeOK, LeavesClean, StopsInOrder, NoOrphan, DescriptorOwned, PublishedOnce, Alive, Processes, StopsAll, Commands
<1> QED
  BY <1>1, <1>2, <1>3, <1>4, <1>5 DEF ShellInv

(* The thread of the backend.                                              *)
LEMMA MonitorKeeps ==
  ASSUME ShellInv, Monitor
  PROVE  ShellInv'
<1>0. TypeOK /\ NoOrphan /\ DescriptorOwned /\ LeavesClean /\ StopsInOrder /\ PublishedOnce
  BY DEF ShellInv
<1> USE DEF Monitor, MonitorChecks, MonitorProbes, MonitorSetsToken, MonitorPublishes, MonitorRemoves, Delete, shell, processes, published, command
<1>1. TypeOK'
  <2>1. windows' \in BOOLEAN /\ running' \in BOOLEAN /\ token' \in BOOLEAN /\ path' \in BOOLEAN
          /\ failed' \in BOOLEAN
    BY <1>0 DEF TypeOK
  <2>2. /\ child' \in [Processes -> {"gone", "starting", "up"}]
        /\ slot' \in [Processes -> BOOLEAN] /\ lost' \subseteq Processes
    BY <1>0 DEF TypeOK, Processes
  <2>3. file' \in {"none", "current", "undeletable", "left"} /\ status' \in {"checking", "ready", "unavailable"}
    BY <1>0 DEF TypeOK
  <2>4. main' \in {"idle", "take_backend", "kill_backend", "take_jvm", "kill_jvm", "close_job",
                   "take_path", "delete_file", "removed", "stop_backend", "stop_jvm",
                   "unavailable", "ask_path", "ask_file", "wait_token"}
    BY <1>0 DEF TypeOK, Commands, StopsAll
  <2>5. op' \in Commands \cup {"none"}
    BY <1>0 DEF TypeOK, Commands, StopsAll
  <2>6. /\ monitor' \in {"gone", "check", "probe", "token", "publish", "watch", "take_path",
                        "delete_file"}
        /\ health' \in {"gone", "check", "probe", "ready", "unavailable"}
    BY <1>0 DEF TypeOK
  <2> QED
    BY <2>1, <2>2, <2>3, <2>4, <2>5, <2>6 DEF TypeOK
<1>2. NoOrphan'
  BY <1>0 DEF TypeOK, NoOrphan, Alive, Processes, StopsInOrder
<1>3. DescriptorOwned' /\ PublishedOnce'
  BY <1>0 DEF TypeOK, DescriptorOwned, PublishedOnce, StopsInOrder, Processes, StopsAll, Commands
<1>4. StopsInOrder'
  BY <1>0 DEF TypeOK, StopsInOrder, Commands, StopsAll, Processes
<1>5. LeavesClean'
  BY <1>0 DEF TypeOK, LeavesClean, StopsInOrder, NoOrphan, DescriptorOwned, PublishedOnce, Alive, Processes, StopsAll, Commands
<1> QED
  BY <1>1, <1>2, <1>3, <1>4, <1>5 DEF ShellInv

(* The thread of the sidecar, which changes nothing the invariant is about *)
(* but the status.                                                         *)
LEMMA HealthKeeps ==
  ASSUME ShellInv, Health \/ HealthGivesUp \/ UNCHANGED vars
  PROVE  ShellInv'
<1>0. TypeOK /\ NoOrphan /\ DescriptorOwned /\ LeavesClean /\ StopsInOrder /\ PublishedOnce
  BY DEF ShellInv
<1> USE DEF Health, HealthChecks, HealthProbes, HealthEmits, HealthGivesUp, vars, shell, processes, published, command
<1>1. TypeOK'
  <2>1. windows' \in BOOLEAN /\ running' \in BOOLEAN /\ token' \in BOOLEAN /\ path' \in BOOLEAN
          /\ failed' \in BOOLEAN
    BY <1>0 DEF TypeOK
  <2>2. /\ child' \in [Processes -> {"gone", "starting", "up"}]
        /\ slot' \in [Processes -> BOOLEAN] /\ lost' \subseteq Processes
    BY <1>0 DEF TypeOK, Processes
  <2>3. file' \in {"none", "current", "undeletable", "left"} /\ status' \in {"checking", "ready", "unavailable"}
    BY <1>0 DEF TypeOK
  <2>4. main' \in {"idle", "take_backend", "kill_backend", "take_jvm", "kill_jvm", "close_job",
                   "take_path", "delete_file", "removed", "stop_backend", "stop_jvm",
                   "unavailable", "ask_path", "ask_file", "wait_token"}
    BY <1>0 DEF TypeOK, Commands, StopsAll
  <2>5. op' \in Commands \cup {"none"}
    BY <1>0 DEF TypeOK, Commands, StopsAll
  <2>6. /\ monitor' \in {"gone", "check", "probe", "token", "publish", "watch", "take_path",
                        "delete_file"}
        /\ health' \in {"gone", "check", "probe", "ready", "unavailable"}
    BY <1>0 DEF TypeOK
  <2> QED
    BY <2>1, <2>2, <2>3, <2>4, <2>5, <2>6 DEF TypeOK
<1>2. NoOrphan'
  BY <1>0 DEF TypeOK, NoOrphan, Alive, Processes, StopsInOrder
<1>3. DescriptorOwned' /\ PublishedOnce'
  BY <1>0 DEF TypeOK, DescriptorOwned, PublishedOnce, StopsInOrder, Processes, StopsAll, Commands
<1>4. StopsInOrder'
  BY <1>0 DEF TypeOK, StopsInOrder, Commands, StopsAll, Processes
<1>5. LeavesClean'
  BY <1>0 DEF TypeOK, LeavesClean, StopsInOrder, NoOrphan, DescriptorOwned, PublishedOnce, Alive, Processes, StopsAll, Commands
<1> QED
  BY <1>1, <1>2, <1>3, <1>4, <1>5 DEF ShellInv

(* However often the shell starts, stops, restarts or is killed, and       *)
(* whichever of its children ends when: no living child is out of reach    *)
(* but one whose kill has failed, and the descriptor of the run is on      *)
(* record, or being deleted, or its deletion has failed.                   *)
THEOREM ShellHolds == ProcessesSpec => []ShellInv
<1>1. ProcessesInit => ShellInv
  BY DEF ProcessesInit, Init, ShellInv, TypeOK, NoOrphan, DescriptorOwned, LeavesClean,
         StopsInOrder, PublishedOnce, Processes, StopsAll, Commands
<1>2. ShellInv /\ [ShellStep \/ ListenerStep]_<<part, vars, listenerVars>> => ShellInv'
  <2> SUFFICES ASSUME ShellInv, Next \/ UNCHANGED vars PROVE ShellInv'
    BY DEF ShellStep, ListenerStep
  <2>1. CASE Launch
    BY <2>1, LaunchKeeps
  <2>2. CASE Crash
    BY <2>2, ProcessKeeps DEF Processes
  <2>3. ASSUME NEW p \in Processes, ComesUp(p) \/ Ends(p) PROVE ShellInv'
    BY <2>3, ProcessKeeps
  <2>4. CASE StopBackend \/ StopJvm \/ CloseJob
    BY <2>4, StopKeeps
  <2>5. CASE Begin \/ StopManaged \/ JvmUnavailable \/ Launcher \/ GetToken
    BY <2>5, CommandKeeps
  <2>6. CASE TakePath \/ DeleteFile \/ Removed
    BY <2>6, RemovalKeeps
  <2>7. CASE Monitor
    BY <2>7, MonitorKeeps
  <2>8. CASE Health \/ HealthGivesUp \/ UNCHANGED vars
    BY <2>8, HealthKeeps
  <2> QED
    BY ONLY <2>1, <2>2, <2>3, <2>4, <2>5, <2>6, <2>7, <2>8, Next \/ UNCHANGED vars
       DEF Next, Main
<1> QED
  BY <1>1, <1>2, PTL DEF ProcessesSpec

-----------------------------------------------------------------------------
(* McpHttp.                                                                *)

(* Finiteness and cardinality are the same under the name of the instance. *)
LEMMA SameNotions ==
  /\ \A S : H!IsFiniteSet(S) <=> IsFiniteSet(S)
  /\ \A S : H!Cardinality(S) = Cardinality(S)
BY DEF H!IsFiniteSet, IsFiniteSet, H!Cardinality, Cardinality

(* What the constants are.                                                 *)
LEMMA Bounded ==
  /\ IsFiniteSet(Sessions) /\ IsFiniteSet(Uses) /\ MaxSessions \in Nat
  /\ None \notin Servers /\ None \notin Sessions
BY ListenerAssumption, SameNotions DEF H!HttpAssumption

Handling(s) == {u \in Uses : use[u] = "handling" /\ on[u] = s}

(* The count of a session's requests, by name.                             *)
LEMMA CountsAre ==
  /\ H!ActiveCounts <=> \A s \in Sessions :
       active[s] = Cardinality(Handling(s)) + (IF init[s] \in H!InMaking THEN 1 ELSE 0)
  /\ H!ActiveCounts' <=> \A s \in Sessions :
       active'[s] = Cardinality(Handling(s)') + (IF init'[s] \in H!InMaking THEN 1 ELSE 0)
BY SameNotions DEF H!ActiveCounts, Handling, H!InMaking

(* A session that has a request is counted.                                *)
LEMMA HandlingFinite ==
  ASSUME NEW s
  PROVE  /\ IsFiniteSet(Handling(s)) /\ Cardinality(Handling(s)) \in Nat
         /\ Handling(s) # {} => Cardinality(Handling(s)) > 0
<1>1. IsFiniteSet(Handling(s))
  BY FS_Subset, Bounded DEF Handling
<1> QED
  BY <1>1, FS_CardinalityType, FS_EmptySet

(* Counting stays right when a request begins to be handled, when it ends, *)
(* and when neither happens.                                               *)
LEMMA CountsSame ==
  ASSUME H!HttpInv, active' = active,
         \A u \in Uses, s \in Sessions :
           use'[u] = "handling" /\ on'[u] = s <=> use[u] = "handling" /\ on[u] = s,
         \A s \in Sessions : init'[s] \in H!InMaking <=> init[s] \in H!InMaking
  PROVE  H!ActiveCounts'
<1>1. \A s \in Sessions : Handling(s)' = Handling(s)
  BY DEF Handling
<1> QED
  BY <1>1, CountsAre DEF H!HttpInv

LEMMA CountsBegin ==
  ASSUME H!HttpInv, NEW u \in Uses, NEW s \in Sessions, use[u] # "handling",
         use' = [use EXCEPT ![u] = "handling"], on'[u] = s,
         \A v \in Uses : v # u => on'[v] = on[v],
         active' = [active EXCEPT ![s] = @ + 1], init' = init
  PROVE  H!ActiveCounts'
<1>0. H!TypeOK
  BY DEF H!HttpInv
<1>1. Handling(s)' = Handling(s) \cup {u} /\ u \notin Handling(s)
  BY <1>0 DEF Handling, H!TypeOK
<1>2. \A t \in Sessions : t # s => Handling(t)' = Handling(t)
  BY <1>0 DEF Handling, H!TypeOK
<1>3. Cardinality(Handling(s)') = Cardinality(Handling(s)) + 1
  BY <1>1, HandlingFinite, FS_AddElement
<1>4. active'[s] = active[s] + 1 /\ \A t \in Sessions : t # s => active'[t] = active[t]
  BY <1>0 DEF H!TypeOK
<1> QED
  BY <1>2, <1>3, <1>4, CountsAre, HandlingFinite DEF H!HttpInv

LEMMA CountsEnd ==
  ASSUME H!HttpInv, NEW u \in Uses, NEW s \in Sessions, use[u] = "handling", on[u] = s,
         use' = [use EXCEPT ![u] = "idle"], on' = on,
         active' = [active EXCEPT ![s] = @ - 1], init' = init
  PROVE  H!ActiveCounts' /\ active[s] > 0
<1>0. H!TypeOK
  BY DEF H!HttpInv
<1>1. Handling(s)' = Handling(s) \ {u} /\ u \in Handling(s)
  BY <1>0 DEF Handling, H!TypeOK
<1>2. \A t \in Sessions : t # s => Handling(t)' = Handling(t)
  BY <1>0 DEF Handling, H!TypeOK
<1>3. Cardinality(Handling(s)') = Cardinality(Handling(s)) - 1
  BY <1>1, HandlingFinite, FS_RemoveElement
<1>4. active'[s] = active[s] - 1 /\ \A t \in Sessions : t # s => active'[t] = active[t]
  BY <1>0 DEF H!TypeOK
<1>5. active[s] > 0
  BY <1>1, CountsAre, HandlingFinite DEF H!HttpInv
<1> QED
  BY <1>2, <1>3, <1>4, <1>5, CountsAre, HandlingFinite DEF H!HttpInv

(* The same for an initialize request, which is in the making by itself.   *)
LEMMA CountsMade ==
  ASSUME H!HttpInv, NEW s \in Sessions, use' = use, on' = on,
         init[s] \notin H!InMaking, init'[s] \in H!InMaking,
         active' = [active EXCEPT ![s] = @ + 1],
         \A t \in Sessions : t # s => init'[t] = init[t]
  PROVE  H!ActiveCounts'
<1>0. H!TypeOK
  BY DEF H!HttpInv
<1>1. \A t \in Sessions : Handling(t)' = Handling(t)
  BY DEF Handling
<1>2. active'[s] = active[s] + 1 /\ \A t \in Sessions : t # s => active'[t] = active[t]
  BY <1>0 DEF H!TypeOK
<1> QED
  BY <1>1, <1>2, CountsAre, HandlingFinite DEF H!HttpInv

LEMMA CountsDone ==
  ASSUME H!HttpInv, NEW s \in Sessions, use' = use, on' = on,
         init[s] \in H!InMaking, init'[s] \notin H!InMaking,
         active' = [active EXCEPT ![s] = @ - 1],
         \A t \in Sessions : t # s => init'[t] = init[t]
  PROVE  H!ActiveCounts'
<1>0. H!TypeOK
  BY DEF H!HttpInv
<1>1. \A t \in Sessions : Handling(t)' = Handling(t)
  BY DEF Handling
<1>2. active'[s] = active[s] - 1 /\ \A t \in Sessions : t # s => active'[t] = active[t]
  BY <1>0 DEF H!TypeOK
<1> QED
  BY <1>1, <1>2, CountsAre, HandlingFinite DEF H!HttpInv

(* The sessions of a listener and those in the making are as many or less, *)
(* unless an initialize request takes a place.                             *)
Held(v) == H!Tracked(v) \cup H!Pending(v)

(* Both are finite, and together no more than apart.                       *)
LEMMA HeldFinite ==
  ASSUME NEW v
  PROVE  /\ IsFiniteSet(H!Tracked(v)) /\ IsFiniteSet(H!Pending(v)) /\ IsFiniteSet(Held(v))
         /\ Cardinality(Held(v)) \in Nat
         /\ Cardinality(Held(v)) <= Cardinality(H!Tracked(v)) + Cardinality(H!Pending(v))
         /\ Cardinality(H!Tracked(v)) + Cardinality(H!Pending(v)) \in Nat
<1>1. IsFiniteSet(H!Tracked(v)) /\ IsFiniteSet(H!Pending(v))
  BY FS_Subset, Bounded DEF H!Tracked, H!Pending, H!At
<1>2. IsFiniteSet(H!Tracked(v) \cap H!Pending(v))
  BY <1>1, FS_Intersection
<1>3. /\ Cardinality(H!Tracked(v)) \in Nat /\ Cardinality(H!Pending(v)) \in Nat
      /\ Cardinality(H!Tracked(v) \cap H!Pending(v)) \in Nat
  BY <1>1, <1>2, FS_CardinalityType
<1>4. /\ IsFiniteSet(Held(v))
      /\ Cardinality(Held(v)) = Cardinality(H!Tracked(v)) + Cardinality(H!Pending(v))
                                - Cardinality(H!Tracked(v) \cap H!Pending(v))
  BY <1>1, FS_Union DEF Held
<1>5. Cardinality(Held(v)) \in Nat
  BY <1>4, FS_CardinalityType
<1> HIDE DEF Held
<1> QED
  BY <1>1, <1>3, <1>4, <1>5

(* A listener that holds no more than before is within its capacity.       *)
LEMMA RoomStays ==
  ASSUME H!HttpInv, \A v \in Servers : Held(v)' \subseteq Held(v)
  PROVE  H!WithinCapacity'
<1>1. ASSUME NEW v \in Servers PROVE Cardinality(Held(v)') <= MaxSessions
  <2>1. Cardinality(Held(v)') <= Cardinality(Held(v)) /\ Cardinality(Held(v)') \in Nat
    BY HeldFinite, FS_Subset, FS_CardinalityType
  <2>2. Cardinality(Held(v)) <= MaxSessions
    BY SameNotions DEF Held, H!HttpInv, H!WithinCapacity
  <2> QED
    BY <2>1, <2>2, HeldFinite, Bounded
<1> QED
  BY <1>1, SameNotions DEF H!WithinCapacity, Held

(* Sessions that are disposed of.                                          *)
LEMMA DisposeTypes ==
  ASSUME H!TypeOK, NEW gone, H!Dispose(gone)
  PROVE  /\ tracked' \in [Sessions -> BOOLEAN] /\ disposed' \in [Sessions -> BOOLEAN]
         /\ timer' \in [Sessions -> BOOLEAN]
<1>1. \A s \in Sessions :
        /\ (disposed[s] \/ s \in gone) \in BOOLEAN
        /\ (tracked[s] /\ ~(s \in gone)) \in BOOLEAN
        /\ (timer[s] /\ ~(s \in gone)) \in BOOLEAN
  OBVIOUS
<1> QED
  BY <1>1 DEF H!Dispose

LEMMA CloseTypes ==
  ASSUME H!TypeOK, NEW v, H!StopHttp \/ H!CloseListener(v) \/ H!Closed(v)
  PROVE  /\ tracked' \in [Sessions -> BOOLEAN] /\ disposed' \in [Sessions -> BOOLEAN]
         /\ timer' \in [Sessions -> BOOLEAN]
<1>1. CASE H!StopHttp
  BY <1>1, DisposeTypes DEF H!StopHttp
<1>2. CASE H!Closed(v)
  BY <1>2, DisposeTypes DEF H!Closed
<1>3. CASE H!CloseListener(v)
  BY <1>3 DEF H!CloseListener, H!session, H!TypeOK
<1> QED
  BY <1>1, <1>2, <1>3

LEMMA FailTypes ==
  ASSUME H!TypeOK, NEW s, H!InitFails(s) \/ H!IdleTimer(s)
  PROVE  /\ tracked' \in [Sessions -> BOOLEAN] /\ disposed' \in [Sessions -> BOOLEAN]
         /\ timer' \in [Sessions -> BOOLEAN]
<1>1. H!Dispose({s})
  BY DEF H!InitFails, H!IdleTimer
<1> QED
  BY <1>1, DisposeTypes

(* What is under way is counted.                                           *)
LEMMA UnderWay ==
  ASSUME H!HttpInv
  PROVE  /\ \A s \in Sessions : init[s] \in H!InMaking => active[s] > 0
         /\ \A u \in Uses : use[u] = "handling" => on[u] \in Sessions /\ active[on[u]] > 0
<1>0. H!TypeOK /\ H!ActiveCounts /\ H!InOrder
  BY DEF H!HttpInv
<1>1. ASSUME NEW s \in Sessions, init[s] \in H!InMaking PROVE active[s] > 0
  BY <1>0, <1>1, CountsAre, HandlingFinite
<1>2. ASSUME NEW u \in Uses, use[u] = "handling" PROVE on[u] \in Sessions /\ active[on[u]] > 0
  <2>1. on[u] \in Sessions
    BY <1>0, <1>2 DEF H!InOrder
  <2>2. u \in Handling(on[u])
    BY <1>2 DEF Handling
  <2> QED
    BY <1>0, <2>1, <2>2, CountsAre, HandlingFinite
<1> QED
  BY <1>1, <1>2

-----------------------------------------------------------------------------
(* The listener's actions, each of which keeps the invariant.              *)
LEMMA ListenerKeeps ==
  ASSUME H!HttpInv, NEW v \in Servers, H!StartHttp(v) \/ H!Listens(v) \/ H!PortTaken(v)
  PROVE  H!HttpInv'
<1>0. /\ H!TypeOK /\ H!TrackedIsWatched /\ H!ActiveCounts /\ H!NoStrayListener
      /\ H!WithinCapacity /\ H!InOrder
  BY DEF H!HttpInv
<1> USE DEF H!StartHttp, H!Listens, H!PortTaken, H!Starting, H!listener, H!session
<1>1. H!TypeOK'
  BY <1>0, UnderWay DEF H!TypeOK, H!InMaking, H!InOrder
<1>2. H!InOrder'
  BY <1>0 DEF H!TypeOK, H!InOrder, H!TrackedIsWatched, H!Starting, H!NoStrayListener
<1>3. H!NoStrayListener'
  BY <1>0, Bounded DEF H!TypeOK, H!InOrder, H!Starting, H!NoStrayListener
<1>4. H!ActiveCounts'
  <2>1. \A w \in Uses, t \in Sessions :
          use'[w] = "handling" /\ on'[w] = t <=> use[w] = "handling" /\ on[w] = t
    BY <1>0 DEF H!TypeOK
  <2>2. \A t \in Sessions : init'[t] \in H!InMaking <=> init[t] \in H!InMaking
    BY <1>0 DEF H!TypeOK, H!InMaking
  <2>3. active' = active
    OBVIOUS
  <2> QED
    BY <2>1, <2>2, <2>3, CountsSame
<1>5. H!TrackedIsWatched'
  BY <1>0, UnderWay DEF H!TypeOK, H!InOrder, H!TrackedIsWatched, H!InMaking
<1>6. H!WithinCapacity'
  <2>1. \A x \in Servers : Held(x)' \subseteq Held(x)
    BY <1>0 DEF H!TypeOK, H!InOrder, H!TrackedIsWatched, Held, H!Tracked, H!Pending, H!At, H!InMaking
  <2> QED
    BY <2>1, RoomStays
<1> QED
  BY <1>1, <1>2, <1>3, <1>4, <1>5, <1>6 DEF H!HttpInv

LEMMA CloseKeeps ==
  ASSUME H!HttpInv, NEW v \in Servers, H!StopHttp \/ H!CloseListener(v) \/ H!Closed(v)
  PROVE  H!HttpInv'
<1>0. /\ H!TypeOK /\ H!TrackedIsWatched /\ H!ActiveCounts /\ H!NoStrayListener
      /\ H!WithinCapacity /\ H!InOrder
  BY DEF H!HttpInv
<1>d. /\ tracked' \in [Sessions -> BOOLEAN] /\ disposed' \in [Sessions -> BOOLEAN]
      /\ timer' \in [Sessions -> BOOLEAN]
  BY <1>0, CloseTypes
<1> USE DEF H!StopHttp, H!CloseListener, H!Closed, H!Dispose, H!Tracked, H!At, H!listener, H!session
<1>1. H!TypeOK'
  <2>1. server' \in [Servers -> {"new", "binding", "listening", "stopping", "closing", "closed"}]
          /\ httpServer' \in Servers \cup {None}
    BY <1>0 DEF H!TypeOK
  <2>2. init' \in [Sessions -> {"none", "reading", "over"} \cup H!InMaking]
          /\ home' \in [Sessions -> Servers \cup {None}]
    BY <1>0 DEF H!TypeOK, H!InMaking
  <2>3. tracked' \in [Sessions -> BOOLEAN] /\ disposed' \in [Sessions -> BOOLEAN]
    BY <1>d
  <2>4. timer' \in [Sessions -> BOOLEAN]
    BY <1>d
  <2>5. active' \in [Sessions -> Nat]
    BY <1>0, UnderWay DEF H!TypeOK, H!InMaking, H!InOrder
  <2>6. use' \in [Uses -> {"idle", "reading", "handling"}] /\ on' \in [Uses -> Sessions \cup {None}]
    BY <1>0 DEF H!TypeOK
  <2> QED
    BY <2>1, <2>2, <2>3, <2>4, <2>5, <2>6 DEF H!TypeOK
<1>2. H!InOrder'
  BY <1>0 DEF H!TypeOK, H!InOrder, H!TrackedIsWatched, H!Starting, H!NoStrayListener
<1>3. H!NoStrayListener'
  BY <1>0, Bounded DEF H!TypeOK, H!InOrder, H!Starting, H!NoStrayListener
<1>4. H!ActiveCounts'
  <2>1. \A w \in Uses, t \in Sessions :
          use'[w] = "handling" /\ on'[w] = t <=> use[w] = "handling" /\ on[w] = t
    BY <1>0 DEF H!TypeOK
  <2>2. \A t \in Sessions : init'[t] \in H!InMaking <=> init[t] \in H!InMaking
    BY <1>0 DEF H!TypeOK, H!InMaking
  <2>3. active' = active
    OBVIOUS
  <2> QED
    BY <2>1, <2>2, <2>3, CountsSame
<1>5. H!TrackedIsWatched'
  BY <1>0, UnderWay DEF H!TypeOK, H!InOrder, H!TrackedIsWatched, H!InMaking
<1>6. H!WithinCapacity'
  <2>1. \A x \in Servers : Held(x)' \subseteq Held(x)
    BY <1>0 DEF H!TypeOK, H!InOrder, H!TrackedIsWatched, Held, H!Tracked, H!Pending, H!At, H!InMaking
  <2> QED
    BY <2>1, RoomStays
<1> QED
  BY <1>1, <1>2, <1>3, <1>4, <1>5, <1>6 DEF H!HttpInv

(* The initialize request, from its arrival to its answer.                 *)
LEMMA InitRequestKeeps ==
  ASSUME H!HttpInv, NEW s \in Sessions, H!InitRequest(s)
  PROVE  H!HttpInv'
<1>0. /\ H!TypeOK /\ H!TrackedIsWatched /\ H!ActiveCounts /\ H!NoStrayListener
      /\ H!WithinCapacity /\ H!InOrder
  BY DEF H!HttpInv
<1> USE DEF H!InitRequest, H!listener, H!session
<1>1. H!TypeOK'
  BY <1>0, UnderWay DEF H!TypeOK, H!InMaking, H!InOrder
<1>2. H!InOrder'
  BY <1>0 DEF H!TypeOK, H!InOrder, H!TrackedIsWatched, H!Starting, H!NoStrayListener
<1>3. H!NoStrayListener'
  BY <1>0, Bounded DEF H!TypeOK, H!InOrder, H!Starting, H!NoStrayListener
<1>4. H!ActiveCounts'
  <2>1. \A w \in Uses, t \in Sessions :
          use'[w] = "handling" /\ on'[w] = t <=> use[w] = "handling" /\ on[w] = t
    BY <1>0 DEF H!TypeOK
  <2>2. \A t \in Sessions : init'[t] \in H!InMaking <=> init[t] \in H!InMaking
    BY <1>0 DEF H!TypeOK, H!InMaking
  <2>3. active' = active
    OBVIOUS
  <2> QED
    BY <2>1, <2>2, <2>3, CountsSame
<1>5. H!TrackedIsWatched'
  BY <1>0, UnderWay DEF H!TypeOK, H!InOrder, H!TrackedIsWatched, H!InMaking
<1>6. H!WithinCapacity'
  <2>1. \A x \in Servers : Held(x)' \subseteq Held(x)
    BY <1>0 DEF H!TypeOK, H!InOrder, H!TrackedIsWatched, Held, H!Tracked, H!Pending, H!At, H!InMaking
  <2> QED
    BY <2>1, RoomStays
<1> QED
  BY <1>1, <1>2, <1>3, <1>4, <1>5, <1>6 DEF H!HttpInv

LEMMA RefusedKeeps ==
  ASSUME H!HttpInv, NEW s \in Sessions, init[s] = "reading", init' = [init EXCEPT ![s] = "over"],
         UNCHANGED <<H!listener, H!session, home, use, on>>
  PROVE  H!HttpInv'
<1>0. /\ H!TypeOK /\ H!TrackedIsWatched /\ H!ActiveCounts /\ H!NoStrayListener
      /\ H!WithinCapacity /\ H!InOrder
  BY DEF H!HttpInv
<1> USE DEF H!listener, H!session
<1>1. H!TypeOK'
  BY <1>0, UnderWay DEF H!TypeOK, H!InMaking, H!InOrder
<1>2. H!InOrder'
  BY <1>0 DEF H!TypeOK, H!InOrder, H!TrackedIsWatched, H!Starting, H!NoStrayListener
<1>3. H!NoStrayListener'
  BY <1>0, Bounded DEF H!TypeOK, H!InOrder, H!Starting, H!NoStrayListener
<1>4. H!ActiveCounts'
  <2>1. \A w \in Uses, t \in Sessions :
          use'[w] = "handling" /\ on'[w] = t <=> use[w] = "handling" /\ on[w] = t
    BY <1>0 DEF H!TypeOK
  <2>2. \A t \in Sessions : init'[t] \in H!InMaking <=> init[t] \in H!InMaking
    BY <1>0 DEF H!TypeOK, H!InMaking
  <2>3. active' = active
    OBVIOUS
  <2> QED
    BY <2>1, <2>2, <2>3, CountsSame
<1>5. H!TrackedIsWatched'
  BY <1>0, UnderWay DEF H!TypeOK, H!InOrder, H!TrackedIsWatched, H!InMaking
<1>6. H!WithinCapacity'
  <2>1. \A x \in Servers : Held(x)' \subseteq Held(x)
    BY <1>0 DEF H!TypeOK, H!InOrder, H!TrackedIsWatched, Held, H!Tracked, H!Pending, H!At, H!InMaking
  <2> QED
    BY <2>1, RoomStays
<1> QED
  BY <1>1, <1>2, <1>3, <1>4, <1>5, <1>6 DEF H!HttpInv

(* The one action that takes a place, and has looked whether there is one. *)
LEMMA MadeKeeps ==
  ASSUME H!HttpInv, NEW s \in Sessions, init[s] = "reading", H!HasRoom(home[s]),
         init' = [init EXCEPT ![s] = "connecting"], H!Begins(s),
         UNCHANGED <<H!listener, tracked, disposed, home, use, on>>
  PROVE  H!HttpInv'
<1>0. /\ H!TypeOK /\ H!TrackedIsWatched /\ H!ActiveCounts /\ H!NoStrayListener
      /\ H!WithinCapacity /\ H!InOrder
  BY DEF H!HttpInv
<1> USE DEF H!Begins, H!listener
<1>1. H!TypeOK'
  BY <1>0, UnderWay DEF H!TypeOK, H!InMaking, H!InOrder
<1>2. H!InOrder'
  BY <1>0 DEF H!TypeOK, H!InOrder, H!TrackedIsWatched, H!Starting, H!NoStrayListener
<1>3. H!NoStrayListener'
  BY <1>0, Bounded DEF H!TypeOK, H!InOrder, H!Starting, H!NoStrayListener
<1>4. H!ActiveCounts'
  <2>1. active' = [active EXCEPT ![s] = @ + 1] /\ use' = use /\ on' = on
    BY <1>0 DEF H!TypeOK
  <2>2. \A t \in Sessions : t # s => init'[t] = init[t]
    BY <1>0 DEF H!TypeOK
  <2>3. init[s] \notin H!InMaking /\ init'[s] \in H!InMaking
    BY <1>0 DEF H!TypeOK, H!InMaking
  <2> QED
    BY <2>1, <2>2, <2>3, CountsMade
<1>5. H!TrackedIsWatched'
  BY <1>0, UnderWay DEF H!TypeOK, H!InOrder, H!TrackedIsWatched, H!InMaking
<1>6. H!WithinCapacity'
  <2>1. ASSUME NEW v \in Servers PROVE Cardinality(Held(v)') <= MaxSessions
    <3>1. CASE v = home[s]
      <4>1. Held(v)' = Held(v) \cup {s}
        BY <1>0, <3>1 DEF H!TypeOK, Held, H!Tracked, H!Pending, H!At, H!InMaking
      <4>2. Cardinality(H!Tracked(v)) + Cardinality(H!Pending(v)) < MaxSessions
        BY <3>1, SameNotions DEF H!HasRoom
      <4>3. Cardinality(Held(v) \cup {s}) <= Cardinality(Held(v)) + 1
              /\ Cardinality(Held(v) \cup {s}) \in Nat
        <5>1. IsFiniteSet(Held(v)) /\ Cardinality(Held(v)) \in Nat
          BY HeldFinite
        <5>2. CASE s \in Held(v)
          <6>1. Held(v) \cup {s} = Held(v)
            BY <5>2
          <6>2. Cardinality(Held(v) \cup {s}) = Cardinality(Held(v))
            BY <6>1, Zenon
          <6> QED
            BY <5>1, <6>2
        <5>3. CASE s \notin Held(v)
          <6>1. Cardinality(Held(v) \cup {s}) = Cardinality(Held(v)) + 1
            BY <5>1, <5>3, FS_AddElement
          <6> QED
            BY <5>1, <6>1
        <5> QED
          BY <5>2, <5>3
      <4>4. Cardinality(Held(v)) + 1 <= MaxSessions
        BY <4>2, HeldFinite, Bounded
      <4>5. Cardinality(Held(v)) \in Nat
        BY HeldFinite
      <4>6. Cardinality(Held(v)') = Cardinality(Held(v) \cup {s})
        BY <4>1
      <4> QED
        BY <4>3, <4>4, <4>5, <4>6, Bounded
    <3>2. CASE v # home[s]
      <4>1. Held(v)' = Held(v)
        BY <1>0, <3>2 DEF H!TypeOK, Held, H!Tracked, H!Pending, H!At, H!InMaking
      <4> QED
        BY <1>0, <4>1, SameNotions DEF H!WithinCapacity, Held
    <3> QED
      BY <3>1, <3>2
  <2> QED
    BY <2>1, SameNotions DEF H!WithinCapacity, Held
<1> QED
  BY <1>1, <1>2, <1>3, <1>4, <1>5, <1>6 DEF H!HttpInv

LEMMA InitializedKeeps ==
  ASSUME H!HttpInv, NEW s \in Sessions, H!SessionInitialized(s)
  PROVE  H!HttpInv'
<1>0. /\ H!TypeOK /\ H!TrackedIsWatched /\ H!ActiveCounts /\ H!NoStrayListener
      /\ H!WithinCapacity /\ H!InOrder
  BY DEF H!HttpInv
<1> USE DEF H!SessionInitialized, H!listener, H!session
<1>1. H!TypeOK'
  BY <1>0, UnderWay DEF H!TypeOK, H!InMaking, H!InOrder
<1>2. H!InOrder'
  BY <1>0 DEF H!TypeOK, H!InOrder, H!TrackedIsWatched, H!Starting, H!NoStrayListener
<1>3. H!NoStrayListener'
  BY <1>0, Bounded DEF H!TypeOK, H!InOrder, H!Starting, H!NoStrayListener
<1>4. H!ActiveCounts'
  <2>1. \A w \in Uses, t \in Sessions :
          use'[w] = "handling" /\ on'[w] = t <=> use[w] = "handling" /\ on[w] = t
    BY <1>0 DEF H!TypeOK
  <2>2. \A t \in Sessions : init'[t] \in H!InMaking <=> init[t] \in H!InMaking
    BY <1>0 DEF H!TypeOK, H!InMaking
  <2>3. active' = active
    OBVIOUS
  <2> QED
    BY <2>1, <2>2, <2>3, CountsSame
<1>5. H!TrackedIsWatched'
  BY <1>0, UnderWay DEF H!TypeOK, H!InOrder, H!TrackedIsWatched, H!InMaking
<1>6. H!WithinCapacity'
  <2>1. \A x \in Servers : Held(x)' \subseteq Held(x)
    BY <1>0 DEF H!TypeOK, H!InOrder, H!TrackedIsWatched, Held, H!Tracked, H!Pending, H!At, H!InMaking
  <2> QED
    BY <2>1, RoomStays
<1> QED
  BY <1>1, <1>2, <1>3, <1>4, <1>5, <1>6 DEF H!HttpInv

LEMMA InitAnsweredKeeps ==
  ASSUME H!HttpInv, NEW s \in Sessions, H!InitAnswered(s) \/ H!InitFailed(s)
  PROVE  H!HttpInv'
<1>0. /\ H!TypeOK /\ H!TrackedIsWatched /\ H!ActiveCounts /\ H!NoStrayListener
      /\ H!WithinCapacity /\ H!InOrder
  BY DEF H!HttpInv
<1> USE DEF H!InitAnswered, H!InitFailed, H!Ends, H!listener, H!session
<1>1. H!TypeOK'
  BY <1>0, UnderWay DEF H!TypeOK, H!InMaking, H!InOrder
<1>2. H!InOrder'
  BY <1>0 DEF H!TypeOK, H!InOrder, H!TrackedIsWatched, H!Starting, H!NoStrayListener
<1>3. H!NoStrayListener'
  BY <1>0, Bounded DEF H!TypeOK, H!InOrder, H!Starting, H!NoStrayListener
<1>4. H!ActiveCounts'
  <2>1. active' = [active EXCEPT ![s] = @ - 1] /\ use' = use /\ on' = on
    BY <1>0 DEF H!TypeOK
  <2>2. \A t \in Sessions : t # s => init'[t] = init[t]
    BY <1>0 DEF H!TypeOK
  <2>3. init[s] \in H!InMaking /\ init'[s] \notin H!InMaking
    BY <1>0 DEF H!TypeOK, H!InMaking
  <2> QED
    BY <2>1, <2>2, <2>3, CountsDone
<1>5. H!TrackedIsWatched'
  BY <1>0, UnderWay DEF H!TypeOK, H!InOrder, H!TrackedIsWatched, H!InMaking
<1>6. H!WithinCapacity'
  <2>1. \A x \in Servers : Held(x)' \subseteq Held(x)
    BY <1>0 DEF H!TypeOK, H!InOrder, H!TrackedIsWatched, Held, H!Tracked, H!Pending, H!At, H!InMaking
  <2> QED
    BY <2>1, RoomStays
<1> QED
  BY <1>1, <1>2, <1>3, <1>4, <1>5, <1>6 DEF H!HttpInv

LEMMA InitFailsKeeps ==
  ASSUME H!HttpInv, NEW s \in Sessions, H!InitFails(s) \/ H!IdleTimer(s)
  PROVE  H!HttpInv'
<1>0. /\ H!TypeOK /\ H!TrackedIsWatched /\ H!ActiveCounts /\ H!NoStrayListener
      /\ H!WithinCapacity /\ H!InOrder
  BY DEF H!HttpInv
<1>d. /\ tracked' \in [Sessions -> BOOLEAN] /\ disposed' \in [Sessions -> BOOLEAN]
      /\ timer' \in [Sessions -> BOOLEAN]
  BY <1>0, FailTypes
<1> USE DEF H!InitFails, H!IdleTimer, H!Dispose, H!listener, H!session
<1>1. H!TypeOK'
  <2>1. server' \in [Servers -> {"new", "binding", "listening", "stopping", "closing", "closed"}]
          /\ httpServer' \in Servers \cup {None}
    BY <1>0 DEF H!TypeOK
  <2>2. init' \in [Sessions -> {"none", "reading", "over"} \cup H!InMaking]
          /\ home' \in [Sessions -> Servers \cup {None}]
    BY <1>0 DEF H!TypeOK, H!InMaking
  <2>3. tracked' \in [Sessions -> BOOLEAN] /\ disposed' \in [Sessions -> BOOLEAN]
    BY <1>d
  <2>4. timer' \in [Sessions -> BOOLEAN]
    BY <1>d
  <2>5. active' \in [Sessions -> Nat]
    BY <1>0, UnderWay DEF H!TypeOK, H!InMaking, H!InOrder
  <2>6. use' \in [Uses -> {"idle", "reading", "handling"}] /\ on' \in [Uses -> Sessions \cup {None}]
    BY <1>0 DEF H!TypeOK
  <2> QED
    BY <2>1, <2>2, <2>3, <2>4, <2>5, <2>6 DEF H!TypeOK
<1>2. H!InOrder'
  BY <1>0 DEF H!TypeOK, H!InOrder, H!TrackedIsWatched, H!Starting, H!NoStrayListener
<1>3. H!NoStrayListener'
  BY <1>0, Bounded DEF H!TypeOK, H!InOrder, H!Starting, H!NoStrayListener
<1>4. H!ActiveCounts'
  <2>1. \A w \in Uses, t \in Sessions :
          use'[w] = "handling" /\ on'[w] = t <=> use[w] = "handling" /\ on[w] = t
    BY <1>0 DEF H!TypeOK
  <2>2. \A t \in Sessions : init'[t] \in H!InMaking <=> init[t] \in H!InMaking
    BY <1>0 DEF H!TypeOK, H!InMaking
  <2>3. active' = active
    OBVIOUS
  <2> QED
    BY <2>1, <2>2, <2>3, CountsSame
<1>5. H!TrackedIsWatched'
  BY <1>0, UnderWay DEF H!TypeOK, H!InOrder, H!TrackedIsWatched, H!InMaking
<1>6. H!WithinCapacity'
  <2>1. \A x \in Servers : Held(x)' \subseteq Held(x)
    BY <1>0 DEF H!TypeOK, H!InOrder, H!TrackedIsWatched, Held, H!Tracked, H!Pending, H!At, H!InMaking
  <2> QED
    BY <2>1, RoomStays
<1> QED
  BY <1>1, <1>2, <1>3, <1>4, <1>5, <1>6 DEF H!HttpInv

(* Requests of a session.                                                  *)
LEMMA ReadingKeeps ==
  ASSUME H!HttpInv, NEW u \in Uses, NEW s \in Sessions, 
         \/ use[u] = "idle" /\ on' = [on EXCEPT ![u] = s] /\ use' = [use EXCEPT ![u] = "reading"]
         \/ use[u] = "reading" /\ on' = on /\ use' = [use EXCEPT ![u] = "idle"],
         UNCHANGED <<H!listener, H!session, init, home>>
  PROVE  H!HttpInv'
<1>0. /\ H!TypeOK /\ H!TrackedIsWatched /\ H!ActiveCounts /\ H!NoStrayListener
      /\ H!WithinCapacity /\ H!InOrder
  BY DEF H!HttpInv
<1> USE DEF H!listener, H!session
<1>1. H!TypeOK'
  BY <1>0, UnderWay DEF H!TypeOK, H!InMaking, H!InOrder
<1>2. H!InOrder'
  BY <1>0 DEF H!TypeOK, H!InOrder, H!TrackedIsWatched, H!Starting, H!NoStrayListener
<1>3. H!NoStrayListener'
  BY <1>0, Bounded DEF H!TypeOK, H!InOrder, H!Starting, H!NoStrayListener
<1>4. H!ActiveCounts'
  <2>1. \A w \in Uses, t \in Sessions :
          use'[w] = "handling" /\ on'[w] = t <=> use[w] = "handling" /\ on[w] = t
    BY <1>0 DEF H!TypeOK
  <2>2. \A t \in Sessions : init'[t] \in H!InMaking <=> init[t] \in H!InMaking
    BY <1>0 DEF H!TypeOK, H!InMaking
  <2>3. active' = active
    OBVIOUS
  <2> QED
    BY <2>1, <2>2, <2>3, CountsSame
<1>5. H!TrackedIsWatched'
  BY <1>0, UnderWay DEF H!TypeOK, H!InOrder, H!TrackedIsWatched, H!InMaking
<1>6. H!WithinCapacity'
  <2>1. \A x \in Servers : Held(x)' \subseteq Held(x)
    BY <1>0 DEF H!TypeOK, H!InOrder, H!TrackedIsWatched, Held, H!Tracked, H!Pending, H!At, H!InMaking
  <2> QED
    BY <2>1, RoomStays
<1> QED
  BY <1>1, <1>2, <1>3, <1>4, <1>5, <1>6 DEF H!HttpInv

(* A request begins to be handled, when it comes or when it has been read. *)
LEMMA HandledKeeps ==
  ASSUME H!HttpInv, NEW u \in Uses, NEW s \in Sessions, 
         use[u] # "handling", use' = [use EXCEPT ![u] = "handling"],
         on' = [on EXCEPT ![u] = s], H!Begins(s),
         UNCHANGED <<H!listener, tracked, disposed, init, home>>
  PROVE  H!HttpInv'
<1>0. /\ H!TypeOK /\ H!TrackedIsWatched /\ H!ActiveCounts /\ H!NoStrayListener
      /\ H!WithinCapacity /\ H!InOrder
  BY DEF H!HttpInv
<1> USE DEF H!Begins, H!listener
<1>1. H!TypeOK'
  BY <1>0, UnderWay DEF H!TypeOK, H!InMaking, H!InOrder
<1>2. H!InOrder'
  BY <1>0 DEF H!TypeOK, H!InOrder, H!TrackedIsWatched, H!Starting, H!NoStrayListener
<1>3. H!NoStrayListener'
  BY <1>0, Bounded DEF H!TypeOK, H!InOrder, H!Starting, H!NoStrayListener
<1>4. H!ActiveCounts'
  <2>1. on'[u] = s /\ \A w \in Uses : w # u => on'[w] = on[w]
    BY <1>0 DEF H!TypeOK
  <2> QED
    BY <2>1, CountsBegin
<1>5. H!TrackedIsWatched'
  BY <1>0, UnderWay DEF H!TypeOK, H!InOrder, H!TrackedIsWatched, H!InMaking
<1>6. H!WithinCapacity'
  <2>1. \A x \in Servers : Held(x)' \subseteq Held(x)
    BY <1>0 DEF H!TypeOK, H!InOrder, H!TrackedIsWatched, Held, H!Tracked, H!Pending, H!At, H!InMaking
  <2> QED
    BY <2>1, RoomStays
<1> QED
  BY <1>1, <1>2, <1>3, <1>4, <1>5, <1>6 DEF H!HttpInv

LEMMA DeletedKeeps ==
  ASSUME H!HttpInv, NEW u \in Uses, H!Deleted(u)
  PROVE  H!HttpInv'
<1>0. /\ H!TypeOK /\ H!TrackedIsWatched /\ H!ActiveCounts /\ H!NoStrayListener
      /\ H!WithinCapacity /\ H!InOrder
  BY DEF H!HttpInv
<1> USE DEF H!Deleted, H!listener, H!session
<1>1. H!TypeOK'
  BY <1>0, UnderWay DEF H!TypeOK, H!InMaking, H!InOrder
<1>2. H!InOrder'
  BY <1>0 DEF H!TypeOK, H!InOrder, H!TrackedIsWatched, H!Starting, H!NoStrayListener
<1>3. H!NoStrayListener'
  BY <1>0, Bounded DEF H!TypeOK, H!InOrder, H!Starting, H!NoStrayListener
<1>4. H!ActiveCounts'
  <2>1. \A w \in Uses, t \in Sessions :
          use'[w] = "handling" /\ on'[w] = t <=> use[w] = "handling" /\ on[w] = t
    BY <1>0 DEF H!TypeOK
  <2>2. \A t \in Sessions : init'[t] \in H!InMaking <=> init[t] \in H!InMaking
    BY <1>0 DEF H!TypeOK, H!InMaking
  <2>3. active' = active
    OBVIOUS
  <2> QED
    BY <2>1, <2>2, <2>3, CountsSame
<1>5. H!TrackedIsWatched'
  BY <1>0, UnderWay DEF H!TypeOK, H!InOrder, H!TrackedIsWatched, H!InMaking
<1>6. H!WithinCapacity'
  <2>1. \A x \in Servers : Held(x)' \subseteq Held(x)
    BY <1>0 DEF H!TypeOK, H!InOrder, H!TrackedIsWatched, Held, H!Tracked, H!Pending, H!At, H!InMaking
  <2> QED
    BY <2>1, RoomStays
<1> QED
  BY <1>1, <1>2, <1>3, <1>4, <1>5, <1>6 DEF H!HttpInv

LEMMA AnsweredKeeps ==
  ASSUME H!HttpInv, NEW u \in Uses, H!Answered(u)
  PROVE  H!HttpInv'
<1>0. /\ H!TypeOK /\ H!TrackedIsWatched /\ H!ActiveCounts /\ H!NoStrayListener
      /\ H!WithinCapacity /\ H!InOrder
  BY DEF H!HttpInv
<1> USE DEF H!Answered, H!Ends, H!listener, H!session
<1>1. H!TypeOK'
  BY <1>0, UnderWay DEF H!TypeOK, H!InMaking, H!InOrder
<1>2. H!InOrder'
  BY <1>0 DEF H!TypeOK, H!InOrder, H!TrackedIsWatched, H!Starting, H!NoStrayListener
<1>3. H!NoStrayListener'
  BY <1>0, Bounded DEF H!TypeOK, H!InOrder, H!Starting, H!NoStrayListener
<1>4. H!ActiveCounts'
  BY <1>0, CountsEnd, UnderWay
<1>5. H!TrackedIsWatched'
  BY <1>0, UnderWay DEF H!TypeOK, H!InOrder, H!TrackedIsWatched, H!InMaking
<1>6. H!WithinCapacity'
  <2>1. \A x \in Servers : Held(x)' \subseteq Held(x)
    BY <1>0 DEF H!TypeOK, H!InOrder, H!TrackedIsWatched, Held, H!Tracked, H!Pending, H!At, H!InMaking
  <2> QED
    BY <2>1, RoomStays
<1> QED
  BY <1>1, <1>2, <1>3, <1>4, <1>5, <1>6 DEF H!HttpInv

(* The shell does not touch the listener.                                  *)
LEMMA StillKeeps ==
  ASSUME H!HttpInv, UNCHANGED listenerVars
  PROVE  H!HttpInv'
<1>0. /\ H!TypeOK /\ H!TrackedIsWatched /\ H!ActiveCounts /\ H!NoStrayListener
      /\ H!WithinCapacity /\ H!InOrder
  BY DEF H!HttpInv
<1> USE DEF listenerVars
<1>1. H!TypeOK' /\ H!TrackedIsWatched' /\ H!InOrder'
  BY <1>0 DEF H!TypeOK, H!TrackedIsWatched, H!InOrder
<1>2. H!NoStrayListener'
  BY <1>0 DEF H!NoStrayListener, H!Starting
<1>3. H!ActiveCounts'
  BY <1>0, CountsSame
<1>4. H!WithinCapacity'
  <2>1. \A x \in Servers : Held(x)' \subseteq Held(x)
    BY DEF Held, H!Tracked, H!Pending, H!At
  <2> QED
    BY <2>1, RoomStays
<1> QED
  BY <1>1, <1>2, <1>3, <1>4 DEF H!HttpInv

(* Every step of the listener keeps the invariant.                         *)
LEMMA ListenerStepKeeps ==
  ASSUME H!HttpInv, H!Next
  PROVE  H!HttpInv'
<1>1. ASSUME NEW v \in Servers,
             H!StartHttp(v) \/ H!Listens(v) \/ H!PortTaken(v) \/ H!CloseListener(v) \/ H!Closed(v)
      PROVE  H!HttpInv'
  BY <1>1, ListenerKeeps, CloseKeeps
<1>2. ASSUME H!StopHttp PROVE H!HttpInv'
  <2>1. httpServer \in Servers
    BY <1>2 DEF H!HttpInv, H!TypeOK, H!StopHttp
  <2> QED
    BY <1>2, <2>1, CloseKeeps
<1>3. ASSUME NEW s \in Sessions, H!InitBody(s) PROVE H!HttpInv'
  <2>1. CASE init' = [init EXCEPT ![s] = "over"] /\ UNCHANGED H!session
    BY <1>3, <2>1, RefusedKeeps DEF H!InitBody
  <2>2. CASE H!HasRoom(home[s]) /\ init' = [init EXCEPT ![s] = "connecting"] /\ H!Begins(s)
             /\ UNCHANGED <<tracked, disposed>>
    BY <1>3, <2>2, MadeKeeps DEF H!InitBody
  <2> QED
    BY <1>3, <2>1, <2>2 DEF H!InitBody
<1>4. ASSUME NEW s \in Sessions,
             \/ H!InitRequest(s) \/ H!SessionInitialized(s) \/ H!InitAnswered(s)
             \/ H!InitFails(s) \/ H!InitFailed(s) \/ H!IdleTimer(s)
      PROVE  H!HttpInv'
  BY <1>4, InitRequestKeeps, InitializedKeeps, InitAnsweredKeeps, InitFailsKeeps
<1>5. ASSUME NEW s \in Sessions, NEW u \in Uses, H!Request(u, s) PROVE H!HttpInv'
  <2>1. CASE use' = [use EXCEPT ![u] = "reading"] /\ UNCHANGED H!session
    BY <1>5, <2>1, ReadingKeeps DEF H!Request
  <2>2. CASE use' = [use EXCEPT ![u] = "handling"] /\ H!Begins(s)
             /\ UNCHANGED <<tracked, disposed>>
    BY <1>5, <2>2, HandledKeeps DEF H!Request
  <2> QED
    BY <1>5, <2>1, <2>2 DEF H!Request
<1>6. ASSUME NEW u \in Uses, H!Body(u) PROVE H!HttpInv'
  <2>1. on[u] \in Sessions /\ on = [on EXCEPT ![u] = on[u]]
    BY <1>6 DEF H!Body, H!HttpInv, H!InOrder, H!TypeOK
  <2>2. CASE use' = [use EXCEPT ![u] = "idle"] /\ UNCHANGED H!session
    BY <1>6, <2>1, <2>2, ReadingKeeps DEF H!Body
  <2>3. CASE use' = [use EXCEPT ![u] = "handling"] /\ H!Begins(on[u])
             /\ UNCHANGED <<tracked, disposed>>
    <3>1. on' = [on EXCEPT ![u] = on[u]] /\ use[u] # "handling"
      BY <1>6, <2>1 DEF H!Body
    <3> QED
      BY <1>6, <2>1, <2>3, <3>1, HandledKeeps DEF H!Body
  <2> QED
    BY <1>6, <2>2, <2>3 DEF H!Body
<1>7. ASSUME NEW u \in Uses, H!Deleted(u) \/ H!Answered(u) PROVE H!HttpInv'
  BY <1>7, DeletedKeeps, AnsweredKeeps
<1> QED
  BY ONLY H!Next, <1>1, <1>2, <1>3, <1>4, <1>5, <1>6, <1>7 DEF H!Next

(* However many listeners are started and stopped while initialize and     *)
(* other requests are under way: no listener is out of stop's reach, a     *)
(* session in the map is in use or has its timer, activeRequests counts    *)
(* what is under way, and maxSessions holds for every listener.            *)
THEOREM HttpHolds == ProcessesSpec => []HttpInv
<1>1. ProcessesInit => HttpInv
  <2> SUFFICES ASSUME H!Init PROVE H!HttpInv
    BY DEF ProcessesInit, HttpInv
  <2> USE DEF H!Init
  <2>1. H!TypeOK /\ H!TrackedIsWatched /\ H!InOrder
    BY DEF H!TypeOK, H!TrackedIsWatched, H!InOrder
  <2>2. H!NoStrayListener
    BY Bounded DEF H!NoStrayListener, H!Starting
  <2>3. H!ActiveCounts
    <3>1. \A s \in Sessions : Handling(s) = {} /\ init[s] \notin H!InMaking /\ active[s] = 0
      BY DEF Handling, H!InMaking
    <3>2. Cardinality({}) = 0
      BY FS_EmptySet
    <3>3. \A s \in Sessions : Cardinality(Handling(s)) = 0
      BY <3>1, <3>2
    <3> QED
      BY <3>1, <3>3, CountsAre
  <2>4. H!WithinCapacity
    <3>1. \A v \in Servers : Held(v) = {}
      BY Bounded DEF Held, H!Tracked, H!Pending, H!At
    <3>2. Cardinality({}) = 0
      BY FS_EmptySet
    <3>3. \A v \in Servers : Cardinality(Held(v)) = 0
      BY <3>1, <3>2
    <3> QED
      BY <3>3, Bounded, SameNotions DEF H!WithinCapacity, Held
  <2> QED
    BY <2>1, <2>2, <2>3, <2>4 DEF H!HttpInv
<1>2. HttpInv /\ [ShellStep \/ ListenerStep]_<<part, vars, listenerVars>> => HttpInv'
  <2> SUFFICES ASSUME H!HttpInv, H!Next \/ UNCHANGED listenerVars PROVE H!HttpInv'
    BY DEF ShellStep, ListenerStep, HttpInv
  <2> QED
    BY StillKeeps, ListenerStepKeeps
<1> QED
  BY <1>1, <1>2, PTL DEF ProcessesSpec
=============================================================================
