-------------------------- MODULE SavedConnections --------------------------
(***************************************************************************)
(* Saved connections on both sides: their sessions in the backend          *)
(* (ConnectionSessions), and their way to a file and back through the      *)
(* desktop (ConnectionTransfer).  Of each other they see one connection.add*)
(* at a time; so a behaviour is about one of them.                         *)
(***************************************************************************)
EXTENDS ConnectionSessions, Sequences

CONSTANTS  \* of ConnectionTransfer
  Refs, Own, OwnGroups, Lower, Theirs, CredentialFiles,
  MaxSaved, MaxImports, MaxFailures, MaxReads, MaxToggles

VARIABLES
  about,  \* "sessions" or "transfer"
  saved, groups, listed, listedGroups, source, text, credentials, candidates, selected,
  reading, decrypting, import, finished, refreshing, basis, imports, failures, chosen

T == INSTANCE ConnectionTransfer

ASSUME TransferAssumption == T!TransferAssumption

transferVars ==
  <<saved, groups, listed, listedGroups, source, text, credentials, candidates, selected,
    reading, decrypting, import, finished, refreshing, basis, imports, failures, chosen>>

ConnectionsInit ==
  /\ about \in {"sessions", "transfer"}
  /\ Init /\ T!TransferInit
  /\ about # "sessions" => \A i \in Ids : rows[i] = None /\ keyring[i] = None
  /\ about # "transfer" => saved = <<>>

SessionStep  == about = "sessions" /\ Next /\ UNCHANGED <<about, transferVars>>
TransferStep == about = "transfer" /\ T!TransferNext /\ UNCHANGED <<about, vars>>

ConnectionsNext == SessionStep \/ TransferStep

(* Nothing that Fairness names can happen before a call, and without rows. *)
ConnectionsSpec == ConnectionsInit /\ [][ConnectionsNext]_<<about, vars, transferVars>> /\ Fairness

-----------------------------------------------------------------------------
(* What an import adds, as ConnectionTransfer states it. *)
TransferInv == about = "transfer" => T!TransferInv
=============================================================================
