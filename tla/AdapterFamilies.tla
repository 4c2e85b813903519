--------------------------- MODULE AdapterFamilies ---------------------------
(***************************************************************************)
(* The adapter of one connection, whichever resolveAdapter makes of its    *)
(* dialect: one with a pool of clients of its own (AdapterQueries), or a   *)
(* JdbcAdapter, whose connection lives in the JVM sidecar (JdbcSidecar).   *)
(* And what an adapter does to one catalog (Introspection) and to one      *)
(* statement (SqlReaders), neither of which touches the state of its       *)
(* queries.  A behaviour is one of the four; the others stay idle.         *)
(***************************************************************************)
EXTENDS AdapterQueries, Introspection

CONSTANTS
  Adapters,   \* instances of JdbcAdapter
  JdbcCalls,  \* calls of their methods
  MaxPieces   \* bound of SqlReaders

VARIABLES
  kind,        \* "pool" or "jdbc" adapter, or its "catalog" or "text" part
  method, of, place,
  connected, connecting, requests, serving, answers, handles, statements,
  stopped, up,
  server, pieces, text  \* of SqlReaders

J == INSTANCE JdbcSidecar WITH Calls <- JdbcCalls
T == INSTANCE SqlReaders WITH dialect <- server

ASSUME JdbcAssumption == J!SidecarAssumption

jdbcVars == <<method, of, place, connected, connecting, requests, serving,
              answers, handles, statements, stopped, up>>
textVars == <<server, pieces, text>>

AdapterInit ==
  /\ kind \in {"pool", "jdbc", "catalog", "text"}
  /\ Init /\ (kind = "pool" \/ dialect = "oracle")
  /\ J!Init /\ (kind = "jdbc" \/ handles = {})
  /\ CatalogInit /\ (kind = "catalog" \/ (family = "pg" /\ allow = {} /\ catalog.constraints = {}))
  /\ T!ReadersInit /\ (kind = "text" \/ (server = "pg" /\ pieces = T!Writing /\ text = <<"SELECT">>))

PoolStep    == kind = "pool" /\ Next /\ UNCHANGED <<kind, jdbcVars, catalogVars, textVars>>
JdbcStep    == kind = "jdbc" /\ J!Next /\ UNCHANGED <<kind, vars, catalogVars, textVars>>
CatalogStep == kind = "catalog" /\ CatalogNext /\ UNCHANGED <<kind, vars, jdbcVars, textVars>>
TextStep    == kind = "text" /\ T!Type /\ UNCHANGED <<kind, vars, jdbcVars, catalogVars>>

AdapterNext == PoolStep \/ JdbcStep \/ CatalogStep \/ TextStep
adapterVars == <<kind, vars, jdbcVars, catalogVars, textVars>>

AdapterSpec == AdapterInit /\ [][AdapterNext]_adapterVars /\ Fairness /\ J!Fairness

(* The database takes as long as it likes. *)
SlowAdapterSpec == AdapterInit /\ [][AdapterNext]_adapterVars /\ Fairness /\ J!SlowFairness

-----------------------------------------------------------------------------
(* Pool clients, transactions and the cancel slot: AdapterInv and KillIsCurrent*)
(* of AdapterQueries; what is reported of a catalog: CatalogInv of           *)
(* Introspection; and of the others these.                                   *)
SidecarInv == J!SidecarInv

(* Every call of a pool and of the sidecar ends, as AdapterQueries and     *)
(* JdbcSidecar state it; a stream that is abandoned does not.  One of JDBC *)
(* gives its request up together with its consumer.                        *)
AllEnd == EverythingEnds /\ J!CallsEnd
CancelStopsQuery == J!CancelStopsQuery
ReadersInv == T!ReadersInv
=============================================================================
