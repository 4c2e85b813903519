---------------------------- MODULE Introspection ----------------------------
(***************************************************************************)
(* introspectSchemas of the four adapters with catalog queries: relations, *)
(* then columns, and for Oracle constraints, each a snapshot of its own    *)
(* that other sessions' DDL comes between, put together in memory.  The    *)
(* joins by which each dialect finds primary and foreign keys are written  *)
(* as its SQL writes them; what the queries name a table by is one value.  *)
(***************************************************************************)
EXTENDS Naturals, Sequences, FiniteSets

CONSTANTS
  Tables,
  Columns,
  Constraints,  \* of keys, see IsConstraint
  MaxChanges    \* bound: statements of other sessions

(* A primary key, or a foreign key that names the one it refers to; names  *)
(* are unique here, as those are that a database makes up itself.          *)
IsConstraint(k) ==
  /\ k.kind \in {"P", "R"} /\ k.table \in Tables /\ k.columns \in Seq(Columns)
  /\ k.name # "PRIMARY" /\ \A other \in Constraints : other.name = k.name => other = k
  /\ k.kind = "R" => \E p \in Constraints : p.kind = "P" /\ p.name = k.key /\ Len(p.columns) = Len(k.columns)

ASSUME CatalogAssumption == (\A k \in Constraints : IsConstraint(k)) /\ MaxChanges \in Nat

VARIABLES
  family,   \* the dialect
  allow,    \* the tables of the chosen schemas
  catalog,  \* of the database: columns by table, and constraints
  step,     \* which query comes next
  rels,     \* what the query of relations read
  atColumns, atConstraints,  \* the catalog as the later queries read it
  changes

catalogVars == <<family, allow, catalog, step, rels, atColumns, atConstraints, changes>>

Families == {"pg", "mysql", "mssql", "oracle"}

(* Primary keys have one name in MySQL.                                    *)
NameOf(f, k) == IF f = "mysql" /\ k.kind = "P" THEN "PRIMARY" ELSE k.name

(* The columns of the key a foreign key refers to. *)
KeyOf(k) == CHOOSE p \in Constraints : p.kind = "P" /\ p.name = k.key

UsedColumns(k) == {k.columns[i] : i \in DOMAIN k.columns}

Consistent(c) ==
  /\ \A k \in c.constraints :
       /\ UsedColumns(k) \subseteq c.columns[k.table] /\ (k.kind = "R" => KeyOf(k) \in c.constraints)
       /\ \A other \in c.constraints : k.kind = "P" /\ other.kind = "P" /\ other.table = k.table => other = k

Catalogs == {c \in [columns : [Tables -> SUBSET Columns], constraints : SUBSET Constraints] : Consistent(c)}

-----------------------------------------------------------------------------
(* COLUMNS_SQL.                                                            *)
(* key_column_usage is joined by the name of the constraint, in MySQL by   *)
(* the table as well.                                                      *)
KeyColumns(f, c) ==
  {k \in Tables \X Columns :
     \E p \in c.constraints, u \in c.constraints :
       /\ p.kind = "P" /\ NameOf(f, u) = NameOf(f, p) /\ (f = "mysql" => u.table = p.table)
       /\ u.table = k[1] /\ k[2] \in UsedColumns(u)}

(* Mutant: constraint_column_usage where Oracle has positions. *)
SameColumnAnywhere(f, i, j) == TRUE

(* MySQL has the column that is referred to at hand, Oracle joins by the   *)
(* position; PostgreSQL and SQL Server join constraint_column_usage, which *)
(* pairs every column of a key with every other.                           *)
SameColumn(f, i, j) == f \in {"mysql", "oracle"} => i = j

References(f, c) ==
  UNION {{[table |-> k.table, column |-> k.columns[ij[1]], to |-> KeyOf(k).table, at |-> KeyOf(k).columns[ij[2]]] :
            ij \in {ij \in (DOMAIN k.columns) \X (DOMAIN k.columns) : SameColumn(f, ij[1], ij[2])}} :
         k \in {k \in c.constraints : k.kind = "R"}}

CatalogInit ==
  /\ family \in Families
  /\ allow \in {Tables, {}} \cup {{t} : t \in Tables}
  /\ catalog \in Catalogs
  /\ \A t \in Tables : catalog.columns[t] = Columns
  /\ step = "relations" /\ rels = {} /\ changes = 0
  /\ atColumns = catalog /\ atConstraints = catalog

-----------------------------------------------------------------------------
Exists(c, t) == c.columns[t] # {}

(* An empty choice of schemas means all. *)
Allowed(t) == allow = {} \/ t \in allow

ReadRelations ==
  /\ step = "relations"
  /\ rels' = {t \in Tables : Exists(catalog, t) /\ Allowed(t)}
  /\ step' = "columns"
  /\ UNCHANGED <<family, allow, catalog, atColumns, atConstraints, changes>>

(* For all but Oracle this query knows the keys as well. *)
ReadColumns ==
  /\ step = "columns"
  /\ atColumns' = catalog
  /\ atConstraints' = catalog
  /\ step' = IF family = "oracle" THEN "constraints" ELSE "done"
  /\ UNCHANGED <<family, allow, catalog, rels, changes>>

ReadConstraints ==
  /\ step = "constraints"
  /\ atConstraints' = catalog
  /\ step' = "done"
  /\ UNCHANGED <<family, allow, catalog, rels, atColumns, changes>>

(* Another session creates, drops or alters a table or a key. *)
Ddl ==
  /\ step # "done" /\ changes < MaxChanges
  /\ changes' = changes + 1
  /\ \/ \E t \in Tables, cols \in SUBSET Columns :
          /\ \A k \in catalog.constraints : k.kind = "R" /\ KeyOf(k).table = t => k.table = t
          /\ catalog' = [columns |-> [catalog.columns EXCEPT ![t] = cols],
                         constraints |-> {k \in catalog.constraints : k.table # t}]
     \/ \E k \in Constraints :
          catalog' = [catalog EXCEPT !.constraints = IF k \in @ THEN @ \ {k} ELSE @ \cup {k}]
  /\ catalog' \in Catalogs
  /\ UNCHANGED <<family, allow, step, rels, atColumns, atConstraints>>

CatalogNext == ReadRelations \/ ReadColumns \/ ReadConstraints \/ Ddl

-----------------------------------------------------------------------------
(* What is reported of a relation: its columns, those of its primary key,  *)
(* and a reference for each pair the join finds.                           *)
ReportedColumns(t) == IF t \in rels THEN atColumns.columns[t] ELSE {}
ReportedKey(t) == {col \in ReportedColumns(t) : <<t, col>> \in KeyColumns(family, atConstraints)}
ReportedReferences(t) == {r \in References(family, atConstraints) : r.table = t /\ r.column \in ReportedColumns(t)}

KeyNow(c, t) == UNION {UsedColumns(k) : k \in {k \in c.constraints : k.kind = "P" /\ k.table = t}}

(* Nothing is reported of a table that was not seen or not asked for, and  *)
(* a table that went or came in between has all its columns or none.       *)
ColumnsBelong ==
  \A t \in Tables : ReportedColumns(t) # {} => Allowed(t) /\ ReportedColumns(t) = atColumns.columns[t]

(* A column is said to be of the primary key if and only if it was, when   *)
(* the keys were read: what an update of a row is keyed by.                *)
KeysAreTrue ==
  step = "done" => \A t \in Tables : ReportedKey(t) = KeyNow(atConstraints, t) \cap ReportedColumns(t)

(* A reference leads from a column of a foreign key to a column of the key *)
(* that one refers to, to the right one when there is one only or when the *)
(* dialect knows positions; and none is missing.                           *)
ReferencesAreTrue ==
  step = "done" => \A t \in Tables :
    /\ \A r \in ReportedReferences(t) : \E k \in atConstraints.constraints :
         /\ k.kind = "R" /\ k.table = t /\ KeyOf(k).table = r.to
         /\ \E i, j \in DOMAIN k.columns :
              /\ k.columns[i] = r.column /\ KeyOf(k).columns[j] = r.at
              /\ i = j \/ (Len(k.columns) > 1 /\ family \in {"pg", "mssql"})
    /\ \A k \in atConstraints.constraints : \A i \in DOMAIN k.columns :
         k.kind = "R" /\ k.table = t /\ k.columns[i] \in ReportedColumns(t) =>
           [table |-> t, column |-> k.columns[i], to |-> KeyOf(k).table, at |-> KeyOf(k).columns[i]] \in ReportedReferences(t)

CatalogInv == ColumnsBelong /\ KeysAreTrue /\ ReferencesAreTrue
=============================================================================
