----------------------------- MODULE CellEditing -----------------------------
(***************************************************************************)
(* Editing a result in its grid: a query is run, the JVM sidecar says from *)
(* its text whether its rows are rows of one table                         *)
(* (QueryEditabilityAnalyzer.kt), the backend finds that table and its key *)
(* in the metadata cache (query.analyzeEditability, row.update,            *)
(* row.insert), the window makes of a cell an UPDATE by key (App.tsx), and *)
(* the adapter commits what changed one row.  Meanwhile other sessions     *)
(* insert, update and delete rows and change the keys of the tables.  All  *)
(* tables have one name, in different schemas.                             *)
(***************************************************************************)
EXTENDS Naturals, Sequences, Functions

CONSTANTS
  Listed,      \* the schemas, in the order the cache lists them
  ColumnOrder, \* the columns of each table
  Rows,        \* rows that a table may have, by identity
  Values,      \* of a cell
  Other,       \* a result column name that no column has
  Written,     \* the queries the user may write
  Found,       \* what the tables may be at first
  MaxRuns, MaxDdl, \* bounds: queries run; keys and rows changed by others
  None

VARIABLES
  path,        \* search_path: in which order the database looks for a name
  tables,      \* of each schema: None, or key and rows
  cache,       \* metadata: the key of the table in each schema, None without one
  result,      \* what the grid shows; None before a query has run
  editability,
  analyses,    \* analyses whose answers are under way
  update,      \* row.update under way, or None
  run,         \* executionSequenceRef, up to MaxRuns
  ddl,         \* counts up to MaxDdl
  wrote,       \* the last write: the row it was meant for, and what it changed
  touched      \* auxiliary: the columns that others have written since, of the row
               \* that is shown and of the one the update under way was made in

editVars == <<path, tables, cache, result, editability, analyses, update, run, ddl, wrote, touched>>

Listing == Range(Listed)
Columns == Range(ColumnOrder)

Row == [Columns -> Values]
Keys == SUBSET Columns

(* No two rows agree on the key; a table without one takes anything.       *)
KeyHolds(key, rows) ==
  \A r, s \in Rows :
    key # {} /\ r # s /\ rows[r] # None /\ rows[s] # None =>
      \E k \in key : rows[r][k] # rows[s][k]

(* What a select list may be: "*", or columns and expressions with names.  *)
Items == [column : Columns \cup {None}, name : Columns \cup {Other}]
Star == [i \in DOMAIN ColumnOrder |-> [column |-> ColumnOrder[i], name |-> ColumnOrder[i]]]

Queries ==
  [schema : Listing \cup {None}, simple : BOOLEAN, star : {FALSE},
   items : [DOMAIN ColumnOrder -> Items]]
  \cup [schema : Listing \cup {None}, simple : BOOLEAN, star : {TRUE}, items : {Star}]

Tables == [key : Keys, rows : [Rows -> Row \cup {None}]]

(* What the grid shows: of each row, where it came from and its cells; and *)
(* whether only edits that changed that row were written into them.        *)
Results ==
  [query : Written, from : Listing \X Rows, cells : [DOMAIN ColumnOrder -> Values], honest : BOOLEAN]

(* Each schema and each column is listed once. *)
EditingAssumption ==
  /\ Listed \in Seq(Listing) /\ IsInjective(Listed)
  /\ ColumnOrder \in Seq(Columns) /\ IsInjective(ColumnOrder)
  /\ Values # {} /\ Other \notin Columns
  /\ None \notin Listing \cup Columns \cup Row \cup Tables \cup Results
  /\ \A key \in Keys : key # None
  /\ Written \subseteq Queries
  /\ Found \subseteq [Listing -> Tables \cup {None}]
  /\ \A t \in Found : \A s \in Listing : t[s] # None => KeyHolds(t[s].key, t[s].rows)

(* The table a name means: to the database, and to resolveRelationByName.  *)
First(order, known) ==
  LET at == {i \in DOMAIN order : order[i] \in known}
  IN IF at = {} THEN None ELSE order[CHOOSE i \in at : \A j \in at : i <= j]

Meant(schema, order, known) ==
  IF schema # None THEN First(<<schema>>, known) ELSE First(order, known)

Init ==
  /\ path \in Bijection(DOMAIN Listed, Listing)
  /\ tables \in Found
  /\ cache = [s \in Listing |-> IF tables[s] = None THEN None ELSE tables[s].key]
  /\ result = None /\ editability = None /\ analyses = {} /\ update = None
  /\ run = 0 /\ ddl = 0 /\ wrote = None
  /\ touched = [shown |-> {}, edited |-> {}]

-----------------------------------------------------------------------------
Known == {s \in Listing : tables[s] # None}
WithRows(s, rows) == [tables EXCEPT ![s] = [key |-> tables[s].key, rows |-> rows]]

(* A query that is not simple (a set operation, a join, a grouping) shows  *)
(* rows of any table.                                                      *)
RunQuery(q) ==
  LET from == Meant(q.schema, path, Known)
      sources == IF q.simple THEN {from} ELSE Known
  IN /\ run < MaxRuns /\ from \in Known
     /\ \E line \in sources \X Rows :
          /\ tables[line[1]].rows[line[2]] # None
          /\ result' = [query |-> q, from |-> line, honest |-> TRUE,
               cells |-> [i \in DOMAIN q.items |->
                 IF q.items[i].column = None THEN CHOOSE v \in Values : TRUE
                 ELSE tables[line[1]].rows[line[2]][q.items[i].column]]]
     /\ run' = run + 1
     /\ editability' = None
     /\ analyses' = analyses \cup {[run |-> run + 1, query |-> q]}
     /\ touched' = [touched EXCEPT !.shown = {}]
     /\ UNCHANGED <<path, tables, cache, update, ddl, wrote>>

(* analyzeNode: the shape, and of each item the column it is, whatever it  *)
(* is called.                                                              *)
Analyze(q) ==
  [editable |-> q.simple, schema |-> q.schema,
   columns |-> [i \in DOMAIN q.items |-> q.items[i].column]]

(* query.analyzeEditability: the key of the relation in the cache.         *)
Resolve(schema) == Meant(schema, Listed, {s \in Listing : cache[s] # None})

Answer(q) ==
  LET found == Resolve(Analyze(q).schema)
  IN [editable |-> Analyze(q).editable /\ found # None /\ cache[found] # {},
      schema |-> found, columns |-> Analyze(q).columns,
      key |-> IF found = None THEN {} ELSE cache[found]]

(* A mistake: the answer is taken whatever was run since. *)
IsLatestAlways(a) == TRUE

IsLatest(a) == a.run = run

AnalysisArrives(a) ==
  /\ a \in analyses
  /\ analyses' = analyses \ {a}
  /\ editability' = IF IsLatest(a) THEN Answer(a.query) ELSE editability
  /\ UNCHANGED <<path, tables, cache, result, update, run, ddl, wrote, touched>>

-----------------------------------------------------------------------------
(* Each column is shown once, and called what it is. *)
NamesAreColumns(q) ==
  /\ \A i \in DOMAIN q.items : q.items[i].name \in {q.items[i].column, Other}
  /\ \A i, j \in DOMAIN q.items : q.items[i].column # None /\ q.items[i].column = q.items[j].column => i = j

(* findIndex of a column by its name in the result. *)
Named(name) ==
  LET at == {i \in DOMAIN result.query.items : result.query.items[i].name = name}
  IN IF at = {} THEN None ELSE CHOOSE i \in at : \A j \in at : i <= j

(* handleCellEdit: no edit of an expression, and none when a column of the *)
(* key is not in the result.                                               *)
EditCell(i, value) ==
  /\ result # None /\ editability # None /\ editability.editable /\ update = None
  /\ editability.columns[i] # None
  /\ \A k \in editability.key : Named(k) # None
  /\ update' = [run |-> run, cell |-> i, column |-> editability.columns[i], value |-> value,
                schema |-> editability.schema, from |-> result.from,
                clear |-> result.honest /\ NamesAreColumns(result.query),
                qualified |-> result.query.schema # None,
                where |-> [k \in editability.key |-> result.cells[Named(k)]]]
  /\ touched' = [touched EXCEPT !.edited = touched.shown]
  /\ UNCHANGED <<path, tables, cache, result, editability, analyses, run, ddl, wrote>>

One(S) == \E x \in S : S = {x}

(* What row.update and the adapter let through: the key of the cache, and  *)
(* a statement that changed one row.                                       *)
KeyIsWhole == Resolve(update.schema) # None /\ DOMAIN update.where = cache[Resolve(update.schema)]

Matching(schema) ==
  {r \in Rows : /\ tables[schema].rows[r] # None
                /\ \A k \in DOMAIN update.where : tables[schema].rows[r][k] = update.where[k]}

(* A mistake: whatever the statement changed is committed. *)
CommitsAny(changed) == changed # {}

Commits(changed) == One(changed)

Changed(schema, rows) ==
  [r \in Rows |-> IF r \in rows
                  THEN [tables[schema].rows[r] EXCEPT ![update.column] = update.value]
                  ELSE tables[schema].rows[r]]

(* The reference means the same to the database and to the cache.          *)
MeansOne == One(Known)

UpdateSucceeds ==
  LET schema == Resolve(update.schema)
      changed == Matching(schema)
      lines == {<<schema, r>> : r \in changed}
  IN /\ update # None /\ KeyIsWhole /\ tables[schema] # None
     /\ Commits(changed)
     /\ KeyHolds(tables[schema].key, Changed(schema, changed))
     /\ tables' = WithRows(schema, Changed(schema, changed))
     /\ wrote' = [from |-> update.from, changed |-> lines,
                 clear |-> /\ update.clear /\ (update.qualified \/ MeansOne)
                           /\ DOMAIN update.where \cap touched.edited = {}]
     (* setResult patches whichever result is shown by then.               *)
     /\ result' = [query |-> result.query, from |-> result.from,
                   honest |-> result.honest /\ update.run = run /\ lines = {update.from},
                   cells |-> [result.cells EXCEPT ![update.cell] = update.value]]
     /\ update' = None
     /\ touched' = [touched EXCEPT !.edited = {}]
     /\ UNCHANGED <<path, cache, editability, analyses, run, ddl>>

(* Refused, rolled back or lost on the way. *)
UpdateFails ==
  /\ update # None
  /\ update' = None
  /\ touched' = [touched EXCEPT !.edited = {}]
  /\ UNCHANGED <<path, tables, cache, result, editability, analyses, run, ddl, wrote>>

(* row.insert: the values by source column, into the table found; the      *)
(* query is run again after it.                                            *)
InsertRow(row) ==
  LET schema == Resolve(editability.schema)
      free == {r \in Rows : tables[schema].rows[r] = None}
  IN /\ result # None /\ editability # None /\ editability.editable /\ update = None
     /\ schema # None /\ tables[schema] # None /\ free # {}
     /\ \E i \in DOMAIN editability.columns : editability.columns[i] # None
     /\ LET rows == [tables[schema].rows EXCEPT ![CHOOSE r \in free : TRUE] = row]
        IN KeyHolds(tables[schema].key, rows) /\ tables' = WithRows(schema, rows)
     /\ UNCHANGED <<path, cache, result, editability, analyses, update, run, ddl, wrote, touched>>

-----------------------------------------------------------------------------
(* Other sessions change a key. *)
ChangeKey(s, key) ==
  /\ ddl < MaxDdl /\ tables[s] # None /\ KeyHolds(key, tables[s].rows)
  /\ tables' = [tables EXCEPT ![s] = [key |-> key, rows |-> tables[s].rows]]
  /\ ddl' = ddl + 1
  /\ UNCHANGED <<path, cache, result, editability, analyses, update, run, wrote, touched>>

(* And they insert, update and delete: row is what is there then, or None. *)
Differing(old, row) == {c \in Columns : old = None \/ row = None \/ old[c] # row[c]}

IfFrom(line, of, columns) == IF of # None /\ of.from = line THEN columns ELSE {}

OthersWrite(s, r, row) ==
  LET columns == Differing(tables[s].rows[r], row)
      rows == [tables[s].rows EXCEPT ![r] = row]
  IN /\ ddl < MaxDdl /\ tables[s] # None /\ tables[s].rows[r] # row
     /\ KeyHolds(tables[s].key, rows)
     /\ tables' = WithRows(s, rows)
     /\ ddl' = ddl + 1
     /\ touched' = [shown  |-> touched.shown \cup IfFrom(<<s, r>>, result, columns),
                   edited |-> touched.edited \cup IfFrom(<<s, r>>, update, columns)]
     /\ UNCHANGED <<path, cache, result, editability, analyses, update, run, wrote>>

Introspect ==
  /\ cache' = [s \in Listing |-> IF tables[s] = None THEN None ELSE tables[s].key]
  /\ UNCHANGED <<path, tables, result, editability, analyses, update, run, ddl, wrote, touched>>

Next ==
  \/ \E q \in Written : RunQuery(q)
  \/ \E a \in analyses : AnalysisArrives(a)
  \/ \E i \in DOMAIN ColumnOrder, v \in Values : EditCell(i, v)
  \/ UpdateSucceeds \/ UpdateFails \/ Introspect
  \/ \E row \in Row : InsertRow(row)
  \/ \E s \in Listing, r \in Rows, row \in Row \cup {None} : OthersWrite(s, r, row)
  \/ \E s \in Listing, key \in Keys : ChangeKey(s, key)

-----------------------------------------------------------------------------
TypeOK ==
  /\ path \in Bijection(DOMAIN Listed, Listing)
  /\ tables \in [Listing -> Tables \cup {None}]
  /\ cache \in [Listing -> Keys \cup {None}]
  /\ run \in Nat
  /\ result \in Results \cup {None} /\ (result = None <=> run = 0)
  /\ touched \in [shown : SUBSET Columns, edited : SUBSET Columns]

(* The cache knows the tables there are, if not their keys of now.         *)
TablesAreCached == \A s \in Listing : cache[s] = None <=> tables[s] = None

(* A query whose rows are those of one table, found by anyone who looks.   *)
Clear(q) == q.simple /\ NamesAreColumns(q) /\ (q.schema # None \/ MeansOne)

Exists(line) ==
  /\ line \in Listing \X Rows
  /\ tables[line[1]] # None /\ tables[line[1]].rows[line[2]] # None
Cell(line, column) == tables[line[1]].rows[line[2]][column]

FromIsMeant ==
  result # None /\ Clear(result.query) =>
    /\ tables[result.from[1]] # None
    /\ result.query.schema # None => result.query.schema = result.from[1]

(* What the grid shows of a column is in the row, as long as no other      *)
(* session has written it since: edits made in the grid are shown, until   *)
(* one of another result, or one that changed another row, came back.      *)
ShownIsThere ==
  result # None /\ result.honest /\ Clear(result.query) =>
    \A i \in DOMAIN result.query.items :
      LET column == result.query.items[i].column
      IN column \in Columns \ touched.shown =>
           Exists(result.from) /\ result.cells[i] = Cell(result.from, column)

(* An answer that is taken is about the query that is shown.               *)
AnswersAreOwn ==
  /\ \A a \in analyses :
       a.run \in 1 .. run /\ (a.run = run => result # None /\ a.query = result.query)
  /\ editability # None =>
       /\ result # None
       /\ editability.columns = [i \in DOMAIN result.query.items |-> result.query.items[i].column]
       /\ editability.editable => result.query.simple /\ editability.key # {}
       /\ editability.editable /\ Clear(result.query) =>
            editability.schema = result.from[1] /\ editability.key \subseteq Columns

(* And an UPDATE under way has of the key of the row it was made in what   *)
(* no other session has written since.                                     *)
UpdateIsOwn ==
  update # None =>
    /\ update.run \in 1 .. run /\ update.column \in Columns /\ update.value \in Values
    /\ DOMAIN update.where # {}
    /\ update.run = run =>
         /\ result # None /\ update.from = result.from
         /\ update.cell \in DOMAIN result.query.items
         /\ update.column = result.query.items[update.cell].column
         /\ result.honest /\ NamesAreColumns(result.query) => update.clear
         /\ update.qualified <=> result.query.schema # None
    /\ update.clear /\ (update.qualified \/ MeansOne) =>
         /\ update.schema = update.from[1] /\ DOMAIN update.where \subseteq Columns
         /\ \A k \in DOMAIN update.where \ touched.edited :
              Exists(update.from) /\ update.where[k] = Cell(update.from, k)

(* Whatever other sessions did to the keys of the tables and to their rows *)
(* since, whatever the cache still says and whichever analysis came last,  *)
(* a committed UPDATE has changed one row.  It is the row that was shown   *)
(* if no other session has deleted that or written into its key since, the *)
(* result calls its columns by their names and shows each once (an edit is *)
(* shown in the one cell it was made in), the name of the table means one  *)
(* table, and every edit shown in the result had changed this row.  Only   *)
(* the key is compared: what others wrote into other columns stays, and    *)
(* into the one that is edited is overwritten; a row that has taken the    *)
(* key of the one shown is changed in its place.                           *)
WritesTheRow ==
  wrote # None =>
    /\ One(wrote.changed)
    /\ wrote.clear => wrote.changed = {wrote.from}

EditInv ==
  /\ TypeOK /\ TablesAreCached /\ FromIsMeant /\ ShownIsThere
  /\ AnswersAreOwn /\ UpdateIsOwn /\ WritesTheRow

(* QueryEditabilityAnalyzer.kt:31 "gerar UPDATEs celula a celula com       *)
(* seguranca, sem ambiguidade sobre a que tabela/linha uma celula          *)
(* pertence" (safe updates cell by cell, no doubt about the table and row  *)
(* a cell belongs to): what an edit changes is the row it was made in.     *)
EditsTheRowShown == wrote # None => wrote.changed = {wrote.from}
=============================================================================
