---------------------------- MODULE EngineQueries ----------------------------
(***************************************************************************)
(* A statement that the analysis engine answers (data_engine.rs): over its *)
(* own datasets (query), one file in S3 (query_s3), a catalog of S3        *)
(* sources (query_s3_catalog), or MongoDB (query_mongo), where the backend *)
(* may have filtered the documents already.  Each has a reader of SQL of   *)
(* the engine's own in front of it, and puts the statement in a SELECT     *)
(* that bounds its rows.  DataEngine has the stops, LocalAnalysis the rest *)
(* of the engine.                                                          *)
(* A text is pieces separated by blanks, as in SqlReaders.                 *)
(***************************************************************************)
EXTENDS Naturals, Sequences, SequencesExt, FiniteSets, FiniteSetsExt

CONSTANTS
  MaxPieces,  \* bound: length of a text
  Tables,     \* what a statement may find: sequences of the sizes of rows
  Limit,      \* rows asked for
  MaxBytes,   \* MAX_PREVIEW_BYTES
  Catalogs,   \* sequences of sources: [schema, upper |-> BOOLEAN, name, lake]
  Locals      \* relations of the engine's own datasets, as sequences of words

ASSUME QueriesAssumption ==
  /\ Limit \in Nat /\ MaxBytes \in Nat /\ Tables \subseteq Seq(Nat)
  /\ \A sources \in Catalogs : sources \in Seq(Range(sources))

VARIABLES
  pieces,  \* what this text is made of
  text,
  statement, \* [kind, explain, sources], or Unsent before it is sent
  place,   \* how far the statement is
  engine,  \* of a catalog: what the connection has, and the files that go there
  answer   \* the rows shown, the rows there were, and whether there are more

queryVars == <<pieces, text, statement, place, engine, answer>>

Sql == INSTANCE SqlReaders WITH dialect <- "pg"

Routes == {"workspace", "s3", "catalog", "mongo"}
Unsent == [kind |-> "none", explain |-> FALSE, sources |-> <<>>]
NoAnswer == [rows |-> <<>>, of |-> <<>>, more |-> FALSE]
Bare == [at |-> 0, schemas |-> {}, views |-> {}, lakes |-> {},
         wanted |-> {}, tables |-> {}, files |-> {}]

-----------------------------------------------------------------------------
(* The reader of the engine, and DuckDB's.  The engine's knows neither a   *)
(* comment in a comment nor the quotes E'..' and $$, none of which a text  *)
(* of this model has.                                                      *)
EngineReader == Sql!Reader(FALSE, {"quote", "dquote"}, {}, {"dashes"}, TRUE)
DuckReader   == Sql!Reader(TRUE, {"quote", "dquote", "equote", "dollars"}, {"equote"}, {"dashes"}, FALSE)

Code(t) == Sql!Code(EngineReader, t)
Words(t) == {t[i] : i \in Code(t)}

(* A name in double quotes is one piece; it is no keyword. *)
Quoted(word) == CASE word = "query" -> "\"query\"" [] word = "DELETE" -> "\"delete\""
Denied == {"DELETE"}

EndsIn(t, ps) == t # <<>> /\ Last(t) \in ps
Without(t, p) == IF EndsIn(t, {p}) THEN Front(t) ELSE t
Trimmed(t) == Without(Without(Without(t, "nl"), ";"), "nl")

ValidateReadOnlySql(t) ==
  /\ Code(t) # {} /\ t[Sql!First(Code(t))] \in {"SELECT", "WITH"}
  /\ ";" \notin Words(t)
  /\ Words(t) \cap Denied = {}

ValidateMongoSql(t) ==
  ValidateReadOnlySql(t) /\ Words(t) \cap {"query", Quoted("query")} = {}

(* An address of S3 is looked for in the whole text, in quotes or not. *)
ValidateS3Sql(t) == ValidateReadOnlySql(t) /\ ~Contains(t, "uri")

(* The name of a relation of another workspace is looked for in the text.  *)
WorkspaceRelations(t) == ~Contains(t, "foreign")

Valid(kind, t) ==
  CASE kind = "workspace" -> ValidateReadOnlySql(t) /\ WorkspaceRelations(t)
    [] kind = "mongo" -> ValidateMongoSql(t)
    [] kind \in {"s3", "catalog"} -> ValidateS3Sql(t)

-----------------------------------------------------------------------------
(* What DuckDB makes of the statement: nothing, if the parenthesis that    *)
(* query_preview closes behind it has become part of a comment.            *)
Wrapped(t) == <<"SELECT", "(">> \o t \o <<")">>
Prepares(t) == Len(Wrapped(t)) \in Sql!Code(DuckReader, Wrapped(t))

(* The rows that fit, at most one more than asked for. *)
Size(table, n) ==
  LET upTo[k \in 0 .. Len(table)] == IF k = 0 THEN 0 ELSE upTo[k - 1] + table[k]
  IN upTo[n]
Fetched(table) == Min({Limit + 1, Len(table)})
Fitting(table) == Max({n \in 0 .. Fetched(table) : Size(table, n) <= MaxBytes})

(* Mutant: the row that only shows there are more is not fetched. *)
PreviewOfLimit(table) ==
  LET n == Min({Fitting(table), Limit})
  IN  [rows |-> SubSeq(table, 1, n), of |-> table, more |-> n < Min({Limit, Len(table)})]

Preview(table) ==
  LET n == Fitting(table)
  IN  [rows |-> SubSeq(table, 1, Min({n, Limit})), of |-> table,
       more |-> n < Fetched(table) \/ n > Limit]

-----------------------------------------------------------------------------
Families ==
  {{"SELECT", "DELETE", ";", "dashes", "nl", "open", "close"},
   {"DELETE", ";", "quote", "uri", "foreign", "query", Quoted("query"), Quoted("DELETE")}}

QueriesInit ==
  /\ pieces \in Families
  /\ text \in {<<"SELECT">>, <<"WITH">>}
  /\ statement = Unsent /\ place = "typed" /\ engine = Bare /\ answer = NoAnswer

TypePiece ==
  /\ place = "typed" /\ Len(text) < MaxPieces
  /\ \E p \in pieces : text' = Append(text, p)
  /\ UNCHANGED <<pieces, statement, place, engine, answer>>

(* query_inner, query_s3, query_s3_catalog and query_mongo read the text   *)
(* before they do anything with it.                                        *)
Submit(kind, explain, sources) ==
  /\ place = "typed"
  /\ kind # "mongo" => ~explain
  /\ IF kind = "catalog" THEN sources # <<>> ELSE sources = <<>>
  /\ statement' = [kind |-> kind, explain |-> explain, sources |-> sources]
  /\ place' = IF ~Valid(kind, Trimmed(text)) THEN "refused"
              ELSE CASE kind = "mongo" -> "asking" [] kind = "catalog" -> "registering" [] OTHER -> "open"
  /\ UNCHANGED <<pieces, text, engine, answer>>

(* query.mongoSqlSource answers with the documents it has filtered and the *)
(* statement over them, which is read again, or with nothing, so that      *)
(* DuckDB reads the collections itself; both end in the same preview.      *)
SourceAnswers ==
  /\ place = "asking"
  /\ place' \in {"failed", "open"}
  /\ UNCHANGED <<pieces, text, statement, engine, answer>>

SameName(a, b) == a.schema = b.schema /\ a.name = b.name

(* A lake is attached once, under an alias that counts the lakes. *)
Attach(source, lakes) ==
  IF source.lake = "none" \/ \E pair \in lakes : pair[1] = source.lake THEN lakes
  ELSE lakes \cup {<<source.lake, Cardinality(lakes)>>}

(* The next source of the catalog.  Its schema is made when no source had  *)
(* one spelled so; DuckDB does not tell Sales from sales.                  *)
Register ==
  /\ place = "registering" /\ engine.at < Len(statement.sources)
  /\ LET source == statement.sources[engine.at + 1]
         schema == [schema |-> source.schema, upper |-> source.upper]
         clash  == \E s \in engine.schemas : s # schema /\ s.schema = source.schema
     IN  /\ place' = IF clash \/ \E v \in engine.views : SameName(v, source) THEN "failed" ELSE place
         /\ engine' = IF place' = "failed" THEN engine
                      ELSE [engine EXCEPT !.at = @ + 1, !.schemas = @ \cup {schema},
                                          !.views = @ \cup {source}, !.lakes = Attach(source, @)]
  /\ UNCHANGED <<pieces, text, statement, answer>>

(* Then the datasets the statement speaks of, and those whose name begins  *)
(* such a name, are put beside them in a schema local, which no source may *)
(* have taken.                                                             *)
Mentioned(names) == {l \in Locals : \E n \in names : IsPrefix(l, n)}
Registered ==
  /\ place = "registering" /\ engine.at = Len(statement.sources)
  /\ \E names \in SUBSET Locals : engine' = [engine EXCEPT !.wanted = Mentioned(names)]
  /\ place' = IF engine'.wanted = {} THEN "open"
              ELSE IF \E s \in engine.schemas : s.schema = "local" THEN "failed" ELSE "staging"
  /\ UNCHANGED <<pieces, text, statement, answer>>

(* One after the other goes through a file, which is removed whatever      *)
(* becomes of it; the provenance the export wrote beside it is not.        *)
StageLocal(l) ==
  /\ place = "staging" /\ engine.files \cap {<<k, "data">> : k \in Locals} = {}
  /\ l \in engine.wanted \ engine.tables
  /\ \/ place' = place /\ engine' = [engine EXCEPT !.files = @ \cup {<<l, "data">>, <<l, "provenance">>}]
     \/ place' = "failed" /\ engine' = engine
  /\ UNCHANGED <<pieces, text, statement, answer>>

LoadLocal(l) ==
  /\ place = "staging" /\ <<l, "data">> \in engine.files
  /\ \/ place' = place /\ engine' = [engine EXCEPT !.files = @ \ {<<l, "data">>}, !.tables = @ \cup {l}]
     \/ place' = "failed" /\ engine' = [engine EXCEPT !.files = @ \ {<<l, "data">>}]
  /\ UNCHANGED <<pieces, text, statement, answer>>

Staged ==
  /\ place = "staging" /\ engine.tables = engine.wanted
  /\ place' = "open"
  /\ UNCHANGED <<pieces, text, statement, engine, answer>>

(* A plan has no rows to bound. *)
Explain ==
  /\ place = "open" /\ statement.explain
  /\ place' = "planned"
  /\ UNCHANGED <<pieces, text, statement, engine, answer>>

QueryPreview(table) ==
  /\ place = "open" /\ ~statement.explain
  /\ IF Prepares(Trimmed(text)) THEN place' = "answered" /\ answer' = Preview(table)
     ELSE place' = "failed" /\ answer' = answer
  /\ UNCHANGED <<pieces, text, statement, engine>>

QueriesNext ==
  \/ TypePiece
  \/ \E kind \in Routes, explain \in BOOLEAN, sources \in Catalogs \cup {<<>>} : Submit(kind, explain, sources)
  \/ SourceAnswers \/ Register \/ Registered \/ Staged \/ Explain
  \/ \E l \in Locals : StageLocal(l) \/ LoadLocal(l)
  \/ \E table \in Tables : QueryPreview(table)

QueriesSpec == QueriesInit /\ [][QueriesNext]_queryVars

-----------------------------------------------------------------------------
(* DuckDB's reading of a statement: where it is code, and whether it ends  *)
(* inside a literal or a comment.                                          *)
DuckCode(t) == Sql!Code(DuckReader, t)
DuckWords(t) == {t[i] : i \in DuckCode(t)}
IsOneRead(t) ==
  /\ Sql!Reading(DuckReader, t).mode \in {"code", "line"}
  /\ DuckCode(t) # {} /\ t[Sql!First(DuckCode(t))] \in {"SELECT", "WITH"}
  /\ DuckWords(t) \cap (Denied \cup {";"}) = {}

Nested(t) == \E i, j \in DOMAIN t : i < j /\ t[i] = "open" /\ t[j] = "open"

(* Refused is what DuckDB would not read as one statement without a word   *)
(* that changes something (or, on MongoDB, that scans by itself; on S3,    *)
(* with an address; of a workspace, with another's relation), and nothing  *)
(* else: a keyword in a literal or a comment is none.                      *)
RefusesWhatItShould ==
  statement # Unsent /\ ~Nested(text) =>
    (place = "refused" <=>
      LET t == Trimmed(text) IN
        \/ ~IsOneRead(t)
        \/ statement.kind = "mongo" /\ DuckWords(t) \cap {"query", Quoted("query")} # {}
        \/ statement.kind \in {"s3", "catalog"} /\ Contains(t, "uri")
        \/ statement.kind = "workspace" /\ Contains(t, "foreign"))

(* A statement that was let through means the same inside the SELECT that  *)
(* bounds it; only one that ends in a line comment does not run.           *)
RunsAsItIs ==
  LET t == Trimmed(text) IN
  statement # Unsent /\ place # "refused" /\ ~Nested(text) =>
    /\ Prepares(t) <=> Sql!Reading(DuckReader, t).mode # "line"
    /\ {i + 2 : i \in DuckCode(t)} \cup {1, 2} \cup (IF Prepares(t) THEN {Len(t) + 3} ELSE {}) = DuckCode(Wrapped(t))

(* The rows shown are the first of those there are, and whether there are  *)
(* more is said truly, whichever bound ended them.                         *)
ShowsTheFirst ==
  place = "answered" =>
    /\ IsPrefix(answer.rows, answer.of) /\ Len(answer.rows) <= Limit
    /\ answer.more <=> Len(answer.rows) < Len(answer.of)

(* A statement over a catalog sees every source of it and every dataset it *)
(* names, each lake is attached once, and no file of a dataset stays; the  *)
(* catalog fails only when names differ in case alone or not.              *)
SeesTheCatalog ==
  statement.kind = "catalog" /\ place \notin {"refused", "registering", "staging"} =>
    LET sources == Range(statement.sources)
        clash   == \E i, j \in DOMAIN statement.sources :
                     LET one == statement.sources[i] two == statement.sources[j] IN
                     i # j /\ one.schema = two.schema /\ (one.upper # two.upper \/ one.name = two.name)
    IN  /\ place \in {"open", "answered"} =>
             ~clash /\ engine.views = sources /\ engine.tables = engine.wanted
        /\ \A l \in Locals : <<l, "data">> \notin engine.files
        /\ engine.views # sources => clash
        /\ \A a, b \in engine.lakes : a # b => a[1] # b[1] /\ a[2] # b[2]

QueriesInv == RefusesWhatItShould /\ RunsAsItIs /\ ShowsTheFirst /\ SeesTheCatalog
=============================================================================
