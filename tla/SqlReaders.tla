----------------------------- MODULE SqlReaders -----------------------------
(***************************************************************************)
(* How the same SQL is read by those that act on it: the splitter of the   *)
(* editor (which also finds its variables), the lexer behind the warnings  *)
(* and the read-only check, the reader of the adapter that adds a row      *)
(* limit, and the database.  Each reads text from left to right and must   *)
(* agree with the others on what is code; what they then decide is written *)
(* over that code.                                                         *)
(* A text is a sequence of pieces, separated by blanks: only a backslash   *)
(* stands right before the next.  A doubled quote, which all read alike,   *)
(* and a keyword as a quoted name are left out.                            *)
(***************************************************************************)
EXTENDS Integers, Sequences, FiniteSets

CONSTANT MaxPieces  \* bound: length of a text

VARIABLES
  dialect,
  pieces,  \* the pieces this text is made of
  text

readersVars == <<dialect, pieces, text>>

Dialects == {"pg", "mysql", "mssql", "oracle"}

-----------------------------------------------------------------------------
(* A reader: do its block comments nest, what opens a literal or a quoted  *)
(* name, in which of them a backslash escapes, what begins a line comment, *)
(* and does it give up on what is not closed.                              *)
Reader(nests, opens, escapes, lines, strict) ==
  [nests |-> nests, opens |-> opens, escapes |-> escapes, lines |-> lines, strict |-> strict]

(* What closes it: E' ends with a quote, too. *)
Closes(o) ==
  CASE o \in {"quote", "equote"} -> {"quote", "equote"} [] o = "bracket" -> {"closing"}
    [] o = "oquote" -> {"oclose"} [] OTHER -> {o}

(* skipNonCode, for splitStatements and the variables. *)
Splitter(d) == Reader(d \in {"pg", "mssql"}, {"quote", "dquote", "equote", "dollars"}, {"equote"}, {"dashes"}, FALSE)

(* tokenize, with the descriptor of the dialect. *)
Lexer(d) ==
  Reader(d = "pg",
         {"quote"} \cup CASE d = "pg" -> {"dquote", "equote", "dollars"} [] d = "mysql" -> {"tick", "dquote"}
                      [] d = "mssql" -> {"bracket"} [] OTHER -> {"dquote"},
         {"equote"}, {"dashes"}, FALSE)

(* tokenizeSql of the adapters of PostgreSQL and of SQL Server,            *)
(* tokenizeMysqlSql, tokenizeOracleSql.                                    *)
PostgresReader == Reader(TRUE, {"quote", "dquote", "equote", "dollars"}, {"quote", "dquote", "equote"}, {"dashes"}, TRUE)
MysqlReader    == Reader(FALSE, {"quote", "dquote", "tick"}, {"quote", "dquote", "tick"}, {"dashes", "hash"}, FALSE)
MssqlReader    == Reader(TRUE, {"quote", "dquote", "bracket"}, {}, {"dashes"}, TRUE)
OracleReader   == Reader(FALSE, {"quote", "dquote", "oquote"}, {}, {"dashes"}, FALSE)

Capper(d) ==
  CASE d = "pg" -> PostgresReader [] d = "mysql" -> MysqlReader [] d = "mssql" -> MssqlReader [] d = "oracle" -> OracleReader

Database(d) ==
  CASE d = "pg"     -> Reader(TRUE, {"quote", "dquote", "equote", "dollars"}, {"equote"}, {"dashes"}, FALSE)
    [] d = "mysql"  -> Reader(FALSE, {"quote", "dquote", "tick"}, {"quote", "dquote"}, {"dashes", "hash"}, FALSE)
    [] d = "mssql"  -> Reader(TRUE, {"quote", "dquote", "bracket"}, {}, {"dashes"}, FALSE)
    [] d = "oracle" -> Reader(FALSE, {"quote", "dquote", "oquote"}, {}, {"dashes"}, FALSE)

(* One piece further: in code, in a comment, or in a literal.  The place   *)
(* of a piece of code and where a literal opens are code; what is solid    *)
(* ends with a piece of code or a literal.                                 *)
Read(r, s, p) ==
  LET n == s.at + 1
      Next(mode, depth, escaped, here, solid) ==
        [mode |-> mode, depth |-> depth, escaped |-> escaped, at |-> n,
         code |-> IF here THEN s.code \cup {n} ELSE s.code, solid |-> IF solid THEN n ELSE s.solid]
      deeper == IF p = "close" THEN s.depth - 1 ELSE IF p = "open" /\ r.nests THEN s.depth + 1 ELSE s.depth
  IN CASE s.mode = "code" ->
            IF p \in r.lines THEN Next("line", 0, FALSE, FALSE, FALSE)
            ELSE IF p = "open" THEN Next("block", 1, FALSE, FALSE, FALSE)
            ELSE IF p = "nl" THEN Next("code", 0, FALSE, FALSE, FALSE)
            ELSE Next(IF p \in r.opens THEN p ELSE "code", 0, FALSE, TRUE, TRUE)
       [] s.mode = "line" -> Next(IF p = "nl" THEN "code" ELSE "line", 0, FALSE, FALSE, FALSE)
       [] s.mode = "block" -> Next(IF deeper = 0 THEN "code" ELSE "block", deeper, FALSE, FALSE, FALSE)
       [] OTHER -> \* a backslash takes the E of E', but not its quote
            IF p \in Closes(s.mode) /\ (s.escaped => p = "equote") THEN Next("code", 0, FALSE, FALSE, TRUE)
            ELSE Next(s.mode, 0, p = "backslash" /\ ~s.escaped /\ s.mode \in r.escapes, FALSE, FALSE)

Unread == [mode |-> "code", depth |-> 0, escaped |-> FALSE, at |-> 0, code |-> {}, solid |-> 0]
Run(r, t) == LET run[k \in 0 .. Len(t)] == IF k = 0 THEN Unread ELSE Read(r, run[k - 1], t[k]) IN run
Reading(r, t) == Run(r, t)[Len(t)]

(* The places of code.  A strict reader finds none in a text that ends     *)
(* inside a literal or a comment.                                          *)
Code(r, t) ==
  LET end == Reading(r, t)
  IN IF r.strict /\ end.mode \notin {"code", "line"} THEN {} ELSE end.code

-----------------------------------------------------------------------------
(* What is decided over the code C of a text t.                            *)
At(C, t, words) == {i \in C : t[i] \in words}
Depth(C, t, i) == Cardinality({j \in At(C, t, {"("}) : j < i}) - Cardinality({j \in At(C, t, {")"}) : j < i})

(* A parenthesis that closes none changes nothing. *)
Top(C, t, words) == {i \in At(C, t, words) : \A j \in C : j <= i => Depth(C, t, i) <= Depth(C, t, j)}
First(C) == CHOOSE i \in C : \A j \in C : i <= j
Latest(C) == CHOOSE i \in C : \A j \in C : j <= i
NextIn(C, i) == IF \E j \in C : j > i THEN First({j \in C : j > i}) ELSE 0
Follows(C, t, i, words) == NextIn(C, i) # 0 /\ t[NextIn(C, i)] \in words

(* statementRanges: the statement of place i ends before the next one.     *)
SameStatement(C, t, i, j) == \A k \in At(C, t, {";"}) : ~(i < k /\ k <= j)

(* Mutant: a WHERE counts at any depth. *)
HasWhereAnywhere(C, t, i) == \E j \in At(C, t, {"WHERE"}) : i < j /\ SameStatement(C, t, i, j)

(* hasWhereForOperation: at the depth of the operation, before that ends.  *)
HasWhere(C, t, i) ==
  \E j \in At(C, t, {"WHERE"}) :
    /\ i < j /\ SameStatement(C, t, i, j) /\ Depth(C, t, j) = Depth(C, t, i)
    /\ \A k \in At(C, t, {")"}) : i < k /\ k < j => Depth(C, t, k) > Depth(C, t, i)

(* analyzeExecutionRisk.  UPDATE after KEY or DO is none, after FOR it is. *)
Risky(C, t) == \E i \in At(C, t, {"DELETE", "UPDATE"}) : ~HasWhere(C, t, i)

Writes == {"DELETE", "UPDATE", "INTO"}

(* analyzeReadOnlySql: one statement that begins with a read, without a    *)
(* word that writes and without a lock.                                    *)
ReadOnly(C, t) ==
  /\ C # {} /\ \A i \in At(C, t, {";"}) : ~\E j \in C : j > i /\ t[j] # ";"
  /\ \A i \in C : t[i] = ";" => i # First(C)
  /\ LET lead == {i \in C : t[i] # "("} IN lead # {} /\ t[First(lead)] = "SELECT"
  /\ At(C, t, Writes) = {} /\ \A i \in At(C, t, {"FOR"}) : ~Follows(C, t, i, {"UPDATE"})

(* assertSafeExplainSql. *)
Explainable(C, t) ==
  /\ C # {} /\ t[First(C)] = "SELECT"
  /\ At(C, t, {";"}) \subseteq {Latest(C)}
  /\ At(C, t, {"DELETE", "UPDATE"}) = {} /\ \A i \in At(C, t, {"FOR"}) : ~Follows(C, t, i, {"UPDATE"})

Balanced(C, t) == \A i \in C : Depth(C, t, i) >= (IF t[i] = ")" THEN 1 ELSE 0)
Closed(C, t) == Balanced(C, t) /\ Depth(C, t, Len(t) + 1) = 0

Locks(C, t) == \E i \in Top(C, t, {"FOR"}) : Follows(C, t, i, {"UPDATE"})

(* May a statement that begins with SELECT get a row limit?                *)
(* applyServerRowCap.                                                      *)
PostgresCaps(C, t) ==
  /\ Closed(C, t) /\ Top(C, t, {";"}) \subseteq {Latest(C)}
  /\ At(C, t, Writes \cup {"LIMIT"}) = {}

(* prepareMysqlQuery. *)
MysqlCaps(C, t) == Top(C, t, {";"}) \subseteq {Latest(C)} /\ Top(C, t, {"LIMIT", "INTO"}) = {} /\ ~Locks(C, t)

(* rewriteSimpleSelectForRowCap. *)
MssqlCaps(C, t) ==
  /\ Closed(C, t) /\ At(C, t, {";", "UNION"}) = {}
  /\ Top(C, t, {"DELETE", "INTO"}) = {} /\ Top(C, t, {"SELECT"}) = {First(C)}

(* prepareOracleQuery. *)
OracleCaps(C, t) == ~Locks(C, t)

MayCap(d, C, t) ==
  /\ C # {} /\ t[First(C)] = "SELECT"
  /\ CASE d = "pg" -> PostgresCaps(C, t) [] d = "mysql" -> MysqlCaps(C, t)
       [] d = "mssql" -> MssqlCaps(C, t) [] d = "oracle" -> OracleCaps(C, t)

(* Where the limit goes: after the last piece that is no comment, before   *)
(* the semicolon, in MySQL and PostgreSQL; after the first SELECT in SQL   *)
(* Server; Oracle gets the text as a subquery.                             *)
CapAt(d, t) ==
  LET C == Code(Capper(d), t)
      ends == Top(C, t, {";"})
      upTo == IF ends = {} THEN t ELSE SubSeq(t, 1, First(ends) - 1)
  IN IF d = "mssql" THEN First(C) ELSE Reading(Capper(d), upTo).solid

-----------------------------------------------------------------------------
(* Pieces that belong together: comments, literals, clauses.               *)
Writing  == {"SELECT", "DELETE", "UPDATE", "WHERE", ";", "(", ")"}
Queries  == {"SELECT", "UPDATE", "FOR", "INTO", "LIMIT", "UNION", "(", ")"}
Comments == {"SELECT", "DELETE", "WHERE", ";", "dashes", "nl", "open", "close"}
Literals(d) ==
  {"SELECT", "DELETE", ";", "quote"} \cup
  CASE d = "pg" -> {"dquote", "equote", "dollars", "backslash"} [] d \in {"mysql", "oracle"} -> {"dquote"} [] OTHER -> {}

ReadersInit ==
  /\ dialect \in Dialects
  /\ pieces \in {Writing, Queries, Comments, Literals(dialect)}
  /\ text \in {<<"SELECT">>, <<"DELETE">>}

Type ==
  /\ Len(text) < MaxPieces
  /\ \E p \in pieces : text' = Append(text, p)
  /\ UNCHANGED <<dialect, pieces>>

-----------------------------------------------------------------------------
Same(r) == Code(r, text) = Code(Database(dialect), text)
Before(i) == Reading(Database(dialect), SubSeq(text, 1, i - 1)).mode

(* The lexer knows no comment inside a comment of SQL Server, and the      *)
(* adapters of PostgreSQL and MySQL take a backslash for an escape in any  *)
(* quotes.                                                                 *)
LexerKnows ==
  dialect = "mssql" => \A i \in DOMAIN text : text[i] = "open" => Before(i) # "block"
CapperKnows ==
  \A i \in DOMAIN text :
    text[i] = "backslash" => (Before(i) \in Capper(dialect).escapes <=> Before(i) \in Database(dialect).escapes)

(* The editor, the warnings and the adapter see the code the database sees, *)
(* in what they know of its dialect.                                        *)
ReadersAgree ==
  /\ Same(Splitter(dialect))
  /\ LexerKnows => Same(Lexer(dialect))
  /\ CapperKnows /\ Code(Capper(dialect), text) # {} => Same(Capper(dialect))

(* A DELETE that the database reads without a WHERE of its own is warned   *)
(* of, whatever stands before it in the text; what is read-only or may be  *)
(* explained writes nothing and is one statement.                          *)
RisksAreSeen ==
  LET C == Code(Database(dialect), text)
      L == Code(Lexer(dialect), text)
  IN LexerKnows =>
       /\ \A i \in At(C, text, {"DELETE"}) :
            (\A j \in At(C, text, {"WHERE"}) :
               ~(i < j /\ SameStatement(C, text, i, j) /\ Depth(C, text, j) = Depth(C, text, i))) => Risky(L, text)
       /\ ReadOnly(L, text) \/ Explainable(L, text) =>
            /\ At(C, text, {"DELETE", "UPDATE"}) = {}
            /\ \A i \in At(C, text, {";"}) : ~\E j \in C : j > i /\ text[j] # ";"

(* A row limit goes to a single statement that reads, which has none, and  *)
(* to a place where the database reads it as code and after all the rest.  *)
CapIsSafe ==
  LET K == Code(Capper(dialect), text)
      C == Code(Database(dialect), text)
      Capped == /\ CapperKnows /\ MayCap(dialect, K, text)
                /\ Reading(Database(dialect), text).mode \in {"code", "line"}
  IN Capped =>
       /\ text[First(C)] = "SELECT"
       /\ dialect # "oracle" => ~\E i \in Top(C, text, {";"}) : \E j \in C : j > i
       /\ dialect \in {"pg", "mysql"} =>
            /\ Top(C, text, {"LIMIT"}) = {}
            /\ Reading(Database(dialect), SubSeq(text, 1, CapAt(dialect, text))).mode = "code"
            /\ \A i \in C : i > CapAt(dialect, text) => text[i] = ";"

ReadersInv == ReadersAgree /\ RisksAreSeen /\ CapIsSafe
=============================================================================
