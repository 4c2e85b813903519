------------------------------ MODULE MongoSql ------------------------------
(***************************************************************************)
(* SQL on a MongoDB connection.  A SELECT is translated to a find or an    *)
(* aggregation pipeline (mongo-sql.ts); one that cannot be is split, when  *)
(* it scans one collection, into a filter for MongoDB and a rest for       *)
(* DuckDB (mongo-sql-source.ts).  Either way the rows must be those of the *)
(* SQL, which decides in three values where MongoDB decides in two.        *)
(* A generated expression is written as what MongoDB makes of it, a        *)
(* pipeline as the rows its stages leave, and a filter as what it finds.   *)
(***************************************************************************)
EXTENDS Integers, Sequences, SequencesExt, FiniteSets, FiniteSetsExt

CONSTANTS
  Fields,      \* of a document
  Atoms,       \* the conditions without AND, OR and NOT that a WHERE is made of
  Selects,     \* the other clauses of a statement
  Collections, \* sequences of documents
  MaxSource,   \* documents a source may have (100 000 in the code)
  RowLimit,    \* rows the user asks for
  MaxParts     \* bound: parts of a WHERE

VARIABLES
  where,  \* the condition so far
  select  \* the other clauses

mongoVars == <<where, select>>

-----------------------------------------------------------------------------
(* Null (or missing), a scalar or an array, which MongoDB has for greater. *)
Null == [list |-> FALSE, items |-> <<>>]
NonNull(v) == v # Null
Scalar(n) == [list |-> FALSE, items |-> <<n>>]

Less(u, v) == IF u.list = v.list THEN u.items[1] < v.items[1] ELSE v.list
Comparisons == {"eq", "neq", "lt", "gte", "gt", "lte"}
Compares(kind, u, v) ==
  CASE kind = "eq" -> u = v        [] kind = "neq" -> u # v
    [] kind = "lt" -> Less(u, v)   [] kind = "gte" -> ~Less(u, v)
    [] kind = "gt" -> Less(v, u)   [] kind = "lte" -> ~Less(v, u)

(* Membership of a scalar: what {field: {$eq: v}} finds. *)
HasItem(u, v) == u = v \/ (u.list /\ \E i \in DOMAIN u.items : Scalar(u.items[i]) = v)

(* An operand: a literal (kind "literal"), a column (kind "column") or an  *)
(* aggregate of a column or of "*".  A row says what the last two are.     *)
Literal(v)         == [kind |-> "literal", name |-> "", value |-> v]
Column(f)          == [kind |-> "column", name |-> f, value |-> Null]
Aggregate(kind, f) == [kind |-> kind, name |-> f, value |-> Null]

AggregateKinds == {"count", "sum", "max"}  \* avg and min are like max

IsColumn(x) == x.kind = "column"
IsAggregate(x) == x.kind \in AggregateKinds

RowOf(doc) == [k \in {"column"} \X Fields |-> doc[k[2]]]
Of(x, row) == IF x.kind = "literal" THEN x.value ELSE row[<<x.kind, x.name>>]

(* An atom of a condition.  Its column stands left when it has a literal.  *)
Atom(op, kind, l, r, list) == [op |-> op, kind |-> kind, left |-> l, right |-> r, list |-> list]
Compare(kind, l, r) == Atom("compare", kind, l, r, {})
IsNull(x, kind)     == Atom("null", kind, x, Literal(Null), {})   \* kind "is" or "is not"
In(x, kind, list)   == Atom("in", kind, x, Literal(Null), list)   \* kind "in" or "not in"
ListContains(x, v)  == Atom("contains", "", x, Literal(v), {})    \* list_contains

(* A condition is the list of its parts, as a parser closes them: an atom, *)
(* or a connective of earlier parts.  The last part is the whole.          *)
NoCondition == <<>>
Not(i)         == [op |-> "not", of |-> i]
Both(op, i, j) == [op |-> op, of |-> i, with |-> j]               \* op "and" or "or"

IsAtom(p) ==
  /\ \/ p.op = "compare" /\ p.kind \in Comparisons
     \/ p.op = "null"
     \/ p.op = "in" /\ p.kind \in {"in", "not in"}
     \/ p.op = "contains" /\ p.right.kind = "literal"
  /\ p = Atom(p.op, p.kind, p.left, p.right, p.list)
IsNot(p, earlier)  == p.op = "not" /\ p.of \in earlier /\ p = Not(p.of)
IsBoth(p, earlier) ==
  p.op \in {"and", "or"} /\ {p.of, p.with} \subseteq earlier /\ p = Both(p.op, p.of, p.with)

IsList(s) == Len(s) \in Nat /\ s = [k \in 1 .. Len(s) |-> s[k]]
IsCondition(e) ==
  /\ IsList(e)
  /\ \A k \in 1 .. Len(e) : IsAtom(e[k]) \/ IsNot(e[k], 1 .. k - 1) \/ IsBoth(e[k], 1 .. k - 1)

(* The operands of each part of a condition, and of the whole. *)
OperandsIn(e) ==
  LET operands[k \in DOMAIN e] ==
        CASE e[k].op = "not" -> operands[e[k].of]
          [] e[k].op \in {"and", "or"} -> operands[e[k].of] \cup operands[e[k].with]
          [] OTHER -> {e[k].left, e[k].right}
  IN operands
Operands(e) == IF e = NoCondition THEN {} ELSE OperandsIn(e)[Len(e)]

-----------------------------------------------------------------------------
(* What SQL means: the reference. *)
Truth(b) == IF b THEN "true" ELSE "false"
Negated(t) == IF t = "true" THEN "false" ELSE IF t = "false" THEN "true" ELSE "unknown"
BothTrue(t, u) ==
  IF "false" \in {t, u} THEN "false" ELSE IF "unknown" \in {t, u} THEN "unknown" ELSE "true"

(* An atom of a row, ... *)
InList(u, list) ==
  IF u # Null /\ u \in list THEN "true"
  ELSE IF Null \in {u} \cup list THEN "unknown" ELSE "false"
Decides(a, row) ==
  LET u == Of(a.left, row)
      v == Of(a.right, row)
  IN CASE a.op = "null" -> Truth((u = Null) <=> a.kind = "is")
       [] a.op = "in" -> IF a.kind = "in" THEN InList(u, a.list) ELSE Negated(InList(u, a.list))
       [] a.op = "compare" -> IF Null \in {u, v} THEN "unknown" ELSE Truth(Compares(a.kind, u, v))
       [] a.op = "contains" -> IF Null \in {u, v} THEN "unknown" ELSE Truth(u.list /\ HasItem(u, v))

(* ... each part of a condition, and the whole. *)
Truths(e, row) ==
  LET truths[k \in DOMAIN e] ==
        CASE e[k].op = "not" -> Negated(truths[e[k].of])
          [] e[k].op = "and" -> BothTrue(truths[e[k].of], truths[e[k].with])
          [] e[k].op = "or" -> Negated(BothTrue(Negated(truths[e[k].of]), Negated(truths[e[k].with])))
          [] OTHER -> Decides(e[k], row)
  IN truths
Holds(e, row) == e = NoCondition \/ Truths(e, row)[Len(e)] = "true"

(* The equality of the SQL mode also finds an element of an array.         *)
FindsItem(p) == p.op = "compare" /\ p.kind = "eq" /\ p.right.kind = "literal"
Finds(e, row) ==
  LET finds[k \in DOMAIN e] ==
        \/ e[k].op = "and" /\ finds[e[k].of] /\ finds[e[k].with]
        \/ e[k].op = "or" /\ (finds[e[k].of] \/ finds[e[k].with])
        \/ /\ e[k].op \notin {"and", "or"} /\ FindsItem(e[k])
           /\ e[k].right.value # Null /\ HasItem(Of(e[k].left, row), e[k].right.value)
        \/ e[k].op \notin {"and", "or"} /\ ~FindsItem(e[k]) /\ Truths(e, row)[k] = "true"
  IN finds
IsFound(e, row) == e = NoCondition \/ Finds(e, row)[Len(e)]

(* What there is of a field in documents: by position, without null.       *)
Present(f, docs) == {i \in DOMAIN docs : docs[i][f] # Null}
Amounts(f, docs) == [i \in Present(f, docs) |-> docs[i][f].items[1]]
SumOf(amounts) == FoldFunction(+, 0, amounts)
Largest(amounts) == Max(Range(amounts))

Aggregated(x, docs) ==
  CASE x.kind = "count" ->
         Scalar(Cardinality(IF x.name = "*" THEN DOMAIN docs ELSE Present(x.name, docs)))
    [] x.kind = "sum" ->
         IF Present(x.name, docs) = {} THEN Null ELSE Scalar(SumOf(Amounts(x.name, docs)))
    [] x.kind = "max" ->
         IF Present(x.name, docs) = {} THEN Null ELSE Scalar(Largest(Amounts(x.name, docs)))

-----------------------------------------------------------------------------
(* The translation. *)
(* A mistake: the inverse of a comparison is its complement. *)
ComparedNegated(kind, u, v) == ~(NonNull(u) /\ NonNull(v)) \/ ~Compares(kind, u, v)

Inverted(kind) ==
  CASE kind = "eq" -> "neq" [] kind = "neq" -> "eq" [] kind = "gt" -> "lte"
    [] kind = "gte" -> "lt" [] kind = "lt" -> "gte" [] kind = "lte" -> "gt"

ComparedInversely(kind, u, v) == NonNull(u) /\ NonNull(v) /\ Compares(Inverted(kind), u, v)

(* An atom, under an even or an odd number of NOTs. *)
AtomPredicate(a, negated, row) ==
  LET u == Of(a.left, row)
      v == Of(a.right, row)
      invert == (a.kind = "not in") # negated
  IN CASE a.op = "null" -> (u = Null) <=> ((a.kind = "is") # negated)
       [] a.op = "in" ->
            IF invert THEN Null \notin a.list /\ NonNull(u) /\ u \notin a.list
            ELSE NonNull(u) /\ u \in a.list \ {Null}
       [] a.op = "compare" ->
            IF negated THEN ComparedInversely(a.kind, u, v)
            ELSE NonNull(u) /\ NonNull(v) /\ Compares(a.kind, u, v)
       [] a.op = "contains" -> FALSE

(* predicate: a NOT is carried down to the comparisons, and each of them   *)
(* is guarded against null.                                                *)
Predicates(e, row) ==
  LET predicates[k \in DOMAIN e] ==
        [negated \in BOOLEAN |->
           \/ e[k].op = "not" /\ predicates[e[k].of][~negated]
           \/ /\ e[k].op = (IF negated THEN "or" ELSE "and")
              /\ predicates[e[k].of][negated] /\ predicates[e[k].with][negated]
           \/ /\ e[k].op = (IF negated THEN "and" ELSE "or")
              /\ predicates[e[k].of][negated] \/ predicates[e[k].with][negated]
           \/ e[k].op \notin {"not", "and", "or"} /\ AtomPredicate(e[k], negated, row)]
  IN predicates
Predicate(e, row) == e = NoCondition \/ Predicates(e, row)[Len(e)][FALSE]

(* match, of the SQL mode: equality with a literal and list_contains as    *)
(* MongoDB queries, which use an index; anything else as a predicate.      *)
MatchesItem(p) == FindsItem(p) /\ p.right.value # Null
Matches(e, row) ==
  LET matches[k \in DOMAIN e] ==
        \/ e[k].op = "and" /\ matches[e[k].of] /\ matches[e[k].with]
        \/ e[k].op = "or" /\ (matches[e[k].of] \/ matches[e[k].with])
        \/ /\ e[k].op = "contains" /\ e[k].right.value # Null
           /\ Of(e[k].left, row).list /\ HasItem(Of(e[k].left, row), e[k].right.value)
        \/ /\ e[k].op \notin {"and", "or", "contains"} /\ MatchesItem(e[k])
           /\ HasItem(Of(e[k].left, row), e[k].right.value)
        \/ /\ e[k].op \notin {"and", "or", "contains"} /\ ~MatchesItem(e[k])
           /\ Predicates(e, row)[k][FALSE]
  IN matches
Match(e, row) == e = NoCondition \/ Matches(e, row)[Len(e)]

(* What predicate and match take: list_contains only where match finds it. *)
Translates(e) ==
  LET translates[k \in DOMAIN e] ==
        [matching \in BOOLEAN |->
           /\ e[k].op = "not" => translates[e[k].of][FALSE]
           /\ e[k].op \in {"and", "or"} => translates[e[k].of][matching] /\ translates[e[k].with][matching]
           /\ e[k].op = "contains" => matching]
  IN translates
Translatable(e, matching) == e = NoCondition \/ Translates(e)[Len(e)][matching]

-----------------------------------------------------------------------------
(* The other clauses of a statement: outputs [name, of], group (columns),  *)
(* having, order (operands and whether they descend) and limit.            *)
NoStatement == <<>>
Star(q) == q.outputs = <<>>
NoLimit == -1

IsGrouped(q) ==
  \/ q.group # <<>> \/ q.having # NoCondition
  \/ \E i \in DOMAIN q.outputs : IsAggregate(q.outputs[i].of)

(* A column of HAVING or ORDER BY may be the name of an output. *)
OutputNamed(q, x) ==
  LET at == {i \in DOMAIN q.outputs : q.outputs[i].name = x.name}
  IN IF IsColumn(x) /\ at # {} THEN q.outputs[Min(at)].of ELSE x

Resolved(q, e) ==
  [k \in DOMAIN e |->
     IF e[k].op \in {"not", "and", "or"} THEN e[k]
     ELSE [e[k] EXCEPT !.left = OutputNamed(q, @), !.right = OutputNamed(q, @)]]
Having(q) == Resolved(q, q.having)
OrderedBy(q, i) == OutputNamed(q, q.order[i].of)

(* What the clauses but WHERE read. *)
OperandsOf(q) ==
  {q.outputs[i].of : i \in DOMAIN q.outputs} \cup {OrderedBy(q, i) : i \in DOMAIN q.order}
    \cup Operands(Having(q))

(* Every column of a grouped statement is one it groups by. *)
GroupedOnly(q) == \A x \in OperandsOf(q) : IsColumn(x) => Contains(q.group, x.name)

Unsupported(q, e, matching) ==
  \/ ~Translatable(e, matching) \/ ~Translatable(Having(q), FALSE)
  \/ IsGrouped(q) /\ (Star(q) \/ ~GroupedOnly(q))
  \/ ~IsInjective([i \in DOMAIN q.outputs |-> q.outputs[i].name])

-----------------------------------------------------------------------------
(* What clauses do to documents and rows.  A WHERE or HAVING comes as the  *)
(* set it keeps, so that two that keep the same leave the same.            *)
Kept(s, S) ==
  LET kept[n \in 0 .. Len(s)] ==
        IF n = 0 THEN <<>> ELSE IF s[n] \in S THEN Append(kept[n - 1], s[n]) ELSE kept[n - 1]
  IN kept[Len(s)]

(* Documents with equal values of the group, by the first of them. *)
Key(q, d) == [f \in ToSet(q.group) |-> d[f]]
Firsts(q, docs) == {i \in DOMAIN docs : \A j \in 1 .. i - 1 : Key(q, docs[j]) # Key(q, docs[i])}
Groups(q, docs) ==
  LET firsts == Kept([i \in DOMAIN docs |-> i], Firsts(q, docs))
  IN [n \in DOMAIN firsts |-> Kept(docs, {d \in ToSet(docs) : Key(q, d) = Key(q, docs[firsts[n]])})]

(* Without GROUP BY, all documents are one group, be there none. *)
GroupsOf(q, docs) == IF q.group = <<>> THEN <<docs>> ELSE Groups(q, docs)

(* The aggregates of a group are a function of those there are. *)
AggregatesOf == (AggregateKinds \X Fields) \cup {<<"count", "*">>}
GroupRow(q, docs, values) ==
  [k \in ({"column"} \X Fields) \cup AggregatesOf |->
     IF k[1] # "column" THEN values[k]
     ELSE IF Contains(q.group, k[2]) THEN docs[1][k[2]] ELSE Null]

(* ORDER BY, null before everything; equal rows keep their order.          *)
NullFirst(u, v) == u # v /\ (u = Null \/ (v # Null /\ Less(u, v)))
Before(q, r, s) ==
  \E i \in DOMAIN q.order :
    /\ \A j \in 1 .. i - 1 : Of(OrderedBy(q, j), r) = Of(OrderedBy(q, j), s)
    /\ IF q.order[i].desc THEN NullFirst(Of(OrderedBy(q, i), s), Of(OrderedBy(q, i), r))
       ELSE NullFirst(Of(OrderedBy(q, i), r), Of(OrderedBy(q, i), s))

(* A row goes behind those it is not before. *)
PlaceOf(q, rows, r) == Cardinality({i \in DOMAIN rows : ~Before(q, r, rows[i])}) + 1
Inserted(q, rows, r) ==
  LET at == PlaceOf(q, rows, r)
  IN [i \in 1 .. Len(rows) + 1 |-> IF i < at THEN rows[i] ELSE IF i = at THEN r ELSE rows[i - 1]]
Sorted(q, rows) ==
  LET sorted[n \in 0 .. Len(rows)] == IF n = 0 THEN <<>> ELSE Inserted(q, sorted[n - 1], rows[n])
  IN sorted[Len(rows)]
Limited(n, rows) == IF n # NoLimit /\ n < Len(rows) THEN SubSeq(rows, 1, n) ELSE rows

Projected(q, rows) ==
  [n \in DOMAIN rows |->
     IF Star(q) THEN [f \in Fields |-> rows[n][<<"column", f>>]]
     ELSE [i \in DOMAIN q.outputs |-> Of(q.outputs[i].of, rows[n])]]

RowsOf(docs) == [i \in DOMAIN docs |-> RowOf(docs[i])]

(* The last document by the order of a join, alone or none. *)
Newest(q, docs) == Limited(1, Sorted([q EXCEPT !.order = q.latest.order, !.outputs = <<>>], RowsOf(docs)))

(* The statement in SQL, with a WHERE that finds the documents "found".    *)
OfLatest(q, docs) ==
  {d \in ToSet(docs) : Newest(q, docs) # <<>> /\ \A f \in ToSet(q.latest.keys) :
     Decides(Compare("eq", Column(f), Literal(Newest(q, docs)[1][<<"column", f>>])), RowOf(d)) = "true"}
SourceOf(q, docs) == IF q.latest.keys = <<>> THEN docs ELSE Kept(docs, OfLatest(q, docs))

AggregateRow(q, docs) ==
  GroupRow(q, docs, [k \in AggregatesOf |-> Aggregated(Aggregate(k[1], k[2]), docs)])
SelectedRows(q, docs) ==
  IF IsGrouped(q) THEN [n \in DOMAIN GroupsOf(q, docs) |-> AggregateRow(q, GroupsOf(q, docs)[n])]
  ELSE RowsOf(docs)

HavingRows(q, rows) ==
  IF q.having = NoCondition THEN rows ELSE Kept(rows, {r \in ToSet(rows) : Holds(Having(q), r)})

Meaning(q, docs, found) ==
  LET rows == HavingRows(q, SelectedRows(q, Kept(SourceOf(q, docs), found)))
  IN Projected(q, Limited(q.limit, Sorted(q, rows)))

-----------------------------------------------------------------------------
(* The pipeline. *)

(* $sum counts null as nothing, and the sum of nothing is 0. *)
Slot(x, docs) ==
  LET counted == IF x.name = "*" THEN DOMAIN docs ELSE Present(x.name, docs)
  IN [n |-> Cardinality(counted),
      value |-> CASE x.kind = "count" -> Scalar(Cardinality(counted))
                  [] x.kind = "sum" -> Scalar(SumOf(Amounts(x.name, docs)))
                  [] x.kind = "max" -> IF counted = {} THEN Null ELSE Scalar(Largest(Amounts(x.name, docs)))]

(* A second slot says whether anything was summed. *)
Reference(x, slot) == IF x.kind = "sum" /\ slot.n = 0 THEN Null ELSE slot.value

(* $group makes nothing of nothing: $facet puts the defaults there.        *)
Default(x) == [value |-> IF x.kind = "count" THEN Scalar(0) ELSE Null, n |-> 0]

(* $group without a key makes one group of all documents. *)
StageRow(q, docs) ==
  GroupRow(q, docs, [k \in AggregatesOf |-> LET x == Aggregate(k[1], k[2]) IN Reference(x, Slot(x, docs))])
DefaultRow(q) ==
  GroupRow(q, <<>>, [k \in AggregatesOf |-> LET x == Aggregate(k[1], k[2]) IN Reference(x, Default(x))])
GroupStage(q, docs) ==
  IF q.group = <<>> /\ docs = <<>> THEN <<DefaultRow(q)>>
  ELSE [n \in DOMAIN GroupsOf(q, docs) |-> StageRow(q, GroupsOf(q, docs)[n])]

HavingStage(q, rows) ==
  IF q.having = NoCondition THEN rows ELSE Kept(rows, {r \in ToSet(rows) : Predicate(Having(q), r)})

Pipeline(q, docs, found) ==
  LET matched == Kept(docs, found)
      rows    == HavingStage(q, IF IsGrouped(q) THEN GroupStage(q, matched) ELSE RowsOf(matched))
  IN Projected(q, Limited(q.limit, Sorted(q, rows)))

(* translateLatestJoin: the keys of the last document by an order, and the *)
(* documents that have them.                                               *)
Agrees(d, newest, f) ==
  NonNull(d[f]) /\ NonNull(newest[<<"column", f>>]) /\ d[f] = newest[<<"column", f>>]
LookedUp(q, docs) ==
  Kept(docs, {d \in ToSet(docs) :
                Newest(q, docs) # <<>> /\ \A f \in ToSet(q.latest.keys) : Agrees(d, Newest(q, docs)[1], f)})

Translated(q, docs, found) == Pipeline(q, IF q.latest.keys = <<>> THEN docs ELSE LookedUp(q, docs), found)

(* One row more than asked for says whether there are more. *)
Result(rows) ==
  LET fetched == Limited(RowLimit + 1, rows)
  IN [rows |-> Limited(RowLimit, fetched), more |-> Len(fetched) > RowLimit]

Shown(rows) == [rows |-> Limited(RowLimit, rows), more |-> Len(rows) > RowLimit]

-----------------------------------------------------------------------------
(* The source of a statement that is not translated. *)

(* What MongoDB finds as SQL would: equality with a literal and            *)
(* list_contains, alone or in an AND or OR of such.                        *)
Moves(e) ==
  LET moves[k \in DOMAIN e] ==
        \/ e[k].op \in {"and", "or"} /\ moves[e[k].of] /\ moves[e[k].with]
        \/ e[k].op = "contains" /\ e[k].right.value # Null
        \/ e[k].op \notin {"and", "or"} /\ MatchesItem(e[k])
  IN moves

(* The parts an AND is made of, which are moved or not. *)
Splits(e) ==
  LET splits[k \in DOMAIN e] ==
        IF e[k].op = "and" /\ ~Moves(e)[k] THEN splits[e[k].of] \cup splits[e[k].with] ELSE {k}
  IN splits
Split(e) == IF e = NoCondition THEN {} ELSE Splits(e)[Len(e)]
Moved(e) == {k \in Split(e) : Moves(e)[k]}
Rest(e) == {k \in Split(e) : ~Moves(e)[k]}

(* The names of all clauses but FROM, with these of the WHERE, and of the  *)
(* outputs.                                                                *)
NamesOf(operands) == {x.name : x \in {y \in operands : y.kind # "literal"}}
ClauseNames(q, operands) ==
  ToSet(q.group) \cup NamesOf(operands \cup Operands(q.having) \cup {q.order[i].of : i \in DOMAIN q.order})

FieldsRead(q, e) ==
  IF Star(q) THEN Fields
  ELSE Fields \cap (ClauseNames(q, UNION {OperandsIn(e)[k] : k \in Rest(e)})
                      \cup NamesOf({q.outputs[i].of : i \in DOMAIN q.outputs}))

(* No plan: nothing to move, a name that an output gives is used, nothing  *)
(* is read, or more than one scan.                                         *)
HasPlan(q, e) ==
  /\ Moved(e) # {} /\ q.latest.keys = <<>>
  /\ \A i \in DOMAIN q.outputs :
       q.outputs[i].alias => q.outputs[i].name \notin ClauseNames(q, Operands(e))
  /\ FieldsRead(q, e) # {}

Found(e, docs) ==
  Kept(docs, {d \in ToSet(docs) : \A k \in Moved(e) : Matches(e, RowOf(d))[k]})

(* readSqlSource: all of what was found, or nothing. *)
IsRead(docs) == Len(docs) <= MaxSource

Narrowed(q, e, d) == [f \in Fields |-> IF f \in FieldsRead(q, e) THEN d[f] ELSE Null]
Snapshot(q, e, docs) == [i \in DOMAIN docs |-> Narrowed(q, e, docs[i])]

-----------------------------------------------------------------------------
(* The user writes a statement: its other clauses, then its WHERE, which   *)
(* is whole when every part but the last belongs to another.               *)
MongoInit == where = NoCondition /\ select = NoStatement

Select(q) == select = NoStatement /\ select' = q /\ UNCHANGED where

Has(p, k) == (p.op = "not" /\ p.of = k) \/ (p.op \in {"and", "or"} /\ k \in {p.of, p.with})
Open(e) == {k \in DOMAIN e : \A j \in DOMAIN e : ~Has(e[j], k)}
IsWhole(e) == Cardinality(Open(e)) <= 1

AddPart(p) ==
  /\ select # NoStatement
  /\ where' = Append(where, p)
  /\ Len(where') + Cardinality(Open(where')) <= MaxParts + 1  \* it can be closed
  /\ UNCHANGED select

MongoNext ==
  \/ \E q \in Selects : Select(q)
  \/ \E a \in Atoms : AddPart(a)
  \/ where # NoCondition /\ AddPart(Not(Len(where)))
  \/ \E i \in 1 .. Len(where) - 1, op \in {"and", "or"} : AddPart(Both(op, i, Len(where)))

MongoSpec == MongoInit /\ [][MongoNext]_mongoVars

(* A WHERE reads fields and scalars, and the other clauses also the        *)
(* aggregates there are.                                                   *)
Value == [list : BOOLEAN, items : Seq(Int)]

IsScalarOrField(x) ==
  (x.kind = "literal" /\ ~x.value.list) \/ (x.kind = "column" /\ x.name \in Fields)
IsOperand(q, x) ==
  \/ x.kind = "literal"
  \/ x.kind = "column" /\ x.name \in Fields
  \/ IsGrouped(q) /\ <<x.kind, x.name>> \in AggregatesOf

MongoAssumption ==
  /\ RowLimit \in Nat /\ "*" \notin Fields
  /\ Collections \subseteq Seq([Fields -> Value])
  /\ \A a \in Atoms : IsAtom(a) /\ IsScalarOrField(a.left) /\ IsScalarOrField(a.right)
  /\ \A q \in Selects :
       /\ IsCondition(q.having) /\ q.limit \in Nat \cup {NoLimit}
       /\ q.latest.keys \in Seq(Fields) /\ q.group \in Seq(Fields)
       /\ IsList(q.outputs) /\ IsList(q.order)
       /\ \A x \in OperandsOf(q) : IsOperand(q, x)

ASSUME MongoAssumption

-----------------------------------------------------------------------------
(* A name of an output that is also a column means the same.              *)
Unambiguous(q) ==
  \A i \in DOMAIN q.outputs : q.outputs[i].name \in Fields =>
    q.outputs[i].of = Column(q.outputs[i].name)

IsWritten == select # NoStatement /\ IsWhole(where) /\ Unambiguous(select)

HasArrays(docs) == \E i \in DOMAIN docs : \E f \in Fields : docs[i][f].list

(* What is translated gives the rows SQL gives: for the conversion the     *)
(* WHERE in three values, for the SQL mode with equality finding elements  *)
(* of arrays too.  NULL in a comparison, in a list or in an aggregate, a   *)
(* NOT at any depth, no document at all, LIMIT 0 and a join on null keys   *)
(* included.                                                               *)
TranslationKeepsMeaning ==
  IsWritten =>
    \A docs \in Collections :
      /\ ~Unsupported(select, where, FALSE) =>
           Translated(select, docs, {d \in ToSet(docs) : Predicate(where, RowOf(d))})
             = Meaning(select, docs, {d \in ToSet(docs) : Holds(where, RowOf(d))})
      /\ ~Unsupported(select, where, TRUE) =>
           Result(Translated(select, docs, {d \in ToSet(docs) : Match(where, RowOf(d))}))
             = Shown(Meaning(select, docs, {d \in ToSet(docs) : IsFound(where, RowOf(d))}))

(* A statement that is split gives, over the fields that were read of what *)
(* was found, the rows of the whole statement.                             *)
SourceKeepsMeaning ==
  IsWritten /\ HasPlan(select, where) =>
    \A docs \in Collections :
      LET found == Found(where, docs)
          snapshot == Snapshot(select, where, found)
      IN IsRead(found) /\ ~HasArrays(docs) =>
           Meaning(select, snapshot,
                   {d \in ToSet(snapshot) : \A k \in Rest(where) : Truths(where, RowOf(d))[k] = "true"})
             = Meaning(select, docs, {d \in ToSet(docs) : Holds(where, RowOf(d))})

MongoInv == TranslationKeepsMeaning /\ SourceKeepsMeaning
=============================================================================
