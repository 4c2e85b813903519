-------------------------- MODULE MCLocalAnalysis --------------------------
(* Instances of LocalAnalysis for TLC: two names, of which one is what the *)
(* other gets with its first suffix, and operations of each kind of        *)
(* command; for MongoDB, documents of two fields with nulls and an array,  *)
(* at most two of them, and one statement of each shape; values on both    *)
(* sides of each bound; and catalogs with and without a clash of names.    *)
EXTENDS LocalAnalysis, Integers

CONSTANT a

TwoBases == {<<a>>, <<a, 2>>}

Document(va, vb) == [va |-> va, vb |-> vb]
Zero == Scalar(0)
One == Scalar(1)
SomeDocuments ==
  {Document(Null, One), Document(One, One), Document(Zero, Null),
   Document([list |-> TRUE, items |-> <<0>>], Zero)}
SomeCollections == UNION {[1 .. n -> SomeDocuments] : n \in 0 .. 2}

ColumnA == Column("va")
ColumnB == Column("vb")
SomeAtoms ==
  {Compare("eq", ColumnA, Literal(Zero)), Compare("lt", ColumnB, ColumnA),
   Compare("neq", ColumnB, Literal(Null)),
   IsNull(ColumnB, "is"), In(ColumnA, "not in", {One}), In(ColumnB, "in", {Zero, Null}),
   ListContains(ColumnA, Zero)}

Out(name, of) == [name |-> name, of |-> of, alias |-> name \notin {"va", "vb"}]
By(name, desc) == [of |-> Column(name), desc |-> desc]
Plain ==
  [outputs |-> <<>>, group |-> <<>>, having |-> NoCondition, order |-> <<>>,
   limit |-> NoLimit, latest |-> [keys |-> <<>>, order |-> <<>>]]
SomeSelects ==
  {Plain,
   [Plain EXCEPT !.outputs = <<Out("va", ColumnA), Out("x", ColumnB)>>,
                 !.order = <<By("x", TRUE)>>, !.limit = 1],
   [Plain EXCEPT !.outputs = <<Out("n", Aggregate("count", "*")), Out("s", Aggregate("sum", "vb"))>>],
   [Plain EXCEPT !.outputs = <<Out("vb", ColumnB), Out("s", Aggregate("sum", "vb")),
                               Out("m", Aggregate("max", "vb"))>>,
                 !.group = <<"vb">>, !.order = <<By("m", FALSE)>>,
                 !.having = <<Compare("gte", Column("s"), Literal(Zero))>>],
   [Plain EXCEPT !.latest = [keys |-> <<"vb">>, order |-> <<By("va", TRUE)>>]]}

HeaderName(upper, parts) == [upper |-> upper, parts |-> parts]
SomeNames ==
  {HeaderName(FALSE, <<>>), HeaderName(FALSE, <<a>>), HeaderName(TRUE, <<a>>), HeaderName(FALSE, <<a, 2>>),
   HeaderName(FALSE, <<"column", 2>>)}

Typed(words) == [words |-> words, width |-> 0, scale |-> 0]
Decimal(width, scale) == [words |-> {"decimal"}, width |-> width, scale |-> scale]
SomeTypes ==
  {Typed({"int"}), Typed({"bit"}), Typed({}), Typed({"float", "binary"}), Typed({"binary"}),
   Decimal(3, 1), Decimal(9, 1)}
SomeCharacters == {1, 5, Dot, Minus, Plus}
SomeValues ==
  {JsonNull, Bool(TRUE), Octets(<<0, 1>>)} \cup {Number(n) : n \in {-26, -24, 5, 10, 12, 22, 24}}
    \cup {Text(cs) : cs \in UNION {[1 .. n -> SomeCharacters] : n \in 0 .. 3}}

Pair(key, value) == [key |-> key, value |-> value]
SomeComputed ==
  {Ticks("TIMESTAMP", 3, n) : n \in -4 .. 4} \cup {Ticks("TIME", 3, n) : n \in 4 .. 6}
    \cup {Integer("HUGEINT", n) : n \in {-12, 3, 12}}
    \cup {Held("NOT FINITE", JsonNull), Held("LIST", Listed(<<Integer("BIGINT", 1), NullValue>>)),
          Held("LIST", Listed(<<Held("NOT FINITE", JsonNull)>>)),
          Held("MAP", Listed(<<Pair(Integer("BIGINT", 7), NullValue)>>))}

SomeTables == {<<>>, <<1, 1>>, <<1, 1, 1>>, <<3, 3>>, <<6>>}

Source(schema, upper, name, lake) == [schema |-> schema, upper |-> upper, name |-> name, lake |-> lake]
SomeCatalogs ==
  {<<Source("local", FALSE, "n", "none")>>,
   <<Source("s", FALSE, "n", "none"), Source("s", TRUE, "o", "none")>>,
   <<Source("s", FALSE, "o", "lake"), Source("t", FALSE, "o", "pond"), Source("t", FALSE, "n", "lake")>>,
   <<Source("s", FALSE, "n", "none"), Source("s", FALSE, "n", "lake")>>}
SomeLocals == {<<"sales">>, <<"sales", "2">>}
=============================================================================
