-------------------------- MODULE MCEditedMetadata --------------------------
(* Instances of EditedMetadata for TLC: refreshes and schemas are          *)
(* interchangeable.  Tables of two columns of which the first is the key,  *)
(* and queries with "*", with a column shown twice, of rows of any table   *)
(* and with names exchanged.                                               *)
EXTENDS EditedMetadata, TLC

CONSTANTS x, y, Elsewhere

TwoReaders == Readings \cup {Elsewhere}

MetadataSymmetry == Permutations(Refreshes) \cup Permutations(Schemas)

OneSchema == <<"a">>
TwoSchemas == <<"a", "b">>
TwoColumns == <<"id", "ref">>

Item(column, name) == [column |-> column, name |-> name]
Star == <<Item("id", "id"), Item("ref", "ref")>>
Query(schema, simple, items) ==
  [schema |-> schema, simple |-> simple, star |-> items = Star, items |-> items]

Exchanged == Query("a", TRUE, <<Item("id", "ref"), Item("ref", "id")>>)

Repeated == Query("a", TRUE, <<Item("id", "id"), Item("id", Other)>>)

Queries ==
  {Query(None, TRUE, Star), Query(None, FALSE, Star), Query("a", TRUE, Star), Repeated}

RowOf(id, ref) == [id |-> id, ref |-> ref]
TableOf(one, two) == [key |-> {"id"}, rows |-> [r \in Rows |-> IF r = x THEN one ELSE two]]

ClosedQueries == {Query("a", TRUE, Star), Exchanged}

OneTable == {[a |-> TableOf(RowOf(0, 1), RowOf(1, 0))]}
OneOrTwoTables ==
  {[a |-> TableOf(RowOf(0, 1), RowOf(1, 0)), b |-> None],
   [a |-> TableOf(RowOf(0, 0), RowOf(1, 1)), b |-> TableOf(RowOf(0, 1), None)]}
=============================================================================
