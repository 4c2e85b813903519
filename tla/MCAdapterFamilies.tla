------------------------- MODULE MCAdapterFamilies -------------------------
(* Instances of AdapterFamilies for TLC. *)
EXTENDS AdapterFamilies

CONSTANTS c1, c2, x1, a1, k1, k2, t1, t2, ca, cb

Primary(n, t, cols) == [kind |-> "P", name |-> n, table |-> t, columns |-> cols, key |-> "none"]
Foreign(n, t, cols, key) == [kind |-> "R", name |-> n, table |-> t, columns |-> cols, key |-> key]

(* Keys of one column and of two, references to each, one to its own table. *)
SomeConstraints ==
  {Primary("k1", t1, <<ca>>), Primary("k2", t2, <<ca, cb>>),
   Foreign("f1", t2, <<cb>>, "k1"), Foreign("f2", t1, <<ca, cb>>, "k2"), Foreign("f3", t1, <<cb>>, "k1")}
=============================================================================
