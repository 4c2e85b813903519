------------------------- MODULE MCSavedConnections -------------------------
(* Instances of SavedConnections for TLC. *)
EXTENDS SavedConnections

CONSTANTS e1, e2, e3, e4  \* of Refs

NoUser == "no user"

Conn(n, dialect, place, user, group, catalog) ==
  [id |-> n, dialect |-> dialect, place |-> place, user |-> user, password |-> None,
   group |-> group, catalog |-> catalog]

(* None saved; or a catalog, the S3 connection that points at it, and the  *)
(* local DuckDB.                                                           *)
MCOwn ==
  {<<>>,
   <<Conn(1, "database", "p1", "u", 1, None), Conn(2, "s3", "lake", "key", None, 1),
     Conn(3, "duckdb", "p1", NoUser, None, None)>>}
MCOwnGroups == <<"PROD">>
MCLower == [n \in {"Prod", "PROD", "test"} |-> IF n = "test" THEN n ELSE "prod"]

Entry(ref, dialect, host, url, user, folder, catalog) ==
  [ref |-> ref, dialect |-> dialect, host |-> host, url |-> url, user |-> user,
   folder |-> folder, catalog |-> catalog]

(* The S3 connection stands before its catalog; two entries have one       *)
(* endpoint; one has an address in its URL and one has none.               *)
MCTheirs ==
  {[source |-> "omni-sql", version |-> 1,
    entries |-> <<Entry(e2, "s3", "lake", None, NoUser, "PROD", e1),
                  Entry(e1, "database", "p1", None, "u", "Prod", None),
                  Entry(e3, "database", "p1", None, NoUser, "test", None)>>],
   [source |-> "omni-sql", version |-> 2, entries |-> <<>>],
   [source |-> "dbeaver", version |-> 1,
    entries |-> <<Entry(e1, "database", "p1", None, NoUser, "Prod", None),
                  Entry(e3, "database", None, "p1", "u", None, None),
                  Entry(e4, "database", None, None, NoUser, None, None)>>]}
MCCredentialFiles == {[r \in Refs |-> IF r = e1 THEN "u" ELSE None]}
=============================================================================
