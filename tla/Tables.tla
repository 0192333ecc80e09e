------------------------------- MODULE Tables -------------------------------
(***************************************************************************)
(* Tables of SQLite as functions from the primary key to the row.          *)
(***************************************************************************)
EXTENDS Integers, FiniteSetsExt

TablesOf(Ids, Row) == UNION {[S -> Row] : S \in SUBSET Ids}

Empty == [i \in {} |-> {}]

\* A rowid that is not given is one above the largest in the table.
NextId(rows) == 1 + Max({0} \cup DOMAIN rows)

With(rows, id, row) == [i \in DOMAIN rows \cup {id} |-> IF i = id THEN row ELSE rows[i]]

Without(rows, ids) == [i \in DOMAIN rows \ ids |-> rows[i]]
=============================================================================
