---------------------------- MODULE DatabaseBySteps ----------------------------
(***************************************************************************)
(* The database of OTUSLesson25 with its commands one at a time: what the  *)
(* two joins answer in every pair of tables.                               *)
(***************************************************************************)
EXTENDS Database

CONSTANTS
  Ids,      \* bound: the keys
  RowNames  \* bound: the names

\* Keys are ints, names numbers.
ASSUME DatabaseAssumption == Ids \subseteq Int /\ RowNames \subseteq Nat

VARIABLE db  \* the tables

DatabaseInit == db = EmptyDataBase

\* DataBase::insert, with nobody beside it
InsertRow(t, row) ==
  /\ ~HasId(db[t], row.id)
  /\ db' = [db EXCEPT ![t] = @ \cup {row}]

\* DataBase::truncate
TruncateTable(t) == db' = [db EXCEPT ![t] = {}]

DatabaseNext ==
  \E t \in TableNames :
    \/ \E id \in Ids, name \in RowNames : InsertRow(t, [id |-> id, name |-> name])
    \/ TruncateTable(t)

DatabaseSpec == DatabaseInit /\ [][DatabaseNext]_db

\* The intersection has a line for every id of both tables.  The symmetric
\* difference has lines only for ids of exactly one table, and all of these but
\* those of the left table beyond the last id of the right, which it may lack.
\* Lines are in the order of ids, each name under its table (README.md:38-55 by
\* database.cpp:25-77).
JoinsByTheBook ==
  LET ids(t) == {row.id : row \in db[t]}
      name(t, id) == IF id \in ids(t) THEN (CHOOSE row \in db[t] : row.id = id).name ELSE NoName
      beyond == {id \in ids("A") : \A other \in ids("B") : other < id}
      linesOf(wanted) == {Line(id, name("A", id), name("B", id)) : id \in wanted}
      inOrder(lines) == \A i, j \in DOMAIN lines : i < j => lines[i].id < lines[j].id
      both == Intersection(db["A"], db["B"])
      one == SymmetricDifference(db["A"], db["B"])
      ofOne == (ids("A") \ ids("B")) \cup (ids("B") \ ids("A"))
  IN  /\ inOrder(both) /\ {both[i] : i \in DOMAIN both} = linesOf(ids("A") \cap ids("B"))
      /\ inOrder(one) /\ {one[i] : i \in DOMAIN one} \subseteq linesOf(ofOne)
      /\ linesOf(ofOne \ beyond) \subseteq {one[i] : i \in DOMAIN one}
=============================================================================
