------------------------------- MODULE Database -------------------------------
(***************************************************************************)
(* The two tables of join_server (OTUSLesson25) and the operations of      *)
(* their class Table.  A table is a std::map from id to name, modelled as  *)
(* its set of rows, because two inserts that race (DataBase::insert takes  *)
(* mtx_ shared) may leave two nodes of one id in it.  A name is a number,  *)
(* the empty string 0.                                                     *)
(***************************************************************************)
EXTENDS Integers, Sequences, FiniteSets

TableNames == {"A", "B"}

NoName == 0

EmptyDataBase == [t \in TableNames |-> {}]

\* Whether a row of r's id is in the table: then try_emplace inserts nothing.
HasId(table, id) == \E r \in table : r.id = id

\* The rows as an iteration over the map meets them.
Rows(table) ==
  LET before(r, s) == r.id < s.id \/ (r.id = s.id /\ r.name < s.name)
  IN  [k \in 1 .. Cardinality(table) |->
         CHOOSE r \in table : Cardinality({q \in table : before(q, r)}) = k - 1]

Line(id, a, b) == [id |-> id, a |-> a, b |-> b]

\* res.try_emplace: lines come in the order of ids, a second one of the same id
\* is dropped.
Emplaced(line, rest) ==
  <<line>> \o IF rest # <<>> /\ Head(rest).id = line.id THEN Tail(rest) ELSE rest

\* Mutant of Behind: of equal ids the left one goes first.
NotAhead(r, s) == r.id <= s.id

\* An iterator behind the other goes on alone.
Behind(r, s) == r.id < s.id

\* Where the two iterators may be.
WalkPlaces(s, t) == (1 .. Len(s) + 1) \X (1 .. Len(t) + 1)

\* Both iterators walk in step over the ids that are in both tables.
Intersection(lhs, rhs) ==
  LET s == Rows(lhs)
      t == Rows(rhs)
      walk[at \in WalkPlaces(s, t)] ==
        LET i == at[1]
            j == at[2]
        IN  CASE i > Len(s) \/ j > Len(t) -> <<>>
              [] OTHER ->
                   CASE Behind(s[i], t[j]) -> walk[<<i + 1, j>>]
                     [] Behind(t[j], s[i]) -> walk[<<i, j + 1>>]
                     [] OTHER -> Emplaced(Line(s[i].id, s[i].name, t[j].name), walk[<<i + 1, j + 1>>])
  IN  walk[<<1, 1>>]

\* The walk for the ids of one table only; what is left of rhs is appended,
\* what is left of lhs is not.
SymmetricDifference(lhs, rhs) ==
  LET s == Rows(lhs)
      t == Rows(rhs)
      walk[at \in WalkPlaces(s, t)] ==
        LET i == at[1]
            j == at[2]
        IN  CASE j > Len(t) -> <<>>
              [] i > Len(s) /\ j <= Len(t) -> Emplaced(Line(t[j].id, NoName, t[j].name), walk[<<i, j + 1>>])
              [] OTHER ->
                   CASE Behind(s[i], t[j]) -> Emplaced(Line(s[i].id, s[i].name, NoName), walk[<<i + 1, j>>])
                     [] Behind(t[j], s[i]) -> Emplaced(Line(t[j].id, NoName, t[j].name), walk[<<i, j + 1>>])
                     [] OTHER -> walk[<<i + 1, j + 1>>]
  IN  walk[<<1, 1>>]
=============================================================================
