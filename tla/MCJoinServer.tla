---- MODULE MCJoinServer ----
(***************************************************************************)
(* Two clients: what each sends is one of the scripts below.               *)
(***************************************************************************)
EXTENDS JoinServer, TLC

CONSTANTS h1, h2

MCClients == {h1, h2}

Insert(t, id, name) == [op |-> "INSERT", table |-> t, row |-> [id |-> id, name |-> name]]
TruncateTable(t) == [op |-> "TRUNCATE", table |-> t]
Sym == [op |-> "SYMMETRIC_DIFFERENCE"]
Inter == [op |-> "INTERSECTION"]

\* Inserts of one id race, joins run beside inserts and a truncate, tables do
\* not exist.
MCScripts ==
  {(h1 :> <<Insert("A", 1, 1), Sym>>) @@ (h2 :> <<Insert("A", 1, 2)>>),
   (h1 :> <<Inter, Insert("A", 2, 1)>>) @@ (h2 :> <<TruncateTable("A")>>),
   (h1 :> <<Insert("C", 1, 1), TruncateTable("C")>>) @@ (h2 :> <<>>)}

OneInsertEach == {(h1 :> <<Insert("A", 1, 1)>>) @@ (h2 :> <<Insert("A", 1, 2)>>)}
====
