------------------------------ MODULE BulkManager ------------------------------
(***************************************************************************)
(* The BulkCmdManager of OTUSLesson13 (bulk.cpp), a value with operators   *)
(* for its methods; lessons 19 and 21 have the same state machine and send *)
(* the bulks to pools.  A manager is a record: handler is the class of     *)
(* bulk_handler_, nesting is nesting_counter_, cur_bulk the data of        *)
(* cur_bulk_, sent the bulks notify has passed on.                         *)
(***************************************************************************)
EXTENDS Naturals, Sequences

NewManager ==
  [handler |-> "general", nesting |-> 0, cur_bulk |-> <<>>, sent |-> <<>>]

\* Mutant of Flushed: the bulk is sent but not cleared.
FlushedNotCleared(m) ==
  IF m.cur_bulk = <<>> THEN m ELSE [m EXCEPT !.sent = Append(@, m.cur_bulk)]

\* flush_data: an empty bulk is not sent.
Flushed(m) ==
  IF m.cur_bulk = <<>> THEN m
  ELSE [m EXCEPT !.sent = Append(@, m.cur_bulk), !.cur_bulk = <<>>]

Pushed(m, cmd) == [m EXCEPT !.cur_bulk = Append(@, cmd.data)]

\* GeneralStateHandler::handle_cmd
GeneralHandle(m, cmd, bulk_capacity) ==
  CASE cmd.type = "Base" ->
         LET p == Pushed(m, cmd) IN
           IF Len(p.cur_bulk) = bulk_capacity THEN Flushed(p) ELSE p
    [] cmd.type = "StartCustomBulk" ->
         [Flushed(m) EXCEPT !.handler = "custom", !.nesting = @ + 1]
    [] cmd.type = "StopCustomBulk" -> m
    [] cmd.type = "Terminator" -> Flushed(m)

\* Mutant of Outermost: any } ends the block.
AnyStop(m) == TRUE

\* --nesting_counter_ == 0
Outermost(m) == m.nesting = 1

\* CustomStateHandler::handle_cmd
CustomHandle(m, cmd) ==
  CASE cmd.type = "Base" -> Pushed(m, cmd)
    [] cmd.type = "StartCustomBulk" -> [m EXCEPT !.nesting = @ + 1]
    [] cmd.type = "StopCustomBulk" ->
         LET p == [m EXCEPT !.nesting = @ - 1] IN
           IF Outermost(m) THEN [Flushed(p) EXCEPT !.handler = "general"] ELSE p
    [] cmd.type = "Terminator" -> [m EXCEPT !.cur_bulk = <<>>]

AddCmd(m, cmd, bulk_capacity) ==
  IF m.handler = "general" THEN GeneralHandle(m, cmd, bulk_capacity)
                           ELSE CustomHandle(m, cmd)

\* read_next_cmd of a line, and of the end of the input.
CommandType(text) ==
  CASE text = "{" -> "StartCustomBulk"
    [] text = "}" -> "StopCustomBulk"
    [] OTHER -> "Base"

ToCommand(text, no) == [type |-> CommandType(text), data |-> no]

Terminator == [type |-> "Terminator", data |-> 0]
=============================================================================
