---------------------------- MODULE BulkCmdManager ----------------------------
(***************************************************************************)
(* The BulkCmdManager objects of OTUSLesson23 (bulk.h, bulk.cpp), one per  *)
(* connection.  Each has its own state handler, nesting counter and custom *)
(* bulk, and two pools that hand finished bulks to its observers; all of   *)
(* them share the static general_bulk_, so that commands of different      *)
(* connections mix outside of { }.  The steps here are the effects of      *)
(* add_cmd; who calls it, and on which thread, is left to BulkServer.      *)
(***************************************************************************)
EXTENDS Naturals, Sequences

CONSTANTS Clients,   \* one manager for each of them
          BulkSize,  \* bulk_capacity_, the same for every connection
          None

ASSUME BulkAssumption == BulkSize \in Nat \ {0}

\* A base command: who sent it, as which line, and in which of its { } blocks
\* (0: outside).  The code reads neither; they tell the properties what is what.
Command == [from : Clients, no : Nat, block : Nat]

VARIABLES
  handler,  \* handler[c]: bulk_handler_ is a "general" or "custom" state handler
  nesting,  \* nesting_counter_
  custom,   \* custom_bulk_
  general,  \* general_bulk_, static
  coutq,    \* coutq[c]: bulks queued or printed by cout_tread_pool_
  fileq     \* fileq[c]: bulks queued or written by file_tread_pool_

mgrVars == <<handler, nesting, custom, general, coutq, fileq>>

MgrInit ==
  /\ handler = [c \in Clients |-> "general"]
  /\ nesting = [c \in Clients |-> 0]
  /\ custom = [c \in Clients |-> <<>>]
  /\ general = <<>>
  /\ coutq = [c \in Clients |-> <<>>]
  /\ fileq = [c \in Clients |-> <<>>]

\* Mutant of Notify: the file pool gets no task.
NotifyConsole(c, bulk) ==
  /\ coutq' = [coutq EXCEPT ![c] = Append(@, bulk)]
  /\ fileq' = fileq

\* notify: one task in each pool of the manager that happens to flush.
Notify(c, bulk) ==
  /\ coutq' = [coutq EXCEPT ![c] = Append(@, bulk)]
  /\ fileq' = [fileq EXCEPT ![c] = Append(@, bulk)]

\* The two flushes; an empty bulk is not sent.
Flush(c, bulk) ==
  IF bulk = <<>> THEN UNCHANGED <<coutq, fileq>> ELSE Notify(c, bulk)

\* Mutant of Cleared: the shared bulk keeps what was sent.
NotCleared(bulk) == bulk

\* general_bulk_ after its flush: moved from and cleared.
Cleared(bulk) == <<>>

\* Mutant of IsFull: one command too many.
OverFull(bulk) == Len(bulk) > BulkSize

IsFull(bulk) == Len(bulk) = BulkSize

-----------------------------------------------------------------------------
\* GeneralStateHandler::handle_cmd, under general_mutex_.

GeneralBase(c, cmd) ==
  LET bulk == Append(general, cmd) IN
  /\ handler[c] = "general"
  /\ IF IsFull(bulk) THEN general' = Cleared(bulk) /\ Notify(c, bulk)
                     ELSE general' = bulk /\ UNCHANGED <<coutq, fileq>>
  /\ UNCHANGED <<handler, nesting, custom>>

GeneralStart(c) ==
  /\ handler[c] = "general"
  /\ Flush(c, general)
  /\ general' = Cleared(general)
  /\ handler' = [handler EXCEPT ![c] = "custom"]
  /\ nesting' = [nesting EXCEPT ![c] = @ + 1]
  /\ UNCHANGED custom

GeneralStop(c) ==
  /\ handler[c] = "general"
  /\ UNCHANGED mgrVars

GeneralTerminator(c) ==
  /\ handler[c] = "general"
  /\ Flush(c, general)
  /\ general' = Cleared(general)
  /\ UNCHANGED <<handler, nesting, custom>>

-----------------------------------------------------------------------------
\* CustomStateHandler::handle_cmd.

CustomBase(c, cmd) ==
  /\ handler[c] = "custom"
  /\ custom' = [custom EXCEPT ![c] = Append(@, cmd)]
  /\ UNCHANGED <<handler, nesting, general, coutq, fileq>>

CustomStart(c) ==
  /\ handler[c] = "custom"
  /\ nesting' = [nesting EXCEPT ![c] = @ + 1]
  /\ UNCHANGED <<handler, custom, general, coutq, fileq>>

\* Mutant of Outermost: any } ends the block.
AnyLevel(c) == TRUE

\* --nesting_counter_ == 0
Outermost(c) == nesting[c] = 1

CustomStop(c) ==
  /\ handler[c] = "custom"
  /\ nesting' = [nesting EXCEPT ![c] = @ - 1]
  /\ IF Outermost(c)
       THEN /\ Flush(c, custom[c])
            /\ custom' = [custom EXCEPT ![c] = <<>>]
            /\ handler' = [handler EXCEPT ![c] = "general"]
       ELSE UNCHANGED <<handler, custom, coutq, fileq>>
  /\ UNCHANGED general

CustomTerminator(c) ==
  /\ handler[c] = "custom"
  /\ custom' = [custom EXCEPT ![c] = <<>>]
  /\ UNCHANGED <<handler, nesting, general, coutq, fileq>>

-----------------------------------------------------------------------------
\* add_cmd of what getCmd made of a line: "{", "}" or a base command.
AddLine(c, text, cmd) ==
  \/ text = "{" /\ (GeneralStart(c) \/ CustomStart(c))
  \/ text = "}" /\ (GeneralStop(c) \/ CustomStop(c))
  \/ text = "base" /\ (GeneralBase(c, cmd) \/ CustomBase(c, cmd))

AddTerminator(c) == GeneralTerminator(c) \/ CustomTerminator(c)
=============================================================================
