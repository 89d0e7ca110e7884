------------------------------ MODULE BulkServer ------------------------------
(***************************************************************************)
(* bulk_server of OTUSLesson23: the io thread runs the handlers of the     *)
(* acceptor and of the connections (async_server.cpp), which call connect, *)
(* receive and disconnect (async.cpp); a CommandProcessor per connection   *)
(* cuts what arrives into lines for its BulkCmdManager; the managers'      *)
(* pools print and write the bulks on threads of their own.                *)
(*                                                                         *)
(* io_context.run() is called by one thread, so a handler is interrupted   *)
(* by no other handler; it is split into steps only because the pools go   *)
(* on meanwhile, and because a disconnect waits for the pools it destroys. *)
(*                                                                         *)
(* What arrives is abstracted to lines: a chunk may end the line that is   *)
(* still open and start one more, with or without its end of line.  Longer *)
(* chunks are several of these with no other client in between.            *)
(***************************************************************************)
EXTENDS BulkCmdManager, SequencesExt

CONSTANT MaxLines   \* bound: the lines each client may send

ASSUME MaxLinesAssumption == MaxLines \in [Clients -> Nat]

VARIABLES
  conn,     \* conn[c]: none, open (in bulkmgrs), gone
  buffer,   \* buffer[c]: the lines in buffer_; the last may lack its end
  io,       \* what the io thread is in: run, or receive, rest, terminate, erase of io.c
  console,  \* the bulks printed, in order
  files,    \* the bulks written; the file's number is counter_
  sender,   \* history: what c has sent so far, read as the protocol says
  received, \* history: the base commands that have arrived
  formed,   \* history: the bulks, in the order they were flushed
  lastGone  \* history: the client that disconnected last

srvVars == <<conn, buffer, io>>
outVars == <<console, files>>
histVars == <<sender, received, formed, lastGone>>
vars == <<mgrVars, srvVars, outVars, histVars>>

Idle == [pc |-> "run", c |-> None]

Init ==
  /\ MgrInit
  /\ conn = [c \in Clients |-> "none"]
  /\ buffer = [c \in Clients |-> <<>>]
  /\ io = Idle
  /\ console = <<>> /\ files = <<>>
  /\ sender = [c \in Clients |-> [lines |-> 0, depth |-> 0, blocks |-> 0]]
  /\ received = {} /\ formed = <<>> /\ lastGone = None

-----------------------------------------------------------------------------
\* The lines of a client.

Text == {"base", "{", "}"}

\* What the next line means by the protocol: the block it lies in.
Sent(s, text) ==
  [lines |-> s.lines + 1,
   depth |-> IF text = "{" THEN s.depth + 1
             ELSE IF text = "}" /\ s.depth > 0 THEN s.depth - 1 ELSE s.depth,
   blocks |-> IF text = "{" /\ s.depth = 0 THEN s.blocks + 1 ELSE s.blocks]

NewCommand(c) ==
  [from |-> c, no |-> sender[c].lines + 1,
   block |-> IF sender[c].depth > 0 THEN sender[c].blocks ELSE 0]

\* isCmdComplete is false: the last piece in the buffer has no end of line.
LineOpen(c) == buffer[c] # <<>> /\ ~Last(buffer[c]).complete

\* Mutant of Joined: the rest of a line starts a line of its own.
NotJoined(c) == buffer[c]

\* pushToBuffer appends the rest of an open line to its first piece.
Joined(c) ==
  IF LineOpen(c)
    THEN ReplaceAt(buffer[c], Len(buffer[c]), [Last(buffer[c]) EXCEPT !.complete = TRUE])
    ELSE buffer[c]

-----------------------------------------------------------------------------
\* The handlers, on the io thread.

\* do_accept's handler: a RequestHandler is built, connect() pushes a processor.
Connect(c) ==
  /\ io = Idle
  /\ conn[c] = "none"
  /\ conn' = [conn EXCEPT ![c] = "open"]
  /\ UNCHANGED <<mgrVars, buffer, io, outVars, histVars>>

\* do_read's handler calls receive: a chunk that only ends the open line, or
\* that goes on with one more.
ReceiveRest(c) ==
  /\ io = Idle /\ conn[c] = "open"
  /\ LineOpen(c)
  /\ buffer' = [buffer EXCEPT ![c] = Joined(c)]
  /\ io' = [pc |-> "receive", c |-> c]
  /\ UNCHANGED <<mgrVars, conn, outVars, histVars>>

ReceiveLine(c, text, complete) ==
  /\ io = Idle /\ conn[c] = "open"
  /\ sender[c].lines < MaxLines[c]
  /\ buffer' = [buffer EXCEPT ![c] = Append(Joined(c),
                  [text |-> text, cmd |-> NewCommand(c), complete |-> complete])]
  /\ sender' = [sender EXCEPT ![c] = Sent(@, text)]
  /\ received' = IF text = "base" THEN received \cup {NewCommand(c)} ELSE received
  /\ io' = [pc |-> "receive", c |-> c]
  /\ UNCHANGED <<mgrVars, conn, outVars, formed, lastGone>>

\* The bulks the step has notified, for the history.
RecordFormed(c) ==
  formed' = IF coutq'[c] = coutq[c] THEN formed ELSE Append(formed, Last(coutq'[c]))

HasCmd(c) == buffer[c] # <<>> /\ Head(buffer[c]).complete

\* read_next_cmd and add_cmd.
HandleFront(c) ==
  /\ buffer' = [buffer EXCEPT ![c] = Tail(@)]
  /\ AddLine(c, Head(buffer[c]).text, Head(buffer[c]).cmd)
  /\ RecordFormed(c)
  /\ UNCHANGED <<conn, outVars, sender, received, lastGone>>

\* process_all_commands: while (cmdReader.hasCmd()) ...
ProcessLine(c) ==
  /\ io = [pc |-> "receive", c |-> c]
  /\ HasCmd(c)
  /\ HandleFront(c)
  /\ UNCHANGED io

\* Mutant of AllHandled: receive waits for the end of an open line.
BufferIsEmpty(c) == buffer[c] = <<>>

AllHandled(c) == ~HasCmd(c)

\* receive returns, do_read starts the next read.
EndReceive(c) ==
  /\ io = [pc |-> "receive", c |-> c]
  /\ AllHandled(c)
  /\ io' = Idle
  /\ UNCHANGED <<mgrVars, conn, buffer, outVars, histVars>>

\* The read failed or the peer closed: disconnect.
Disconnect(c) ==
  /\ io = Idle /\ conn[c] = "open"
  /\ io' = [pc |-> "rest", c |-> c]
  /\ UNCHANGED <<mgrVars, conn, buffer, outVars, histVars>>

\* if (!buffer.empty()): the line that never ended is a command all the same.
HandleRest(c) ==
  /\ io = [pc |-> "rest", c |-> c]
  /\ io' = [pc |-> "terminate", c |-> c]
  /\ \/ buffer[c] # <<>> /\ HandleFront(c)
     \/ buffer[c] = <<>> /\ UNCHANGED <<mgrVars, conn, buffer, outVars, histVars>>

Open == {c \in Clients : conn[c] = "open"}

\* Mutant of IsLast: the processor is counted as erased already.
IsLastErased(c) == Open = {}

\* bulkmgrs.size() == 1
IsLast(c) == Open = {c}

Terminate(c) ==
  /\ io = [pc |-> "terminate", c |-> c]
  /\ io' = [pc |-> "erase", c |-> c]
  /\ \/ IsLast(c) /\ AddTerminator(c) /\ RecordFormed(c)
     \/ ~IsLast(c) /\ UNCHANGED <<mgrVars, formed>>
  /\ UNCHANGED <<conn, buffer, outVars, sender, received, lastGone>>

\* Mutant of Drained: one of the two pools is not waited for.
DrainedFiles(c) == fileq[c] = <<>>

\* The destructors of the two pools join their threads, which leave only when
\* the queues are empty.  What is more to ~ThreadPool is not here: its notify_all
\* may come between a thread's predicate and its sleep, and then join waits for
\* ever (ThreadPool).  So this is when erase may return, never that it does.
Drained(c) == coutq[c] = <<>> /\ fileq[c] = <<>>

\* bulkmgrs.erase destroys the processor, and with it a bulk still open.
Erase(c) ==
  /\ io = [pc |-> "erase", c |-> c]
  /\ Drained(c)
  /\ conn' = [conn EXCEPT ![c] = "gone"]
  /\ custom' = [custom EXCEPT ![c] = <<>>]
  /\ buffer' = [buffer EXCEPT ![c] = <<>>]
  /\ lastGone' = c
  /\ io' = Idle
  /\ UNCHANGED <<handler, nesting, general, coutq, fileq, outVars,
                 sender, received, formed>>

-----------------------------------------------------------------------------
\* The pools.

\* The one thread of cout_tread_pool_: a bulk is one line, one write.
PrintBulk(c) ==
  /\ coutq[c] # <<>>
  /\ console' = Append(console, Head(coutq[c]))
  /\ coutq' = [coutq EXCEPT ![c] = Tail(@)]
  /\ UNCHANGED <<handler, nesting, custom, general, fileq, files, srvVars, histVars>>

\* Two threads write files: a bulk may overtake the one before it.
WriteFile(c, i) ==
  /\ i <= Len(fileq[c])
  /\ files' = Append(files, fileq[c][i])
  /\ fileq' = [fileq EXCEPT ![c] = RemoveAt(@, i)]
  /\ UNCHANGED <<handler, nesting, custom, general, coutq, console, srvVars, histVars>>

Handling(c) == ProcessLine(c) \/ EndReceive(c) \/ HandleRest(c) \/ Terminate(c)

Handler(c) == Handling(c) \/ Erase(c)

Event(c) ==
  \/ Connect(c) \/ Disconnect(c) \/ ReceiveRest(c)
  \/ \E text \in Text, complete \in BOOLEAN : ReceiveLine(c, text, complete)

Output(c) == PrintBulk(c) \/ \E i \in 1 .. 2 : WriteFile(c, i)

Next == \E c \in Clients : Event(c) \/ Handler(c) \/ Output(c)

Spec == Init /\ [][Next]_vars

\* The io thread goes on with the handler it is in, and the pools' threads
\* with their queues.  No client has to connect, send or leave, and erase need
\* not return: the pools' destructors may hang.
Fairness ==
  /\ \A c \in Clients :
       /\ WF_vars(Handling(c))
       /\ WF_vars(PrintBulk(c))
       /\ WF_vars(\E i \in 1 .. 2 : WriteFile(c, i))

FairSpec == Spec /\ Fairness

-----------------------------------------------------------------------------
\* The commands somewhere on their way, by place; a bulk is in one queue or
\* output, so that formed stands for all of them.
Places ==
  Range(general) \cup (UNION {Range(custom[c]) : c \in Clients})
    \cup (UNION {Range(bulk) : bulk \in Range(formed)})
    \cup {l.cmd : l \in UNION {Range(buffer[c]) : c \in Clients}}

\* Only the commands of a block whose client left before the closing } are
\* dropped: every other command that arrived is in the buffer, in a bulk that
\* is being filled, or in one that was flushed, its last line without an end
\* of line included.
NothingDropped ==
  \A cmd \in received \ Places :
    /\ conn[cmd.from] = "gone" \/ io = [pc |-> "erase", c |-> cmd.from]
    /\ cmd.block = sender[cmd.from].blocks /\ sender[cmd.from].depth > 0

\* The commands of one client, in its blocks and outside, keep their order
\* through the bulks it shares with the others, and none is in two bulks,
\* whoever flushes the shared bulk and when: of two commands of a client in the
\* bulks, flushed or being filled, the earlier one was sent earlier.
ClientOrder ==
  LET bulks == Append(formed, general) IN
    \A i, j \in DOMAIN bulks : \A k \in DOMAIN bulks[i], l \in DOMAIN bulks[j] :
      (i < j \/ (i = j /\ k < l)) /\ bulks[i][k].from = bulks[j][l].from
        => bulks[i][k].no < bulks[j][l].no

\* README.md: commands of different connections mix, but what is between { and
\* } is handled without mixing.  A bulk is a whole outermost block of one client
\* and nothing else, or it has no more than BulkSize commands from outside of
\* all blocks; the shared bulk never stays full.
BlocksAreWhole ==
  /\ Len(general) < BulkSize /\ \A cmd \in Range(general) : cmd.block = 0
  /\ \A bulk \in Range(formed) :
       \/ Len(bulk) <= BulkSize /\ \A cmd \in Range(bulk) : cmd.block = 0
       \/ Head(bulk).block # 0
          /\ Range(bulk) = {cmd \in received : /\ cmd.from = Head(bulk).from
                                               /\ cmd.block = Head(bulk).block}

Queued(q) == UNION {Range(q[c]) : c \in Clients}

\* Every bulk is printed once and written once, by the pools of the connection
\* that flushed it, and both have happened when that connection's processor has
\* been destroyed.
EveryBulkIsOutput ==
  /\ Range(formed) = Range(console) \cup Queued(coutq)
  /\ Range(formed) = Range(files) \cup Queued(fileq)
  /\ IsInjective(console) /\ IsInjective(files)
  /\ \A c \in Clients : conn[c] = "gone" => coutq[c] = <<>> /\ fileq[c] = <<>>

Connected == Open # {} \/ io # Idle

\* When nobody is connected the shared bulk has been flushed, unless the last
\* client left inside a block: its Terminator went to the custom handler.
LastOneFlushes ==
  ~Connected /\ general # <<>> => sender[lastGone].depth > 0

\* Only the join of a pool with nothing left to do can hold the io thread for
\* ever (ThreadPool shows that it can): what arrives, an open line in it and the
\* bulks a disconnect waits for do not stop the server.
InJoin == io.pc = "erase" /\ Drained(io.c)

HandlersReturnOrJoin == []<>(io = Idle) \/ <>[]InJoin

\* README.md wants the commands received right before a client closes its
\* connection not to be lost.  They may stay in the shared bulk with nobody
\* connected.
NothingLeftBehind == ~Connected => general = <<>>
=============================================================================
