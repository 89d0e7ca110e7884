------------------------------ MODULE JoinServer ------------------------------
(***************************************************************************)
(* join_server of OTUSLesson25.  One io thread runs the handlers of the    *)
(* acceptor and of the connections; each connection has a RequestHandler   *)
(* with a parser, a pool, a queue of responses and a mutex mtx_; the two   *)
(* tables are shared by all and guarded by a shared_mutex.                 *)
(*                                                                         *)
(* A command's text is Pieces parts and an end of line: a read delivers    *)
(* any number of these characters, up to MaxRead, so a command may arrive  *)
(* whole, split, or together with others.  A text that is not all parts of *)
(* one command, in order, is answered with an error.                       *)
(***************************************************************************)
EXTENDS Database

LOCAL INSTANCE Bulks

CONSTANTS
  Clients,   \* the clients, each of one connection
  Scripts,   \* the scripts: functions from Clients to sequences of commands
  Pieces,    \* bound: the parts of a command's text
  MaxRead,   \* bound: the characters of one read
  PoolSize,  \* the threads of a connection's pool, 4 in the code
  None

ASSUME JoinServerAssumption ==
  /\ PoolSize \in Nat \ {0} /\ Pieces \in Nat
  /\ \A script \in Scripts : \A h \in Clients : Len(script[h]) \in Nat

VARIABLES
  stream,    \* stream[h]: what h will still send
  conn,      \* conn[h]: none, open (a read is pending), joining, closed
  buffer,    \* buffer[h]: buffer_ of its CommandParser
  posted,    \* posted[h]: how many batches it has posted
  queue,     \* queue[h]: its batches that wait for a thread or for mtx_
  running,   \* running[h]: the batch whose thread holds mtx_, or NoBatch
  op,        \* op[h]: what that thread does with mtx_ of the database shared
  tables,    \* the tables
  responses, \* responses[h]: responses_
  writes,    \* writes[h]: how many async_writes are pending
  failed,    \* failed[h]: a write has failed
  io,        \* what the io thread waits for
  sent,      \* history: the responses written to h
  ended,     \* history: the ends of line read from h
  okRows     \* history: the rows whose INSERT was answered OK, since the last TRUNCATE

connVars == <<stream, conn, buffer, ended>>
batchVars == <<posted, queue, running>>
dbVars == <<op, tables, okRows>>
writeVars == <<responses, writes, failed, sent>>
vars == <<connVars, batchVars, dbVars, writeVars, io>>

-----------------------------------------------------------------------------
\* The command parser.

Newline == [cmd |-> None, part |-> 0]

Spelling(cmd) == [p \in 1 .. Pieces |-> [cmd |-> cmd, part |-> p]]

\* The text of a script, end of lines included: Pieces + 1 characters a command.
TextOf(script) ==
  [i \in 1 .. Len(script) * (Pieces + 1) |->
     LET cmd == script[1 + ((i - 1) \div (Pieces + 1))]
         p == 1 + ((i - 1) % (Pieces + 1))
     IN  IF p > Pieces THEN Newline ELSE Spelling(cmd)[p]]

Unknown == [op |-> "UNKNOWN"]

\* parseCommandFrom: whatever throws becomes an UnknownCommand.
ParseCommandFrom(text) ==
  IF text # <<>> /\ text[1].cmd # None /\ text = Spelling(text[1].cmd) THEN text[1].cmd ELSE Unknown

Ends(chunk) == InOrder({i \in DOMAIN chunk : chunk[i] = Newline}, <)

LinesOf(chunk) ==
  LET ends == Ends(chunk)
  IN  [k \in DOMAIN ends |-> SubSeq(chunk, IF k = 1 THEN 1 ELSE ends[k - 1] + 1, ends[k] - 1)]

RestOf(chunk) ==
  LET ends == Ends(chunk)
  IN  SubSeq(chunk, IF ends = <<>> THEN 1 ELSE ends[Len(ends)] + 1, Len(chunk))

\* The first line completes the buffer and is then parsed a second time on its
\* own; without an end of line the chunk replaces the buffer.
ParseCommands(buf, chunk) ==
  LET lines == LinesOf(chunk)
      joined == IF buf # <<>> /\ lines # <<>> THEN <<ParseCommandFrom(buf \o lines[1])>> ELSE <<>>
  IN  [cmds |-> joined \o [k \in DOMAIN lines |-> ParseCommandFrom(lines[k])],
       buf |-> RestOf(chunk)]

-----------------------------------------------------------------------------

NoOp == [pc |-> "none"]
\* The batches are numbered from 1.
NoBatch == [no |-> 0, at |-> 0, cmds |-> <<>>]
Idle == [pc |-> "run", h |-> None]

Init ==
  /\ \E script \in Scripts : stream = [h \in Clients |-> TextOf(script[h])]
  /\ conn = [h \in Clients |-> "none"]
  /\ buffer = [h \in Clients |-> <<>>] /\ ended = [h \in Clients |-> 0]
  /\ posted = [h \in Clients |-> 0]
  /\ queue = [h \in Clients |-> <<>>]
  /\ running = [h \in Clients |-> NoBatch]
  /\ op = [h \in Clients |-> NoOp]
  /\ tables = EmptyDataBase /\ okRows = EmptyDataBase
  /\ responses = [h \in Clients |-> <<>>]
  /\ writes = [h \in Clients |-> 0]
  /\ failed = [h \in Clients |-> FALSE]
  /\ io = Idle
  /\ sent = [h \in Clients |-> <<>>]

\* do_accept's handler builds the RequestHandler and starts its first read.
Accept(h) ==
  /\ io = Idle /\ conn[h] = "none"
  /\ conn' = [conn EXCEPT ![h] = "open"]
  /\ UNCHANGED <<stream, buffer, ended, batchVars, dbVars, writeVars, io>>

\* do_read's handler: the commands that were read, none perhaps, are posted as
\* one batch, and the next read is started.
Read(h) ==
  /\ io = Idle /\ conn[h] = "open"
  /\ \E n \in 1 .. MaxRead :
       /\ n <= Len(stream[h])
       /\ LET chunk == SubSeq(stream[h], 1, n)
              parsed == ParseCommands(buffer[h], chunk)
          IN
            /\ ended' = [ended EXCEPT ![h] = @ + Len(Ends(chunk))]
            /\ buffer' = [buffer EXCEPT ![h] = parsed.buf]
            /\ queue' = [queue EXCEPT ![h] = Append(@, [no |-> posted[h] + 1, at |-> 1, cmds |-> parsed.cmds])]
       /\ stream' = [stream EXCEPT ![h] = SubSeq(@, n + 1, Len(@))]
  /\ posted' = [posted EXCEPT ![h] = @ + 1]
  /\ UNCHANGED <<conn, running, dbVars, writeVars, io>>

\* Mutant of AfterReadError: the handler returns without joining the pool.
AfterReadErrorNoJoin(h) == [conn |-> "closed", io |-> Idle]

\* After an error the io thread waits for the pool, in join().
AfterReadError(h) == [conn |-> "joining", io |-> [pc |-> "join", h |-> h]]

\* do_read's handler with an error, the end of the stream perhaps.
ReadError(h) ==
  /\ io = Idle /\ conn[h] = "open"
  /\ conn' = [conn EXCEPT ![h] = AfterReadError(h).conn]
  /\ io' = AfterReadError(h).io
  /\ UNCHANGED <<stream, buffer, ended, batchVars, dbVars, writeVars>>

\* Mutant of PoolDone: the pool of an old boost's build, whose threads stay.
NeverDone(h) == FALSE

\* Every batch has returned.
PoolDone(h) == queue[h] = <<>> /\ running[h] = NoBatch

\* join() returns, and the handler of the connection's last read.
Joined(h) ==
  /\ io = [pc |-> "join", h |-> h]
  /\ PoolDone(h)
  /\ conn' = [conn EXCEPT ![h] = "closed"]
  /\ io' = Idle
  /\ UNCHANGED <<stream, buffer, ended, batchVars, dbVars, writeVars>>

-----------------------------------------------------------------------------
\* A batch, on a thread of the pool.

MutexFree(h) == running[h] = NoBatch

\* The threads take batches in order, then wait for mtx_ in any order; a batch
\* without commands leaves it at once.
LockBatch(h) ==
  /\ MutexFree(h)
  /\ \E k \in 1 .. PoolSize :
       /\ k <= Len(queue[h])
       /\ running' = [running EXCEPT ![h] = IF queue[h][k].cmds = <<>> THEN NoBatch ELSE queue[h][k]]
       /\ queue' = [queue EXCEPT ![h] = SubSeq(@, 1, k - 1) \o SubSeq(@, k + 1, Len(@))]
  /\ UNCHANGED <<connVars, posted, dbVars, writeVars, io>>

Command(h) == running[h].cmds[running[h].at]

\* The thread h runs is about to run a command of this kind.
AtCommand(h, kind) ==
  /\ running[h] # NoBatch
  /\ op[h] = NoOp
  /\ Command(h).op = kind

\* Mutant of StartsWrite: looked at after the push_back.
NeverStarts(h) == FALSE

\* write_in_progress is false: the response will be the only one.
StartsWrite(h) == responses[h] = <<>>

NextOf(b) == [b EXCEPT !.at = @ + 1]

\* Mutant of AfterCommand: mtx_ is released after every command.
AfterCommandUnlocked(h, b) ==
  [running |-> NoBatch, queue |-> IF b.at = Len(b.cmds) THEN queue[h] ELSE <<NextOf(b)>> \o queue[h]]

\* The lambda holds mtx_ until its last command.
AfterCommand(h, b) ==
  [running |-> IF b.at = Len(b.cmds) THEN NoBatch ELSE NextOf(b), queue |-> queue[h]]

\* push_back, do_write if no write is pending, and on to the next command.
Answer(h, text) ==
  LET b == running[h] IN
  /\ responses' = [responses EXCEPT ![h] = Append(@, [batch |-> b.no, at |-> b.at, of |-> Len(b.cmds), text |-> text])]
  /\ writes' = [writes EXCEPT ![h] = IF StartsWrite(h) THEN @ + 1 ELSE @]
  /\ running' = [running EXCEPT ![h] = AfterCommand(h, b).running]
  /\ queue' = [queue EXCEPT ![h] = AfterCommand(h, b).queue]
  /\ UNCHANGED <<connVars, posted, failed, sent, io>>

\* DataBase::insert, the search: the row's place is found, or its id is.  A
\* table the database does not have is reported as a duplicate too.
InsertSearch(h) ==
  /\ AtCommand(h, "INSERT")
  /\ LET cmd == Command(h) IN
     IF cmd.table \in TableNames /\ ~HasId(tables[cmd.table], cmd.row.id)
       THEN /\ op' = [op EXCEPT ![h] = [pc |-> "link", seen |-> tables[cmd.table]]]
            /\ UNCHANGED <<connVars, batchVars, tables, okRows, writeVars, io>>
       ELSE Answer(h, <<"ERR">>) /\ UNCHANGED dbVars

\* The node is linked at the place found: rows that were linked meanwhile may
\* be lost, or lie beside it with the same id.
InsertLink(h) ==
  /\ op[h].pc = "link"
  /\ LET t == Command(h).table
         row == Command(h).row
     IN  /\ \E lost \in SUBSET (tables[t] \ op[h].seen) :
              tables' = [tables EXCEPT ![t] = (@ \ lost) \cup {row}]
         /\ okRows' = [okRows EXCEPT ![t] = @ \cup {row}]
  /\ op' = [op EXCEPT ![h] = NoOp]
  /\ Answer(h, <<"OK">>)

\* Mutant of LockFree: truncate takes the mutex shared, as insert does.
LockShared == TRUE

\* Nobody holds the database's mutex, not even shared.
LockFree == \A h \in Clients : op[h] = NoOp

Truncate(h) ==
  /\ AtCommand(h, "TRUNCATE")
  /\ LockFree
  /\ LET t == Command(h).table IN
     IF t \in TableNames
       THEN /\ tables' = [tables EXCEPT ![t] = {}]
            /\ okRows' = [okRows EXCEPT ![t] = {}]
            /\ Answer(h, <<"OK">>)
            /\ UNCHANGED op
       ELSE Answer(h, <<"No such table">>) /\ UNCHANGED dbVars

Joins == {"INTERSECTION", "SYMMETRIC_DIFFERENCE"}

\* intersection and symmetric_difference, mutex shared: the iteration begins
JoinBegin(h) ==
  /\ \E kind \in Joins : AtCommand(h, kind)
  /\ op' = [op EXCEPT ![h] = [pc |-> "join", saw |-> tables]]
  /\ UNCHANGED <<connVars, batchVars, tables, okRows, writeVars, io>>

\* and ends: rows inserted meanwhile are met or not.
JoinEnd(h) ==
  /\ op[h].pc = "join"
  /\ \E met \in [TableNames -> SUBSET UNION {tables[t] \cup op[h].saw[t] : t \in TableNames}] :
       /\ \A t \in TableNames : /\ tables[t] \cap op[h].saw[t] \subseteq met[t]
                                /\ met[t] \subseteq tables[t] \cup op[h].saw[t]
       /\ Answer(h, IF Command(h).op = "INTERSECTION" THEN Intersection(met["A"], met["B"])
                    ELSE SymmetricDifference(met["A"], met["B"]))
  /\ op' = [op EXCEPT ![h] = NoOp]
  /\ UNCHANGED <<tables, okRows>>

RunUnknown(h) == AtCommand(h, "UNKNOWN") /\ Answer(h, <<"ERR">>) /\ UNCHANGED dbVars

-----------------------------------------------------------------------------
\* do_write's handler, on the io thread.

\* The response is out: the handler starts and waits for mtx_ ...
Written(h) ==
  /\ io = Idle /\ writes[h] > 0
  /\ writes' = [writes EXCEPT ![h] = @ - 1]
  /\ sent' = [sent EXCEPT ![h] = Append(@, Head(responses[h]))]
  /\ io' = [pc |-> "written", h |-> h]
  /\ UNCHANGED <<connVars, batchVars, dbVars, responses, failed>>

\* ... pops it, and writes the next one.
PopFront(h) ==
  /\ io = [pc |-> "written", h |-> h]
  /\ MutexFree(h)
  /\ responses' = [responses EXCEPT ![h] = Tail(@)]
  /\ writes' = [writes EXCEPT ![h] = IF Len(responses[h]) > 1 THEN @ + 1 ELSE @]
  /\ io' = Idle
  /\ UNCHANGED <<connVars, batchVars, dbVars, failed, sent>>

\* A write fails: the handler does nothing, the response stays.
WriteError(h) ==
  /\ io = Idle /\ writes[h] > 0
  /\ writes' = [writes EXCEPT ![h] = @ - 1]
  /\ failed' = [failed EXCEPT ![h] = TRUE]
  /\ UNCHANGED <<connVars, batchVars, dbVars, responses, sent, io>>

-----------------------------------------------------------------------------

Batch(h) == LockBatch(h) \/ InsertSearch(h) \/ InsertLink(h) \/ Truncate(h) \/ JoinBegin(h) \/ JoinEnd(h) \/ RunUnknown(h)

Handler(h) == Joined(h) \/ PopFront(h)

Network(h) == Written(h) \/ WriteError(h)

Next == \E h \in Clients : Accept(h) \/ Read(h) \/ ReadError(h) \/ Handler(h) \/ Network(h) \/ Batch(h)

Spec == Init /\ [][Next]_vars

\* The threads of the pools and the io thread go on, and a pending write ends
\* or fails: clients read, or are disconnected by the network.
Fairness == \A h \in Clients : WF_vars(Batch(h)) /\ WF_vars(Handler(h)) /\ WF_vars(Network(h))

FairSpec == Spec /\ Fairness

\* Properties.

\* What h has been answered so far: written, or waiting in responses_.
Answers(h) == sent[h] \o (IF io = [pc |-> "written", h |-> h] THEN Tail(responses[h]) ELSE responses[h])

\* The answers to the commands of one read come together, in the order of the
\* commands and each once, although several threads run a connection's batches
\* and the io thread pops the queue they push into (join_server.cpp:35, 78).
AnswersByBatch ==
  \A h \in Clients :
    LET log == Answers(h) IN
    /\ \A i \in DOMAIN log :
         IF i = 1 \/ log[i].at = 1
           THEN log[i].at = 1 /\ (i > 1 => log[i - 1].at = log[i - 1].of)
           ELSE log[i] = [log[i - 1] EXCEPT !.at = @ + 1, !.text = log[i].text]
    /\ \A i, j \in DOMAIN log : log[i].batch = log[j].batch /\ log[i].at = log[j].at => i = j

\* Never two async_writes of a connection at once, and never none while a
\* response waits, unless a write has failed (join_server.cpp:38-42, 80-83).
OneWriteAtATime ==
  \A h \in Clients :
    writes[h] = IF responses[h] # <<>> /\ ~failed[h] /\ io # [pc |-> "written", h |-> h] THEN 1 ELSE 0

\* A batch holds only `this`: some pending handler still owns the
\* RequestHandler as long as a batch is queued or runs (join_server.cpp:34, 63).
Owned(h) == conn[h] \in {"open", "joining"} \/ writes[h] > 0 \/ io.h = h
HandlerOutlivesBatches == \A h \in Clients : queue[h] # <<>> \/ running[h] # NoBatch => Owned(h)

\* No row is freed while a thread stands in one of the tables with an iterator
\* or a place to insert at (database.cpp:86, 95, 105, 112).
NoRowFreedInUse ==
  [][(\E h \in Clients : op[h] # NoOp) => \A t \in TableNames : okRows[t] \subseteq okRows'[t]]_vars

\* Whatever the order of the io thread, the pools and the network, in the end
\* every posted batch has run, every answer is out unless its connection's
\* write failed, and the io thread is free: no join() and no wait for mtx_
\* lasts for ever.
ServerDrains ==
  <>[](io = Idle /\ \A h \in Clients : /\ queue[h] = <<>> /\ running[h] = NoBatch
                                       /\ responses[h] = <<>> \/ failed[h])

\* README.md: in answer to any command the server sends OK, or ERR with a
\* message: no command is answered twice.
OneAnswerPerCommand == \A h \in Clients : Len(Answers(h)) <= ended[h]

\* README.md: id is a primary key and cannot be duplicated in a table: of two
\* INSERTs of one id, with no TRUNCATE between, one is answered with an error.
KeysAreUnique == \A t \in TableNames : \A r, s \in okRows[t] : r.id = s.id => r = s
=============================================================================
