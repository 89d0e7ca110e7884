--------------------------- MODULE JoinServerProofs ---------------------------
(***************************************************************************)
(* Theorems about the join_server, for every number of clients, every      *)
(* script and every size of the pools: a connection never has two writes   *)
(* under way, its handler lives as long as its batches, no row of a table  *)
(* is freed under a thread that uses the tables, and the answers to what   *)
(* one read delivers come together and in order.                           *)
(***************************************************************************)
EXTENDS JoinServer, SequenceTheorems, FiniteSetTheorems, TLAPS

LOCAL INSTANCE Bulks

\* A function on the clients.
OnClients(f) == f = [h \in Clients |-> f[h]]

\* What the threads of a connection do, and that it is alive meanwhile: only a
\* connection that reads, or whose io thread is in join(), has batches; a
\* thread is in the database only in the course of a batch.
BatchesHaveOwner ==
  /\ OnClients(conn) /\ OnClients(queue) /\ OnClients(running) /\ OnClients(op)
  /\ \A h \in Clients : queue[h] # <<>> \/ running[h] # NoBatch => conn[h] \in {"open", "joining"}
  /\ \A h \in Clients : op[h] # NoOp => running[h] # NoBatch

InWritten(h) == io = [pc |-> "written", h |-> h]

\* OneWriteAtATime; do_write's handler waits for mtx_ with the response it will
\* pop; and a write that has failed leaves its response behind for good.
WritesInv ==
  /\ OnClients(responses) /\ OnClients(writes) /\ OnClients(failed)
  /\ \A h \in Clients :
       /\ \E S : responses[h] \in Seq(S)
       /\ writes[h] = IF responses[h] # <<>> /\ ~failed[h] /\ ~InWritten(h) THEN 1 ELSE 0
       /\ InWritten(h) => responses[h] # <<>> /\ ~failed[h]
       /\ failed[h] => responses[h] # <<>>

\* What the io thread waits for is told apart by the records.
LEMMA WaitsDiffer ==
  ASSUME NEW g, NEW h
  PROVE  /\ Idle # [pc |-> "written", h |-> h]
         /\ [pc |-> "join", h |-> g] # [pc |-> "written", h |-> h]
         /\ [pc |-> "written", h |-> g] = [pc |-> "written", h |-> h] => g = h
BY DEF Idle

\* Appending to a sequence and taking its first element away.
LEMMA Queueing ==
  ASSUME NEW S, NEW s \in Seq(S), NEW e
  PROVE  /\ \E T : Append(s, e) \in Seq(T)
         /\ Append(s, e) # <<>>
         /\ s # <<>> => Tail(s) \in Seq(S) /\ (Tail(s) # <<>> <=> Len(s) > 1)
<1>1. s \in Seq(S \cup {e}) /\ e \in S \cup {e}
  OBVIOUS
<1>2. Append(s, e) \in Seq(S \cup {e}) /\ Append(s, e) # <<>>
  BY <1>1
<1>3. ASSUME s # <<>> PROVE Tail(s) \in Seq(S) /\ (Tail(s) # <<>> <=> Len(s) > 1)
  <2>1. Tail(s) \in Seq(S) /\ Len(Tail(s)) = Len(s) - 1 /\ Len(s) \in Nat /\ Len(Tail(s)) \in Nat
    BY <1>3, HeadTailProperties, LenProperties
  <2>2. Tail(s) = <<>> <=> Len(Tail(s)) = 0
    BY <2>1, EmptySeq
  <2>3. Len(Tail(s)) # 0 <=> Len(s) > 1
    BY <2>1
  <2> QED
    BY <2>1, <2>2, <2>3
<1> QED
  BY <1>2, <1>3

-----------------------------------------------------------------------------
\* The batches.

\* An answer, the last of its batch or not, takes nothing from another client.
LEMMA AnswerKeepsBatches ==
  ASSUME NEW g \in Clients, NEW text, BatchesHaveOwner, Answer(g, text), running[g] # NoBatch,
         OnClients(op'),
         \A h \in Clients : op'[h] # NoOp => op[h] # NoOp /\ h # g
  PROVE  BatchesHaveOwner'
<1>1. queue' = [queue EXCEPT ![g] = queue[g]] /\ running' = [running EXCEPT ![g] = AfterCommand(g, running[g]).running]
  BY DEF Answer, AfterCommand
<1>2. conn' = conn
  BY DEF Answer, connVars
<1>3. queue' = queue
  BY <1>1 DEF BatchesHaveOwner, OnClients
<1>4. \A h \in Clients : h # g => running'[h] = running[h]
  BY <1>1 DEF BatchesHaveOwner, OnClients
<1>5. OnClients(running')
  BY <1>1 DEF BatchesHaveOwner, OnClients
<1> QED
  BY <1>2, <1>3, <1>4, <1>5 DEF BatchesHaveOwner

LEMMA BatchesInit == Init => BatchesHaveOwner
BY DEF Init, BatchesHaveOwner, OnClients, NoOp

LEMMA BatchesNext == BatchesHaveOwner /\ [Next]_vars => BatchesHaveOwner'
<1> SUFFICES ASSUME BatchesHaveOwner, [Next]_vars PROVE BatchesHaveOwner'
  OBVIOUS
<1> USE DEF OnClients
<1>1. CASE UNCHANGED vars
  BY <1>1 DEF BatchesHaveOwner, vars, connVars, batchVars, dbVars
<1>2. ASSUME NEW g \in Clients, Accept(g) PROVE BatchesHaveOwner'
  BY <1>2 DEF Accept, BatchesHaveOwner, batchVars, dbVars
<1>3. ASSUME NEW g \in Clients, Read(g) PROVE BatchesHaveOwner'
  <2>1. conn' = conn /\ running' = running /\ op' = op /\ conn[g] = "open"
    BY <1>3 DEF Read, dbVars
  <2>2. PICK b : queue' = [queue EXCEPT ![g] = Append(@, b)]
    BY <1>3 DEF Read
  <2> QED
    BY <2>1, <2>2 DEF BatchesHaveOwner
<1>4. ASSUME NEW g \in Clients, ReadError(g) PROVE BatchesHaveOwner'
  BY <1>4 DEF ReadError, AfterReadError, BatchesHaveOwner, batchVars, dbVars
<1>5. ASSUME NEW g \in Clients, Handler(g) PROVE BatchesHaveOwner'
  <2>1. CASE Joined(g)
    BY <2>1 DEF Joined, PoolDone, BatchesHaveOwner, batchVars, dbVars
  <2>2. CASE PopFront(g)
    BY <2>2 DEF PopFront, BatchesHaveOwner, connVars, batchVars, dbVars
  <2> QED
    BY <1>5, <2>1, <2>2 DEF Handler
<1>6. ASSUME NEW g \in Clients, Network(g) PROVE BatchesHaveOwner'
  BY <1>6 DEF Network, Written, WriteError, BatchesHaveOwner, connVars, batchVars, dbVars
<1>7. ASSUME NEW g \in Clients, Batch(g) PROVE BatchesHaveOwner'
  <2>1. CASE LockBatch(g)
    <3>1. conn' = conn /\ op' = op /\ running[g] = NoBatch
      BY <2>1 DEF LockBatch, MutexFree, connVars, dbVars
    <3>2. PICK k \in 1 .. PoolSize :
            /\ k <= Len(queue[g])
            /\ running' = [running EXCEPT ![g] = IF queue[g][k].cmds = <<>> THEN NoBatch ELSE queue[g][k]]
            /\ queue' = [queue EXCEPT ![g] = SubSeq(@, 1, k - 1) \o SubSeq(@, k + 1, Len(@))]
      BY <2>1 DEF LockBatch
    <3>3. queue[g] # <<>>
      BY <3>2
    <3> DEFINE b == IF queue[g][k].cmds = <<>> THEN NoBatch ELSE queue[g][k]
               q == SubSeq(queue[g], 1, k - 1) \o SubSeq(queue[g], k + 1, Len(queue[g]))
    <3>4. running' = [running EXCEPT ![g] = b] /\ queue' = [queue EXCEPT ![g] = q]
      BY <3>2
    <3> HIDE DEF b, q
    <3> QED
      BY <3>1, <3>3, <3>4 DEF BatchesHaveOwner
  <2>2. CASE InsertSearch(g)
    <3>1. running[g] # NoBatch /\ op[g] = NoOp
      BY <2>2 DEF InsertSearch, AtCommand
    <3>2. CASE UNCHANGED dbVars /\ Answer(g, <<"ERR">>)
      BY <3>1, <3>2, AnswerKeepsBatches DEF BatchesHaveOwner, dbVars
    <3>3. CASE /\ UNCHANGED <<connVars, batchVars>>
               /\ op' = [op EXCEPT ![g] = [pc |-> "link", seen |-> tables[Command(g).table]]]
      BY <3>1, <3>3 DEF BatchesHaveOwner, connVars, batchVars
    <3> QED
      BY <2>2, <3>2, <3>3 DEF InsertSearch
  <2>3. CASE InsertLink(g)
    <3>1. op' = [op EXCEPT ![g] = NoOp] /\ op[g] # NoOp /\ Answer(g, <<"OK">>)
      BY <2>3 DEF InsertLink, NoOp
    <3> QED
      BY <3>1, AnswerKeepsBatches DEF BatchesHaveOwner
  <2>4. CASE Truncate(g)
    <3>1. running[g] # NoBatch /\ op[g] = NoOp /\ op' = op /\ \E text : Answer(g, text)
      BY <2>4 DEF Truncate, AtCommand, dbVars
    <3> QED
      BY <3>1, AnswerKeepsBatches DEF BatchesHaveOwner
  <2>5. CASE JoinBegin(g)
    <3>1. running[g] # NoBatch
      BY <2>5 DEF JoinBegin, AtCommand
    <3> QED
      BY <2>5, <3>1 DEF JoinBegin, BatchesHaveOwner, connVars, batchVars
  <2>6. CASE JoinEnd(g)
    <3>1. op' = [op EXCEPT ![g] = NoOp] /\ op[g] # NoOp /\ \E text : Answer(g, text)
      BY <2>6 DEF JoinEnd, NoOp
    <3> QED
      BY <3>1, AnswerKeepsBatches DEF BatchesHaveOwner
  <2>7. CASE RunUnknown(g)
    <3>1. running[g] # NoBatch /\ op[g] = NoOp /\ op' = op /\ Answer(g, <<"ERR">>)
      BY <2>7 DEF RunUnknown, AtCommand, dbVars
    <3> QED
      BY <3>1, AnswerKeepsBatches DEF BatchesHaveOwner
  <2> QED
    BY <1>7, <2>1, <2>2, <2>3, <2>4, <2>5, <2>6, <2>7 DEF Batch
<1> QED
  BY <1>1, <1>2, <1>3, <1>4, <1>5, <1>6, <1>7 DEF Next

\* A batch is run, or waits for a thread, only as long as a pending handler of
\* its connection owns the RequestHandler the batch refers to by `this`
\* (join_server.cpp:34, 63).
THEOREM HandlerOutlives == Spec => []HandlerOutlivesBatches
<1>1. BatchesHaveOwner => HandlerOutlivesBatches
  BY DEF BatchesHaveOwner, HandlerOutlivesBatches, Owned
<1> QED
  BY <1>1, BatchesInit, BatchesNext, PTL DEF Spec

-----------------------------------------------------------------------------
\* The writes.

LEMMA WritesInit == Init => WritesInv
<1> SUFFICES ASSUME Init PROVE WritesInv
  OBVIOUS
<1>1. <<>> \in Seq({})
  OBVIOUS
<1>2. \A h \in Clients : ~InWritten(h)
  BY WaitsDiffer DEF Init, InWritten
<1> QED
  BY <1>1, <1>2 DEF Init, WritesInv, OnClients

\* An answer starts a write exactly if it is the only one: then the handler of
\* a write is not waiting for mtx_, and no write has failed with its response
\* left behind.
LEMMA AnswerKeepsWrites ==
  ASSUME NEW g \in Clients, NEW text, WritesInv, Answer(g, text)
  PROVE  WritesInv'
<1>1. io' = io /\ failed' = failed
  BY DEF Answer
<1>2. PICK e : responses' = [responses EXCEPT ![g] = Append(@, e)]
  BY DEF Answer
<1>3. writes' = [writes EXCEPT ![g] = IF responses[g] = <<>> THEN @ + 1 ELSE @]
  BY DEF Answer, StartsWrite
<1>4. OnClients(responses') /\ OnClients(writes') /\ OnClients(failed')
  BY <1>1, <1>2, <1>3 DEF WritesInv, OnClients
<1>5. responses'[g] = Append(responses[g], e) /\ writes'[g] = IF responses[g] = <<>> THEN writes[g] + 1 ELSE writes[g]
  BY <1>2, <1>3 DEF WritesInv, OnClients
<1>6. PICK S : responses[g] \in Seq(S)
  BY DEF WritesInv
<1>7. (\E T : responses'[g] \in Seq(T)) /\ responses'[g] # <<>>
  <2>1. (\E T : Append(responses[g], e) \in Seq(T)) /\ Append(responses[g], e) # <<>>
    BY <1>6, Queueing
  <2> QED
    BY <1>5, <2>1
<1>8. \A h \in Clients : h # g => responses'[h] = responses[h] /\ writes'[h] = writes[h]
  BY <1>2, <1>3 DEF WritesInv, OnClients
<1>9. \A h \in Clients : InWritten(h)' <=> InWritten(h)
  BY <1>1 DEF InWritten
<1>10. /\ writes'[g] = IF responses'[g] # <<>> /\ ~failed'[g] /\ ~InWritten(g)' THEN 1 ELSE 0
       /\ InWritten(g)' => responses'[g] # <<>> /\ ~failed'[g]
       /\ failed'[g] => responses'[g] # <<>>
  BY <1>1, <1>5, <1>7, <1>9 DEF WritesInv
<1> QED
  BY <1>1, <1>4, <1>7, <1>8, <1>9, <1>10 DEF WritesInv

LEMMA WritesNext == WritesInv /\ [Next]_vars => WritesInv'
<1> SUFFICES ASSUME WritesInv, [Next]_vars PROVE WritesInv'
  OBVIOUS
<1>1. ASSUME UNCHANGED <<responses, writes, failed, io>> PROVE WritesInv'
  BY <1>1 DEF WritesInv, OnClients, InWritten
<1>2. CASE UNCHANGED vars
  BY <1>1, <1>2 DEF vars, writeVars
\* The io thread waits for something else: still for no write's mtx_.
<1>3. ASSUME UNCHANGED <<responses, writes, failed>>,
             \A h \in Clients : ~InWritten(h) /\ ~InWritten(h)'
      PROVE  WritesInv'
  BY <1>3 DEF WritesInv, OnClients
<1>4. ASSUME NEW g \in Clients, Accept(g) \/ Read(g) PROVE WritesInv'
  BY <1>1, <1>4 DEF Accept, Read, writeVars
<1>5. ASSUME NEW g \in Clients, ReadError(g) PROVE WritesInv'
  <2>1. UNCHANGED <<responses, writes, failed>> /\ io = Idle /\ io' = [pc |-> "join", h |-> g]
    BY <1>5 DEF ReadError, AfterReadError, writeVars
  <2> QED
    BY <2>1, <1>3, WaitsDiffer DEF InWritten
<1>6. ASSUME NEW g \in Clients, Joined(g) PROVE WritesInv'
  <2>1. UNCHANGED <<responses, writes, failed>> /\ io = [pc |-> "join", h |-> g] /\ io' = Idle
    BY <1>6 DEF Joined, writeVars
  <2> QED
    BY <2>1, <1>3, WaitsDiffer DEF InWritten
<1>7. ASSUME NEW g \in Clients, Written(g) PROVE WritesInv'
  <2>1. /\ UNCHANGED <<responses, failed>> /\ io = Idle /\ io' = [pc |-> "written", h |-> g]
        /\ writes[g] > 0 /\ writes' = [writes EXCEPT ![g] = @ - 1]
    BY <1>7 DEF Written
  <2>2. \A h \in Clients : ~InWritten(h) /\ (InWritten(h)' <=> h = g)
    BY <2>1, WaitsDiffer DEF InWritten
  <2>3. writes[g] = 1 /\ writes[g] - 1 = 0 /\ responses[g] # <<>> /\ ~failed[g]
    BY <2>1 DEF WritesInv
  <2>4. writes'[g] = 0 /\ (\A h \in Clients : h # g => writes'[h] = writes[h]) /\ OnClients(writes')
    BY <2>1, <2>3 DEF WritesInv, OnClients
  <2> QED
    BY <2>1, <2>2, <2>3, <2>4 DEF WritesInv
<1>8. ASSUME NEW g \in Clients, PopFront(g) PROVE WritesInv'
  <2>1. /\ failed' = failed /\ InWritten(g) /\ io' = Idle
        /\ responses' = [responses EXCEPT ![g] = Tail(@)]
        /\ writes' = [writes EXCEPT ![g] = IF Len(responses[g]) > 1 THEN @ + 1 ELSE @]
    BY <1>8 DEF PopFront, InWritten
  <2>2. \A h \in Clients : ~InWritten(h)' /\ (InWritten(h) => h = g)
    BY <2>1, WaitsDiffer DEF InWritten
  <2>3. writes[g] = 0 /\ writes[g] + 1 = 1 /\ responses[g] # <<>> /\ ~failed[g]
    BY <2>1 DEF WritesInv
  <2>4. PICK S : responses[g] \in Seq(S)
    BY DEF WritesInv
  <2>5. Tail(responses[g]) \in Seq(S) /\ (Tail(responses[g]) # <<>> <=> Len(responses[g]) > 1)
    BY <2>3, <2>4, Queueing
  <2>6. /\ responses'[g] = Tail(responses[g]) /\ writes'[g] = IF Len(responses[g]) > 1 THEN 1 ELSE 0
        /\ \A h \in Clients : h # g => responses'[h] = responses[h] /\ writes'[h] = writes[h]
        /\ OnClients(responses') /\ OnClients(writes') /\ OnClients(failed')
    BY <2>1, <2>3 DEF WritesInv, OnClients
  <2>7. /\ \E T : responses'[g] \in Seq(T)
        /\ writes'[g] = IF responses'[g] # <<>> /\ ~failed'[g] THEN 1 ELSE 0
        /\ ~failed'[g]
    BY <2>1, <2>3, <2>5, <2>6
  <2> QED
    BY <2>1, <2>2, <2>6, <2>7 DEF WritesInv
<1>9. ASSUME NEW g \in Clients, WriteError(g) PROVE WritesInv'
  <2>1. /\ UNCHANGED <<responses, io>> /\ failed' = [failed EXCEPT ![g] = TRUE]
        /\ writes[g] > 0 /\ writes' = [writes EXCEPT ![g] = @ - 1] /\ io = Idle
    BY <1>9 DEF WriteError
  <2>2. \A h \in Clients : ~InWritten(h) /\ ~InWritten(h)'
    BY <2>1, WaitsDiffer DEF InWritten
  <2>3. writes[g] = 1 /\ writes[g] - 1 = 0 /\ responses[g] # <<>>
    BY <2>1 DEF WritesInv
  <2>4. /\ writes'[g] = 0 /\ failed'[g]
        /\ \A h \in Clients : h # g => writes'[h] = writes[h] /\ failed'[h] = failed[h]
        /\ OnClients(writes') /\ OnClients(failed')
    BY <2>1, <2>3 DEF WritesInv, OnClients
  <2> QED
    BY <2>1, <2>2, <2>3, <2>4 DEF WritesInv
<1>10. ASSUME NEW g \in Clients, Batch(g) PROVE WritesInv'
  <2>1. (\E text : Answer(g, text)) \/ UNCHANGED <<responses, writes, failed, io>>
    BY <1>10 DEF Batch, LockBatch, InsertSearch, InsertLink, Truncate, JoinBegin, JoinEnd, RunUnknown, writeVars
  <2> QED
    BY <2>1, <1>1, AnswerKeepsWrites
<1> QED
  BY <1>2, <1>4, <1>5, <1>6, <1>7, <1>8, <1>9, <1>10 DEF Next, Handler, Network

\* Of a connection's threads and the io thread, which both start writes, one
\* starts the next write, exactly when there is something to write and the
\* write before has ended (join_server.cpp:38-42, 78-85).
THEOREM OneWrite == Spec => []OneWriteAtATime
<1>1. WritesInv => OneWriteAtATime
  BY DEF WritesInv, OneWriteAtATime, InWritten
<1> QED
  BY <1>1, WritesInit, WritesNext, PTL DEF Spec

-----------------------------------------------------------------------------
\* The tables.

RowsKept == okRows = [t \in TableNames |-> okRows[t]]

LEMMA RowsKeptInit == Init => RowsKept
BY DEF Init, RowsKept, EmptyDataBase

\* What a step does to the rows answered with OK.
LEMMA OkRowsStep ==
  ASSUME [Next]_vars
  PROVE  \/ okRows' = okRows
         \/ \E t, rows : okRows' = [okRows EXCEPT ![t] = @ \cup rows]
         \/ LockFree /\ \E t : okRows' = [okRows EXCEPT ![t] = {}]
<1>1. CASE UNCHANGED vars
  BY <1>1 DEF vars, dbVars
<1>2. ASSUME NEW g \in Clients, Accept(g) \/ Read(g) \/ ReadError(g) \/ Handler(g) \/ Network(g)
      PROVE  okRows' = okRows
  BY <1>2 DEF Accept, Read, ReadError, Handler, Joined, PopFront, Network, Written, WriteError, dbVars
<1>3. ASSUME NEW g \in Clients, Batch(g), ~InsertLink(g), ~Truncate(g) PROVE okRows' = okRows
  BY <1>3 DEF Batch, LockBatch, InsertSearch, JoinBegin, JoinEnd, RunUnknown, dbVars
<1>4. ASSUME NEW g \in Clients, InsertLink(g)
      PROVE  \E t, rows : okRows' = [okRows EXCEPT ![t] = @ \cup rows]
  BY <1>4 DEF InsertLink
<1>5. ASSUME NEW g \in Clients, Truncate(g)
      PROVE  okRows' = okRows \/ (LockFree /\ \E t : okRows' = [okRows EXCEPT ![t] = {}])
  BY <1>5 DEF Truncate, dbVars
<1> QED
  BY <1>1, <1>2, <1>3, <1>4, <1>5 DEF Next, Batch

LEMMA RowsKeptNext == RowsKept /\ [Next]_vars => RowsKept'
BY OkRowsStep DEF RowsKept

\* Rows go only while no thread is in the database, with whatever lock, so no
\* iterator and no place to insert at is left hanging (database.cpp:86, 95).
THEOREM NoRowFreed == Spec => NoRowFreedInUse
<1>1. ASSUME RowsKept, [Next]_vars, \E h \in Clients : op[h] # NoOp
      PROVE  \A t \in TableNames : okRows[t] \subseteq okRows'[t]
  <2>1. ~LockFree
    BY <1>1 DEF LockFree
  <2> QED
    BY <1>1, <2>1, OkRowsStep DEF RowsKept
<1>2. RowsKept /\ [Next]_vars
        => [(\E h \in Clients : op[h] # NoOp) => \A t \in TableNames : okRows[t] \subseteq okRows'[t]]_vars
  BY <1>1
<1> QED
  BY <1>2, RowsKeptInit, RowsKeptNext, PTL DEF Spec, NoRowFreedInUse

-----------------------------------------------------------------------------
\* The answers of a connection.

IsSeq(s) == \E S : s \in Seq(S)

IsBatch(b) ==
  /\ b = [no |-> b.no, at |-> b.at, cmds |-> b.cmds]
  /\ b.no \in Nat \ {0} /\ b.at \in Nat \ {0}
  /\ Len(b.cmds) \in Nat /\ (b.cmds # <<>> => Len(b.cmds) > 0)

IsAnswer(a) ==
  /\ a = [batch |-> a.batch, at |-> a.at, of |-> a.of, text |-> a.text]
  /\ a.batch \in Nat /\ a.at \in Nat

\* The last answer is the last of its batch.
Ended(log) == log # <<>> => log[Len(log)].at = log[Len(log)].of

\* An answer is the next of its batch, or the first one after the end of another.
Together(log) ==
  \A i \in DOMAIN log :
    IF i = 1 \/ log[i].at = 1
      THEN log[i].at = 1 /\ (i > 1 => log[i - 1].at = log[i - 1].of)
      ELSE log[i] = [log[i - 1] EXCEPT !.at = @ + 1, !.text = log[i].text]

Once(log) ==
  \A i, j \in DOMAIN log : log[i].batch = log[j].batch /\ log[i].at = log[j].at => i = j

\* The batches that were posted have numbers up to n: those of the queue q are
\* all different and have no answer yet.
QueueOk(log, q, n) ==
  /\ IsSeq(q) /\ n \in Nat
  /\ \A i \in DOMAIN q : IsBatch(q[i]) /\ q[i].at = 1 /\ q[i].no <= n
  /\ \A i, j \in DOMAIN q : q[i].no = q[j].no => i = j
  /\ \A i \in DOMAIN log : \A j \in DOMAIN q : log[i].batch # q[j].no

LogOk(log, n) ==
  /\ IsSeq(log) /\ Together(log) /\ Once(log)
  /\ \A i \in DOMAIN log : IsAnswer(log[i]) /\ log[i].batch <= n

\* The batch that runs is not in the queue, and the answers to its commands
\* before the next one are the last that were given.
RunOk(log, q, r, n) ==
  /\ IsBatch(r) /\ r.no <= n /\ r.at <= Len(r.cmds)
  /\ \A j \in DOMAIN q : q[j].no # r.no
  /\ \A i \in DOMAIN log : log[i].batch = r.no => log[i].at < r.at
  /\ IF r.at = 1 THEN Ended(log)
     ELSE log # <<>> /\ log[Len(log)] = [batch |-> r.no, at |-> r.at - 1, of |-> Len(r.cmds),
                                         text |-> log[Len(log)].text]

BatchesOk(log, q, r, n) ==
  /\ QueueOk(log, q, n) /\ LogOk(log, n)
  /\ r = NoBatch => Ended(log)
  /\ r # NoBatch => RunOk(log, q, r, n)

AnswersInv ==
  /\ OnClients(sent) /\ OnClients(posted) /\ OnClients(stream)
  /\ \A h \in Clients : /\ IsSeq(sent[h]) /\ IsSeq(stream[h])
                        /\ BatchesOk(Answers(h), queue[h], running[h], posted[h])

LEMMA Grown ==
  ASSUME NEW s, IsSeq(s), NEW e
  PROVE  /\ IsSeq(Append(s, e)) /\ Len(s) \in Nat /\ DOMAIN s = 1 .. Len(s)
         /\ Append(s, e) # <<>> /\ Len(Append(s, e)) = Len(s) + 1
         /\ DOMAIN Append(s, e) = 1 .. Len(s) + 1
         /\ Append(s, e)[Len(s) + 1] = e
         /\ \A i \in DOMAIN s : Append(s, e)[i] = s[i] /\ i < Len(s) + 1
         /\ \A i \in DOMAIN Append(s, e) : i \in DOMAIN s \/ i = Len(s) + 1
         /\ s = <<>> <=> Len(s) = 0
<1>1. PICK S : s \in Seq(S)
  BY DEF IsSeq
<1>2. s \in Seq(S \cup {e}) /\ e \in S \cup {e}
  BY <1>1
<1> DEFINE a == Append(s, e)
<1>3. /\ a \in Seq(S \cup {e}) /\ a # <<>> /\ Len(a) = Len(s) + 1 /\ a[Len(s) + 1] = e
      /\ \A i \in 1 .. Len(s) : a[i] = s[i]
  BY <1>2, AppendProperties
<1>4. Len(s) \in Nat /\ DOMAIN s = 1 .. Len(s) /\ (s = <<>> <=> Len(s) = 0)
  BY <1>1, LenProperties, EmptySeq
<1> HIDE DEF a
<1>5. DOMAIN a = 1 .. Len(s) + 1
  BY <1>3, <1>4, LenProperties
<1>6. \A i \in 1 .. Len(s) : i < Len(s) + 1
  BY <1>4
<1>7. \A i \in 1 .. Len(s) + 1 : i \in 1 .. Len(s) \/ i = Len(s) + 1
  BY <1>4
<1> QED  BY <1>3, <1>4, <1>5, <1>6, <1>7 DEF a, IsSeq

\* Taking the k-th element out of a queue.
LEMMA Removed ==
  ASSUME NEW s, IsSeq(s), NEW k \in 1 .. Len(s)
  PROVE  LET t == SubSeq(s, 1, k - 1) \o SubSeq(s, k + 1, Len(s)) IN
         /\ IsSeq(t)
         /\ \A i \in DOMAIN t : /\ (IF i < k THEN i ELSE i + 1) \in DOMAIN s \ {k}
                                /\ t[i] = s[IF i < k THEN i ELSE i + 1]
         /\ \A i, j \in DOMAIN t : (IF i < k THEN i ELSE i + 1) = (IF j < k THEN j ELSE j + 1) => i = j
<1>1. PICK S : s \in Seq(S)
  BY DEF IsSeq
<1> DEFINE n == Len(s)
           u == SubSeq(s, 1, k - 1)
           v == SubSeq(s, k + 1, n)
           t == u \o v
<1>2. n \in Nat /\ DOMAIN s = 1 .. n /\ k \in 1 .. n
  BY <1>1, LenProperties
<1> HIDE DEF n
<1>3. /\ u \in Seq(S) /\ Len(u) = k - 1 /\ \A i \in 1 .. k - 1 : u[i] = s[i]
  <2>1. 1 \in 1 .. Len(s) + 1 /\ k - 1 \in 1 - 1 .. Len(s) /\ k - 1 - 1 + 1 = k - 1
    BY <1>2 DEF n
  <2>2. \A i \in 1 .. k - 1 : 1 + i - 1 = i
    BY <1>2
  <2> QED  BY <1>1, <1>2, <2>1, <2>2, SubSeqProperties
<1>4. /\ v \in Seq(S) /\ Len(v) = n - k /\ \A i \in 1 .. n - k : v[i] = s[k + i]
  BY <1>1, <1>2, SubSeqProperties DEF n
<1> HIDE DEF u, v
<1>5. /\ t \in Seq(S) /\ Len(t) = n - 1
      /\ \A i \in 1 .. n - 1 : t[i] = IF i <= k - 1 THEN u[i] ELSE v[i - (k - 1)]
  <2>1. k - 1 + (n - k) = n - 1
    BY <1>2
  <2> QED  BY <1>3, <1>4, <2>1, ConcatProperties
<1> HIDE DEF t
<1>6. DOMAIN t = 1 .. n - 1
  BY <1>5, LenProperties
<1>7. ASSUME NEW i \in 1 .. n - 1
      PROVE  /\ (IF i < k THEN i ELSE i + 1) \in 1 .. n
             /\ (IF i < k THEN i ELSE i + 1) # k
             /\ t[i] = s[IF i < k THEN i ELSE i + 1]
  <2>1. CASE i < k
    <3>1. i <= k - 1 /\ i \in 1 .. k - 1 /\ i \in 1 .. n /\ i # k
      BY <1>2, <2>1
    <3> QED  BY <1>3, <1>5, <2>1, <3>1
  <2>2. CASE ~(i < k)
    <3>1. /\ ~(i <= k - 1) /\ i - (k - 1) \in 1 .. n - k /\ k + (i - (k - 1)) = i + 1
          /\ i + 1 \in 1 .. n /\ i + 1 # k
      BY <1>2, <2>2
    <3> QED  BY <1>4, <1>5, <2>2, <3>1
  <2> QED  BY <2>1, <2>2
<1>8. \A i, j \in 1 .. n - 1 : (IF i < k THEN i ELSE i + 1) = (IF j < k THEN j ELSE j + 1) => i = j
  BY <1>2
<1> QED  BY <1>2, <1>5, <1>6, <1>7, <1>8 DEF t, u, v, n, IsSeq

\* do_read's handler posts a batch under the next number.
LEMMA Posted ==
  ASSUME NEW log, NEW q, NEW r, NEW n, BatchesOk(log, q, r, n),
         NEW b, IsBatch(b), b.at = 1, b.no = n + 1
  PROVE  BatchesOk(log, Append(q, b), r, n + 1)
<1> DEFINE a == Append(q, b)
           k == Len(q) + 1
<1>1. QueueOk(log, q, n) /\ LogOk(log, n)
  BY DEF BatchesOk
<1>2. /\ IsSeq(a) /\ a[k] = b /\ \A i \in DOMAIN q : a[i] = q[i]
      /\ \A i \in DOMAIN a : i \in DOMAIN q \/ i = k
  BY <1>1, Grown DEF QueueOk
<1> HIDE DEF a, k
<1>3. n \in Nat /\ n + 1 \in Nat /\ \A m \in Nat : m <= n => m <= n + 1 /\ m # n + 1
  BY <1>1 DEF QueueOk
<1>4. \A i \in DOMAIN q : q[i].no \in Nat /\ q[i].no <= n + 1 /\ q[i].no # n + 1
  BY <1>1, <1>3 DEF QueueOk, IsBatch
<1>5. \A i \in DOMAIN log : log[i].batch <= n + 1 /\ log[i].batch # n + 1
  BY <1>1, <1>3 DEF LogOk, IsAnswer
<1>6. n + 1 <= n + 1
  BY <1>3
<1>7. QueueOk(log, a, n + 1)
  <2>1. \A i \in DOMAIN a : IsBatch(a[i]) /\ a[i].at = 1 /\ a[i].no <= n + 1
    BY <1>1, <1>2, <1>4, <1>6 DEF QueueOk
  <2>2. \A i, j \in DOMAIN a : a[i].no = a[j].no => i = j
    BY <1>1, <1>2, <1>4 DEF QueueOk
  <2>3. \A i \in DOMAIN log : \A j \in DOMAIN a : log[i].batch # a[j].no
    BY <1>1, <1>2, <1>5 DEF QueueOk
  <2> QED  BY <1>2, <1>3, <2>1, <2>2, <2>3 DEF QueueOk
<1>8. LogOk(log, n + 1)
  BY <1>1, <1>5 DEF LogOk
<1>9. ASSUME RunOk(log, q, r, n) PROVE RunOk(log, a, r, n + 1)
  <2>1. r.no <= n + 1 /\ r.no # n + 1
    BY <1>3, <1>9 DEF RunOk, IsBatch
  <2>2. \A j \in DOMAIN a : a[j].no # r.no
    BY <1>2, <1>9, <2>1 DEF RunOk
  <2> QED  BY <1>9, <2>1, <2>2 DEF RunOk
<1> QED  BY <1>7, <1>8, <1>9 DEF BatchesOk, a

\* A thread of the pool takes a batch and locks mtx_.
LEMMA Locked ==
  ASSUME NEW log, NEW q, NEW n, BatchesOk(log, q, NoBatch, n), NEW k \in 1 .. Len(q)
  PROVE  BatchesOk(log, SubSeq(q, 1, k - 1) \o SubSeq(q, k + 1, Len(q)),
                   IF q[k].cmds = <<>> THEN NoBatch ELSE q[k], n)
<1> DEFINE t == SubSeq(q, 1, k - 1) \o SubSeq(q, k + 1, Len(q))
           old(i) == IF i < k THEN i ELSE i + 1
<1>1. QueueOk(log, q, n) /\ LogOk(log, n) /\ Ended(log)
  BY DEF BatchesOk
<1>2. /\ IsSeq(t) /\ \A i \in DOMAIN t : old(i) \in DOMAIN q \ {k} /\ t[i] = q[old(i)]
      /\ \A i, j \in DOMAIN t : old(i) = old(j) => i = j
  BY <1>1, Removed DEF QueueOk
<1>3. k \in DOMAIN q
  BY <1>1, Grown DEF QueueOk
<1> HIDE DEF t, old
<1>4. QueueOk(log, t, n)
  <2>1. \A i \in DOMAIN t : IsBatch(t[i]) /\ t[i].at = 1 /\ t[i].no <= n
    BY <1>1, <1>2 DEF QueueOk
  <2>2. \A i, j \in DOMAIN t : t[i].no = t[j].no => i = j
    BY <1>1, <1>2 DEF QueueOk
  <2>3. \A i \in DOMAIN log : \A j \in DOMAIN t : log[i].batch # t[j].no
    BY <1>1, <1>2 DEF QueueOk
  <2> QED  BY <1>1, <1>2, <2>1, <2>2, <2>3 DEF QueueOk
<1>5. ASSUME q[k].cmds # <<>> PROVE RunOk(log, t, q[k], n)
  <2>1. IsBatch(q[k]) /\ q[k].at = 1 /\ q[k].no <= n
    BY <1>1, <1>3 DEF QueueOk
  <2>2. q[k].at <= Len(q[k].cmds)
    BY <1>5, <2>1 DEF IsBatch
  <2>3. \A j \in DOMAIN t : t[j].no # q[k].no
    BY <1>1, <1>2, <1>3 DEF QueueOk
  <2>4. \A i \in DOMAIN log : log[i].batch # q[k].no
    BY <1>1, <1>3 DEF QueueOk
  <2> QED  BY <1>1, <2>1, <2>2, <2>3, <2>4 DEF RunOk
<1> QED  BY <1>1, <1>4, <1>5 DEF BatchesOk, t

\* The answer after l, of the same batch.
AnswerOf(b, y, c, t) == [batch |-> b, at |-> y, of |-> c, text |-> t]

Follows(a, l) == a = [l EXCEPT !.at = @ + 1, !.text = a.text]

LEMMA NextAnswer ==
  ASSUME NEW b, NEW y, NEW z, NEW c, NEW t, NEW u
  PROVE  y + 1 = z => Follows(AnswerOf(b, z, c, u), AnswerOf(b, y, c, t))
<1> DEFINE l == AnswerOf(b, y, c, t)
           a == AnswerOf(b, z, c, u)
<1>0. l = [batch |-> b, at |-> y, of |-> c, text |-> t] /\ a = [batch |-> b, at |-> z, of |-> c, text |-> u]
  BY DEF AnswerOf
<1> HIDE DEF l, a
<1>1. l.at = y
  BY <1>0
<1> DEFINE e == [l EXCEPT !.at = z, !.text = u]
<1>2. /\ e.batch = b /\ e.at = z /\ e.of = c /\ e.text = u
      /\ e = [x \in {"batch", "at", "of", "text"} |-> e[x]]
  BY <1>0
<1> HIDE DEF e
<1>3. e = a
  BY <1>0, <1>2
<1>4. a.text = u
  BY <1>0
<1> QED  BY <1>1, <1>3, <1>4, Zenon DEF Follows, e, l, a

\* The running batch answers its next command.
LEMMA Answered ==
  ASSUME NEW log, NEW q, NEW r, NEW n, BatchesOk(log, q, r, n), r # NoBatch, NEW text
  PROVE  LET a == [batch |-> r.no, at |-> r.at, of |-> Len(r.cmds), text |-> text] IN
         BatchesOk(Append(log, a), q, IF r.at = Len(r.cmds) THEN NoBatch ELSE NextOf(r), n)
<1> DEFINE a == [batch |-> r.no, at |-> r.at, of |-> Len(r.cmds), text |-> text]
           new == Append(log, a)
           k == Len(log) + 1
           x == r.at
           c == Len(r.cmds)
<1>1. QueueOk(log, q, n) /\ LogOk(log, n) /\ RunOk(log, q, r, n)
  BY DEF BatchesOk
<1>2. /\ IsSeq(new) /\ new # <<>> /\ Len(new) = k /\ new[k] = a /\ DOMAIN new = 1 .. k
      /\ \A i \in DOMAIN log : new[i] = log[i] /\ i < k
      /\ \A i \in DOMAIN new : i \in DOMAIN log \/ i = k
      /\ DOMAIN log = 1 .. Len(log) /\ Len(log) \in Nat /\ k = Len(log) + 1
      /\ log = <<>> <=> Len(log) = 0
  BY <1>1, Grown DEF LogOk
<1>3. /\ IsBatch(r) /\ x \in Nat \ {0} /\ c \in Nat /\ x <= c /\ r.no \in Nat \ {0} /\ r.no <= n
      /\ r = [no |-> r.no, at |-> x, cmds |-> r.cmds]
  BY <1>1 DEF RunOk, IsBatch
<1>4. a.batch = r.no /\ a.at = x /\ a.of = c /\ IsAnswer(a)
  BY <1>3 DEF IsAnswer
<1> HIDE DEF a, new, k, x, c
<1>5. QueueOk(new, q, n)
  <2>1. \A i \in DOMAIN new : \A j \in DOMAIN q : new[i].batch # q[j].no
    BY <1>1, <1>2, <1>4 DEF QueueOk, RunOk
  <2> QED  BY <1>1, <2>1 DEF QueueOk
<1>6. \A i \in DOMAIN new : IsAnswer(new[i]) /\ new[i].batch <= n
  BY <1>1, <1>2, <1>3, <1>4 DEF LogOk
<1>7. Once(new)
  <2>1. \A i \in DOMAIN log : ~(log[i].batch = a.batch /\ log[i].at = a.at)
    BY <1>1, <1>3, <1>4 DEF RunOk, LogOk, IsAnswer, x
  <2>2. \A i, j \in DOMAIN log : log[i].batch = log[j].batch /\ log[i].at = log[j].at => i = j
    BY <1>1 DEF LogOk, Once
  <2>3. ASSUME NEW i \in DOMAIN new, NEW j \in DOMAIN new,
               new[i].batch = new[j].batch, new[i].at = new[j].at
        PROVE  i = j
    BY <1>2, <2>1, <2>2, <2>3
  <2> QED  BY <2>3 DEF Once
<1>8. Together(new)
  <2>1. \A i \in DOMAIN log : i > 1 => i - 1 \in DOMAIN log
    BY <1>2
  <2>2. ASSUME NEW i \in DOMAIN log
        PROVE  IF i = 1 \/ new[i].at = 1
                 THEN new[i].at = 1 /\ (i > 1 => new[i - 1].at = new[i - 1].of)
                 ELSE new[i] = [new[i - 1] EXCEPT !.at = @ + 1, !.text = new[i].text]
    <3>1. CASE i = 1
      <4>1. log[i].at = 1
        BY <1>1, <3>1 DEF LogOk, Together
      <4>2. ~(i > 1)
        BY <3>1
      <4> QED  BY <1>2, <3>1, <4>1, <4>2
    <3>2. CASE i # 1
      <4>1. i > 1 /\ i - 1 \in DOMAIN log
        BY <1>2, <2>1, <3>2
      <4>2. new[i] = log[i] /\ new[i - 1] = log[i - 1]
        BY <1>2, <4>1
      <4> QED  BY <1>1, <4>1, <4>2 DEF LogOk, Together
    <3> QED  BY <3>1, <3>2
  <2>3. CASE x = 1
    <3>1. k > 1 => new[k - 1].at = new[k - 1].of
      <4>1. ASSUME k > 1 PROVE k - 1 = Len(log) /\ Len(log) \in DOMAIN log /\ log # <<>>
        BY <1>2, <4>1
      <4>2. Ended(log)
        BY <1>1, <2>3 DEF RunOk, x
      <4> QED  BY <1>2, <4>1, <4>2 DEF Ended
    <3>2. new[k].at = 1
      BY <1>2, <1>4, <2>3
    <3> QED  BY <1>2, <2>2, <3>1, <3>2 DEF Together
  <2>4. CASE x # 1
    <3> DEFINE l == log[Len(log)]
    <3>1. log # <<>> /\ l = [batch |-> r.no, at |-> x - 1, of |-> c, text |-> l.text]
      BY <1>1, <2>4 DEF RunOk, x, c
    <3>2. k - 1 = Len(log) /\ Len(log) \in DOMAIN log /\ k # 1
      BY <1>2, <3>1
    <3>3. new[k - 1] = l
      BY <1>2, <3>2
    <3> HIDE DEF l
    <3>4. x - 1 + 1 = x
      BY <1>3
    <3>5. a = [l EXCEPT !.at = @ + 1, !.text = a.text]
      <4>1. a = [batch |-> r.no, at |-> x, of |-> c, text |-> text] /\ a.text = text
        BY DEF a, x, c
      <4> DEFINE y == x - 1
                 v == l.text
      <4>2. l = [batch |-> r.no, at |-> y, of |-> c, text |-> v]
        BY <3>1
      <4>3. y + 1 = x
        BY <3>4
      <4> HIDE DEF y, v
      <4>4. l = AnswerOf(r.no, y, c, v) /\ a = AnswerOf(r.no, x, c, text)
        BY <4>1, <4>2 DEF AnswerOf
      <4>5. Follows(a, l)
        BY <4>3, <4>4, NextAnswer, Zenon
      <4> QED  BY <4>5 DEF Follows
    <3>6. new[k].at # 1
      BY <1>2, <1>4, <2>4
    <3>7. new[k] = [new[k - 1] EXCEPT !.at = @ + 1, !.text = new[k].text]
      BY <1>2, <3>3, <3>5
    <3> QED  BY <1>2, <2>2, <3>2, <3>6, <3>7, Zenon DEF Together
  <2> QED  BY <2>3, <2>4
<1>9. LogOk(new, n)
  BY <1>2, <1>6, <1>7, <1>8 DEF LogOk
<1>10. CASE x = c
  <2>1. Ended(new)
    BY <1>2, <1>4, <1>10 DEF Ended
  <2> QED  BY <1>5, <1>9, <1>10, <2>1 DEF BatchesOk, new, a, x, c
<1>11. CASE x # c
  <2> DEFINE s == NextOf(r)
  <2>1. x + 1 \in Nat \ {0} /\ x + 1 <= c /\ x + 1 # 1 /\ x + 1 - 1 = x
    BY <1>3, <1>11
  <2>2. s = [no |-> r.no, at |-> x + 1, cmds |-> r.cmds]
    <3>1. s = [r EXCEPT !.at = @ + 1]
      BY DEF NextOf
    <3> HIDE DEF s
    <3> QED  BY <1>3, <3>1
  <2> HIDE DEF s
  <2>3. s.no = r.no /\ s.at = x + 1 /\ s.cmds = r.cmds /\ IsBatch(s)
    BY <1>3, <2>1, <2>2 DEF IsBatch
  <2>4. \A i \in DOMAIN new : new[i].batch = s.no => new[i].at < s.at
    <3>1. \A i \in DOMAIN log : log[i].batch = r.no => log[i].at \in Nat /\ log[i].at < x
      BY <1>1 DEF RunOk, LogOk, IsAnswer, x
    <3>2. x < x + 1 /\ \A m \in Nat : m < x => m < x + 1
      BY <1>3
    <3> QED  BY <1>2, <1>4, <2>3, <3>1, <3>2
  <2>5. new[Len(new)] = [batch |-> s.no, at |-> s.at - 1, of |-> Len(s.cmds), text |-> new[Len(new)].text]
    <3>1. a = [batch |-> r.no, at |-> x, of |-> c, text |-> a.text]
      BY DEF a, x, c
    <3>2. s.at - 1 = x
      <4>1. \A m : m = x + 1 => m - 1 = x
        BY <1>3
      <4> QED  BY <2>3, <4>1, Zenon
    <3>3. Len(s.cmds) = c
      BY <2>3, Zenon DEF c
    <3>4. s.no = r.no /\ new[Len(new)] = a
      BY <1>2, <2>3, Zenon
    <3> QED  BY <3>1, <3>2, <3>3, <3>4, Zenon
  <2>6. RunOk(new, q, s, n)
    <3>1. \A j \in DOMAIN q : q[j].no # s.no
      BY <1>1, <2>3 DEF RunOk
    <3> QED  BY <1>2, <1>3, <2>1, <2>3, <2>4, <2>5, <3>1 DEF RunOk, c
  <2>7. s # NoBatch
    BY <1>3, <2>3 DEF NoBatch
  <2> QED  BY <1>5, <1>9, <1>11, <2>6, <2>7 DEF BatchesOk, new, a, x, c, s
<1> QED  BY <1>10, <1>11 DEF x, c

\* Answers wait in one sequence and are written to another: s, then r.
LEMMA Moved ==
  ASSUME NEW s, IsSeq(s), NEW r, IsSeq(r)
  PROVE  /\ IsSeq(s \o r)
         /\ \A e : IsSeq(Append(r, e)) /\ s \o Append(r, e) = Append(s \o r, e)
         /\ r # <<>> => /\ IsSeq(Append(s, Head(r))) /\ IsSeq(Tail(r))
                        /\ Append(s, Head(r)) \o Tail(r) = s \o r
                        /\ \A e : /\ Tail(Append(r, e)) = Append(Tail(r), e)
                                  /\ s \o Append(Tail(r), e) = Append(s \o Tail(r), e)
<1>1. PICK S : s \in Seq(S) /\ r \in Seq(S)
  <2>1. PICK U : s \in Seq(U)
    BY DEF IsSeq
  <2>2. PICK V : r \in Seq(V)
    BY DEF IsSeq
  <2>3. s \in Seq(U \cup V) /\ r \in Seq(U \cup V)
    BY <2>1, <2>2
  <2> QED  BY <2>3
<1>2. IsSeq(s \o r)
  BY <1>1, ConcatProperties DEF IsSeq
<1>3. ASSUME NEW t, NEW T, t \in Seq(T), s \in Seq(T), NEW e
      PROVE  IsSeq(Append(t, e)) /\ s \o Append(t, e) = Append(s \o t, e)
  <2> DEFINE U == T \cup {e}
  <2>1. s \in Seq(U) /\ t \in Seq(U) /\ <<e>> \in Seq(U) /\ e \in U
    BY <1>3
  <2> HIDE DEF U
  <2>2. Append(t, e) \in Seq(U) /\ Append(t, e) = t \o <<e>>
    BY <2>1, AppendProperties, AppendIsConcat
  <2>3. s \o t \in Seq(U)
    BY <2>1, ConcatProperties
  <2>4. Append(s \o t, e) = (s \o t) \o <<e>>
    BY <2>1, <2>3, AppendIsConcat
  <2>5. (s \o t) \o <<e>> = s \o (t \o <<e>>)
    BY <2>1, ConcatAssociative
  <2> QED  BY <2>2, <2>4, <2>5 DEF IsSeq
<1>4. ASSUME r # <<>>
      PROVE  /\ IsSeq(Append(s, Head(r))) /\ IsSeq(Tail(r)) /\ Tail(r) \in Seq(S)
             /\ Append(s, Head(r)) \o Tail(r) = s \o r
             /\ \A e : Tail(Append(r, e)) = Append(Tail(r), e)
  <2>1. Head(r) \in S /\ Tail(r) \in Seq(S)
    BY <1>1, <1>4, HeadTailProperties
  <2>2. Append(s, Head(r)) \in Seq(S) /\ Append(s, Head(r)) = s \o <<Head(r)>>
    BY <1>1, <2>1, AppendProperties, AppendIsConcat
  <2>3. <<Head(r)>> \in Seq(S)
    BY <2>1
  <2>4. (s \o <<Head(r)>>) \o Tail(r) = s \o (<<Head(r)>> \o Tail(r))
    BY <1>1, <2>1, <2>3, ConcatAssociative
  <2>5. r = <<Head(r)>> \o Tail(r)
    BY <1>1, <1>4
  <2>6. \A e : Tail(Append(r, e)) = Append(Tail(r), e)
    BY <1>1, <1>4, HeadTailAppend
  <2> QED  BY <2>1, <2>2, <2>4, <2>5, <2>6 DEF IsSeq
<1>5. \A e : IsSeq(Append(r, e)) /\ s \o Append(r, e) = Append(s \o r, e)
  BY <1>1, <1>3
<1>6. ASSUME r # <<>> PROVE \A e : s \o Append(Tail(r), e) = Append(s \o Tail(r), e)
  BY <1>1, <1>3, <1>4, <1>6
<1> QED  BY <1>2, <1>4, <1>5, <1>6

\* The parser: a read gives a finite number of commands.
LEMMA Parsed ==
  ASSUME NEW buf, NEW S, NEW chunk \in Seq(S), NEW no \in Nat \ {0}
  PROVE  LET cmds == ParseCommands(buf, chunk).cmds
         IN  IsBatch([no |-> no, at |-> 1, cmds |-> cmds])
<1> DEFINE E == {i \in DOMAIN chunk : chunk[i] = Newline}
           c == Cardinality(E)
           lines == LinesOf(chunk)
           first == ParseCommandFrom(buf \o lines[1])
           joined == IF buf # <<>> /\ lines # <<>> THEN <<first>> ELSE <<>>
           rest == [k \in DOMAIN lines |-> ParseCommandFrom(lines[k])]
           cmds == ParseCommands(buf, chunk).cmds
<1>1. c \in Nat
  <2>1. IsFiniteSet(1 .. Len(chunk)) /\ DOMAIN chunk = 1 .. Len(chunk)
    BY LenProperties, FS_Interval
  <2>2. IsFiniteSet(E)
    BY <2>1, FS_Subset
  <2> HIDE DEF E
  <2> QED  BY <2>2, FS_CardinalityType
<1>2. DOMAIN lines = 1 .. c
  <2>1. DOMAIN Ends(chunk) = 1 .. c
    BY DEF Ends, InOrder
  <2> HIDE DEF c
  <2> QED  BY <2>1 DEF LinesOf
<1> HIDE DEF lines, c
<1>3. PICK T : rest \in Seq(T) /\ joined \in Seq(T)
  <2> DEFINE T == {rest[k] : k \in 1 .. c} \cup {first}
  <2>1. rest \in [1 .. c -> T]
    BY <1>2
  <2>2. first \in T
    OBVIOUS
  <2> HIDE DEF rest, T, first
  <2>3. rest \in Seq(T)
    BY <1>1, <2>1
  <2>4. joined \in Seq(T)
    BY <2>2
  <2> QED  BY <2>3, <2>4
<1>4. cmds = joined \o rest
  BY DEF ParseCommands, lines
<1> HIDE DEF cmds, joined, rest
<1>5. cmds \in Seq(T)
  BY <1>3, <1>4, ConcatProperties
<1>6. Len(cmds) \in Nat /\ (cmds # <<>> => Len(cmds) > 0)
  <2>1. Len(cmds) \in Nat /\ (cmds = <<>> <=> Len(cmds) = 0)
    BY <1>5, LenProperties, EmptySeq
  <2> QED  BY <2>1
<1>7. IsBatch([no |-> no, at |-> 1, cmds |-> cmds])
  BY <1>6 DEF IsBatch
<1> QED  BY <1>7 DEF cmds

LEMMA AnswersInit == Init => AnswersInv
<1> SUFFICES ASSUME Init PROVE AnswersInv
  OBVIOUS
<1>1. OnClients(sent) /\ OnClients(posted) /\ OnClients(stream)
  BY DEF Init, OnClients
<1>2. ASSUME NEW h \in Clients PROVE IsSeq(stream[h])
  <2>1. PICK script \in Scripts : stream = [g \in Clients |-> TextOf(script[g])]
    BY DEF Init
  <2> DEFINE s == script[h]
             n == Len(s) * (Pieces + 1)
             t == TextOf(s)
  <2>2. n \in Nat
    <3>1. Len(s) \in Nat /\ Pieces + 1 \in Nat
      BY JoinServerAssumption
    <3> HIDE DEF s
    <3> QED  BY <3>1
  <2>3. DOMAIN t = 1 .. n /\ t = [i \in 1 .. n |-> t[i]]
    BY DEF TextOf
  <2> HIDE DEF n, t
  <2>4. t \in [1 .. n -> {t[i] : i \in 1 .. n}]
    BY <2>3
  <2>5. t \in Seq({t[i] : i \in 1 .. n})
    BY <2>2, <2>4
  <2> QED  BY <2>1, <2>5 DEF IsSeq, t
<1>3. IsSeq(<<>>) /\ <<>> \o <<>> = <<>> /\ Tail(<<>>) = Tail(<<>>)
  <2>1. <<>> \in Seq({})
    OBVIOUS
  <2> QED  BY <2>1, ConcatEmptySeq DEF IsSeq
<1>4. ASSUME NEW h \in Clients
      PROVE  /\ sent[h] = <<>> /\ Answers(h) = <<>> /\ queue[h] = <<>> /\ running[h] = NoBatch
             /\ posted[h] = 0
  <2>1. /\ sent[h] = <<>> /\ responses[h] = <<>> /\ queue[h] = <<>> /\ running[h] = NoBatch
        /\ posted[h] = 0 /\ io = Idle
    BY DEF Init
  <2>2. ~InWritten(h)
    BY <2>1, WaitsDiffer DEF InWritten
  <2> QED  BY <1>3, <2>1, <2>2 DEF Answers, InWritten
<1>5. BatchesOk(<<>>, <<>>, NoBatch, 0)
  BY <1>3 DEF BatchesOk, QueueOk, LogOk, Together, Once, Ended
<1> QED  BY <1>1, <1>2, <1>3, <1>4, <1>5 DEF AnswersInv

\* An answer of g is the last of its log.
LEMMA AnswerGrows ==
  ASSUME WritesInv, AnswersInv, NEW g \in Clients, NEW text, Answer(g, text)
  PROVE  LET b == running[g]
             a == [batch |-> b.no, at |-> b.at, of |-> Len(b.cmds), text |-> text]
         IN  /\ Answers(g)' = Append(Answers(g), a)
             /\ \A h \in Clients : h # g => Answers(h)' = Answers(h)
<1> DEFINE b == running[g]
           a == [batch |-> b.no, at |-> b.at, of |-> Len(b.cmds), text |-> text]
           s == sent[g]
           r == responses[g]
<1>1. responses' = [responses EXCEPT ![g] = Append(@, a)] /\ UNCHANGED <<sent, io>>
  BY DEF Answer
<1> HIDE DEF a
<1>2. /\ responses'[g] = Append(r, a) /\ \A h \in Clients : h # g => responses'[h] = responses[h]
      /\ \A h : InWritten(h)' = InWritten(h)
  BY <1>1 DEF WritesInv, OnClients, InWritten
<1>3. IsSeq(s) /\ IsSeq(r) /\ (InWritten(g) => r # <<>>)
  BY DEF AnswersInv, WritesInv, IsSeq
<1>4. /\ \A h : Answers(h) = sent[h] \o (IF InWritten(h) THEN Tail(responses[h]) ELSE responses[h])
      /\ \A h : Answers(h)' = sent'[h] \o (IF InWritten(h)' THEN Tail(responses'[h]) ELSE responses'[h])
  BY DEF Answers, InWritten
<1>5. ASSUME NEW h \in Clients, h # g PROVE Answers(h)' = Answers(h)
  <2>1. sent'[h] = sent[h] /\ responses'[h] = responses[h] /\ InWritten(h)' = InWritten(h)
    BY <1>1, <1>2, <1>5
  <2> QED  BY <1>4, <2>1, Zenon
<1>6. Answers(g)' = Append(Answers(g), a)
  <2>0. sent'[g] = s
    BY <1>1
  <2> HIDE DEF s, r
  <2>1. /\ s \o Append(r, a) = Append(s \o r, a)
        /\ r # <<>> => /\ Tail(Append(r, a)) = Append(Tail(r), a)
                       /\ s \o Append(Tail(r), a) = Append(s \o Tail(r), a)
    <3>1. IsSeq(s) /\ IsSeq(r)
      BY <1>3 DEF s, r
    <3>2. s \o Append(r, a) = Append(s \o r, a)
      BY <3>1, Moved
    <3>3. ASSUME r # <<>>
          PROVE  /\ Tail(Append(r, a)) = Append(Tail(r), a)
                 /\ s \o Append(Tail(r), a) = Append(s \o Tail(r), a)
      BY <3>1, <3>3, Moved
    <3> QED  BY <3>2, <3>3
  <2>2. CASE InWritten(g)
    <3>1. Answers(g)' = s \o Tail(Append(r, a)) /\ Answers(g) = s \o Tail(r)
      BY <1>2, <1>4, <2>0, <2>2, Zenon DEF s, r
    <3> QED  BY <1>3, <2>1, <2>2, <3>1, Zenon
  <2>3. CASE ~InWritten(g)
    <3>1. Answers(g)' = s \o Append(r, a) /\ Answers(g) = s \o r
      BY <1>2, <1>4, <2>0, <2>3, Zenon DEF s, r
    <3> QED  BY <2>1, <3>1, Zenon
  <2> QED  BY <2>2, <2>3
<1> QED  BY <1>5, <1>6 DEF a

LEMMA AnswerKeepsAnswers ==
  ASSUME BatchesHaveOwner, WritesInv, AnswersInv,
         NEW g \in Clients, NEW text, Answer(g, text), running[g] # NoBatch
  PROVE  AnswersInv'
<1> DEFINE b == running[g]
           a == [batch |-> b.no, at |-> b.at, of |-> Len(b.cmds), text |-> text]
           next == IF b.at = Len(b.cmds) THEN NoBatch ELSE NextOf(b)
<1>1. /\ UNCHANGED <<sent, posted, stream>>
      /\ running' = [running EXCEPT ![g] = next] /\ queue' = [queue EXCEPT ![g] = queue[g]]
  BY DEF Answer, AfterCommand, connVars
<1> HIDE DEF next
<1>2. /\ queue' = queue /\ running'[g] = next
      /\ \A h \in Clients : h # g => running'[h] = running[h]
  BY <1>1 DEF BatchesHaveOwner, OnClients
<1>3. /\ Answers(g)' = Append(Answers(g), a)
      /\ \A h \in Clients : h # g => Answers(h)' = Answers(h)
  BY AnswerGrows
<1>4. BatchesOk(Append(Answers(g), a), queue[g], next, posted[g])
  <2>1. BatchesOk(Answers(g), queue[g], b, posted[g])
    BY DEF AnswersInv
  <2> QED  BY <2>1, Answered DEF next
<1> HIDE DEF a
<1>5. ASSUME NEW h \in Clients
      PROVE  /\ IsSeq(sent'[h]) /\ IsSeq(stream'[h])
             /\ BatchesOk(Answers(h)', queue'[h], running'[h], posted'[h])
  <2>1. IsSeq(sent'[h]) /\ IsSeq(stream'[h])
    BY <1>1 DEF AnswersInv
  <2>2. CASE h = g
    BY <1>1, <1>2, <1>3, <1>4, <2>1, <2>2
  <2>3. CASE h # g
    BY <1>1, <1>2, <1>3, <2>1, <2>3 DEF AnswersInv
  <2> QED  BY <2>2, <2>3
<1>6. OnClients(sent') /\ OnClients(posted') /\ OnClients(stream')
  BY <1>1 DEF AnswersInv
<1> QED  BY <1>5, <1>6, Zenon DEF AnswersInv

LEMMA AnswersNext ==
  BatchesHaveOwner /\ WritesInv /\ AnswersInv /\ [Next]_vars => AnswersInv'
<1> SUFFICES ASSUME BatchesHaveOwner, WritesInv, AnswersInv, [Next]_vars PROVE AnswersInv'
  OBVIOUS
<1>1. /\ \A h : Answers(h) = sent[h] \o (IF InWritten(h) THEN Tail(responses[h]) ELSE responses[h])
      /\ \A h : Answers(h)' = sent'[h] \o (IF InWritten(h)' THEN Tail(responses'[h]) ELSE responses'[h])
  BY DEF Answers, InWritten
<1>2. /\ OnClients(queue) /\ OnClients(running) /\ OnClients(sent) /\ OnClients(posted)
      /\ OnClients(stream) /\ OnClients(responses)
      /\ \A h \in Clients : /\ IsSeq(sent[h]) /\ IsSeq(stream[h]) /\ IsSeq(responses[h])
                            /\ BatchesOk(Answers(h), queue[h], running[h], posted[h])
  BY DEF BatchesHaveOwner, WritesInv, AnswersInv, IsSeq
\* What is written and waits goes from one place to the other, or not at all.
<1>3. ASSUME UNCHANGED <<stream, queue, running, posted>>, OnClients(sent'),
             \A h \in Clients : IsSeq(sent'[h]) /\ Answers(h)' = Answers(h)
      PROVE  AnswersInv'
  BY <1>2, <1>3, Zenon DEF AnswersInv
<1>4. ASSUME UNCHANGED <<stream, queue, running, posted, sent, responses>>,
             \A h \in Clients : InWritten(h)' = InWritten(h)
      PROVE  AnswersInv'
  <2>1. \A h \in Clients : IsSeq(sent'[h]) /\ Answers(h)' = Answers(h)
    BY <1>1, <1>2, <1>4
  <2> QED  BY <1>2, <1>3, <1>4, <2>1
<1>5. CASE UNCHANGED vars
  BY <1>4, <1>5 DEF vars, connVars, batchVars, writeVars, InWritten
<1>6. ASSUME NEW g \in Clients, Accept(g) \/ WriteError(g) PROVE AnswersInv'
  BY <1>4, <1>6 DEF Accept, WriteError, connVars, batchVars, writeVars, InWritten
<1>7. ASSUME NEW g \in Clients, ReadError(g) \/ Joined(g) PROVE AnswersInv'
  <2>1. \A h \in Clients : ~InWritten(h)' /\ ~InWritten(h)
    BY <1>7, WaitsDiffer DEF ReadError, AfterReadError, Joined, InWritten
  <2>2. UNCHANGED <<stream, queue, running, posted, sent, responses>>
    BY <1>7 DEF ReadError, Joined, batchVars, writeVars
  <2>3. \A h \in Clients : InWritten(h)' = InWritten(h)
    BY <2>1 DEF InWritten
  <2> QED  BY <1>4, <2>2, <2>3
<1>8. ASSUME NEW g \in Clients, Written(g) PROVE AnswersInv'
  <2> DEFINE s == sent[g]
             r == responses[g]
  <2>1. /\ UNCHANGED <<stream, queue, running, posted, responses>> /\ io = Idle
        /\ io' = [pc |-> "written", h |-> g] /\ sent' = [sent EXCEPT ![g] = Append(@, Head(r))]
        /\ writes[g] > 0
    BY <1>8 DEF Written, connVars, batchVars
  <2>2. \A h \in Clients : ~InWritten(h) /\ (InWritten(h)' <=> h = g)
    BY <2>1, WaitsDiffer DEF InWritten
  <2>3. r # <<>>
    BY <2>1 DEF WritesInv
  <2>4. /\ sent'[g] = Append(s, Head(r)) /\ OnClients(sent')
        /\ \A h \in Clients : h # g => sent'[h] = sent[h]
    BY <1>2, <2>1 DEF OnClients
  <2>5. IsSeq(Append(s, Head(r))) /\ Append(s, Head(r)) \o Tail(r) = s \o r
    BY <1>2, <2>3, Moved
  <2>6. Answers(g)' = Answers(g)
    BY <1>1, <2>1, <2>2, <2>4, <2>5
  <2>7. \A h \in Clients : h # g => Answers(h)' = Answers(h)
    BY <1>1, <2>1, <2>2, <2>4
  <2> QED  BY <1>2, <1>3, <2>1, <2>4, <2>5, <2>6, <2>7
<1>9. ASSUME NEW g \in Clients, PopFront(g) PROVE AnswersInv'
  <2>1. /\ UNCHANGED <<stream, queue, running, posted, sent>> /\ InWritten(g) /\ io' = Idle
        /\ responses' = [responses EXCEPT ![g] = Tail(@)]
    BY <1>9 DEF PopFront, connVars, batchVars, InWritten
  <2>2. \A h \in Clients : ~InWritten(h)' /\ (InWritten(h) <=> h = g)
    BY <2>1, WaitsDiffer DEF InWritten
  <2>3. /\ responses'[g] = Tail(responses[g])
        /\ \A h \in Clients : h # g => responses'[h] = responses[h]
    BY <1>2, <2>1 DEF OnClients
  <2>4. \A h \in Clients : Answers(h)' = Answers(h)
    BY <1>1, <2>1, <2>2, <2>3
  <2> QED  BY <1>2, <1>3, <2>1, <2>4
<1>10. ASSUME NEW g \in Clients, Read(g) PROVE AnswersInv'
  <2>1. PICK n \in 1 .. MaxRead :
          /\ n <= Len(stream[g])
          /\ queue' = [queue EXCEPT ![g] = Append(@, [no |-> posted[g] + 1, at |-> 1,
                          cmds |-> ParseCommands(buffer[g], SubSeq(stream[g], 1, n)).cmds])]
          /\ stream' = [stream EXCEPT ![g] = SubSeq(@, n + 1, Len(@))]
    BY <1>10 DEF Read
  <2> DEFINE s == stream[g]
             chunk == SubSeq(s, 1, n)
             m == posted[g]
             b == [no |-> m + 1, at |-> 1, cmds |-> ParseCommands(buffer[g], chunk).cmds]
  <2>2. posted' = [posted EXCEPT ![g] = @ + 1] /\ UNCHANGED <<running, sent, responses, io>>
    BY <1>10 DEF Read, writeVars
  <2>3. PICK S : s \in Seq(S)
    BY <1>2 DEF IsSeq
  <2>4. chunk \in Seq(S) /\ SubSeq(s, n + 1, Len(s)) \in Seq(S)
    <3>1. n \in Int /\ Len(s) \in Nat /\ n + 1 \in Int /\ 1 \in Int
      BY <2>3, LenProperties
    <3>2. \A i \in 1 .. n : i \in 1 .. Len(s)
      BY <2>1, <3>1
    <3>3. \A i \in n + 1 .. Len(s) : i \in 1 .. Len(s)
      BY <2>1, <3>1
    <3>4. \A i \in 1 .. Len(s) : s[i] \in S
      BY <2>3, ElementOfSeq
    <3> QED  BY <3>1, <3>2, <3>3, <3>4, SubSeqProperties
  <2>5. m \in Nat /\ m + 1 \in Nat \ {0}
    <3>1. m \in Nat
      BY <1>2 DEF BatchesOk, QueueOk
    <3> QED  BY <3>1
  <2> HIDE DEF m, chunk
  <2>6. IsBatch(b)
    BY <2>4, <2>5, Parsed
  <2>7. b.at = 1 /\ b.no = m + 1
    OBVIOUS
  <2> HIDE DEF b
  <2>8. BatchesOk(Answers(g), Append(queue[g], b), running[g], m + 1)
    BY <1>2, <2>6, <2>7, Posted DEF m
  <2>9. /\ queue'[g] = Append(queue[g], b) /\ posted'[g] = m + 1 /\ stream'[g] = SubSeq(s, n + 1, Len(s))
        /\ \A h \in Clients : h # g => queue'[h] = queue[h] /\ posted'[h] = posted[h]
                                       /\ stream'[h] = stream[h]
        /\ OnClients(posted') /\ OnClients(stream')
    BY <1>2, <2>1, <2>2 DEF OnClients, b, m, chunk
  <2>10. \A h \in Clients : Answers(h)' = Answers(h)
    BY <1>1, <2>2 DEF InWritten
  <2>11. ASSUME NEW h \in Clients
         PROVE  /\ IsSeq(sent'[h]) /\ IsSeq(stream'[h])
                /\ BatchesOk(Answers(h)', queue'[h], running'[h], posted'[h])
    <3>1. CASE h = g
      BY <1>2, <2>2, <2>4, <2>8, <2>9, <2>10, <3>1 DEF IsSeq
    <3>2. CASE h # g
      BY <1>2, <2>2, <2>9, <2>10, <3>2
    <3> QED  BY <3>1, <3>2
  <2> QED  BY <1>2, <2>2, <2>9, <2>11, Zenon DEF AnswersInv
<1>11. ASSUME NEW g \in Clients, LockBatch(g) PROVE AnswersInv'
  <2>1. PICK k \in 1 .. PoolSize :
          /\ k <= Len(queue[g])
          /\ running' = [running EXCEPT ![g] = IF queue[g][k].cmds = <<>> THEN NoBatch ELSE queue[g][k]]
          /\ queue' = [queue EXCEPT ![g] = SubSeq(@, 1, k - 1) \o SubSeq(@, k + 1, Len(@))]
    BY <1>11 DEF LockBatch
  <2> DEFINE b == IF queue[g][k].cmds = <<>> THEN NoBatch ELSE queue[g][k]
             q == SubSeq(queue[g], 1, k - 1) \o SubSeq(queue[g], k + 1, Len(queue[g]))
  <2>2. running[g] = NoBatch /\ UNCHANGED <<stream, posted, sent, responses, io>>
    BY <1>11 DEF LockBatch, MutexFree, connVars, writeVars
  <2>3. k \in 1 .. Len(queue[g])
    <3>1. Len(queue[g]) \in Nat
      BY <1>2, Grown DEF BatchesOk, QueueOk
    <3> QED  BY <2>1, <3>1
  <2>4. BatchesOk(Answers(g), q, b, posted[g])
    BY <1>2, <2>2, <2>3, Locked
  <2>5. running' = [running EXCEPT ![g] = b] /\ queue' = [queue EXCEPT ![g] = q]
    BY <2>1
  <2> HIDE DEF b, q
  <2>6. /\ running'[g] = b /\ queue'[g] = q
        /\ \A h \in Clients : h # g => running'[h] = running[h] /\ queue'[h] = queue[h]
    BY <1>2, <2>5 DEF OnClients
  <2>7. \A h \in Clients : Answers(h)' = Answers(h)
    BY <1>1, <2>2 DEF InWritten
  <2>8. ASSUME NEW h \in Clients
        PROVE  /\ IsSeq(sent'[h]) /\ IsSeq(stream'[h])
               /\ BatchesOk(Answers(h)', queue'[h], running'[h], posted'[h])
    <3>1. CASE h = g
      BY <1>2, <2>2, <2>4, <2>6, <2>7, <3>1
    <3>2. CASE h # g
      BY <1>2, <2>2, <2>6, <2>7, <3>2
    <3> QED  BY <3>1, <3>2
  <2> QED  BY <1>2, <2>2, <2>8, Zenon DEF AnswersInv
<1>12. ASSUME NEW g \in Clients, Batch(g), ~LockBatch(g) PROVE AnswersInv'
  <2>1. \/ (\E text : Answer(g, text)) /\ running[g] # NoBatch
        \/ UNCHANGED <<connVars, batchVars, writeVars, io>>
    <3>1. op[g].pc \in {"link", "join"} => running[g] # NoBatch
      BY DEF BatchesHaveOwner, NoOp
    <3> QED  BY <1>12, <3>1 DEF Batch, InsertSearch, InsertLink, Truncate, JoinBegin, JoinEnd,
                                RunUnknown, AtCommand
  <2> QED  BY <2>1, <1>4, AnswerKeepsAnswers DEF connVars, batchVars, writeVars, InWritten
<1> QED
  BY <1>5, <1>6, <1>7, <1>8, <1>9, <1>10, <1>11, <1>12 DEF Next, Handler, Network

\* The answers to the commands of one read come together, in the order of the
\* commands and each once, whichever threads run the batches and however the io
\* thread takes the answers out (join_server.cpp:35, 78).
THEOREM AnswersComeByBatch == Spec => []AnswersByBatch
<1>1. AnswersInv => AnswersByBatch
  BY DEF AnswersInv, BatchesOk, LogOk, Together, Once, AnswersByBatch
<1>2. BatchesHaveOwner /\ WritesInv /\ AnswersInv /\ [Next]_vars
        => BatchesHaveOwner' /\ WritesInv' /\ AnswersInv'
  BY BatchesNext, WritesNext, AnswersNext
<1>3. Init => BatchesHaveOwner /\ WritesInv /\ AnswersInv
  BY BatchesInit, WritesInit, AnswersInit
<1> QED
  BY <1>1, <1>2, <1>3, PTL DEF Spec
=============================================================================
