------------------------------ MODULE AsyncLibrary ------------------------------
(***************************************************************************)
(* The library of OTUSLesson21 (async.cpp, ts_cont.h): connect, receive    *)
(* and disconnect, called from any thread.  bulkmgrs maps a handle to a    *)
(* CommandProcessor, which has a line buffer, a BulkCmdManager with two    *)
(* pools and a mutex; the map has a shared_mutex of its own, data_mtx_.    *)
(*                                                                         *)
(* Several threads may use one context, as in the last example of          *)
(* main.cpp: receive at any time, disconnect when no other call with the   *)
(* context is on its way.  The user keeps to that and to nothing else:     *)
(* calls may come with a context that is gone.                             *)
(*                                                                         *)
(* A character stands for any text without an end of line: "{", "}", "x"   *)
(* for everything else, and "\n".                                          *)
(***************************************************************************)
EXTENDS BulkManager, Bulks

CONSTANTS Threads,   \* the threads of the program that uses the library
          Contexts,  \* the handles connect may return
          BulkSize,  \* the argument of connect
          Chunks,    \* what receive may be given, sequences of characters
          MaxCalls,  \* MaxCalls[c], bound: the calls of receive with a context
          None

ASSUME AsyncAssumption ==
  /\ BulkSize \in Nat \ {0}
  /\ MaxCalls \in [Contexts -> Nat]
  /\ None \notin Threads \cup Contexts
  /\ Chunks \subseteq Seq(STRING) \ {<<>>}   \* <<>> would change nothing

VARIABLES
  bulkmgrs,   \* the contexts in the map
  data_mtx,   \* the thread that holds data_mtx_ exclusively, or None
  mtx,        \* mtx[c]: the thread that holds the mutex of a processor, or None
  buffer,     \* buffer[c]: buffer_ of a processor, a sequence of pieces of text
  mgr,        \* mgr[c]: its BulkCmdManager
  coutq,      \* coutq[c]: the bulks in the pool that prints
  fileq,      \* fileq[c]: the bulks in the pool that writes
  pc,         \* where each thread is
  ctx,        \* ctx[t]: the context of its call
  arg,        \* arg[t]: the chunk it was given, or the command it has read
  used,       \* history: the contexts connect has returned
  calls,      \* history: calls[c], the calls of receive so far
  stream,     \* history: stream[c], what has come in
  lines,      \* history: lines[c], the lines read from the buffer
  printed,    \* history: printed[c] and written[c], the bulks that are out
  written

libVars == <<bulkmgrs, data_mtx, mtx, buffer, mgr, coutq, fileq>>
callVars == <<pc, ctx, arg>>
histVars == <<used, calls, stream, lines, printed, written>>
vars == <<libVars, callVars, histVars>>

Init ==
  /\ bulkmgrs = {} /\ data_mtx = None
  /\ mtx = [c \in Contexts |-> None]
  /\ buffer = [c \in Contexts |-> <<>>]
  /\ mgr = [c \in Contexts |-> NewManager]
  /\ coutq = [c \in Contexts |-> <<>>] /\ fileq = [c \in Contexts |-> <<>>]
  /\ pc = [t \in Threads |-> "idle"]
  /\ ctx = [t \in Threads |-> None]
  /\ arg = [t \in Threads |-> None]
  /\ used = {}
  /\ calls = [c \in Contexts |-> 0]
  /\ stream = [c \in Contexts |-> <<>>]
  /\ lines = [c \in Contexts |-> 0]
  /\ printed = [c \in Contexts |-> <<>>] /\ written = [c \in Contexts |-> <<>>]

-----------------------------------------------------------------------------
\* Lines in the buffer.

EndsLine(piece) == Last(piece) = "\n"

\* isCmdComplete
IsCmdComplete(buf) == buf = <<>> \/ EndsLine(Last(buf))

\* What find('\n') cuts a text into: pieces that end a line, and the rest.
Pieces(text) ==
  LET ends == {i \in DOMAIN text : text[i] = "\n" \/ i = Len(text)}
      start(e) == Max({0} \cup {i \in ends : i < e}) + 1
      order == InOrder(ends, <)
  IN  [k \in DOMAIN order |-> SubSeq(text, start(order[k]), order[k])]

\* pushToBuffer: the first piece goes to the end of an incomplete line.
PushToBuffer(buf, chunk) ==
  LET pieces == Pieces(chunk) IN
    IF IsCmdComplete(buf) THEN buf \o pieces
    ELSE Front(buf) \o <<Last(buf) \o Head(pieces)>> \o Tail(pieces)

HasCmd(buf) == buf # <<>> /\ EndsLine(Head(buf))

\* pop_back of the end of line, and getCmd.
LineText(piece) ==
  LET line == IF EndsLine(piece) THEN Front(piece) ELSE piece
  IN  IF line \in {<<"{">>, <<"}">>} THEN Head(line) ELSE "base"

\* read_next_cmd
FrontCommand(c) == ToCommand(LineText(Head(buffer[c])), lines[c] + 1)

\* add_cmd, and notify: one task in each pool.
Add(c, cmd) ==
  LET bulks == SubSeq(mgr'[c].sent, Len(mgr[c].sent) + 1, Len(mgr'[c].sent))
  IN  /\ mgr' = [mgr EXCEPT ![c] = AddCmd(@, cmd, BulkSize)]
      /\ coutq' = [coutq EXCEPT ![c] = @ \o bulks]
      /\ fileq' = [fileq EXCEPT ![c] = @ \o bulks]

-----------------------------------------------------------------------------
\* The calls.

Goto(t, to) == pc' = [pc EXCEPT ![t] = to]

\* The threads in a call with context c.
Callers(c) == {t \in Threads : pc[t] # "idle" /\ ctx[t] = c}

Disconnecting == {"find to disconnect", "lock to disconnect", "rest", "erase", "join"}

\* connect: the processor is built, then pushed under data_mtx_.
Connect(t, c) ==
  /\ pc[t] = "idle" /\ c \notin used
  /\ data_mtx = None
  /\ bulkmgrs' = bulkmgrs \cup {c}
  /\ used' = used \cup {c}
  /\ UNCHANGED <<data_mtx, mtx, buffer, mgr, coutq, fileq, callVars,
                 calls, stream, lines, printed, written>>

CallReceive(t, c, chunk) ==
  /\ pc[t] = "idle" /\ c \in used
  /\ \A s \in Callers(c) : pc[s] \notin Disconnecting
  /\ calls[c] < MaxCalls[c]
  /\ calls' = [calls EXCEPT ![c] = @ + 1]
  /\ Goto(t, "find to receive")
  /\ ctx' = [ctx EXCEPT ![t] = c]
  /\ arg' = [arg EXCEPT ![t] = chunk]
  /\ UNCHANGED <<libVars, used, stream, lines, printed, written>>

CallDisconnect(t, c) ==
  /\ pc[t] = "idle" /\ c \in used
  /\ Callers(c) = {}
  /\ Goto(t, "find to disconnect")
  /\ ctx' = [ctx EXCEPT ![t] = c]
  /\ UNCHANGED <<libVars, arg, histVars>>

\* if (bulkmgrs.contains(idx)), and the reference to the processor, each under a
\* shared lock of data_mtx_.
Find(t) ==
  /\ pc[t] \in {"find to receive", "find to disconnect"}
  /\ data_mtx = None
  /\ Goto(t, IF ctx[t] \notin bulkmgrs THEN "idle"
             ELSE IF pc[t] = "find to receive" THEN "lock to receive"
             ELSE "lock to disconnect")
  /\ UNCHANGED <<libVars, ctx, arg, histVars>>

\* Mutant of CanLock: the processor has no mutex.
NoMutex(c) == TRUE

CanLock(c) == mtx[c] = None

\* receive: lock_guard, then pushToBuffer.
Push(t) ==
  LET c == ctx[t] IN
  /\ pc[t] = "lock to receive"
  /\ CanLock(c)
  /\ mtx' = [mtx EXCEPT ![c] = t]
  /\ buffer' = [buffer EXCEPT ![c] = PushToBuffer(@, arg[t])]
  /\ stream' = [stream EXCEPT ![c] = @ \o arg[t]]
  /\ arg' = [arg EXCEPT ![t] = None]
  /\ Goto(t, "process")
  /\ UNCHANGED <<bulkmgrs, data_mtx, mgr, coutq, fileq, ctx,
                 used, calls, lines, printed, written>>

\* process_all_commands: while (hasCmd()) read_next_cmd ...
ReadCmd(t) ==
  LET c == ctx[t] IN
  /\ pc[t] = "process"
  /\ HasCmd(buffer[c])
  /\ arg' = [arg EXCEPT ![t] = FrontCommand(c)]
  /\ buffer' = [buffer EXCEPT ![c] = Tail(@)]
  /\ lines' = [lines EXCEPT ![c] = @ + 1]
  /\ Goto(t, "add")
  /\ UNCHANGED <<bulkmgrs, data_mtx, mtx, mgr, coutq, fileq, ctx,
                 used, calls, stream, printed, written>>

\* ... add_cmd.
AddRead(t) ==
  /\ pc[t] = "add"
  /\ Add(ctx[t], arg[t])
  /\ arg' = [arg EXCEPT ![t] = None]
  /\ Goto(t, "process")
  /\ UNCHANGED <<bulkmgrs, data_mtx, mtx, buffer, ctx, histVars>>

\* Mutant of Unlocked: a lock without its guard.
StaysLocked(c) == mtx

\* The end of the lock_guard's scope.
Unlocked(c) == [mtx EXCEPT ![c] = None]

\* No complete line is left: receive returns.
EndReceive(t) ==
  /\ pc[t] = "process"
  /\ ~HasCmd(buffer[ctx[t]])
  /\ mtx' = Unlocked(ctx[t])
  /\ Goto(t, "idle")
  /\ UNCHANGED <<bulkmgrs, data_mtx, buffer, mgr, coutq, fileq, ctx, arg, histVars>>

\* disconnect: lock_guard; a line without an end is a command all the same.
Rest(t) ==
  LET c == ctx[t] IN
  /\ pc[t] = "lock to disconnect"
  /\ CanLock(c)
  /\ mtx' = [mtx EXCEPT ![c] = t]
  /\ \/ /\ buffer[c] # <<>>
        /\ Add(c, FrontCommand(c))
        /\ buffer' = [buffer EXCEPT ![c] = Tail(@)]
        /\ lines' = [lines EXCEPT ![c] = @ + 1]
     \/ /\ buffer[c] = <<>>
        /\ UNCHANGED <<mgr, coutq, fileq, buffer, lines>>
  /\ Goto(t, "rest")
  /\ UNCHANGED <<bulkmgrs, data_mtx, ctx, arg, used, calls, stream, printed, written>>

\* The Terminator; unlock.
Terminate(t) ==
  LET c == ctx[t] IN
  /\ pc[t] = "rest"
  /\ Add(c, Terminator)
  /\ mtx' = Unlocked(c)
  /\ Goto(t, "erase")
  /\ UNCHANGED <<bulkmgrs, data_mtx, buffer, ctx, arg, histVars>>

\* erase: data_mtx_ is held for the time of the destruction ...
EraseLock(t) ==
  /\ pc[t] = "erase"
  /\ data_mtx = None
  /\ data_mtx' = t
  /\ bulkmgrs' = bulkmgrs \ {ctx[t]}
  /\ Goto(t, "join")
  /\ UNCHANGED <<mtx, buffer, mgr, coutq, fileq, ctx, arg, histVars>>

\* Mutant of Drained: the pool of the files is not waited for.
DrainedCout(c) == coutq[c] = <<>>

\* What the pools' threads leave behind.  ~ThreadPool may still hang in join,
\* with a wakeup missed (ThreadPool): this is when erase may return, never that
\* it does.
Drained(c) == coutq[c] = <<>> /\ fileq[c] = <<>>

\* ... in which the pools join threads that have emptied their queues, if it ends.
EraseEnd(t) ==
  /\ pc[t] = "join"
  /\ Drained(ctx[t])
  /\ data_mtx' = None
  /\ Goto(t, "idle")
  /\ UNCHANGED <<bulkmgrs, mtx, buffer, mgr, coutq, fileq, ctx, arg, histVars>>

-----------------------------------------------------------------------------
\* The pools of a context: one thread prints, two write files.

PrintBulk(c) ==
  /\ coutq[c] # <<>>
  /\ printed' = [printed EXCEPT ![c] = Append(@, Head(coutq[c]))]
  /\ coutq' = [coutq EXCEPT ![c] = Tail(@)]
  /\ UNCHANGED <<bulkmgrs, data_mtx, mtx, buffer, mgr, fileq, callVars,
                 used, calls, stream, lines, written>>

WriteFile(c, i) ==
  /\ i <= Len(fileq[c])
  /\ written' = [written EXCEPT ![c] = Append(@, fileq[c][i])]
  /\ fileq' = [fileq EXCEPT ![c] = RemoveAt(@, i)]
  /\ UNCHANGED <<bulkmgrs, data_mtx, mtx, buffer, mgr, coutq, callVars,
                 used, calls, stream, lines, printed>>

GoingOn(t) ==
  \/ Find(t) \/ Push(t) \/ ReadCmd(t) \/ AddRead(t) \/ EndReceive(t)
  \/ Rest(t) \/ Terminate(t) \/ EraseLock(t)

InCall(t) == GoingOn(t) \/ EraseEnd(t)

NewCall(t, c) ==
  \/ Connect(t, c) \/ CallDisconnect(t, c)
  \/ \E chunk \in Chunks : CallReceive(t, c, chunk)

Output(c) == PrintBulk(c) \/ \E i \in 1 .. 2 : WriteFile(c, i)

Next ==
  \/ \E t \in Threads : InCall(t) \/ \E c \in Contexts : NewCall(t, c)
  \/ \E c \in Contexts : Output(c)

Spec == Init /\ [][Next]_vars

\* Every thread goes on with its call, and the pools with their queues.  Nobody
\* has to call anything, and erase need not end: a pool's destructor may hang.
Fairness ==
  /\ \A t \in Threads : WF_vars(GoingOn(t))
  /\ \A c \in Contexts : WF_vars(PrintBulk(c)) /\ WF_vars(\E i \in 1 .. 2 : WriteFile(c, i))

FairSpec == Spec /\ Fairness

-----------------------------------------------------------------------------
\* The lines of a stream; ended: the last may lack its end.
LinesOf(s, ended) ==
  LET pieces == Pieces(s)
      complete == ended \/ pieces = <<>> \/ EndsLine(Last(pieces))
      number == IF complete THEN Len(pieces) ELSE Len(pieces) - 1
  IN  [k \in 1 .. number |-> LineText(pieces[k])]

\* The Terminator has been added.
Ended(c) ==
  c \in used /\ (c \notin bulkmgrs \/ \E t \in Callers(c) : pc[t] \in {"erase", "join"})

\* README.md: calls with different contexts must not interfere with each other,
\* the lesson's program works as before, and, as an option, calls may come from
\* any thread.  Whoever brings the chunks of a context, and wherever they are
\* cut, its bulks are those of its own stream: the chunks in the order in which
\* the calls got its mutex.
BulksByTheBook ==
  \A c \in Contexts :
    mtx[c] = None =>
      mgr[c].sent = BulksOf(LinesOf(stream[c], Ended(c)), BulkSize, Ended(c))

\* Every bulk is printed once, in order, and written once, and has been when
\* disconnect returns.
EveryBulkIsOutput ==
  \A c \in Contexts :
    /\ printed[c] \o coutq[c] = mgr[c].sent
    /\ Range(written[c]) \cup Range(fileq[c]) = Range(mgr[c].sent)
    /\ Len(written[c]) + Len(fileq[c]) = Len(mgr[c].sent)
    /\ c \in used \ bulkmgrs /\ Callers(c) = {} => Len(written[c]) = Len(mgr[c].sent)
                                                   /\ coutq[c] = <<>>

\* A thread inside a pool's destructor although nothing is left to output.
InJoin(t) == pc[t] = "join" /\ Drained(ctx[t])

\* erase waits for the output of one context with the lock of the map, which
\* every other call needs.  That wait, the two kinds of locks and an open line
\* hold nobody for ever: every call returns, unless some thread stays in a join
\* that has nothing to wait for (ThreadPool shows that it can, and then it takes
\* everybody along).
CallsReturnOrJoin ==
  \A t \in Threads : []<>(pc[t] = "idle") \/ <>[](\E u \in Threads : InJoin(u))
=============================================================================
