--------------------------------- MODULE BulkMt ---------------------------------
(***************************************************************************)
(* bulkmt of OTUSLesson19: the main thread reads lines and adds them to    *)
(* one BulkCmdManager, which keeps the main metrics and gives every bulk   *)
(* to a pool of one thread, "log", and to a pool of two, "file1" and       *)
(* "file2".  At the end of the input main keeps the text of its metrics,   *)
(* destroys the manager, whose pools finish and print theirs in the        *)
(* reverse order of their declaration, and prints its own.                 *)
(*                                                                         *)
(* The pools are what TaskPool promises, with the metrics of ThreadPool.   *)
(* The thread log and main both write to cout, an insertion at a time: the *)
(* line of a bulk and the metrics of a pool are several of them.           *)
(***************************************************************************)
EXTENDS BulkManager, Bulks

CONSTANTS BulkSize,  \* argv[1]
          MaxInput,  \* bound: the lines of the input
          None

ASSUME BulkMtAssumption == BulkSize \in Nat \ {0} /\ MaxInput \in Nat /\ None \notin Seq(Nat)

Pools == {"log", "file"}
Workers == {"log", "file1", "file2"}
PoolOf(w) == IF w = "log" THEN "log" ELSE "file"
Threads(p) == {w \in Workers : PoolOf(w) = p}

VARIABLES
  input,        \* the lines read so far
  mgr,          \* the manager
  main_metric,  \* main_metric_
  main,         \* what main does: read, destroy a pool (file, log), print, exit
  queue,        \* queue[p]: tasks_ of a pool
  cur,          \* cur[w]: the bulk a thread outputs, or None
  metrics,      \* metrics_[i] of the threads
  at,           \* the insertions of the line log is printing that are out
  row,          \* the insertions of the metrics main is printing that are out
  console,      \* the insertions on the console: of a bulk, of the metrics of a
                \* pool (file, log), of main's
  bulk_files    \* the bulks in files

mtVars == <<input, mgr, main_metric, main, queue, cur, metrics, at, row, console, bulk_files>>

MtInit ==
  /\ input = <<>>
  /\ mgr = NewManager
  /\ main_metric = [line_num |-> 0, command_num |-> 0, block_num |-> 0]
  /\ main = "read"
  /\ queue = [p \in Pools |-> <<>>]
  /\ cur = [w \in Workers |-> None]
  /\ metrics = [w \in Workers |-> [command_num |-> 0, block_num |-> 0]]
  /\ at = 0 /\ row = 0
  /\ console = <<>> /\ bulk_files = <<>>

-----------------------------------------------------------------------------
\* The main thread.

\* The counters GeneralStateHandler keeps: the first block is the one in which
\* the first command lies, the others are those that { begins.
GeneralCounted(metric, cmd) ==
  CASE cmd.type = "Base" ->
         [metric EXCEPT !.command_num = @ + 1, !.block_num = IF @ = 0 THEN 1 ELSE @]
    [] cmd.type = "StartCustomBulk" -> [metric EXCEPT !.block_num = @ + 1]
    [] OTHER -> metric

\* Mutant of CustomCounted: every } counts the commands so far.
CustomCountedAlways(metric, m, cmd) ==
  IF cmd.type = "StopCustomBulk"
    THEN [metric EXCEPT !.command_num = @ + Len(m.cur_bulk)] ELSE metric

\* CustomStateHandler counts the commands of a block when it ends.
CustomCounted(metric, m, cmd) ==
  IF cmd.type = "StopCustomBulk" /\ Outermost(m)
    THEN [metric EXCEPT !.command_num = @ + Len(m.cur_bulk)] ELSE metric

\* add_cmd, with what the handler and notify change.
Add(cmd) ==
  LET counted == [main_metric EXCEPT !.line_num = @ + IF cmd.type = "Terminator" THEN 0 ELSE 1]
      bulks == SubSeq(mgr'.sent, Len(mgr.sent) + 1, Len(mgr'.sent))
  IN  /\ mgr' = AddCmd(mgr, cmd, BulkSize)
      /\ main_metric' = IF mgr.handler = "general" THEN GeneralCounted(counted, cmd)
                        ELSE CustomCounted(counted, mgr, cmd)
      /\ queue' = [p \in Pools |-> queue[p] \o bulks]

\* One turn of process_all_commands.
ReadLine(text) ==
  /\ main = "read" /\ Len(input) < MaxInput
  /\ input' = Append(input, text)
  /\ Add(ToCommand(text, Len(input) + 1))
  /\ UNCHANGED <<main, cur, metrics, at, row, console, bulk_files>>

\* to_break; print_metric keeps the text; the manager is destroyed.
ReadEnd ==
  /\ main = "read"
  /\ Add(Terminator)
  /\ main' = "file"
  /\ UNCHANGED <<input, cur, metrics, at, row, console, bulk_files>>

\* Mutant of Finished: the thread that still outputs a bulk is not joined.
QueueEmpty(p) == queue[p] = <<>>

Finished(p) == queue[p] = <<>> /\ \A w \in Threads(p) : cur[w] = None

\* An insertion into cout; data is the bulk whose line it belongs to.
Piece(kind, part, data) == [kind |-> kind, part |-> part, data |-> data]

\* output_metrics: the beginning and the end of a line for each thread.
Insertions(p) == 2 * Cardinality(Threads(p))

\* ~ThreadPool: every bulk is output, the threads are joined, then the metrics
\* are printed.  file_tread_pool_ is declared last.  That join may hang is
\* shown in ThreadPool; then nothing of this happens.
DestroyPool(p) ==
  /\ main = p
  /\ Finished(p)
  /\ console' = Append(console, Piece(p, row, <<>>))
  /\ \/ row + 1 < Insertions(p) /\ row' = row + 1 /\ UNCHANGED main
     \/ row + 1 = Insertions(p) /\ row' = 0 /\ main' = IF p = "file" THEN "log" ELSE "print"
  /\ UNCHANGED <<input, mgr, main_metric, queue, cur, metrics, at, bulk_files>>

PrintMain ==
  /\ main = "print"
  /\ console' = Append(console, Piece("main", 0, <<>>))
  /\ main' = "exit"
  /\ UNCHANGED <<input, mgr, main_metric, queue, cur, metrics, at, row, bulk_files>>

-----------------------------------------------------------------------------
\* The threads of the pools.

TakeBulk(w) ==
  LET p == PoolOf(w) IN
  /\ cur[w] = None
  /\ queue[p] # <<>>
  /\ cur' = [cur EXCEPT ![w] = Head(queue[p])]
  /\ queue' = [queue EXCEPT ![p] = Tail(@)]
  /\ UNCHANGED <<input, mgr, main_metric, main, metrics, at, row, console, bulk_files>>

\* f.get() has returned: the counters of the thread.
Count(w) ==
  /\ metrics' = [metrics EXCEPT ![w] = [command_num |-> @.command_num + Len(cur[w]),
                                        block_num |-> @.block_num + 1]]
  /\ cur' = [cur EXCEPT ![w] = None]

\* CmdStreamHandler::update: an insertion before the commands, one for each
\* (the comma goes with it) ...
InsertText ==
  /\ cur["log"] # None
  /\ at <= Len(cur["log"])
  /\ console' = Append(console, Piece("bulk", at, cur["log"]))
  /\ at' = at + 1
  /\ UNCHANGED <<input, mgr, main_metric, main, queue, cur, metrics, row, bulk_files>>

\* ... and the end of the line.
InsertEnd ==
  /\ cur["log"] # None
  /\ at = Len(cur["log"]) + 1
  /\ console' = Append(console, Piece("bulk", at, cur["log"]))
  /\ at' = 0
  /\ Count("log")
  /\ UNCHANGED <<input, mgr, main_metric, main, queue, row, bulk_files>>

\* CmdFileHandler::update.
WriteBulk(w) ==
  /\ w # "log" /\ cur[w] # None
  /\ bulk_files' = Append(bulk_files, cur[w])
  /\ Count(w)
  /\ UNCHANGED <<input, mgr, main_metric, main, queue, at, row, console>>

MainThread ==
  \/ \E text \in Text : ReadLine(text)
  \/ ReadEnd
  \/ \E p \in Pools : DestroyPool(p)
  \/ PrintMain

MtNext == MainThread \/ InsertText \/ InsertEnd \/ \E w \in Workers : TakeBulk(w) \/ WriteBulk(w)

MtSpec == MtInit /\ [][MtNext]_mtVars

-----------------------------------------------------------------------------
\* OTUSLesson13/README.md: commands are handled in blocks of N, an outermost
\* { } is a block of its own whatever is nested in it, a block that never ends
\* is ignored and the end of the input ends any other.  The state machine that
\* sees one line at a time makes just these bulks of every input.
BulksByTheBook == mgr.sent = BulksOf(input, BulkSize, main # "read")

\* OTUSLesson19/README.md's example: at the end main and the two pools count
\* the same commands, and the pools the same bulks, although main counts them
\* before it is known whether a block will be dropped, and every thread its own
\* without a lock.
MetricsAgree ==
  main = "exit" =>
    /\ metrics["log"].command_num = main_metric.command_num
    /\ metrics["file1"].command_num + metrics["file2"].command_num = main_metric.command_num
    /\ metrics["log"].block_num = Len(mgr.sent)
    /\ metrics["file1"].block_num + metrics["file2"].block_num = Len(mgr.sent)

\* The lines of bulks begun up to the i-th insertion.
Begun(i) == {j \in 1 .. i : console[j].kind = "bulk" /\ console[j].part = 0}

\* The j-th is the last insertion of a bulk before the i-th.
LastBefore(j, i) ==
  /\ j \in 1 .. i - 1 /\ console[j].kind = "bulk"
  /\ \A k \in 1 .. i - 1 : console[k].kind = "bulk" => k <= j

EndsLine(e) == e.part = Len(e.data) + 1

\* The n-th line of a bulk is the n-th bulk's, the thread log puts its pieces
\* out in order and begins no line before the last one has ended; the metrics of
\* the files, printed by main meanwhile, are all that can come between.  The
\* log's metrics follow the last line, main's are last, and then the files have
\* every bulk, once.
OutputComplete ==
  \A i \in DOMAIN console :
    LET e == console[i]
        no == Cardinality(Begun(i))
    IN  /\ e.kind = "bulk" =>
             /\ no \in DOMAIN mgr.sent /\ e.data = mgr.sent[no]
             /\ e.part > 0 => \E j \in DOMAIN console : LastBefore(j, i) /\ console[j].part = e.part - 1
        /\ e.kind \in {"log", "main"} \/ (e.kind = "bulk" /\ e.part = 0) =>
             \A j \in DOMAIN console : LastBefore(j, i) => EndsLine(console[j])
        /\ e.kind = "log" =>
             /\ no = Len(mgr.sent)
             /\ \A j \in DOMAIN console : j > i => console[j].kind \in {"log", "main"}
        /\ e.kind = "main" =>
             /\ i = Len(console)
             /\ Range(bulk_files) = Range(mgr.sent) /\ Len(bulk_files) = Len(mgr.sent)

\* OTUSLesson19/README.md wants the output of bulk, a line for each bulk, with
\* the metrics at the end of the program's work.  But the pool of the files may
\* be done while log is in the middle of a line, and main prints its metrics there.
LinesAreWhole ==
  \A i \in DOMAIN console :
    console[i].kind # "bulk" =>
      Cardinality(Begun(i))
        = Cardinality({j \in 1 .. i : console[j].kind = "bulk" /\ EndsLine(console[j])})
=============================================================================
