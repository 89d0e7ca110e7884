# A TLA+ verification of OTUSCppCourse

The repository is one C++ course: sixteen lesson projects and a course work,
most of them small, some of them concurrent.  This directory holds TLA+ models
of them, the TLC configurations that check the models on small instances, and
proofs, checked by TLAPS, of what holds for every instance of the concurrent ones.
Paths below are relative to `src/`.

## 1. Inventory

Every component, the state it keeps, its operations, with whom it interacts,
what is hard about it, and what makes it correct.

### Concurrent components

**ThreadPool** (`OTUSLesson19/thread_pool.h`, `.cpp`; the same class without
metrics in lessons 21, 23, 25 and the course work).
State: a queue of futures, the mutex `cv_m_`, `condition_`, the atomic `quit_`,
the threads, a metrics record per thread.  Operations: `addTask` from any
thread, the worker loop, the destructor.  Every other concurrent component hands
it work.  Hard: `quit_` is written and `notify_all` called without the mutex;
`addTask` notifies after it has unlocked; `addTask` may race the destructor.
Correct: tasks start in the order they were accepted and none is stranded, a
queued task never waits while all workers sleep, metrics add up, the destructor
returns.

**Matrix calculation** (`OTUSCppCourseWork`): `CalcTaskMgr` (a pool, a task
generator, a list of subscribers), `ResultSaver`/`StreamSaver` (a vector of
shared pointers, a thread, a file or stream), `PercentLogger` and `StreamLogger`
(subscribers no program creates), `TaskGenerator` (floating-point stand-ins).
`run` posts a task per thread; task *k* calculates lines *k*, *k + threads*, ...;
each line is handed to the subscribers on the worker that calculated it.
Hard: the saver's vector is written by workers without its mutex while the saver
scans it; `notify_one` without the mutex; the members' order of destruction.
Correct: the file has every line, in order, once, read from live memory; no
worker calls a destroyed subscriber.

**bulk_server** (`OTUSLesson23`): an asio server with one io thread; `async.cpp`
keeps one `CommandProcessor` per connection (line buffer, `BulkCmdManager`, a
pool of one thread that prints and one of two that write files).  The managers
share the static `general_bulk_`.  Operations: connect, receive, disconnect, and
below them `{`, `}`, a command, `Terminator`.  Hard: the shared bulk, nested
blocks, lines cut by chunks, disconnect in the middle of any of this, output
still queued when a connection dies.  Correct: no command is lost, doubled or
reordered within its client; blocks are not mixed; every bulk is printed once and
written once.

**async library** (`OTUSLesson21`): the same three functions as a library with
contexts called from several threads (tests and examples in its `main.cpp`).
State: a locked map of contexts.  Hard: a context is looked up under the lock and
used outside it; creation and erasure from other threads.

**bulkmt** (`OTUSLesson19/bulk.*`): one manager, two pools with metrics, main
metrics in the reader's thread.  Hard: the pools die one after the other and main prints
their metrics meanwhile, into the same `cout` into which a thread puts the line of a bulk
piece by piece; agreement of the three metrics.

**join_server** (`OTUSLesson25`): one io thread runs the handlers of the acceptor and
of all connections.  A connection's `RequestHandler` has a parser with a buffer, a pool
of four threads of its own, a queue of responses and a mutex `mtx_`; the database has
two tables and a shared mutex.  What one read delivers is parsed by the io thread and
posted to the pool as one batch, which runs under `mtx_`.  Hard: batches on several
threads, the io thread popping the queue they push into, `insert` under a shared lock,
`pool_.join()` in the handler of a read error with batches that hold only `this`, the
parser's buffer.  Correct: each command is answered once, the answers of a batch stay
together, one write is under way at a time, ids are unique, no handler or row is freed
in use, everything ends.

**yamr** (`OTUSLesson27`): mapper tasks on sections of a file, a merge, a hash,
reducer tasks; on top of it the shortest distinguishing prefix.  Hard: sections are
cut at line ends found by seeking, and short files make them meet; the reducers
compare a line with the one before, which only sorted lists with equal lines together
allow.  Correct: sections are of whole lines, every line is mapped, and the greatest length printed
is that of the shortest prefix that tells all lines apart.

### Sequential components

- **bulk** (`OTUSLesson13`): the single-threaded ancestor of bulkmt; files are
  named by the second.
- **Sparse matrices** (`OTUSLesson11`): list-of-lists, map and N-dimensional map, with
  a default value that is never stored, and sizes kept beside the data.  Correct: they
  hold what was last written, whatever was copied from what.
- **Radix tree** (`OTUSLesson15`): insert splits labels; find; a picture of the tree.
  Correct: it holds the words inserted; find gives the shortest telling beginning.
- **bayan** (`OTUSLesson17`): files compared block by block, hashes cached per file, the
  file closed between comparisons.  Correct: a group is of identical files, and of all of them.
- **ip_filter** (`OTUSLesson3`, `OTUSLesson5`): parse, sort and filter addresses.
  Correct: binary searches on a sorted pool find what a filter finds.
- **Allocators and list** (`OTUSLesson07`): a list over a chunked, a flat or the standard
  allocator.  Correct: no node is in two lists, no block is lost, freed twice or used once
  freed, moved-from lists included.
- **Realty** (`OTUSLesson31`): `rclst` clusters offers and saves a classifier and the
  offers in two files, `rclss` answers queries from them, `rcl_test` counts.  Hard: short
  lines, precision lost by printing, two files written one after the other.
- **print_ip** (`OTUSLesson09`), **clustering** (`OTUSLesson29`, dlib), **build exercises**
  (`OTUSLesson1`, `OTUSTest`): no state worth a model.

`PROJECT.json` lists the components with their modules and, under `hazards`, the
source line of everything above called hard.

## 2. Plan

In order of importance; all of it is written.

| | modules | composes | abstract specification |
|-|---------|----------|------------------------|
| 1 | `ThreadPool`, `ThreadPoolProofs` | | `TaskPool` |
| 2 | `ResultSaver`, `CalcTaskMgr`, `CalcTaskMgrProofs` | `TaskPool`, `ResultSaver` | `OrderedOutput` |
| 3 | `BulkCmdManager`, `BulkServer`, `BulkServerProofs` | `BulkCmdManager`, two queues a client | |
| 4 | `BulkManager`, `BulksProofs`, `BulkMt`, `BulkMtProofs`, `AsyncLibrary`, `AsyncLibraryProofs` (lessons 13, 19, 21) | a manager and two queues | `Bulks`, the bulks of an input |
| 5 | `Database`, `DatabaseBySteps`, `JoinServer`, `JoinServerProofs`, `ExercisesProofs` (lesson 25) | `Database`, a pool a connection | the joins of two sets |
| 6 | `Yamr` (lesson 27) | | the lines of a file |
| 7 | `SparseMatrix`, `AllocatorList`, `RadixTree`, `FileCompare`, `IpFilter`, `Realty`, `ExercisesProofs` (lessons 11, 7, 15, 17, 3 and 5, 31) | | a function, a sequence, a set, a partition, a filter, a relation |
| | `Exercises` | 6, 7 and `DatabaseBySteps`, one at a time | |

What is left: theorems of yamr, the radix tree, ip_filter and Realty, whose properties
are only model-checked; the command line and file selection of bayan; the file names of lesson 13.

## 3. The modules

### ThreadPool

One variable per field (`mutex` is `cv_m_`, `tasks` the queue, `quit` the atomic)
and one program counter per worker, caller and destructor.  A critical section is
one step unless something outside the mutex can fall into it.  Two do: a worker
which has found the predicate false and is not blocked yet (`Doze`, then
`Sleep`), and a caller that has read `quit_` and not pushed yet (`AddLock`, then
`Emplace`); the destructor's `SetQuit` and `NotifyAll` fit in between since they
take no lock.  `condition_.wait` releases and blocks atomically and may wake
spuriously.  `Take` needs no look at `quit_`: with a task in the queue the
predicate holds and the loop does not return.  A task is a model value; `Size[t]`
is what its `get()` returns to the metrics.  Callers can still be in `addTask`
when the destructor starts and not after it has returned.

`TaskPool` is the promise: accepted in an order, started in that order by an idle
worker, finished, closed when nothing is left.  `ImplementsTaskPool` maps
`taken` to the number of popped tasks, `running` to `cur` and `closed` to the end
of the joins; liveness included.

### ResultSaver, OrderedOutput

`StorePointer`, `StoreCount`, `NotifyOne`, `Return` are `update` and the end of
`CalcTaskMgr::notify`, which keeps its own `shared_ptr` for the time of the call.
The slot is written by a move assignment of a `shared_ptr` while the saver reads
it, which is a data race: the model lets every build outcome of the two-word store
be seen, first the pointer, later the counter (that order is how libstdc++ writes
them, and the harmful one).  `owners[l]` says who keeps line *l* alive; a counter
stored after the saver took the pointer leaks the line and never frees it early.
The saver's mutex is held by the saver alone, excludes nobody, and is left out.
`OrderedOutput` is the promise: what was handed over is written in order, without a
gap.

### CalcTaskMgr

`EXTENDS` the pool's promise and the saver's detailed module and adds `run`, the
task's loop and the destruction in the order of the members (`calc_task_mgr.h`:
the pool is declared last, so destroyed first).  A task is its `first_task_num`,
the callers of `update` are the pool's workers.  The pool's destructor is `Close`
of `TaskPool`.

### BulkCmdManager, BulkServer

`BulkCmdManager` has the two state handlers, one operator per handler and command
type, with the flush and notify they call, and the pools' queues.  `BulkServer` has
the io thread: `io` names the handler it is in, so only pool steps interleave with a
handler, as with `io_context.run()` called by one thread (`main.cpp`).  Locks of
`async.cpp` and `bulk.cpp` are not contended on one thread and left out; they
belong to lesson 21.  What arrives is abstracted to chunks that end the open line, or
start one line with or without its end.  A longer chunk is several of these with
no other client in between, hence among the behaviours.  Commands carry who sent
them and in which of the sender's blocks: history the code does not read.
A pool's thread prints in order; the two file threads may overtake each other by one.
Erasing a connection destroys its pools, whose destructors wait for the queues
(`Drained` is what they wait for).  That they return then is not promised: `join` may
hang (violation 1 below), so the step `Erase` has no fairness, and `HandlersReturnOrJoin` says
that a handler returns unless the io thread stays in that join (`InJoin`).

### Bulks, BulkManager, BulkMt

`BulkManager` is the state machine of lesson 13 as a value: a record of the fields of
`BulkCmdManager`, an operator per method, `sent` for what `notify` passes on.
Lessons 19 and 21 have the same two handlers and differ in what `notify` does.
`Bulks` is the reference: `BulksOf` says from an entire input, without going through
it, which commands make a bulk: those of one outermost block that ends, and
those outside cut by size, by the next `{` and by the end of the input.  `BulksProofs`
proves that the two agree.

`BulkMt` is `main` of lesson 19: the reader's loop over standard input (`ReadLine`,
`ReadEnd`), the counters of the handlers (`GeneralCounted`, `CustomCounted`), the two
pools with their metrics, and the end in its order: main's metrics are kept as text,
the pool of the files dies and prints its metrics, then the log's, then main
prints.  A task is its bulk.  Two threads use `cout`, and what one `<<` puts out is all that
stays together: `InsertText` is the beginning of a bulk's line and each of its commands,
`InsertEnd` the end of the line, `DestroyPool` one insertion of a pool's metrics (the name
and the counters of a thread, or the end of that line).  A comma goes with its command and a
line of metrics is two insertions instead of six: finer pieces mix in the same way.  `main_metric.block_num` counts the first command
and every outermost `{`, which is not the number of bulks in general; the example in
`OTUSLesson19/README.md` is a single block, where it is, and `MetricsAgree` relates
what agrees on every input.

### AsyncLibrary

A thread is in a call (`pc`, `ctx`, `arg`) or idle.  `Find` is the look-up under the
shared lock of the map (`contains` and `operator[]`; between the two nothing can
change, for the thread keeps its context alive); `Push`, `ReadCmd`, `AddRead`,
`EndReceive` are `receive` under the processor's mutex, one step a turn of the loop
so that a missing mutex would show; `Rest`, `Terminate`, `EraseLock`, `EraseEnd` are
`disconnect`, in which `erase` keeps `data_mtx_` while the two pools are joined.
Text is cut into pieces by `find('\n')` as in `pushToBuffer`; a character stands
for any text without an end of line.  The user keeps to what the last example of
`main.cpp` does: any thread may receive with a context, and it is disconnected when no
other call with it is on its way.  A call with a context that is gone
returns without doing anything, and threads make such calls in the model.
A pool that hangs in its destructor (violation 1 below) hangs here with the
map locked, hence every thread in its next call.  `EraseEnd` has therefore no fairness, and
`CallsReturnOrJoin` says that every call returns unless some thread stays in such a join.

### Database, JoinServer

`Database` has the tables as sets of rows and the two joins as their code computes
them, both tables walked side by side; the tail loop that is missing for the first
table is missing here.  `DatabaseBySteps` runs the commands one at a time.

In `JoinServer` a client sends the text of a script of commands; `Read` takes up to
`MaxRead` characters of what is left and does what the handler of `async_read_some` does
in one go: parse, with the buffer, and post one batch.  A pool's thread takes a batch and
waits for `mtx_` (`LockBatch`), then answers command by command (`Answer`), which starts
a write if there is none (`StartsWrite`).  Commands that work on the tables are two steps
each where another thread may come between: `InsertSearch` and `InsertLink` under the
shared lock, `JoinBegin` and `JoinEnd` under the shared lock, `Truncate` alone under the
unique lock.  Two threads that change one `std::map` at once race; the outcome that
is modelled is that both find the place free and both link their row.  The io
thread, having written, waits for `mtx_` (`Written`, then `PopFront`), or having seen a
read error, joins the pool (`ReadError`, then `Joined`).  The pool is `boost::asio`'s, whose
`join` returns once what was posted has run; the class that stands in for it with old versions
of boost, whose `join` does not set `quit_`, is left out.  Who owns the handler is not stored: `shared_from_this` is held by the
pending read or write and by the handler being run, and by no batch, so `Owned` is read
off the state.

### Exercises

Nine modules share nothing but the run; `exercise` chooses one, which then runs alone.
Where the code departs from what the repository's documents ask, the model follows the
code, the property asks for what the document asks everywhere else, an assumption of
`MCExercises`, which TLC evaluates, shows an instance of the departure, and a finding
quotes the document (see "Departures from the documents" below).

- `SparseMatrix` writes to the three matrices side by side: `Assign` through the proxy
  `m[i][j] = v`, `CopyCell` with a cell on the right hand side.
- `AllocatorList`: nodes are places in blocks `malloc` has returned.  Each constructor
  of `MyList`, with the allocator it copies, moves or makes.  A list that has been moved from
  is copied, moved, appended to and destroyed like any other, with what `MovedFrom` leaves in its
  allocator: the flat one throws, the chunked one gives a node of a chunk that is not its own any
  more.  `misused` records that; what follows is not asked about.
- `RadixTree`: `Inserted` is `insert_recursive`, `Find` is `find`, `Values` and
  `TreeStructure` are the picture.  The order of an `unordered_map` is left open
  for every node with several children.
- `FileCompare`: a `FileHasher` is its cache and the position and state of its stream, which
  is closed after each comparison and seeks when it is opened again.  Hashes may collide; a
  file may be unreadable, and then equals any of its size (`file_hasher.cpp:85`).
  `DuplicatesByTheBook` wants no identical files missed and no others grouped, where the files can be
  read.  The loops of `readBlock`, `operator==` and `compare`
  (`Filled`, `Walk`, `Search`) are functions of the turn, which leave the result alone once
  the code has left the loop; the blocks a loop may read are bounded by the bytes.
- `IpFilter`: both programs on one input.  A number keeps its width of 8 bits.
- `Yamr`: `Split` follows the stream through `seekg` and the failure after the end of the
  file, which all later boundaries inherit.  Where a line is cut twice (`CutTwice`) sections come
  out empty or start inside it; `EveryLineMapped` wants whole lines, each mapped once, for all other
  files, and no line lost for any.  The hash is any function; with several reducers
  `PrefixSizeByTheBook` wants the least length if some list `decides` it and no number above it
  otherwise, since `GetMinUniquePrefixSize` caps what it prints by the longest string of its own list.  The other reducers of `min_prefix.cpp` are run on
  the same lists.
- `Realty`: a line is its fields; printing keeps a constant number of digits (6 in the
  code, 2 in the instance).  Entries that are never assigned hold 0 or what a pointer looks like
  as a double.  `Rclst` ends before the files, between them, or after both; `rclss` only
  reads, so `ResForCluster` is an operator.  The clustering is any, the prediction any
  cluster the classifier has learned.  `Offer` is what the README wants of a line, its flag 0 for a first or
  last floor; `DoubtfulFloor` are the lines for which the code has another.  Nearest is by the coordinates that were
  read, for offers that printing has not `Moved`.
- `DatabaseBySteps`, and `BulkMt`, see above.

## 4. The runs

| run | instance | distinct states | shows |
|-----|----------|-----------------|-------|
| `thread_pool` | 2 workers, 2 callers, 3 tasks | 26 thousand | order, nothing stranded, no lost wakeup of `addTask`, metrics, `TaskPool` with its liveness, the destructor returns unless its `notify_all` met a worker before its sleep |
| `thread_pool_shutdown` | 1 worker, 1 caller | | **violation**: the destructor can wait for ever, the metrics are not printed |
| `matrix` | 2 workers, 4 lines | 28 thousand | file in order, live memory, order of destruction, strides, `OrderedOutput`, completion if the last notification was not missed |
| `matrix_last_line` | the same | | **violation**: the saver can sleep through the last line |
| `bulk_server` | client a with 4 lines, b with 1, bulks of 2 | 102 thousand | nothing dropped but what the protocol drops, order, whole blocks, all output done, a handler returns unless it stays in a join |
| `bulk_server_close` | the same | | **violation**: the shared bulk can outlive all connections |
| `bulkmt_lines` | inputs of up to 3 lines, bulks of 2 | | **violation**: the metrics of the file pool come inside the line of a bulk |
| `async` | 2 threads, contexts h1 (2 receives) and h2 (1), 3 chunks | 177 thousand | each context's bulks are those of its own stream, all are out when `disconnect` returns, every call returns unless some thread stays in a join |
| `join_server` | 2 clients, 3 pairs of scripts, commands cut anywhere, pools of 2 | 418 thousand | answers by batch, one write at a time, no handler and no row freed in use, everything drains |
| `join_server_answers` | one insert each, texts of 2 parts | | **violation**: a split command is answered twice |
| `join_server_keys` | two inserts of one id | | **violation**: both are accepted |
| `exercises` | small inputs, see below | 337 thousand | the sequential programs do what a definition of their result says; for every input of `bulkmt` the bulks are those of `Bulks`, three metrics agree, the output is complete and in order before its metrics |

### What the violations are

1. `~ThreadPool` sets `quit_` and notifies without `cv_m_`.  A worker that evaluated
   the predicate before and blocks after misses both; `join` does not return.
   `OTUSLesson19/README.md` wants the metrics printed at the end of the program.
2. `ResultSaver::update` stores and notifies without the mutex.  The same window for
   the last line of the matrix: the file is incomplete and `~ResultSaver` hangs.
   `OTUSCppCourseWork/test_course.cpp` expects all lines.  For earlier lines the next
   notification repairs it, which is why `AwakeSaverFinishes` is what holds.
3. `disconnect` gives the `Terminator` to the manager that leaves last.  If that
   client is inside `{ }`, the custom handler drops its own bulk and the shared
   one stays; the README wants commands received before a close not lost.
   `LastOneFlushes` is what holds: it happens in no other case.

4. A command that arrives in two reads is completed in the parser's buffer and run, and
   then the loop of `parseCommands` goes on with the same read, whose beginning it takes
   for another command: one more answer, `ERR`.  With three reads the middle part is lost.
   `OTUSLesson25/README.md` promises one answer to each command.
   `AnswersByBatch` is what holds.
5. `DataBase::insert` changes the table under a shared lock.  Two clients that insert one
   id at once can both be answered `OK`, though the README calls `id` a primary key.
   `NoRowFreedInUse` is what holds: only `truncate` takes the lock alone, and it is the
   only one that frees.
6. In `bulkmt` the pool of the files may be done while the thread `log` is in the middle of a
   line: main prints that pool's metrics there.  `OTUSLesson19/README.md` wants the output of
   `bulk`, a line for each bulk, and the metrics at the end.  `OutputComplete` is what holds: the
   pieces of each line come in order, the log's metrics follow the last line and main's are last.

### Departures from the documents

Shown by the assumptions of `MCExercises` (the first seven) or allowed for by
`DuplicatesByTheBook` (the last), each with a finding:

- `NodeGivenTwice`: a chunk allocator that was moved from gives out the node the one it was
  moved to gives out next (`chunk_allocator.h:29`);
- `CornerBeforeTheLast`: of the tree that `OTUSLesson15/README.md:75-83` draws, the code draws
  "maksim" with a corner (`print_rt.cpp:50`);
- `EmptySection`, `SectionInsideALine`: sections that are not of whole lines
  (`OTUSLesson27/README.md:9`, `file_utils.cpp:59`);
- `OneTooSmall`: two reducers print a length with which lines are not told apart
  (`OTUSLesson27/README.md:16`, `min_prefix.cpp:79`);
- `RestOfTheLeft`: the symmetric difference lacks the ids of A beyond the last of B
  (`OTUSLesson25/README.md:45-55`, `database.cpp:71`);
- `FirstFloor`: an offer of a first floor gets the flag 1 (`OTUSLesson31/README.md:16`,
  `input_parser.cpp:31`);
- `NearestNotFirst`: offers are sorted by what printing has left of their coordinates
  (`OTUSLesson31/README.md:36`, `input_parser.cpp:70`);
- a file that cannot be read is a duplicate of any of its size, and a lone empty file is a
  group (`OTUSLesson17/TASK.md:14, 75`, `file_hasher.cpp:85`, `file_cmp.cpp:60`).

### Bounds, and why they are enough

- Two workers are the least that make overtaking, and a notification that wakes
  the wrong thread; two callers the least that contend with each other and with the
  destructor; three tasks let one be run, one queued, one being pushed.
- Four lines on two workers give each task two turns of its loop, and the saver
  batches of one, of several and interrupted ones.
- Bulks of two make a bulk of one client, a shared bulk and an unfinished one
  possible.  Four lines of one client nest a block in a block with the closing `}` of
  the inner one and leave the outer open, or close a block with one or two
  commands in it; one line of the other is a share of the common bulk, or opens a
  block, which flushes it.  `MaxLines` is the only bound in a guard.
- The four lines of `bulkmt` have a block in a block, an unclosed and a surplus `}`, and with
  bulks of two both a full and a short bulk beside a block; longer inputs are the proof's.  Three
  are enough for a line of the log that is still being printed when the files are done.
- The chunks of `async` cut a line, end it, open a block with it, end a block and
  have one `}` too many; two receives with h1 by one or two threads contend for its
  mutex while the other context connects, receives and is erased.
- The scripts of `join_server` let inserts of one id race, joins run beside inserts and a
  truncate, and a table not exist; with a piece and an end of line a command, reads of up
  to four characters deliver a command whole, cut, or together with the next.  Pools of two
  instead of four: `mtx_` lets one batch run and the other wait, more only wait with it.
- `exercises`: six cells and two values; two lists of three nodes over blocks of two, up to
  three blocks; up to four words that are each other's beginnings, part at each place of a
  label and at one three ways; three files of up to two blocks, half of them equal but for
  the last byte, with a hash that collides; three lines of addresses of which each filter
  meets some and misses some; files of up to five characters in up to three sections, which
  are enough for an empty section, one inside a line and one past the end; tables of three
  ids; three offers in two clusters, of eight lines of which printing moves three together and
  one is of a first floor.
- None of the bounds hides a counter: every counter of the code grows only with the
  tasks or lines handed in.

### Fairness

Threads that can run do (weak fairness of every step of a worker, of a caller
once inside a call, of the io thread inside a handler, of
a pool's thread with a queue): the operating system schedules all threads, and a mutex is held for a bounded
time in every model.  There is none for a spurious wakeup, for a call (nobody has
to call `addTask`, connect, send or leave), for `SetQuit` (nobody has to destroy
a pool) and for the return of any `~ThreadPool` (it may hang, violation 1): not for `Close` of the
pool inside `CalcTaskMgr`, for `Erase` of `BulkServer` or for `EraseEnd` of `AsyncLibrary`;
`bulkmt` has no liveness property.  So no liveness result rests on a wakeup the standard does
not owe, and `HandlersReturnOrJoin` and `CallsReturnOrJoin` name the join that a thread may stay in.
The pool of `join_server` is boost's, not this class.

In `join_server` the threads of a pool and the io thread run, and the network completes a
pending write or reports its failure; no client has to send anything or to leave.
In `async` the calls are bounded, so nobody can be overtaken at a mutex for ever and
weak fairness is enough.

`CHECK_DEADLOCK FALSE` everywhere: every system ends (pool destroyed, manager
destroyed, all clients gone, input read, no calls left), and the hangs of the violations are end states too.
Where a hang would be wrong a liveness property says so.

## 5. The proofs

For all sets of callers, tasks, clients, threads and contexts, finite or infinite, all
finite sets of workers, and every number of lines, size of a bulk and input.  The
assumptions are the modules' own:

- `ThreadPoolAssumption`: there are workers, finitely many (the constructor takes their
  number), threads differ, `None` is none of them;
- `ResultSaverAssumption`, `MaxLinesAssumption`: numbers are natural numbers;
- `BulkMtAssumption`, `AsyncAssumption`: a bulk has at least one command (a size of 0,
  which the code compares with `==` and so never meets, is no size any README describes), `None` is no bulk and no thread, and a chunk is a text that is not
  empty (the loop of `pushToBuffer` has no turn for an empty one);
- `JoinServerAssumption`: pools have threads, and scripts have a length;
- `AllocatorListAssumption`: a block of the chunked allocator has at least one node;
  `SparseMatrixAssumption`: rows and columns are numbers, any of them; `DatabaseAssumption`: ids are
  integers and names are ranked, of any number (a table is finite because it was filled by steps);
  `FileCompareAssumption`: a block has at least one byte (the constructor of `FileHasher` throws
  otherwise), files hold numbers, and `MaxFiles` is one.

All eight modules cite the library's facts on sequences, finite sets and well-founded orders.

**`ThreadPoolProofs`.**  The safety properties are not inductive: that a worker
left with an empty queue says nothing about a caller on its way to push.  `IInv`
adds *InHand* (what is in a worker's or caller's hands, by program counter),
*MutexHeld* (who holds `cv_m_` across a step; the queue stays empty under a dozing
worker), *ArgsAreFresh* (a callable is pushed once) and *Destructor* (`quit_` is
set by it only, and it returns after all workers).  `NothingStranded` then follows
step by step: `Exit` needs the mutex, hence no caller is between its check and
its push, and from then on `quit_` refuses all others.  Two lemmas, `PushKeepsOrder`
and `PopKeepsOrder`, carry the sequence algebra.  `Inductive` is proved from one
lemma per process, one step per action; `TypeCorrect`, `PoolIsFirstInFirstOut`,
`PoolStrandsNothing`, `PoolNoticesWork` follow from it, and so does
`PoolRefinesTaskPool`: each step is a step of `TaskPool` or none.

The metrics are counted by each worker for itself, so `MetricsAddUp` is about a sum over the
workers and a sum over the tasks.  `Total` is what a sum over a finite set is, a fold in
the order in which `CHOOSE` picks; that the order does not matter, and that one changed
value changes the sum by as much, is proved once, by induction over the subsets.  `WorkInv`
says that a task that was started is either in `done` or in the hands of exactly one worker,
`CountInv` that the workers together have counted what is in `done`.

**`CalcTaskMgrProofs`** begins with the saver.  Its `IInv` has *Progress* (how long the file is at each point
of the saver's loops), *Slots* (a slot is null only before its line arrived or
after it was taken, and all before the end of a scan arrived), *Alive* (who owns a
line at each point) and *Numbered*.  From it `SaverKeepsOrder`,
`SaverReadsLiveMemory` and `SaverRefinesOrderedOutput` follow.  These suppose
callers that hand over each line at most once.

The rest of the module discharges that supposition.  `MInv` has *TasksInOrder* (tasks
start in the order of their numbers, each on one worker), *NextLines* (the next
line of task *k* is in its stride, *k* + *m* × threads), *HandedOver* (a line has been
handed over exactly when its task has passed it or a worker is in `update` with it),
*Finished* and *PoolGone* (what is true once tasks have ended and the pool is
destroyed).  The arithmetic of strides is in lemmas of its own.
`StridesAreDisjoint` is then `DisjointStrides` for every number of threads and lines,
`TasksRespectSaver` says that every step of the whole program is a step of `ResultSaver`
or none, so that `MatrixInOrder` takes the saver's theorems over to the program,
and `PoolDiesFirst` proves `SubscribersOutliveCallers`: when the subscribers may be
destroyed every line has been handed over and no worker is in `update`.

**`JoinServerProofs`.**  That a handler outlives its batches needs to know where batches
come from: *BatchesHaveOwner* says that a client's queue and threads hold batches only
while its connection reads or its io handler is in `join()`, and that a thread is in the
database only in a batch.  One write at a time needs to know where the writes are:
*WritesInv* adds that the io thread waiting for `mtx_` waits with the response it will
pop, and that a failed write leaves its response behind, so that a thread which finds the
queue empty may start one.  *RowsKept* carries the type of the history of rows, whence
`NoRowFreed`: a step that takes a row away finds the unique lock free, and nobody in the
tables.  The answers (`AnswersComeByBatch`) come from four
accounts of one connection, kept in *BatchesOk*: the batches that wait have numbers not
answered yet, all different; the one that runs is none of them, and the answers given to it
are the last ones, up to the command before the next; when none runs, the last answer was the
last of its batch.  It is about what was written followed by what waits in
`responses`, so that a step that moves an answer from one to the other changes nothing.
All four hold for any clients, scripts, pool sizes and cuts.

**`BulkServerProofs`.**  The managers are behind their clients by what is in the buffers, so no
variable says what a manager has seen.  The invariant is therefore `\E done : Inv(done)`,
where `done[c]` is what client *c* had sent up to the last line its manager has handled.
*Lines* ties `done` to the buffer (the lines in it are those sent since; at most one of them
lacks its end, and between two handlers no other is there) and to the state handler: the
nesting of the manager is the depth of `done`.  *ContentOk* says of which clients and blocks
the shared bulk, the custom ones and the flushed ones have commands (the shared bulk has none of a
client that is inside a block, which is why a block flushes nobody twice), *OrderOk* that no flushed
bulk has a later command of a client than a bulk still open, *OutputOk* that a bulk is in one
queue or out, *LastOk* that the last to leave has flushed unless it was in a block.  A
handler's step is taken apart by `BulkCmdManager`'s operators: one lemma for a command, an
opening and a closing brace and a `Terminator` in each state, used by all handlers.
`NothingDroppedHolds`, `ClientOrderHolds`, `BlocksAreWholeHolds`, `EveryBulkIsOutputHolds` and
`LastOneFlushesHolds` follow.

**`BulksProofs`.**  That the state machine of lesson 13, which sees a line at a time, makes
the bulks that `Bulks` reads off an entire input is a statement about all inputs, and its two
sides have nothing in common but the input.  In between stand three sets: of an input *s*,
`Closed` are the bulks that no later line can change, `Open` the commands of the one that can,
and `Cut` says how the next line moves commands between them (`CutEmpty`, `CommandInBlock`,
`CommandOutside`, `OpeningBrace`, `ClosingBrace`, `BlockEnds`, `BraceInside`).  On the other side
`Makes` says what a manager that has sent `Closed` and holds `Open` does with a command.
`Book(m, s, size)` puts them together: the manager *m* is where the input *s* leaves it.
`BookEmpty` and `BookGrows` are its induction along the input, which the steps of a
specification supply; `BookSays` reads `BulksOf` off it.  `Depth` is a
recursive function and the order of commands is a matter of counting; the inductions these
need are a least counterexample, which `LeastNumber` provides.

**`BulkMtProofs`.**  `MetricsAgree` compares counters of three threads that none of them
ever reads together.  The invariant has the running totals of the bulks' lengths, *f[n]* for
the first *n* bulks, `\E f : Inv(f)`: what a pool's threads have counted and what they hold
add up to *f* of what the pool has given out (*CommandsOk*, *BlocksOk*), what main has counted is *f*
of all bulks and the open one outside of blocks.  *LogOk*, *FilesOk* and *ConsoleOk* account for each
bulk on its way and for each insertion (the bulk's line it belongs to, and the one before it of the same
line, which the metrics of the files may separate from it), *MainOk* for what main knows to be finished.  `MetricsAgreeHolds` and
`OutputCompleteHolds` follow, and `BulksByTheBookHolds` from `BulksProofs` with `Book` as invariant.

**`AsyncLibraryProofs`.**  A context's output is complete when `disconnect` returns only if
nobody adds a bulk to a processor that has left the map.  *Alone* (who disconnects has its
context for itself) gives *ProcessorIsSafe*: between the look-up and the lock no mutex of
the map is held, and still the processor a thread has found is in the map, and its mutex
is that of one thread.  *ErasedIsDrained* says what a context that has left the map waits
for, *OutputInv* where each bulk is; `CommandSends` shows that a command sends one bulk or
none, and three lemmas on sequences what `\o`, `Tail` and `RemoveAt` do to an account of
elements.  `OutputIsComplete` and `ProcessorsAreSafe` follow.

`BulksByTheBookHolds` is about what comes in.  The pieces of a text are determined by where its
lines end, an increasing sequence of positions; from that `PushIsPieces`: pushing a
chunk to the pieces of a text gives the pieces of the longer text, wherever the chunk was cut, and
`PushBehind`: that is so as well when pieces at the front have been read already.  *LinesInv* then
says of each context that the pieces of its stream are the lines read and the buffer, and that the
manager is where those lines leave it (`Book`), or one line behind if a thread has read one and
has not added it, or has the rest still before it, or has been ended.  Since a thread keeps the
line it has read in its hands, this rests on *Alone* and on one thread at a time inside a processor.
Both theorems hold for any threads, contexts, chunks and sizes.

**`ExercisesProofs`** has the sequential components that keep data in lists.

*The list.*  `ListsAreSound` says that a list shows what was put into it, from nodes of its own in
blocks that nobody has freed, that no block is freed twice and that none is lost.  `ListInv` adds
what the allocators rely on: in *GoodLists* a list's nodes are different places in the blocks its allocator
holds, those in the block `cp_` points into below `idx_`, and an allocator that was moved from holds none, though it
points into one; all of it until `misused`, when such an allocator of chunks has given a node; *Remembered* ties the memory to
what the list should hold; and in *Ownership* every block malloced so far is either freed, once, or
belongs to exactly one live list.  `BlocksOf` are those a list would free: of the standard allocator the blocks
of its nodes, of the others the chain.  An allocation of any number of nodes is a recursion over
states of the allocator, one lemma says what *k* of them leave behind (`bad_alloc` included), and construction, copying, moving and
appending are built from it.

*The matrices.*  `MatricesAgree` compares three matrices that store the same elements in different
ways.  `MatrixInv` says of the list of lists that its rows are in ascending order and none is empty,
likewise the elements of a row, that it holds a value at a place exactly when the map does, and
that the size it counts is the number of elements.  The code's searches (the first row that is not
before, the element or the gap) come with one lemma each on where they stop, and setting, resetting and
copying follow from them; a row that loses its last element must go, or the next size is wrong.

*The joins.*  `JoinsByTheBook` compares the answers of the two walks over ordered tables with the
intersection and the symmetric difference of two finite maps.  A walk is a recursion on a pair of
places of which either may advance, so that it exists is shown by rank (`WalkExists`: the sum of the two
places that are left).  `InterFrom` and `SymFrom` say what a walk begun at a pair of places answers,
and are shown from the ends of the tables backwards (the rest of the left table is what `SymFrom` may lack): the line a step puts in front has a smaller id
than all that follow, which is what `EmplacedIs` needs to know where the answer's map puts it, and a row the
step passes by has no partner in what is left of the other table, because the rows there are greater.

*The duplicates.*  `DuplicatesByTheBook` compares what the comparisons have left behind with what the
bytes of the files say.  Two things come between them: a file is compared many times, each time from
where its cache ends, and `size_to_filehash` keeps one file of a group for all.  A good hasher
(`GoodHasher`) holds the hashes of the first blocks of its file, and its stream is closed, or where its
cache ends; `FilledIs`, `AfterReadIs` and `WalkIs` carry that through the loops, and `EqualIs` says that
`operator==` leaves good hashers and decides `LooksSame`, whatever was read before.  `Leaders` is a
recursion over the places of the files in the list; `LeaderIs` says what decides it.  `Midway` is the invariant of the loop
of `compare`: the list of a size has the leaders of that size so far, by their places, a leader has no
group if it is alone and else the complete group so far, every group has two members, and no two
groups are equal.  `SearchIs` and `GoesTo` bring the search to the first leader the file looks the same as; `NewStep`,
`JoinFirst` and `JoinAgain` are the three ways on, and `EndSays` reads the property off the last turn.
Looking the same is not transitive when a file cannot be read; the proof does not need it to be, and
among files that can be read it is having the same hashes, which is all `DuplicatesByTheBook` speaks of.

TLC checks the conjuncts of the invariants on the runs' instances (but the types of hashers and of a queue
of responses, which is open).

**Forms chosen for the proofs.**  `MetricsAddUp` sums with the folds of the community modules,
`MetricsAgree` compares counters with each other, `OutputComplete` and `ClientOrder` compare
positions, `LinesOf` of `AsyncLibrary` takes the first pieces instead of filtering them, the walks of `Database`
are functions of a pair of places, `Emplaced` inserts before the first greater id, and the loops of
`FileCompare` are functions of the turn: the same statements as with RECURSIVE operators, in a form that can be reasoned about.

**Model-checked only.**  Liveness and everything that rests on fairness (the
second half of `ImplementsTaskPool`, `CleanShutdown`, `AllLinesCalculated`,
`AwakeSaverFinishes`, `HandlersReturnOrJoin`, `CallsReturnOrJoin`, `ServerDrains`): the prover does not reason about
ENABLED.  `NicknamesByTheBook`, `FiltersByTheBook`, `EveryLineMapped`,
`PrefixSizeByTheBook` and `OffersByTheBook` of `Exercises`: each compares a recursion over data with
a definition.  `RadixTree`, `IpFilter` and `Yamr` are written with RECURSIVE operators, which the
prover cannot take, and `IpFilter`, `Yamr` and `Realty` sort and select with `SortSeq` and `SelectSeq`, about which
it knows nothing and whose arguments are operators, so that no lemma of this project can supply it.
Types are proved where the invariants need them: not for all of `JoinServer`.

## 6. Not modelled

The file names of lesson 13: they are the second the bulk began in, so that two bulks of a
second overwrite each other; later lessons add a counter.  bayan's command line and file
selection.  In `async` a disconnect that races another call with the same
context: the README gives a context to one thread, and `main.cpp` keeps it out.  `PercentLogger` and `StreamLogger`: no program creates them.  The
calculators, dlib (the clustering and the classifier of lesson 31 are any), printing of addresses and versions: pure computation.
Exceptions of `bad_alloc` and of thread creation, and failing writes to a file
or to the console: the code handles none of them.  In `bulk_server` the answers of
asio other than data, end and failure of a read, and the file names
(`counter_` makes them distinct, `EveryBulkIsOutput` relies on it).
In `join_server` the socket object itself, on which a pool's thread starts a write while the
io thread starts a read; and the build with an old boost.  In yamr the temporary files,
which are taken to hold the lists written to them, and the mapper and reducer functions the
program does not name.  In the radix tree an empty tree: `getAllValues` follows a null
pointer when there are no words (`radix_tree.cpp:71`), so the picture starts with the first.
In Realty not-a-numbers left in memory, which `stod` reads back, and fewer offers than
clusters, which is dlib's to handle.
