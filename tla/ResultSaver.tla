------------------------------ MODULE ResultSaver ------------------------------
(***************************************************************************)
(* ResultSaver of OTUSCppCourseWork (result_saver.h, result_saver.cpp), as *)
(* project_config.h builds it: any thread hands over a calculated line     *)
(* with update(), one saver thread writes the lines to the file in order.  *)
(* StreamSaver is the same code with another way to print a line.          *)
(*                                                                         *)
(* update() stores into results without the mutex the saver holds around   *)
(* its wait, so cv_m_ is held by the saver alone and excludes nobody: the  *)
(* store may fall anywhere between the saver's steps.  What a caller       *)
(* stores is a shared_ptr, two words written one after the other, first    *)
(* the pointer and then the counter that keeps the line alive; the saver   *)
(* may find the first without the second.                                  *)
(***************************************************************************)
EXTENDS Naturals, Sequences

CONSTANTS N,        \* tasks_size_
          Callers   \* the threads that call update

ASSUME ResultSaverAssumption == N \in Nat

Lines == 0 .. N - 1

VARIABLES
  results,    \* results[l]: the pointer of the l-th slot is not null
  owners,     \* owners[l]: who keeps line l alive: caller, slot, saver
  upc,        \* where each caller is in update: idle, count, notify, return
  line,       \* line[c]: the task_num of the result c hands over
  spc,        \* the saver thread: check, doze, asleep, scan, move, write, done
  first_idx,  \* the saver's locals; idx is the i of the second loop
  last_idx,
  idx,
  file,       \* task_num of each line written
  delivered   \* history: the lines whose pointer update stored

callerVars == <<upc, line, delivered>>
saverVars == <<spc, first_idx, last_idx, idx, file>>
rsVars == <<results, owners, upc, line, spc, first_idx, last_idx, idx, file, delivered>>

RSInit ==
  /\ results = [l \in Lines |-> FALSE]
  /\ owners = [l \in Lines |-> {}]
  /\ upc = [c \in Callers |-> "idle"]
  /\ line = [c \in Callers |-> 0]
  /\ spc = "check"
  /\ first_idx = 0 /\ last_idx = 0 /\ idx = 0
  /\ file = <<>>
  /\ delivered = {}

-----------------------------------------------------------------------------
\* update(calc_result), called by CalcTaskMgr::notify, whose local shared_ptr
\* keeps the line alive for the time of the call.

\* The move assignment writes the pointer of the slot.
StorePointer(c, l) ==
  /\ upc[c] = "idle"
  /\ results' = [results EXCEPT ![l] = TRUE]
  /\ owners' = [owners EXCEPT ![l] = @ \cup {"caller"}]
  /\ upc' = [upc EXCEPT ![c] = "count"]
  /\ line' = [line EXCEPT ![c] = l]
  /\ delivered' = delivered \cup {l}
  /\ UNCHANGED saverVars

\* Mutant of Counted: a plain pointer is stored, nothing is kept alive.
NotCounted(l) == owners

\* The slot shares the line.  If the saver took the pointer meanwhile, the
\* count stays behind in the slot, or is lost: either way it is never released.
Counted(l) == [owners EXCEPT ![l] = @ \cup {"slot"}]

\* Then it writes the counter.
StoreCount(c) ==
  /\ upc[c] = "count"
  /\ owners' = Counted(line[c])
  /\ upc' = [upc EXCEPT ![c] = "notify"]
  /\ UNCHANGED <<results, line, delivered, saverVars>>

\* condition_.notify_one(): only the saver ever waits.
NotifyOne(c) ==
  /\ upc[c] = "notify"
  /\ spc' = IF spc = "asleep" THEN "check" ELSE spc
  /\ upc' = [upc EXCEPT ![c] = "return"]
  /\ UNCHANGED <<results, owners, line, delivered, first_idx, last_idx, idx, file>>

\* update and notify return; notify's shared_ptr is released.
Return(c) ==
  /\ upc[c] = "return"
  /\ owners' = [owners EXCEPT ![line[c]] = @ \ {"caller"}]
  /\ upc' = [upc EXCEPT ![c] = "idle"]
  /\ UNCHANGED <<results, line, delivered, saverVars>>

-----------------------------------------------------------------------------
\* The saver thread.

\* while (first_idx < tasks_size_): the thread function ends.
Done ==
  /\ spc = "check" /\ first_idx >= N
  /\ spc' = "done"
  /\ UNCHANGED <<results, owners, callerVars, first_idx, last_idx, idx, file>>

\* The predicate of the wait holds: unlock, and start to scan.
Ready ==
  /\ spc = "check" /\ first_idx < N
  /\ results[first_idx]
  /\ spc' = "scan"
  /\ last_idx' = first_idx
  /\ UNCHANGED <<results, owners, callerVars, first_idx, idx, file>>

\* It does not hold: wait() is about to block.
Doze ==
  /\ spc = "check" /\ first_idx < N
  /\ ~results[first_idx]
  /\ spc' = "doze"
  /\ UNCHANGED <<results, owners, callerVars, first_idx, last_idx, idx, file>>

Sleep ==
  /\ spc = "doze"
  /\ spc' = "asleep"
  /\ UNCHANGED <<results, owners, callerVars, first_idx, last_idx, idx, file>>

SpuriousWakeup ==
  /\ spc = "asleep"
  /\ spc' = "check"
  /\ UNCHANGED <<results, owners, callerVars, first_idx, last_idx, idx, file>>

\* Mutant of CanAdvance: the scan does not stop at a line that is not there.
AdvanceAnyway == last_idx < N

\* Mutant of CanAdvance: the scan stops before the last line.
AdvanceShort == last_idx + 1 < N /\ results[last_idx]

\* for (; last_idx < tasks_size_; ++last_idx) if (results[last_idx] == nullptr) break;
CanAdvance == last_idx < N /\ results[last_idx]

Scan ==
  /\ spc = "scan"
  /\ CanAdvance
  /\ last_idx' = last_idx + 1
  /\ UNCHANGED <<results, owners, callerVars, spc, first_idx, idx, file>>

ScanEnd ==
  /\ spc = "scan"
  /\ ~CanAdvance
  /\ spc' = "move"
  /\ idx' = first_idx
  /\ UNCHANGED <<results, owners, callerVars, first_idx, last_idx, file>>

\* auto calc_res = move(results[i]);
Move ==
  /\ spc = "move" /\ idx < last_idx
  /\ results' = [results EXCEPT ![idx] = FALSE]
  /\ owners' = [owners EXCEPT ![idx] =
                  IF "slot" \in @ THEN (@ \ {"slot"}) \cup {"saver"} ELSE @]
  /\ spc' = "write"
  /\ UNCHANGED <<callerVars, first_idx, last_idx, idx, file>>

\* file_.write(calc_res->line); calc_res is released at the end of the block.
WriteLine ==
  /\ spc = "write"
  /\ file' = Append(file, idx)
  /\ owners' = [owners EXCEPT ![idx] = @ \ {"saver"}]
  /\ idx' = idx + 1
  /\ spc' = "move"
  /\ UNCHANGED <<results, callerVars, first_idx, last_idx>>

\* first_idx = last_idx
NextFirst == last_idx

Batch ==
  /\ spc = "move" /\ idx >= last_idx
  /\ first_idx' = NextFirst
  /\ spc' = "check"
  /\ UNCHANGED <<results, owners, callerVars, last_idx, idx, file>>

-----------------------------------------------------------------------------
SaverStep ==
  \/ Done \/ Ready \/ Doze \/ Sleep
  \/ Scan \/ ScanEnd \/ Move \/ WriteLine \/ Batch

SaverNext == SaverStep \/ SpuriousWakeup

\* What a caller does by itself once it has entered update.
Continue(c) == StoreCount(c) \/ NotifyOne(c) \/ Return(c)

\* Callers hand over every line at most once, in any order.
RSNext ==
  \/ SaverNext
  \/ \E c \in Callers :
       \/ \E l \in Lines \ delivered : StorePointer(c, l)
       \/ Continue(c)

RSSpec == RSInit /\ [][RSNext]_rsVars

-----------------------------------------------------------------------------
\* The type of the saver's state.
RSTypeOK ==
  /\ results \in [Lines -> BOOLEAN]
  /\ owners \in [Lines -> SUBSET {"caller", "slot", "saver"}]
  /\ upc \in [Callers -> {"idle", "count", "notify", "return"}]
  /\ line \in [Callers -> Nat]
  /\ \A c \in Callers : upc[c] # "idle" => line[c] \in Lines
  /\ spc \in {"check", "doze", "asleep", "scan", "move", "write", "done"}
  /\ first_idx \in 0 .. N /\ last_idx \in 0 .. N /\ idx \in 0 .. N
  /\ file \in Seq(Lines)
  /\ delivered \in SUBSET Lines

\* The file holds the lines 0, 1, 2 and so on, none missing, twice or early,
\* whatever the order of the calls of update (README.md: "first the 1st line
\* is saved, then the 2nd").
FileInOrder ==
  /\ \A k \in 1 .. Len(file) : file[k] = k - 1 /\ file[k] \in delivered
  /\ spc = "done" => Len(file) = N

\* The line the saver has moved out and is about to read is still alive: the
\* slot or the saver owns it, or the caller whose store the saver overtook is
\* still inside notify with its own shared_ptr.
SavedFromLiveMemory == spc = "write" => owners[idx] # {}

\* The saver implements the promise.
OO == INSTANCE OrderedOutput WITH written <- file
ImplementsOrderedOutput == OO!OOSafety
=============================================================================
