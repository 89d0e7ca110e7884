------------------------------ MODULE CalcTaskMgr ------------------------------
(***************************************************************************)
(* The matrix calculation of OTUSCppCourseWork: main builds a CalcTaskMgr  *)
(* (calc_task_mgr.h), subscribes a ResultSaver, calls run() and destroys   *)
(* the manager.  run() posts one task per thread to the pool; task k       *)
(* calculates the lines k, k + threads_count_, ... and hands each one to   *)
(* the subscriber from the worker that calculated it.  The pool is what    *)
(* TaskPool promises, the saver is ResultSaver, and the manager's members  *)
(* die in the reverse order of their declaration: pool, then subscribers.  *)
(***************************************************************************)
EXTENDS TaskPool, ResultSaver, FiniteSets

threads_count == Cardinality(Workers)

\* A task is its first_task_num; the callers of update are the pool's workers.
ASSUME CalcTaskMgrAssumption ==
  /\ IsFiniteSet(Workers)
  /\ Tasks = 0 .. threads_count - 1
  /\ Callers = Workers

VARIABLES
  posted,     \* first_task_num in run's loop
  task_num,   \* task_num[k]: the next line task k calculates
  mgr         \* the manager: run, subscribers (the pool is gone), destroyed

mgrVars == <<posted, task_num, mgr>>
vars == <<tpVars, rsVars, mgrVars>>

Init ==
  /\ TPInit
  /\ RSInit
  /\ posted = 0
  /\ task_num = [k \in Tasks |-> k]
  /\ mgr = "run"

-----------------------------------------------------------------------------
\* One turn of run's loop: post(thread_pool_, calc_func, first_task_num, ...).
Post ==
  /\ posted < threads_count
  /\ Accept(posted)
  /\ posted' = posted + 1
  /\ UNCHANGED <<rsVars, task_num, mgr>>

\* A worker starts a task.
StartTask(w) == Start(w) /\ UNCHANGED <<rsVars, mgrVars>>

\* Mutant of LoopEnds: the task leaves its last line out.
LoopEndsEarly(k) == task_num[k] + 1 >= N

\* The end of task k's loop: task_num < tasks_number no longer holds.
LoopEnds(k) == task_num[k] >= N

\* taskCalculation(task_num), and notify hands the line to update.
Calculate(w) ==
  /\ running[w] # None
  /\ ~LoopEnds(running[w])
  /\ StorePointer(w, task_num[running[w]])
  /\ UNCHANGED <<tpVars, mgrVars>>

InUpdate(w) ==
  /\ StoreCount(w) \/ NotifyOne(w)
  /\ UNCHANGED <<tpVars, mgrVars>>

\* Mutant of Advanced: the tasks' strides overlap.
AdvancedByOne(k) == [task_num EXCEPT ![k] = @ + 1]

\* task_num += threads_count
Advanced(k) == [task_num EXCEPT ![k] = @ + threads_count]

\* notify returns, and the task goes on to its next line.
EndUpdate(w) ==
  /\ Return(w)
  /\ task_num' = Advanced(running[w])
  /\ UNCHANGED <<tpVars, posted, mgr>>

\* The task's loop ends.
EndTask(w) ==
  /\ running[w] # None
  /\ upc[w] = "idle"
  /\ LoopEnds(running[w])
  /\ Finish(w)
  /\ UNCHANGED <<rsVars, mgrVars>>

\* run has returned; the destructor of thread_pool_ waits for its tasks.
DestroyPool ==
  /\ mgr = "run" /\ posted = threads_count
  /\ Close
  /\ mgr' = "subscribers"
  /\ UNCHANGED <<rsVars, posted, task_num>>

\* Mutant of PoolIsGone: the members are declared in another order, and the
\* subscribers die first.
PoolMayLive == posted = threads_count

PoolIsGone == mgr = "subscribers"

\* The generator is destroyed, then the subscriber: ~ResultSaver joins its
\* thread.
DestroySubscribers ==
  /\ mgr # "destroyed"
  /\ PoolIsGone
  /\ spc = "done"
  /\ mgr' = "destroyed"
  /\ UNCHANGED <<tpVars, rsVars, posted, task_num>>

SaverThread == SaverNext /\ UNCHANGED <<tpVars, mgrVars>>

WorkerThread(w) ==
  StartTask(w) \/ Calculate(w) \/ InUpdate(w) \/ EndUpdate(w) \/ EndTask(w)

Next ==
  \/ Post \/ DestroyPool \/ DestroySubscribers
  \/ \E w \in Workers : WorkerThread(w)
  \/ SaverThread

Spec == Init /\ [][Next]_vars

\* Every thread that can take a step takes one in the end.  A spurious wakeup
\* is never owed, and neither is the end of the pool's destructor, which may
\* itself miss a sleeping worker (ThreadPool).
Fairness ==
  /\ WF_vars(Post)
  /\ WF_vars(\E w \in Workers : StartTask(w))
  /\ \A w \in Workers : WF_vars(Calculate(w) \/ InUpdate(w) \/ EndUpdate(w) \/ EndTask(w))
  /\ WF_vars(SaverStep /\ UNCHANGED <<tpVars, mgrVars>>)
  /\ WF_vars(DestroySubscribers)

FairSpec == Spec /\ Fairness

-----------------------------------------------------------------------------
\* The type of the state.
TypeOK ==
  /\ RSTypeOK
  /\ accepted \in Seq(Tasks) /\ taken \in 0 .. Len(accepted)
  /\ running \in [Workers -> Tasks \cup {None}]
  /\ done \in SUBSET Tasks /\ closed \in BOOLEAN
  /\ posted \in 0 .. threads_count
  /\ task_num \in [Tasks -> Nat]
  /\ mgr \in {"run", "subscribers", "destroyed"}

\* The members die in the right order: from the moment the pool is destroyed
\* no worker is inside update, where it would store into results or notify
\* condition_, and none will be: every line has been handed over.
SubscribersOutliveCallers ==
  mgr # "run" =>
    /\ \A w \in Workers : upc[w] = "idle" /\ running[w] = None
    /\ delivered = Lines

\* Two tasks never hand over the same line: a slot of results is written once,
\* so workers that write slots without a lock never write the same one.
DisjointStrides ==
  [][\A w \in Workers : upc[w] = "idle" /\ upc'[w] # "idle"
                          => line'[w] \notin delivered]_vars

\* The strides cover the matrix: every line is calculated and handed over.
AllLinesCalculated == <>(delivered = Lines)

\* The saver writes the whole matrix if it is not asleep, nor about to be,
\* when the last line has come.
AwakeSaverFinishes ==
  (delivered = Lines /\ spc \notin {"doze", "asleep"}) ~> Len(file) = N

\* test_course.cpp expects every line in the output once the manager is
\* destroyed.  update stores and notifies without the saver's mutex, so the
\* last notification may come between the saver's look at its slot and its
\* sleep, and the destructor joins a thread nobody wakes.
AllLinesSaved == (delivered = Lines) ~> Len(file) = N
=============================================================================
