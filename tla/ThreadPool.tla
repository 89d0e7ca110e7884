------------------------------ MODULE ThreadPool ------------------------------
(***************************************************************************)
(* The ThreadPool class of OTUSLesson19 (thread_pool.h, thread_pool.cpp):  *)
(* a task queue guarded by the mutex cv_m_, worker threads that wait on    *)
(* condition_ for "!tasks_.empty() || quit_", addTask, and the destructor  *)
(* that sets quit_, notifies, joins the workers and prints their metrics.  *)
(* The pools of OTUSLesson21, 23, 25 and OTUSCppCourseWork are the same    *)
(* code without the metrics.                                               *)
(*                                                                         *)
(* A critical section of cv_m_ is one step unless something outside the    *)
(* mutex can happen in the middle of it.  Two sections need more, because  *)
(* the destructor writes quit_ and notifies WITHOUT taking cv_m_: a worker *)
(* that found the predicate false but does not sleep yet ("doze"), and a   *)
(* caller of addTask that has read quit_ but not pushed yet ("emplace").   *)
(***************************************************************************)
EXTENDS Naturals, Sequences, FiniteSets, Functions

CONSTANTS Workers,   \* the threads the constructor starts
          Clients,   \* the threads that call addTask
          Tasks,     \* the callables they may pass, each one once
          Size,      \* Size[t]: the number of commands t returns
          None

ASSUME ThreadPoolAssumption ==
  /\ Workers # {} /\ IsFiniteSet(Workers)
  /\ Workers \cap Clients = {}
  /\ None \notin Workers \cup Clients \cup Tasks
  /\ Size \in [Tasks -> Nat]

VARIABLES
  mutex,     \* cv_m_: the thread that holds it across a step, or None
  tasks,     \* tasks_, the queue of futures
  quit,      \* quit_, an atomic written outside the mutex
  wpc,       \* where each worker is: lock, doze, asleep, run, exited
  cur,       \* cur[w]: the future f the worker moved out of the queue
  cpc,       \* where each caller is in addTask: idle, emplace, notify
  arg,       \* arg[c]: the callable being added
  owner,     \* the destructor: alive, quitting, joining, joined
  metrics,   \* metrics_[i] of each worker
  printed,   \* what output_metrics wrote, or None
  accepted,  \* history: tasks in the order they were pushed
  started,   \* history: tasks in the order they were popped
  done,      \* history: tasks whose get() returned
  refused    \* history: tasks addTask threw for

poolVars == <<mutex, tasks, quit>>
history == <<accepted, started, done, refused>>
vars == <<mutex, tasks, quit, wpc, cur, cpc, arg, owner, metrics, printed,
          accepted, started, done, refused>>

Init ==
  /\ mutex = None
  /\ tasks = <<>>
  /\ quit = FALSE
  /\ wpc = [w \in Workers |-> "lock"]
  /\ cur = [w \in Workers |-> None]
  /\ cpc = [c \in Clients |-> "idle"]
  /\ arg = [c \in Clients |-> None]
  /\ owner = "alive"
  /\ metrics = [w \in Workers |-> [command_num |-> 0, block_num |-> 0]]
  /\ printed = None
  /\ accepted = <<>> /\ started = <<>> /\ done = {} /\ refused = {}

-----------------------------------------------------------------------------
\* addTask(c, t).  Tasks are objects: a caller passes one nobody passed before.

Fresh(t) ==
  /\ t \notin Range(accepted) \cup refused
  /\ \A c \in Clients : arg[c] # t

\* lock_guard, and quit_ reads FALSE: the caller goes on to push, in the mutex.
AddLock(c, t) ==
  /\ cpc[c] = "idle" /\ Fresh(t)
  /\ owner # "joined"
  /\ mutex = None
  /\ ~quit
  /\ mutex' = c
  /\ cpc' = [cpc EXCEPT ![c] = "emplace"]
  /\ arg' = [arg EXCEPT ![c] = t]
  /\ UNCHANGED <<tasks, quit, wpc, cur, owner, metrics, printed, history>>

\* lock_guard, and quit_ reads TRUE: addTask throws, the lock is released.
AddThrow(c, t) ==
  /\ cpc[c] = "idle" /\ Fresh(t)
  /\ owner # "joined"
  /\ mutex = None
  /\ quit
  /\ refused' = refused \cup {t}
  /\ UNCHANGED <<poolVars, wpc, cur, cpc, arg, owner, metrics, printed,
                 accepted, started, done>>

\* Mutant of Pushed: at the front of the queue.
PushedInFront(t) == <<t>> \o tasks

\* tasks_.emplace
Pushed(t) == Append(tasks, t)

\* The push, and the lock is released at the end of the block.
Emplace(c) ==
  /\ cpc[c] = "emplace"
  /\ tasks' = Pushed(arg[c])
  /\ accepted' = Append(accepted, arg[c])
  /\ mutex' = None
  /\ cpc' = [cpc EXCEPT ![c] = "notify"]
  /\ arg' = [arg EXCEPT ![c] = None]
  /\ UNCHANGED <<quit, wpc, cur, owner, metrics, printed, started, done, refused>>

Asleep == {w \in Workers : wpc[w] = "asleep"}

\* Mutant of WakeOne: the notification after the push is forgotten.
WakeNobody == wpc' = wpc

\* The effect of notify_one: a sleeper if there is one.
WakeOne ==
  \/ Asleep = {} /\ wpc' = wpc
  \/ \E w \in Asleep : wpc' = [wpc EXCEPT ![w] = "lock"]

\* condition_.notify_one(), outside the mutex.
NotifyOne(c) ==
  /\ cpc[c] = "notify"
  /\ cpc' = [cpc EXCEPT ![c] = "idle"]
  /\ WakeOne
  /\ UNCHANGED <<poolVars, cur, arg, owner, metrics, printed, history>>

-----------------------------------------------------------------------------
\* A worker.  At "lock" it takes cv_m_ and evaluates the predicate; it is there
\* again when a wait ends, since wait() locks and evaluates once more.

AtLock(w) == wpc[w] = "lock" /\ mutex = None

\* The queue is not empty, quit_ or not: move the front out, pop it, unlock.
Take(w) ==
  /\ AtLock(w)
  /\ tasks # <<>>
  /\ cur' = [cur EXCEPT ![w] = Head(tasks)]
  /\ tasks' = Tail(tasks)
  /\ started' = Append(started, Head(tasks))
  /\ wpc' = [wpc EXCEPT ![w] = "run"]
  /\ UNCHANGED <<mutex, quit, cpc, arg, owner, metrics, printed,
                 accepted, done, refused>>

\* Mutant of MayExit: returns on quit_ although tasks are queued.
MayExitOnQuit == quit

MayExit == quit /\ tasks = <<>>

\* if (quit_ && tasks_.empty()) return;
Exit(w) ==
  /\ AtLock(w)
  /\ MayExit
  /\ wpc' = [wpc EXCEPT ![w] = "exited"]
  /\ UNCHANGED <<poolVars, cur, cpc, arg, owner, metrics, printed, history>>

\* Mutant of WaitPredicate: quit_ is not looked at.
WaitForTasks == tasks # <<>>

WaitPredicate == tasks # <<>> \/ quit

\* The predicate is false: wait() is about to block and still holds the mutex.
Doze(w) ==
  /\ AtLock(w)
  /\ ~WaitPredicate
  /\ mutex' = w
  /\ wpc' = [wpc EXCEPT ![w] = "doze"]
  /\ UNCHANGED <<tasks, quit, cur, cpc, arg, owner, metrics, printed, history>>

\* wait() releases the mutex and blocks, atomically.
Sleep(w) ==
  /\ wpc[w] = "doze"
  /\ mutex' = None
  /\ wpc' = [wpc EXCEPT ![w] = "asleep"]
  /\ UNCHANGED <<tasks, quit, cur, cpc, arg, owner, metrics, printed, history>>

\* The standard lets wait() return although nobody notified.
SpuriousWakeup(w) ==
  /\ wpc[w] = "asleep"
  /\ wpc' = [wpc EXCEPT ![w] = "lock"]
  /\ UNCHANGED <<poolVars, cur, cpc, arg, owner, metrics, printed, history>>

\* Mutant of Counted: the block counter is assigned instead of incremented.
CountedOnce(w) ==
  [metrics EXCEPT ![w] = [command_num |-> @.command_num + Size[cur[w]],
                          block_num |-> 1]]

\* metrics_[i].command_num += f.get(); ++metrics_[i].block_num;
Counted(w) ==
  [metrics EXCEPT ![w] = [command_num |-> @.command_num + Size[cur[w]],
                          block_num |-> @.block_num + 1]]

\* f.get() runs the deferred callable, outside the mutex; the counters follow.
Run(w) ==
  /\ wpc[w] = "run"
  /\ metrics' = Counted(w)
  /\ done' = done \cup {cur[w]}
  /\ cur' = [cur EXCEPT ![w] = None]
  /\ wpc' = [wpc EXCEPT ![w] = "lock"]
  /\ UNCHANGED <<poolVars, cpc, arg, owner, printed, accepted, started, refused>>

-----------------------------------------------------------------------------
\* The destructor: quit_ = true and notify_all, neither under cv_m_.

SetQuit ==
  /\ owner = "alive"
  /\ quit' = TRUE
  /\ owner' = "quitting"
  /\ UNCHANGED <<mutex, tasks, wpc, cur, cpc, arg, metrics, printed, history>>

NotifyAll ==
  /\ owner = "quitting"
  /\ owner' = "joining"
  /\ wpc' = [w \in Workers |-> IF w \in Asleep THEN "lock" ELSE wpc[w]]
  /\ UNCHANGED <<poolVars, cur, cpc, arg, metrics, printed, history>>

\* Mutant of CanJoin: the first worker only.
CanJoinFirst == \E w \in Workers : wpc[w] = "exited"

\* Every worker.join() returns.
CanJoin == \A w \in Workers : wpc[w] = "exited"

\* The joins, then output_metrics().
Join ==
  /\ owner = "joining"
  /\ CanJoin
  /\ owner' = "joined"
  /\ printed' = metrics
  /\ UNCHANGED <<poolVars, wpc, cur, cpc, arg, metrics, history>>

-----------------------------------------------------------------------------
ClientNext ==
  \E c \in Clients :
    \/ \E t \in Tasks : AddLock(c, t) \/ AddThrow(c, t)
    \/ Emplace(c)
    \/ NotifyOne(c)

WorkerNext ==
  \E w \in Workers :
    \/ Take(w) \/ Exit(w) \/ Doze(w) \/ Sleep(w)
    \/ SpuriousWakeup(w) \/ Run(w)

OwnerNext == SetQuit \/ NotifyAll \/ Join

Next == ClientNext \/ WorkerNext \/ OwnerNext

Spec == Init /\ [][Next]_vars

\* Threads that can run do run; a caller inside addTask leaves it.  No caller
\* is obliged to call, the owner is not obliged to destroy the pool, and no
\* spurious wakeup is ever owed.
Fairness ==
  /\ \A w \in Workers :
       /\ WF_vars(Take(w)) /\ WF_vars(Exit(w)) /\ WF_vars(Doze(w))
       /\ WF_vars(Sleep(w)) /\ WF_vars(Run(w))
  /\ \A c \in Clients : WF_vars(Emplace(c)) /\ WF_vars(NotifyOne(c))
  /\ WF_vars(NotifyAll) /\ WF_vars(Join)

FairSpec == Spec /\ Fairness

-----------------------------------------------------------------------------
Metric == [command_num : Nat, block_num : Nat]

\* The type of the state.
TypeOK ==
  /\ mutex \in Workers \cup Clients \cup {None}
  /\ tasks \in Seq(Tasks)
  /\ quit \in BOOLEAN
  /\ wpc \in [Workers -> {"lock", "doze", "asleep", "run", "exited"}]
  /\ cur \in [Workers -> Tasks \cup {None}]
  /\ cpc \in [Clients -> {"idle", "emplace", "notify"}]
  /\ arg \in [Clients -> Tasks \cup {None}]
  /\ owner \in {"alive", "quitting", "joining", "joined"}
  /\ metrics \in [Workers -> Metric]
  /\ printed \in [Workers -> Metric] \cup {None}
  /\ accepted \in Seq(Tasks) /\ started \in Seq(Tasks)
  /\ done \in SUBSET Tasks /\ refused \in SUBSET Tasks

\* Tasks leave the queue in the order addTask accepted them, none is dropped
\* and none is popped twice: what was popped, then what is queued, is exactly
\* what was accepted.
FirstInFirstOut == accepted = started \o tasks

\* The destructor strands no accepted task.  quit_ is set without the mutex,
\* so a caller that already read quit_ as FALSE still pushes after it became
\* TRUE; yet once a worker has returned the queue is empty, no such caller
\* exists any more, and so no later push can meet a pool without workers.
NothingStranded ==
  (\E w \in Workers : wpc[w] = "exited")
    => /\ quit /\ tasks = <<>>
       /\ \A c \in Clients : cpc[c] # "emplace"

\* addTask notifies after it has unlocked, and no wakeup it owes is lost: when
\* a task is queued, either its caller has still to notify or a worker is awake
\* and will look at the queue before it sleeps.
QueuedWorkIsNoticed ==
  tasks # <<>> => \/ \E c \in Clients : cpc[c] = "notify"
                  \/ \E w \in Workers : wpc[w] \in {"lock", "run"}

\* The metrics printed by the destructor, which the workers keep without any
\* lock, add up: every accepted task and all its commands are in them.
MetricsAddUp ==
  printed # None =>
    /\ SumFunction([w \in Workers |-> printed[w].block_num]) = Len(accepted)
    /\ SumFunction([w \in Workers |-> printed[w].command_num])
         = SumFunctionOnSet(Size, Range(accepted))

\* The pool keeps its promise to its users, liveness included: queued tasks
\* are started and run, even if the destructor itself never returns.
TP == INSTANCE TaskPool WITH taken <- Len(started), running <- cur,
                             closed <- (owner = "joined")
ImplementsTaskPool == TP!TPSpec

\* The destructor returns if its notify_all finds no worker between its last
\* look at the predicate and its sleep.
CleanShutdown ==
  (owner = "joining" /\ \A w \in Workers : wpc[w] \notin {"doze", "asleep"})
    ~> owner = "joined"

\* OTUSLesson19/README.md: the metrics must be printed to the console at the
\* end of the program.  They are printed by the destructor, which may never
\* get there: notify_all can precede the sleep of a worker that read quit_ as
\* FALSE.
MetricsArePrinted == (owner = "quitting") ~> (printed # None)
=============================================================================
