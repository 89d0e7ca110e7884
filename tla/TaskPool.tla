------------------------------- MODULE TaskPool -------------------------------
(***************************************************************************)
(* What a ThreadPool object promises to the code that uses it, without     *)
(* its mutex, condition variable and quit flag: accepted tasks are started *)
(* in the order they were accepted, each by one worker and once, a worker  *)
(* runs one task at a time, and the destructor returns only when every     *)
(* accepted task has run.  ThreadPool.tla is shown to implement it.        *)
(***************************************************************************)
EXTENDS Naturals, Sequences, Functions

CONSTANTS Workers,   \* the pool's threads
          Tasks,     \* the callables that may be handed to addTask, each one once
          None       \* "no task"

ASSUME PoolAssumption == Workers # {} /\ None \notin Tasks

VARIABLES accepted,  \* tasks in the order addTask enqueued them
          taken,     \* how many of them workers have dequeued
          running,   \* running[w]: the task worker w executes, or None
          done,      \* tasks whose execution has ended
          closed     \* the destructor has returned

tpVars == <<accepted, taken, running, done, closed>>

TPInit ==
  /\ accepted = <<>>
  /\ taken = 0
  /\ running = [w \in Workers |-> None]
  /\ done = {}
  /\ closed = FALSE

Accept(t) ==
  /\ ~closed
  /\ t \notin Range(accepted)
  /\ accepted' = Append(accepted, t)
  /\ UNCHANGED <<taken, running, done, closed>>

Start(w) ==
  /\ running[w] = None
  /\ taken < Len(accepted)
  /\ taken' = taken + 1
  /\ running' = [running EXCEPT ![w] = accepted[taken + 1]]
  /\ UNCHANGED <<accepted, done, closed>>

Finish(w) ==
  /\ running[w] # None
  /\ done' = done \cup {running[w]}
  /\ running' = [running EXCEPT ![w] = None]
  /\ UNCHANGED <<accepted, taken, closed>>

\* Destruction completes: nothing is queued and nothing runs.
Close ==
  /\ ~closed
  /\ taken = Len(accepted)
  /\ \A w \in Workers : running[w] = None
  /\ closed' = TRUE
  /\ UNCHANGED <<accepted, taken, running, done>>

TPNext ==
  \/ \E t \in Tasks : Accept(t)
  \/ \E w \in Workers : Start(w) \/ Finish(w)
  \/ Close

TPSafety == TPInit /\ [][TPNext]_tpVars

\* Some worker starts a queued task as long as one is queued and one is idle,
\* and a started task ends.  Nothing obliges the owner to destroy the pool.
TPSpec ==
  /\ TPSafety
  /\ WF_tpVars(\E w \in Workers : Start(w))
  /\ \A w \in Workers : WF_tpVars(Finish(w))
=============================================================================
