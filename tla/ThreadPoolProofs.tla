--------------------------- MODULE ThreadPoolProofs ---------------------------
(***************************************************************************)
(* Theorems about ThreadPool for every number of workers, callers and      *)
(* tasks.  One inductive invariant, IInv, carries most of them: the type   *)
(* of the state, what each program counter says about the mutex, the queue *)
(* and the objects in flight, and the three safety properties of the pool. *)
(* The metrics have two of their own, WorkInv and CountInv.                *)
(***************************************************************************)
EXTENDS ThreadPool, SequenceTheorems, FiniteSetTheorems, TLAPS

\* A future is in a worker's hands exactly while it runs it, a callable in a
\* caller's exactly between its check of quit_ and its push.
InHand ==
  /\ \A w \in Workers : cur[w] # None <=> wpc[w] = "run"
  /\ \A c \in Clients : arg[c] # None <=> cpc[c] = "emplace"

\* Only two places hold the mutex across a step; at the first of them the
\* queue stays empty, because nobody else can push.
MutexHeld ==
  /\ \A w \in Workers : wpc[w] = "doze" <=> mutex = w
  /\ \A c \in Clients : cpc[c] = "emplace" <=> mutex = c
  /\ \A w \in Workers : wpc[w] = "doze" => tasks = <<>>

\* What a caller is about to push was neither pushed nor refused before.
ArgsAreFresh ==
  \A c \in Clients : arg[c] # None => arg[c] \notin Range(accepted)

\* quit_ is set by the destructor only, which returns after all its workers.
Destructor ==
  /\ quit <=> owner # "alive"
  /\ owner = "joined" => \A w \in Workers : wpc[w] = "exited"

IInv ==
  /\ TypeOK
  /\ InHand
  /\ MutexHeld
  /\ ArgsAreFresh
  /\ Destructor
  /\ FirstInFirstOut
  /\ NothingStranded
  /\ QueuedWorkIsNoticed

-----------------------------------------------------------------------------
\* A push is seen at the end of the queue: appending to what is queued is
\* appending to what was accepted.
LEMMA PushKeepsOrder ==
  ASSUME NEW s \in Seq(Tasks), NEW q \in Seq(Tasks), NEW t \in Tasks
  PROVE  Append(s \o q, t) = s \o Append(q, t)
<1>1. <<t>> \in Seq(Tasks)
  OBVIOUS
<1>2. s \o q \in Seq(Tasks)
  BY ConcatProperties
<1>3. /\ Append(s \o q, t) = (s \o q) \o <<t>>
      /\ Append(q, t) = q \o <<t>>
  BY <1>2, AppendIsConcat
<1>4. (s \o q) \o <<t>> = s \o (q \o <<t>>)
  BY <1>1, ConcatAssociative
<1> QED
  BY <1>3, <1>4

\* A pop moves the boundary between what was popped and what is queued.
LEMMA PopKeepsOrder ==
  ASSUME NEW s \in Seq(Tasks), NEW q \in Seq(Tasks), q # <<>>
  PROVE  Append(s, Head(q)) \o Tail(q) = s \o q
<1>1. /\ Head(q) \in Tasks
      /\ Tail(q) \in Seq(Tasks)
      /\ Len(Tail(q)) = Len(q) - 1
      /\ \A i \in 1 .. Len(Tail(q)) : Tail(q)[i] = q[i+1]
  BY HeadTailProperties
<1> DEFINE h == <<Head(q)>>
<1>2. h \in Seq(Tasks)
  BY <1>1
<1>3. Append(s, Head(q)) = s \o h
  BY <1>1, AppendIsConcat
<1>4. (s \o h) \o Tail(q) = s \o (h \o Tail(q))
  BY <1>1, <1>2, ConcatAssociative
<1>5. h \o Tail(q) = q
  <2>1. /\ h \o Tail(q) \in Seq(Tasks)
        /\ Len(h \o Tail(q)) = 1 + Len(Tail(q))
        /\ \A i \in 1 .. 1 + Len(Tail(q)) : (h \o Tail(q))[i] =
                     IF i <= 1 THEN h[i] ELSE Tail(q)[i - 1]
    BY <1>1, <1>2, ConcatProperties
  <2>2. Len(q) \in Nat /\ Len(q) > 0
    BY EmptySeq, LenProperties
  <2>3. Len(h \o Tail(q)) = Len(q)
    BY <1>1, <2>1, <2>2
  <2>4. ASSUME NEW i \in 1 .. Len(q)
        PROVE  (h \o Tail(q))[i] = q[i]
    <3>1. CASE i = 1
      BY <3>1, <2>1, <2>2, <1>1
    <3>2. CASE i > 1
      <4>1. i - 1 \in 1 .. Len(Tail(q)) /\ i \in 1 .. 1 + Len(Tail(q))
        BY <3>2, <2>2, <1>1
      <4> QED
        BY <4>1, <3>2, <2>1, <1>1
    <3> QED
      BY <3>1, <3>2, <2>2
  <2> QED
    BY <2>1, <2>3, <2>4, SeqEqual
<1> QED
  BY <1>3, <1>4, <1>5

-----------------------------------------------------------------------------
LEMMA InitIInv == Init => IInv
<1> SUFFICES ASSUME Init PROVE IInv
  OBVIOUS
<1> USE ThreadPoolAssumption DEF Init
<1>1. <<>> \in Seq(Tasks) /\ <<>> = <<>> \o <<>>
  BY EmptySeq, ConcatEmptySeq
<1>2. TypeOK
  BY <1>1 DEF TypeOK, Metric
<1>3. InHand /\ MutexHeld /\ Destructor
  BY DEF InHand, MutexHeld, Destructor
<1>5. ArgsAreFresh
  BY DEF ArgsAreFresh
<1>4. FirstInFirstOut /\ NothingStranded /\ QueuedWorkIsNoticed
  BY <1>1 DEF FirstInFirstOut, NothingStranded, QueuedWorkIsNoticed
<1> QED
  BY <1>2, <1>3, <1>4, <1>5 DEF IInv

\* The four actions of a caller of addTask keep the invariant.
LEMMA ClientStep == IInv /\ ClientNext => IInv'
<1> SUFFICES ASSUME IInv, NEW c \in Clients,
                    \/ \E t \in Tasks : AddLock(c, t) \/ AddThrow(c, t)
                    \/ Emplace(c)
                    \/ NotifyOne(c)
             PROVE  IInv'
  BY DEF ClientNext
<1> USE ThreadPoolAssumption
        DEF IInv, TypeOK, InHand, MutexHeld, ArgsAreFresh, Destructor, poolVars, history
<1>1. ASSUME NEW t \in Tasks, AddLock(c, t) PROVE IInv'
  <2> USE <1>1 DEF AddLock
  <2>1. TypeOK' /\ InHand' /\ MutexHeld' /\ Destructor' /\ ArgsAreFresh'
    BY DEF Fresh
  <2>2. FirstInFirstOut' /\ QueuedWorkIsNoticed'
    BY DEF FirstInFirstOut, QueuedWorkIsNoticed
  <2>3. NothingStranded'
    BY DEF NothingStranded
  <2> QED
    BY <2>1, <2>2, <2>3
<1>2. ASSUME NEW t \in Tasks, AddThrow(c, t) PROVE IInv'
  BY <1>2 DEF AddThrow, FirstInFirstOut, NothingStranded, QueuedWorkIsNoticed
<1>3. CASE Emplace(c)
  <2> USE <1>3 DEF Emplace, Pushed
  <2>1. arg[c] \in Tasks
    OBVIOUS
  <2>2. tasks' \in Seq(Tasks) /\ accepted' \in Seq(Tasks)
    BY <2>1
  <2>3. mutex = c /\ \A w \in Workers : wpc[w] # "doze"
    OBVIOUS
  <2>4. TypeOK' /\ Destructor'
    BY <2>2
  <2>5. InHand' /\ ArgsAreFresh'
    BY <2>1, <2>3
  <2>6. MutexHeld'
    BY <2>3
  <2>7. FirstInFirstOut'
    <3>1. /\ accepted' = Append(accepted, arg[c]) /\ started' = started
          /\ tasks' = Append(tasks, arg[c])
          /\ tasks \in Seq(Tasks) /\ started \in Seq(Tasks)
      OBVIOUS
    <3>2. accepted = started \o tasks
      BY DEF FirstInFirstOut
    <3> QED
      BY ONLY <2>1, <3>1, <3>2, PushKeepsOrder DEF FirstInFirstOut
  <2>8. NothingStranded' /\ QueuedWorkIsNoticed'
    BY DEF NothingStranded, QueuedWorkIsNoticed
  <2> QED
    BY <2>4, <2>5, <2>6, <2>7, <2>8
<1>4. CASE NotifyOne(c)
  <2> USE <1>4 DEF NotifyOne, WakeOne, Asleep
  <2>1. wpc' \in [Workers -> {"lock", "doze", "asleep", "run", "exited"}]
    OBVIOUS
  <2>2. \A w \in Workers : wpc'[w] = wpc[w] \/ (wpc[w] = "asleep" /\ wpc'[w] = "lock")
    OBVIOUS
  <2>3. TypeOK'
    BY <2>1
  <2>4. MutexHeld' /\ Destructor'
    BY <2>2
  <2>5. InHand' /\ ArgsAreFresh'
    OBVIOUS
  <2>6. FirstInFirstOut' /\ NothingStranded'
    BY DEF FirstInFirstOut, NothingStranded
  <2>7. QueuedWorkIsNoticed'
    BY DEF NothingStranded, QueuedWorkIsNoticed
  <2> QED
    BY <2>3, <2>4, <2>5, <2>6, <2>7
<1> QED
  BY <1>1, <1>2, <1>3, <1>4

\* The six actions of a worker keep the invariant.
LEMMA WorkerStep == IInv /\ WorkerNext => IInv'
<1> SUFFICES ASSUME IInv, NEW w \in Workers,
                    \/ Take(w) \/ Exit(w) \/ Doze(w) \/ Sleep(w)
                    \/ SpuriousWakeup(w) \/ Run(w)
             PROVE  IInv'
  BY DEF WorkerNext
<1> USE ThreadPoolAssumption
        DEF IInv, TypeOK, InHand, MutexHeld, ArgsAreFresh, Destructor, poolVars, history
<1>1. CASE Take(w)
  <2> USE <1>1 DEF Take, AtLock
  <2>1. /\ Head(tasks) \in Tasks
        /\ tasks' \in Seq(Tasks)
        /\ started' \in Seq(Tasks)
    BY HeadTailProperties, AppendProperties
  <2>2. TypeOK' /\ Destructor'
    BY <2>1 DEF NothingStranded
  <2>3. InHand' /\ MutexHeld' /\ ArgsAreFresh'
    BY <2>1
  <2>4. FirstInFirstOut'
    BY PopKeepsOrder DEF FirstInFirstOut
  <2>5. NothingStranded' /\ QueuedWorkIsNoticed'
    BY DEF NothingStranded, QueuedWorkIsNoticed
  <2> QED
    BY <2>2, <2>3, <2>4, <2>5
<1>2. CASE Exit(w)
  BY <1>2 DEF Exit, AtLock, MayExit,
              FirstInFirstOut, NothingStranded, QueuedWorkIsNoticed
<1>3. CASE Doze(w)
  BY <1>3 DEF Doze, AtLock, WaitPredicate,
              FirstInFirstOut, NothingStranded, QueuedWorkIsNoticed
<1>4. CASE Sleep(w)
  BY <1>4 DEF Sleep, FirstInFirstOut, NothingStranded, QueuedWorkIsNoticed
<1>5. CASE SpuriousWakeup(w)
  BY <1>5 DEF SpuriousWakeup, FirstInFirstOut, NothingStranded, QueuedWorkIsNoticed
<1>6. CASE Run(w)
  <2> USE <1>6 DEF Run
  <2>1. metrics' \in [Workers -> Metric]
    <3>1. cur[w] \in Tasks /\ Size[cur[w]] \in Nat
      OBVIOUS
    <3>2. metrics[w].command_num + Size[cur[w]] \in Nat /\ metrics[w].block_num + 1 \in Nat
      BY <3>1 DEF Metric
    <3> QED
      BY <3>2 DEF Counted, Metric
  <2>2. TypeOK'
    <3>1. cur[w] \in Tasks
      OBVIOUS
    <3> QED
      BY <2>1, <3>1
  <2>3. InHand' /\ MutexHeld'
    OBVIOUS
  <2>4. Destructor' /\ ArgsAreFresh'
    OBVIOUS
  <2>5. FirstInFirstOut' /\ NothingStranded' /\ QueuedWorkIsNoticed'
    BY DEF FirstInFirstOut, NothingStranded, QueuedWorkIsNoticed
  <2> QED
    BY <2>2, <2>3, <2>4, <2>5
<1> QED
  BY <1>1, <1>2, <1>3, <1>4, <1>5, <1>6

\* The three actions of the destructor keep the invariant.
LEMMA OwnerStep == IInv /\ OwnerNext => IInv'
<1> SUFFICES ASSUME IInv, OwnerNext PROVE IInv'
  OBVIOUS
<1> USE ThreadPoolAssumption
        DEF IInv, TypeOK, InHand, MutexHeld, ArgsAreFresh, Destructor, poolVars, history,
            FirstInFirstOut, NothingStranded, QueuedWorkIsNoticed
<1>1. CASE SetQuit
  BY <1>1 DEF SetQuit
<1>2. CASE NotifyAll
  BY <1>2 DEF NotifyAll, Asleep
<1>3. CASE Join
  BY <1>3 DEF Join, CanJoin
<1> QED
  BY <1>1, <1>2, <1>3 DEF OwnerNext

LEMMA IInvKept == IInv /\ [Next]_vars => IInv'
<1>1. IInv /\ UNCHANGED vars => IInv'
  BY DEF IInv, vars, TypeOK, InHand, MutexHeld, ArgsAreFresh, Destructor,
         FirstInFirstOut, NothingStranded, QueuedWorkIsNoticed
<1> QED
  BY <1>1, ClientStep, WorkerStep, OwnerStep DEF Next

\* The inductive invariant.
THEOREM Inductive == Spec => []IInv
BY InitIInv, IInvKept, PTL DEF Spec

\* The state keeps its type.
THEOREM TypeCorrect == Spec => []TypeOK
BY Inductive, PTL DEF IInv

\* Tasks are popped in the order they were pushed, none lost, none twice.
THEOREM PoolIsFirstInFirstOut == Spec => []FirstInFirstOut
BY Inductive, PTL DEF IInv

\* No accepted task is left behind by the destructor, although it sets quit_
\* without the mutex.
THEOREM PoolStrandsNothing == Spec => []NothingStranded
BY Inductive, PTL DEF IInv

\* addTask's notification, sent after the unlock, never lets all workers sleep
\* on a non-empty queue.
THEOREM PoolNoticesWork == Spec => []QueuedWorkIsNoticed
BY Inductive, PTL DEF IInv

-----------------------------------------------------------------------------
\* The initial state of the pool is the abstract one.
LEMMA InitRefines == Init => TP!TPInit
BY EmptySeq DEF Init, TP!TPInit

\* Every step of the pool is a step of the abstract pool, or none.
LEMMA StepRefines == IInv /\ [Next]_vars => [TP!TPNext]_(TP!tpVars)
<1> SUFFICES ASSUME IInv, [Next]_vars
             PROVE  TP!TPNext \/ UNCHANGED TP!tpVars
  OBVIOUS
<1> USE ThreadPoolAssumption
        DEF IInv, TypeOK, InHand, Destructor, poolVars, history, TP!tpVars
<1>1. ASSUME NEW c \in Clients, NEW t \in Tasks, AddLock(c, t) \/ AddThrow(c, t)
      PROVE  UNCHANGED TP!tpVars
  BY <1>1 DEF AddLock, AddThrow
<1>2. ASSUME NEW c \in Clients, Emplace(c)
      PROVE  arg[c] \in Tasks /\ TP!Accept(arg[c])
  <2> USE <1>2 DEF Emplace
  <2>1. arg[c] \in Tasks /\ owner # "joined"
    BY DEF NothingStranded
  <2>2. arg[c] \notin Range(accepted)
    BY <2>1 DEF ArgsAreFresh
  <2> QED
    BY <2>1, <2>2 DEF TP!Accept, TP!Range, Range
<1>3. ASSUME NEW c \in Clients, NotifyOne(c)
      PROVE  UNCHANGED TP!tpVars
  BY <1>3 DEF NotifyOne
<1>4. ASSUME NEW w \in Workers, Take(w)
      PROVE  TP!Start(w)
  <2> USE <1>4 DEF Take, AtLock
  <2>1. /\ Len(tasks) \in Nat /\ Len(tasks) > 0
        /\ Len(started) \in Nat
        /\ Head(tasks) \in Tasks /\ Head(tasks) = tasks[1]
    BY EmptySeq, LenProperties, HeadTailProperties
  <2>2. /\ Len(accepted) = Len(started) + Len(tasks)
        /\ accepted[Len(started) + 1] = tasks[1]
    BY <2>1, ConcatProperties DEF FirstInFirstOut
  <2>3. Len(started') = Len(started) + 1
    BY <2>1, AppendProperties
  <2>4. cur[w] = None /\ owner' = owner
    OBVIOUS
  <2> QED
    BY <2>1, <2>2, <2>3, <2>4 DEF TP!Start
<1>5. ASSUME NEW w \in Workers,
             Exit(w) \/ Doze(w) \/ Sleep(w) \/ SpuriousWakeup(w)
      PROVE  UNCHANGED TP!tpVars
  BY <1>5 DEF Exit, Doze, Sleep, SpuriousWakeup
<1>6. ASSUME NEW w \in Workers, Run(w)
      PROVE  TP!Finish(w)
  BY <1>6 DEF Run, TP!Finish
<1>7. ASSUME SetQuit \/ NotifyAll
      PROVE  UNCHANGED TP!tpVars
  BY <1>7 DEF SetQuit, NotifyAll
<1>8. ASSUME Join
      PROVE  TP!Close
  <2> USE <1>8 DEF Join, CanJoin
  <2>1. tasks = <<>> /\ \A w \in Workers : cur[w] = None
    BY DEF NothingStranded
  <2>2. accepted = started
    BY <2>1, ConcatEmptySeq DEF FirstInFirstOut
  <2> QED
    BY <2>1, <2>2 DEF TP!Close
<1>9. CASE Next
  BY <1>9, <1>1, <1>2, <1>3, <1>4, <1>5, <1>6, <1>7, <1>8
     DEF Next, ClientNext, WorkerNext, OwnerNext, TP!TPNext
<1>10. CASE UNCHANGED vars
  BY <1>10 DEF vars
<1> QED
  BY <1>9, <1>10

\* The pool implements what its users rely on (TaskPool): every worker's steps,
\* the sleeping and waking included, and an unlocked destructor.
THEOREM PoolRefinesTaskPool == Spec => TP!TPSafety
BY InitRefines, StepRefines, Inductive, PTL DEF Spec, TP!TPSafety

-----------------------------------------------------------------------------
(***************************************************************************)
(* The metrics.  They are sums over the workers and over the tasks, so     *)
(* first what a sum over a finite set is: a fold adds the values in the    *)
(* order in which CHOOSE picks the elements.  Induction over sets is       *)
(* the least element of the well-founded order of strict inclusion.        *)
(***************************************************************************)

\* g gives the sum of f over every subset of S, the way a fold adds.
Adds(f, S, g) ==
  g = [T \in SUBSET S |-> IF T = {} THEN 0
                          ELSE f[CHOOSE x \in T : TRUE] + g[T \ {CHOOSE x \in T : TRUE}]]

Total(f, S) == (CHOOSE g : Adds(f, S, g))[S]

\* Induction over the subsets of a finite set.
LEMMA SubsetInduction ==
  ASSUME NEW S, IsFiniteSet(S), NEW D,
         ASSUME NEW T \in SUBSET S, \A U \in SUBSET T : U # T => U \in D
         PROVE  T \in D
  PROVE  S \in D
<1> DEFINE R == StrictSubsetOrdering(S)
           Bad == {T \in SUBSET S : T \notin D}
<1>1. IsWellFoundedOn(R, SUBSET S)
  BY FS_StrictSubsetOrderingWellFounded, FS_FiniteSubsetsOfFinite
<1>2. \A T \in SUBSET S : \A U \in SUBSET T : U # T => <<U, T>> \in R
  BY DEF StrictSubsetOrdering
<1> HIDE DEF R
<1>3. SUFFICES ASSUME Bad # {} PROVE FALSE
  BY <1>3
<1>4. Bad \subseteq SUBSET S
  OBVIOUS
<1> HIDE DEF Bad
<1>5. PICK T \in Bad : \A U \in Bad : ~ (<<U, T>> \in R)
  <2> DEFINE P == SUBSET S
  <2>1. IsWellFoundedOn(R, P) /\ Bad \subseteq P
    BY <1>1, <1>4
  <2> HIDE DEF P
  <2> QED
    BY <2>1, <1>3, WFMin
<1>6. ASSUME NEW U \in SUBSET T, U # T PROVE U \in D
  <2>1. U \in SUBSET S /\ <<U, T>> \in R
    BY <1>2, <1>4, <1>6
  <2> QED
    BY <2>1, <1>5 DEF Bad
<1> QED
  BY <1>5, <1>6 DEF Bad

LEMMA AddsBelow ==
  ASSUME NEW f, NEW S, NEW g, Adds(f, S, g), NEW T \in SUBSET S
  PROVE  Adds(f, T, [U \in SUBSET T |-> g[U]])
<1> DEFINE h == [U \in SUBSET T |-> g[U]]
<1>1. ASSUME NEW U \in SUBSET T
      PROVE  h[U] = IF U = {} THEN 0 ELSE f[CHOOSE x \in U : TRUE] + h[U \ {CHOOSE x \in U : TRUE}]
  BY DEF Adds
<1> QED
  BY <1>1, Zenon DEF Adds

\* There is one such function ...
LEMMA AddsUnique ==
  ASSUME NEW f, NEW S, IsFiniteSet(S), NEW g, Adds(f, S, g), NEW h, Adds(f, S, h)
  PROVE  g[S] = h[S]
<1> DEFINE D == {T \in SUBSET S : g[T] = h[T]}
<1>1. ASSUME NEW T \in SUBSET S, \A U \in SUBSET T : U # T => U \in D
      PROVE  T \in D
  <2> DEFINE c == CHOOSE x \in T : TRUE
  <2>1. CASE T = {}
    BY <2>1 DEF Adds
  <2>2. CASE T # {}
    <3>1. c \in T
      BY <2>2
    <3>2. g[T \ {c}] = h[T \ {c}]
      BY <3>1, <1>1
    <3>3. g[T] = f[c] + g[T \ {c}] /\ h[T] = f[c] + h[T \ {c}]
      BY <2>2 DEF Adds
    <3> QED
      BY <3>2, <3>3
  <2> QED
    BY <2>1, <2>2
<1> HIDE DEF D
<1>2. S \in D
  BY <1>1, SubsetInduction
<1> QED
  BY <1>2 DEF D

\* ... and always one.
LEMMA AddsExists ==
  ASSUME NEW f, NEW S, IsFiniteSet(S)
  PROVE  \E g : Adds(f, S, g)
<1> DEFINE D == {T \in SUBSET S : \E g : Adds(f, T, g)}
<1>1. ASSUME NEW T \in SUBSET S, \A U \in SUBSET T : U # T => U \in D
      PROVE  T \in D
  <2> DEFINE c(U) == CHOOSE x \in U : TRUE
             t(U) == (CHOOSE g : Adds(f, U, g))[U]
             g == [U \in SUBSET T |-> IF U = {} THEN 0 ELSE f[c(U)] + t(U \ {c(U)})]
  <2>1. \A U \in SUBSET T : U # {} => c(U) \in U
    OBVIOUS
  <2>2. ASSUME NEW U \in SUBSET T, U # T
        PROVE  Adds(f, U, CHOOSE h : Adds(f, U, h))
    BY <1>1, <2>2, Zenon
  <2>3. ASSUME NEW U \in SUBSET T, U # T
        PROVE  t(U) = g[U]
    <3> DEFINE h == CHOOSE h : Adds(f, U, h)
               V == U \ {c(U)}
    <3>1. Adds(f, U, h)
      BY <2>2, <2>3, Zenon
    <3> HIDE DEF h
    <3>2. CASE U = {}
      BY <3>1, <3>2 DEF Adds, h
    <3>3. CASE U # {}
      <4>1. c(U) \in U
        BY <3>3
      <4>2. h[U] = f[c(U)] + h[V]
        BY <3>1, <3>3 DEF Adds
      <4>3. V \in SUBSET U /\ V \in SUBSET T /\ V # T
        BY <4>1
      <4>4. h[V] = t(V)
        <5> DEFINE h1 == [W \in SUBSET V |-> h[W]]
                   h2 == CHOOSE k : Adds(f, V, k)
        <5>1. Adds(f, V, h1)
          BY <3>1, <4>3, AddsBelow, ZenonT(30)
        <5>2. Adds(f, V, h2)
          BY <2>2, <4>3, Zenon
        <5>3. IsFiniteSet(V)
          BY <4>3, FS_Subset
        <5>4. h1[V] = h2[V]
          <6> HIDE DEF h1, h2, V
          <6> QED  BY <5>1, <5>2, <5>3, AddsUnique
        <5> QED
          BY <5>4
      <4>5. g[U] = f[c(U)] + t(V)
        BY <3>3
      <4> QED
        BY <4>2, <4>4, <4>5, Zenon DEF h
    <3> QED
      BY <3>2, <3>3
  <2>4. ASSUME NEW U \in SUBSET T
        PROVE  g[U] = IF U = {} THEN 0 ELSE f[c(U)] + g[U \ {c(U)}]
    <3>1. CASE U = {}
      BY <3>1
    <3>2. CASE U # {}
      <4>1. c(U) \in U /\ U \ {c(U)} \in SUBSET T /\ U \ {c(U)} # T
        BY <3>2
      <4>2. t(U \ {c(U)}) = g[U \ {c(U)}]
        BY <4>1, <2>3, Zenon
      <4> HIDE DEF t, c
      <4> QED
        BY <3>2, <4>2
    <3> QED
      BY <3>1, <3>2
  <2>5. g = [U \in SUBSET T |-> g[U]]
    OBVIOUS
  <2>6. Adds(f, T, g)
    <3> HIDE DEF g
    <3> QED
      BY <2>4, <2>5 DEF Adds
  <2> QED
    BY <2>6
<1> HIDE DEF D
<1>2. S \in D
  BY <1>1, SubsetInduction
<1> QED
  BY <1>2 DEF D

\* The sum of f over a finite set.
LEMMA TotalAdds ==
  ASSUME NEW f, NEW S, IsFiniteSet(S)
  PROVE  \E g : Adds(f, S, g) /\ Total(f, S) = g[S]
BY AddsExists, Zenon DEF Total

\* It does not depend on what CHOOSE chooses first.
LEMMA TotalWithout ==
  ASSUME NEW S, IsFiniteSet(S), NEW f, \A x \in S : f[x] \in Nat
  PROVE  /\ Total(f, S) \in Nat
         /\ \A x \in S : Total(f, S) = f[x] + Total(f, S \ {x})
<1> DEFINE D == {T \in SUBSET S : /\ Total(f, T) \in Nat
                                 /\ \A x \in T : Total(f, T) = f[x] + Total(f, T \ {x})}
<1>1. ASSUME NEW T \in SUBSET S, T # {}
      PROVE  LET c == CHOOSE x \in T : TRUE IN c \in T /\ Total(f, T) = f[c] + Total(f, T \ {c})
  <2> DEFINE c == CHOOSE x \in T : TRUE
             U == T \ {c}
  <2>1. PICK g : Adds(f, T, g) /\ Total(f, T) = g[T]
    BY FS_Subset, TotalAdds
  <2>2. PICK h : Adds(f, U, h) /\ Total(f, U) = h[U]
    BY FS_Subset, TotalAdds
  <2>3. U \in SUBSET T /\ IsFiniteSet(U)
    BY FS_Subset
  <2>4. g[U] = h[U]
    <3> DEFINE g1 == [W \in SUBSET U |-> g[W]]
    <3>1. Adds(f, U, g1)
      BY <2>1, <2>3, AddsBelow, Zenon
    <3>2. g1[U] = g[U]
      OBVIOUS
    <3> HIDE DEF g1, U
    <3>3. g1[U] = h[U]
      BY <3>1, <2>2, <2>3, AddsUnique
    <3> QED
      BY <3>2, <3>3
  <2>5. g[T] = f[c] + g[U]
    BY <2>1, <1>1 DEF Adds
  <2>6. c \in T
    BY <1>1
  <2> QED
    BY <2>1, <2>2, <2>4, <2>5, <2>6
<1>2. Total(f, {}) = 0
  <2>1. PICK g : Adds(f, {}, g) /\ Total(f, {}) = g[{}]
    BY FS_EmptySet, TotalAdds
  <2> QED
    BY <2>1 DEF Adds
<1>3. ASSUME NEW T \in SUBSET S, \A U \in SUBSET T : U # T => U \in D
      PROVE  T \in D
  <2>1. CASE T = {}
    BY <2>1, <1>2
  <2>2. CASE T # {}
    <3> DEFINE c == CHOOSE x \in T : TRUE
    <3>1. c \in T /\ Total(f, T) = f[c] + Total(f, T \ {c})
      BY <1>1, <2>2
    <3> HIDE DEF c
    <3>2. T \ {c} \in D
      BY <3>1, <1>3
    <3>3. Total(f, T) \in Nat
      BY <3>1, <3>2
    <3>4. ASSUME NEW x \in T, x # c
          PROVE  Total(f, T) = f[x] + Total(f, T \ {x})
      <4> DEFINE U == (T \ {c}) \ {x}
      <4>1. Total(f, T \ {c}) = f[x] + Total(f, U)
        BY <3>2, <3>4
      <4>2. T \ {x} \in D /\ c \in T \ {x} /\ (T \ {x}) \ {c} = U
        BY <3>1, <3>4, <1>3
      <4>3. Total(f, T \ {x}) = f[c] + Total(f, U)
        BY <4>2
      <4>4. U \in D
        BY <3>1, <1>3
      <4>5. f[x] \in Nat /\ f[c] \in Nat /\ Total(f, U) \in Nat
        BY <3>1, <4>4
      <4> HIDE DEF U
      <4> QED
        BY <3>1, <4>1, <4>3, <4>5
    <3> QED
      BY <3>1, <3>3, <3>4
  <2> QED
    BY <2>1, <2>2
<1> HIDE DEF D
<1>4. S \in D
  BY <1>3, SubsetInduction
<1> QED
  BY <1>4 DEF D

LEMMA TotalOfNothing == ASSUME NEW f PROVE Total(f, {}) = 0
<1>1. PICK g : Adds(f, {}, g) /\ Total(f, {}) = g[{}]
  BY FS_EmptySet, TotalAdds
<1> QED
  BY <1>1 DEF Adds

\* Only the values in the set matter.
LEMMA TotalOfEquals ==
  ASSUME NEW S, IsFiniteSet(S), NEW f, NEW h, \A x \in S : f[x] = h[x]
  PROVE  Total(f, S) = Total(h, S)
<1>1. PICK g : Adds(f, S, g) /\ Total(f, S) = g[S]
  BY TotalAdds
<1>2. PICK k : Adds(h, S, k) /\ Total(h, S) = k[S]
  BY TotalAdds
<1>3. \A T \in SUBSET S : T # {} => f[CHOOSE x \in T : TRUE] = h[CHOOSE x \in T : TRUE]
  OBVIOUS
<1>4. ASSUME NEW T \in SUBSET S
      PROVE  g[T] = IF T = {} THEN 0 ELSE h[CHOOSE x \in T : TRUE] + g[T \ {CHOOSE x \in T : TRUE}]
  <2>1. CASE T = {}
    BY <2>1, <1>1 DEF Adds
  <2>2. CASE T # {}
    <3>1. g[T] = f[CHOOSE x \in T : TRUE] + g[T \ {CHOOSE x \in T : TRUE}]
      BY <2>2, <1>1 DEF Adds
    <3> QED
      BY <3>1, <2>2, <1>3
  <2> QED
    BY <2>1, <2>2
<1>5. Adds(h, S, g)
  <2>1. g = [T \in SUBSET S |-> g[T]]
    BY <1>1 DEF Adds
  <2> QED
    BY <2>1, <1>4 DEF Adds
<1> QED
  BY <1>1, <1>2, <1>5, AddsUnique
\* One value changes, and the sum by as much.
LEMMA TotalOfChange ==
  ASSUME NEW S, IsFiniteSet(S), NEW f, NEW h, NEW x \in S, NEW d \in Nat,
         \A y \in S : f[y] \in Nat,
         \A y \in S \ {x} : h[y] = f[y],
         h[x] = f[x] + d
  PROVE  Total(h, S) = Total(f, S) + d
<1>1. f[x] \in Nat /\ h[x] \in Nat /\ \A y \in S : h[y] \in Nat
  <2>1. \A y \in S : y = x \/ y \in S \ {x}
    OBVIOUS
  <2> QED
    BY <2>1
<1>2. Total(f, S) = f[x] + Total(f, S \ {x}) /\ Total(h, S) = h[x] + Total(h, S \ {x})
  BY <1>1, TotalWithout
<1>3. IsFiniteSet(S \ {x})
  BY FS_Subset
<1>4. Total(f, S \ {x}) \in Nat /\ Total(f, S \ {x}) = Total(h, S \ {x})
  BY <1>3, TotalWithout, TotalOfEquals
<1> QED
  BY <1>1, <1>2, <1>4

\* One more element, and the sum grows by its value.
LEMMA TotalOfMore ==
  ASSUME NEW S, IsFiniteSet(S), NEW f, NEW x, x \notin S,
         \A y \in S \cup {x} : f[y] \in Nat
  PROVE  Total(f, S \cup {x}) = Total(f, S) + f[x]
<1> DEFINE T == S \cup {x}
<1>1. IsFiniteSet(T) /\ x \in T /\ T \ {x} = S
  BY FS_AddElement
<1>2. \A y \in T : f[y] \in Nat
  OBVIOUS
<1> HIDE DEF T
<1>3. Total(f, T) = f[x] + Total(f, S)
  BY <1>1, <1>2, TotalWithout
<1>4. f[x] \in Nat /\ Total(f, S) \in Nat
  BY <1>1, <1>2, TotalWithout
<1> QED
  BY <1>3, <1>4 DEF T

\* The sums of MetricsAddUp are such totals.
LEMMA SumIsTotal ==
  ASSUME NEW f, NEW S
  PROVE  /\ SumFunctionOnSet(f, S) = Total(f, S)
         /\ DOMAIN f = S => SumFunction(f) = Total(f, S)
<1>1. SumFunctionOnSet(f, S) = Total(f, S)
  BY DEF SumFunctionOnSet, FoldFunctionOnSet, MapThenFoldSet, Total, Adds
<1>2. DOMAIN f = S => SumFunction(f) = SumFunctionOnSet(f, S)
  BY DEF SumFunction
<1> QED
  BY <1>1, <1>2

-----------------------------------------------------------------------------
BlockCount == [w \in Workers |-> metrics[w].block_num]
CommandCount == [w \in Workers |-> metrics[w].command_num]

Busy == {w \in Workers : cur[w] # None}

\* A task that was started is either finished or in the hands of one worker.
WorkInv ==
  /\ IsInjective(accepted)
  /\ Range(started) = done \cup {cur[w] : w \in Busy}
  /\ \A w \in Busy : cur[w] \notin done
  /\ \A v, w \in Busy : cur[v] = cur[w] => v = w
  /\ IsFiniteSet(done)

\* The workers together have counted what is finished; the destructor prints
\* what does not change any more.
CountInv ==
  /\ Total(BlockCount, Workers) = Cardinality(done)
  /\ Total(CommandCount, Workers) = Total(Size, done)
  /\ printed # None => printed = metrics /\ owner = "joined"

\* A sequence that is one of two parts, when its elements are all different:
\* what comes next is not in the first part.
LEMMA NextIsNew ==
  ASSUME NEW a \in Seq(Tasks), NEW s \in Seq(Tasks), NEW q \in Seq(Tasks),
         a = s \o q, IsInjective(a), q # <<>>
  PROVE  Head(q) \notin Range(s)
<1>1. /\ Len(s) \in Nat /\ Len(q) \in Nat /\ Len(q) > 0 /\ Head(q) = q[1]
      /\ DOMAIN s = 1 .. Len(s) /\ DOMAIN a = 1 .. Len(s) + Len(q)
  BY EmptySeq, LenProperties, HeadTailProperties, ConcatProperties
<1>2. a[Len(s) + 1] = q[1] /\ \A i \in 1 .. Len(s) : a[i] = s[i]
  BY <1>1, ConcatProperties
<1>3. ASSUME NEW i \in 1 .. Len(s), s[i] = q[1] PROVE FALSE
  <2>1. i \in DOMAIN a /\ Len(s) + 1 \in DOMAIN a /\ i # Len(s) + 1
    BY <1>1
  <2> QED
    BY <1>2, <1>3, <2>1 DEF IsInjective
<1> QED
  BY <1>1, <1>3 DEF Range

LEMMA InjectiveAppend ==
  ASSUME NEW a \in Seq(Tasks), IsInjective(a), NEW t \in Tasks, t \notin Range(a)
  PROVE  IsInjective(Append(a, t)) /\ Range(Append(a, t)) = Range(a) \cup {t}
<1>1. /\ Len(a) \in Nat /\ DOMAIN a = 1 .. Len(a)
      /\ DOMAIN Append(a, t) = 1 .. Len(a) + 1
      /\ Append(a, t)[Len(a) + 1] = t
      /\ \A i \in 1 .. Len(a) : Append(a, t)[i] = a[i]
  BY LenProperties, AppendProperties
<1>2. \A i \in 1 .. Len(a) + 1 : i \in 1 .. Len(a) \/ i = Len(a) + 1
  BY <1>1
<1>3. \A i \in 1 .. Len(a) : a[i] # t
  BY <1>1 DEF Range
<1>4. IsInjective(Append(a, t))
  BY <1>1, <1>2, <1>3 DEF IsInjective
<1>5. Range(Append(a, t)) = Range(a) \cup {t}
  BY <1>1, <1>2 DEF Range
<1> QED
  BY <1>4, <1>5

LEMMA RangeOfInjective ==
  ASSUME NEW a \in Seq(Tasks), IsInjective(a)
  PROVE  IsFiniteSet(Range(a)) /\ Cardinality(Range(a)) = Len(a)
<1> DEFINE S == 1 .. Len(a)
           T == Range(a)
<1>1. IsFiniteSet(S) /\ Cardinality(S) = Len(a)
  <2>1. Len(a) \in Nat
    BY LenProperties
  <2>2. IsFiniteSet(S) /\ Cardinality(S) = IF 1 > Len(a) THEN 0 ELSE Len(a) - 1 + 1
    BY <2>1, FS_Interval, SMTT(30)
  <2> QED
    BY <2>1, <2>2
<1>2. a \in Bijection(S, T)
  BY LenProperties DEF Bijection, Injection, Surjection, IsInjective, Range
<1> HIDE DEF S, T
<1>3. ExistsBijection(S, T)
  BY <1>2 DEF ExistsBijection
<1> QED
  BY <1>1, <1>3, FS_Bijection DEF T

-----------------------------------------------------------------------------
LEMMA TotalOfZeros ==
  ASSUME NEW S, IsFiniteSet(S), NEW f, \A x \in S : f[x] = 0
  PROVE  Total(f, S) = 0
<1> DEFINE D == {T \in SUBSET S : Total(f, T) = 0}
<1>1. ASSUME NEW T \in SUBSET S, \A U \in SUBSET T : U # T => U \in D
      PROVE  T \in D
  <2>1. CASE T = {}
    BY <2>1, TotalOfNothing
  <2>2. CASE T # {}
    <3>1. PICK x \in T : TRUE
      BY <2>2
    <3>2. IsFiniteSet(T) /\ \A y \in T : f[y] \in Nat
      BY FS_Subset
    <3>3. Total(f, T) = f[x] + Total(f, T \ {x})
      BY <3>2, TotalWithout
    <3>4. T \ {x} \in D
      BY <1>1, <3>1
    <3> QED
      BY <3>3, <3>4
  <2> QED
    BY <2>1, <2>2
<1> HIDE DEF D
<1>2. S \in D
  BY <1>1, SubsetInduction
<1> QED
  BY <1>2 DEF D

LEMMA MetricsInit == Init => WorkInv /\ CountInv
<1> SUFFICES ASSUME Init PROVE WorkInv /\ CountInv
  OBVIOUS
<1> USE ThreadPoolAssumption DEF Init
<1>1. accepted = <<>> /\ started = <<>> /\ DOMAIN accepted = {} /\ Range(started) = {}
  BY EmptySeq DEF Range
<1>2. WorkInv
  BY <1>1, FS_EmptySet DEF WorkInv, IsInjective, Busy
<1>3. IsFiniteSet(Workers)
  OBVIOUS
<1>4. CountInv
  <2>1. \A w \in Workers : BlockCount[w] = 0 /\ CommandCount[w] = 0
    BY DEF BlockCount, CommandCount
  <2>2. Total(BlockCount, Workers) = 0 /\ Total(CommandCount, Workers) = 0
    BY <1>3, <2>1, TotalOfZeros
  <2>3. Total(Size, done) = 0 /\ Cardinality(done) = 0
    BY TotalOfNothing, FS_EmptySet
  <2> QED
    BY <2>2, <2>3 DEF CountInv
<1> QED
  BY <1>2, <1>4

\* The steps that change neither what is accepted, started and finished nor
\* the counters.
LEMMA MetricsOfQuietStep ==
  ASSUME WorkInv, CountInv,
         UNCHANGED <<accepted, started, done, cur, metrics, printed>>,
         printed # None => UNCHANGED owner
  PROVE  WorkInv' /\ CountInv'
<1>1. BlockCount' = BlockCount /\ CommandCount' = CommandCount /\ Busy' = Busy
  BY DEF BlockCount, CommandCount, Busy
<1>2. WorkInv'
  BY <1>1 DEF WorkInv
<1> QED
  BY <1>1, <1>2 DEF CountInv

LEMMA MetricsOfPush ==
  ASSUME IInv, WorkInv, CountInv, NEW c \in Clients, Emplace(c)
  PROVE  WorkInv' /\ CountInv'
<1> USE ThreadPoolAssumption DEF Emplace
<1>1. arg[c] \in Tasks /\ arg[c] \notin Range(accepted) /\ accepted \in Seq(Tasks)
  BY DEF IInv, TypeOK, InHand, ArgsAreFresh
<1>2. IsInjective(accepted')
  BY <1>1, InjectiveAppend DEF WorkInv
<1>3. BlockCount' = BlockCount /\ CommandCount' = CommandCount /\ Busy' = Busy
  BY DEF BlockCount, CommandCount, Busy
<1> QED
  BY <1>2, <1>3 DEF WorkInv, CountInv

LEMMA MetricsOfTake ==
  ASSUME IInv, WorkInv, CountInv, NEW w \in Workers, Take(w)
  PROVE  WorkInv' /\ CountInv'
<1> USE ThreadPoolAssumption DEF Take, AtLock
<1> DEFINE t == Head(tasks)
<1>1. /\ t \in Tasks /\ accepted \in Seq(Tasks) /\ started \in Seq(Tasks) /\ tasks \in Seq(Tasks)
      /\ cur \in [Workers -> Tasks \cup {None}] /\ cur[w] = None
  BY HeadTailProperties DEF IInv, TypeOK, InHand
<1>2. t \notin Range(started)
  BY <1>1, NextIsNew DEF IInv, FirstInFirstOut, WorkInv
<1>3. Range(started') = Range(started) \cup {t}
  <2> DEFINE n == Len(started)
  <2>1. /\ n \in Nat /\ DOMAIN started = 1 .. n
        /\ DOMAIN started' = 1 .. n + 1 /\ started'[n + 1] = t
        /\ \A i \in 1 .. n : started'[i] = started[i]
    BY <1>1, LenProperties, AppendProperties
  <2>2. \A i \in 1 .. n + 1 : i \in 1 .. n \/ i = n + 1
    BY <2>1
  <2> QED
    BY <2>1, <2>2 DEF Range
<1> HIDE DEF t
<1>4. cur' = [cur EXCEPT ![w] = t]
  BY DEF t
<1>5. Busy' = Busy \cup {w} /\ w \notin Busy /\ Busy \subseteq Workers
  BY <1>1, <1>4 DEF Busy
<1>6. {cur'[v] : v \in Busy'} = {cur[v] : v \in Busy} \cup {t}
  BY <1>1, <1>4, <1>5
<1>7. \A v \in Busy : cur'[v] = cur[v] /\ cur[v] \in Range(started)
  BY <1>1, <1>4, <1>5 DEF WorkInv
<1>8. cur'[w] = t /\ t \notin done
  BY <1>1, <1>2, <1>4 DEF WorkInv
<1>9. WorkInv'
  <2>1. Range(started') = done' \cup {cur'[v] : v \in Busy'}
    BY <1>3, <1>6 DEF WorkInv
  <2>2. \A v \in Busy' : cur'[v] \notin done'
    BY <1>5, <1>7, <1>8 DEF WorkInv
  <2>3. \A u, v \in Busy' : cur'[u] = cur'[v] => u = v
    BY <1>2, <1>5, <1>7, <1>8 DEF WorkInv
  <2> QED
    BY <2>1, <2>2, <2>3 DEF WorkInv
<1>10. BlockCount' = BlockCount /\ CommandCount' = CommandCount
  BY DEF BlockCount, CommandCount
<1> QED
  BY <1>9, <1>10 DEF CountInv

LEMMA MetricsOfRun ==
  ASSUME IInv, WorkInv, CountInv, NEW w \in Workers, Run(w)
  PROVE  WorkInv' /\ CountInv'
<1> USE ThreadPoolAssumption DEF Run
<1> DEFINE t == cur[w]
           n == Size[t]
<1>1. /\ t \in Tasks /\ n \in Nat /\ w \in Busy /\ t \notin done /\ done \subseteq Tasks
      /\ cur \in [Workers -> Tasks \cup {None}]
      /\ metrics \in [Workers -> Metric]
      /\ owner # "joined"
  BY DEF IInv, TypeOK, InHand, Destructor, Busy, WorkInv
<1>2. Busy' = Busy \ {w} /\ \A v \in Busy' : cur'[v] = cur[v]
  BY <1>1 DEF Busy
<1>3. done' = done \cup {t}
  OBVIOUS
<1>4. WorkInv'
  <2>1. {cur'[v] : v \in Busy'} \cup {t} = {cur[v] : v \in Busy}
    BY <1>1, <1>2
  <2>2. Range(started') = done' \cup {cur'[v] : v \in Busy'}
    BY <1>3, <2>1 DEF WorkInv
  <2>3. \A v \in Busy' : cur'[v] \notin done'
    BY <1>1, <1>2, <1>3 DEF WorkInv
  <2>4. \A u, v \in Busy' : cur'[u] = cur'[v] => u = v
    BY <1>2 DEF WorkInv
  <2>5. IsFiniteSet(done')
    BY <1>3, FS_AddElement DEF WorkInv
  <2> QED
    BY <2>2, <2>3, <2>4, <2>5 DEF WorkInv
<1>5. /\ metrics' = [metrics EXCEPT ![w] = [command_num |-> metrics[w].command_num + n,
                                             block_num |-> metrics[w].block_num + 1]]
  BY DEF Counted
<1>6. /\ BlockCount'[w] = BlockCount[w] + 1 /\ CommandCount'[w] = CommandCount[w] + n
      /\ \A v \in Workers \ {w} : BlockCount'[v] = BlockCount[v] /\ CommandCount'[v] = CommandCount[v]
      /\ \A v \in Workers : BlockCount[v] \in Nat /\ CommandCount[v] \in Nat
  <2> HIDE DEF n
  <2> QED
    BY <1>1, <1>5 DEF BlockCount, CommandCount, Metric
<1>7. IsFiniteSet(Workers) /\ IsFiniteSet(done)
  BY DEF WorkInv
<1> DEFINE b == BlockCount
           bb == BlockCount'
           k == CommandCount
           kk == CommandCount'
<1>8. Total(BlockCount', Workers) = Total(BlockCount, Workers) + 1
  <2>1. /\ bb[w] = b[w] + 1 /\ 1 \in Nat /\ w \in Workers
        /\ \A v \in Workers : b[v] \in Nat
        /\ \A v \in Workers \ {w} : bb[v] = b[v]
    BY <1>6
  <2> HIDE DEF b, bb
  <2>2. Total(bb, Workers) = Total(b, Workers) + 1
    BY <1>7, <2>1, TotalOfChange, SMTT(30)
  <2> QED
    BY <2>2 DEF b, bb
<1>9. Total(CommandCount', Workers) = Total(CommandCount, Workers) + n
  <2>1. /\ kk[w] = k[w] + n /\ n \in Nat /\ w \in Workers
        /\ \A v \in Workers : k[v] \in Nat
        /\ \A v \in Workers \ {w} : kk[v] = k[v]
    BY <1>1, <1>6
  <2> HIDE DEF k, kk, n
  <2>2. Total(kk, Workers) = Total(k, Workers) + n
    BY <1>7, <2>1, TotalOfChange
  <2> QED
    BY <2>2 DEF k, kk
<1>10. Cardinality(done') = Cardinality(done) + 1
  BY <1>1, <1>3, <1>7, FS_AddElement
<1>11. Total(Size, done') = Total(Size, done) + n
  <2>1. \A y \in done \cup {t} : Size[y] \in Nat
    BY <1>1
  <2> QED
    BY <1>1, <1>3, <1>7, <2>1, TotalOfMore
<1>12. printed' = None
  BY <1>1 DEF CountInv
<1>13. CountInv'
  BY <1>8, <1>9, <1>10, <1>11, <1>12 DEF CountInv
<1> QED
  BY <1>4, <1>13

LEMMA MetricsKept ==
  ASSUME IInv, WorkInv, CountInv, [Next]_vars
  PROVE  WorkInv' /\ CountInv'
<1> USE DEF poolVars, history
<1>1. ASSUME NEW c \in Clients, NEW t \in Tasks, AddLock(c, t) \/ AddThrow(c, t)
      PROVE  WorkInv' /\ CountInv'
  BY <1>1, MetricsOfQuietStep DEF AddLock, AddThrow
<1>2. ASSUME NEW c \in Clients, NotifyOne(c)
      PROVE  WorkInv' /\ CountInv'
  BY <1>2, MetricsOfQuietStep DEF NotifyOne
<1>3. ASSUME NEW w \in Workers, Exit(w) \/ Doze(w) \/ Sleep(w) \/ SpuriousWakeup(w)
      PROVE  WorkInv' /\ CountInv'
  BY <1>3, MetricsOfQuietStep DEF Exit, Doze, Sleep, SpuriousWakeup
<1>4. CASE SetQuit \/ NotifyAll
  BY <1>4, MetricsOfQuietStep DEF SetQuit, NotifyAll, CountInv
<1>5. CASE Join
  <2>1. BlockCount' = BlockCount /\ CommandCount' = CommandCount /\ Busy' = Busy
    BY <1>5 DEF Join, BlockCount, CommandCount, Busy
  <2> QED
    BY <1>5, <2>1 DEF Join, WorkInv, CountInv
<1>6. CASE UNCHANGED vars
  BY <1>6, MetricsOfQuietStep DEF vars
<1> QED
  BY <1>1, <1>2, <1>3, <1>4, <1>5, <1>6, MetricsOfPush, MetricsOfTake, MetricsOfRun
     DEF Next, ClientNext, WorkerNext, OwnerNext

\* When the destructor has printed, every accepted task is finished.
LEMMA CountsAddUp == IInv /\ WorkInv /\ CountInv => MetricsAddUp
<1> SUFFICES ASSUME IInv, WorkInv, CountInv, printed # None
             PROVE  /\ SumFunction([w \in Workers |-> printed[w].block_num]) = Len(accepted)
                    /\ SumFunction([w \in Workers |-> printed[w].command_num])
                         = SumFunctionOnSet(Size, Range(accepted))
  BY DEF MetricsAddUp
<1> USE ThreadPoolAssumption
<1>1. printed = metrics /\ \A w \in Workers : wpc[w] = "exited"
  BY DEF CountInv, IInv, Destructor
<1>2. tasks = <<>> /\ Busy = {}
  BY <1>1 DEF IInv, NothingStranded, InHand, Busy
<1>3. accepted \in Seq(Tasks) /\ accepted = started
  BY <1>2, ConcatEmptySeq DEF IInv, TypeOK, FirstInFirstOut
<1>4. done = Range(accepted)
  BY <1>2, <1>3 DEF WorkInv
<1>5. Cardinality(done) = Len(accepted)
  BY <1>3, <1>4, RangeOfInjective DEF WorkInv
<1>6. /\ [w \in Workers |-> printed[w].block_num] = BlockCount
      /\ [w \in Workers |-> printed[w].command_num] = CommandCount
      /\ DOMAIN BlockCount = Workers /\ DOMAIN CommandCount = Workers
  BY <1>1 DEF BlockCount, CommandCount
<1>7. SumFunction(BlockCount) = Total(BlockCount, Workers)
  BY <1>6, SumIsTotal
<1>8. SumFunction(CommandCount) = Total(CommandCount, Workers)
  BY <1>6, SumIsTotal
<1>9. SumFunctionOnSet(Size, done) = Total(Size, done)
  BY SumIsTotal
<1> QED
  BY <1>4, <1>5, <1>6, <1>7, <1>8, <1>9 DEF CountInv

\* The metrics the destructor prints, which each worker keeps without a lock,
\* add up to all accepted tasks and to all their commands.
THEOREM MetricsAddUpHolds == Spec => []MetricsAddUp
<1> DEFINE Inv == IInv /\ WorkInv /\ CountInv
<1>1. Init => Inv
  BY InitIInv, MetricsInit
<1>2. Inv /\ [Next]_vars => Inv'
  BY IInvKept, MetricsKept
<1>3. Inv => MetricsAddUp
  BY CountsAddUp
<1> QED
  BY <1>1, <1>2, <1>3, PTL DEF Spec
=============================================================================
