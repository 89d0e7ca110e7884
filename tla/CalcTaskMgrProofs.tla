--------------------------- MODULE CalcTaskMgrProofs ---------------------------
(***************************************************************************)
(* Theorems about the matrix calculation, for every number of threads and  *)
(* of lines.  The first part is about ResultSaver alone, with callers that *)
(* hand over every line at most once: its inductive invariant says how far *)
(* the saver has got (Progress), which slots are full (Slots) and who      *)
(* keeps a line alive while somebody may still read it (Alive).            *)
(*                                                                         *)
(* The second part is about the whole calculation: the strides of its      *)
(* tasks are shown to discharge what the first part supposes (every step   *)
(* of the calculation is one the saver expects, or none of its business),  *)
(* so that what is proved of the saver holds in the program.               *)
(***************************************************************************)
EXTENDS CalcTaskMgr, SequenceTheorems, FiniteSetTheorems, TLAPS

-----------------------------------------------------------------------------
\* The saver.

\* The saver's position in the matrix, at every point of its loops.
Progress ==
  /\ spc \in {"check", "doze", "asleep", "scan", "done"} => Len(file) = first_idx
  /\ spc \in {"move", "write"} => Len(file) = idx /\ idx <= last_idx
  /\ spc = "scan" => first_idx <= last_idx
  /\ spc = "write" => idx < last_idx
  /\ spc = "done" => first_idx >= N

\* The lines the saver has taken out of their slots.
Taken == IF spc = "write" THEN Len(file) + 1 ELSE Len(file)

\* A slot is null only before its line arrives and after the saver took it;
\* every line before the end of the scan has arrived.
Slots ==
  /\ \A l \in Lines : results[l] <=> l \in delivered /\ l >= Taken
  /\ \A l \in Lines : l < Len(file) => l \in delivered
  /\ spc \in {"scan", "move", "write"} => \A l \in Lines : l < last_idx => l \in delivered

\* A caller is between its two stores of line l.
HalfStored(l) == \E c \in Callers : upc[c] = "count" /\ line[c] = l

\* Who owns a line that is in a slot or in the saver's hands.
Alive ==
  /\ \A c \in Callers : upc[c] # "idle" => /\ line[c] \in delivered
                                           /\ "caller" \in owners[line[c]]
  /\ \A c, d \in Callers : upc[c] # "idle" /\ upc[d] # "idle" /\ c # d
                             => line[c] # line[d]
  /\ \A l \in Lines : results[l] => "slot" \in owners[l] \/ HalfStored(l)
  /\ spc = "write" => \/ "slot" \in owners[idx]
                      \/ "saver" \in owners[idx]
                      \/ HalfStored(idx)

Numbered == \A k \in 1 .. Len(file) : file[k] = k - 1

IInv == RSTypeOK /\ Progress /\ Slots /\ Alive /\ Numbered

-----------------------------------------------------------------------------
LEMMA InitIInv == RSInit => IInv
<1> SUFFICES ASSUME RSInit PROVE IInv
  OBVIOUS
<1> USE ResultSaverAssumption DEF RSInit, Lines
<1>1. <<>> \in Seq(Lines) /\ Len(<<>>) = 0
  BY EmptySeq
<1>2. RSTypeOK
  BY <1>1 DEF RSTypeOK
<1>3. Progress /\ Numbered
  BY <1>1 DEF Progress, Numbered
<1>4. Slots /\ Alive
  BY <1>1 DEF Slots, Taken, Alive, HalfStored
<1> QED
  BY <1>2, <1>3, <1>4 DEF IInv

\* A caller's steps keep the invariant, wherever the saver is.
LEMMA CallerStep ==
  ASSUME IInv, NEW c \in Callers,
         (\E l \in Lines \ delivered : StorePointer(c, l)) \/ Continue(c)
  PROVE  IInv'
<1> USE ResultSaverAssumption DEF IInv, RSTypeOK, Lines, saverVars
<1> Len(file) \in Nat
  BY LenProperties
<1>1. ASSUME NEW l \in Lines \ delivered, StorePointer(c, l) PROVE IInv'
  <2> USE <1>1 DEF StorePointer
  <2>1. RSTypeOK'
    OBVIOUS
  <2>2. Progress' /\ Numbered'
    BY DEF Progress, Numbered
  <2>3. l >= Taken
    BY DEF Slots, Taken, Progress
  <2>4. Slots'
    BY <2>3 DEF Slots, Taken
  <2>5. Alive'
    <3>1. \A d \in Callers : upc[d] # "idle" => line[d] # l
      BY DEF Alive
    <3>2. \A m \in Lines : HalfStored(m) => HalfStored(m)'
      BY DEF HalfStored
    <3>3. HalfStored(l)'
      BY DEF HalfStored
    <3>4. \A m \in Lines : owners[m] \subseteq owners'[m]
      OBVIOUS
    <3> QED
      BY <3>1, <3>2, <3>3, <3>4 DEF Alive, Progress
  <2> QED
    BY <2>1, <2>2, <2>4, <2>5
<1>2. CASE StoreCount(c)
  <2> USE <1>2 DEF StoreCount, Counted
  <2>1. RSTypeOK'
    OBVIOUS
  <2>2. Progress' /\ Numbered' /\ Slots'
    BY DEF Progress, Numbered, Slots, Taken
  <2>3. Alive'
    <3>1. \A m \in Lines : HalfStored(m) => HalfStored(m)' \/ m = line[c]
      BY DEF HalfStored
    <3>2. "slot" \in owners'[line[c]]
      OBVIOUS
    <3>3. \A m \in Lines : owners[m] \subseteq owners'[m]
      OBVIOUS
    <3>4. idx \in Lines \/ spc # "write"
      BY DEF Progress
    <3>5. spc = "write" => \/ "slot" \in owners'[idx]
                           \/ "saver" \in owners'[idx]
                           \/ HalfStored(idx)'
      BY <3>1, <3>2, <3>3, <3>4 DEF Alive
    <3>6. \A m \in Lines : results[m] => "slot" \in owners'[m] \/ HalfStored(m)'
      BY <3>1, <3>2, <3>3 DEF Alive
    <3> QED
      BY <3>3, <3>5, <3>6 DEF Alive
  <2> QED
    BY <2>1, <2>2, <2>3
<1>3. CASE NotifyOne(c)
  <2> USE <1>3 DEF NotifyOne
  <2>1. RSTypeOK' /\ Progress' /\ Numbered' /\ Slots'
    BY DEF Progress, Numbered, Slots, Taken
  <2>2. \A m \in Lines : HalfStored(m) => HalfStored(m)'
    BY DEF HalfStored
  <2>3. Alive'
    BY <2>2 DEF Alive, Progress
  <2> QED
    BY <2>1, <2>3
<1>4. CASE Return(c)
  <2> USE <1>4 DEF Return
  <2>1. RSTypeOK'
    OBVIOUS
  <2>2. Progress' /\ Numbered' /\ Slots'
    BY DEF Progress, Numbered, Slots, Taken
  <2>3. Alive'
    <3>1. \A m \in Lines : HalfStored(m) => HalfStored(m)'
      BY DEF HalfStored
    <3>2. \A d \in Callers : upc'[d] # "idle" => d # c /\ line[d] # line[c]
      BY DEF Alive
    <3>3. \A m \in Lines : m # line[c] => owners'[m] = owners[m]
      OBVIOUS
    <3>4. \A m \in Lines : owners'[m] = owners[m] \/ owners'[m] = owners[m] \ {"caller"}
      OBVIOUS
    <3> QED
      BY <3>1, <3>2, <3>3, <3>4 DEF Alive, Progress
  <2> QED
    BY <2>1, <2>2, <2>3
<1> QED
  BY <1>1, <1>2, <1>3, <1>4 DEF Continue

\* The saver's steps keep it, whatever the callers store meanwhile.
LEMMA SaverKeeps == IInv /\ SaverNext => IInv'
<1> SUFFICES ASSUME IInv, SaverNext PROVE IInv'
  OBVIOUS
<1> USE ResultSaverAssumption DEF IInv, RSTypeOK, Lines, callerVars
<1> Len(file) \in Nat
  BY LenProperties
<1>1. ASSUME UNCHANGED <<owners, callerVars>>
      PROVE  \A m \in Lines : HalfStored(m)' <=> HalfStored(m)
  BY <1>1 DEF HalfStored
<1>2. CASE Done \/ Doze \/ Sleep \/ SpuriousWakeup \/ Ready
  <2> USE <1>2 DEF Done, Doze, Sleep, SpuriousWakeup, Ready
  <2>1. RSTypeOK'
    OBVIOUS
  <2>2. Progress' /\ Numbered'
    BY DEF Progress, Numbered
  <2>3. Slots'
    BY DEF Slots, Taken, Progress
  <2>4. Alive'
    BY <1>1 DEF Alive
  <2> QED
    BY <2>1, <2>2, <2>3, <2>4
<1>3. CASE Scan
  <2> USE <1>3 DEF Scan, CanAdvance
  <2>1. RSTypeOK' /\ Progress' /\ Numbered'
    BY DEF Progress, Numbered
  <2>2. last_idx \in Lines /\ last_idx \in delivered
    BY DEF Slots
  <2>3. \A l \in Lines : l < last_idx + 1 => l < last_idx \/ l = last_idx
    OBVIOUS
  <2>4. Slots'
    BY <2>2, <2>3 DEF Slots, Taken
  <2>5. Alive'
    BY <1>1 DEF Alive
  <2> QED
    BY <2>1, <2>4, <2>5
<1>4. CASE ScanEnd
  <2> USE <1>4 DEF ScanEnd
  <2>1. RSTypeOK' /\ Progress' /\ Numbered'
    BY DEF Progress, Numbered
  <2>2. Slots'
    BY DEF Slots, Taken
  <2>3. Alive'
    BY <1>1 DEF Alive
  <2> QED
    BY <2>1, <2>2, <2>3
<1>5. CASE Move
  <2> USE <1>5 DEF Move
  <2>1. RSTypeOK' /\ Progress' /\ Numbered'
    BY DEF Progress, Numbered
  <2>2. idx \in Lines /\ Len(file) = idx /\ results[idx]
    BY DEF Progress, Slots, Taken
  <2>3. Slots'
    BY <2>2 DEF Slots, Taken
  <2>4. \A m \in Lines : HalfStored(m) => HalfStored(m)'
    BY DEF HalfStored
  <2>5. \A m \in Lines : /\ "caller" \in owners[m] => "caller" \in owners'[m]
                         /\ m # idx => owners'[m] = owners[m]
    OBVIOUS
  <2>6. "slot" \in owners[idx] => "saver" \in owners'[idx]
    BY <2>2
  <2>7. Alive'
    BY <2>2, <2>4, <2>5, <2>6 DEF Alive
  <2> QED
    BY <2>1, <2>3, <2>7
<1>6. CASE WriteLine
  <2> USE <1>6 DEF WriteLine
  <2>1. idx \in Lines /\ Len(file) = idx /\ idx < last_idx
    BY DEF Progress
  <2>2. /\ file' \in Seq(Lines) /\ Len(file') = idx + 1
        /\ file'[idx + 1] = idx
        /\ \A k \in 1 .. idx : file'[k] = file[k]
    BY <2>1, AppendProperties
  <2>3. RSTypeOK'
    BY <2>1, <2>2
  <2>4. Progress'
    BY <2>1, <2>2 DEF Progress
  <2>5. Numbered'
    BY <2>1, <2>2 DEF Numbered
  <2>6. Slots'
    BY <2>1, <2>2 DEF Slots, Taken
  <2>7. \A m \in Lines : HalfStored(m) => HalfStored(m)'
    BY DEF HalfStored
  <2>8. \A m \in Lines : /\ "caller" \in owners[m] => "caller" \in owners'[m]
                         /\ "slot" \in owners[m] => "slot" \in owners'[m]
    OBVIOUS
  <2>9. Alive'
    BY <2>7, <2>8 DEF Alive
  <2> QED
    BY <2>3, <2>4, <2>5, <2>6, <2>9
<1>7. CASE Batch
  <2> USE <1>7 DEF Batch, NextFirst
  <2>1. RSTypeOK' /\ Progress' /\ Numbered'
    BY DEF Progress, Numbered
  <2>2. Slots'
    BY DEF Slots, Taken
  <2>3. Alive'
    BY <1>1 DEF Alive
  <2> QED
    BY <2>1, <2>2, <2>3
<1> QED
  BY <1>2, <1>3, <1>4, <1>5, <1>6, <1>7 DEF SaverNext, SaverStep

\* The inductive invariant.
THEOREM Inductive == RSSpec => []IInv
<1>1. IInv /\ [RSNext]_rsVars => IInv'
  <2>1. IInv /\ UNCHANGED rsVars => IInv'
    BY DEF IInv, rsVars, RSTypeOK, Progress, Slots, Taken, Alive, HalfStored, Numbered
  <2>2. ASSUME IInv, RSNext PROVE IInv'
    BY <2>2, CallerStep, SaverKeeps DEF RSNext
  <2> QED
    BY <2>1, <2>2
<1> QED
  BY InitIInv, <1>1, PTL DEF RSSpec

\* The matrix is written in order and without a gap, and completely when the
\* saver's thread ends.
THEOREM SaverKeepsOrder == RSSpec => []FileInOrder
<1>1. IInv => FileInOrder
  <2> SUFFICES ASSUME IInv PROVE FileInOrder
    OBVIOUS
  <2> USE ResultSaverAssumption DEF IInv, RSTypeOK, Lines
  <2>1. Len(file) \in Nat /\ \A k \in 1 .. Len(file) : file[k] \in Lines
    BY LenProperties, ElementOfSeq
  <2>2. \A k \in 1 .. Len(file) : file[k] = k - 1
    BY DEF Numbered
  <2>3. \A k \in 1 .. Len(file) : file[k] \in delivered
    BY <2>1, <2>2 DEF Slots
  <2>4. spc = "done" => Len(file) = N
    BY DEF Progress
  <2> QED
    BY <2>2, <2>3, <2>4 DEF FileInOrder
<1> QED
  BY Inductive, <1>1, PTL

\* The saver reads no line that has been released, although it may take the
\* pointer of a slot before the counter beside it is there.
THEOREM SaverReadsLiveMemory == RSSpec => []SavedFromLiveMemory
<1>1. IInv => SavedFromLiveMemory
  BY DEF IInv, Alive, HalfStored, SavedFromLiveMemory
<1> QED
  BY Inductive, <1>1, PTL

\* The saver implements OrderedOutput: every step of it or of a caller is a step
\* of the abstract specification, or changes neither delivered nor the file.
THEOREM SaverRefinesOrderedOutput == RSSpec => ImplementsOrderedOutput
<1>1. RSInit => OO!OOInit
  BY DEF RSInit, OO!OOInit
<1>2. IInv /\ [RSNext]_rsVars => [OO!OONext]_(OO!ooVars)
  <2> SUFFICES ASSUME IInv, [RSNext]_rsVars
               PROVE  OO!OONext \/ UNCHANGED OO!ooVars
    OBVIOUS
  <2> USE DEF OO!ooVars, callerVars, saverVars
  <2>1. ASSUME NEW c \in Callers, NEW l \in Lines \ delivered, StorePointer(c, l)
        PROVE  OO!Deliver(l)
    BY <2>1 DEF StorePointer, OO!Deliver
  <2>2. ASSUME NEW c \in Callers, Continue(c)
        PROVE  UNCHANGED OO!ooVars
    BY <2>2 DEF Continue, StoreCount, NotifyOne, Return
  <2>3. CASE WriteLine
    <3>1. idx = Len(file) /\ idx \in Lines /\ idx < last_idx
      BY <2>3, ResultSaverAssumption DEF WriteLine, IInv, RSTypeOK, Progress, Lines
    <3>2. idx \in delivered
      BY <2>3, <3>1 DEF WriteLine, IInv, Slots
    <3> QED
      BY <2>3, <3>1, <3>2 DEF WriteLine, OO!OONext, OO!Write
  <2>4. ASSUME SaverNext, ~WriteLine
        PROVE  UNCHANGED OO!ooVars
    BY <2>4 DEF SaverNext, SaverStep, Done, Ready, Doze, Sleep, SpuriousWakeup,
                Scan, ScanEnd, Move, Batch
  <2>5. CASE RSNext
    BY <2>5, <2>1, <2>2, <2>3, <2>4 DEF RSNext, OO!OONext, Lines
  <2>6. CASE UNCHANGED rsVars
    BY <2>6 DEF rsVars
  <2> QED
    BY <2>5, <2>6
<1> QED
  BY <1>1, <1>2, Inductive, PTL DEF RSSpec, ImplementsOrderedOutput, OO!OOSafety
-----------------------------------------------------------------------------
\* The whole calculation.

\* Line l is the one task k calculates in the m-th turn of its loop.
InStride(l, k, m) == l = k + m * threads_count

\* The type of the state of the pool, of the manager and of its workers' calls.
MgrTypeOK ==
  /\ upc \in [Workers -> {"idle", "count", "notify", "return"}]
  /\ line \in [Workers -> Nat]
  /\ accepted \in Seq(Tasks) /\ taken \in 0 .. Len(accepted)
  /\ running \in [Workers -> Tasks \cup {None}]
  /\ done \in SUBSET Tasks /\ closed \in BOOLEAN
  /\ posted \in 0 .. threads_count
  /\ task_num \in [Tasks -> Nat]
  /\ mgr \in {"run", "subscribers", "destroyed"}

\* The pool gets the tasks in the order of their numbers, so that the started
\* ones are those below taken, and no two workers run the same one.
TasksInOrder ==
  /\ Len(accepted) = posted
  /\ \A i \in 1 .. posted : accepted[i] = i - 1
  /\ \A w \in Workers : running[w] # None => running[w] < taken
  /\ \A v, w \in Workers : running[v] = running[w] /\ running[w] # None => v = w

\* A task's next line is in its stride; the worker that is inside update hands
\* over that line.
NextLines ==
  /\ \A k \in Tasks : \E m \in Nat : InStride(task_num[k], k, m)
  /\ \A w \in Workers :
       upc[w] # "idle" => running[w] # None /\ line[w] = task_num[running[w]]

\* Worker w is handing over the next line of task k.
InHandover(k) == \E w \in Workers : running[w] = k /\ upc[w] # "idle"

\* The lines of a task's stride that are handed over are those before its
\* next one, and the next one while a worker is in update with it.
HandedOver ==
  \A k \in Tasks, m \in Nat, l \in Lines :
    InStride(l, k, m) =>
      (l \in delivered <=> l < task_num[k] \/ (l = task_num[k] /\ InHandover(k)))

\* A started task that runs no more has come to the end of its stride.
Finished ==
  \A k \in Tasks : k < taken /\ (\A w \in Workers : running[w] # k) => task_num[k] >= N

\* The destructor of the pool came after the last post.
PoolGone ==
  mgr # "run" =>
    /\ posted = threads_count /\ taken = posted
    /\ \A w \in Workers : running[w] = None

MInv ==
  /\ MgrTypeOK
  /\ TasksInOrder
  /\ NextLines
  /\ HandedOver
  /\ Finished
  /\ PoolGone

-----------------------------------------------------------------------------
\* The strides of the tasks, arithmetically.

LEMMA Threads == threads_count \in Nat \ {0} /\ Tasks = 0 .. threads_count - 1
  BY CalcTaskMgrAssumption, PoolAssumption, FS_CardinalityType, FS_EmptySet
     DEF threads_count

\* Every line is in a stride.
LEMMA StrideExists ==
  ASSUME NEW l \in Nat
  PROVE  \E k \in Tasks, m \in Nat : InStride(l, k, m)
<1>1. l % threads_count \in 0 .. threads_count - 1 /\ l \div threads_count \in Nat
  BY Threads, SMT
<1>2. l = (l % threads_count) + (l \div threads_count) * threads_count
  BY Threads, SMT
<1> QED
  BY <1>1, <1>2, Threads DEF InStride

\* Turns of the loop are threads_count lines apart.
LEMMA TurnsApart ==
  ASSUME NEW m \in Nat, NEW n \in Nat, m < n
  PROVE  m * threads_count + threads_count <= n * threads_count
<1>1. PICK d \in Nat : n = m + 1 + d
  BY n - m - 1 \in Nat
<1>2. n * threads_count = m * threads_count + threads_count + d * threads_count
  BY <1>1, Threads
<1>3. d * threads_count \in Nat /\ m * threads_count \in Nat
  BY Threads
<1> QED
  BY <1>2, <1>3, Threads

\* A line is in one stride only, once.
LEMMA StrideUnique ==
  ASSUME NEW l \in Nat, NEW j \in Tasks, NEW k \in Tasks, NEW m \in Nat, NEW n \in Nat,
         InStride(l, j, m), InStride(l, k, n)
  PROVE  j = k
<1>1. m * threads_count \in Nat /\ n * threads_count \in Nat
  BY Threads
<1>2. ~(m < n) /\ ~(n < m)
  BY <1>1, TurnsApart, Threads DEF InStride
<1> QED
  BY <1>1, <1>2, Threads DEF InStride

\* The next line of a stride after t is t + threads_count.
LEMMA StrideNext ==
  ASSUME NEW k \in Tasks, NEW t \in Nat, NEW m \in Nat, InStride(t, k, m)
  PROVE  /\ InStride(t + threads_count, k, m + 1)
         /\ \A l \in Nat, n \in Nat :
              InStride(l, k, n) => (l < t + threads_count <=> l <= t)
<1>1. \A n \in Nat : n * threads_count \in Nat
  BY Threads
<1>2. (m + 1) * threads_count = m * threads_count + threads_count
  BY Threads
<1>3. ASSUME NEW l \in Nat, NEW n \in Nat, InStride(l, k, n)
      PROVE  l < t + threads_count <=> l <= t
  <2>1. n <= m => n * threads_count <= m * threads_count
    BY <1>1, TurnsApart, Threads
  <2>2. m < n => m * threads_count + threads_count <= n * threads_count
    BY TurnsApart
  <2> QED
    BY <1>1, <1>3, <2>1, <2>2, Threads DEF InStride
<1> QED
  BY <1>1, <1>2, <1>3, Threads DEF InStride

-----------------------------------------------------------------------------
LEMMA InitMInv == Init => MInv
<1> SUFFICES ASSUME Init PROVE MInv
  OBVIOUS
<1> USE Threads, CalcTaskMgrAssumption, PoolAssumption DEF Init, TPInit, RSInit
<1>1. <<>> \in Seq(Tasks) /\ Len(<<>>) = 0
  BY EmptySeq
<1>2. MgrTypeOK
  BY <1>1, SMTT(30) DEF MgrTypeOK
<1>3. TasksInOrder
  BY <1>1 DEF TasksInOrder
<1>4. NextLines
  <2>1. ASSUME NEW k \in Tasks PROVE InStride(task_num[k], k, 0)
    BY DEF InStride
  <2> QED
    BY <2>1 DEF NextLines
<1>5. HandedOver
  <2> SUFFICES ASSUME NEW k \in Tasks, NEW m \in Nat, NEW l \in Lines, InStride(l, k, m)
               PROVE  ~(l < task_num[k]) /\ ~InHandover(k)
    BY DEF HandedOver
  <2>1. m * threads_count \in Nat
    OBVIOUS
  <2>2. ~(l < task_num[k])
    BY <2>1 DEF InStride
  <2> QED
    BY <2>2 DEF InHandover
<1>6. Finished /\ PoolGone
  BY DEF Finished, PoolGone
<1> QED
  BY <1>2, <1>3, <1>4, <1>5, <1>6 DEF MInv

\* What the calculation of a line hands over is a line nobody handed over yet.
LEMMA FreshLine ==
  ASSUME MInv, NEW w \in Workers, Calculate(w)
  PROVE  task_num[running[w]] \in Lines \ delivered
<1> DEFINE k == running[w]
<1>1. k \in Tasks /\ task_num[k] \in Nat /\ task_num[k] < N
  BY ResultSaverAssumption DEF MInv, MgrTypeOK, Calculate, LoopEnds
<1>2. task_num[k] \in Lines
  BY <1>1, ResultSaverAssumption DEF Lines
<1>3. PICK m \in Nat : InStride(task_num[k], k, m)
  BY <1>1 DEF MInv, NextLines
<1>4. ~InHandover(k)
  BY DEF MInv, TasksInOrder, Calculate, StorePointer, InHandover
<1>5. ~(task_num[k] < task_num[k])
  BY <1>1
<1> QED
  BY <1>1, <1>2, <1>3, <1>4, <1>5 DEF MInv, HandedOver

-----------------------------------------------------------------------------
\* One lemma for each group of actions that disturb the same conjuncts.

LEMMA PostStep == MInv /\ Post => MInv'
<1> SUFFICES ASSUME MInv, Post PROVE MInv'
  OBVIOUS
<1> USE Threads DEF MInv, MgrTypeOK, Post, Accept, rsVars
<1>1. posted \in Tasks
  OBVIOUS
<1>2. /\ accepted' \in Seq(Tasks) /\ Len(accepted') = Len(accepted) + 1
      /\ \A i \in 1 .. Len(accepted) : accepted'[i] = accepted[i]
      /\ accepted'[Len(accepted) + 1] = posted
  BY <1>1, AppendProperties
<1>3. Len(accepted) = posted
  BY DEF TasksInOrder
<1>4. MgrTypeOK'
  BY <1>2, LenProperties
<1>5. TasksInOrder'
  BY <1>2, <1>3 DEF TasksInOrder
<1>6. NextLines' /\ HandedOver' /\ Finished'
  BY DEF NextLines, HandedOver, Finished, InHandover
<1>7. PoolGone'
  BY DEF PoolGone
<1> QED
  BY <1>4, <1>5, <1>6, <1>7

LEMMA StartStep == ASSUME MInv, NEW w \in Workers, StartTask(w) PROVE MInv'
<1> USE Threads, PoolAssumption DEF MInv, MgrTypeOK, StartTask, Start, rsVars, mgrVars
<1>1. /\ Len(accepted) = posted /\ taken \in Nat
      /\ taken < posted /\ accepted[taken + 1] = taken /\ taken \in Tasks
  BY DEF TasksInOrder
<1>2. /\ running' = [running EXCEPT ![w] = taken]
      /\ taken' = taken + 1
  BY <1>1
<1>3. MgrTypeOK'
  BY <1>1, <1>2, LenProperties, SMTT(30)
<1>4. TasksInOrder'
  <2>1. /\ Len(accepted') = posted'
        /\ \A i \in 1 .. posted' : accepted'[i] = i - 1
    BY DEF TasksInOrder
  <2>2. /\ running'[w] = taken /\ taken' = taken + 1
        /\ \A v \in Workers \ {w} : running'[v] = running[v]
    BY <1>2
  <2>3. ASSUME NEW v \in Workers, running'[v] # None PROVE running'[v] < taken'
    <3>1. CASE v = w
      BY <1>1, <2>2, <3>1
    <3>2. CASE v # w
      <4>1. running[v] \in Tasks /\ running[v] < taken
        BY <2>2, <2>3, <3>2 DEF TasksInOrder
      <4> QED
        BY <1>1, <2>2, <3>2, <4>1
    <3> QED
      BY <3>1, <3>2
  <2>4. ASSUME NEW u \in Workers, NEW v \in Workers,
               running'[u] = running'[v], running'[v] # None
        PROVE  u = v
    <3>1. \A x \in Workers : running[x] # None => running[x] < taken
      BY DEF TasksInOrder
    <3>2. taken # None /\ ~(taken < taken)
      BY <1>1, SMTT(30)
    <3> QED
      BY <2>2, <2>4, <3>1, <3>2 DEF TasksInOrder
  <2> QED
    BY <2>1, <2>3, <2>4 DEF TasksInOrder
<1>5. \A v \in Workers : upc[v] # "idle" => running'[v] = running[v]
  BY <1>2 DEF NextLines
<1>6. NextLines'
  BY <1>5 DEF NextLines
<1>7. \A k \in Tasks : InHandover(k)' <=> InHandover(k)
  BY <1>2, <1>5 DEF InHandover, NextLines
<1>8. HandedOver'
  BY <1>7 DEF HandedOver
<1>9. Finished'
  <2> SUFFICES ASSUME NEW k \in Tasks, k < taken + 1,
                      \A v \in Workers : running'[v] # k
               PROVE  task_num[k] >= N
    BY <1>2 DEF Finished
  <2>1. k < taken
    BY <1>1, <1>2
  <2>2. \A v \in Workers : running[v] # k
    BY <1>2
  <2> QED
    BY <2>1, <2>2 DEF Finished
<1>10. PoolGone'
  BY <1>1 DEF PoolGone
<1> QED
  BY <1>3, <1>4, <1>6, <1>8, <1>9, <1>10

LEMMA CalculateStep == ASSUME MInv, NEW w \in Workers, Calculate(w) PROVE MInv'
<1> DEFINE k == running[w]
<1> USE Threads, PoolAssumption DEF MInv, MgrTypeOK, Calculate, StorePointer, tpVars, mgrVars
<1>1. k \in Tasks /\ task_num[k] \in Nat
  OBVIOUS
<1>2. /\ upc' = [upc EXCEPT ![w] = "count"] /\ line' = [line EXCEPT ![w] = task_num[k]]
      /\ delivered' = delivered \cup {task_num[k]}
  OBVIOUS
<1>3. MgrTypeOK'
  BY <1>1
<1>4. TasksInOrder' /\ Finished' /\ PoolGone'
  BY DEF TasksInOrder, Finished, PoolGone
<1>5. NextLines'
  BY <1>1 DEF NextLines
<1>6. ASSUME NEW j \in Tasks, NEW m \in Nat, NEW l \in Lines, InStride(l, j, m)
      PROVE  l \in delivered' <=> l < task_num'[j] \/ (l = task_num'[j] /\ InHandover(j)')
  <2>1. l \in Nat
    BY ResultSaverAssumption DEF Lines
  <2>2. CASE j = k
    <3>1. InHandover(k)'
      BY DEF InHandover
    <3>2. ~InHandover(k)
      BY DEF TasksInOrder, InHandover
    <3> QED
      BY <1>6, <2>2, <3>1, <3>2 DEF HandedOver
  <2>3. CASE j # k
    <3>1. InHandover(j)' <=> InHandover(j)
      BY <2>3 DEF InHandover
    <3>2. PICK n \in Nat : InStride(task_num[k], k, n)
      BY <1>1 DEF NextLines
    <3>3. l # task_num[k]
      BY <1>1, <1>6, <2>1, <2>3, <3>2, StrideUnique
    <3> QED
      BY <1>6, <3>1, <3>3 DEF HandedOver
  <2> QED
    BY <2>2, <2>3
<1> QED
  BY <1>3, <1>4, <1>5, <1>6 DEF HandedOver

LEMMA InUpdateStep == ASSUME MInv, NEW w \in Workers, InUpdate(w) PROVE MInv'
<1> USE DEF MInv, MgrTypeOK, InUpdate, StoreCount, NotifyOne, saverVars, tpVars, mgrVars
<1>1. MgrTypeOK'
  OBVIOUS
<1>2. \A v \in Workers : upc'[v] = "idle" <=> upc[v] = "idle"
  OBVIOUS
<1>3. TasksInOrder' /\ Finished' /\ PoolGone'
  BY DEF TasksInOrder, Finished, PoolGone
<1>4. NextLines'
  BY <1>2 DEF NextLines
<1>5. \A k \in Tasks : InHandover(k)' <=> InHandover(k)
  BY <1>2 DEF InHandover
<1>6. HandedOver'
  BY <1>5 DEF HandedOver
<1> QED
  BY <1>1, <1>3, <1>4, <1>6

LEMMA EndUpdateStep == ASSUME MInv, NEW w \in Workers, EndUpdate(w) PROVE MInv'
<1> DEFINE k == running[w]
<1> USE Threads, PoolAssumption
    DEF MInv, MgrTypeOK, EndUpdate, Return, Advanced, saverVars, tpVars, mgrVars
<1>1. running[w] # None
  BY DEF NextLines
<1>2. k \in Tasks /\ task_num[k] \in Nat
  BY <1>1
<1>3. PICK m \in Nat : InStride(task_num[k], k, m)
  BY <1>2 DEF NextLines
<1>4. /\ upc' = [upc EXCEPT ![w] = "idle"]
      /\ task_num' = [task_num EXCEPT ![k] = task_num[k] + threads_count]
  BY <1>2
<1>5. MgrTypeOK'
  BY <1>2, SMTT(30)
<1>6. TasksInOrder' /\ PoolGone'
  BY DEF TasksInOrder, PoolGone
<1>7. \A v \in Workers : running[v] = k => v = w
  BY <1>1 DEF TasksInOrder
<1>8. NextLines'
  <2>1. InStride(task_num'[k], k, m + 1)
    BY <1>2, <1>3, <1>4, StrideNext
  <2>2. \A j \in Tasks : j # k => task_num'[j] = task_num[j]
    BY <1>4
  <2>3. \A j \in Tasks : \E n \in Nat : InStride(task_num'[j], j, n)
    <3>1. ASSUME NEW j \in Tasks, j # k PROVE \E n \in Nat : InStride(task_num'[j], j, n)
      <4>1. PICK n \in Nat : InStride(task_num[j], j, n)
        BY DEF NextLines
      <4> QED
        BY <2>2, <3>1, <4>1
    <3>2. ASSUME NEW j \in Tasks, j = k PROVE \E n \in Nat : InStride(task_num'[j], j, n)
      BY <2>1, <3>2, m + 1 \in Nat
    <3> QED
      BY <3>1, <3>2
  <2>4. \A v \in Workers :
          upc'[v] # "idle" => running[v] # None /\ line'[v] = task_num'[running[v]]
    BY <1>4, <1>7, <2>2 DEF NextLines
  <2> QED
    BY <2>3, <2>4 DEF NextLines
<1>9. Finished'
  BY <1>1, <1>4 DEF Finished
<1>10. ASSUME NEW j \in Tasks, NEW n \in Nat, NEW l \in Lines, InStride(l, j, n)
       PROVE  l \in delivered' <=> l < task_num'[j] \/ (l = task_num'[j] /\ InHandover(j)')
  <2>1. l \in Nat
    BY ResultSaverAssumption DEF Lines
  <2>2. CASE j = k
    <3>1. InHandover(k) /\ ~InHandover(k)'
      BY <1>4, <1>7 DEF InHandover
    <3>2. l \in delivered <=> l <= task_num[k]
      <4>1. l \in delivered <=> l < task_num[k] \/ (l = task_num[k] /\ InHandover(k))
        BY <1>2, <1>10, <2>2 DEF HandedOver
      <4> QED
        BY <1>2, <2>1, <3>1, <4>1
    <3>3. l < task_num[k] + threads_count <=> l <= task_num[k]
      BY <1>2, <1>3, <1>10, <2>1, <2>2, StrideNext
    <3> QED
      BY <1>2, <1>4, <2>2, <3>1, <3>2, <3>3
  <2>3. CASE j # k
    <3>1. InHandover(j)' <=> InHandover(j)
      BY <1>4, <2>3 DEF InHandover
    <3> QED
      BY <1>4, <1>10, <2>3, <3>1 DEF HandedOver
  <2> QED
    BY <2>2, <2>3
<1> QED
  BY <1>5, <1>6, <1>8, <1>9, <1>10 DEF HandedOver

LEMMA EndTaskStep == ASSUME MInv, NEW w \in Workers, EndTask(w) PROVE MInv'
<1> USE Threads, PoolAssumption DEF MInv, MgrTypeOK, EndTask, Finish, LoopEnds, rsVars, mgrVars
<1>1. /\ running[w] # None /\ upc[w] = "idle"
      /\ running' = [running EXCEPT ![w] = None]
      /\ task_num[running[w]] >= N
  OBVIOUS
<1>2. MgrTypeOK' /\ PoolGone'
  BY DEF PoolGone
<1>3. TasksInOrder'
  BY <1>1 DEF TasksInOrder
<1>4. \A v \in Workers : upc[v] # "idle" => running'[v] = running[v]
  BY <1>1
<1>5. NextLines'
  BY <1>4 DEF NextLines
<1>6. \A k \in Tasks : InHandover(k)' <=> InHandover(k)
  BY <1>1, <1>4 DEF InHandover
<1>7. HandedOver'
  BY <1>6 DEF HandedOver
<1>8. Finished'
  BY <1>1 DEF Finished
<1> QED
  BY <1>2, <1>3, <1>5, <1>7, <1>8

\* The manager's own steps, and those of the saver, leave the tasks alone.
LEMMA OtherStep ==
  ASSUME MInv,
         DestroyPool \/ DestroySubscribers \/ SaverThread \/ UNCHANGED vars
  PROVE  MInv'
<1> USE DEF MInv, MgrTypeOK, rsVars, tpVars, mgrVars, vars
<1>1. CASE DestroyPool
  BY <1>1 DEF DestroyPool, Close, TasksInOrder, NextLines, HandedOver, InHandover,
              Finished, PoolGone
<1>2. CASE DestroySubscribers
  BY <1>2 DEF DestroySubscribers, PoolIsGone, TasksInOrder, NextLines, HandedOver,
              InHandover, Finished, PoolGone
<1>3. ASSUME SaverNext PROVE UNCHANGED callerVars
  BY <1>3 DEF SaverNext, SaverStep, Done, Ready, Doze, Sleep, SpuriousWakeup,
              Scan, ScanEnd, Move, WriteLine, Batch, callerVars
<1>4. CASE SaverThread
  BY <1>3, <1>4 DEF SaverThread, callerVars, TasksInOrder, NextLines, HandedOver,
                    InHandover, Finished, PoolGone
<1>5. CASE UNCHANGED vars
  BY <1>5 DEF TasksInOrder, NextLines, HandedOver, InHandover, Finished, PoolGone
<1> QED
  BY <1>1, <1>2, <1>4, <1>5

-----------------------------------------------------------------------------
\* The invariant of the tasks holds in every reachable state.
THEOREM TasksInvariant == Spec => []MInv
<1>1. MInv /\ [Next]_vars => MInv'
  BY PostStep, StartStep, CalculateStep, InUpdateStep, EndUpdateStep, EndTaskStep,
     OtherStep DEF Next, WorkerThread
<1> QED
  BY InitMInv, <1>1, PTL DEF Spec

\* The workers of the calculation use the saver as ResultSaver supposes: every
\* step of the program is a step of the saver, a call of update with a line
\* nobody handed over before, the rest of such a call, or none of them.
THEOREM TasksRespectSaver == Spec => RSSpec
<1>1. Init => RSInit
  BY DEF Init
<1>2. MInv /\ [Next]_vars => [RSNext]_rsVars
  <2> SUFFICES ASSUME MInv, [Next]_vars PROVE RSNext \/ UNCHANGED rsVars
    OBVIOUS
  <2>1. Callers = Workers
    BY CalcTaskMgrAssumption
  <2>2. ASSUME NEW w \in Workers, WorkerThread(w) PROVE RSNext \/ UNCHANGED rsVars
    <3>1. CASE Calculate(w)
      BY <2>1, <3>1, FreshLine DEF Calculate, RSNext
    <3>2. CASE InUpdate(w) \/ EndUpdate(w)
      BY <2>1, <3>2 DEF InUpdate, EndUpdate, Continue, RSNext
    <3>3. CASE StartTask(w) \/ EndTask(w)
      BY <3>3 DEF StartTask, EndTask
    <3> QED
      BY <2>2, <3>1, <3>2, <3>3 DEF WorkerThread
  <2>3. CASE SaverThread
    BY <2>3 DEF SaverThread, RSNext
  <2>4. CASE Post \/ DestroyPool \/ DestroySubscribers
    BY <2>4 DEF Post, DestroyPool, DestroySubscribers
  <2>5. CASE UNCHANGED vars
    BY <2>5 DEF vars, rsVars
  <2> QED
    BY <2>2, <2>3, <2>4, <2>5 DEF Next
<1> QED
  BY <1>1, <1>2, TasksInvariant, PTL DEF Spec, RSSpec

\* No two tasks hand over the same line, for any number of threads and lines.
THEOREM StridesAreDisjoint == Spec => DisjointStrides
<1>1. MInv /\ [Next]_vars =>
        [\A w \in Workers : upc[w] = "idle" /\ upc'[w] # "idle"
                              => line'[w] \notin delivered]_vars
  <2> SUFFICES ASSUME MInv, Next, NEW v \in Workers, upc[v] = "idle", upc'[v] # "idle"
               PROVE  line'[v] \notin delivered
    OBVIOUS
  <2> USE DEF MInv, MgrTypeOK
  <2>1. CASE Calculate(v)
    BY <2>1, FreshLine DEF Calculate, StorePointer
  <2>2. ASSUME NEW w \in Workers, WorkerThread(w), ~Calculate(v) PROVE FALSE
    BY <2>2 DEF WorkerThread, StartTask, Calculate, InUpdate, EndUpdate, EndTask,
                StorePointer, StoreCount, NotifyOne, Return, rsVars
  <2>3. ASSUME SaverThread PROVE FALSE
    BY <2>3 DEF SaverThread, SaverNext, SaverStep, Done, Ready, Doze, Sleep,
                SpuriousWakeup, Scan, ScanEnd, Move, WriteLine, Batch, callerVars
  <2>4. ASSUME Post \/ DestroyPool \/ DestroySubscribers PROVE FALSE
    BY <2>4 DEF Post, DestroyPool, DestroySubscribers, rsVars
  <2> QED
    BY <2>1, <2>2, <2>3, <2>4 DEF Next
<1> QED
  BY <1>1, TasksInvariant, PTL DEF Spec, DisjointStrides

\* Once the pool is destroyed every line has been handed over and no worker is
\* inside update: the subscribers may die.
THEOREM PoolDiesFirst == Spec => []SubscribersOutliveCallers
<1>1. MInv /\ IInv => SubscribersOutliveCallers
  <2> SUFFICES ASSUME MInv, IInv, mgr # "run"
               PROVE  /\ \A w \in Workers : upc[w] = "idle" /\ running[w] = None
                      /\ delivered = Lines
    BY DEF SubscribersOutliveCallers
  <2>1. \A w \in Workers : upc[w] = "idle" /\ running[w] = None
    BY DEF MInv, PoolGone, NextLines
  <2>2. ASSUME NEW l \in Lines PROVE l \in delivered
    <3>1. l \in Nat /\ l < N
      BY ResultSaverAssumption DEF Lines
    <3>2. PICK k \in Tasks, m \in Nat : InStride(l, k, m)
      BY <3>1, StrideExists
    <3>3. k < taken /\ k # None
      BY Threads, PoolAssumption DEF MInv, PoolGone
    <3>4. task_num[k] >= N /\ task_num[k] \in Nat
      BY <2>1, <3>3 DEF MInv, Finished, MgrTypeOK
    <3> QED
      BY <3>1, <3>2, <3>4, ResultSaverAssumption DEF MInv, HandedOver
  <2> QED
    BY <2>1, <2>2 DEF IInv, RSTypeOK
<1> QED
  BY <1>1, TasksInvariant, TasksRespectSaver, Inductive, PTL

\* The matrix in the file is in order, and complete when the saver's thread
\* ends, whatever the threads of the calculation do.
THEOREM MatrixInOrder == Spec => [](FileInOrder /\ SavedFromLiveMemory)
  BY TasksRespectSaver, SaverKeepsOrder, SaverReadsLiveMemory, PTL
=============================================================================
