-------------------------- MODULE AsyncLibraryProofs --------------------------
(***************************************************************************)
(* Theorems about the library of OTUSLesson21, for every number of threads *)
(* and contexts, every size of a bulk and all chunks: a thread inside a    *)
(* processor has its mutex, and the processor is in the map; every bulk is *)
(* printed once, in order, and written once, and has been when disconnect  *)
(* returns; and the bulks of a context are those that its own stream makes *)
(* by the rules, wherever the chunks are cut and whoever brings them.      *)
(***************************************************************************)
EXTENDS AsyncLibrary, BulksProofs

Bulk == Seq(Nat)

Commands == [type : {"Base", "StartCustomBulk", "StopCustomBulk", "Terminator"}, data : Nat]

Managers ==
  [handler : {"general", "custom"}, nesting : Int, cur_bulk : Bulk, sent : Seq(Bulk)]

\* Where a thread uses the processor of its context, and where it has its mutex.
Inside == {"process", "add", "rest"}
Using == Inside \cup {"lock to receive", "lock to disconnect", "erase"}

Types ==
  /\ bulkmgrs \subseteq used /\ used \subseteq Contexts
  /\ mtx \in [Contexts -> Threads \cup {None}]
  /\ mgr \in [Contexts -> Managers]
  /\ coutq \in [Contexts -> Seq(Bulk)] /\ fileq \in [Contexts -> Seq(Bulk)]
  /\ printed \in [Contexts -> Seq(Bulk)] /\ written \in [Contexts -> Seq(Bulk)]
  /\ lines \in [Contexts -> Nat]
  /\ pc \in [Threads -> Using \cup Disconnecting \cup {"idle", "find to receive"}]
  /\ ctx \in [Threads -> used \cup {None}]
  /\ arg = [t \in Threads |-> arg[t]]
  /\ \A t \in Threads : /\ pc[t] # "idle" => ctx[t] \in used
                        /\ pc[t] = "add" => arg[t] \in Commands

\* Whoever disconnects is alone with its context.
Alone ==
  \A s, t \in Threads :
    s # t /\ pc[s] \in Disconnecting /\ pc[t] # "idle" => ctx[s] # ctx[t]

\* A processor is in the map as long as it is used, and used by one thread at a time.
ProcessorIsSafe ==
  \A t \in Threads :
    /\ pc[t] \in Using => ctx[t] \in bulkmgrs
    /\ pc[t] \in Inside => mtx[ctx[t]] = t

\* A context that has left the map has no output to come when its erase is over.
ErasedIsDrained ==
  \A c \in used \ bulkmgrs :
    Drained(c) \/ \E t \in Threads : pc[t] = "join" /\ ctx[t] = c

OutputInv ==
  \A c \in Contexts :
    /\ printed[c] \o coutq[c] = mgr[c].sent
    /\ Range(written[c]) \cup Range(fileq[c]) = Range(mgr[c].sent)
    /\ Len(written[c]) + Len(fileq[c]) = Len(mgr[c].sent)

IInv == Types /\ Alone /\ ProcessorIsSafe /\ ErasedIsDrained /\ OutputInv

-----------------------------------------------------------------------------
\* Sequences: what \o, RemoveAt and Tail leave of the elements.

LEMMA RangeOfConcat ==
  ASSUME NEW S, NEW s \in Seq(S), NEW u \in Seq(S)
  PROVE  Range(s \o u) = Range(s) \cup Range(u)
<1>1. /\ s \o u \in Seq(S) /\ Len(s \o u) = Len(s) + Len(u)
      /\ \A i \in 1 .. Len(s) + Len(u) :
           (s \o u)[i] = IF i <= Len(s) THEN s[i] ELSE u[i - Len(s)]
  BY ConcatProperties
<1>2. /\ DOMAIN (s \o u) = 1 .. Len(s \o u) /\ DOMAIN s = 1 .. Len(s)
      /\ DOMAIN u = 1 .. Len(u) /\ Len(s) \in Nat /\ Len(u) \in Nat
  BY <1>1, LenProperties
<1>3. ASSUME NEW i \in 1 .. Len(s) PROVE s[i] \in Range(s \o u)
  <2>1. i \in DOMAIN (s \o u) /\ (s \o u)[i] = s[i]
    BY <1>1, <1>2, SMT
  <2> QED  BY <2>1 DEF Range
<1>4. ASSUME NEW i \in 1 .. Len(u) PROVE u[i] \in Range(s \o u)
  <2>1. Len(s) + i \in DOMAIN (s \o u) /\ (s \o u)[Len(s) + i] = u[i]
    BY <1>1, <1>2, SMT
  <2> QED  BY <2>1 DEF Range
<1>5. ASSUME NEW i \in 1 .. Len(s) + Len(u) PROVE (s \o u)[i] \in Range(s) \cup Range(u)
  <2>1. CASE i <= Len(s)
    <3>1. i \in DOMAIN s /\ (s \o u)[i] = s[i]
      BY <2>1, <1>1, <1>2, SMT
    <3> QED  BY <3>1 DEF Range
  <2>2. CASE ~(i <= Len(s))
    <3>1. i - Len(s) \in DOMAIN u /\ (s \o u)[i] = u[i - Len(s)]
      BY <2>2, <1>1, <1>2, SMT
    <3> QED  BY <3>1 DEF Range
  <2> QED  BY <2>1, <2>2
<1> QED
  BY <1>1, <1>2, <1>3, <1>4, <1>5, Zenon DEF Range

LEMMA MoveFirst ==
  ASSUME NEW S, NEW s \in Seq(S), NEW u \in Seq(S), u # <<>>
  PROVE  /\ Append(s, Head(u)) \in Seq(S) /\ Tail(u) \in Seq(S)
         /\ Append(s, Head(u)) \o Tail(u) = s \o u
<1>1. Head(u) \in S /\ Tail(u) \in Seq(S) /\ Len(Tail(u)) = Len(u) - 1
      /\ \A i \in 1 .. Len(Tail(u)) : Tail(u)[i] = u[i + 1]
  BY HeadTailProperties
<1>2. Len(u) \in Nat \ {0} /\ Len(s) \in Nat
  BY EmptySeq, LenProperties
<1> DEFINE a == Append(s, Head(u))
<1>3. /\ a \in Seq(S) /\ Len(a) = Len(s) + 1 /\ a[Len(s) + 1] = Head(u)
      /\ \A i \in 1 .. Len(s) : a[i] = s[i]
  BY <1>1, AppendProperties
<1>4. Head(u) = u[1]
  OBVIOUS
<1> HIDE DEF a
<1>5. /\ a \o Tail(u) \in Seq(S) /\ Len(a \o Tail(u)) = Len(a) + Len(Tail(u))
      /\ \A i \in 1 .. Len(a) + Len(Tail(u)) :
           (a \o Tail(u))[i] = IF i <= Len(a) THEN a[i] ELSE Tail(u)[i - Len(a)]
  BY <1>1, <1>3, ConcatProperties
<1>6. /\ s \o u \in Seq(S) /\ Len(s \o u) = Len(s) + Len(u)
      /\ \A i \in 1 .. Len(s) + Len(u) :
           (s \o u)[i] = IF i <= Len(s) THEN s[i] ELSE u[i - Len(s)]
  BY ConcatProperties
<1>7. Len(a \o Tail(u)) = Len(s \o u)
  BY <1>1, <1>2, <1>3, <1>5, <1>6
<1>8. ASSUME NEW i \in 1 .. Len(a \o Tail(u)) PROVE (a \o Tail(u))[i] = (s \o u)[i]
  <2>1. CASE i <= Len(s)
    BY <2>1, <1>1, <1>2, <1>3, <1>5, <1>6
  <2>2. CASE i = Len(s) + 1
    BY <2>2, <1>1, <1>2, <1>3, <1>4, <1>5, <1>6
  <2>3. CASE i > Len(s) + 1
    <3>1. i - Len(a) \in 1 .. Len(Tail(u)) /\ i - Len(a) + 1 = i - Len(s)
      BY <2>3, <1>1, <1>2, <1>3, <1>5
    <3>2. (a \o Tail(u))[i] = u[i - Len(s)]
      BY <3>1, <2>3, <1>1, <1>2, <1>3, <1>5
    <3>3. i \in 1 .. Len(s) + Len(u) /\ ~(i <= Len(s))
      BY <2>3, <1>2, <1>6, <1>7
    <3> QED  BY <3>2, <3>3, <1>6
  <2> QED  BY <2>1, <2>2, <2>3, <1>2, <1>6, <1>7
<1>9. a \o Tail(u) = s \o u
  BY <1>5, <1>6, <1>7, <1>8, SeqEqual
<1> QED  BY <1>1, <1>3, <1>9 DEF a

\* An element leaves one sequence and goes to the end of another.
LEMMA MoveElement ==
  ASSUME NEW S, NEW s \in Seq(S), NEW u \in Seq(S), NEW i \in 1 .. Len(u)
  PROVE  /\ Append(s, u[i]) \in Seq(S) /\ RemoveAt(u, i) \in Seq(S)
         /\ Len(Append(s, u[i])) + Len(RemoveAt(u, i)) = Len(s) + Len(u)
         /\ Range(Append(s, u[i])) \cup Range(RemoveAt(u, i)) = Range(s) \cup Range(u)
<1>1. Len(u) \in Nat /\ Len(s) \in Nat /\ u[i] \in S /\ i \in Nat
  BY LenProperties, ElementOfSeq
<1> DEFINE before == SubSeq(u, 1, i - 1)
           from == SubSeq(u, i, Len(u))
           after == SubSeq(u, i + 1, Len(u))
<1>2. before \in Seq(S) /\ from \in Seq(S) /\ after \in Seq(S)
  <2>1. \A k \in 1 .. Len(u) : u[k] \in S
    BY ElementOfSeq
  <2> QED  BY <2>1, <1>1, SubSeqProperties
<1>3. Len(before) = i - 1 /\ Len(after) = Len(u) - i
  <2>1. \A k \in 1 .. Len(u) : u[k] \in S
    BY ElementOfSeq
  <2>2. Len(before) = IF 1 <= i - 1 THEN i - 1 - 1 + 1 ELSE 0
    BY <2>1, <1>1, SubSeqProperties
  <2>3. Len(after) = IF i + 1 <= Len(u) THEN Len(u) - (i + 1) + 1 ELSE 0
    BY <2>1, <1>1, SubSeqProperties
  <2> QED  BY <2>2, <2>3, <1>1
<1>4. u = before \o from
  <2>1. 1 \in 1 .. Len(u) + 1 /\ i - 1 \in 1 - 1 .. Len(u) /\ Len(u) \in i - 1 .. Len(u)
    BY <1>1
  <2>2. before \o SubSeq(u, (i - 1) + 1, Len(u)) = SubSeq(u, 1, Len(u))
    BY <2>1, ConcatAdjacentSubSeq
  <2>3. SubSeq(u, 1, Len(u)) = u /\ (i - 1) + 1 = i
    BY <1>1, SubSeqFull
  <2> QED  BY <2>2, <2>3
<1>5. from = <<u[i]>> \o after
  BY <1>1, SubSeqRecursiveFirst
<1>6. RemoveAt(u, i) = before \o after
  BY DEF RemoveAt
<1>7. /\ Append(s, u[i]) = s \o <<u[i]>> /\ Append(s, u[i]) \in Seq(S)
      /\ Len(Append(s, u[i])) = Len(s) + 1
  BY <1>1, AppendIsConcat, AppendProperties
<1>8. <<u[i]>> \in Seq(S)
  BY <1>1
<1> HIDE DEF before, from, after
<1>9. /\ RemoveAt(u, i) \in Seq(S)
      /\ Len(RemoveAt(u, i)) = Len(before) + Len(after)
  BY <1>2, <1>6, ConcatProperties
<1>10. /\ Range(u) = Range(before) \cup (Range(<<u[i]>>) \cup Range(after))
       /\ Range(RemoveAt(u, i)) = Range(before) \cup Range(after)
       /\ Range(Append(s, u[i])) = Range(s) \cup Range(<<u[i]>>)
  <2>1. Range(u) = Range(before) \cup Range(from)
    BY <1>2, <1>4, RangeOfConcat
  <2>2. Range(from) = Range(<<u[i]>>) \cup Range(after)
    BY <1>2, <1>5, <1>8, RangeOfConcat, ZenonT(60)
  <2>3. Range(before \o after) = Range(before) \cup Range(after)
    BY <1>2, RangeOfConcat
  <2>4. Range(s \o <<u[i]>>) = Range(s) \cup Range(<<u[i]>>)
    BY <1>8, RangeOfConcat, ZenonT(30)
  <2> QED  BY <2>1, <2>2, <2>3, <2>4, <1>6, <1>7
<1>11. Len(Append(s, u[i])) + Len(RemoveAt(u, i)) = Len(s) + Len(u)
  BY <1>1, <1>3, <1>7, <1>9
<1>12. Range(Append(s, u[i])) \cup Range(RemoveAt(u, i)) = Range(s) \cup Range(u)
  BY <1>10
<1> QED  BY <1>7, <1>9, <1>11, <1>12

-----------------------------------------------------------------------------
\* The manager: a command sends nothing, or one bulk.

LEMMA FlushSends ==
  ASSUME NEW m \in Managers
  PROVE  /\ Flushed(m) \in Managers
         /\ \/ Flushed(m).sent = m.sent
            \/ Flushed(m).sent = Append(m.sent, m.cur_bulk)
<1>1. Append(m.sent, m.cur_bulk) \in Seq(Bulk) /\ <<>> \in Bulk
  <2>1. m.sent \in Seq(Bulk) /\ m.cur_bulk \in Bulk
    BY DEF Managers
  <2> QED  BY <2>1, AppendProperties DEF Bulk
<1>2. CASE m.cur_bulk = <<>>
  BY <1>2 DEF Flushed
<1>3. CASE m.cur_bulk # <<>>
  BY <1>1, <1>3 DEF Flushed, Managers
<1> QED  BY <1>2, <1>3

LEMMA CommandSends ==
  ASSUME NEW m \in Managers, NEW cmd \in Commands, NEW size
  PROVE  /\ AddCmd(m, cmd, size) \in Managers
         /\ \/ AddCmd(m, cmd, size).sent = m.sent
            \/ \E b \in Bulk : AddCmd(m, cmd, size).sent = Append(m.sent, b)
<1> DEFINE SendsOne(r) ==
      r \in Managers /\ (r.sent = m.sent \/ \E b \in Bulk : r.sent = Append(m.sent, b))
<1>1. /\ m.cur_bulk \in Bulk /\ Append(m.cur_bulk, cmd.data) \in Bulk /\ <<>> \in Bulk
      /\ cmd.type \in {"Base", "StartCustomBulk", "StopCustomBulk", "Terminator"}
      /\ m.handler \in {"general", "custom"}
  BY AppendProperties DEF Managers, Commands, Bulk
<1>2. SendsOne(m)
  OBVIOUS
<1>3. Pushed(m, cmd) \in Managers /\ Pushed(m, cmd).sent = m.sent
  BY <1>1 DEF Pushed, Managers
<1>4. ASSUME NEW p \in Managers, p.sent = m.sent PROVE SendsOne(Flushed(p))
  BY <1>4, FlushSends DEF Managers
<1>5. CASE m.handler = "general"
  <2>1. AddCmd(m, cmd, size) = GeneralHandle(m, cmd, size)
    BY <1>5 DEF AddCmd
  <2>2. CASE cmd.type = "Base"
    <3>1. GeneralHandle(m, cmd, size) \in {Flushed(Pushed(m, cmd)), Pushed(m, cmd)}
      BY <2>2 DEF GeneralHandle
    <3> QED  BY <2>1, <3>1, <1>3, <1>4
  <2>3. CASE cmd.type = "StartCustomBulk"
    <3> DEFINE f == Flushed(m)
    <3>1. SendsOne(f)
      BY <1>4
    <3>2. GeneralHandle(m, cmd, size) = [f EXCEPT !.handler = "custom", !.nesting = @ + 1]
      BY <2>3 DEF GeneralHandle
    <3> HIDE DEF f
    <3> DEFINE g == [f EXCEPT !.handler = "custom", !.nesting = @ + 1]
    <3>3. g \in Managers /\ g.sent = f.sent
      <4>1. f \in Managers
        BY <3>1
      <4>2. f.nesting + 1 \in Int
        BY <4>1 DEF Managers
      <4> DEFINE h == [f EXCEPT !.handler = "custom"]
                 n == f.nesting + 1
      <4>3. h \in Managers /\ h.sent = f.sent /\ h.nesting = f.nesting
        BY <4>1 DEF Managers
      <4>4. g = [h EXCEPT !.nesting = n]
        BY <4>1 DEF Managers
      <4> HIDE DEF h, n
      <4>5. [h EXCEPT !.nesting = n] \in Managers /\ [h EXCEPT !.nesting = n].sent = h.sent
        BY <4>2, <4>3 DEF Managers, n
      <4> QED  BY <4>3, <4>4, <4>5
    <3> QED  BY <2>1, <3>1, <3>2, <3>3
  <2>4. CASE cmd.type = "StopCustomBulk"
    BY <2>1, <2>4, <1>2 DEF GeneralHandle
  <2>5. CASE cmd.type = "Terminator"
    BY <2>1, <2>5, <1>4 DEF GeneralHandle
  <2> QED  BY <1>1, <2>2, <2>3, <2>4, <2>5
<1>6. CASE m.handler = "custom"
  <2>1. AddCmd(m, cmd, size) = CustomHandle(m, cmd)
    BY <1>6 DEF AddCmd
  <2>2. CASE cmd.type = "Base"
    BY <2>1, <2>2, <1>3 DEF CustomHandle
  <2>3. CASE cmd.type = "StartCustomBulk"
    <3>1. CustomHandle(m, cmd) = [m EXCEPT !.nesting = @ + 1]
      BY <2>3 DEF CustomHandle
    <3>2. CustomHandle(m, cmd) \in Managers /\ CustomHandle(m, cmd).sent = m.sent
      BY <3>1 DEF Managers
    <3> QED  BY <2>1, <3>2
  <2>4. CASE cmd.type = "StopCustomBulk"
    <3> DEFINE p == [m EXCEPT !.nesting = @ - 1]
               f == Flushed(p)
    <3>1. p \in Managers /\ p.sent = m.sent
      BY DEF Managers
    <3>2. CustomHandle(m, cmd) \in {[f EXCEPT !.handler = "general"], p}
      BY <2>4 DEF CustomHandle
    <3>3. SendsOne(f)
      BY <3>1, <1>4
    <3> HIDE DEF p, f
    <3>4. [f EXCEPT !.handler = "general"] \in Managers
          /\ [f EXCEPT !.handler = "general"].sent = f.sent
      BY <3>3 DEF Managers
    <3> QED  BY <2>1, <3>1, <3>2, <3>3, <3>4
  <2>5. CASE cmd.type = "Terminator"
    <3>1. CustomHandle(m, cmd) = [m EXCEPT !.cur_bulk = <<>>]
      BY <2>5 DEF CustomHandle
    <3>2. CustomHandle(m, cmd) \in Managers /\ CustomHandle(m, cmd).sent = m.sent
      BY <3>1, <1>1 DEF Managers
    <3> QED  BY <2>1, <3>2
  <2> QED  BY <1>1, <2>2, <2>3, <2>4, <2>5
<1> QED  BY <1>1, <1>5, <1>6

\* What add_cmd sends goes to both pools of its context, and nowhere else.
LEMMA AddSends ==
  ASSUME Types, NEW c \in Contexts, NEW cmd \in Commands, Add(c, cmd)
  PROVE  /\ mgr' \in [Contexts -> Managers]
         /\ coutq' \in [Contexts -> Seq(Bulk)] /\ fileq' \in [Contexts -> Seq(Bulk)]
         /\ \A d \in Contexts \ {c} :
              mgr'[d] = mgr[d] /\ coutq'[d] = coutq[d] /\ fileq'[d] = fileq[d]
         /\ \E bulks \in Seq(Bulk) : /\ mgr'[c].sent = mgr[c].sent \o bulks
                                     /\ coutq'[c] = coutq[c] \o bulks
                                     /\ fileq'[c] = fileq[c] \o bulks
<1> DEFINE m == mgr[c]
           r == AddCmd(m, cmd, BulkSize)
           bulks == SubSeq(mgr'[c].sent, Len(m.sent) + 1, Len(mgr'[c].sent))
<1>1. m \in Managers /\ m.sent \in Seq(Bulk) /\ coutq[c] \in Seq(Bulk) /\ fileq[c] \in Seq(Bulk)
  BY DEF Types, Managers
<1>2. r \in Managers /\ (r.sent = m.sent \/ \E b \in Bulk : r.sent = Append(m.sent, b))
  BY <1>1, CommandSends
<1> HIDE DEF r
<1>3. mgr' = [mgr EXCEPT ![c] = r] /\ mgr'[c] = r
  BY DEF Add, Types, r
<1>4. bulks \in Seq(Bulk) /\ r.sent = m.sent \o bulks
  <2>1. Len(m.sent) \in Nat
    BY <1>1, LenProperties
  <2>2. CASE r.sent = m.sent
    <3>1. Len(m.sent) + 1 \in Int /\ Len(m.sent) \in Int /\ Len(m.sent) < Len(m.sent) + 1
      BY <2>1
    <3>2. SubSeq(m.sent, Len(m.sent) + 1, Len(m.sent)) = <<>>
      BY <3>1, SubSeqEmpty
    <3>3. bulks = <<>>
      BY <1>3, <2>2, <3>2
    <3>4. m.sent \o <<>> = m.sent /\ <<>> \in Seq(Bulk)
      BY <1>1, ConcatEmptySeq
    <3> HIDE DEF m, bulks
    <3> QED  BY <2>2, <3>3, <3>4
  <2>3. ASSUME NEW b \in Bulk, r.sent = Append(m.sent, b)
        PROVE  bulks \in Seq(Bulk) /\ r.sent = m.sent \o bulks
    <3>1. /\ r.sent \in Seq(Bulk) /\ Len(r.sent) = Len(m.sent) + 1
          /\ r.sent[Len(m.sent) + 1] = b /\ r.sent = m.sent \o <<b>>
      <4> HIDE DEF m
      <4>1. m.sent \in Seq(Bulk) /\ b \in Bulk
        BY <1>1
      <4>2. /\ Append(m.sent, b) \in Seq(Bulk) /\ Len(Append(m.sent, b)) = Len(m.sent) + 1
            /\ Append(m.sent, b)[Len(m.sent) + 1] = b
        BY <4>1, AppendProperties
      <4>3. Append(m.sent, b) = m.sent \o <<b>>
        BY <4>1, AppendIsConcat
      <4> QED  BY <2>3, <4>2, <4>3
    <3>2. bulks = <<r.sent[Len(m.sent) + 1]>>
          \o SubSeq(r.sent, Len(m.sent) + 2, Len(m.sent) + 1)
      <4> DEFINE k == Len(m.sent) + 1
      <4>1. k \in 1 .. Len(r.sent) /\ k \in k .. Len(r.sent) /\ k + 1 = Len(m.sent) + 2
        BY <2>1, <3>1
      <4>2. SubSeq(r.sent, k, k) = <<r.sent[k]>> \o SubSeq(r.sent, k + 1, k)
        BY <3>1, <4>1, SubSeqRecursiveFirst
      <4> QED  BY <1>3, <3>1, <4>1, <4>2
    <3>3. SubSeq(r.sent, Len(m.sent) + 2, Len(m.sent) + 1) = <<>>
      BY <2>1, SubSeqEmpty
    <3>4. <<b>> \in Seq(Bulk)
      OBVIOUS
    <3>5. bulks = <<b>>
      BY <3>1, <3>2, <3>3, <3>4, ConcatEmptySeq
    <3> QED  BY <3>1, <3>4, <3>5
  <2> QED  BY <1>2, <2>2, <2>3
<1>5. coutq' = [coutq EXCEPT ![c] = @ \o bulks] /\ fileq' = [fileq EXCEPT ![c] = @ \o bulks]
  BY DEF Add
<1> HIDE DEF bulks
<1>6. coutq[c] \o bulks \in Seq(Bulk) /\ fileq[c] \o bulks \in Seq(Bulk)
  BY <1>1, <1>4, ConcatProperties
<1>7. mgr' \in [Contexts -> Managers]
  BY <1>2, <1>3 DEF Types
<1>8. coutq' \in [Contexts -> Seq(Bulk)] /\ fileq' \in [Contexts -> Seq(Bulk)]
  BY <1>5, <1>6 DEF Types
<1>9. coutq'[c] = coutq[c] \o bulks /\ fileq'[c] = fileq[c] \o bulks
  BY <1>5 DEF Types
<1>10. \A d \in Contexts \ {c} :
         mgr'[d] = mgr[d] /\ coutq'[d] = coutq[d] /\ fileq'[d] = fileq[d]
  BY <1>3, <1>5 DEF Types
<1>11. mgr'[c].sent = mgr[c].sent \o bulks
  BY <1>3, <1>4
<1> QED  BY <1>4, <1>7, <1>8, <1>9, <1>10, <1>11

LEMMA CommandsRead ==
  ASSUME Types, NEW c \in Contexts
  PROVE  FrontCommand(c) \in Commands /\ Terminator \in Commands /\ lines[c] + 1 \in Nat
<1> DEFINE text == LineText(Head(buffer[c]))
<1>1. lines[c] + 1 \in Nat
  <2>1. lines[c] \in Nat
    BY DEF Types
  <2> QED  BY <2>1
<1>2. /\ FrontCommand(c).type \in {"StartCustomBulk", "StopCustomBulk", "Base"}
      /\ FrontCommand(c) = [type |-> FrontCommand(c).type, data |-> lines[c] + 1]
  <2>1. FrontCommand(c) = [type |-> CommandType(text), data |-> lines[c] + 1]
    BY DEF FrontCommand, ToCommand
  <2> HIDE DEF text
  <2>2. CommandType(text) \in {"StartCustomBulk", "StopCustomBulk", "Base"}
    BY DEF CommandType
  <2> QED  BY <2>1, <2>2
<1>3. Terminator \in Commands
  BY DEF Terminator, Commands
<1>4. FrontCommand(c) \in Commands
  BY <1>1, <1>2 DEF Commands
<1> QED  BY <1>1, <1>3, <1>4

-----------------------------------------------------------------------------
\* Every step keeps the types.

LEMMA TypesInit == Init => Types
<1> SUFFICES ASSUME Init PROVE Types
  OBVIOUS
<1>1. NewManager \in Managers /\ <<>> \in Seq(Bulk)
  BY DEF NewManager, Managers, Bulk
<1>2. /\ mgr \in [Contexts -> Managers]
      /\ coutq \in [Contexts -> Seq(Bulk)] /\ fileq \in [Contexts -> Seq(Bulk)]
      /\ printed \in [Contexts -> Seq(Bulk)] /\ written \in [Contexts -> Seq(Bulk)]
  BY <1>1, Zenon DEF Init
<1>3. /\ bulkmgrs \subseteq used /\ used \subseteq Contexts
      /\ mtx \in [Contexts -> Threads \cup {None}] /\ lines \in [Contexts -> Nat]
  BY DEF Init
<1>4. /\ pc \in [Threads -> Using \cup Disconnecting \cup {"idle", "find to receive"}]
      /\ ctx \in [Threads -> used \cup {None}] /\ arg = [t \in Threads |-> arg[t]]
      /\ \A t \in Threads : pc[t] = "idle"
  BY DEF Init
<1> QED  BY <1>2, <1>3, <1>4 DEF Types

\* The steps that leave the output alone.
Quiet == UNCHANGED <<mgr, coutq, fileq, printed, written>>

LEMMA TypesOfQuietStep ==
  ASSUME Types, Quiet,
         /\ bulkmgrs' \subseteq used' /\ used' \subseteq Contexts
         /\ mtx' \in [Contexts -> Threads \cup {None}] /\ lines' \in [Contexts -> Nat]
         /\ pc' \in [Threads -> Using \cup Disconnecting \cup {"idle", "find to receive"}]
         /\ ctx' \in [Threads -> used' \cup {None}] /\ arg' = [t \in Threads |-> arg'[t]]
         /\ \A t \in Threads : /\ pc'[t] # "idle" => ctx'[t] \in used'
                               /\ pc'[t] = "add" => arg'[t] \in Commands
  PROVE  Types'
BY DEF Types, Quiet

LEMMA TypesKept == ASSUME Types, [Next]_vars PROVE Types'
<1> USE DEF Types
<1>1. ASSUME NEW t \in Threads, NEW c \in Contexts, Connect(t, c) PROVE Types'
  BY <1>1 DEF Connect, callVars
<1>2. ASSUME NEW t \in Threads, NEW c \in Contexts, NEW chunk \in Chunks,
             CallReceive(t, c, chunk)
      PROVE  Types'
  BY <1>2 DEF CallReceive, Goto, libVars
<1>3. ASSUME NEW t \in Threads, NEW c \in Contexts, CallDisconnect(t, c) PROVE Types'
  BY <1>3 DEF CallDisconnect, Goto, libVars, histVars, Disconnecting
<1>4. ASSUME NEW t \in Threads, Find(t) PROVE Types'
  BY <1>4 DEF Find, Goto, libVars, histVars, Using
<1>5. ASSUME NEW t \in Threads, pc[t] # "idle" PROVE ctx[t] \in used /\ ctx[t] \in Contexts
  BY <1>5
<1>6. ASSUME NEW t \in Threads, Push(t) PROVE Types'
  BY <1>5, <1>6 DEF Push, Goto, Using, Inside
<1>7. ASSUME NEW t \in Threads, ReadCmd(t) PROVE Types'
  <2>1. ctx[t] \in Contexts /\ pc[t] = "process"
    BY <1>5, <1>7 DEF ReadCmd
  <2>2. FrontCommand(ctx[t]) \in Commands /\ lines[ctx[t]] + 1 \in Nat
    BY <2>1, CommandsRead
  <2>3. lines' \in [Contexts -> Nat]
    BY <1>7, <2>1, <2>2, Zenon DEF ReadCmd
  <2>4. arg'[t] = FrontCommand(ctx[t]) /\ \A s \in Threads \ {t} : arg'[s] = arg[s]
    BY <1>7 DEF ReadCmd
  <2>5. /\ pc' = [pc EXCEPT ![t] = "add"] /\ arg' = [s \in Threads |-> arg'[s]]
        /\ UNCHANGED <<bulkmgrs, mtx, ctx, used>> /\ Quiet
    BY <1>7 DEF ReadCmd, Goto, Quiet
  <2>6. \A s \in Threads : /\ pc'[s] # "idle" => ctx'[s] \in used'
                           /\ pc'[s] = "add" => arg'[s] \in Commands
    BY <2>1, <2>2, <2>4, <2>5
  <2>7. pc' \in [Threads -> Using \cup Disconnecting \cup {"idle", "find to receive"}]
    BY <2>5 DEF Using, Inside
  <2> QED  BY <2>3, <2>5, <2>6, <2>7, TypesOfQuietStep
<1>8. ASSUME NEW t \in Threads, AddRead(t) PROVE Types'
  <2>1. ctx[t] \in Contexts /\ arg[t] \in Commands
    BY <1>5, <1>8 DEF AddRead
  <2>2. Add(ctx[t], arg[t])
    BY <1>8 DEF AddRead
  <2>3. /\ mgr' \in [Contexts -> Managers]
        /\ coutq' \in [Contexts -> Seq(Bulk)] /\ fileq' \in [Contexts -> Seq(Bulk)]
    BY <2>1, <2>2, AddSends
  <2> QED  BY <1>8, <2>1, <2>3 DEF AddRead, Goto, histVars, Using, Inside
<1>9. ASSUME NEW t \in Threads, EndReceive(t) PROVE Types'
  BY <1>5, <1>9 DEF EndReceive, Goto, histVars, Unlocked
<1>10. ASSUME NEW t \in Threads, Rest(t) PROVE Types'
  <2>1. ctx[t] \in Contexts
    BY <1>5, <1>10 DEF Rest
  <2>2. FrontCommand(ctx[t]) \in Commands /\ lines[ctx[t]] + 1 \in Nat
    BY <2>1, CommandsRead
  <2>3. /\ mgr' \in [Contexts -> Managers] /\ lines' \in [Contexts -> Nat]
        /\ coutq' \in [Contexts -> Seq(Bulk)] /\ fileq' \in [Contexts -> Seq(Bulk)]
    <3>1. CASE Add(ctx[t], FrontCommand(ctx[t])) /\ lines' = [lines EXCEPT ![ctx[t]] = @ + 1]
      <4>1. lines' \in [Contexts -> Nat]
        BY <2>1, <2>2, <3>1, Zenon
      <4> QED  BY <2>1, <2>2, <3>1, <4>1, AddSends
    <3>2. CASE UNCHANGED <<mgr, coutq, fileq, buffer, lines>>
      BY <3>2
    <3> QED  BY <1>10, <3>1, <3>2 DEF Rest
  <2> QED  BY <1>10, <2>1, <2>3 DEF Rest, Goto, Using, Inside
<1>11. ASSUME NEW t \in Threads, Terminate(t) PROVE Types'
  <2>1. ctx[t] \in Contexts /\ Terminator \in Commands
    BY <1>5, <1>11, CommandsRead DEF Terminate
  <2>2. Add(ctx[t], Terminator)
    BY <1>11 DEF Terminate
  <2>3. /\ mgr' \in [Contexts -> Managers]
        /\ coutq' \in [Contexts -> Seq(Bulk)] /\ fileq' \in [Contexts -> Seq(Bulk)]
    BY <2>1, <2>2, AddSends
  <2> QED  BY <1>11, <2>1, <2>3 DEF Terminate, Goto, histVars, Unlocked, Using
<1>12. ASSUME NEW t \in Threads, EraseLock(t) PROVE Types'
  BY <1>12 DEF EraseLock, Goto, histVars, Disconnecting
<1>13. ASSUME NEW t \in Threads, EraseEnd(t) PROVE Types'
  BY <1>13 DEF EraseEnd, Goto, histVars
<1>14. ASSUME NEW c \in Contexts, PrintBulk(c) PROVE Types'
  <2>1. /\ Append(printed[c], Head(coutq[c])) \in Seq(Bulk)
        /\ Tail(coutq[c]) \in Seq(Bulk)
    BY <1>14, MoveFirst DEF PrintBulk
  <2> QED  BY <1>14, <2>1 DEF PrintBulk, callVars
<1>15. ASSUME NEW c \in Contexts, NEW i \in 1 .. 2, WriteFile(c, i) PROVE Types'
  <2>1. i \in 1 .. Len(fileq[c])
    <3>1. i <= Len(fileq[c])
      BY <1>15 DEF WriteFile
    <3> HIDE DEF Types
    <3>2. Len(fileq[c]) \in Nat
      BY LenProperties DEF Types
    <3> QED  BY <3>1, <3>2
  <2>2. /\ Append(written[c], fileq[c][i]) \in Seq(Bulk)
        /\ RemoveAt(fileq[c], i) \in Seq(Bulk)
    BY <2>1, MoveElement
  <2> QED  BY <1>15, <2>2 DEF WriteFile, callVars
<1>16. CASE UNCHANGED vars
  BY <1>16 DEF vars, libVars, callVars, histVars
<1> QED
  BY <1>1, <1>2, <1>3, <1>4, <1>6, <1>7, <1>8, <1>9, <1>10, <1>11, <1>12, <1>13, <1>14,
     <1>15, <1>16 DEF Next, InCall, GoingOn, NewCall, Output

-----------------------------------------------------------------------------
\* Every step keeps the processors safe.

\* A step of one thread that is not the first of a disconnect.
LEMMA AloneKept ==
  ASSUME Types, Alone, UNCHANGED ctx,
         NEW t \in Threads, NEW to, pc' = [pc EXCEPT ![t] = to],
         to \in Disconnecting => pc[t] \in Disconnecting, to # "idle" => pc[t] # "idle"
  PROVE  Alone'
<1>1. /\ pc'[t] = to /\ pc = [s \in Threads |-> pc[s]]
      /\ \A s \in Threads \ {t} : pc'[s] = pc[s]
  BY DEF Types
<1>2. \A s \in Threads : /\ pc'[s] \in Disconnecting => pc[s] \in Disconnecting
                         /\ pc'[s] # "idle" => pc[s] # "idle"
  BY <1>1, Zenon
<1> QED  BY <1>2, Zenon DEF Alone

LEMMA SafeKept ==
  ASSUME Types, Alone, ProcessorIsSafe, [Next]_vars
  PROVE  Alone' /\ ProcessorIsSafe'
<1> DEFINE Safe == Alone /\ ProcessorIsSafe
<1>a. /\ pc = [t \in Threads |-> pc[t]] /\ ctx = [t \in Threads |-> ctx[t]]
      /\ mtx = [c \in Contexts |-> mtx[c]] /\ used \subseteq Contexts
      /\ None \notin Threads /\ bulkmgrs \subseteq used
      /\ \A t \in Threads : pc[t] # "idle" => ctx[t] \in used
  BY AsyncAssumption DEF Types
<1> USE DEF Alone, ProcessorIsSafe
<1>1. ASSUME NEW t \in Threads, NEW c \in Contexts, Connect(t, c) PROVE Safe'
  BY <1>1 DEF Connect, callVars
<1>2. ASSUME NEW t \in Threads, NEW c \in Contexts, NEW chunk \in Chunks,
             CallReceive(t, c, chunk)
      PROVE  Safe'
  <2>1. /\ pc' = [pc EXCEPT ![t] = "find to receive"] /\ ctx' = [ctx EXCEPT ![t] = c]
        /\ UNCHANGED <<mtx, bulkmgrs>>
        /\ \A s \in Threads : pc[s] # "idle" /\ ctx[s] = c => pc[s] \notin Disconnecting
    BY <1>2 DEF CallReceive, Goto, libVars, Callers
  <2>2. Alone'
    BY <2>1, <1>a DEF Disconnecting
  <2>3. ProcessorIsSafe'
    BY <2>1, <1>a DEF Using, Inside
  <2> QED  BY <2>2, <2>3
<1>3. ASSUME NEW t \in Threads, NEW c \in Contexts, CallDisconnect(t, c) PROVE Safe'
  <2>1. /\ pc' = [pc EXCEPT ![t] = "find to disconnect"] /\ ctx' = [ctx EXCEPT ![t] = c]
        /\ UNCHANGED <<mtx, bulkmgrs>>
        /\ \A s \in Threads : pc[s] # "idle" => ctx[s] # c
    BY <1>3 DEF CallDisconnect, Goto, libVars, Callers
  <2>2. Alone'
    BY <2>1, <1>a, ZenonT(30) DEF Disconnecting
  <2>3. ProcessorIsSafe'
    BY <2>1, <1>a DEF Using, Inside
  <2> QED  BY <2>2, <2>3
<1>4. ASSUME NEW t \in Threads, Find(t) PROVE Safe'
  <2>1. /\ UNCHANGED <<mtx, bulkmgrs, ctx>>
        /\ \/ pc' = [pc EXCEPT ![t] = "idle"]
           \/ pc' = [pc EXCEPT ![t] = "lock to receive"] /\ ctx[t] \in bulkmgrs
           \/ /\ pc' = [pc EXCEPT ![t] = "lock to disconnect"] /\ ctx[t] \in bulkmgrs
              /\ pc[t] = "find to disconnect"
        /\ pc[t] \in {"find to receive", "find to disconnect"}
    BY <1>4 DEF Find, Goto, libVars
  <2>2. Alone'
    BY <2>1, AloneKept, ZenonT(30) DEF Disconnecting
  <2>3. ProcessorIsSafe'
    BY <2>1, <1>a, ZenonT(30) DEF Using, Inside
  <2> QED  BY <2>2, <2>3
<1>5. ASSUME NEW t \in Threads, Push(t) PROVE Safe'
  <2>1. /\ pc' = [pc EXCEPT ![t] = "process"] /\ pc[t] = "lock to receive"
        /\ mtx[ctx[t]] = None /\ mtx' = [mtx EXCEPT ![ctx[t]] = t]
        /\ UNCHANGED <<ctx, bulkmgrs>>
    BY <1>5 DEF Push, Goto, CanLock
  <2>2. Alone'
    BY <2>1, AloneKept DEF Disconnecting
  <2>3. ProcessorIsSafe'
    BY <2>1, <1>a DEF Using, Inside
  <2> QED  BY <2>2, <2>3
<1>6. ASSUME NEW t \in Threads, ReadCmd(t) \/ AddRead(t) PROVE Safe'
  <2>1. /\ pc' = [pc EXCEPT ![t] = "process"] \/ pc' = [pc EXCEPT ![t] = "add"]
        /\ pc[t] \in {"process", "add"} /\ UNCHANGED <<ctx, bulkmgrs, mtx>>
    BY <1>6 DEF ReadCmd, AddRead, Goto
  <2>2. Alone'
    BY <2>1, AloneKept, ZenonT(30) DEF Disconnecting
  <2>3. ProcessorIsSafe'
    BY <2>1, <1>a DEF Using, Inside
  <2> QED  BY <2>2, <2>3
<1>7. ASSUME NEW t \in Threads, EndReceive(t) PROVE Safe'
  <2>1. /\ pc' = [pc EXCEPT ![t] = "idle"] /\ pc[t] = "process"
        /\ mtx' = [mtx EXCEPT ![ctx[t]] = None] /\ UNCHANGED <<ctx, bulkmgrs>>
    BY <1>7 DEF EndReceive, Goto, Unlocked
  <2>2. Alone'
    BY <2>1, AloneKept DEF Disconnecting
  <2>3. ProcessorIsSafe'
    BY <2>1, <1>a DEF Using, Inside
  <2> QED  BY <2>2, <2>3
<1>8. ASSUME NEW t \in Threads, Rest(t) PROVE Safe'
  <2>1. /\ pc' = [pc EXCEPT ![t] = "rest"] /\ pc[t] = "lock to disconnect"
        /\ mtx[ctx[t]] = None /\ mtx' = [mtx EXCEPT ![ctx[t]] = t]
        /\ UNCHANGED <<ctx, bulkmgrs>>
    BY <1>8 DEF Rest, Goto, CanLock
  <2>2. Alone'
    BY <2>1, AloneKept DEF Disconnecting
  <2>3. ProcessorIsSafe'
    BY <2>1, <1>a DEF Using, Inside
  <2> QED  BY <2>2, <2>3
<1>9. ASSUME NEW t \in Threads, Terminate(t) PROVE Safe'
  <2>1. /\ pc' = [pc EXCEPT ![t] = "erase"] /\ pc[t] = "rest"
        /\ mtx' = [mtx EXCEPT ![ctx[t]] = None] /\ UNCHANGED <<ctx, bulkmgrs>>
    BY <1>9 DEF Terminate, Goto, Unlocked
  <2>2. Alone'
    BY <2>1, AloneKept DEF Disconnecting
  <2>3. ProcessorIsSafe'
    BY <2>1, <1>a DEF Using, Inside
  <2> QED  BY <2>2, <2>3
<1>10. ASSUME NEW t \in Threads, EraseLock(t) PROVE Safe'
  <2>1. /\ pc' = [pc EXCEPT ![t] = "join"] /\ pc[t] = "erase"
        /\ bulkmgrs' = bulkmgrs \ {ctx[t]} /\ UNCHANGED <<ctx, mtx>>
    BY <1>10 DEF EraseLock, Goto
  <2>2. Alone'
    BY <2>1, AloneKept DEF Disconnecting
  <2>3. ProcessorIsSafe'
    BY <2>1, <1>a DEF Using, Inside, Disconnecting
  <2> QED  BY <2>2, <2>3
<1>11. ASSUME NEW t \in Threads, EraseEnd(t) PROVE Safe'
  <2>1. /\ pc' = [pc EXCEPT ![t] = "idle"] /\ UNCHANGED <<ctx, mtx, bulkmgrs>>
    BY <1>11 DEF EraseEnd, Goto
  <2>2. Alone'
    BY <2>1, AloneKept DEF Disconnecting
  <2>3. ProcessorIsSafe'
    BY <2>1, <1>a DEF Using, Inside
  <2> QED  BY <2>2, <2>3
<1>12. ASSUME NEW c \in Contexts, Output(c) PROVE Safe'
  <2>1. UNCHANGED <<pc, ctx, mtx, bulkmgrs>>
    BY <1>12 DEF Output, PrintBulk, WriteFile, callVars
  <2> QED  BY <2>1
<1>13. CASE UNCHANGED vars
  BY <1>13 DEF vars, libVars, callVars
<1> QED
  BY <1>1, <1>2, <1>3, <1>4, <1>5, <1>6, <1>7, <1>8, <1>9, <1>10, <1>11, <1>12, <1>13
  DEF Next, InCall, GoingOn, NewCall

-----------------------------------------------------------------------------
\* Every step keeps the account of the bulks.

\* The steps that send bulks, and the context they send for.
LEMMA Senders ==
  ASSUME Types, ProcessorIsSafe, NEW t \in Threads, AddRead(t) \/ Rest(t) \/ Terminate(t)
  PROVE  /\ ctx[t] \in bulkmgrs /\ ctx[t] \in Contexts
         /\ Quiet \/ \E cmd \in Commands : Add(ctx[t], cmd)
         /\ UNCHANGED <<printed, written, ctx, bulkmgrs, used>>
         /\ \A s \in Threads : pc[s] = "join" => pc'[s] = "join"
<1>1. pc[t] \in {"add", "lock to disconnect", "rest"}
  BY DEF AddRead, Rest, Terminate
<1>2. ctx[t] \in bulkmgrs /\ ctx[t] \in Contexts
  BY <1>1 DEF Types, ProcessorIsSafe, Using, Inside
<1>3. /\ UNCHANGED <<printed, written, ctx, bulkmgrs, used>>
      /\ \E to : pc' = [pc EXCEPT ![t] = to]
  BY DEF AddRead, Rest, Terminate, Goto, histVars
<1>4. \A s \in Threads : pc[s] = "join" => pc'[s] = "join"
  BY <1>1, <1>3 DEF Types
<1>5. FrontCommand(ctx[t]) \in Commands /\ Terminator \in Commands
  BY <1>2, CommandsRead
<1>6. ASSUME AddRead(t) PROVE \E cmd \in Commands : Add(ctx[t], cmd)
  <2>1. arg[t] \in Commands /\ Add(ctx[t], arg[t])
    BY <1>6 DEF AddRead, Types
  <2> QED  BY <2>1
<1>7. ASSUME Rest(t) PROVE Quiet \/ \E cmd \in Commands : Add(ctx[t], cmd)
  <2>1. Add(ctx[t], FrontCommand(ctx[t])) \/ UNCHANGED <<mgr, coutq, fileq>>
    BY <1>7 DEF Rest
  <2> QED  BY <1>3, <1>5, <2>1 DEF Quiet
<1>8. ASSUME Terminate(t) PROVE \E cmd \in Commands : Add(ctx[t], cmd)
  BY <1>5, <1>8 DEF Terminate
<1> QED  BY <1>2, <1>3, <1>4, <1>6, <1>7, <1>8

LEMMA OutputOfAdd ==
  ASSUME Types, OutputInv, NEW c \in Contexts, NEW cmd \in Commands, Add(c, cmd),
         UNCHANGED <<printed, written>>
  PROVE  OutputInv'
<1> SUFFICES ASSUME NEW d \in Contexts
             PROVE  /\ printed'[d] \o coutq'[d] = mgr'[d].sent
                    /\ Range(written'[d]) \cup Range(fileq'[d]) = Range(mgr'[d].sent)
                    /\ Len(written'[d]) + Len(fileq'[d]) = Len(mgr'[d].sent)
  BY DEF OutputInv
<1>1. /\ printed[d] \o coutq[d] = mgr[d].sent
      /\ Range(written[d]) \cup Range(fileq[d]) = Range(mgr[d].sent)
      /\ Len(written[d]) + Len(fileq[d]) = Len(mgr[d].sent)
      /\ printed'[d] = printed[d] /\ written'[d] = written[d]
  BY DEF OutputInv
<1>2. CASE d # c
  <2>1. mgr'[d] = mgr[d] /\ coutq'[d] = coutq[d] /\ fileq'[d] = fileq[d]
    BY <1>2, AddSends
  <2> QED  BY <1>1, <2>1
<1>3. CASE d = c
  <2>1. PICK bulks \in Seq(Bulk) : /\ mgr'[d].sent = mgr[d].sent \o bulks
                                   /\ coutq'[d] = coutq[d] \o bulks
                                   /\ fileq'[d] = fileq[d] \o bulks
    BY <1>3, AddSends
  <2>2. /\ printed[d] \in Seq(Bulk) /\ coutq[d] \in Seq(Bulk) /\ written[d] \in Seq(Bulk)
        /\ fileq[d] \in Seq(Bulk) /\ mgr[d].sent \in Seq(Bulk)
    BY DEF Types, Managers
  <2>3. (printed[d] \o coutq[d]) \o bulks = printed[d] \o (coutq[d] \o bulks)
    <3> DEFINE p == printed[d]
               q == coutq[d]
    <3>1. p \in Seq(Bulk) /\ q \in Seq(Bulk) /\ bulks \in Seq(Bulk)
      BY <2>2
    <3> HIDE DEF p, q
    <3>2. (p \o q) \o bulks = p \o (q \o bulks)
      BY <3>1, ConcatAssociative
    <3> QED  BY <3>2 DEF p, q
  <2>4. /\ Range(mgr[d].sent \o bulks) = Range(mgr[d].sent) \cup Range(bulks)
        /\ Range(fileq[d] \o bulks) = Range(fileq[d]) \cup Range(bulks)
    BY <2>2, RangeOfConcat
  <2>5. /\ Len(mgr[d].sent \o bulks) = Len(mgr[d].sent) + Len(bulks)
        /\ Len(fileq[d] \o bulks) = Len(fileq[d]) + Len(bulks)
    BY <2>2, ConcatProperties
  <2>6. Len(mgr[d].sent) \in Nat /\ Len(fileq[d]) \in Nat /\ Len(bulks) \in Nat /\ Len(written[d]) \in Nat
    BY <2>2, LenProperties
  <2>7. printed'[d] \o coutq'[d] = mgr'[d].sent
    BY <1>1, <2>1, <2>3
  <2>8. Range(written'[d]) \cup Range(fileq'[d]) = Range(mgr'[d].sent)
    BY <1>1, <2>1, <2>4
  <2>9. Len(written'[d]) + Len(fileq'[d]) = Len(mgr'[d].sent)
    <3>1. Len(written[d]) + (Len(fileq[d]) + Len(bulks)) = Len(mgr[d].sent) + Len(bulks)
      <4>1. Len(written[d]) + Len(fileq[d]) = Len(mgr[d].sent)
        BY <1>1
      <4> DEFINE w == Len(written[d])
                 f == Len(fileq[d])
                 n == Len(mgr[d].sent)
                 b == Len(bulks)
      <4>2. w \in Nat /\ f \in Nat /\ n \in Nat /\ b \in Nat /\ w + f = n
        BY <2>6, <4>1
      <4> HIDE DEF w, f, n, b
      <4>3. w + (f + b) = n + b
        BY <4>2
      <4> QED  BY <4>3 DEF w, f, n, b
    <3> QED  BY <1>1, <2>1, <2>5, <3>1, Zenon
  <2> QED  BY <2>7, <2>8, <2>9
<1> QED  BY <1>2, <1>3

LEMMA OutputOfWork ==
  ASSUME Types, OutputInv, NEW c \in Contexts, Output(c)
  PROVE  OutputInv'
<1>1. /\ printed[c] \in Seq(Bulk) /\ coutq[c] \in Seq(Bulk) /\ written[c] \in Seq(Bulk)
      /\ fileq[c] \in Seq(Bulk)
  BY DEF Types
<1>2. ASSUME PrintBulk(c) PROVE OutputInv'
  <2>1. Append(printed[c], Head(coutq[c])) \o Tail(coutq[c]) = printed[c] \o coutq[c]
    BY <1>1, <1>2, MoveFirst DEF PrintBulk
  <2>2. /\ printed' = [printed EXCEPT ![c] = Append(printed[c], Head(coutq[c]))]
        /\ coutq' = [coutq EXCEPT ![c] = Tail(coutq[c])]
        /\ UNCHANGED <<mgr, fileq, written>>
    BY <1>2 DEF PrintBulk
  <2>3. \A d \in Contexts : printed'[d] \o coutq'[d] = printed[d] \o coutq[d]
    BY <2>1, <2>2 DEF Types
  <2> QED  BY <2>2, <2>3 DEF OutputInv
<1>3. ASSUME NEW i \in 1 .. 2, WriteFile(c, i) PROVE OutputInv'
  <2>1. i <= Len(fileq[c]) /\ Len(fileq[c]) \in Nat
    BY <1>1, <1>3, LenProperties DEF WriteFile
  <2>2. i \in 1 .. Len(fileq[c])
    BY <2>1
  <2> DEFINE w == Append(written[c], fileq[c][i])
             f == RemoveAt(fileq[c], i)
  <2>3. /\ Len(w) + Len(f) = Len(written[c]) + Len(fileq[c])
        /\ Range(w) \cup Range(f) = Range(written[c]) \cup Range(fileq[c])
    <3> DEFINE s == written[c]
               u == fileq[c]
    <3>1. s \in Seq(Bulk) /\ u \in Seq(Bulk) /\ i \in 1 .. Len(u)
      BY <1>1, <2>2
    <3> HIDE DEF s, u
    <3>2. /\ Len(Append(s, u[i])) + Len(RemoveAt(u, i)) = Len(s) + Len(u)
          /\ Range(Append(s, u[i])) \cup Range(RemoveAt(u, i)) = Range(s) \cup Range(u)
      BY <3>1, MoveElement
    <3> QED  BY <3>2, Zenon DEF s, u
  <2>4. /\ written' = [written EXCEPT ![c] = w] /\ fileq' = [fileq EXCEPT ![c] = f]
        /\ UNCHANGED <<mgr, coutq, printed>>
    BY <1>3 DEF WriteFile
  <2> HIDE DEF w, f
  <2>5. \A d \in Contexts :
          /\ Len(written'[d]) + Len(fileq'[d]) = Len(written[d]) + Len(fileq[d])
          /\ Range(written'[d]) \cup Range(fileq'[d]) = Range(written[d]) \cup Range(fileq[d])
    <3>1. /\ written'[c] = w /\ fileq'[c] = f
          /\ \A d \in Contexts \ {c} : written'[d] = written[d] /\ fileq'[d] = fileq[d]
      BY <2>4 DEF Types
    <3> QED  BY <2>3, <3>1, Zenon
  <2>6. \A d \in Contexts : UNCHANGED <<printed[d], coutq[d], mgr[d]>>
    BY <2>4
  <2> QED  BY <2>5, <2>6, Zenon DEF OutputInv
<1> QED  BY <1>2, <1>3 DEF Output

LEMMA QuietSteps ==
  ASSUME NEW t \in Threads
  PROVE  /\ InCall(t) => Quiet \/ AddRead(t) \/ Rest(t) \/ Terminate(t)
         /\ \A c \in Contexts : NewCall(t, c) => Quiet
BY DEF InCall, GoingOn, NewCall, Quiet, Find, Push, ReadCmd, EndReceive, EraseLock, EraseEnd,
       Connect, CallReceive, CallDisconnect, libVars, histVars

LEMMA OutputKept ==
  ASSUME Types, ProcessorIsSafe, OutputInv, [Next]_vars
  PROVE  OutputInv'
<1>1. CASE Quiet
  BY <1>1 DEF Quiet, OutputInv
<1>2. ASSUME NEW t \in Threads, AddRead(t) \/ Rest(t) \/ Terminate(t) PROVE OutputInv'
  BY <1>1, <1>2, Senders, OutputOfAdd
<1>3. ASSUME NEW c \in Contexts, Output(c) PROVE OutputInv'
  BY <1>3, OutputOfWork
<1>4. UNCHANGED vars => Quiet
  BY DEF vars, libVars, histVars, Quiet
<1> QED  BY <1>1, <1>2, <1>3, <1>4, QuietSteps DEF Next

LEMMA DrainedKept ==
  ASSUME Types, ProcessorIsSafe, ErasedIsDrained, [Next]_vars
  PROVE  ErasedIsDrained'
<1> DEFINE Joined(c) == \E t \in Threads : pc[t] = "join" /\ ctx[t] = c
<1>1. ErasedIsDrained <=> \A c \in used \ bulkmgrs : Drained(c) \/ Joined(c)
  BY DEF ErasedIsDrained
<1>2. ASSUME NEW t \in Threads, NEW c \in Contexts, Connect(t, c) PROVE ErasedIsDrained'
  <2>1. used' \ bulkmgrs' \subseteq used \ bulkmgrs /\ UNCHANGED <<coutq, fileq, pc, ctx>>
    BY <1>2 DEF Connect, callVars
  <2> QED  BY <2>1 DEF ErasedIsDrained, Drained
<1>3. ASSUME NEW t \in Threads, NEW to, pc' = [pc EXCEPT ![t] = to], pc[t] # "join",
             ctx' = ctx \/ (pc[t] = "idle" /\ \E c : ctx' = [ctx EXCEPT ![t] = c]),
             UNCHANGED <<used, bulkmgrs, coutq, fileq>>
      PROVE  ErasedIsDrained'
  <2>1. \A s \in Threads : pc[s] = "join" => pc'[s] = "join" /\ ctx'[s] = ctx[s]
    BY <1>3 DEF Types
  <2> QED  BY <1>3, <2>1 DEF ErasedIsDrained, Drained
<1>4. ASSUME NEW t \in Threads, NEW c \in Contexts, NEW chunk \in Chunks,
             CallReceive(t, c, chunk)
      PROVE  ErasedIsDrained'
  <2>1. /\ \E to : pc' = [pc EXCEPT ![t] = to]
        /\ pc[t] = "idle" /\ ctx' = [ctx EXCEPT ![t] = c]
        /\ UNCHANGED <<used, bulkmgrs, coutq, fileq>>
    BY <1>4 DEF CallReceive, Goto, libVars
  <2> QED  BY <1>3, <2>1
<1>5. ASSUME NEW t \in Threads, NEW c \in Contexts, CallDisconnect(t, c)
      PROVE  ErasedIsDrained'
  <2>1. /\ \E to : pc' = [pc EXCEPT ![t] = to]
        /\ pc[t] = "idle" /\ ctx' = [ctx EXCEPT ![t] = c]
        /\ UNCHANGED <<used, bulkmgrs, coutq, fileq>>
    BY <1>5 DEF CallDisconnect, Goto, libVars, histVars
  <2> QED  BY <1>3, <2>1
<1>6. ASSUME NEW t \in Threads, Find(t) \/ Push(t) \/ ReadCmd(t) \/ EndReceive(t)
      PROVE  ErasedIsDrained'
  <2>1. /\ pc[t] # "join" /\ ctx' = ctx
        /\ UNCHANGED <<used, bulkmgrs, coutq, fileq>>
    BY <1>6 DEF Find, Push, ReadCmd, EndReceive, libVars, histVars
  <2>2. \E to : pc' = [pc EXCEPT ![t] = to]
    BY <1>6 DEF Find, Push, ReadCmd, EndReceive, Goto
  <2>3. PICK to : pc' = [pc EXCEPT ![t] = to]
    BY <2>2
  <2>4. \A s \in Threads : pc[s] = "join" => pc'[s] = "join"
    BY <2>1, <2>3 DEF Types
  <2> QED  BY <2>1, <2>4 DEF ErasedIsDrained, Drained
<1>7. ASSUME NEW t \in Threads, AddRead(t) \/ Rest(t) \/ Terminate(t) PROVE ErasedIsDrained'
  <2>1. /\ ctx[t] \in bulkmgrs /\ ctx[t] \in Contexts
        /\ Quiet \/ \E cmd \in Commands : Add(ctx[t], cmd)
        /\ UNCHANGED <<printed, written, ctx, bulkmgrs, used>>
        /\ \A s \in Threads : pc[s] = "join" => pc'[s] = "join"
    BY <1>7, Senders
  <2>2. \A c \in used \ bulkmgrs : coutq'[c] = coutq[c] /\ fileq'[c] = fileq[c]
    <3>1. ASSUME NEW cmd \in Commands, Add(ctx[t], cmd)
          PROVE  \A c \in Contexts \ {ctx[t]} : coutq'[c] = coutq[c] /\ fileq'[c] = fileq[c]
      BY <2>1, <3>1, AddSends
    <3>2. used \ bulkmgrs \subseteq Contexts \ {ctx[t]}
      BY <2>1 DEF Types
    <3> QED  BY <2>1, <3>1, <3>2 DEF Quiet
  <2> QED  BY <2>1, <2>2 DEF ErasedIsDrained, Drained
<1>8. ASSUME NEW t \in Threads, EraseLock(t) PROVE ErasedIsDrained'
  <2>1. /\ pc' = [pc EXCEPT ![t] = "join"] /\ bulkmgrs' = bulkmgrs \ {ctx[t]}
        /\ UNCHANGED <<coutq, fileq, ctx, used>>
    BY <1>8 DEF EraseLock, Goto, histVars
  <2>2. pc'[t] = "join" /\ \A s \in Threads : pc[s] = "join" => pc'[s] = "join"
    BY <2>1 DEF Types
  <2> QED  BY <2>1, <2>2 DEF ErasedIsDrained, Drained
<1>9. ASSUME NEW t \in Threads, EraseEnd(t) PROVE ErasedIsDrained'
  <2>1. /\ Drained(ctx[t]) /\ pc' = [pc EXCEPT ![t] = "idle"]
        /\ UNCHANGED <<coutq, fileq, ctx, used, bulkmgrs>>
    BY <1>9 DEF EraseEnd, Goto, histVars
  <2>2. \A s \in Threads \ {t} : pc'[s] = pc[s]
    BY <2>1 DEF Types
  <2>3. ASSUME NEW c \in used \ bulkmgrs, ~Drained(c)
        PROVE  \E s \in Threads : pc'[s] = "join" /\ ctx[s] = c
    <3>1. PICK s \in Threads : pc[s] = "join" /\ ctx[s] = c
      BY <2>3 DEF ErasedIsDrained
    <3>2. s # t
      BY <2>1, <2>3, <3>1
    <3> QED  BY <2>2, <3>1, <3>2
  <2> QED  BY <2>1, <2>3 DEF ErasedIsDrained, Drained
<1>10. ASSUME NEW c \in Contexts, Output(c) PROVE ErasedIsDrained'
  <2>1. UNCHANGED <<pc, ctx, used, bulkmgrs>>
    BY <1>10 DEF Output, PrintBulk, WriteFile, callVars
  <2>2. ~Drained(c)
    <3>1. ASSUME NEW i \in 1 .. 2, WriteFile(c, i) PROVE fileq[c] # <<>>
      <4>1. i <= Len(fileq[c])
        BY <3>1 DEF WriteFile
      <4>2. Len(<<>>) = 0
        OBVIOUS
      <4> QED  BY <4>1, <4>2
    <3>2. PrintBulk(c) => coutq[c] # <<>>
      BY DEF PrintBulk
    <3> QED  BY <1>10, <3>1, <3>2 DEF Output, Drained
  <2>3. \A d \in Contexts \ {c} : coutq'[d] = coutq[d] /\ fileq'[d] = fileq[d]
    <3>1. PrintBulk(c) => fileq' = fileq /\ coutq' = [coutq EXCEPT ![c] = Tail(coutq[c])]
      BY DEF PrintBulk
    <3>2. ASSUME NEW i \in 1 .. 2
          PROVE  WriteFile(c, i) =>
                   coutq' = coutq /\ fileq' = [fileq EXCEPT ![c] = RemoveAt(fileq[c], i)]
      BY DEF WriteFile
    <3> QED  BY <1>10, <3>1, <3>2 DEF Output, Types
  <2>4. c \in used \ bulkmgrs => Joined(c)
    BY <1>1, <2>2
  <2> QED  BY <2>1, <2>3, <2>4 DEF ErasedIsDrained, Drained, Types
<1>11. CASE UNCHANGED vars
  BY <1>11 DEF vars, libVars, callVars, histVars, ErasedIsDrained, Drained
<1> QED
  BY <1>2, <1>4, <1>5, <1>6, <1>7, <1>8, <1>9, <1>10, <1>11 DEF Next, InCall, GoingOn, NewCall

-----------------------------------------------------------------------------
\* The invariant.

LEMMA Initially == Init => IInv
<1> SUFFICES ASSUME Init PROVE IInv
  OBVIOUS
<1>1. Types
  BY TypesInit
<1>2. Alone /\ ProcessorIsSafe /\ ErasedIsDrained
  BY DEF Init, Alone, ProcessorIsSafe, ErasedIsDrained, Using, Inside, Disconnecting
<1>3. OutputInv
  <2>1. \A c \in Contexts : /\ printed[c] = <<>> /\ coutq[c] = <<>> /\ written[c] = <<>>
                            /\ fileq[c] = <<>> /\ mgr[c].sent = <<>>
    BY DEF Init, NewManager
  <2>2. <<>> \o <<>> = <<>>
    BY EmptySeq, ConcatEmptySeq
  <2>3. Len(<<>>) + Len(<<>>) = Len(<<>>)
    BY EmptySeq
  <2> QED  BY <2>1, <2>2, <2>3, Zenon DEF OutputInv
<1> QED  BY <1>1, <1>2, <1>3 DEF IInv

LEMMA Inductive == IInv /\ [Next]_vars => IInv'
BY TypesKept, SafeKept, DrainedKept, OutputKept DEF IInv

LEMMA Invariant == Spec => []IInv
<1> QED  BY Initially, Inductive, PTL DEF Spec

LEMMA OutputFollows == IInv => EveryBulkIsOutput
<1> SUFFICES ASSUME IInv, NEW c \in Contexts, c \in used \ bulkmgrs, Callers(c) = {}
             PROVE  Len(written[c]) = Len(mgr[c].sent) /\ coutq[c] = <<>>
  BY DEF IInv, OutputInv, EveryBulkIsOutput
<1>1. ~\E t \in Threads : pc[t] = "join" /\ ctx[t] = c
  BY DEF Callers
<1>2. Drained(c)
  BY <1>1 DEF IInv, ErasedIsDrained
<1>3. fileq[c] = <<>> /\ coutq[c] = <<>> /\ Len(fileq[c]) = 0
  BY <1>2 DEF Drained
<1>4. Len(written[c]) \in Nat /\ Len(written[c]) + Len(fileq[c]) = Len(mgr[c].sent)
  BY LenProperties DEF IInv, Types, OutputInv
<1> QED  BY <1>3, <1>4

\* Whatever the threads do with the contexts, as long as who disconnects is
\* alone: every bulk is printed once, in order, and written once, and has been
\* when disconnect returns.
THEOREM OutputIsComplete == Spec => []EveryBulkIsOutput
<1> QED  BY Invariant, OutputFollows, PTL

\* find gives receive and disconnect a reference into the map, and they lock and
\* use the processor after the map's lock is free again: it is not destroyed
\* under them, and never two of them are inside.
THEOREM ProcessorsAreSafe == Spec => []ProcessorIsSafe
<1>1. IInv => ProcessorIsSafe
  BY DEF IInv
<1> QED  BY Invariant, <1>1, PTL

-----------------------------------------------------------------------------
\* Pieces: where a text is cut.

Texts == Seq(STRING)

Ends(s) == {i \in 1 .. Len(s) : s[i] = "\n" \/ i = Len(s)}

IsCuts(q, s) == q \in Seq(Nat) /\ Increasing(q) /\ Range(q) = Ends(s)

\* The set of the ends up to k has its numbers in order: it is finite.
LEMMA CutsExist ==
  ASSUME NEW s \in Texts
  PROVE  \E q : IsCuts(q, s)
<1> DEFINE n == Len(s)
           Good(q, k) == q \in Seq(Nat) /\ Increasing(q) /\ Range(q) = {i \in Ends(s) : i <= k}
           D == {k \in 0 .. n : \E q : Good(q, k)}
<1>1. n \in Nat
  BY LenProperties DEF Texts
<1>2. 0 \in D
  <2>1. {i \in Ends(s) : i <= 0} = {}
    BY <1>1 DEF Ends
  <2>2. Good(<<>>, 0)
    BY <2>1, EmptyBulk
  <2>3. \E q : Good(q, 0)
    BY <2>2, Zenon
  <2> QED
    BY <1>1, <2>3
<1>3. ASSUME NEW k \in Nat, k < n, k \in D
      PROVE  k + 1 \in D
  <2>1. PICK q : Good(q, k)
    BY <1>3
  <2>2. CASE k + 1 \in Ends(s)
    <3>1. {i \in Ends(s) : i <= k + 1} = {i \in Ends(s) : i <= k} \cup {k + 1}
      BY <1>1, <2>2 DEF Ends
    <3>2. \A e \in Range(q) : e < k + 1
      BY <1>1, <2>1 DEF Ends
    <3>3. Good(Append(q, k + 1), k + 1)
      BY <2>1, <3>1, <3>2, OneMoreNumber
    <3>4. \E h : Good(h, k + 1)
      BY <3>3, Zenon
    <3> HIDE DEF Good
    <3> QED
      BY <1>1, <1>3, <3>4
  <2>3. CASE k + 1 \notin Ends(s)
    <3>1. {i \in Ends(s) : i <= k + 1} = {i \in Ends(s) : i <= k}
      BY <1>1, <2>3 DEF Ends
    <3>2. Good(q, k + 1)
      BY <2>1, <3>1
    <3>3. \E h : Good(h, k + 1)
      BY <3>2, Zenon
    <3> HIDE DEF Good
    <3> QED
      BY <1>1, <1>3, <3>3
  <2> QED
    BY <2>2, <2>3
<1> HIDE DEF D
<1>4. n \in D
  <2>1. \A k \in 0 .. n : k \in D
    BY <1>1, <1>2, <1>3, Upwards
  <2> QED
    BY <1>1, <2>1
<1>5. PICK q : Good(q, n)
  BY <1>4 DEF D
<1>6. {i \in Ends(s) : i <= n} = Ends(s)
  BY <1>1 DEF Ends
<1>7. IsCuts(q, s)
  BY <1>5, <1>6 DEF IsCuts
<1> QED
  BY <1>7, Zenon

\* Where the k-th piece begins, less one.
Prev(q, k) == IF k = 1 THEN 0 ELSE q[k - 1]

LEMMA CutsParts ==
  ASSUME NEW s \in Texts, NEW q, IsCuts(q, s)
  PROVE  /\ Len(s) \in Nat /\ Len(q) \in Nat /\ DOMAIN q = 1 .. Len(q)
         /\ \A k \in 1 .. Len(q) : /\ q[k] \in 1 .. Len(s) /\ q[k] \in Ends(s)
                                   /\ Prev(q, k) \in 0 .. Len(s) /\ Prev(q, k) < q[k]
         /\ \A k, l \in 1 .. Len(q) : k < l => q[k] < q[l]
         /\ s # <<>> => /\ Len(s) > 0 /\ Len(q) > 0 /\ q[Len(q)] = Len(s)
                        /\ \A k \in 1 .. Len(q) : k # Len(q) => s[q[k]] = "\n"
         /\ s = <<>> => q = <<>>
<1> DEFINE n == Len(s)
           m == Len(q)
<1>1. n \in Nat /\ (s = <<>> <=> n = 0)
  BY LenProperties, EmptySeq DEF Texts
<1>2. m \in Nat /\ DOMAIN q = 1 .. m /\ Range(q) = {q[i] : i \in 1 .. m} /\ (q = <<>> <=> Range(q) = {})
  BY BulkElements DEF IsCuts
<1>3. \A k \in 1 .. m : q[k] \in 1 .. n /\ q[k] \in Ends(s) /\ q[k] \in Nat
  BY <1>2 DEF IsCuts, Ends
<1>4. \A k, l \in 1 .. m : k < l => q[k] < q[l]
  BY <1>2 DEF IsCuts, Increasing
<1>5. ASSUME NEW k \in 1 .. m
      PROVE  Prev(q, k) \in 0 .. n /\ Prev(q, k) < q[k]
  <2>1. CASE k = 1
    BY <1>1, <1>3, <2>1 DEF Prev
  <2>2. CASE k # 1
    <3>1. k - 1 \in 1 .. m /\ k - 1 < k
      BY <1>2, <2>2
    <3> QED
      BY <1>1, <1>3, <1>4, <2>2, <3>1 DEF Prev
  <2> QED
    BY <2>1, <2>2
<1>6. ASSUME s # <<>>
      PROVE  /\ n > 0 /\ m > 0 /\ q[m] = n
             /\ \A k \in 1 .. m : k # m => s[q[k]] = "\n"
  <2> HIDE DEF n, m
  <2>1. n > 0 /\ n \in Ends(s)
    BY <1>1, <1>6 DEF Ends, n
  <2>2. n \in {q[i] : i \in 1 .. m}
    BY <1>2, <2>1, Zenon DEF IsCuts
  <2>3. PICK k \in 1 .. m : q[k] = n
    BY <2>2
  <2>4. k = m
    <3>1. k # m => k < m /\ m \in 1 .. m
      BY <1>2
    <3>2. k # m => q[k] < q[m] /\ q[m] \in 1 .. n
      BY <1>3, <1>4, <3>1
    <3> QED
      BY <1>1, <2>3, <3>2
  <2>5. \A i \in Ends(s) : i # n => s[i] = "\n"
    BY Zenon DEF Ends, n
  <2>6. ASSUME NEW l \in 1 .. m, l # m PROVE s[q[l]] = "\n"
    <3>1. l < m /\ m \in 1 .. m
      BY <1>2, <2>6
    <3>2. q[l] < q[m] /\ q[l] \in 1 .. n
      BY <1>3, <1>4, <3>1
    <3>3. q[l] # n
      BY <1>1, <2>3, <2>4, <3>2
    <3> QED
      BY <1>3, <2>5, <3>3, Zenon
  <2> QED
    BY <1>2, <2>1, <2>3, <2>4, <2>6
<1>7. s = <<>> => q = <<>>
  <2>1. n = 0 => Ends(s) = {}
    BY DEF Ends
  <2> QED
    BY <1>1, <1>2, <2>1 DEF IsCuts
<1> QED
  BY <1>1, <1>2, <1>3, <1>4, <1>5, <1>6, <1>7

LEMMA PiecesAre ==
  ASSUME NEW s \in Texts, NEW q, IsCuts(q, s)
  PROVE  Pieces(s) = [k \in 1 .. Len(q) |-> SubSeq(s, Prev(q, k) + 1, q[k])]
<1> DEFINE E == {i \in DOMAIN s : s[i] = "\n" \/ i = Len(s)}
           before(e) == {0} \cup {i \in E : i < e}
           m == Len(q)
<1>1. E = Ends(s)
  BY LenProperties DEF Ends, Texts
<1>2. InOrder(E, <) = q
  BY <1>1, InOrderOfNumbers DEF IsCuts
<1>3. /\ m \in Nat /\ DOMAIN q = 1 .. m
      /\ \A k \in 1 .. m : q[k] \in 1 .. Len(s) /\ Prev(q, k) \in Nat /\ Prev(q, k) < q[k]
      /\ \A k, l \in 1 .. m : k < l => q[k] < q[l]
      /\ Len(s) \in Nat
  BY CutsParts
<1>4. E = {q[i] : i \in 1 .. m}
  BY <1>1, BulkElements DEF IsCuts
<1> HIDE DEF E
<1>5. ASSUME NEW k \in 1 .. m
      PROVE  Max(before(q[k])) = Prev(q, k)
  <2>1. Prev(q, k) \in before(q[k])
    <3>1. CASE k = 1
      BY <3>1 DEF Prev
    <3>2. CASE k # 1
      <4>1. k - 1 \in 1 .. m /\ k - 1 < k
        BY <1>3, <3>2
      <4> QED
        BY <1>3, <1>4, <3>2, <4>1 DEF Prev
    <3> QED
      BY <3>1, <3>2
  <2>2. ASSUME NEW y \in before(q[k])
        PROVE  y \in Nat /\ Prev(q, k) >= y
    <3>1. CASE y = 0
      BY <1>3, <3>1
    <3>2. CASE y # 0
      <4>1. PICK i \in 1 .. m : y = q[i] /\ q[i] < q[k]
        BY <1>4, <3>2
      <4>2. q[i] \in Nat /\ q[k] \in Nat
        BY <1>3
      <4>3. i < k
        <5>1. i = k \/ k < i \/ i < k
          BY <1>3
        <5>2. k < i => q[k] < q[i]
          BY <1>3
        <5> QED
          BY <4>1, <4>2, <5>1, <5>2
      <4>4. k # 1 /\ k - 1 \in 1 .. m /\ (i = k - 1 \/ i < k - 1)
        BY <1>3, <4>3
      <4>5. q[i] = q[k - 1] \/ q[i] < q[k - 1]
        BY <1>3, <4>4
      <4>6. q[k - 1] \in Nat
        BY <1>3, <4>4
      <4> QED
        BY <4>1, <4>2, <4>4, <4>5, <4>6 DEF Prev
    <3> QED
      BY <3>1, <3>2
  <2> DEFINE B == before(q[k])
             P(x) == x \in B /\ \A y \in B : x >= y
  <2>3. P(Prev(q, k))
    BY <2>1, <2>2
  <2>4. P(CHOOSE x : P(x))
    BY <2>3, Zenon
  <2>5. Max(B) = CHOOSE x : P(x)
    BY DEF Max
  <2> QED
    <3>1. Max(B) \in B /\ Max(B) >= Prev(q, k) /\ Prev(q, k) >= Max(B)
      BY <2>1, <2>2, <2>4, <2>5
    <3>2. Max(B) \in Nat
      BY <2>2, <3>1
    <3> QED
      BY <1>3, <3>1, <3>2
<1>6. Pieces(s) = [k \in DOMAIN q |-> SubSeq(s, Max(before(q[k])) + 1, q[k])]
  BY <1>2, Zenon DEF Pieces, E
<1> HIDE DEF before
<1>7. Pieces(s) = [k \in 1 .. m |-> SubSeq(s, Prev(q, k) + 1, q[k])]
  BY <1>3, <1>5, <1>6
<1> QED
  BY <1>7

\* What ends a line in s, and whether everything in s does.
Broken(s) == {i \in 1 .. Len(s) : s[i] = "\n"}

Whole(s) == s = <<>> \/ s[Len(s)] = "\n"

LEMMA EndsOfConcat ==
  ASSUME NEW s \in Texts, NEW u \in Texts, u # <<>>
  PROVE  Ends(s \o u) = Broken(s) \cup {Len(s) + j : j \in Ends(u)}
<1> DEFINE n == Len(s)
           l == Len(u)
           su == s \o u
           nl == "\n"
<1>1. n \in Nat /\ l \in Nat /\ l > 0
  BY LenProperties, EmptySeq DEF Texts
<1>2. /\ Len(su) = n + l
      /\ \A i \in 1 .. n + l : su[i] = IF i <= n THEN s[i] ELSE u[i - n]
  BY ConcatProperties DEF Texts
<1>3. \A i : i \in Ends(su) <=> i \in 1 .. n + l /\ (su[i] = nl \/ i = n + l)
  BY <1>2 DEF Ends
<1>4. \A i : i \in Ends(u) <=> i \in 1 .. l /\ (u[i] = nl \/ i = l)
  BY DEF Ends
<1>5. \A i : i \in Broken(s) <=> i \in 1 .. n /\ s[i] = nl
  BY DEF Broken
<1> HIDE DEF n, l, su, nl
<1>6. ASSUME NEW i \in Ends(su) PROVE i \in Broken(s) \/ \E j \in Ends(u) : i = n + j
  <2>1. i \in 1 .. n + l /\ (su[i] = nl \/ i = n + l)
    BY <1>3
  <2>2. CASE i <= n
    BY <1>1, <1>2, <1>5, <2>1, <2>2
  <2>3. CASE ~ (i <= n)
    <3>1. i - n \in 1 .. l /\ su[i] = u[i - n] /\ (i = n + l => i - n = l) /\ i = n + (i - n)
      BY <1>1, <1>2, <2>1, <2>3
    <3>2. i - n \in Ends(u)
      BY <1>4, <2>1, <3>1
    <3> QED
      BY <3>1, <3>2
  <2> QED
    BY <2>2, <2>3
<1>7. ASSUME NEW i \in Broken(s) PROVE i \in Ends(su)
  <2>1. i \in 1 .. n /\ s[i] = nl
    BY <1>5
  <2>2. i \in 1 .. n + l /\ su[i] = s[i]
    BY <1>1, <1>2, <2>1
  <2> QED
    BY <1>3, <2>1, <2>2
<1>8. ASSUME NEW j \in Ends(u) PROVE n + j \in Ends(su)
  <2>1. j \in 1 .. l /\ (u[j] = nl \/ j = l)
    BY <1>4
  <2>2. n + j \in 1 .. n + l /\ ~ (n + j <= n) /\ (n + j) - n = j
    BY <1>1, <2>1
  <2>3. su[n + j] = u[j]
    BY <1>2, <2>2
  <2> QED
    BY <1>3, <2>1, <2>2, <2>3
<1> QED
  BY <1>6, <1>7, <1>8 DEF n, su

\* The pieces that end a line: all, or all but the last.
LEMMA Kept ==
  ASSUME NEW s \in Texts, NEW q, IsCuts(q, s),
         NEW h, h = IF Whole(s) THEN Len(q) ELSE Len(q) - 1
  PROVE  h \in 0 .. Len(q) /\ Broken(s) = {q[k] : k \in 1 .. h}
<1> DEFINE n == Len(s)
           m == Len(q)
           nl == "\n"
<1>1. /\ n \in Nat /\ m \in Nat
      /\ \A k \in 1 .. m : q[k] \in 1 .. n
      /\ \A k, l \in 1 .. m : k < l => q[k] < q[l]
      /\ s # <<>> => /\ n > 0 /\ m > 0 /\ q[m] = n
                     /\ \A k \in 1 .. m : k # m => s[q[k]] = nl
      /\ s = <<>> => q = <<>>
  BY CutsParts
<1>2. Ends(s) = {q[k] : k \in 1 .. m}
  BY BulkElements DEF IsCuts
<1>3. \A i : i \in Broken(s) <=> i \in Ends(s) /\ s[i] = nl
  BY DEF Broken, Ends
<1>4. Whole(s) <=> s = <<>> \/ s[n] = nl
  BY DEF Whole
<1>5. s = <<>> => m = 0
  BY <1>1, EmptySeq
<1> HIDE DEF n, m, nl
<1>6. h \in 0 .. m
  BY <1>1, <1>4, <1>5 DEF m
<1>7. ASSUME NEW k \in 1 .. h PROVE q[k] \in Broken(s)
  <2>1. k \in 1 .. m
    BY <1>1, <1>6
  <2>2. s # <<>>
    BY <1>5, <2>1
  <2>3. s[q[k]] = nl
    BY <1>1, <1>4, <1>6, <2>1, <2>2 DEF m
  <2> QED
    BY <1>2, <1>3, <2>1, <2>3
<1>8. ASSUME NEW i \in Broken(s) PROVE \E k \in 1 .. h : i = q[k]
  <2>1. PICK k \in 1 .. m : i = q[k]
    BY <1>2, <1>3
  <2>2. s[i] = nl /\ s # <<>>
    BY <1>3, <1>5, <2>1
  <2>3. k = m => Whole(s)
    BY <1>1, <1>4, <2>1, <2>2
  <2>4. k \in 1 .. h
    BY <1>1, <2>1, <2>3 DEF m
  <2> QED
    BY <2>1, <2>4
<1> QED
  BY <1>6, <1>7, <1>8 DEF m

\* The cuts of a text that grows.
LEMMA CutsOfConcat ==
  ASSUME NEW s \in Texts, NEW u \in Texts, u # <<>>,
         NEW q, IsCuts(q, s), NEW r, IsCuts(r, u),
         NEW h \in 0 .. Len(q), Broken(s) = {q[k] : k \in 1 .. h},
         NEW w, w = [k \in 1 .. h + Len(r) |-> IF k <= h THEN q[k] ELSE Len(s) + r[k - h]]
  PROVE  IsCuts(w, s \o u) /\ Len(w) = h + Len(r)
<1> DEFINE n == Len(s)
           m == Len(q)
           l == Len(r)
<1>1. /\ n \in Nat /\ m \in Nat
      /\ \A k \in 1 .. m : q[k] \in 1 .. n
      /\ \A k, j \in 1 .. m : k < j => q[k] < q[j]
  BY CutsParts
<1>2. /\ l \in Nat /\ Len(u) \in Nat
      /\ \A k \in 1 .. l : r[k] \in 1 .. Len(u)
      /\ \A k, j \in 1 .. l : k < j => r[k] < r[j]
  BY CutsParts
<1>3. Ends(u) = {r[k] : k \in 1 .. l}
  BY BulkElements DEF IsCuts
<1>4. Ends(s \o u) = {q[k] : k \in 1 .. h} \cup {n + j : j \in Ends(u)}
  BY EndsOfConcat
<1>5. w = [k \in 1 .. h + l |-> IF k <= h THEN q[k] ELSE n + r[k - h]]
  OBVIOUS
<1> HIDE DEF n, m, l
<1>6. h \in Nat /\ h <= m
  BY <1>1 DEF m
<1>7. \A k \in 1 .. h : w[k] = q[k] /\ w[k] \in 1 .. n /\ k \in 1 .. m
  BY <1>1, <1>2, <1>5, <1>6
<1>8. \A k \in 1 .. l : h + k \in 1 .. h + l /\ w[h + k] = n + r[k] /\ w[h + k] \in Nat /\ w[h + k] > n
  <2> TAKE k \in 1 .. l
  <2>1. h + k \in 1 .. h + l /\ ~ (h + k <= h) /\ (h + k) - h = k
    BY <1>2, <1>6
  <2>2. w[h + k] = n + r[k]
    BY <1>5, <2>1
  <2> QED
    BY <1>1, <1>2, <2>1, <2>2
<1>9. \A k \in 1 .. h + l : k \in 1 .. h \/ (k - h \in 1 .. l /\ h + (k - h) = k)
  BY <1>2, <1>6
<1>10. ASSUME NEW k \in 1 .. h + l PROVE w[k] \in Nat
  <2>1. CASE k \in 1 .. h
    <3>1. w[k] \in 1 .. n
      BY <1>7, <2>1
    <3> QED
      BY <3>1
  <2>2. CASE k - h \in 1 .. l /\ h + (k - h) = k
    <3>1. w[h + (k - h)] \in Nat
      BY <1>8, <2>2
    <3> QED
      BY <2>2, <3>1
  <2> QED
    BY <1>9, <2>1, <2>2
<1>11. w \in Seq(Nat) /\ Len(w) = h + l /\ DOMAIN w = 1 .. h + l
  <2> DEFINE v(k) == IF k <= h THEN q[k] ELSE n + r[k - h]
             hl == h + l
  <2>1. hl \in Nat
    BY <1>2, <1>6
  <2>2. w = [k \in 1 .. hl |-> v(k)] /\ \A k \in 1 .. hl : v(k) \in Nat
    BY <1>5, <1>10
  <2> HIDE DEF v, hl
  <2>3. w \in [1 .. hl -> Nat]
    BY <2>2
  <2>4. w \in Seq(Nat) /\ Len(w) = hl /\ DOMAIN w = 1 .. hl
    BY <2>1, <2>3
  <2> QED
    BY <2>4 DEF hl
<1>12. ASSUME NEW i \in 1 .. h + l, NEW j \in 1 .. h + l, i < j
       PROVE  w[i] < w[j]
  <2>1. CASE j \in 1 .. h
    <3>1. i \in 1 .. h
      BY <1>6, <1>12, <2>1
    <3> QED
      BY <1>1, <1>7, <1>12, <2>1, <3>1
  <2>2. CASE i \in 1 .. h /\ j - h \in 1 .. l /\ h + (j - h) = j
    <3>1. w[i] \in 1 .. n
      BY <1>7, <2>2
    <3>2. w[j] \in Nat /\ w[j] > n
      BY <1>8, <2>2
    <3> QED
      BY <1>1, <3>1, <3>2
  <2>3. CASE i - h \in 1 .. l /\ j - h \in 1 .. l /\ h + (j - h) = j /\ h + (i - h) = i
    <3>1. w[i] = n + r[i - h] /\ w[j] = n + r[j - h]
      BY <1>8, <2>3
    <3>2. i - h < j - h
      BY <1>6, <1>12, <1>2
    <3>3. r[i - h] < r[j - h] /\ r[i - h] \in 1 .. Len(u) /\ r[j - h] \in 1 .. Len(u)
      BY <1>2, <2>3, <3>2
    <3> QED
      BY <1>1, <1>2, <3>1, <3>3
  <2> QED
    BY <1>2, <1>6, <1>9, <1>12, <2>1, <2>2, <2>3
<1>13. Range(w) = {q[k] : k \in 1 .. h} \cup {n + j : j \in Ends(u)}
  <2>1. Range(w) = {w[k] : k \in 1 .. h + l}
    BY <1>11 DEF Range
  <2>2. ASSUME NEW k \in 1 .. h + l
        PROVE  w[k] \in {q[i] : i \in 1 .. h} \cup {n + j : j \in Ends(u)}
    <3>1. CASE k \in 1 .. h
      BY <1>7, <3>1
    <3>2. CASE k - h \in 1 .. l /\ h + (k - h) = k
      <4>1. w[h + (k - h)] = n + r[k - h] /\ r[k - h] \in Ends(u)
        BY <1>3, <1>8, <3>2
      <4> QED
        BY <3>2, <4>1
    <3> QED
      BY <1>9, <3>1, <3>2
  <2>3. ASSUME NEW k \in 1 .. h PROVE q[k] \in Range(w)
    <3>1. k \in 1 .. h + l
      BY <1>2, <1>6
    <3> QED
      BY <1>7, <2>1, <3>1
  <2>4. ASSUME NEW j \in Ends(u) PROVE n + j \in Range(w)
    <3>1. PICK k \in 1 .. l : j = r[k]
      BY <1>3
    <3> QED
      BY <1>8, <2>1, <3>1
  <2> QED
    BY <2>1, <2>2, <2>3, <2>4, SMTT(30)
<1>14. Increasing(w)
  BY <1>11, <1>12 DEF Increasing
<1> QED
  BY <1>4, <1>11, <1>13, <1>14 DEF IsCuts, l

LEMMA PieceParts ==
  ASSUME NEW s \in Texts, NEW q, IsCuts(q, s)
  PROVE  /\ Pieces(s) \in Seq(Texts \ {<<>>}) /\ Len(Pieces(s)) = Len(q)
         /\ \A k \in 1 .. Len(q) : /\ Pieces(s)[k] = SubSeq(s, Prev(q, k) + 1, q[k])
                                   /\ EndsLine(Pieces(s)[k]) <=> s[q[k]] = "\n"
         /\ \A k \in 1 .. Len(q) : k # Len(q) => EndsLine(Pieces(s)[k])
         /\ IsCmdComplete(Pieces(s)) <=> Whole(s)
<1> DEFINE n == Len(s)
           m == Len(q)
           nl == "\n"
           P == Pieces(s)
           T == Texts \ {<<>>}
           p(k) == SubSeq(s, Prev(q, k) + 1, q[k])
<1>1. /\ n \in Nat /\ m \in Nat
      /\ \A k \in 1 .. m : q[k] \in 1 .. n /\ Prev(q, k) \in 0 .. n /\ Prev(q, k) < q[k]
      /\ s # <<>> => /\ m > 0 /\ q[m] = n /\ n > 0
                     /\ \A k \in 1 .. m : k # m => s[q[k]] = nl
      /\ s = <<>> => q = <<>>
  BY CutsParts
<1>2. P = [k \in 1 .. m |-> p(k)]
  BY PiecesAre
<1>3. ASSUME NEW k \in 1 .. m
      PROVE  p(k) \in T /\ (EndsLine(p(k)) <=> s[q[k]] = nl)
  <2> DEFINE a == Prev(q, k) + 1
             b == q[k]
  <2>1. a \in 1 .. n /\ b \in 1 .. n /\ a <= b
    <3> HIDE DEF n, m
    <3> QED
      BY <1>1
  <2>2. \A i \in a .. b : s[i] \in STRING
    <3>1. \A i \in 1 .. n : s[i] \in STRING
      BY ElementOfSeq DEF Texts
    <3>2. \A i \in a .. b : i \in 1 .. n
      BY <1>1, <2>1
    <3> QED
      BY <3>1, <3>2
  <2>3. a \in Int /\ b \in Int
    BY <2>1
  <2> HIDE DEF a, b, n
  <2>4. /\ SubSeq(s, a, b) \in Texts /\ Len(SubSeq(s, a, b)) = b - a + 1
        /\ \A i \in 1 .. b - a + 1 : SubSeq(s, a, b)[i] = s[a + i - 1]
    BY <2>1, <2>2, <2>3, SubSeqProperties DEF Texts
  <2>5. b - a + 1 \in 1 .. b - a + 1 /\ a + (b - a + 1) - 1 = b /\ b - a + 1 > 0
    BY <2>1, <2>3, <1>1
  <2>6. SubSeq(s, a, b)[Len(SubSeq(s, a, b))] = s[b]
    BY <2>4, <2>5
  <2>7. SubSeq(s, a, b) # <<>>
    <3>1. Len(SubSeq(s, a, b)) # 0
      BY <2>4, <2>5
    <3>2. Len(<<>>) = 0
      OBVIOUS
    <3> QED
      BY <3>1, <3>2, Zenon
  <2>8. p(k) = SubSeq(s, a, b) /\ q[k] = b
    BY DEF a, b
  <2> HIDE DEF p
  <2> QED
    BY <2>4, <2>6, <2>7, <2>8, Zenon DEF EndsLine, Last
<1> HIDE DEF p, P, T
<1>4. P \in Seq(T) /\ Len(P) = m /\ \A k \in 1 .. m : P[k] = p(k)
  <2> HIDE DEF m
  <2>1. P \in [1 .. m -> T] /\ m \in Nat
    BY <1>1, <1>2, <1>3
  <2> QED
    BY <1>2, <2>1
<1>5. \A k \in 1 .. m : EndsLine(P[k]) <=> s[q[k]] = nl
  BY <1>3, <1>4, Zenon
<1>6. \A k \in 1 .. m : s # <<>> /\ k # m => EndsLine(P[k])
  BY <1>1, <1>5, Zenon
<1>7. IsCmdComplete(P) <=> Whole(s)
  <2>1. CASE s = <<>>
    <3>1. P = <<>>
      BY <1>1, <1>2, <2>1
    <3> QED
      BY <2>1, <3>1 DEF IsCmdComplete, Whole
  <2>2. CASE s # <<>>
    <3>1. m \in 1 .. m /\ q[m] = n
      BY <1>1, <2>2
    <3>2. EndsLine(P[m]) <=> s[n] = nl
      BY <1>5, <3>1, Zenon
    <3>3. P # <<>>
      BY <1>4, <3>1
    <3>4. Last(P) = P[m]
      BY <1>4, Zenon DEF Last
    <3> QED
      BY <2>2, <3>2, <3>3, <3>4, Zenon DEF IsCmdComplete, Whole
  <2> QED
    BY <2>1, <2>2
<1>8. s = <<>> => m = 0
  BY <1>1, EmptySeq
<1>9. \A k \in 1 .. m : k # m => EndsLine(P[k])
  BY <1>6, <1>8
<1>10. \A k \in 1 .. m : P[k] = SubSeq(s, Prev(q, k) + 1, q[k])
  BY <1>4 DEF p
<1> QED
  BY <1>4, <1>5, <1>7, <1>9, <1>10 DEF P, T

\* The pieces of a text that grows: those that end a line stay, one that does
\* not goes on.
LEMMA PiecesOfConcat ==
  ASSUME NEW s \in Texts, NEW u \in Texts, u # <<>>
  PROVE  \E h \in Nat :
           /\ h = IF Whole(s) THEN Len(Pieces(s)) ELSE Len(Pieces(s)) - 1
           /\ Len(Pieces(u)) \in Nat \ {0}
           /\ Len(Pieces(s \o u)) = h + Len(Pieces(u))
           /\ \A k \in 1 .. h : Pieces(s \o u)[k] = Pieces(s)[k]
           /\ \A k \in 2 .. Len(Pieces(u)) : Pieces(s \o u)[h + k] = Pieces(u)[k]
           /\ Whole(s) => Pieces(s \o u)[h + 1] = Pieces(u)[1]
           /\ ~ Whole(s) => Pieces(s \o u)[h + 1] = Pieces(s)[h + 1] \o Pieces(u)[1]
<1>1. PICK q : IsCuts(q, s)
  BY CutsExist
<1>2. PICK r : IsCuts(r, u)
  BY CutsExist
<1> DEFINE h == IF Whole(s) THEN Len(q) ELSE Len(q) - 1
           w == [k \in 1 .. h + Len(r) |-> IF k <= h THEN q[k] ELSE Len(s) + r[k - h]]
           su == s \o u
           n == Len(s)
           m == Len(q)
           l == Len(r)
<1>3. h \in 0 .. Len(q) /\ Broken(s) = {q[k] : k \in 1 .. h}
  BY <1>1, Kept
<1>4. IsCuts(w, su) /\ Len(w) = h + l
  <2> HIDE DEF h
  <2> QED
    BY <1>1, <1>2, <1>3, CutsOfConcat
<1>5. su \in Texts /\ Len(su) = n + Len(u)
  BY ConcatProperties DEF Texts
<1>6. /\ n \in Nat /\ m \in Nat
      /\ \A k \in 1 .. m : q[k] \in 1 .. n /\ Prev(q, k) \in 0 .. n /\ Prev(q, k) < q[k]
      /\ s # <<>> => m > 0 /\ q[m] = n /\ n > 0
      /\ s = <<>> => q = <<>>
  BY <1>1, CutsParts
<1>7. /\ l \in Nat /\ Len(u) \in Nat /\ l > 0 /\ Len(u) > 0
      /\ \A k \in 1 .. l : r[k] \in 1 .. Len(u) /\ Prev(r, k) \in 0 .. Len(u) /\ Prev(r, k) < r[k]
  BY <1>2, CutsParts
<1>8. /\ Len(Pieces(s)) = m
      /\ \A k \in 1 .. m : Pieces(s)[k] = SubSeq(s, Prev(q, k) + 1, q[k])
  BY <1>1, PieceParts
<1>9. /\ Len(Pieces(u)) = l
      /\ \A k \in 1 .. l : Pieces(u)[k] = SubSeq(u, Prev(r, k) + 1, r[k])
  BY <1>2, PieceParts
<1>10. /\ Len(Pieces(su)) = h + l
       /\ \A k \in 1 .. h + l : Pieces(su)[k] = SubSeq(su, Prev(w, k) + 1, w[k])
  <2> HIDE DEF w, h, su
  <2> QED
    BY <1>4, <1>5, PieceParts
<1>11. /\ \A k \in 1 .. h + l : w[k] = IF k <= h THEN q[k] ELSE n + r[k - h]
       /\ h = IF Whole(s) THEN m ELSE m - 1
       /\ s = <<>> => Whole(s) /\ m = 0 /\ n = 0
  BY <1>6, EmptySeq DEF Whole
<1>12. h \in Nat /\ h <= m /\ h + l \in Nat
  <2> HIDE DEF h, m
  <2> QED
    BY <1>3, <1>6, <1>7 DEF m
<1> HIDE DEF w, h, n, m, l, su
<1>13. ASSUME NEW k \in 1 .. h PROVE Pieces(su)[k] = Pieces(s)[k]
  <2>1. k \in 1 .. h + l /\ k \in 1 .. m /\ w[k] = q[k]
    BY <1>7, <1>11, <1>12
  <2>2. Prev(w, k) = Prev(q, k)
    <3>1. k # 1 => k - 1 \in 1 .. h + l /\ k - 1 <= h
      BY <1>12, <2>1
    <3> QED
      BY <1>11, <3>1 DEF Prev
  <2>3. Prev(q, k) + 1 \in 1 .. n /\ q[k] \in 1 .. n
    BY <1>6, <2>1
  <2>4. SubSeq(su, Prev(q, k) + 1, q[k]) = SubSeq(s, Prev(q, k) + 1, q[k])
    <3> HIDE DEF Prev
    <3> QED
      BY <2>3, SubSeqOfConcat1 DEF Texts, su, n
  <2> QED
    BY <1>8, <1>10, <2>1, <2>2, <2>4
<1>14. ASSUME NEW k \in 2 .. l PROVE Pieces(su)[h + k] = Pieces(u)[k]
  <2>1. h + k \in 1 .. h + l /\ ~ (h + k <= h) /\ (h + k) - h = k /\ k \in 1 .. l /\ k - 1 \in 1 .. l
    BY <1>7, <1>12
  <2>2. h + k # 1 /\ (h + k) - 1 \in 1 .. h + l /\ ~ ((h + k) - 1 <= h) /\ ((h + k) - 1) - h = k - 1
    BY <1>7, <1>12
  <2>3. w[h + k] = n + r[k] /\ w[(h + k) - 1] = n + r[k - 1]
    BY <1>11, <2>1, <2>2
  <2>4. Prev(w, h + k) = n + r[k - 1] /\ Prev(r, k) = r[k - 1]
    BY <2>2, <2>3 DEF Prev
  <2>5. r[k] \in 1 .. Len(u) /\ r[k - 1] \in 0 .. Len(u) /\ r[k - 1] < r[k]
    BY <1>7, <2>1, <2>4
  <2>6. (n + r[k - 1]) + 1 \in n + 1 .. n + Len(u) /\ n + r[k] \in n + 1 .. n + Len(u)
    <3> DEFINE d == r[k - 1]
               e == r[k]
               z == Len(u)
    <3>1. d \in 0 .. z /\ e \in 1 .. z /\ d < e /\ z \in Nat /\ n \in Nat
      BY <1>6, <1>7, <2>5
    <3> HIDE DEF d, e, z
    <3>2. (n + d) + 1 \in n + 1 .. n + z /\ n + e \in n + 1 .. n + z
      BY <3>1
    <3> QED
      BY <3>2 DEF d, e, z
  <2>7. ((n + r[k - 1]) + 1) - n = r[k - 1] + 1 /\ (n + r[k]) - n = r[k]
    BY <1>6, <2>5
  <2>8. SubSeq(su, (n + r[k - 1]) + 1, n + r[k]) = SubSeq(u, r[k - 1] + 1, r[k])
    <3>1. SubSeq(su, (n + r[k - 1]) + 1, n + r[k])
            = SubSeq(u, ((n + r[k - 1]) + 1) - n, (n + r[k]) - n)
      BY <2>6, SubSeqOfConcat2 DEF Texts, su, n
    <3> QED
      BY <2>7, <3>1
  <2> QED
    BY <1>9, <1>10, <2>1, <2>3, <2>4, <2>8
<1>15. /\ 1 \in 1 .. l /\ h + 1 \in 1 .. h + l /\ w[h + 1] = n + r[1]
       /\ Prev(r, 1) = 0 /\ r[1] \in 1 .. Len(u)
       /\ Pieces(u)[1] = SubSeq(u, 1, r[1])
       /\ Pieces(su)[h + 1] = SubSeq(su, Prev(w, h + 1) + 1, n + r[1])
  <2>1. 1 \in 1 .. l /\ h + 1 \in 1 .. h + l /\ ~ (h + 1 <= h) /\ (h + 1) - h = 1 /\ 0 + 1 = 1
    BY <1>7, <1>12
  <2>2. w[h + 1] = n + r[1] /\ Prev(r, 1) = 0
    BY <1>11, <2>1 DEF Prev
  <2> QED
    BY <1>7, <1>9, <1>10, <2>1, <2>2
<1>16. n + 1 \in n + 1 .. n + Len(u) /\ n + r[1] \in n + 1 .. n + Len(u)
       /\ (n + 1) - n = 1 /\ (n + r[1]) - n = r[1]
  <2> DEFINE e == r[1]
             z == Len(u)
  <2>1. e \in 1 .. z /\ z \in Nat /\ n \in Nat
    BY <1>6, <1>7, <1>15
  <2> HIDE DEF e, z
  <2>2. n + 1 \in n + 1 .. n + z /\ n + e \in n + 1 .. n + z /\ (n + 1) - n = 1 /\ (n + e) - n = e
    BY <2>1
  <2> QED
    BY <2>2 DEF e, z
<1>17. SubSeq(su, n + 1, n + r[1]) = Pieces(u)[1]
  <2>1. SubSeq(su, n + 1, n + r[1]) = SubSeq(u, (n + 1) - n, (n + r[1]) - n)
    BY <1>16, SubSeqOfConcat2 DEF Texts, su, n
  <2> QED
    BY <1>15, <1>16, <2>1
<1>18. Prev(w, h + 1) = IF h = 0 THEN 0 ELSE q[h]
  <2>1. h # 0 => h \in 1 .. h + l /\ (h + 1) - 1 = h
    BY <1>12, <1>7
  <2>2. (h + 1 = 1) <=> h = 0
    BY <1>12
  <2>3. h # 0 => w[h] = q[h]
    BY <1>11, <1>12, <2>1
  <2> QED
    BY <2>1, <2>2, <2>3 DEF Prev
<1>19. ASSUME Whole(s) PROVE Pieces(su)[h + 1] = Pieces(u)[1]
  <2>1. Prev(w, h + 1) = n
    BY <1>6, <1>11, <1>18, <1>19
  <2> QED
    BY <1>15, <1>17, <2>1
<1>20. ASSUME ~ Whole(s) PROVE Pieces(su)[h + 1] = Pieces(s)[h + 1] \o Pieces(u)[1]
  <2>1. s # <<>> /\ m > 0 /\ q[m] = n /\ n > 0 /\ h = m - 1 /\ h + 1 = m /\ m \in 1 .. m
    BY <1>6, <1>11, <1>20
  <2>2. Prev(w, h + 1) = Prev(q, m)
    <3>1. m - 1 = h /\ (m = 1 <=> h = 0)
      BY <1>6, <2>1
    <3> QED
      BY <1>18, <3>1 DEF Prev
  <2> DEFINE a == Prev(q, m)
  <2>3. a \in 0 .. n /\ a < n
    BY <1>6, <2>1
  <2> HIDE DEF a
  <2>4. /\ a + 1 \in 1 .. Len(su) + 1 /\ n \in (a + 1) - 1 .. Len(su)
        /\ n + r[1] \in n .. Len(su) /\ a + 1 \in 1 .. n /\ n \in 1 .. n
    BY <1>5, <1>6, <1>7, <1>15, <2>1, <2>3, SMTT(30) DEF n, su
  <2>5. SubSeq(su, a + 1, n) \o SubSeq(su, n + 1, n + r[1]) = SubSeq(su, a + 1, n + r[1])
    BY <1>5, <2>4, ConcatAdjacentSubSeq DEF Texts
  <2>6. SubSeq(su, a + 1, n) = SubSeq(s, a + 1, n)
    BY <2>4, SubSeqOfConcat1 DEF Texts, su, n
  <2>7. Pieces(s)[m] = SubSeq(s, a + 1, n)
    BY <1>8, <2>1 DEF a
  <2> QED
    BY <1>15, <1>17, <2>1, <2>2, <2>5, <2>6, <2>7 DEF a
<1> QED
  <2>1. h = IF Whole(s) THEN Len(Pieces(s)) ELSE Len(Pieces(s)) - 1
    BY <1>8, <1>11
  <2>2. Len(Pieces(u)) \in Nat \ {0}
    BY <1>7, <1>9
  <2> QED
    BY <1>9, <1>10, <1>12, <1>13, <1>14, <1>19, <1>20, <2>1, <2>2, Zenon DEF su

\* Front and Last of a sequence that is not empty.
LEMMA FrontParts ==
  ASSUME NEW S, NEW b \in Seq(S), b # <<>>
  PROVE  /\ Front(b) \in Seq(S) /\ Len(Front(b)) = Len(b) - 1 /\ Len(b) \in Nat \ {0}
         /\ \A k \in 1 .. Len(b) - 1 : Front(b)[k] = b[k]
         /\ Last(b) \in S /\ Last(b) = b[Len(b)]
<1> DEFINE n == Len(b)
<1>1. n \in Nat \ {0} /\ \A i \in 1 .. n : b[i] \in S
  BY EmptySeq, ElementOfSeq
<1> HIDE DEF n
<1>2. 1 \in Int /\ n - 1 \in Int /\ \A i \in 1 .. n - 1 : i \in 1 .. n /\ 1 + i - 1 = i
  BY <1>1
<1>3. /\ SubSeq(b, 1, n - 1) \in Seq(S)
      /\ Len(SubSeq(b, 1, n - 1)) = IF 1 <= n - 1 THEN n - 1 - 1 + 1 ELSE 0
      /\ \A i \in 1 .. n - 1 - 1 + 1 : SubSeq(b, 1, n - 1)[i] = b[1 + i - 1]
  BY <1>1, <1>2, SubSeqProperties
<1>4. Front(b) = SubSeq(b, 1, n - 1) /\ Last(b) = b[n]
  BY DEF Front, Last, n
<1>5. n \in 1 .. n
  BY <1>1
<1>6. Len(SubSeq(b, 1, n - 1)) = n - 1
  BY <1>1, <1>3
<1>7. \A k \in 1 .. n - 1 : SubSeq(b, 1, n - 1)[k] = b[k]
  BY <1>1, <1>2, <1>3
<1> QED
  BY <1>1, <1>3, <1>4, <1>5, <1>6, <1>7 DEF n

\* What is pushed goes on where the text stopped.
LEMMA PushIsPieces ==
  ASSUME NEW s \in Texts, NEW u \in Texts, u # <<>>
  PROVE  PushToBuffer(Pieces(s), u) = Pieces(s \o u)
<1> DEFINE P == Pieces(s)
           U == Pieces(u)
           W == Pieces(s \o u)
<1>1. P \in Seq(Texts) /\ U \in Seq(Texts) /\ W \in Seq(Texts) /\ (IsCmdComplete(P) <=> Whole(s))
  <2>1. ASSUME NEW x \in Texts PROVE Pieces(x) \in Seq(Texts) /\ (IsCmdComplete(Pieces(x)) <=> Whole(x))
    <3>1. PICK q : IsCuts(q, x)
      BY CutsExist
    <3>2. Pieces(x) \in Seq(Texts \ {<<>>}) /\ (IsCmdComplete(Pieces(x)) <=> Whole(x))
      BY <3>1, PieceParts
    <3>3. Texts \ {<<>>} \subseteq Texts
      OBVIOUS
    <3> QED
      BY <3>2, <3>3, SeqMonotonic
  <2>2. s \o u \in Texts
    BY ConcatProperties DEF Texts
  <2> QED
    BY <2>1, <2>2
<1>2. PICK h \in Nat :
        /\ h = IF Whole(s) THEN Len(P) ELSE Len(P) - 1
        /\ Len(U) \in Nat \ {0}
        /\ Len(W) = h + Len(U)
        /\ \A k \in 1 .. h : W[k] = P[k]
        /\ \A k \in 2 .. Len(U) : W[h + k] = U[k]
        /\ Whole(s) => W[h + 1] = U[1]
        /\ ~ Whole(s) => W[h + 1] = P[h + 1] \o U[1]
  BY PiecesOfConcat
<1>3. PushToBuffer(P, u) = IF Whole(s) THEN P \o U
                           ELSE (Front(P) \o <<Last(P) \o Head(U)>>) \o Tail(U)
  BY <1>1, Zenon DEF PushToBuffer
<1> HIDE DEF P, U, W
<1> DEFINE l == Len(U)
<1>4. \A k \in 1 .. h + l : \/ k \in 1 .. h
                            \/ k = h + 1
                            \/ k - h \in 2 .. l /\ h + (k - h) = k
  BY <1>2
<1>5. CASE Whole(s)
  <2>1. /\ P \o U \in Seq(Texts) /\ Len(P \o U) = h + l
        /\ \A i \in 1 .. h + l : (P \o U)[i] = IF i <= h THEN P[i] ELSE U[i - h]
    BY <1>1, <1>2, <1>5, ConcatProperties
  <2>2. ASSUME NEW k \in 1 .. h + l PROVE W[k] = (P \o U)[k]
    <3>1. CASE k \in 1 .. h
      BY <1>2, <2>1, <3>1
    <3>2. CASE k = h + 1
      <4>1. ~ (k <= h) /\ k - h = 1
        BY <1>2, <3>2
      <4> QED
        BY <1>2, <1>5, <2>1, <3>2, <4>1
    <3>3. CASE k - h \in 2 .. l /\ h + (k - h) = k
      <4>1. ~ (k <= h)
        BY <1>2, <3>3
      <4>2. W[h + (k - h)] = U[k - h]
        BY <1>2, <3>3
      <4> QED
        BY <2>1, <3>3, <4>1, <4>2
    <3> QED
      BY <1>4, <3>1, <3>2, <3>3
  <2>3. W = P \o U
    <3> HIDE DEF l
    <3> QED
      BY <1>1, <1>2, <2>1, <2>2, SeqEqual DEF l
  <2> QED
    BY <1>3, <1>5, <2>3 DEF P, W
<1>6. CASE ~ Whole(s)
  <2> DEFINE f == Front(P)
             x == Last(P) \o Head(U)
             g == f \o <<x>>
             t == Tail(U)
  <2>1. P # <<>> /\ Len(P) = h + 1
    <3>1. P # <<>>
      BY <1>1, <1>6 DEF IsCmdComplete
    <3>2. Len(P) \in Nat
      BY <1>1, LenProperties
    <3> QED
      BY <1>2, <1>6, <3>1, <3>2
  <2>2. /\ f \in Seq(Texts) /\ Len(f) = h /\ \A k \in 1 .. h : f[k] = P[k]
        /\ Last(P) \in Texts /\ Last(P) = P[h + 1]
    <3>1. (h + 1) - 1 = h
      BY <1>2
    <3> QED
      BY <1>1, <2>1, <3>1, FrontParts
  <2>3. /\ t \in Seq(Texts) /\ Len(t) = l - 1 /\ \A k \in 1 .. l - 1 : t[k] = U[k + 1]
        /\ Head(U) \in Texts /\ Head(U) = U[1]
    <3>1. U # <<>>
      BY <1>2, EmptySeq
    <3> QED
      BY <1>1, <3>1, HeadTailProperties
  <2>4. x \in Texts /\ <<x>> \in Seq(Texts) /\ Len(<<x>>) = 1 /\ <<x>>[1] = x
    <3>1. x \in Texts
      BY <2>2, <2>3, ConcatProperties DEF Texts
    <3> HIDE DEF x
    <3> QED
      BY <3>1
  <2>5. x = W[h + 1]
    BY <1>2, <1>6, <2>2, <2>3
  <2> HIDE DEF f, x, t
  <2>6. /\ g \in Seq(Texts) /\ Len(g) = h + 1
        /\ \A k \in 1 .. h + 1 : g[k] = IF k <= h THEN f[k] ELSE <<x>>[k - h]
    BY <2>2, <2>4, ConcatProperties
  <2>7. (h + 1) - h = 1 /\ ~ (h + 1 <= h) /\ h + 1 \in 1 .. h + 1
    BY <1>2
  <2>8. g[h + 1] = x /\ \A k \in 1 .. h : g[k] = f[k]
    BY <1>2, <2>4, <2>6, <2>7
  <2> HIDE DEF g
  <2>9. /\ g \o t \in Seq(Texts) /\ Len(g \o t) = (h + 1) + (l - 1)
        /\ \A k \in 1 .. (h + 1) + (l - 1) : (g \o t)[k] = IF k <= h + 1 THEN g[k] ELSE t[k - (h + 1)]
    <3>1. t \in Seq(Texts) /\ Len(t) = l - 1
      BY <2>3
    <3>2. g \in Seq(Texts) /\ Len(g) = h + 1
      BY <2>6
    <3>3. /\ g \o t \in Seq(Texts) /\ Len(g \o t) = Len(g) + Len(t)
          /\ \A k \in 1 .. Len(g) + Len(t) : (g \o t)[k] = IF k <= Len(g) THEN g[k] ELSE t[k - Len(g)]
      BY <3>1, <3>2, ConcatProperties
    <3> QED
      BY <3>1, <3>2, <3>3
  <2>10. (h + 1) + (l - 1) = h + l
    BY <1>2
  <2>11. ASSUME NEW k \in 1 .. h + l PROVE W[k] = (g \o t)[k]
    <3>1. CASE k \in 1 .. h
      <4>1. k <= h + 1
        BY <1>2, <3>1
      <4> QED
        BY <1>2, <2>2, <2>8, <2>9, <2>10, <3>1, <4>1
    <3>2. CASE k = h + 1
      <4>1. k <= h + 1 /\ k \in 1 .. (h + 1) + (l - 1)
        BY <1>2, <2>10, <3>2
      <4>2. (g \o t)[k] = g[k]
        BY <2>9, <4>1
      <4> QED
        BY <2>5, <2>8, <3>2, <4>2
    <3>3. CASE k - h \in 2 .. l /\ h + (k - h) = k
      <4>1. ~ (k <= h + 1) /\ k - (h + 1) \in 1 .. l - 1 /\ (k - (h + 1)) + 1 = k - h
        BY <1>2, <3>3
      <4>2. W[h + (k - h)] = U[k - h]
        BY <1>2, <3>3
      <4>3. t[k - (h + 1)] = U[(k - (h + 1)) + 1]
        BY <2>3, <4>1
      <4>4. (g \o t)[k] = t[k - (h + 1)]
        BY <2>9, <2>10, <4>1
      <4> QED
        BY <3>3, <4>1, <4>2, <4>3, <4>4
    <3> QED
      BY <1>4, <3>1, <3>2, <3>3
  <2>12. W = g \o t
    <3>1. Len(W) = h + l /\ Len(g \o t) = h + l
      BY <1>2, <2>9, <2>10
    <3> DEFINE v == g \o t
    <3>2. v \in Seq(Texts) /\ Len(W) = Len(v) /\ \A k \in 1 .. Len(W) : W[k] = v[k]
      BY <2>9, <2>11, <3>1
    <3> HIDE DEF v
    <3>3. W = v
      BY <1>1, <3>2, SeqEqual
    <3> QED
      BY <3>3 DEF v
  <2> QED
    BY <1>3, <1>6, <2>12 DEF P, W, f, g, t, x
<1> QED
  BY <1>5, <1>6

LEMMA Assoc == \A T : \A a, b, c \in Seq(T) : (a \o b) \o c = a \o (b \o c)
BY ConcatAssociative

LEMMA PiecesOfText ==
  ASSUME NEW u \in Texts
  PROVE  Pieces(u) \in Seq(Texts) /\ (u # <<>> => Pieces(u) # <<>>)
<1>1. PICK q : IsCuts(q, u)
  BY CutsExist
<1>2. Pieces(u) \in Seq(Texts \ {<<>>}) /\ Len(Pieces(u)) = Len(q)
  BY <1>1, PieceParts
<1>3. Texts \ {<<>>} \subseteq Texts
  OBVIOUS
<1>4. Pieces(u) \in Seq(Texts)
  BY <1>2, <1>3, SeqMonotonic
<1>5. u # <<>> => Len(q) > 0
  BY <1>1, CutsParts
<1>6. Len(<<>>) = 0
  OBVIOUS
<1> QED
  BY <1>2, <1>4, <1>5, <1>6

\* Lines that have been read do not matter.
LEMMA PushBehind ==
  ASSUME NEW r \in Seq(Texts), NEW b \in Seq(Texts), NEW u \in Texts, u # <<>>,
         b = <<>> => r = <<>> \/ EndsLine(Last(r))
  PROVE  PushToBuffer(r \o b, u) = r \o PushToBuffer(b, u)
<1> DEFINE U == Pieces(u)
<1>1. U \in Seq(Texts) /\ U # <<>>
  BY PiecesOfText
<1>2. \A v : PushToBuffer(v, u) = IF IsCmdComplete(v) THEN v \o U
                                  ELSE (Front(v) \o <<Last(v) \o Head(U)>>) \o Tail(U)
  BY Zenon DEF PushToBuffer
<1> HIDE DEF U
<1>3. CASE b = <<>>
  <2>1. r \o b = r /\ b \o U = U
    BY <1>1, <1>3, ConcatEmptySeq
  <2>2. IsCmdComplete(r) /\ IsCmdComplete(b)
    BY <1>3 DEF IsCmdComplete
  <2> QED
    BY <1>2, <2>1, <2>2
<1>4. CASE b # <<>>
  <2> DEFINE rb == r \o b
             n == Len(r)
             m == Len(b)
  <2>1. n \in Nat /\ m \in Nat \ {0}
    BY <1>4, LenProperties, EmptySeq
  <2>2. /\ rb \in Seq(Texts) /\ Len(rb) = n + m
        /\ \A i \in 1 .. n + m : rb[i] = IF i <= n THEN r[i] ELSE b[i - n]
    BY ConcatProperties
  <2>3. /\ Front(b) \in Seq(Texts) /\ Len(Front(b)) = m - 1
        /\ \A k \in 1 .. m - 1 : Front(b)[k] = b[k]
        /\ Last(b) \in Texts /\ Last(b) = b[m]
    BY <1>4, FrontParts
  <2>4. rb # <<>>
    BY <2>1, <2>2
  <2> HIDE DEF rb, n, m
  <2>5. /\ Front(rb) \in Seq(Texts) /\ Len(Front(rb)) = n + m - 1
        /\ \A k \in 1 .. n + m - 1 : Front(rb)[k] = rb[k]
        /\ Last(rb) = rb[n + m]
    <3> DEFINE z == Len(rb)
    <3>1. /\ Front(rb) \in Seq(Texts) /\ Len(Front(rb)) = z - 1
          /\ \A k \in 1 .. z - 1 : Front(rb)[k] = rb[k]
          /\ Last(rb) = rb[z]
      BY <2>2, <2>4, FrontParts
    <3>2. z = n + m
      BY <2>2
    <3> HIDE DEF z
    <3>3. z - 1 = n + m - 1
      BY <2>1, <3>2
    <3> QED
      BY <3>1, <3>2, <3>3, Zenon
  <2>6. Last(rb) = Last(b)
    <3>1. n + m \in 1 .. n + m /\ ~ (n + m <= n) /\ (n + m) - n = m
      BY <2>1
    <3> QED
      BY <2>2, <2>3, <2>5, <3>1
  <2>7. IsCmdComplete(rb) <=> IsCmdComplete(b)
    BY <1>4, <2>4, <2>6 DEF IsCmdComplete
  <2>8. Front(rb) = r \o Front(b)
    <3>1. /\ r \o Front(b) \in Seq(Texts) /\ Len(r \o Front(b)) = n + (m - 1)
          /\ \A i \in 1 .. n + (m - 1) : (r \o Front(b))[i] = IF i <= n THEN r[i] ELSE Front(b)[i - n]
      <4> DEFINE f == Front(b)
      <4>1. f \in Seq(Texts) /\ Len(f) = m - 1
        BY <2>3
      <4> HIDE DEF f
      <4>2. /\ r \o f \in Seq(Texts) /\ Len(r \o f) = Len(r) + Len(f)
            /\ \A i \in 1 .. Len(r) + Len(f) : (r \o f)[i] = IF i <= Len(r) THEN r[i] ELSE f[i - Len(r)]
        BY <4>1, ConcatProperties
      <4> QED
        BY <4>1, <4>2 DEF f, n
    <3>2. n + (m - 1) = n + m - 1
      BY <2>1
    <3>3. ASSUME NEW i \in 1 .. n + m - 1 PROVE Front(rb)[i] = (r \o Front(b))[i]
      <4>1. i \in 1 .. n + m /\ i \in 1 .. n + (m - 1)
        BY <2>1
      <4>2. ~ (i <= n) => i - n \in 1 .. m - 1
        BY <2>1
      <4> QED
        BY <2>2, <2>3, <2>5, <3>1, <4>1, <4>2
    <3> QED
      BY <2>5, <3>1, <3>2, <3>3, SeqEqual
  <2>9. CASE IsCmdComplete(b)
    <3>1. PushToBuffer(rb, u) = rb \o U /\ PushToBuffer(b, u) = b \o U
      BY <1>2, <2>7, <2>9
    <3>2. (r \o b) \o U = r \o (b \o U)
      BY <1>1, ConcatAssociative, SMTT(30)
    <3> QED
      BY <3>1, <3>2 DEF rb
  <2>10. CASE ~ IsCmdComplete(b)
    <3> DEFINE x == <<Last(b) \o Head(U)>>
               f == Front(b)
               t == Tail(U)
    <3>1. x \in Seq(Texts)
      <4>1. Head(U) \in Texts
        BY <1>1, HeadTailProperties
      <4>2. Last(b) \o Head(U) \in Texts
        BY <2>3, <4>1, ConcatProperties DEF Texts
      <4> DEFINE y == Last(b) \o Head(U)
      <4> HIDE DEF y
      <4>3. y \in Texts => <<y>> \in Seq(Texts)
        OBVIOUS
      <4> QED
        BY <4>2, <4>3 DEF y
    <3>2. t \in Seq(Texts) /\ f \in Seq(Texts)
      BY <1>1, <2>3, HeadTailProperties
    <3>3. PushToBuffer(b, u) = (f \o x) \o t
      BY <1>2, <2>10
    <3>4. PushToBuffer(rb, u) = ((r \o f) \o x) \o t
      BY <1>2, <2>6, <2>7, <2>8, <2>10
    <3> HIDE DEF x, f, t
    <3>5. ((r \o f) \o x) \o t = r \o ((f \o x) \o t)
      <4>1. \A g \in Seq(Texts) : (r \o g) \o x = r \o (g \o x)
        BY <3>1, Assoc, SMTT(30)
      <4>2. f \o x \in Seq(Texts)
        BY <3>1, <3>2, ConcatProperties
      <4>3. \A g \in Seq(Texts) : (r \o g) \o t = r \o (g \o t)
        BY <3>2, Assoc, SMTT(30)
      <4> QED
        BY <3>2, <4>1, <4>2, <4>3, Zenon
    <3> QED
      BY <3>3, <3>4, <3>5 DEF rb
  <2> QED
    BY <2>9, <2>10
<1> QED
  BY <1>3, <1>4

-----------------------------------------------------------------------------
\* The lines of a context, and its manager.

TextsOf(r) == [k \in 1 .. Len(r) |-> LineText(r[k])]

AllEnd(r) == \A k \in 1 .. Len(r) : EndsLine(r[k])

\* r has been read from the stream of c, and its buffer is the rest.
ReadUpTo(c, r) ==
  /\ r \in Seq(Texts) /\ buffer[c] \in Seq(Texts) /\ stream[c] \in Texts
  /\ Pieces(stream[c]) = r \o buffer[c]
  /\ lines[c] = Len(r)

\* The thread is between two steps that leave the manager of c behind its buffer.
Adds(t, c) == pc[t] = "add" /\ ctx[t] = c
Rests(t, c) == pc[t] = "rest" /\ ctx[t] = c

\* The last line read is still with the thread that read it.
OneToAdd(c, r) ==
  /\ AllEnd(r)
  /\ \E q \in Seq(Texts), p \in Texts :
       /\ r = Append(q, p)
       /\ Book(mgr[c], TextsOf(q), BulkSize)
       /\ \A t \in Threads : Adds(t, c) => arg[t] = ToCommand(LineText(p), Len(r))

\* What the manager has been given.
ManagerOk(c, r) ==
  /\ Ended(c) => buffer[c] = <<>> /\ mgr[c].sent = BulksOf(TextsOf(r), BulkSize, TRUE)
  /\ ~ Ended(c) =>
       /\ (\E t \in Threads : Rests(t, c)) => buffer[c] = <<>> /\ Book(mgr[c], TextsOf(r), BulkSize)
       /\ (\E t \in Threads : Adds(t, c)) => OneToAdd(c, r)
       /\ ~ (\E t \in Threads : Rests(t, c) \/ Adds(t, c))
            => AllEnd(r) /\ Book(mgr[c], TextsOf(r), BulkSize)
       /\ mtx[c] = None => ~ HasCmd(buffer[c])

StreamOk(c) == \E r : ReadUpTo(c, r) /\ ManagerOk(c, r)

\* What a call of receive brings is a chunk until it is pushed, and a context is
\* out of the map while its pools are joined.
CallsOk ==
  /\ buffer = [c \in Contexts |-> buffer[c]] /\ stream = [c \in Contexts |-> stream[c]]
  /\ \A t \in Threads :
    /\ pc[t] \in {"find to receive", "lock to receive"} => arg[t] \in Chunks
    /\ pc[t] = "join" => ctx[t] \notin bulkmgrs

LinesInv == CallsOk /\ \A c \in Contexts : StreamOk(c)

-----------------------------------------------------------------------------
\* What these are of texts alone.

LEMMA HeadOfOne == \A x : Head(<<x>>) = x
OBVIOUS

LEMMA LineTextIs == \A p : LineText(p) \in Text
<1>1. ASSUME NEW line PROVE line \in {<<"{">>, <<"}">>} => Head(line) \in {"{", "}"}
  BY HeadOfOne, Zenon
<1>2. Text = {"base", "{", "}"}
  BY DEF Text
<1> QED
  BY <1>1, <1>2, Zenon DEF LineText

LEMMA TextsGrow ==
  ASSUME NEW r \in Seq(Texts)
  PROVE  /\ TextsOf(r) \in Seq(Text) /\ Len(TextsOf(r)) = Len(r) /\ Len(r) \in Nat
         /\ \A p \in Texts : TextsOf(Append(r, p)) = Append(TextsOf(r), LineText(p))
<1> DEFINE n == Len(r)
<1>1. n \in Nat
  BY LenProperties
<1> DEFINE T(q) == TextsOf(q)
<1>2. \A q : T(q) = [k \in 1 .. Len(q) |-> LineText(q[k])]
  BY DEF TextsOf
<1>3. \A q \in Seq(Texts) : T(q) \in Seq(Text) /\ Len(T(q)) = Len(q)
  <2> TAKE q \in Seq(Texts)
  <2>1. Len(q) \in Nat
    BY LenProperties
  <2>2. T(q) \in [1 .. Len(q) -> Text]
    BY <1>2, LineTextIs
  <2> DEFINE v == T(q)
             m == Len(q)
  <2>3. v \in [1 .. m -> Text] /\ m \in Nat
    BY <2>1, <2>2
  <2> HIDE DEF v, m
  <2>4. v \in Seq(Text) /\ Len(v) = m
    BY <2>3
  <2> QED
    BY <2>4 DEF v, m
<1> HIDE DEF n
<1>4. ASSUME NEW p \in Texts PROVE T(Append(r, p)) = Append(T(r), LineText(p))
  <2> DEFINE a == Append(r, p)
             x == LineText(p)
             v == Append(T(r), x)
  <2>1. /\ a \in Seq(Texts) /\ Len(a) = n + 1 /\ a[n + 1] = p
        /\ \A i \in 1 .. n : a[i] = r[i]
    BY AppendProperties DEF n
  <2>2. x \in Text
    BY LineTextIs
  <2>3. T(r) \in Seq(Text) /\ Len(T(r)) = n /\ T(a) \in Seq(Text) /\ Len(T(a)) = n + 1
    BY <1>3, <2>1 DEF n
  <2>4. \A i \in 1 .. n : T(r)[i] = LineText(r[i])
    BY <1>2 DEF n
  <2>5. \A i \in 1 .. n + 1 : T(a)[i] = LineText(a[i])
    BY <1>2, <2>1
  <2> HIDE DEF a, T, x
  <2>6. /\ v \in Seq(Text) /\ Len(v) = n + 1 /\ v[n + 1] = x
        /\ \A i \in 1 .. n : v[i] = T(r)[i]
    BY <2>2, <2>3, AppendProperties
  <2> HIDE DEF v
  <2>7. ASSUME NEW i \in 1 .. n + 1 PROVE T(a)[i] = v[i]
    <3>1. CASE i \in 1 .. n
      BY <2>1, <2>4, <2>5, <2>6, <3>1
    <3>2. CASE i = n + 1
      BY <2>1, <2>5, <2>6, <3>2 DEF x
    <3> QED
      BY <1>1, <3>1, <3>2
  <2>8. T(a) = v
    BY <2>3, <2>6, <2>7, SeqEqual
  <2> QED
    BY <2>8 DEF v, x, a
<1> QED
  BY <1>1, <1>3, <1>4 DEF n

LEMMA PushTypes ==
  ASSUME NEW b \in Seq(Texts), NEW u \in Texts, u # <<>>
  PROVE  PushToBuffer(b, u) \in Seq(Texts)
<1> DEFINE U == Pieces(u)
<1>1. U \in Seq(Texts) /\ U # <<>>
  BY PiecesOfText
<1>2. PushToBuffer(b, u) = IF IsCmdComplete(b) THEN b \o U
                           ELSE (Front(b) \o <<Last(b) \o Head(U)>>) \o Tail(U)
  BY Zenon DEF PushToBuffer
<1> HIDE DEF U
<1>3. b \o U \in Seq(Texts)
  BY <1>1, ConcatProperties
<1>4. ASSUME ~ IsCmdComplete(b)
      PROVE  (Front(b) \o <<Last(b) \o Head(U)>>) \o Tail(U) \in Seq(Texts)
  <2>1. b # <<>>
    BY <1>4 DEF IsCmdComplete
  <2>2. Front(b) \in Seq(Texts) /\ Last(b) \in Texts
    BY <2>1, FrontParts
  <2>3. Head(U) \in Texts /\ Tail(U) \in Seq(Texts)
    BY <1>1, HeadTailProperties
  <2> DEFINE x == Last(b) \o Head(U)
             f == Front(b)
             t == Tail(U)
  <2>4. x \in Texts
    BY <2>2, <2>3, ConcatProperties DEF Texts
  <2>5. f \in Seq(Texts) /\ t \in Seq(Texts)
    BY <2>2, <2>3
  <2> HIDE DEF x, f, t
  <2>6. <<x>> \in Seq(Texts)
    BY <2>4
  <2>7. f \o <<x>> \in Seq(Texts)
    BY <2>5, <2>6, ConcatProperties
  <2>8. (f \o <<x>>) \o t \in Seq(Texts)
    BY <2>5, <2>7, ConcatProperties
  <2> QED
    BY <2>8 DEF x, f, t
<1> QED
  BY <1>2, <1>3, <1>4

LEMMA LastEnds ==
  ASSUME NEW r \in Seq(Texts), r # <<>>, AllEnd(r)
  PROVE  EndsLine(Last(r))
<1>1. Len(r) \in Nat \ {0} /\ Last(r) = r[Len(r)]
  BY FrontParts
<1>2. Len(r) \in 1 .. Len(r)
  BY <1>1
<1> QED
  BY <1>1, <1>2, Zenon DEF AllEnd

\* pushToBuffer behind the lines that have been read.
LEMMA PushGoesOn ==
  ASSUME NEW s \in Texts, NEW u \in Texts, u # <<>>,
         NEW r \in Seq(Texts), NEW b \in Seq(Texts), Pieces(s) = r \o b, AllEnd(r)
  PROVE  /\ s \o u \in Texts /\ PushToBuffer(b, u) \in Seq(Texts)
         /\ Pieces(s \o u) = r \o PushToBuffer(b, u)
<1>1. r = <<>> \/ EndsLine(Last(r))
  <2>1. ASSUME r # <<>> PROVE EndsLine(Last(r))
    <3> QED
      BY <2>1, LastEnds
  <2> QED
    BY <2>1
<1>2. PushToBuffer(r \o b, u) = r \o PushToBuffer(b, u)
  BY <1>1, PushBehind
<1>3. PushToBuffer(Pieces(s), u) = Pieces(s \o u)
  BY PushIsPieces
<1>4. s \o u \in Texts
  BY ConcatProperties DEF Texts
<1> QED
  BY <1>2, <1>3, <1>4, PushTypes, Zenon

\* Only the last piece of a text may not end a line.
LEMMA OnlyTheLast ==
  ASSUME NEW s \in Texts, NEW r \in Seq(Texts), NEW b \in Seq(Texts), Pieces(s) = r \o b,
         b # <<>>, ~ EndsLine(Head(b))
  PROVE  Len(b) = 1 /\ Tail(b) = <<>>
<1> DEFINE n == Len(r)
           m == Len(b)
<1>1. n \in Nat /\ m \in Nat \ {0} /\ Head(b) = b[1]
  BY LenProperties, EmptySeq
<1>2. /\ Len(r \o b) = n + m
      /\ \A i \in 1 .. n + m : (r \o b)[i] = IF i <= n THEN r[i] ELSE b[i - n]
  BY ConcatProperties
<1>3. PICK q : IsCuts(q, s)
  BY CutsExist
<1>4. /\ Len(r \o b) = Len(q)
      /\ \A k \in 1 .. Len(q) : k # Len(q) => EndsLine((r \o b)[k])
  BY <1>3, PieceParts
<1> HIDE DEF n, m
<1>5. m = 1
  <2>1. n + 1 \in 1 .. n + m /\ ~ (n + 1 <= n) /\ (n + 1) - n = 1
    BY <1>1
  <2>2. (r \o b)[n + 1] = Head(b)
    BY <1>1, <1>2, <2>1
  <2>3. n + 1 \in 1 .. Len(q) /\ (n + 1 = Len(q) => m = 1)
    BY <1>1, <1>2, <1>4, <2>1
  <2>4. n + 1 = Len(q)
    BY <1>4, <2>2, <2>3
  <2> QED
    BY <2>3, <2>4
<1>6. Tail(b) \in Seq(Texts) /\ Len(Tail(b)) = m - 1
  BY HeadTailProperties DEF m
<1>7. Tail(b) = <<>>
  <2>1. Len(Tail(b)) = 0
    BY <1>5, <1>6
  <2>2. Tail(b) # <<>> => Len(Tail(b)) # 0
    BY <1>6, EmptySeq
  <2> QED
    BY <2>1, <2>2
<1> QED
  BY <1>5, <1>7 DEF m

\* The lines of the stream are those that have been read.
LEMMA LinesAre ==
  ASSUME NEW s \in Texts, NEW r \in Seq(Texts), NEW b \in Seq(Texts), Pieces(s) = r \o b
  PROVE  /\ b = <<>> => LinesOf(s, TRUE) = TextsOf(r)
         /\ AllEnd(r) /\ ~ HasCmd(b) => LinesOf(s, FALSE) = TextsOf(r)
<1> DEFINE P == Pieces(s)
           n == Len(r)
<1>1. n \in Nat
  BY LenProperties
<1>2. LinesOf(s, TRUE) = [k \in 1 .. Len(P) |-> LineText(P[k])]
  BY Zenon DEF LinesOf
<1>3. ASSUME b = <<>> PROVE LinesOf(s, TRUE) = TextsOf(r)
  <2>1. P = r
    BY <1>3, ConcatEmptySeq
  <2> QED
    BY <1>2, <2>1, Zenon DEF TextsOf
<1>4. ASSUME AllEnd(r), ~ HasCmd(b) PROVE LinesOf(s, FALSE) = TextsOf(r)
  <2>1. CASE b = <<>>
    <3>1. P = r
      BY <2>1, ConcatEmptySeq
    <3>2. r = <<>> \/ EndsLine(Last(r))
      <4>1. ASSUME r # <<>> PROVE EndsLine(Last(r))
        BY <1>4, <4>1, LastEnds
      <4> QED
        BY <4>1
    <3>3. LinesOf(s, FALSE) = [k \in 1 .. Len(P) |-> LineText(P[k])]
      BY <3>1, <3>2, Zenon DEF LinesOf
    <3> QED
      BY <3>1, <3>3, Zenon DEF TextsOf
  <2>2. CASE b # <<>>
    <3>1. ~ EndsLine(Head(b))
      BY <1>4, <2>2 DEF HasCmd
    <3>2. Len(b) = 1
      BY <2>2, <3>1, OnlyTheLast
    <3>3. /\ Len(P) = n + 1
          /\ \A i \in 1 .. n + 1 : P[i] = IF i <= n THEN r[i] ELSE b[i - n]
      <4>1. /\ Len(r \o b) = Len(r) + Len(b)
            /\ \A i \in 1 .. Len(r) + Len(b) : (r \o b)[i] = IF i <= Len(r) THEN r[i] ELSE b[i - Len(r)]
        BY ConcatProperties
      <4> QED
        BY <3>2, <4>1
    <3> HIDE DEF P, n
    <3>4. n + 1 \in 1 .. n + 1 /\ ~ (n + 1 <= n) /\ (n + 1) - n = 1 /\ (n + 1) - 1 = n
          /\ \A i \in 1 .. n : i \in 1 .. n + 1 /\ i <= n
      BY <1>1
    <3>5. P # <<>>
      BY <1>1, <3>3
    <3>6. Last(P) = Head(b)
      <4>1. Last(P) = b[1]
        BY <3>3, <3>4 DEF Last
      <4> QED
        BY <2>2, <4>1
    <3>7. LinesOf(s, FALSE) = [k \in 1 .. Len(P) - 1 |-> LineText(P[k])]
      BY <3>1, <3>5, <3>6, Zenon DEF LinesOf, P
    <3>8. LinesOf(s, FALSE) = [k \in 1 .. n |-> LineText(P[k])]
      BY <3>3, <3>4, <3>7
    <3>9. \A k \in 1 .. n : P[k] = r[k]
      BY <3>3, <3>4
    <3> QED
      BY <3>8, <3>9 DEF TextsOf, n
  <2> QED
    BY <2>1, <2>2
<1> QED
  BY <1>3, <1>4

\* A line is read.
LEMMA ReadOne ==
  ASSUME NEW r \in Seq(Texts), NEW b \in Seq(Texts), b # <<>>
  PROVE  /\ Head(b) \in Texts /\ Tail(b) \in Seq(Texts) /\ Append(r, Head(b)) \in Seq(Texts)
         /\ Append(r, Head(b)) \o Tail(b) = r \o b
         /\ Len(Append(r, Head(b))) = Len(r) + 1
         /\ AllEnd(r) /\ EndsLine(Head(b)) => AllEnd(Append(r, Head(b)))
<1>1. Head(b) \in Texts /\ Tail(b) \in Seq(Texts)
  BY HeadTailProperties
<1> DEFINE h == Head(b)
           a == Append(r, h)
           n == Len(r)
<1>2. /\ a \in Seq(Texts) /\ Len(a) = n + 1 /\ a[n + 1] = h
      /\ \A i \in 1 .. n : a[i] = r[i]
  <2> HIDE DEF h
  <2> QED
    BY <1>1, AppendProperties DEF h
<1>3. a \o Tail(b) = r \o b
  BY MoveFirst
<1>4. n \in Nat
  BY LenProperties
<1> HIDE DEF h, a, n
<1>5. ASSUME AllEnd(r), EndsLine(h) PROVE AllEnd(a)
  <2>1. \A i \in 1 .. n + 1 : i \in 1 .. n \/ i = n + 1
    BY <1>4
  <2>2. \A i \in 1 .. n : EndsLine(r[i])
    BY <1>5 DEF AllEnd, n
  <2>3. \A i \in 1 .. n + 1 : EndsLine(a[i])
    BY <1>2, <1>5, <2>1, <2>2, Zenon
  <2> QED
    BY <1>2, <2>3, Zenon DEF AllEnd
<1> QED
  BY <1>1, <1>2, <1>3, <1>5 DEF h, a, n

-----------------------------------------------------------------------------
\* The steps.

\* The thread is on its way out of disconnect.
Goes(t, c) == pc[t] \in {"erase", "join"} /\ ctx[t] = c

LEMMA EndedIs ==
  ASSUME NEW c
  PROVE  Ended(c) <=> c \in used /\ (c \notin bulkmgrs \/ \E t \in Threads : Goes(t, c))
BY DEF Ended, Callers, Goes

\* A step that keeps the stage of a context and everything that belongs to it.
LEMMA SameStage ==
  ASSUME NEW d \in Contexts, StreamOk(d),
         Ended(d)' <=> Ended(d),
         \A s \in Threads : /\ Adds(s, d)' <=> Adds(s, d)
                            /\ Rests(s, d)' <=> Rests(s, d)
                            /\ Adds(s, d) => arg'[s] = arg[s],
         buffer'[d] = buffer[d], stream'[d] = stream[d], lines'[d] = lines[d],
         mgr'[d] = mgr[d],
         mtx'[d] = None => mtx[d] = None \/ ~ HasCmd(buffer[d])
  PROVE  StreamOk(d)'
<1>1. PICK r : ReadUpTo(d, r) /\ ManagerOk(d, r)
  BY DEF StreamOk
<1>2. ReadUpTo(d, r)'
  BY <1>1 DEF ReadUpTo
<1>3. OneToAdd(d, r) => OneToAdd(d, r)'
  <2>1. SUFFICES ASSUME OneToAdd(d, r) PROVE OneToAdd(d, r)'
    OBVIOUS
  <2>2. PICK q \in Seq(Texts), p \in Texts :
          /\ r = Append(q, p)
          /\ Book(mgr[d], TextsOf(q), BulkSize)
          /\ \A t \in Threads : Adds(t, d) => arg[t] = ToCommand(LineText(p), Len(r))
    BY <2>1 DEF OneToAdd
  <2>3. /\ Book(mgr'[d], TextsOf(q), BulkSize)
        /\ \A t \in Threads : Adds(t, d)' => arg'[t] = ToCommand(LineText(p), Len(r))
    BY <2>2
  <2>4. AllEnd(r)
    BY <2>1 DEF OneToAdd
  <2> QED
    BY <2>2, <2>3, <2>4 DEF OneToAdd
<1>4. /\ HasCmd(buffer'[d]) <=> HasCmd(buffer[d])
      /\ (\E t \in Threads : Rests(t, d)') <=> (\E t \in Threads : Rests(t, d))
      /\ (\E t \in Threads : Adds(t, d)') <=> (\E t \in Threads : Adds(t, d))
      /\ (\E t \in Threads : Rests(t, d)' \/ Adds(t, d)') <=> (\E t \in Threads : Rests(t, d) \/ Adds(t, d))
  OBVIOUS
<1>5. ManagerOk(d, r)'
  BY <1>1, <1>3, <1>4 DEF ManagerOk
<1> QED
  BY <1>2, <1>5 DEF StreamOk

\* One thread moves.
LEMMA OneMoves ==
  ASSUME NEW t \in Threads, NEW d,
         \A s \in Threads \ {t} : pc'[s] = pc[s] /\ ctx'[s] = ctx[s],
         used' = used, d \in bulkmgrs' <=> d \in bulkmgrs
  PROVE  /\ \A s \in Threads \ {t} : (Adds(s, d)' <=> Adds(s, d)) /\ (Rests(s, d)' <=> Rests(s, d))
         /\ (Goes(t, d)' <=> Goes(t, d)) => (Ended(d)' <=> Ended(d))
<1>1. \A s \in Threads \ {t} : /\ Adds(s, d)' <=> Adds(s, d)
                               /\ Rests(s, d)' <=> Rests(s, d)
                               /\ Goes(s, d)' <=> Goes(s, d)
  BY DEF Adds, Rests, Goes
<1>2. Ended(d) <=> d \in used /\ (d \notin bulkmgrs \/ \E s \in Threads : Goes(s, d))
  BY EndedIs
<1>3. Ended(d)' <=> d \in used' /\ (d \notin bulkmgrs' \/ \E s \in Threads : Goes(s, d)')
  BY DEF Ended, Callers, Goes
<1> QED
  BY <1>1, <1>2, <1>3

\* A step of a thread in a call with another context, or at another place.
LEMMA Elsewhere ==
  ASSUME NEW t \in Threads, NEW d \in Contexts, StreamOk(d),
         \A s \in Threads \ {t} : pc'[s] = pc[s] /\ ctx'[s] = ctx[s] /\ arg'[s] = arg[s],
         used' = used, d \in bulkmgrs' <=> d \in bulkmgrs,
         Goes(t, d)' <=> Goes(t, d), ~ Adds(t, d), ~ Adds(t, d)', ~ Rests(t, d), ~ Rests(t, d)',
         buffer'[d] = buffer[d], stream'[d] = stream[d], lines'[d] = lines[d],
         mgr'[d] = mgr[d],
         mtx'[d] = None => mtx[d] = None \/ ~ HasCmd(buffer[d])
  PROVE  StreamOk(d)'
<1>1. Ended(d)' <=> Ended(d)
  BY OneMoves
<1>2. \A s \in Threads : /\ Adds(s, d)' <=> Adds(s, d)
                         /\ Rests(s, d)' <=> Rests(s, d)
                         /\ Adds(s, d) => arg'[s] = arg[s]
  BY OneMoves
<1> QED
  BY <1>1, <1>2, SameStage

\* Whoever may use a processor is before its end, and alone inside.
LEMMA InUse ==
  ASSUME IInv, NEW t \in Threads, NEW c, c = ctx[t],
         pc[t] \in {"lock to receive", "process", "add", "lock to disconnect", "rest"}
  PROVE  /\ c \in Contexts /\ c \in used /\ ~ Ended(c)
         /\ mtx[c] = None \/ pc[t] \in Inside =>
              \A s \in Threads \ {t} : ~ Adds(s, c) /\ ~ Rests(s, c)
<1>1. c \in bulkmgrs /\ c \in used /\ c \in Contexts
  BY DEF IInv, Types, ProcessorIsSafe, Using, Inside
<1>2. ASSUME NEW s \in Threads PROVE ~ Goes(s, c)
  <2>1. CASE s = t
    BY <2>1 DEF Goes
  <2>2. CASE s # t
    BY <2>2 DEF IInv, Alone, Goes, Disconnecting
  <2> QED
    BY <2>1, <2>2
<1>3. ASSUME NEW s \in Threads \ {t}, Adds(s, c) \/ Rests(s, c), mtx[c] = None \/ pc[t] \in Inside
      PROVE  FALSE
  <2>1. mtx[c] = s
    BY <1>3 DEF IInv, ProcessorIsSafe, Inside, Adds, Rests
  <2>2. pc[t] \in Inside => mtx[c] = t
    BY DEF IInv, ProcessorIsSafe
  <2>3. s # None /\ s # t
    BY AsyncAssumption
  <2> QED
    BY <1>3, <2>1, <2>2, <2>3
<1> QED
  BY <1>1, <1>2, <1>3, EndedIs

LEMMA Others ==
  ASSUME Types, \A d \in Contexts : StreamOk(d),
         NEW t \in Threads, NEW to, pc' = [pc EXCEPT ![t] = to], ctx' = ctx,
         \A s \in Threads \ {t} : arg'[s] = arg[s], UNCHANGED used,
         \A d \in Contexts \ {ctx[t]} :
           /\ d \in bulkmgrs' <=> d \in bulkmgrs
           /\ buffer'[d] = buffer[d] /\ stream'[d] = stream[d] /\ lines'[d] = lines[d]
           /\ mgr'[d] = mgr[d] /\ mtx'[d] = mtx[d]
  PROVE  \A d \in Contexts \ {ctx[t]} : StreamOk(d)'
<1> TAKE d \in Contexts \ {ctx[t]}
<1>1. \A s \in Threads \ {t} : pc'[s] = pc[s] /\ ctx'[s] = ctx[s]
  BY DEF Types
<1>2. /\ ~ Goes(t, d) /\ ~ Adds(t, d) /\ ~ Rests(t, d)
      /\ ~ Goes(t, d)' /\ ~ Adds(t, d)' /\ ~ Rests(t, d)'
  BY DEF Goes, Adds, Rests
<1> QED
  BY <1>1, <1>2, Elsewhere

\* Where no thread is between two steps, the manager has been given everything.
LEMMA NothingPending ==
  ASSUME NEW c, NEW r, ManagerOk(c, r), ~ Ended(c),
         \A s \in Threads : ~ Adds(s, c) /\ ~ Rests(s, c)
  PROVE  /\ AllEnd(r) /\ Book(mgr[c], TextsOf(r), BulkSize)
         /\ mtx[c] = None => ~ HasCmd(buffer[c])
BY DEF ManagerOk

LEMMA PushKeepsLines ==
  ASSUME IInv, LinesInv, NEW t \in Threads, Push(t), NEW c, c = ctx[t]
  PROVE  \A d \in Contexts : StreamOk(d)'
<1>1. /\ pc[t] = "lock to receive" /\ mtx[c] = None
      /\ mtx' = [mtx EXCEPT ![c] = t]
      /\ buffer' = [buffer EXCEPT ![c] = PushToBuffer(buffer[c], arg[t])]
      /\ stream' = [stream EXCEPT ![c] = stream[c] \o arg[t]]
      /\ arg' = [arg EXCEPT ![t] = None]
      /\ pc' = [pc EXCEPT ![t] = "process"]
      /\ UNCHANGED <<bulkmgrs, mgr, ctx, used, lines>>
  BY DEF Push, CanLock, Goto
<1>2. /\ c \in Contexts /\ ~ Ended(c)
      /\ \A s \in Threads \ {t} : ~ Adds(s, c) /\ ~ Rests(s, c)
  BY <1>1, InUse
<1>3. Types /\ CallsOk /\ \A d \in Contexts : StreamOk(d)
  BY DEF IInv, LinesInv
<1>4. \A d \in Contexts \ {c} : StreamOk(d)'
  <2>1. /\ \A s \in Threads \ {t} : arg'[s] = arg[s]
        /\ \A d \in Contexts \ {c} :
             /\ buffer'[d] = buffer[d] /\ stream'[d] = stream[d] /\ lines'[d] = lines[d]
             /\ mgr'[d] = mgr[d] /\ mtx'[d] = mtx[d]
    BY <1>1, <1>3 DEF CallsOk, Types
  <2> QED
    BY <1>1, <1>3, <2>1, Others
<1>5. PICK r : ReadUpTo(c, r) /\ ManagerOk(c, r)
  BY <1>2, <1>3 DEF StreamOk
<1>6. \A s \in Threads : ~ Adds(s, c) /\ ~ Rests(s, c)
  BY <1>1, <1>2 DEF Adds, Rests
<1>7. AllEnd(r) /\ Book(mgr[c], TextsOf(r), BulkSize)
  BY <1>2, <1>5, <1>6, NothingPending
<1>8. arg[t] \in Texts /\ arg[t] # <<>>
  BY <1>1, <1>3, AsyncAssumption DEF CallsOk, Texts
<1> PICK b, st : b = PushToBuffer(buffer[c], arg[t]) /\ st = stream[c] \o arg[t]
  OBVIOUS
<1>9. st \in Texts /\ b \in Seq(Texts) /\ Pieces(st) = r \o b
  <2> PICK u, s, x : u = arg[t] /\ s = stream[c] /\ x = buffer[c]
    OBVIOUS
  <2>1. /\ u \in Texts /\ u # <<>> /\ s \in Texts
        /\ r \in Seq(Texts) /\ x \in Seq(Texts) /\ Pieces(s) = r \o x
    BY <1>5, <1>8 DEF ReadUpTo
  <2>2. /\ s \o u \in Texts /\ PushToBuffer(x, u) \in Seq(Texts)
        /\ Pieces(s \o u) = r \o PushToBuffer(x, u)
    <3>1. AllEnd(r)
      BY <1>7
    <3> QED
      BY ONLY <2>1, <3>1, PushGoesOn, ZenonT(30)
  <2>3. b = PushToBuffer(x, u) /\ st = s \o u
    OBVIOUS
  <2> QED
    BY ONLY <2>2, <2>3
<1>10. /\ buffer'[c] = b /\ stream'[c] = st /\ lines'[c] = lines[c] /\ mgr'[c] = mgr[c]
       /\ mtx'[c] = t /\ t # None
  BY <1>1, <1>2, <1>3, AsyncAssumption DEF CallsOk, Types
<1>11. ReadUpTo(c, r)'
  BY <1>5, <1>9, <1>10 DEF ReadUpTo
<1>12. /\ \A s \in Threads \ {t} : pc'[s] = pc[s] /\ ctx'[s] = ctx[s]
       /\ pc'[t] = "process"
  BY <1>1, <1>3 DEF Types
<1>13. ~ Adds(t, c)' /\ ~ Rests(t, c)' /\ ~ Goes(t, c)' /\ ~ Goes(t, c)
  BY <1>1, <1>12 DEF Adds, Rests, Goes
<1>14. /\ \A s \in Threads : ~ Adds(s, c)' /\ ~ Rests(s, c)'
       /\ ~ Ended(c)'
  BY <1>1, <1>2, <1>6, <1>12, <1>13, OneMoves
<1>15. ManagerOk(c, r)'
  BY <1>7, <1>10, <1>14 DEF ManagerOk
<1>16. StreamOk(c)'
  BY <1>11, <1>15 DEF StreamOk
<1> QED
  BY <1>4, <1>16

LEMMA ReadKeepsLines ==
  ASSUME IInv, LinesInv, NEW t \in Threads, ReadCmd(t), NEW c, c = ctx[t]
  PROVE  \A d \in Contexts : StreamOk(d)'
<1>1. /\ pc[t] = "process" /\ HasCmd(buffer[c])
      /\ arg' = [arg EXCEPT ![t] = FrontCommand(c)]
      /\ buffer' = [buffer EXCEPT ![c] = Tail(buffer[c])]
      /\ lines' = [lines EXCEPT ![c] = lines[c] + 1]
      /\ pc' = [pc EXCEPT ![t] = "add"]
      /\ UNCHANGED <<bulkmgrs, mtx, mgr, ctx, used, stream>>
  BY DEF ReadCmd, Goto
<1>2. /\ c \in Contexts /\ ~ Ended(c)
      /\ \A s \in Threads \ {t} : ~ Adds(s, c) /\ ~ Rests(s, c)
  BY <1>1, InUse DEF Inside
<1>3. Types /\ CallsOk /\ \A d \in Contexts : StreamOk(d)
  BY DEF IInv, LinesInv
<1>4. \A d \in Contexts \ {c} : StreamOk(d)'
  <2>1. /\ \A s \in Threads \ {t} : arg'[s] = arg[s]
        /\ \A d \in Contexts \ {c} :
             /\ buffer'[d] = buffer[d] /\ stream'[d] = stream[d] /\ lines'[d] = lines[d]
             /\ mgr'[d] = mgr[d] /\ mtx'[d] = mtx[d]
    BY <1>1, <1>3 DEF CallsOk, Types
  <2> QED
    BY <1>1, <1>3, <2>1, Others
<1>5. PICK r : ReadUpTo(c, r) /\ ManagerOk(c, r)
  BY <1>2, <1>3 DEF StreamOk
<1>6. \A s \in Threads : ~ Adds(s, c) /\ ~ Rests(s, c)
  BY <1>1, <1>2 DEF Adds, Rests
<1>7. AllEnd(r) /\ Book(mgr[c], TextsOf(r), BulkSize)
  BY <1>2, <1>5, <1>6, NothingPending
<1> PICK b, p, a : b = buffer[c] /\ p = Head(b) /\ a = Append(r, p)
  OBVIOUS
<1>8. /\ r \in Seq(Texts) /\ b \in Seq(Texts) /\ stream[c] \in Texts
      /\ Pieces(stream[c]) = r \o b /\ lines[c] = Len(r)
  BY <1>5 DEF ReadUpTo
<1>9. b # <<>> /\ EndsLine(p)
  BY <1>1 DEF HasCmd
<1>10. /\ p \in Texts /\ Tail(b) \in Seq(Texts) /\ a \in Seq(Texts)
       /\ a \o Tail(b) = r \o b /\ Len(a) = Len(r) + 1 /\ AllEnd(a)
  BY <1>7, <1>8, <1>9, ReadOne
<1>11. FrontCommand(c) = ToCommand(LineText(p), Len(a))
  BY <1>8, <1>10 DEF FrontCommand
<1>12. /\ buffer'[c] = Tail(b) /\ stream'[c] = stream[c] /\ lines'[c] = Len(a)
       /\ mgr'[c] = mgr[c] /\ mtx'[c] = mtx[c] /\ arg'[t] = FrontCommand(c)
  BY <1>1, <1>2, <1>3, <1>8, <1>10 DEF CallsOk, Types
<1>13. mtx[c] # None
  BY <1>1, AsyncAssumption DEF IInv, ProcessorIsSafe, Inside
<1>14. ReadUpTo(c, a)'
  BY <1>8, <1>10, <1>12 DEF ReadUpTo
<1>15. /\ \A s \in Threads \ {t} : pc'[s] = pc[s] /\ ctx'[s] = ctx[s]
       /\ pc'[t] = "add" /\ ctx'[t] = c
  BY <1>1, <1>3 DEF Types
<1>16. Adds(t, c)' /\ ~ Rests(t, c)' /\ ~ Goes(t, c)' /\ ~ Goes(t, c)
  BY <1>1, <1>15 DEF Adds, Rests, Goes
<1>17. /\ \A s \in Threads : ~ Rests(s, c)' /\ (Adds(s, c)' => s = t)
       /\ ~ Ended(c)'
  BY <1>1, <1>2, <1>6, <1>15, <1>16, OneMoves
<1>18. OneToAdd(c, a)'
  <2>1. \A s \in Threads : Adds(s, c)' => arg'[s] = ToCommand(LineText(p), Len(a))
    BY <1>11, <1>12, <1>17
  <2>2. Book(mgr'[c], TextsOf(r), BulkSize)
    BY <1>7, <1>12
  <2> QED
    BY <1>8, <1>10, <2>1, <2>2 DEF OneToAdd
<1>19. ManagerOk(c, a)'
  BY <1>12, <1>13, <1>16, <1>17, <1>18 DEF ManagerOk
<1>20. StreamOk(c)'
  BY <1>14, <1>19 DEF StreamOk
<1> QED
  BY <1>4, <1>20

\* The manager is given the next line.
LEMMA BookTakes ==
  ASSUME NEW m, NEW q \in Seq(Texts), NEW p \in Texts, Book(m, TextsOf(q), BulkSize),
         NEW no, no = Len(q) + 1
  PROVE  Book(AddCmd(m, ToCommand(LineText(p), no), BulkSize), TextsOf(Append(q, p)), BulkSize)
<1>1. /\ TextsOf(q) \in Seq(Text) /\ Len(TextsOf(q)) + 1 = no
      /\ TextsOf(Append(q, p)) = Append(TextsOf(q), LineText(p))
      /\ LineText(p) \in Text /\ BulkSize \in Nat \ {0}
  BY TextsGrow, LineTextIs, AsyncAssumption
<1>2. Book(AddCmd(m, ToCommand(LineText(p), Len(TextsOf(q)) + 1), BulkSize),
           Append(TextsOf(q), LineText(p)), BulkSize)
  BY <1>1, BookGrows
<1> QED
  BY <1>1, <1>2

LEMMA AddKeepsLines ==
  ASSUME IInv, LinesInv, NEW t \in Threads, AddRead(t), NEW c, c = ctx[t]
  PROVE  \A d \in Contexts : StreamOk(d)'
<1>1. /\ pc[t] = "add"
      /\ mgr' = [mgr EXCEPT ![c] = AddCmd(mgr[c], arg[t], BulkSize)]
      /\ arg' = [arg EXCEPT ![t] = None]
      /\ pc' = [pc EXCEPT ![t] = "process"]
      /\ UNCHANGED <<bulkmgrs, mtx, buffer, ctx, used, stream, lines>>
  BY DEF AddRead, Add, Goto, histVars
<1>2. /\ c \in Contexts /\ ~ Ended(c)
      /\ \A s \in Threads \ {t} : ~ Adds(s, c) /\ ~ Rests(s, c)
  BY <1>1, InUse DEF Inside
<1>3. Types /\ CallsOk /\ \A d \in Contexts : StreamOk(d)
  BY DEF IInv, LinesInv
<1>4. \A d \in Contexts \ {c} : StreamOk(d)'
  <2>1. /\ \A s \in Threads \ {t} : arg'[s] = arg[s]
        /\ \A d \in Contexts \ {c} :
             /\ buffer'[d] = buffer[d] /\ stream'[d] = stream[d] /\ lines'[d] = lines[d]
             /\ mgr'[d] = mgr[d] /\ mtx'[d] = mtx[d]
    BY <1>1, <1>3 DEF CallsOk, Types
  <2> QED
    BY <1>1, <1>3, <2>1, Others
<1>5. PICK r : ReadUpTo(c, r) /\ ManagerOk(c, r)
  BY <1>2, <1>3 DEF StreamOk
<1>6. Adds(t, c)
  BY <1>1 DEF Adds
<1>7. OneToAdd(c, r)
  BY <1>2, <1>5, <1>6 DEF ManagerOk
<1>8. PICK q \in Seq(Texts), p \in Texts :
        /\ r = Append(q, p)
        /\ Book(mgr[c], TextsOf(q), BulkSize)
        /\ arg[t] = ToCommand(LineText(p), Len(r))
  BY <1>6, <1>7 DEF OneToAdd
<1>9. Len(r) = Len(q) + 1
  BY <1>8, AppendProperties
<1>10. Book(AddCmd(mgr[c], arg[t], BulkSize), TextsOf(r), BulkSize)
  BY <1>8, <1>9, BookTakes
<1>11. /\ buffer'[c] = buffer[c] /\ stream'[c] = stream[c] /\ lines'[c] = lines[c]
       /\ mgr'[c] = AddCmd(mgr[c], arg[t], BulkSize) /\ mtx'[c] = mtx[c]
  BY <1>1, <1>2, <1>3 DEF CallsOk, Types
<1>12. mtx[c] # None
  BY <1>1, AsyncAssumption DEF IInv, ProcessorIsSafe, Inside
<1>13. ReadUpTo(c, r)'
  BY <1>5, <1>11 DEF ReadUpTo
<1>14. /\ \A s \in Threads \ {t} : pc'[s] = pc[s] /\ ctx'[s] = ctx[s]
       /\ pc'[t] = "process"
  BY <1>1, <1>3 DEF Types
<1>15. ~ Adds(t, c)' /\ ~ Rests(t, c)' /\ ~ Goes(t, c)' /\ ~ Goes(t, c)
  BY <1>1, <1>14 DEF Adds, Rests, Goes
<1>16. /\ \A s \in Threads : ~ Rests(s, c)' /\ ~ Adds(s, c)'
       /\ ~ Ended(c)'
  BY <1>1, <1>2, <1>14, <1>15, OneMoves
<1>17. AllEnd(r)
  BY <1>7 DEF OneToAdd
<1>18. ManagerOk(c, r)'
  BY <1>10, <1>11, <1>12, <1>16, <1>17 DEF ManagerOk
<1>19. StreamOk(c)'
  BY <1>13, <1>18 DEF StreamOk
<1> QED
  BY <1>4, <1>19

LEMMA RestKeepsLines ==
  ASSUME IInv, LinesInv, NEW t \in Threads, Rest(t), NEW c, c = ctx[t]
  PROVE  \A d \in Contexts : StreamOk(d)'
<1>1. /\ pc[t] = "lock to disconnect" /\ mtx[c] = None
      /\ mtx' = [mtx EXCEPT ![c] = t]
      /\ pc' = [pc EXCEPT ![t] = "rest"]
      /\ UNCHANGED <<bulkmgrs, ctx, arg, used, stream>>
      /\ \/ /\ buffer[c] # <<>>
            /\ mgr' = [mgr EXCEPT ![c] = AddCmd(mgr[c], FrontCommand(c), BulkSize)]
            /\ buffer' = [buffer EXCEPT ![c] = Tail(buffer[c])]
            /\ lines' = [lines EXCEPT ![c] = lines[c] + 1]
         \/ /\ buffer[c] = <<>>
            /\ UNCHANGED <<mgr, buffer, lines>>
  BY DEF Rest, Add, CanLock, Goto
<1>2. /\ c \in Contexts /\ ~ Ended(c)
      /\ \A s \in Threads \ {t} : ~ Adds(s, c) /\ ~ Rests(s, c)
  BY <1>1, InUse
<1>3. Types /\ CallsOk /\ \A d \in Contexts : StreamOk(d)
  BY DEF IInv, LinesInv
<1>4. \A d \in Contexts \ {c} : StreamOk(d)'
  <2>1. \A d \in Contexts \ {c} :
          /\ buffer'[d] = buffer[d] /\ stream'[d] = stream[d] /\ lines'[d] = lines[d]
          /\ mgr'[d] = mgr[d] /\ mtx'[d] = mtx[d]
    <3>1. CASE buffer[c] = <<>>
      BY <1>1, <1>3, <3>1 DEF CallsOk, Types
    <3>2. CASE buffer[c] # <<>>
      BY <1>1, <1>3, <3>2 DEF CallsOk, Types
    <3> QED
      BY <3>1, <3>2
  <2> QED
    BY <1>1, <1>3, <2>1, Others
<1>5. PICK r : ReadUpTo(c, r) /\ ManagerOk(c, r)
  BY <1>2, <1>3 DEF StreamOk
<1>6. \A s \in Threads : ~ Adds(s, c) /\ ~ Rests(s, c)
  BY <1>1, <1>2 DEF Adds, Rests
<1>7. AllEnd(r) /\ Book(mgr[c], TextsOf(r), BulkSize) /\ ~ HasCmd(buffer[c])
  BY <1>1, <1>2, <1>5, <1>6, NothingPending
<1>8. /\ r \in Seq(Texts) /\ buffer[c] \in Seq(Texts) /\ stream[c] \in Texts
      /\ Pieces(stream[c]) = r \o buffer[c] /\ lines[c] = Len(r)
  BY <1>5 DEF ReadUpTo
<1>9. /\ \A s \in Threads \ {t} : pc'[s] = pc[s] /\ ctx'[s] = ctx[s]
      /\ pc'[t] = "rest" /\ ctx'[t] = c
  BY <1>1, <1>3 DEF Types
<1>10. ~ Adds(t, c)' /\ Rests(t, c)' /\ ~ Goes(t, c)' /\ ~ Goes(t, c)
  BY <1>1, <1>9 DEF Adds, Rests, Goes
<1>11. /\ \A s \in Threads : ~ Adds(s, c)'
       /\ ~ Ended(c)'
  BY <1>1, <1>2, <1>6, <1>9, <1>10, OneMoves
<1>12. mtx'[c] # None
  BY <1>1, <1>2, <1>3, AsyncAssumption DEF Types
<1>13. \E a : /\ ReadUpTo(c, a)'
              /\ buffer'[c] = <<>> /\ Book(mgr'[c], TextsOf(a), BulkSize)
  <2>1. CASE buffer[c] = <<>>
    <3>1. buffer'[c] = buffer[c] /\ stream'[c] = stream[c] /\ lines'[c] = lines[c] /\ mgr'[c] = mgr[c]
      BY <1>1, <2>1
    <3>2. ReadUpTo(c, r)'
      BY <1>5, <3>1 DEF ReadUpTo
    <3> QED
      BY <1>7, <2>1, <3>1, <3>2
  <2>2. CASE buffer[c] # <<>>
    <3> PICK b, p, a : b = buffer[c] /\ p = Head(b) /\ a = Append(r, p)
      OBVIOUS
    <3>1. b # <<>> /\ ~ EndsLine(p)
      BY <1>7, <2>2 DEF HasCmd
    <3>2. /\ p \in Texts /\ a \in Seq(Texts)
          /\ a \o Tail(b) = r \o b /\ Len(a) = Len(r) + 1
      BY <1>8, <3>1, ReadOne
    <3>3. Tail(b) = <<>>
      BY <1>8, <3>1, OnlyTheLast
    <3>4. FrontCommand(c) = ToCommand(LineText(p), Len(a))
      BY <1>8, <3>2 DEF FrontCommand
    <3>5. /\ buffer'[c] = Tail(b) /\ stream'[c] = stream[c] /\ lines'[c] = Len(a)
          /\ mgr'[c] = AddCmd(mgr[c], FrontCommand(c), BulkSize)
      BY <1>1, <1>2, <1>3, <1>8, <2>2, <3>2 DEF CallsOk, Types
    <3>6. Book(mgr'[c], TextsOf(a), BulkSize)
      BY <1>7, <1>8, <3>2, <3>4, <3>5, BookTakes
    <3>7. <<>> \in Seq(Texts)
      OBVIOUS
    <3>8. ReadUpTo(c, a)'
      BY <1>8, <3>2, <3>3, <3>5, <3>7 DEF ReadUpTo
    <3> QED
      BY <3>3, <3>5, <3>6, <3>8
  <2> QED
    BY <2>1, <2>2
<1>14. PICK a : /\ ReadUpTo(c, a)'
                /\ buffer'[c] = <<>> /\ Book(mgr'[c], TextsOf(a), BulkSize)
  BY <1>13
<1>15. ManagerOk(c, a)'
  BY <1>10, <1>11, <1>12, <1>14 DEF ManagerOk
<1>16. StreamOk(c)'
  BY <1>14, <1>15 DEF StreamOk
<1> QED
  BY <1>4, <1>16

LEMMA TerminateKeepsLines ==
  ASSUME IInv, LinesInv, NEW t \in Threads, Terminate(t), NEW c, c = ctx[t]
  PROVE  \A d \in Contexts : StreamOk(d)'
<1>1. /\ pc[t] = "rest"
      /\ mgr' = [mgr EXCEPT ![c] = AddCmd(mgr[c], Terminator, BulkSize)]
      /\ mtx' = [mtx EXCEPT ![c] = None]
      /\ pc' = [pc EXCEPT ![t] = "erase"]
      /\ UNCHANGED <<bulkmgrs, buffer, ctx, arg, used, stream, lines>>
  BY DEF Terminate, Add, Unlocked, Goto, histVars
<1>2. /\ c \in Contexts /\ c \in used /\ ~ Ended(c)
  BY <1>1, InUse
<1>3. Types /\ CallsOk /\ \A d \in Contexts : StreamOk(d)
  BY DEF IInv, LinesInv
<1>4. \A d \in Contexts \ {c} : StreamOk(d)'
  <2>1. \A d \in Contexts \ {c} :
          /\ buffer'[d] = buffer[d] /\ stream'[d] = stream[d] /\ lines'[d] = lines[d]
          /\ mgr'[d] = mgr[d] /\ mtx'[d] = mtx[d]
    BY <1>1, <1>3 DEF CallsOk, Types
  <2> QED
    BY <1>1, <1>3, <2>1, Others
<1>5. PICK r : ReadUpTo(c, r) /\ ManagerOk(c, r)
  BY <1>2, <1>3 DEF StreamOk
<1>6. Rests(t, c)
  BY <1>1 DEF Rests
<1>7. buffer[c] = <<>> /\ Book(mgr[c], TextsOf(r), BulkSize)
  BY <1>2, <1>5, <1>6 DEF ManagerOk
<1>8. TextsOf(r) \in Seq(Text) /\ BulkSize \in Nat \ {0}
  BY <1>5, TextsGrow, AsyncAssumption DEF ReadUpTo
<1>9. AddCmd(mgr[c], Terminator, BulkSize).sent = BulksOf(TextsOf(r), BulkSize, TRUE)
  BY <1>7, <1>8, BookSays
<1>10. /\ buffer'[c] = buffer[c] /\ stream'[c] = stream[c] /\ lines'[c] = lines[c]
       /\ mgr'[c] = AddCmd(mgr[c], Terminator, BulkSize)
  BY <1>1, <1>2, <1>3 DEF CallsOk, Types
<1>11. ReadUpTo(c, r)'
  BY <1>5, <1>10 DEF ReadUpTo
<1>12. Ended(c)'
  <2>1. pc'[t] = "erase" /\ ctx'[t] = c /\ c \in used'
    BY <1>1, <1>2, <1>3 DEF Types
  <2> QED
    BY <2>1 DEF Ended, Callers
<1>13. ManagerOk(c, r)'
  BY <1>7, <1>9, <1>10, <1>12 DEF ManagerOk
<1>14. StreamOk(c)'
  BY <1>11, <1>13 DEF StreamOk
<1> QED
  BY <1>4, <1>14

\* The steps that touch no lines.
LEMMA OtherStepsKeepLines ==
  ASSUME IInv, LinesInv, NEW t \in Threads,
         Find(t) \/ EndReceive(t) \/ EraseLock(t) \/ EraseEnd(t),
         NEW c, c = ctx[t]
  PROVE  \A d \in Contexts : StreamOk(d)'
<1>1. Types /\ CallsOk /\ \A d \in Contexts : StreamOk(d)
  BY DEF IInv, LinesInv
<1>2. /\ UNCHANGED <<buffer, stream, lines, mgr, ctx, arg, used>>
      /\ \E to : pc' = [pc EXCEPT ![t] = to]
  BY DEF Find, EndReceive, EraseLock, EraseEnd, libVars, histVars, Goto
<1>3. PICK to : pc' = [pc EXCEPT ![t] = to]
  BY <1>2
<1>4. /\ \A s \in Threads \ {t} : pc'[s] = pc[s] /\ ctx'[s] = ctx[s] /\ arg'[s] = arg[s]
      /\ pc'[t] = to
  BY <1>1, <1>2, <1>3 DEF Types
<1>5. \A d \in Contexts \ {c} : d \in bulkmgrs' <=> d \in bulkmgrs
  BY DEF Find, EndReceive, EraseLock, EraseEnd, libVars
<1>6. \A d \in Contexts \ {c} : mtx'[d] = mtx[d]
  BY <1>1 DEF Find, EndReceive, EraseLock, EraseEnd, libVars, Unlocked, Types
<1>7. \A d \in Contexts \ {c} : StreamOk(d)'
  BY <1>1, <1>2, <1>3, <1>4, <1>5, <1>6, Others
<1>8. ASSUME Find(t), c \in Contexts PROVE StreamOk(c)'
  <2>1. /\ UNCHANGED <<bulkmgrs, mtx>>
        /\ pc[t] \in {"find to receive", "find to disconnect"}
        /\ pc'[t] \in {"idle", "lock to receive", "lock to disconnect"}
    BY <1>1, <1>8 DEF Find, libVars, Goto, Types
  <2>2. /\ ~ Goes(t, c) /\ ~ Goes(t, c)' /\ ~ Adds(t, c) /\ ~ Adds(t, c)'
        /\ ~ Rests(t, c) /\ ~ Rests(t, c)'
    BY <2>1 DEF Goes, Adds, Rests
  <2> QED
    BY <1>1, <1>2, <1>4, <1>8, <2>1, <2>2, Elsewhere
<1>9. ASSUME EndReceive(t), c \in Contexts PROVE StreamOk(c)'
  <2>1. /\ UNCHANGED bulkmgrs /\ ~ HasCmd(buffer[c])
        /\ pc[t] = "process" /\ pc'[t] = "idle"
    BY <1>1, <1>9 DEF EndReceive, Goto, Types
  <2>2. /\ ~ Goes(t, c) /\ ~ Goes(t, c)' /\ ~ Adds(t, c) /\ ~ Adds(t, c)'
        /\ ~ Rests(t, c) /\ ~ Rests(t, c)'
    BY <2>1 DEF Goes, Adds, Rests
  <2> QED
    BY <1>1, <1>2, <1>4, <1>9, <2>1, <2>2, Elsewhere
<1>10. ASSUME EraseLock(t) \/ EraseEnd(t), c \in Contexts PROVE StreamOk(c)'
  <2>1. /\ mtx' = mtx /\ pc[t] \in {"erase", "join"} /\ pc'[t] \in {"join", "idle"}
        /\ c \notin bulkmgrs'
    BY <1>1, <1>10 DEF EraseLock, EraseEnd, Goto, Types, CallsOk
  <2>2. /\ ~ Adds(t, c) /\ ~ Adds(t, c)' /\ ~ Rests(t, c) /\ ~ Rests(t, c)' /\ Goes(t, c)
    BY <2>1 DEF Goes, Adds, Rests
  <2>3. c \in used /\ c \in used'
    BY <1>1, <1>2, <2>1 DEF Types
  <2>4. Ended(c) /\ Ended(c)'
    <3>1. Ended(c)
      BY <2>2, <2>3, EndedIs
    <3>2. Ended(c)'
      BY <2>1, <2>3 DEF Ended
    <3> QED
      BY <3>1, <3>2
  <2>5. \A s \in Threads : /\ Adds(s, c)' <=> Adds(s, c)
                           /\ Rests(s, c)' <=> Rests(s, c)
    BY <1>4, <2>2 DEF Adds, Rests
  <2> QED
    BY <1>1, <1>2, <1>10, <2>1, <2>4, <2>5, SameStage
<1> QED
  BY <1>7, <1>8, <1>9, <1>10

LEMMA CallsKeepLines ==
  ASSUME IInv, LinesInv, NEW t \in Threads, NEW c \in Contexts,
         \/ Connect(t, c) \/ CallDisconnect(t, c)
         \/ \E chunk \in Chunks : CallReceive(t, c, chunk)
  PROVE  \A d \in Contexts : StreamOk(d)'
<1>1. Types /\ \A d \in Contexts : StreamOk(d)
  BY DEF IInv, LinesInv
<1>2. UNCHANGED <<mtx, buffer, mgr, stream, lines>>
  BY DEF Connect, CallDisconnect, CallReceive, libVars, histVars
<1>3. ASSUME Connect(t, c), NEW d \in Contexts PROVE StreamOk(d)'
  <2>1. UNCHANGED <<pc, ctx, arg>> /\ c \notin used
        /\ used' = used \cup {c} /\ bulkmgrs' = bulkmgrs \cup {c}
    BY <1>3 DEF Connect, callVars
  <2>2. \A s \in Threads : /\ Adds(s, d)' <=> Adds(s, d)
                           /\ Rests(s, d)' <=> Rests(s, d)
                           /\ Goes(s, d)' <=> Goes(s, d)
    BY <2>1 DEF Adds, Rests, Goes
  <2>3. \A s \in Threads : Goes(s, d) => d \in used
    BY <1>1 DEF Types, Goes
  <2>4. Ended(d)' <=> Ended(d)
    <3>1. Ended(d) <=> d \in used /\ (d \notin bulkmgrs \/ \E s \in Threads : Goes(s, d))
      BY EndedIs
    <3>2. Ended(d)' <=> d \in used' /\ (d \notin bulkmgrs' \/ \E s \in Threads : Goes(s, d)')
      BY DEF Ended, Callers, Goes
    <3> QED
      BY <2>1, <2>2, <2>3, <3>1, <3>2
  <2> QED
    BY <1>1, <1>2, <2>1, <2>2, <2>4, SameStage
<1>4. ASSUME CallDisconnect(t, c) \/ \E chunk \in Chunks : CallReceive(t, c, chunk),
             NEW d \in Contexts
      PROVE  StreamOk(d)'
  <2>1. /\ UNCHANGED <<bulkmgrs, used>> /\ pc[t] = "idle"
        /\ \E to \in {"find to receive", "find to disconnect"} : pc' = [pc EXCEPT ![t] = to]
        /\ ctx' = [ctx EXCEPT ![t] = c]
        /\ arg' = arg \/ \E chunk \in Chunks : arg' = [arg EXCEPT ![t] = chunk]
    BY <1>4 DEF CallDisconnect, CallReceive, libVars, histVars, Goto
  <2>2. /\ \A s \in Threads \ {t} : pc'[s] = pc[s] /\ ctx'[s] = ctx[s] /\ arg'[s] = arg[s]
        /\ pc'[t] \in {"find to receive", "find to disconnect"}
    BY <1>1, <2>1 DEF Types
  <2>3. /\ ~ Goes(t, d) /\ ~ Goes(t, d)' /\ ~ Adds(t, d) /\ ~ Adds(t, d)'
        /\ ~ Rests(t, d) /\ ~ Rests(t, d)'
    BY <2>1, <2>2 DEF Goes, Adds, Rests
  <2> QED
    BY <1>1, <1>2, <2>1, <2>2, <2>3, Elsewhere
<1> QED
  BY <1>3, <1>4

LEMMA CallsOkKept ==
  ASSUME IInv, CallsOk, [Next]_vars
  PROVE  CallsOk'
<1>1. Types /\ buffer = [c \in Contexts |-> buffer[c]] /\ stream = [c \in Contexts |-> stream[c]]
      /\ \A t \in Threads : /\ pc[t] \in {"find to receive", "lock to receive"} => arg[t] \in Chunks
                            /\ pc[t] = "join" => ctx[t] \notin bulkmgrs
  BY DEF IInv, CallsOk
<1> DEFINE Maps == buffer' = [c \in Contexts |-> buffer'[c]] /\ stream' = [c \in Contexts |-> stream'[c]]
<1> SUFFICES Maps /\ \A t \in Threads :
               /\ pc'[t] \in {"find to receive", "lock to receive"} => arg'[t] \in Chunks
               /\ pc'[t] = "join" => ctx'[t] \notin bulkmgrs'
  BY DEF CallsOk
<1>2. ASSUME NEW t \in Threads, NEW to, pc' = [pc EXCEPT ![t] = to],
             \A s \in Threads \ {t} : arg'[s] = arg[s] /\ ctx'[s] = ctx[s],
             bulkmgrs' \subseteq bulkmgrs,
             to \in {"find to receive", "lock to receive"} => arg'[t] \in Chunks,
             to = "join" => ctx'[t] \notin bulkmgrs'
      PROVE  \A s \in Threads :
               /\ pc'[s] \in {"find to receive", "lock to receive"} => arg'[s] \in Chunks
               /\ pc'[s] = "join" => ctx'[s] \notin bulkmgrs'
  <2>1. pc'[t] = to /\ \A s \in Threads \ {t} : pc'[s] = pc[s]
    BY <1>1, <1>2 DEF Types
  <2> QED
    BY <1>1, <1>2, <2>1, ZenonT(30)
<1> DEFINE Calls == \A s \in Threads :
               /\ pc'[s] \in {"find to receive", "lock to receive"} => arg'[s] \in Chunks
               /\ pc'[s] = "join" => ctx'[s] \notin bulkmgrs'
<1>3. ASSUME NEW t \in Threads, NEW c \in Contexts, Connect(t, c) PROVE Maps /\ Calls
  <2>1. UNCHANGED <<pc, ctx, arg, buffer, stream>> /\ bulkmgrs' = bulkmgrs \cup {c} /\ c \notin used
    BY <1>3 DEF Connect, callVars
  <2>2. \A s \in Threads : pc[s] = "join" => ctx[s] # c
    BY <1>1, <2>1 DEF Types
  <2> QED
    BY <1>1, <2>1, <2>2
<1>4. ASSUME NEW t \in Threads, NEW c \in Contexts, NEW chunk \in Chunks, CallReceive(t, c, chunk)
      PROVE  Maps /\ Calls
  <2>1. /\ pc' = [pc EXCEPT ![t] = "find to receive"] /\ ctx' = [ctx EXCEPT ![t] = c]
        /\ arg' = [arg EXCEPT ![t] = chunk] /\ UNCHANGED <<buffer, stream, bulkmgrs>>
    BY <1>4 DEF CallReceive, Goto, libVars
  <2>2. arg'[t] \in Chunks /\ \A s \in Threads \ {t} : arg'[s] = arg[s] /\ ctx'[s] = ctx[s]
    BY <1>1, <2>1 DEF Types
  <2> QED
    BY <1>1, <1>2, <2>1, <2>2
<1>5. ASSUME NEW t \in Threads, NEW c \in Contexts, CallDisconnect(t, c) PROVE Maps /\ Calls
  <2>1. /\ pc' = [pc EXCEPT ![t] = "find to disconnect"] /\ ctx' = [ctx EXCEPT ![t] = c]
        /\ UNCHANGED <<arg, buffer, stream, bulkmgrs>>
    BY <1>5 DEF CallDisconnect, Goto, libVars, histVars
  <2>2. \A s \in Threads \ {t} : arg'[s] = arg[s] /\ ctx'[s] = ctx[s]
    BY <1>1, <2>1 DEF Types
  <2> QED
    BY <1>1, <1>2, <2>1, <2>2
<1>6. ASSUME NEW t \in Threads, Find(t) PROVE Maps /\ Calls
  <2>1. PICK to \in {"idle", "lock to receive", "lock to disconnect"} :
          /\ pc' = [pc EXCEPT ![t] = to]
          /\ to = "lock to receive" => pc[t] = "find to receive"
    BY <1>6 DEF Find, Goto
  <2>2. UNCHANGED <<arg, ctx, buffer, stream, bulkmgrs>>
    BY <1>6 DEF Find, libVars, histVars
  <2> QED
    BY <1>1, <1>2, <2>1, <2>2
<1>7. ASSUME NEW t \in Threads, Push(t) PROVE Maps /\ Calls
  <2>1. /\ pc' = [pc EXCEPT ![t] = "process"] /\ arg' = [arg EXCEPT ![t] = None]
        /\ UNCHANGED <<ctx, bulkmgrs>>
        /\ \E b : buffer' = [buffer EXCEPT ![ctx[t]] = b]
        /\ \E b : stream' = [stream EXCEPT ![ctx[t]] = b]
    BY <1>7 DEF Push, Goto
  <2>2. \A s \in Threads \ {t} : arg'[s] = arg[s] /\ ctx'[s] = ctx[s]
    BY <1>1, <2>1 DEF Types
  <2>3. Maps
    BY <1>1, <2>1
  <2> QED
    BY <1>2, <2>1, <2>2, <2>3
<1>8. ASSUME NEW t \in Threads, ReadCmd(t) PROVE Maps /\ Calls
  <2>1. /\ pc' = [pc EXCEPT ![t] = "add"] /\ arg' = [arg EXCEPT ![t] = FrontCommand(ctx[t])]
        /\ UNCHANGED <<ctx, bulkmgrs, stream>>
        /\ \E b : buffer' = [buffer EXCEPT ![ctx[t]] = b]
    BY <1>8 DEF ReadCmd, Goto
  <2>2. \A s \in Threads \ {t} : arg'[s] = arg[s] /\ ctx'[s] = ctx[s]
    BY <1>1, <2>1 DEF Types
  <2>3. Maps
    BY <1>1, <2>1
  <2> QED
    BY <1>2, <2>1, <2>2, <2>3
<1>9. ASSUME NEW t \in Threads, AddRead(t) PROVE Maps /\ Calls
  <2>1. /\ pc' = [pc EXCEPT ![t] = "process"] /\ arg' = [arg EXCEPT ![t] = None]
        /\ UNCHANGED <<ctx, bulkmgrs, stream, buffer>>
    BY <1>9 DEF AddRead, Goto, histVars
  <2>2. \A s \in Threads \ {t} : arg'[s] = arg[s] /\ ctx'[s] = ctx[s]
    BY <1>1, <2>1 DEF Types
  <2> QED
    BY <1>1, <1>2, <2>1, <2>2
<1>10. ASSUME NEW t \in Threads, Rest(t) PROVE Maps /\ Calls
  <2>1. /\ pc' = [pc EXCEPT ![t] = "rest"]
        /\ UNCHANGED <<ctx, arg, bulkmgrs, stream>>
        /\ buffer' = buffer \/ \E b : buffer' = [buffer EXCEPT ![ctx[t]] = b]
    BY <1>10 DEF Rest, Goto
  <2>2. Maps
    BY <1>1, <2>1
  <2> QED
    BY <1>2, <2>1, <2>2
<1>11. ASSUME NEW t \in Threads, EndReceive(t) \/ Terminate(t) \/ EraseLock(t) \/ EraseEnd(t)
       PROVE  Maps /\ Calls
  <2>1. /\ \E to \in {"idle", "erase", "join"} :
             /\ pc' = [pc EXCEPT ![t] = to]
             /\ to = "join" => ctx[t] \notin bulkmgrs'
        /\ UNCHANGED <<ctx, arg, stream, buffer>> /\ bulkmgrs' \subseteq bulkmgrs
    BY <1>11 DEF EndReceive, Terminate, EraseLock, EraseEnd, Goto, histVars
  <2>2. PICK to \in {"idle", "erase", "join"} :
             /\ pc' = [pc EXCEPT ![t] = to]
             /\ to = "join" => ctx[t] \notin bulkmgrs'
    BY <2>1
  <2>3. Maps
    BY <1>1, <2>1
  <2> QED
    BY <1>2, <2>1, <2>2, <2>3
<1>12. ASSUME UNCHANGED vars \/ \E c \in Contexts : Output(c) PROVE Maps /\ Calls
  <2>1. UNCHANGED <<pc, ctx, arg, stream, buffer, bulkmgrs>>
    BY <1>12 DEF vars, Output, PrintBulk, WriteFile, libVars, callVars, histVars
  <2> QED
    BY <1>1, <2>1
<1> QED
  BY <1>3, <1>4, <1>5, <1>6, <1>7, <1>8, <1>9, <1>10, <1>11, <1>12 DEF Next, InCall, GoingOn, NewCall

LEMMA LinesKept ==
  ASSUME IInv, LinesInv, [Next]_vars
  PROVE  LinesInv'
<1> DEFINE Ok == \A d \in Contexts : StreamOk(d)'
<1>1. CallsOk'
  BY CallsOkKept DEF LinesInv
<1>2. ASSUME NEW t \in Threads, InCall(t) PROVE Ok
  <2>1. PICK c : c = ctx[t]
    OBVIOUS
  <2> QED
    BY <1>2, <2>1, PushKeepsLines, ReadKeepsLines, AddKeepsLines, RestKeepsLines,
       TerminateKeepsLines, OtherStepsKeepLines DEF InCall, GoingOn
<1>3. ASSUME NEW t \in Threads, NEW c \in Contexts, NewCall(t, c) PROVE Ok
  BY <1>3, CallsKeepLines DEF NewCall
<1>4. ASSUME UNCHANGED vars \/ \E c \in Contexts : Output(c) PROVE Ok
  <2>1. UNCHANGED <<pc, ctx, arg, stream, buffer, bulkmgrs, used, mgr, mtx, lines>>
    BY <1>4 DEF vars, Output, PrintBulk, WriteFile, libVars, callVars, histVars
  <2> TAKE d \in Contexts
  <2>2. Ended(d)' <=> Ended(d)
    BY <2>1 DEF Ended, Callers
  <2>3. \A s \in Threads : (Adds(s, d)' <=> Adds(s, d)) /\ (Rests(s, d)' <=> Rests(s, d))
    BY <2>1 DEF Adds, Rests
  <2> QED
    BY <2>1, <2>2, <2>3, SameStage DEF LinesInv
<1>5. Ok
  BY <1>2, <1>3, <1>4 DEF Next
<1> QED
  BY <1>1, <1>5 DEF LinesInv

LEMMA LinesInit == Init => LinesInv
<1> SUFFICES ASSUME Init PROVE LinesInv
  OBVIOUS
<1>1. CallsOk
  BY DEF Init, CallsOk
<1>2. ASSUME NEW c \in Contexts PROVE StreamOk(c)
  <2>1. /\ buffer[c] = <<>> /\ stream[c] = <<>> /\ lines[c] = 0 /\ mgr[c] = NewManager
        /\ ~ Ended(c) /\ \A t \in Threads : ~ Rests(t, c) /\ ~ Adds(t, c)
    BY DEF Init, Ended, Rests, Adds
  <2>2. <<>> \in Texts /\ <<>> \in Seq(Texts) /\ Len(<<>>) = 0 /\ <<>> \o <<>> = <<>>
    BY EmptySeq, ConcatEmptySeq DEF Texts
  <2>3. Pieces(<<>>) = <<>>
    <3>1. PICK q : IsCuts(q, <<>>)
      BY <2>2, CutsExist
    <3>2. q = <<>> /\ Pieces(<<>>) \in Seq(Texts \ {<<>>}) /\ Len(Pieces(<<>>)) = Len(q)
      BY <2>2, <3>1, CutsParts, PieceParts
    <3>3. Len(Pieces(<<>>)) = 0
      BY <2>2, <3>2
    <3> QED
      BY <3>2, <3>3, EmptySeq
  <2>4. TextsOf(<<>>) = <<>>
    BY DEF TextsOf
  <2>5. Book(NewManager, <<>>, BulkSize)
    BY AsyncAssumption, BookEmpty
  <2>6. AllEnd(<<>>)
    BY DEF AllEnd
  <2>7. ReadUpTo(c, <<>>)
    BY <2>1, <2>2, <2>3 DEF ReadUpTo
  <2>8. ~ HasCmd(<<>>)
    BY DEF HasCmd
  <2>9. ManagerOk(c, <<>>)
    BY <2>1, <2>4, <2>5, <2>6, <2>8 DEF ManagerOk
  <2> QED
    BY <2>7, <2>9 DEF StreamOk
<1> QED
  BY <1>1, <1>2 DEF LinesInv

LEMMA BulksFollow == IInv /\ LinesInv => BulksByTheBook
<1> SUFFICES ASSUME IInv, LinesInv, NEW c \in Contexts, mtx[c] = None
             PROVE  mgr[c].sent = BulksOf(LinesOf(stream[c], Ended(c)), BulkSize, Ended(c))
  BY DEF BulksByTheBook
<1>1. PICK r : ReadUpTo(c, r) /\ ManagerOk(c, r)
  BY DEF LinesInv, StreamOk
<1>2. /\ r \in Seq(Texts) /\ buffer[c] \in Seq(Texts) /\ stream[c] \in Texts
      /\ Pieces(stream[c]) = r \o buffer[c]
  BY <1>1 DEF ReadUpTo
<1>3. CASE Ended(c)
  <2>1. buffer[c] = <<>> /\ mgr[c].sent = BulksOf(TextsOf(r), BulkSize, TRUE)
    BY <1>1, <1>3 DEF ManagerOk
  <2>2. LinesOf(stream[c], TRUE) = TextsOf(r)
    BY <1>2, <2>1, LinesAre
  <2>3. Ended(c) = TRUE
    BY <1>3 DEF Ended
  <2> QED
    BY <2>1, <2>2, <2>3
<1>4. CASE ~ Ended(c)
  <2>1. \A s \in Threads : ~ Adds(s, c) /\ ~ Rests(s, c)
    <3>1. \A s \in Threads : s # None
      BY AsyncAssumption
    <3> QED
      BY <3>1 DEF IInv, ProcessorIsSafe, Inside, Adds, Rests
  <2>2. AllEnd(r) /\ Book(mgr[c], TextsOf(r), BulkSize) /\ ~ HasCmd(buffer[c])
    BY <1>1, <1>4, <2>1, NothingPending
  <2>3. LinesOf(stream[c], FALSE) = TextsOf(r)
    BY <1>2, <2>2, LinesAre
  <2>4. TextsOf(r) \in Seq(Text) /\ BulkSize \in Nat \ {0}
    BY <1>2, TextsGrow, AsyncAssumption
  <2>5. mgr[c].sent = BulksOf(TextsOf(r), BulkSize, FALSE)
    BY <2>2, <2>4, BookSays
  <2>6. Ended(c) = FALSE
    BY <1>4 DEF Ended
  <2> QED
    BY <2>3, <2>5, <2>6
<1> QED
  BY <1>3, <1>4

\* Whoever brings the chunks of a context, in whatever pieces, and whatever the
\* other contexts do: its bulks are those its own stream makes by the rules.
THEOREM BulksByTheBookHolds == Spec => []BulksByTheBook
<1>1. Init => IInv /\ LinesInv
  BY Initially, LinesInit
<1>2. IInv /\ LinesInv /\ [Next]_vars => IInv' /\ LinesInv'
  BY Inductive, LinesKept
<1> QED
  BY <1>1, <1>2, BulksFollow, PTL DEF Spec
=============================================================================
