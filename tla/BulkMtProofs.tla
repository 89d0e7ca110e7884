----------------------------- MODULE BulkMtProofs -----------------------------
(***************************************************************************)
(* Theorems about bulkmt, for every size of a bulk and every input: the    *)
(* console has the bulks in order and the metrics after them, the files    *)
(* have every bulk once, main and both pools count the same commands, and  *)
(* the bulks are the ones Bulks.tla reads off the whole input.             *)
(***************************************************************************)
EXTENDS BulkMt, BulksProofs

Bulk == Seq(Nat)

Managers ==
  [handler : {"general", "custom"}, nesting : Int, cur_bulk : Bulk, sent : Seq(Bulk)]

Commands == [type : {"Base", "StartCustomBulk", "StopCustomBulk", "Terminator"}, data : Nat]
MainMetrics == [line_num : Nat, command_num : Nat, block_num : Nat]
ThreadMetrics == [command_num : Nat, block_num : Nat]
Entries == [kind : {"bulk", "file", "log", "main"}, part : Nat, data : Bulk]

Types ==
  /\ input \in Seq(Text) /\ mgr \in Managers
  /\ main_metric \in MainMetrics /\ main \in {"read", "file", "log", "print", "exit"}
  /\ queue \in [Pools -> Seq(Bulk)] /\ cur \in [Workers -> Bulk \cup {None}]
  /\ metrics \in [Workers -> ThreadMetrics]
  /\ at \in Nat /\ row \in Nat
  /\ console \in Seq(Entries) /\ bulk_files \in Seq(Bulk)

\* The bulks of a pool that its threads have taken are the first ones.
Taken(p) == Len(mgr.sent) - Len(queue[p])

QueueOk(p) ==
  /\ Taken(p) \in Nat
  /\ \A i \in 1 .. Len(queue[p]) : queue[p][i] = mgr.sent[Taken(p) + i]

\* The bulk a thread outputs, and its commands.
Busy(w) == IF cur[w] = None THEN 0 ELSE 1
Held(w) == IF cur[w] = None THEN 0 ELSE Len(cur[w])

\* The counters of the threads and what the pools have given out: x has been
\* counted, y is in the threads' hands, z was given out.
Balanced(x, y, z) ==
  /\ x["log"] + y["log"] = z["log"]
  /\ x["file1"] + x["file2"] + y["file1"] + y["file2"] = z["file"]

BlockCount == [w \in Workers |-> metrics[w].block_num]
BusyCount == [w \in Workers |-> Busy(w)]
TakenCount == [p \in Pools |-> Taken(p)]

BlocksOk ==
  /\ Balanced(BlockCount, BusyCount, TakenCount)
  /\ Len(bulk_files) = metrics["file1"].block_num + metrics["file2"].block_num

\* main counts the commands outside of blocks at once, those of a block when it ends.
Pending(m) == IF m.handler = "general" THEN Len(m.cur_bulk) ELSE 0

\* f[n] is the number of commands in the first n bulks of s.
Sums(f, s) == f[0] = 0 /\ \A n \in 1 .. Len(s) : f[n] = f[n - 1] + Len(s[n])

CommandCount == [w \in Workers |-> metrics[w].command_num]
HeldCount == [w \in Workers |-> Held(w)]
TakenCommands(f) == [p \in Pools |-> f[Taken(p)]]

CommandsOk(f) ==
  /\ Sums(f, mgr.sent)
  /\ main_metric.command_num = f[Len(mgr.sent)] + Pending(mgr)
  /\ Balanced(CommandCount, HeldCount, TakenCommands(f))

\* The line that log has begun and not ended.
Unended == IF at = 0 THEN 0 ELSE 1

LogOk ==
  /\ Cardinality(Begun(Len(console))) = metrics["log"].block_num + Unended
  /\ at > 0 => cur["log"] # None
  /\ cur["log"] # None => cur["log"] = mgr.sent[Taken("log")]

FilesOk ==
  /\ Range(bulk_files) \subseteq Range(mgr.sent)
  /\ \A w \in Threads("file") : cur[w] # None => cur[w] \in Range(mgr.sent)
  /\ \A n \in 1 .. Taken("file") :
       mgr.sent[n] \in Range(bulk_files) \/ \E w \in Threads("file") : cur[w] = mgr.sent[n]

\* How far main is, and what it found finished.
MainOk ==
  /\ main # "read" => Pending(mgr) = 0
  /\ main \in {"log", "print", "exit"} => Finished("file")
  /\ main \in {"print", "exit"} => Finished("log")

EntryOk(i) ==
  LET no == Cardinality(Begun(i)) IN
  /\ console[i].kind = "bulk" => no \in 1 .. Len(mgr.sent) /\ console[i].data = mgr.sent[no]
  /\ console[i].kind = "log" =>
       /\ no = Len(mgr.sent) /\ main \in {"log", "print", "exit"} /\ Finished("log")
       /\ \A j \in DOMAIN console : j > i => console[j].kind \in {"log", "main"}
  /\ console[i].kind = "main" => i = Len(console) /\ main = "exit"

ConsoleOk == \A i \in DOMAIN console : EntryOk(i)

Inv(f) ==
  /\ Types /\ \A p \in Pools : QueueOk(p)
  /\ BlocksOk /\ CommandsOk(f) /\ LogOk /\ FilesOk /\ MainOk /\ ConsoleOk

IInv == \E f \in [Nat -> Nat] : Inv(f)

-----------------------------------------------------------------------------
\* Sequences.

LEMMA Elements ==
  ASSUME NEW S, NEW s \in Seq(S)
  PROVE  /\ Len(s) \in Nat /\ DOMAIN s = 1 .. Len(s) /\ (s = <<>> <=> Len(s) = 0)
         /\ Range(s) \subseteq S
         /\ \A i \in 1 .. Len(s) : s[i] \in Range(s) /\ s[i] \in S
         /\ \A x \in Range(s) : \E i \in 1 .. Len(s) : s[i] = x
<1>1. Len(s) \in Nat /\ DOMAIN s = 1 .. Len(s)
  BY LenProperties
<1>2. s = <<>> <=> Len(s) = 0
  BY <1>1, EmptySeq
<1>3. \A i \in 1 .. Len(s) : s[i] \in S
  BY ElementOfSeq
<1> QED  BY <1>1, <1>2, <1>3 DEF Range

LEMMA Appended ==
  ASSUME NEW S, NEW s \in Seq(S), NEW e \in S
  PROVE  /\ Append(s, e) \in Seq(S) /\ Append(s, e) # <<>> /\ Append(s, e) # s
         /\ Len(Append(s, e)) = Len(s) + 1
         /\ Append(s, e)[Len(s) + 1] = e
         /\ \A i \in 1 .. Len(s) : Append(s, e)[i] = s[i]
         /\ Range(Append(s, e)) = Range(s) \cup {e}
<1> DEFINE a == Append(s, e)
<1>1. /\ a \in Seq(S) /\ a # <<>> /\ Len(a) = Len(s) + 1 /\ a[Len(s) + 1] = e
      /\ \A i \in 1 .. Len(s) : a[i] = s[i]
  BY AppendProperties
<1>2. Len(s) \in Nat /\ DOMAIN s = 1 .. Len(s)
  BY Elements
<1> HIDE DEF a
<1>3. DOMAIN a = 1 .. Len(s) + 1
  BY <1>1, <1>2
<1>4. a # s
  BY <1>1, <1>2
<1>5. \A i \in 1 .. Len(s) + 1 : i \in 1 .. Len(s) \/ i = Len(s) + 1
  BY <1>2
<1>6. 1 .. Len(s) \subseteq 1 .. Len(s) + 1 /\ Len(s) + 1 \in 1 .. Len(s) + 1
  BY <1>2
<1>7. Range(a) = Range(s) \cup {e}
  BY <1>1, <1>2, <1>3, <1>5, <1>6, Zenon DEF Range
<1> QED  BY <1>1, <1>4, <1>7 DEF a

-----------------------------------------------------------------------------
\* The manager: a command sends nothing or one bulk, and counts what it sends.

\* r and n are the manager and its metrics after m and metric: nothing was sent,
\* or b was, and the counter has moved by the commands that were sent or are
\* pending outside of a block.
Kept(m, metric, r, n) ==
  /\ r.sent = m.sent
  /\ \A x \in Nat : metric.command_num = x + Pending(m) => n.command_num = x + Pending(r)

Sent(m, metric, r, n, b) ==
  /\ r.sent = Append(m.sent, b)
  /\ \A x \in Nat : metric.command_num = x + Pending(m)
                      => n.command_num = x + Len(b) + Pending(r)

Handled(m, metric, r, n) ==
  /\ r \in Managers /\ n \in MainMetrics
  /\ Kept(m, metric, r, n) \/ \E b \in Bulk : Sent(m, metric, r, n, b)

LEMMA ManagerParts ==
  ASSUME NEW m \in Managers
  PROVE  /\ m.cur_bulk \in Bulk /\ m.sent \in Seq(Bulk) /\ m.nesting \in Int
         /\ m.handler \in {"general", "custom"} /\ Len(m.cur_bulk) \in Nat
         /\ m.cur_bulk = <<>> <=> Len(m.cur_bulk) = 0
         /\ Pending(m) \in Nat /\ <<>> \in Bulk
<1>1. /\ m.cur_bulk \in Bulk /\ m.sent \in Seq(Bulk) /\ m.nesting \in Int
      /\ m.handler \in {"general", "custom"} /\ <<>> \in Bulk
  BY DEF Managers, Bulk
<1>2. Len(m.cur_bulk) \in Nat /\ (m.cur_bulk = <<>> <=> Len(m.cur_bulk) = 0)
  BY <1>1, Elements DEF Bulk
<1>3. Pending(m) \in Nat
  BY <1>2 DEF Pending
<1> QED  BY <1>1, <1>2, <1>3

\* flush_data: what is sent is what was collected.
LEMMA FlushedParts ==
  ASSUME NEW m \in Managers
  PROVE  /\ Flushed(m) \in Managers /\ Flushed(m).cur_bulk = <<>>
         /\ Flushed(m).handler = m.handler /\ Pending(Flushed(m)) = 0
         /\ \/ Flushed(m).sent = m.sent /\ Len(m.cur_bulk) = 0
            \/ Flushed(m).sent = Append(m.sent, m.cur_bulk)
<1> DEFINE f == Flushed(m)
<1>1. Append(m.sent, m.cur_bulk) \in Seq(Bulk) /\ <<>> \in Bulk
  <2>1. m.sent \in Seq(Bulk) /\ m.cur_bulk \in Bulk /\ <<>> \in Bulk
    BY ManagerParts
  <2> QED  BY <2>1, AppendProperties
<1>2. /\ f \in Managers /\ f.cur_bulk = <<>> /\ f.handler = m.handler
      /\ f.sent = IF m.cur_bulk = <<>> THEN m.sent ELSE Append(m.sent, m.cur_bulk)
  <2>1. CASE m.cur_bulk = <<>>
    BY <2>1 DEF Flushed
  <2>2. CASE m.cur_bulk # <<>>
    BY <1>1, <2>2 DEF Flushed, Managers
  <2> QED  BY <2>1, <2>2
<1> HIDE DEF f
<1>3. Len(f.cur_bulk) = 0
  BY <1>2
<1>4. Pending(f) = 0
  BY <1>3 DEF Pending
<1>5. m.cur_bulk = <<>> => Len(m.cur_bulk) = 0
  OBVIOUS
<1> QED  BY <1>2, <1>4, <1>5 DEF f

LEMMA HandledKept ==
  ASSUME NEW m, NEW metric, NEW r \in Managers, NEW n \in MainMetrics,
         NEW l \in Nat, NEW k \in Nat, NEW d \in Nat,
         Pending(m) = l, metric.command_num = k, n.command_num = k + d,
         r.sent = m.sent, Pending(r) = l + d
  PROVE  Handled(m, metric, r, n)
<1>1. \A x \in Nat : k = x + l => k + d = x + (l + d)
  OBVIOUS
<1> QED  BY <1>1 DEF Handled, Kept

LEMMA HandledSent ==
  ASSUME NEW m, NEW metric, NEW r \in Managers, NEW n \in MainMetrics,
         NEW l \in Nat, NEW k \in Nat, NEW d \in Nat, NEW b \in Bulk,
         Pending(m) = l, metric.command_num = k, n.command_num = k + d,
         r.sent = Append(m.sent, b), Len(b) = l + d, Pending(r) = 0
  PROVE  Handled(m, metric, r, n)
<1>1. \A x \in Nat : k = x + l => k + d = x + (l + d) + 0
  OBVIOUS
<1> QED  BY <1>1 DEF Handled, Sent

\* GeneralStateHandler::handle_cmd, with the counter it moves.
LEMMA GeneralHandled ==
  ASSUME NEW m \in Managers, NEW metric \in MainMetrics, NEW cmd \in Commands,
         m.handler = "general"
  PROVE  Handled(m, metric, GeneralHandle(m, cmd, BulkSize), GeneralCounted(metric, cmd))
<1> DEFINE r == GeneralHandle(m, cmd, BulkSize)
           n == GeneralCounted(metric, cmd)
           p == Pushed(m, cmd)
           f == Flushed(m)
           l == Len(m.cur_bulk)
<1>0. cmd.type \in {"Base", "StartCustomBulk", "StopCustomBulk", "Terminator"}
  BY DEF Commands
<1>1. Pending(m) = l /\ l \in Nat /\ metric.command_num \in Nat /\ metric.block_num \in Nat
  BY ManagerParts DEF Pending, MainMetrics
<1>2. p \in Managers /\ p.sent = m.sent /\ p.handler = "general" /\ Len(p.cur_bulk) = l + 1
  <2>1. Append(m.cur_bulk, cmd.data) \in Bulk /\ Len(Append(m.cur_bulk, cmd.data)) = l + 1
    <3>1. m.cur_bulk \in Seq(Nat) /\ cmd.data \in Nat
      BY ManagerParts DEF Commands, Bulk
    <3> QED  BY <3>1, AppendProperties DEF Bulk
  <2>2. p = [m EXCEPT !.cur_bulk = Append(m.cur_bulk, cmd.data)]
    BY DEF Pushed
  <2> HIDE DEF p
  <2> QED  BY <2>1, <2>2 DEF Managers
<1>3. /\ f \in Managers /\ f.handler = "general" /\ Pending(f) = 0
      /\ (f.sent = m.sent /\ l = 0) \/ f.sent = Append(m.sent, m.cur_bulk)
  BY FlushedParts
<1>4. m.cur_bulk \in Bulk
  BY ManagerParts
<1> HIDE DEF p, f, l
<1>5. CASE cmd.type = "Base"
  <2>1. n \in MainMetrics /\ n.command_num = metric.command_num + 1
    <3>1. n = [metric EXCEPT !.command_num = @ + 1, !.block_num = IF @ = 0 THEN 1 ELSE @]
      BY <1>5 DEF GeneralCounted
    <3> HIDE DEF n
    <3>2. metric.command_num + 1 \in Nat /\ (IF metric.block_num = 0 THEN 1 ELSE metric.block_num) \in Nat
      BY <1>1
    <3> QED  BY <3>1, <3>2 DEF MainMetrics
  <2>2. r \in {Flushed(p), p} /\ Len(p.cur_bulk) # 0 /\ p.cur_bulk \in Bulk /\ Pending(p) = l + 1
    <3>1. r \in {Flushed(p), p}
      BY <1>5 DEF GeneralHandle, p
    <3>2. Len(p.cur_bulk) # 0
      BY <1>1, <1>2
    <3> QED  BY <1>2, <3>1, <3>2, ManagerParts DEF Pending
  <2> HIDE DEF n, r
  <2>3. r = p => Handled(m, metric, r, n)
    BY <1>1, <1>2, <2>1, <2>2, HandledKept
  <2>4. r = Flushed(p) => Handled(m, metric, r, n)
    <3>1. r = Flushed(p) => r \in Managers /\ r.sent = Append(m.sent, p.cur_bulk) /\ Pending(r) = 0
      BY <1>2, <2>2, FlushedParts
    <3> QED  BY <1>1, <1>2, <2>1, <2>2, <3>1, HandledSent
  <2> QED  BY <2>2, <2>3, <2>4 DEF r, n
<1>6. ASSUME NEW t \in Managers, t.sent = f.sent, Pending(t) = 0,
             NEW k \in MainMetrics, k.command_num = metric.command_num
      PROVE  Handled(m, metric, t, k)
  <2>1. k.command_num = metric.command_num + 0 /\ l = l + 0 /\ 0 \in Nat
    BY <1>1, <1>6
  <2>2. CASE f.sent = m.sent /\ l = 0
    BY <1>1, <1>6, <2>1, <2>2, HandledKept
  <2>3. CASE f.sent = Append(m.sent, m.cur_bulk)
    BY <1>1, <1>4, <1>6, <2>1, <2>3, HandledSent DEF l
  <2> QED  BY <1>3, <2>2, <2>3
<1>7. CASE cmd.type = "StartCustomBulk"
  <2>1. r = [f EXCEPT !.handler = "custom", !.nesting = @ + 1]
    BY <1>7 DEF GeneralHandle, f
  <2>2. n = [metric EXCEPT !.block_num = @ + 1]
    BY <1>7 DEF GeneralCounted
  <2> HIDE DEF r, n
  <2>3. n \in MainMetrics /\ n.command_num = metric.command_num
    <3>1. metric.block_num + 1 \in Nat
      BY <1>1
    <3> QED  BY <2>2, <3>1 DEF MainMetrics
  <2>4. r \in Managers /\ r.sent = f.sent /\ r.handler = "custom"
    <3>1. f.nesting + 1 \in Int
      BY <1>3, ManagerParts
    <3> QED  BY <1>3, <2>1, <3>1 DEF Managers
  <2>5. Pending(r) = 0
    BY <2>4 DEF Pending
  <2> QED  BY <1>6, <2>3, <2>4, <2>5 DEF r, n
<1>8. CASE cmd.type = "StopCustomBulk"
  <2>1. r = m /\ n = metric
    BY <1>8 DEF GeneralHandle, GeneralCounted
  <2> QED  BY <2>1 DEF Handled, Kept
<1>9. CASE cmd.type = "Terminator"
  <2>1. r = f /\ n = metric
    BY <1>9 DEF GeneralHandle, GeneralCounted, f
  <2> QED  BY <1>3, <1>6, <2>1
<1> QED  BY <1>0, <1>5, <1>7, <1>8, <1>9

\* CustomStateHandler::handle_cmd, with the counter it moves.
LEMMA CustomHandled ==
  ASSUME NEW m \in Managers, NEW metric \in MainMetrics, NEW cmd \in Commands,
         m.handler # "general"
  PROVE  Handled(m, metric, CustomHandle(m, cmd), CustomCounted(metric, m, cmd))
<1> DEFINE r == CustomHandle(m, cmd)
           n == CustomCounted(metric, m, cmd)
           p == [m EXCEPT !.nesting = @ - 1]
           f == Flushed(p)
           g == [f EXCEPT !.handler = "general"]
           l == Len(m.cur_bulk)
<1>1. cmd.type \in {"Base", "StartCustomBulk", "StopCustomBulk", "Terminator"}
  BY DEF Commands
<1>2. /\ Pending(m) = 0 /\ l \in Nat /\ metric.command_num \in Nat
      /\ m.cur_bulk \in Bulk /\ <<>> \in Bulk
  BY ManagerParts DEF Pending, MainMetrics
<1>3. ASSUME NEW t \in Managers, t.sent = m.sent, t.handler = m.handler
      PROVE  Handled(m, metric, t, metric)
  <2>1. Pending(t) = 0
    BY <1>3 DEF Pending
  <2>2. 0 \in Nat /\ 0 = 0 + 0 /\ metric.command_num = metric.command_num + 0
    BY <1>2
  <2> QED  BY <1>2, <1>3, <2>1, <2>2, HandledKept
<1>4. p \in Managers /\ p.sent = m.sent /\ p.handler = m.handler /\ p.cur_bulk = m.cur_bulk
  <2>1. m.nesting - 1 \in Int
    BY ManagerParts
  <2> QED  BY <2>1 DEF Managers
<1> HIDE DEF p
<1>5. CASE cmd.type = "Base"
  <2>1. r = [m EXCEPT !.cur_bulk = Append(@, cmd.data)] /\ n = metric
    BY <1>5 DEF CustomHandle, CustomCounted, Pushed
  <2>2. Append(m.cur_bulk, cmd.data) \in Bulk
    BY <1>2, AppendProperties DEF Bulk, Commands
  <2> HIDE DEF r, n
  <2>3. r \in Managers /\ r.sent = m.sent /\ r.handler = m.handler
    BY <2>1, <2>2 DEF Managers
  <2> QED  BY <1>3, <2>1, <2>3 DEF r, n
<1>6. CASE cmd.type = "StartCustomBulk"
  <2>1. r = [m EXCEPT !.nesting = @ + 1] /\ n = metric
    BY <1>6 DEF CustomHandle, CustomCounted
  <2> HIDE DEF r, n
  <2>2. m.nesting + 1 \in Int
    BY ManagerParts
  <2>3. r \in Managers /\ r.sent = m.sent /\ r.handler = m.handler
    BY <2>1, <2>2 DEF Managers
  <2> QED  BY <1>3, <2>1, <2>3 DEF r, n
<1>7. CASE cmd.type = "StopCustomBulk" /\ ~Outermost(m)
  <2>1. r = p /\ n = metric
    BY <1>7 DEF CustomHandle, CustomCounted, p
  <2> QED  BY <1>3, <1>4, <2>1
<1>8. CASE cmd.type = "StopCustomBulk" /\ Outermost(m)
  <2>1. r = g
    BY <1>8 DEF CustomHandle, p
  <2>2. n = [metric EXCEPT !.command_num = @ + l]
    BY <1>8 DEF CustomCounted
  <2>3. /\ f \in Managers /\ f.cur_bulk = <<>>
        /\ (f.sent = m.sent /\ l = 0) \/ f.sent = Append(m.sent, m.cur_bulk)
    BY <1>4, FlushedParts
  <2> HIDE DEF r, n, f, l
  <2>4. g \in Managers /\ g.sent = f.sent /\ Pending(g) = 0
    <3>1. g \in Managers /\ g.sent = f.sent /\ g.cur_bulk = <<>>
      BY <2>3 DEF Managers
    <3>2. Len(g.cur_bulk) = 0
      BY <3>1
    <3> QED  BY <3>1, <3>2 DEF Pending
  <2>5. n \in MainMetrics /\ n.command_num = metric.command_num + l
    <3>1. metric.command_num + l \in Nat
      BY <1>2
    <3> QED  BY <2>2, <3>1 DEF MainMetrics
  <2>6. 0 \in Nat /\ 0 + l = l
    BY <1>2
  <2> HIDE DEF g
  <2>7. f.sent = m.sent /\ l = 0 => Handled(m, metric, g, n)
    BY <1>2, <2>4, <2>5, <2>6, HandledKept
  <2>8. f.sent = Append(m.sent, m.cur_bulk) => Handled(m, metric, g, n)
    BY <1>2, <2>4, <2>5, <2>6, HandledSent DEF l
  <2> QED  BY <2>1, <2>3, <2>7, <2>8 DEF r, n
<1>9. CASE cmd.type = "Terminator"
  <2>1. r = [m EXCEPT !.cur_bulk = <<>>] /\ n = metric
    BY <1>9 DEF CustomHandle, CustomCounted
  <2> HIDE DEF r, n
  <2>2. r \in Managers /\ r.sent = m.sent /\ r.handler = m.handler
    BY <1>2, <2>1 DEF Managers
  <2> QED  BY <1>3, <2>1, <2>2 DEF r, n
<1> QED  BY <1>1, <1>5, <1>6, <1>7, <1>8, <1>9

\* notify: the part of u that s lacks is empty, or the one bulk that was appended.
LEMMA NewBulks ==
  ASSUME NEW s \in Seq(Bulk)
  PROVE  /\ SubSeq(s, Len(s) + 1, Len(s)) = <<>>
         /\ \A b \in Bulk : SubSeq(Append(s, b), Len(s) + 1, Len(Append(s, b))) = <<b>>
<1>1. Len(s) \in Nat
  BY LenProperties
<1>2. SubSeq(s, Len(s) + 1, Len(s)) = <<>>
  BY <1>1, SubSeqEmpty
<1>3. ASSUME NEW b \in Bulk
      PROVE  SubSeq(Append(s, b), Len(s) + 1, Len(Append(s, b))) = <<b>>
  <2> DEFINE a == Append(s, b)
             k == Len(s) + 1
  <2>1. a \in Seq(Bulk) /\ Len(a) = k /\ a[k] = b
    BY AppendProperties
  <2> HIDE DEF a
  <2>2. k \in 1 .. Len(a) /\ k \in k .. Len(a) /\ k \in Int /\ k + 1 \in Int /\ k + 1 > k
    BY <1>1, <2>1
  <2>3. SubSeq(a, k, k) = <<a[k]>> \o SubSeq(a, k + 1, k) /\ SubSeq(a, k + 1, k) = <<>>
    BY <2>1, <2>2, SubSeqRecursiveFirst, SubSeqEmpty
  <2>4. <<b>> \in Seq(Bulk)
    OBVIOUS
  <2> HIDE DEF k
  <2>5. SubSeq(a, k, k) = <<b>>
    BY <2>1, <2>3, <2>4, ConcatEmptySeq
  <2> QED  BY <2>1, <2>5 DEF a, k
<1> QED  BY <1>2, <1>3

\* Add: the manager and its counter move together, and what was sent is queued
\* for both pools.
LEMMA AddDoes ==
  ASSUME Types, NEW cmd \in Commands, Add(cmd)
  PROVE  /\ mgr' \in Managers /\ main_metric' \in MainMetrics
         /\ \/ Kept(mgr, main_metric, mgr', main_metric') /\ queue' = queue
            \/ \E b \in Bulk : /\ Sent(mgr, main_metric, mgr', main_metric', b)
                               /\ queue' = [p \in Pools |-> Append(queue[p], b)]
<1> DEFINE more == IF cmd.type = "Terminator" THEN 0 ELSE 1
           counted == [main_metric EXCEPT !.line_num = @ + more]
           bulks == SubSeq(mgr'.sent, Len(mgr.sent) + 1, Len(mgr'.sent))
<1>1. mgr \in Managers /\ main_metric \in MainMetrics /\ queue \in [Pools -> Seq(Bulk)]
  BY DEF Types
<1>2. counted \in MainMetrics /\ counted.command_num = main_metric.command_num
  <2>1. main_metric.line_num + more \in Nat
    <3>1. main_metric.line_num \in Nat /\ more \in {0, 1}
      BY <1>1 DEF MainMetrics
    <3> HIDE DEF more
    <3> QED  BY <3>1
  <2> HIDE DEF more
  <2> QED  BY <1>1, <2>1 DEF MainMetrics
<1>3. Handled(mgr, counted, mgr', main_metric')
  <2>1. mgr.handler = "general"
          => mgr' = GeneralHandle(mgr, cmd, BulkSize) /\ main_metric' = GeneralCounted(counted, cmd)
    BY DEF Add, AddCmd
  <2>2. mgr.handler # "general"
          => mgr' = CustomHandle(mgr, cmd) /\ main_metric' = CustomCounted(counted, mgr, cmd)
    BY DEF Add, AddCmd
  <2> HIDE DEF counted
  <2> QED  BY <1>1, <1>2, <2>1, <2>2, GeneralHandled, CustomHandled
<1>4. queue' = [p \in Pools |-> queue[p] \o bulks]
  BY DEF Add
<1>5. mgr.sent \in Seq(Bulk) /\ \A p \in Pools : queue[p] \in Seq(Bulk)
  BY <1>1, ManagerParts
<1> HIDE DEF counted
<1>6. CASE Kept(mgr, counted, mgr', main_metric')
  <2>1. mgr'.sent = mgr.sent
    BY <1>6 DEF Kept
  <2>2. bulks = <<>>
    BY <1>5, <2>1, NewBulks
  <2> HIDE DEF bulks
  <2>3. \A p \in Pools : queue[p] \o bulks = queue[p]
    BY <1>5, <2>2, ConcatEmptySeq
  <2>4. queue' = queue
    BY <1>1, <1>4, <2>3
  <2> QED  BY <1>2, <1>3, <1>6, <2>4 DEF Handled, Kept
<1>7. ASSUME NEW b \in Bulk, Sent(mgr, counted, mgr', main_metric', b)
      PROVE  /\ Sent(mgr, main_metric, mgr', main_metric', b)
             /\ queue' = [p \in Pools |-> Append(queue[p], b)]
  <2>1. mgr'.sent = Append(mgr.sent, b)
    BY <1>7 DEF Sent
  <2>2. bulks = <<b>>
    BY <1>5, <2>1, NewBulks
  <2> HIDE DEF bulks
  <2>3. \A p \in Pools : queue[p] \o bulks = Append(queue[p], b)
    BY <1>5, <2>2, AppendIsConcat
  <2>4. queue' = [p \in Pools |-> Append(queue[p], b)]
    BY <1>4, <2>3
  <2> QED  BY <1>2, <1>7, <2>4 DEF Sent
<1> QED  BY <1>3, <1>6, <1>7 DEF Handled

\* The end of the input sends what is pending, and nothing of an open block.
LEMMA NothingPending ==
  ASSUME NEW m \in Managers PROVE Pending(AddCmd(m, Terminator, BulkSize)) = 0
<1> DEFINE r == AddCmd(m, Terminator, BulkSize)
<1>1. CASE m.handler = "general"
  <2>1. r = Flushed(m)
    BY <1>1 DEF AddCmd, GeneralHandle, Terminator
  <2> QED  BY <2>1, FlushedParts
<1>2. CASE m.handler # "general"
  <2>1. r = [m EXCEPT !.cur_bulk = <<>>]
    BY <1>2 DEF AddCmd, CustomHandle, Terminator
  <2> HIDE DEF r
  <2>2. r.handler # "general"
    BY <1>2, <2>1 DEF Managers
  <2> QED  BY <2>2 DEF Pending, r
<1> QED  BY <1>1, <1>2

-----------------------------------------------------------------------------
\* Every step keeps the invariant: main adds a command.

LEMMA Parts ==
  ASSUME Types
  PROVE  /\ mgr.sent \in Seq(Bulk) /\ Len(mgr.sent) \in Nat
         /\ \A p \in Pools : queue[p] \in Seq(Bulk) /\ Len(queue[p]) \in Nat
         /\ \A w \in Workers : Busy(w) \in {0, 1} /\ Held(w) \in Nat
                               /\ metrics[w].command_num \in Nat /\ metrics[w].block_num \in Nat
<1>1. mgr.sent \in Seq(Bulk)
  BY ManagerParts DEF Types
<1>2. \A p \in Pools : queue[p] \in Seq(Bulk)
  BY DEF Types
<1>3. ASSUME NEW w \in Workers
      PROVE  /\ Busy(w) \in {0, 1} /\ Held(w) \in Nat
             /\ metrics[w].command_num \in Nat /\ metrics[w].block_num \in Nat
  <2>1. cur[w] # None => Len(cur[w]) \in Nat
    BY LenProperties DEF Types, Bulk
  <2>2. metrics[w] \in ThreadMetrics
    BY DEF Types
  <2> QED  BY <2>1, <2>2 DEF Busy, Held, ThreadMetrics
<1> QED  BY <1>1, <1>2, <1>3, LenProperties

\* A bulk that is sent goes to the end of both queues.
LEMMA QueuesGrow ==
  ASSUME Types, \A p \in Pools : QueueOk(p), NEW b \in Bulk,
         mgr'.sent = Append(mgr.sent, b), queue' = [p \in Pools |-> Append(queue[p], b)]
  PROVE  /\ queue' \in [Pools -> Seq(Bulk)]
         /\ \A p \in Pools : QueueOk(p)' /\ Taken(p)' = Taken(p) /\ Taken(p) \in 0 .. Len(mgr.sent)
<1>1. ASSUME NEW p \in Pools
      PROVE  /\ queue'[p] \in Seq(Bulk) /\ QueueOk(p)'
             /\ Taken(p)' = Taken(p) /\ Taken(p) \in 0 .. Len(mgr.sent)
  <2> DEFINE s == mgr.sent
             q == queue[p]
             k == Len(s)
             l == Len(q)
             t == Taken(p)
  <2>1. s \in Seq(Bulk) /\ q \in Seq(Bulk) /\ k \in Nat /\ l \in Nat
    BY Parts
  <2>2. t = k - l /\ t \in Nat /\ \A i \in 1 .. l : q[i] = s[t + i]
    BY DEF QueueOk, Taken
  <2>3. queue'[p] = Append(q, b)
    OBVIOUS
  <2> HIDE DEF s, q, t, k, l
  <2>4. /\ Append(s, b) \in Seq(Bulk) /\ Len(Append(s, b)) = k + 1 /\ Append(s, b)[k + 1] = b
        /\ \A i \in 1 .. k : Append(s, b)[i] = s[i]
    BY <2>1, Appended DEF k
  <2>5. /\ Append(q, b) \in Seq(Bulk) /\ Len(Append(q, b)) = l + 1 /\ Append(q, b)[l + 1] = b
        /\ \A i \in 1 .. l : Append(q, b)[i] = q[i]
    BY <2>1, Appended DEF l
  <2>6. Taken(p)' = t
    <3>1. Taken(p)' = Len(Append(s, b)) - Len(Append(q, b))
      BY <2>3 DEF Taken, s
    <3> QED  BY <2>1, <2>2, <2>4, <2>5, <3>1
  <2>7. ASSUME NEW i \in 1 .. l + 1 PROVE Append(q, b)[i] = Append(s, b)[t + i]
    <3>1. CASE i = l + 1
      <4>1. t + i = k + 1
        BY <2>1, <2>2, <3>1
      <4> QED  BY <2>4, <2>5, <3>1, <4>1
    <3>2. CASE i # l + 1
      <4>1. i \in 1 .. l /\ t + i \in 1 .. k
        BY <2>1, <2>2, <3>2
      <4> QED  BY <2>2, <2>4, <2>5, <4>1
    <3> QED  BY <3>1, <3>2
  <2>8. QueueOk(p)'
    <3>1. \A i \in 1 .. Len(queue'[p]) : queue'[p][i] = mgr'.sent[Taken(p)' + i]
      BY <2>3, <2>5, <2>6, <2>7 DEF s
    <3> QED  BY <2>2, <2>6, <3>1 DEF QueueOk
  <2>9. t \in 0 .. k
    BY <2>1, <2>2
  <2> QED  BY <2>3, <2>5, <2>6, <2>8, <2>9 DEF t, k, s
<1> QED  BY <1>1

\* The running total goes on with the commands of the bulk.
LEMMA SumsGrow ==
  ASSUME NEW f \in [Nat -> Nat], NEW s \in Seq(Bulk), Sums(f, s), NEW b \in Bulk
  PROVE  \E e \in [Nat -> Nat] :
           /\ Sums(e, Append(s, b)) /\ \A n \in 0 .. Len(s) : e[n] = f[n]
           /\ e[Len(Append(s, b))] = f[Len(s)] + Len(b)
<1> DEFINE k == Len(s)
           e == [f EXCEPT ![k + 1] = f[k] + Len(b)]
           a == Append(s, b)
<1>1. k \in Nat /\ Len(b) \in Nat
  BY LenProperties DEF Bulk
<1>2. a \in Seq(Bulk) /\ Len(a) = k + 1 /\ a[k + 1] = b /\ \A i \in 1 .. k : a[i] = s[i]
  BY Appended
<1> HIDE DEF a, k
<1>3. /\ e \in [Nat -> Nat] /\ e[k + 1] = f[k] + Len(b)
      /\ \A n \in Nat : n # k + 1 => e[n] = f[n]
  <2>1. k + 1 \in Nat
    BY <1>1
  <2> DEFINE x == f[k]
             y == Len(b)
  <2>2. x \in Nat /\ y \in Nat
    BY <1>1
  <2> HIDE DEF x, y
  <2>3. x + y \in Nat
    BY <2>2
  <2> QED  BY <2>1, <2>3 DEF x, y
<1> HIDE DEF e
<1>4. \A n \in 0 .. k : e[n] = f[n]
  BY <1>1, <1>3
<1>5. ASSUME NEW n \in 1 .. k + 1 PROVE e[n] = e[n - 1] + Len(a[n])
  <2>1. CASE n = k + 1
    <3>1. n - 1 = k /\ k \in 0 .. k
      BY <1>1, <2>1
    <3> QED  BY <1>2, <1>3, <1>4, <2>1, <3>1
  <2>2. CASE n # k + 1
    <3>1. n \in 1 .. k /\ n \in 0 .. k /\ n - 1 \in 0 .. k
      BY <1>1, <2>2
    <3> QED  BY <1>2, <1>4, <3>1 DEF Sums, k
  <2> QED  BY <2>1, <2>2
<1>6. e[0] = 0
  BY <1>1, <1>4 DEF Sums
<1>7. Sums(e, a)
  BY <1>2, <1>5, <1>6 DEF Sums
<1> QED  BY <1>2, <1>3, <1>4, <1>7 DEF a, k

LEMMA TakenBounds ==
  ASSUME Types, \A p \in Pools : QueueOk(p), BlocksOk
  PROVE  /\ \A p \in Pools : Taken(p) \in 0 .. Len(mgr.sent)
         /\ cur["log"] # None => Taken("log") \in 1 .. Len(mgr.sent)
         /\ metrics["log"].block_num \in 0 .. Len(mgr.sent)
<1>1. ASSUME NEW p \in Pools PROVE Taken(p) \in 0 .. Len(mgr.sent)
  <2>1. Len(mgr.sent) \in Nat /\ Len(queue[p]) \in Nat /\ Taken(p) \in Nat
    BY Parts DEF QueueOk
  <2> DEFINE x == Len(mgr.sent)
             y == Len(queue[p])
  <2>2. x \in Nat /\ y \in Nat /\ x - y \in Nat /\ Taken(p) = x - y
    BY <2>1 DEF Taken
  <2> HIDE DEF x, y
  <2>3. x - y \in 0 .. x
    BY <2>2
  <2> QED  BY <2>2, <2>3 DEF x
<1> DEFINE n == metrics["log"].block_num
           t == Taken("log")
           d == Busy("log")
           k == Len(mgr.sent)
<1>2. t \in 0 .. k /\ k \in Nat
  BY <1>1, Parts DEF Pools
<1>3. n \in Nat /\ d \in {0, 1} /\ n + d = t
  <2>1. "log" \in Workers /\ "log" \in Pools
    BY DEF Workers, Pools
  <2>2. BlockCount["log"] = n /\ BusyCount["log"] = d /\ TakenCount["log"] = t
    BY <2>1, Zenon DEF BlockCount, BusyCount, TakenCount
  <2> QED  BY <2>1, <2>2, Parts, Zenon DEF BlocksOk, Balanced
<1>4. cur["log"] # None => d = 1
  BY DEF Busy
<1> HIDE DEF n, t, d, k
<1>5. d = 1 => t \in 1 .. k
  BY <1>2, <1>3
<1>6. n \in 0 .. k
  BY <1>2, <1>3
<1> QED  BY <1>1, <1>4, <1>5, <1>6 DEF n, t, k

\* Until the thread log has left, neither its metrics nor main's are printed.
LEMMA OnlyBulks ==
  ASSUME Types, ConsoleOk, MainOk, main = "read" \/ ~Finished("log")
  PROVE  \A i \in DOMAIN console : console[i].kind # "log" /\ console[i].kind # "main"
BY DEF ConsoleOk, EntryOk, MainOk

LEMMA AddKept ==
  ASSUME NEW f \in [Nat -> Nat], Inv(f), NEW cmd \in Commands, Add(cmd), main = "read",
         main' \in {"read", "file"}, main' # "read" => Pending(mgr') = 0,
         input' \in Seq(Text), UNCHANGED <<cur, metrics, at, row, console, bulk_files>>
  PROVE  \E e \in [Nat -> Nat] : Inv(e)'
<1> DEFINE S == mgr.sent
<1>1. /\ Types /\ (\A p \in Pools : QueueOk(p)) /\ BlocksOk /\ CommandsOk(f)
      /\ LogOk /\ FilesOk /\ MainOk /\ ConsoleOk
  BY DEF Inv
<1>2. /\ mgr' \in Managers /\ main_metric' \in MainMetrics
      /\ \/ Kept(mgr, main_metric, mgr', main_metric') /\ queue' = queue
         \/ \E b \in Bulk : /\ Sent(mgr, main_metric, mgr', main_metric', b)
                            /\ queue' = [p \in Pools |-> Append(queue[p], b)]
  BY <1>1, AddDoes
<1>3. S \in Seq(Bulk) /\ Len(S) \in Nat
  BY <1>1, Parts
<1>4. ASSUME NEW e \in [Nat -> Nat], NEW b \in Bulk \cup {None}, Sums(e, mgr'.sent),
             queue' \in [Pools -> Seq(Bulk)], \A p \in Pools : QueueOk(p)' /\ Taken(p)' = Taken(p),
             \A n \in 0 .. Len(S) : e[n] = f[n],
             main_metric'.command_num = e[Len(mgr'.sent)] + Pending(mgr'),
             \A n \in 1 .. Len(S) : n \in 1 .. Len(mgr'.sent) /\ mgr'.sent[n] = S[n],
             Range(S) \subseteq Range(mgr'.sent)
      PROVE  Inv(e)'
  <2>1. Types'
    BY <1>1, <1>2, <1>4 DEF Types
  <2>2. \A w \in Workers : Busy(w)' = Busy(w) /\ Held(w)' = Held(w)
    BY DEF Busy, Held
  <2>3. \A p \in Pools : Taken(p) \in 0 .. Len(S)
    BY <1>1, TakenBounds
  <2>4. "log" \in Pools /\ "file" \in Pools /\ {"log", "file1", "file2"} = Workers
    BY DEF Pools, Workers
  <2>5. BlocksOk'
    <3>1. BusyCount' = BusyCount /\ TakenCount' = TakenCount
      BY <1>4, <2>2 DEF BusyCount, TakenCount
    <3> QED  BY <1>1, <3>1 DEF BlocksOk, BlockCount
  <2>6. HeldCount' = HeldCount /\ TakenCommands(e)' = TakenCommands(f)
    BY <1>4, <2>2, <2>3 DEF HeldCount, TakenCommands
  <2>7. CommandsOk(e)'
    BY <1>1, <1>4, <2>6 DEF CommandsOk, CommandCount
  <2>8. \A i : Begun(i)' = Begun(i)
    BY DEF Begun
  <2>9. LogOk'
    <3>1. cur["log"] # None => mgr'.sent[Taken("log")] = S[Taken("log")]
      BY <1>1, <1>4, TakenBounds
    <3> QED  BY <1>1, <1>4, <2>4, <2>8, <3>1 DEF LogOk, Unended
  <2>10. FilesOk'
    <3> DEFINE t == Taken("file")
    <3>0. t \in 0 .. Len(S)
      BY <2>3, <2>4
    <3>1. ASSUME NEW n \in 1 .. t
          PROVE  mgr'.sent[n] \in Range(bulk_files) \/ \E w \in Threads("file") : cur[w] = mgr'.sent[n]
      <4>1. n \in 1 .. Len(S)
        <5> HIDE DEF t, S
        <5> QED  BY <1>3, <3>0
      <4> QED  BY <1>1, <1>4, <4>1 DEF FilesOk
    <3> QED  BY <1>1, <1>4, <2>4, <3>1 DEF FilesOk
  <2>11. MainOk'
    BY DEF MainOk
  <2>12. ConsoleOk'
    <3>1. ASSUME NEW i \in DOMAIN console PROVE EntryOk(i)'
      <4>1. console[i].kind # "log" /\ console[i].kind # "main"
        BY <1>1, <3>1, OnlyBulks
      <4>2. console[i].kind = "bulk"
              => Cardinality(Begun(i)) \in 1 .. Len(S)
                 /\ console[i].data = S[Cardinality(Begun(i))]
        BY <1>1, <3>1 DEF ConsoleOk, EntryOk
      <4> QED  BY <1>4, <2>8, <4>1, <4>2 DEF EntryOk
    <3> QED  BY <3>1 DEF ConsoleOk
  <2> QED  BY <1>4, <2>1, <2>5, <2>7, <2>9, <2>10, <2>11, <2>12 DEF Inv
<1>5. CASE Kept(mgr, main_metric, mgr', main_metric') /\ queue' = queue
  <2>1. mgr'.sent = S
    BY <1>5 DEF Kept
  <2>2. main_metric'.command_num = f[Len(mgr'.sent)] + Pending(mgr')
    BY <1>1, <1>3, <1>5, <2>1, Zenon DEF Kept, CommandsOk
  <2>3. \A p \in Pools : QueueOk(p)' /\ Taken(p)' = Taken(p)
    BY <1>1, <1>5, <2>1 DEF QueueOk, Taken
  <2>4. Sums(f, mgr'.sent) /\ queue' \in [Pools -> Seq(Bulk)]
    BY <1>1, <1>5, <2>1 DEF CommandsOk, Types
  <2> QED  BY <1>4, <2>1, <2>2, <2>3, <2>4
<1>6. ASSUME NEW b \in Bulk, Sent(mgr, main_metric, mgr', main_metric', b),
             queue' = [p \in Pools |-> Append(queue[p], b)]
      PROVE  \E e \in [Nat -> Nat] : Inv(e)'
  <2>1. mgr'.sent = Append(S, b)
    BY <1>6 DEF Sent
  <2>2. /\ queue' \in [Pools -> Seq(Bulk)]
        /\ \A p \in Pools : QueueOk(p)' /\ Taken(p)' = Taken(p)
    BY <1>1, <1>6, <2>1, QueuesGrow
  <2>3. PICK e \in [Nat -> Nat] :
          /\ Sums(e, Append(S, b)) /\ \A n \in 0 .. Len(S) : e[n] = f[n]
          /\ e[Len(Append(S, b))] = f[Len(S)] + Len(b)
    BY <1>1, <1>3, SumsGrow DEF CommandsOk
  <2>4. main_metric'.command_num = f[Len(S)] + Len(b) + Pending(mgr')
    <3>1. f[Len(S)] \in Nat
      BY <1>3
    <3> QED  BY <1>1, <1>6, <3>1, Zenon DEF Sent, CommandsOk
  <2>5. main_metric'.command_num = e[Len(mgr'.sent)] + Pending(mgr')
    BY <2>1, <2>3, <2>4
  <2>6. /\ \A n \in 1 .. Len(S) : n \in 1 .. Len(mgr'.sent) /\ mgr'.sent[n] = S[n]
        /\ Range(S) \subseteq Range(mgr'.sent)
    <3> HIDE DEF S
    <3>1. /\ Len(Append(S, b)) = Len(S) + 1 /\ Range(Append(S, b)) = Range(S) \cup {b}
          /\ \A n \in 1 .. Len(S) : Append(S, b)[n] = S[n]
      BY <1>3, Appended
    <3>2. \A n \in 1 .. Len(S) : n \in 1 .. Len(S) + 1
      BY <1>3
    <3> QED  BY <2>1, <3>1, <3>2
  <2>7. Inv(e)'
    BY <1>4, <2>1, <2>2, <2>3, <2>5, <2>6
  <2> QED  BY <2>7
<1> QED  BY <1>2, <1>5, <1>6

-----------------------------------------------------------------------------
\* The threads of the pools take bulks and output them.

LEMMA TailElements ==
  ASSUME NEW S, NEW s \in Seq(S), s # <<>>
  PROVE  /\ Head(s) = s[1] /\ Head(s) \in S /\ Head(s) \in Range(s)
         /\ Tail(s) \in Seq(S) /\ Len(Tail(s)) = Len(s) - 1 /\ Len(s) \in Nat \ {0}
         /\ \A i \in 1 .. Len(s) - 1 : Tail(s)[i] = s[i + 1]
<1>1. /\ Head(s) \in S /\ Tail(s) \in Seq(S) /\ Len(Tail(s)) = Len(s) - 1
      /\ \A i \in 1 .. Len(Tail(s)) : Tail(s)[i] = s[i + 1]
  BY HeadTailProperties
<1>2. Len(s) \in Nat \ {0} /\ Head(s) = s[1]
  BY EmptySeq
<1>3. 1 \in 1 .. Len(s)
  BY <1>2
<1> QED  BY <1>1, <1>2, <1>3, Elements

LEMMA TakeMoves ==
  ASSUME Types, \A p \in Pools : QueueOk(p), NEW w \in Workers, TakeBulk(w), NEW p, p = PoolOf(w)
  PROVE  /\ Types' /\ p \in Pools /\ mgr' = mgr
         /\ \A q \in Pools : QueueOk(q)' /\ Taken(q) \in Nat
         /\ Taken(p)' = Taken(p) + 1 /\ \A q \in Pools \ {p} : Taken(q)' = Taken(q)
         /\ Taken(p) + 1 \in 1 .. Len(mgr.sent)
         /\ cur'[w] = mgr.sent[Taken(p) + 1] /\ cur'[w] \in Bulk /\ cur'[w] # None
         /\ cur[w] = None /\ \A v \in Workers \ {w} : cur'[v] = cur[v]
<1> DEFINE s == mgr.sent
           q == queue[p]
           r == Tail(q)
           t == Taken(p)
           k == Len(s)
           l == Len(q)
<1>1. p \in Pools
  BY DEF Pools, PoolOf
<1>2. /\ q # <<>> /\ cur[w] = None /\ mgr' = mgr
      /\ cur' = [cur EXCEPT ![w] = Head(q)] /\ queue' = [queue EXCEPT ![p] = r]
  BY DEF TakeBulk
<1>3. /\ s \in Seq(Bulk) /\ q \in Seq(Bulk) /\ k \in Nat /\ l \in Nat
      /\ cur \in [Workers -> Bulk \cup {None}] /\ queue \in [Pools -> Seq(Bulk)]
  BY <1>1, Parts DEF Types
<1>4. t = k - l /\ t \in Nat /\ \A i \in 1 .. l : q[i] = s[t + i]
  BY <1>1 DEF QueueOk, Taken
<1> HIDE DEF s, q
<1>5. /\ Head(q) = q[1] /\ Head(q) \in Bulk /\ r \in Seq(Bulk) /\ Len(r) = l - 1
      /\ l \in Nat \ {0} /\ \A i \in 1 .. l - 1 : r[i] = q[i + 1]
  BY <1>2, <1>3, TailElements
<1> HIDE DEF t, k, l, r
<1>6. /\ queue'[p] = r /\ queue' \in [Pools -> Seq(Bulk)] /\ cur'[w] = Head(q)
      /\ cur' \in [Workers -> Bulk \cup {None}]
      /\ \A v \in Workers \ {w} : cur'[v] = cur[v]
      /\ \A o \in Pools \ {p} : queue'[o] = queue[o]
  BY <1>1, <1>2, <1>3, <1>5
<1>7. 1 \in 1 .. l /\ t + 1 \in 1 .. k /\ k - (l - 1) = t + 1
  BY <1>3, <1>4, <1>5
<1>8. Head(q) = s[t + 1]
  BY <1>4, <1>5, <1>7
<1>9. Taken(p)' = t + 1
  <2>1. Taken(p)' = k - Len(r)
    BY <1>2, <1>6 DEF Taken, k, s
  <2> QED  BY <1>5, <1>7, <2>1
<1>10. QueueOk(p)'
  <2>1. ASSUME NEW i \in 1 .. l - 1 PROVE r[i] = s[t + 1 + i]
    <3>1. i + 1 \in 1 .. l /\ t + (i + 1) = t + 1 + i
      BY <1>3, <1>4, <1>5
    <3> QED  BY <1>4, <1>5, <3>1
  <2>2. t + 1 \in Nat
    BY <1>4
  <2> QED  BY <1>2, <1>5, <1>6, <1>9, <2>1, <2>2 DEF QueueOk, s
<1>11. ASSUME NEW o \in Pools \ {p} PROVE Taken(o)' = Taken(o) /\ QueueOk(o)'
  <2>1. queue'[o] = queue[o] /\ mgr' = mgr /\ QueueOk(o)
    BY <1>2, <1>6
  <2>2. Taken(o)' = Taken(o)
    BY <2>1 DEF Taken
  <2> QED  BY <2>1, <2>2, Zenon DEF QueueOk
<1>12. Types'
  BY <1>6 DEF Types, TakeBulk
<1>13. cur'[w] \in Bulk /\ cur'[w] # None /\ cur'[w] = s[t + 1]
  BY <1>5, <1>6, <1>8, BulkMtAssumption DEF Bulk
<1>14. \A o \in Pools : Taken(o) \in Nat
  BY DEF QueueOk
<1> QED
  BY <1>1, <1>2, <1>6, <1>7, <1>9, <1>10, <1>11, <1>12, <1>13, <1>14 DEF s, t, k

\* A summand that was 0 becomes l.
LEMMA BalancedTake ==
  ASSUME NEW x \in [Workers -> Nat], NEW y \in [Workers -> Nat], NEW z \in [Pools -> Nat],
         Balanced(x, y, z), NEW w \in Workers, y[w] = 0, NEW l \in Nat
  PROVE  Balanced(x, [y EXCEPT ![w] = l], [z EXCEPT ![PoolOf(w)] = @ + l])
<1> DEFINE u == [y EXCEPT ![w] = l]
           v == [z EXCEPT ![PoolOf(w)] = @ + l]
           x0 == x["log"]
           x1 == x["file1"]
           x2 == x["file2"]
           y1 == y["file1"]
           y2 == y["file2"]
           z0 == z["log"]
           z1 == z["file"]
<1>1. /\ "log" \in Workers /\ "file1" \in Workers /\ "file2" \in Workers
      /\ "log" \in Pools /\ "file" \in Pools
  BY DEF Workers, Pools
<1>2. /\ x0 \in Nat /\ x1 \in Nat /\ x2 \in Nat /\ y1 \in Nat /\ y2 \in Nat
      /\ z0 \in Nat /\ z1 \in Nat
  BY <1>1
<1>3. x0 + y["log"] = z0 /\ x1 + x2 + y1 + y2 = z1
  BY DEF Balanced
<1>4. w = "log" => /\ u["log"] = l /\ u["file1"] = y1 /\ u["file2"] = y2
                   /\ v["log"] = z0 + l /\ v["file"] = z1 /\ y["log"] = 0
  BY <1>1 DEF PoolOf
<1>5. w = "file1" => /\ u["file1"] = l /\ u["log"] = y["log"] /\ u["file2"] = y2
                     /\ v["file"] = z1 + l /\ v["log"] = z0 /\ y1 = 0
  BY <1>1 DEF PoolOf
<1>6. w = "file2" => /\ u["file2"] = l /\ u["log"] = y["log"] /\ u["file1"] = y1
                     /\ v["file"] = z1 + l /\ v["log"] = z0 /\ y2 = 0
  BY <1>1 DEF PoolOf
<1>7. w \in {"log", "file1", "file2"}
  BY DEF Workers
<1> HIDE DEF u, v, x0, x1, x2, y1, y2, z0, z1
<1>8. /\ x0 + 0 = z0 => x0 + l = z0 + l
      /\ x1 + x2 + 0 + y2 = z1 => x1 + x2 + l + y2 = z1 + l
      /\ x1 + x2 + y1 + 0 = z1 => x1 + x2 + y1 + l = z1 + l
  BY <1>2
<1>9. CASE w = "log"
  BY <1>3, <1>4, <1>8, <1>9, Zenon DEF Balanced, u, v, x0, x1, x2, y1, y2, z0, z1
<1>10. CASE w = "file1"
  BY <1>3, <1>5, <1>8, <1>10, Zenon DEF Balanced, u, v, x0, x1, x2, y1, y2, z0, z1
<1>11. CASE w = "file2"
  BY <1>3, <1>6, <1>8, <1>11, Zenon DEF Balanced, u, v, x0, x1, x2, y1, y2, z0, z1
<1> QED  BY <1>7, <1>9, <1>10, <1>11

\* What a thread had in its hands is counted.
LEMMA BalancedOutput ==
  ASSUME NEW x \in [Workers -> Nat], NEW y \in [Workers -> Nat], NEW z \in [Pools -> Nat],
         Balanced(x, y, z), NEW w \in Workers
  PROVE  Balanced([x EXCEPT ![w] = @ + y[w]], [y EXCEPT ![w] = 0], z)
<1> DEFINE u == [x EXCEPT ![w] = @ + y[w]]
           v == [y EXCEPT ![w] = 0]
           x0 == x["log"]
           x1 == x["file1"]
           x2 == x["file2"]
           y0 == y["log"]
           y1 == y["file1"]
           y2 == y["file2"]
           z0 == z["log"]
           z1 == z["file"]
<1>1. /\ "log" \in Workers /\ "file1" \in Workers /\ "file2" \in Workers
      /\ "log" \in Pools /\ "file" \in Pools
  BY DEF Workers, Pools
<1>2. /\ x0 \in Nat /\ x1 \in Nat /\ x2 \in Nat /\ y0 \in Nat /\ y1 \in Nat /\ y2 \in Nat
      /\ z0 \in Nat /\ z1 \in Nat
  BY <1>1
<1>3. x0 + y0 = z0 /\ x1 + x2 + y1 + y2 = z1
  BY DEF Balanced
<1>4. w = "log" => /\ u["log"] = x0 + y0 /\ u["file1"] = x1 /\ u["file2"] = x2
                   /\ v["log"] = 0 /\ v["file1"] = y1 /\ v["file2"] = y2
  BY <1>1
<1>5. w = "file1" => /\ u["log"] = x0 /\ u["file1"] = x1 + y1 /\ u["file2"] = x2
                     /\ v["log"] = y0 /\ v["file1"] = 0 /\ v["file2"] = y2
  BY <1>1
<1>6. w = "file2" => /\ u["log"] = x0 /\ u["file1"] = x1 /\ u["file2"] = x2 + y2
                     /\ v["log"] = y0 /\ v["file1"] = y1 /\ v["file2"] = 0
  BY <1>1
<1>7. w \in {"log", "file1", "file2"}
  BY DEF Workers
<1> HIDE DEF u, v, x0, x1, x2, y0, y1, y2, z0, z1
<1>8. /\ x0 + y0 = z0 => x0 + y0 + 0 = z0
      /\ x1 + x2 + y1 + y2 = z1 => (x1 + y1) + x2 + 0 + y2 = z1
      /\ x1 + x2 + y1 + y2 = z1 => x1 + (x2 + y2) + y1 + 0 = z1
  BY <1>2
<1>9. CASE w = "log"
  BY <1>3, <1>4, <1>8, <1>9, Zenon DEF Balanced, u, v, x0, x1, x2, y1, y2, z0, z1
<1>10. CASE w = "file1"
  BY <1>3, <1>5, <1>8, <1>10, Zenon DEF Balanced, u, v, y0, z0, z1
<1>11. CASE w = "file2"
  BY <1>3, <1>6, <1>8, <1>11, Zenon DEF Balanced, u, v, y0, z0, z1
<1> QED  BY <1>7, <1>9, <1>10, <1>11

LEMMA TakeKept ==
  ASSUME NEW f \in [Nat -> Nat], Inv(f), NEW w \in Workers, TakeBulk(w) PROVE Inv(f)'
<1> DEFINE p == PoolOf(w)
           t == Taken(p)
<1>1. /\ Types /\ (\A q \in Pools : QueueOk(q)) /\ BlocksOk /\ CommandsOk(f)
      /\ LogOk /\ FilesOk /\ MainOk /\ ConsoleOk
  BY DEF Inv
<1>2. /\ Types' /\ p \in Pools /\ mgr' = mgr
      /\ \A q \in Pools : QueueOk(q)' /\ Taken(q) \in Nat
      /\ Taken(p)' = t + 1 /\ \A q \in Pools \ {p} : Taken(q)' = Taken(q)
      /\ t + 1 \in 1 .. Len(mgr.sent)
      /\ cur'[w] = mgr.sent[t + 1] /\ cur'[w] \in Bulk /\ cur'[w] # None
      /\ cur[w] = None /\ \A v \in Workers \ {w} : cur'[v] = cur[v]
  BY <1>1, TakeMoves
<1>3. UNCHANGED <<main_metric, main, metrics, at, row, console, bulk_files>>
  BY DEF TakeBulk
<1> DEFINE h == Len(cur'[w])
<1>4. /\ Busy(w) = 0 /\ Held(w) = 0 /\ Busy(w)' = 1 /\ Held(w)' = h /\ h \in Nat
      /\ \A v \in Workers \ {w} : Busy(v)' = Busy(v) /\ Held(v)' = Held(v)
  <2>1. h \in Nat
    BY <1>2, LenProperties DEF Bulk
  <2> HIDE DEF h
  <2>2. Held(w)' = h
    BY <1>2 DEF Held, h
  <2> QED  BY <1>2, <2>1, <2>2 DEF Busy, Held
<1>5. f[t + 1] = f[t] + h /\ f[t] \in Nat
  <2> DEFINE s == mgr.sent
  <2>1. Sums(f, s)
    BY <1>1 DEF CommandsOk
  <2>2. t \in Nat
    BY <1>2
  <2>3. t + 1 \in 1 .. Len(s)
    BY <1>2
  <2> HIDE DEF t, s
  <2>4. f[t + 1] = f[t + 1 - 1] + Len(s[t + 1]) /\ t + 1 - 1 = t
    BY <2>1, <2>2, <2>3, SMTT(30) DEF Sums
  <2> QED  BY <1>2, <2>2, <2>4 DEF s
<1>6. Taken("log") \in Nat /\ Taken("file") \in Nat /\ 1 \in Nat
      /\ f[Taken("log")] \in Nat /\ f[Taken("file")] \in Nat
  BY <1>2 DEF Pools
<1>7. \A v \in Workers : /\ metrics[v].block_num \in Nat /\ metrics[v].command_num \in Nat
                         /\ Busy(v) \in Nat /\ Held(v) \in Nat
  BY <1>1, Parts
<1> HIDE DEF t, h
<1>8. (w = "log" /\ p = "log") \/ (w = "file1" /\ p = "file") \/ (w = "file2" /\ p = "file")
  BY DEF Workers, PoolOf
<1>9. /\ "log" \in Workers /\ "file1" \in Workers /\ "file2" \in Workers
      /\ "log" # "file1" /\ "log" # "file2" /\ "file1" # "file2" /\ "log" # "file"
      /\ "log" \in Pools /\ "file" \in Pools
  BY DEF Workers, Pools
<1>10. BlocksOk'
  <2>1. /\ BlockCount' = BlockCount /\ BusyCount' = [BusyCount EXCEPT ![w] = 1]
        /\ TakenCount' = [TakenCount EXCEPT ![p] = @ + 1] /\ BusyCount[w] = 0
    BY <1>2, <1>3, <1>4 DEF BlockCount, BusyCount, TakenCount, t
  <2>2. /\ BlockCount \in [Workers -> Nat] /\ BusyCount \in [Workers -> Nat]
        /\ TakenCount \in [Pools -> Nat]
    BY <1>2, <1>7 DEF BlockCount, BusyCount, TakenCount
  <2>3. Balanced(BlockCount, [BusyCount EXCEPT ![w] = 1], [TakenCount EXCEPT ![p] = @ + 1])
    BY <1>1, <1>6, <2>1, <2>2, BalancedTake DEF BlocksOk
  <2> QED  BY <1>1, <1>3, <2>1, <2>3 DEF BlocksOk
<1>11. CommandsOk(f)'
  <2>1. /\ CommandCount' = CommandCount /\ HeldCount' = [HeldCount EXCEPT ![w] = h]
        /\ TakenCommands(f)' = [TakenCommands(f) EXCEPT ![p] = @ + h] /\ HeldCount[w] = 0
    BY <1>2, <1>3, <1>4, <1>5 DEF CommandCount, HeldCount, TakenCommands, t
  <2>2. /\ CommandCount \in [Workers -> Nat] /\ HeldCount \in [Workers -> Nat]
        /\ TakenCommands(f) \in [Pools -> Nat]
    BY <1>2, <1>7 DEF CommandCount, HeldCount, TakenCommands
  <2>3. Balanced(CommandCount, [HeldCount EXCEPT ![w] = h], [TakenCommands(f) EXCEPT ![p] = @ + h])
    BY <1>1, <1>4, <2>1, <2>2, BalancedTake DEF CommandsOk
  <2> QED  BY <1>1, <1>2, <1>3, <2>1, <2>3 DEF CommandsOk
<1>12. \A i : Begun(i)' = Begun(i)
  BY <1>3 DEF Begun
<1>13. LogOk'
  <2>1. CASE w = "log"
    BY <1>1, <1>2, <1>3, <1>8, <1>9, <1>12, <2>1 DEF LogOk, Unended, t
  <2>2. CASE w # "log"
    <3>1. Taken("log")' = Taken("log") /\ cur'["log"] = cur["log"]
      BY <1>2, <1>8, <1>9, <2>2
    <3> QED  BY <1>1, <1>2, <1>3, <1>12, <3>1 DEF LogOk, Unended
  <2> QED  BY <2>1, <2>2
<1>14. FilesOk'
  <2>1. mgr.sent[t + 1] \in Range(mgr.sent)
    <3>1. mgr.sent \in Seq(Bulk)
      BY <1>1, Parts
    <3> QED  BY <1>2, <3>1, Elements
  <2>2. \A v \in Threads("file") : cur'[v] # None => cur'[v] \in Range(mgr'.sent)
    BY <1>1, <1>2, <2>1 DEF FilesOk, Threads
  <2>3. ASSUME NEW n \in 1 .. Taken("file")'
        PROVE  mgr'.sent[n] \in Range(bulk_files') \/ \E v \in Threads("file") : cur'[v] = mgr'.sent[n]
    <3>1. CASE n \in 1 .. Taken("file")
      <4>1. CASE mgr.sent[n] \in Range(bulk_files)
        BY <1>2, <1>3, <4>1
      <4>2. ASSUME NEW v \in Threads("file"), cur[v] = mgr.sent[n] PROVE cur'[v] = mgr'.sent[n]
        <5>1. n \in 1 .. Len(mgr.sent) /\ mgr.sent \in Seq(Bulk)
          <6> DEFINE u == Taken("file")
          <6>1. u \in 0 .. Len(mgr.sent) /\ n \in 1 .. u /\ mgr.sent \in Seq(Bulk)
            BY <1>1, <1>9, <3>1, TakenBounds, Parts
          <6> HIDE DEF u
          <6> QED  BY <6>1
        <5>2. cur[v] # None
          <6>1. mgr.sent[n] \in Bulk
            BY <5>1, ElementOfSeq
          <6> QED  BY <4>2, <6>1, BulkMtAssumption DEF Bulk
        <5>3. v \in Workers \ {w}
          BY <1>2, <5>2 DEF Threads
        <5> QED  BY <1>2, <4>2, <5>3
      <4> QED  BY <1>1, <3>1, <4>1, <4>2 DEF FilesOk
    <3>2. CASE n \notin 1 .. Taken("file")
      <4>1. p = "file" /\ n = t + 1
        <5> DEFINE u == Taken("file")
        <5>1. CASE p = "file"
          <6>1. u \in Nat /\ n \in 1 .. u + 1 /\ n \notin 1 .. u /\ u = t
            BY <1>2, <1>6, <3>2, <5>1 DEF t
          <6> HIDE DEF u
          <6>2. n = u + 1
            BY <6>1
          <6> QED  BY <5>1, <6>1, <6>2
        <5>2. CASE p # "file"
          <6>1. Taken("file")' = Taken("file")
            BY <1>2, <1>9, <5>2
          <6> QED  BY <3>2, <6>1
        <5> QED  BY <5>1, <5>2
      <4>2. w \in Threads("file")
        BY <4>1 DEF Threads
      <4> QED  BY <1>2, <4>1, <4>2
    <3> QED  BY <3>1, <3>2
  <2> QED  BY <1>1, <1>2, <1>3, <2>2, <2>3 DEF FilesOk
<1>15. \A q \in Pools : Finished(q) => Finished(q)'
  <2>1. queue[p] # <<>>
    BY DEF TakeBulk
  <2>2. ~Finished(p)
    BY <2>1 DEF Finished
  <2>3. ASSUME NEW q \in Pools \ {p}, Finished(q) PROVE Finished(q)'
    <3>1. queue'[q] = queue[q]
      BY <1>1 DEF TakeBulk, Types
    <3>2. \A v \in Threads(q) : v \in Workers \ {w}
      BY DEF Threads
    <3> QED  BY <1>2, <2>3, <3>1, <3>2 DEF Finished
  <2> QED  BY <2>2, <2>3
<1>16. MainOk' /\ ConsoleOk'
  <2>1. MainOk'
    BY <1>1, <1>2, <1>3, <1>9, <1>15 DEF MainOk
  <2>2. ASSUME NEW i \in DOMAIN console, EntryOk(i) PROVE EntryOk(i)'
    BY <1>2, <1>3, <1>9, <1>12, <1>15, <2>2 DEF EntryOk
  <2> QED  BY <1>1, <1>3, <2>1, <2>2 DEF ConsoleOk
<1> QED
  BY <1>2, <1>10, <1>11, <1>13, <1>14, <1>15, <1>16 DEF Inv

\* An insertion that begins the line of a bulk.
Begins(e) == e.kind = "bulk" /\ e.part = 0

\* What is on the console stays, and the line of a bulk is counted when it begins.
LEMMA ConsoleGrows ==
  ASSUME Types, NEW e \in Entries, console' = Append(console, e), NEW k, k = Len(console)
  PROVE  /\ console' \in Seq(Entries) /\ k \in Nat /\ Len(console') = k + 1
         /\ DOMAIN console = 1 .. k /\ DOMAIN console' = 1 .. k + 1
         /\ console'[k + 1] = e /\ Cardinality(Begun(k)) \in Nat
         /\ \A i \in 1 .. k + 1 : i \in 1 .. k \/ i = k + 1
         /\ \A i \in 1 .. k : console'[i] = console[i] /\ Begun(i)' = Begun(i)
         /\ Begins(e) => Cardinality(Begun(k + 1)') = Cardinality(Begun(k)) + 1
         /\ ~Begins(e) => Cardinality(Begun(k + 1)') = Cardinality(Begun(k))
<1> DEFINE c == console
           a == Append(c, e)
<1>1. c \in Seq(Entries)
  BY DEF Types
<1>0. k = Len(c)
  OBVIOUS
<1> HIDE DEF c
<1>2. k \in Nat /\ DOMAIN c = 1 .. k
  BY <1>0, <1>1, Elements
<1>3. /\ a \in Seq(Entries) /\ Len(a) = k + 1 /\ a[k + 1] = e
      /\ \A i \in 1 .. k : a[i] = c[i]
  BY <1>0, <1>1, Appended
<1> HIDE DEF a
<1>4. DOMAIN a = 1 .. k + 1
  BY <1>2, <1>3, Elements
<1> DEFINE upto(s, n) == {j \in 1 .. n : Begins(s[j])}
<1>5. ASSUME NEW i \in 1 .. k PROVE upto(a, i) = upto(c, i)
  <2>1. \A j \in 1 .. i : j \in 1 .. k
    BY <1>2
  <2>2. \A j \in 1 .. i : a[j] = c[j]
    BY <1>3, <2>1
  <2> QED  BY <2>2
<1>6. IsFiniteSet(upto(c, k)) /\ Cardinality(upto(c, k)) \in Nat
  <2>1. IsFiniteSet(1 .. k)
    BY <1>2, FS_Interval
  <2>2. upto(c, k) \in SUBSET (1 .. k)
    OBVIOUS
  <2> HIDE DEF upto
  <2>3. IsFiniteSet(upto(c, k))
    BY <2>1, <2>2, FS_Subset
  <2> QED  BY <2>3, FS_CardinalityType
<1>7. /\ \A j \in 1 .. k + 1 : j \in 1 .. k \/ j = k + 1
      /\ \A j \in 1 .. k : j \in 1 .. k + 1
      /\ k + 1 \in 1 .. k + 1 /\ k + 1 \notin 1 .. k
  BY <1>2
<1>8. Begins(e) => upto(a, k + 1) = upto(c, k) \cup {k + 1}
  BY <1>3, <1>7, Zenon
<1>9. ~Begins(e) => upto(a, k + 1) = upto(c, k)
  BY <1>3, <1>7, Zenon
<1>10. k + 1 \notin upto(c, k)
  BY <1>7
<1> HIDE DEF upto
<1>11. Begins(e) => Cardinality(upto(a, k + 1)) = Cardinality(upto(c, k)) + 1
  BY <1>6, <1>8, <1>10, FS_AddElement
<1>12. console' = a /\ console = c
  BY DEF a, c
<1>13. \A i : Begun(i) = upto(c, i) /\ Begun(i)' = upto(a, i)
  BY <1>12, Zenon DEF Begun, Begins, upto
<1>14. /\ console' \in Seq(Entries) /\ k \in Nat /\ Len(console') = k + 1
       /\ DOMAIN console = 1 .. k /\ DOMAIN console' = 1 .. k + 1
       /\ console'[k + 1] = e /\ \A i \in 1 .. k : console'[i] = console[i]
  BY <1>2, <1>3, <1>4, <1>12, Zenon
<1>15. Cardinality(Begun(k)) \in Nat /\ \A i \in 1 .. k : Begun(i)' = Begun(i)
  BY <1>5, <1>6, <1>13, Zenon
<1>16. /\ Begins(e) => Cardinality(Begun(k + 1)') = Cardinality(Begun(k)) + 1
       /\ ~Begins(e) => Cardinality(Begun(k + 1)') = Cardinality(Begun(k))
  BY <1>9, <1>11, <1>13, Zenon
<1> QED  BY <1>7, <1>14, <1>15, <1>16

\* What update and the counters of a thread do, whichever pool it is of.
LEMMA OutputCounts ==
  ASSUME NEW f \in [Nat -> Nat], Inv(f), NEW w \in Workers, cur[w] # None, Count(w),
         UNCHANGED <<input, mgr, main_metric, main, queue>>
  PROVE  /\ cur' = [cur EXCEPT ![w] = None] /\ cur[w] \in Bulk
         /\ metrics' \in [Workers -> ThreadMetrics]
         /\ metrics'[w].block_num = metrics[w].block_num + 1
         /\ \A v \in Workers \ {w} : metrics'[v] = metrics[v]
         /\ Balanced(BlockCount, BusyCount, TakenCount)' /\ CommandsOk(f)' /\ MainOk'
         /\ \A p \in Pools : QueueOk(p)' /\ Taken(p)' = Taken(p) /\ (Finished(p) => Finished(p)')
<1> DEFINE h == Len(cur[w])
           cs == metrics[w].command_num
           bs == metrics[w].block_num
<1>1. /\ Types /\ (\A q \in Pools : QueueOk(q)) /\ BlocksOk /\ CommandsOk(f) /\ MainOk
  BY DEF Inv
<1>2. /\ cur[w] # None /\ cur' = [cur EXCEPT ![w] = None]
      /\ metrics' = [metrics EXCEPT ![w] = [command_num |-> @.command_num + Len(cur[w]),
                                            block_num |-> @.block_num + 1]]
      /\ UNCHANGED <<input, mgr, main_metric, main, queue>>
  BY DEF Count
<1>3. /\ cur \in [Workers -> Bulk \cup {None}] /\ metrics \in [Workers -> ThreadMetrics]
      /\ cur[w] \in Bulk
  BY <1>1, <1>2 DEF Types
<1>4. h \in Nat /\ cs \in Nat /\ bs \in Nat
  BY <1>1, <1>3, Parts, LenProperties DEF Bulk
<1> HIDE DEF h, cs, bs
<1>5. cs + h \in Nat /\ bs + 1 \in Nat
  BY <1>4
<1>6. metrics' = [metrics EXCEPT ![w] = [command_num |-> cs + h, block_num |-> bs + 1]]
  BY <1>2 DEF h, cs, bs
<1>7. /\ metrics' \in [Workers -> ThreadMetrics]
      /\ metrics'[w].command_num = cs + h /\ metrics'[w].block_num = bs + 1
      /\ \A v \in Workers \ {w} : metrics'[v] = metrics[v]
  BY <1>3, <1>5, <1>6 DEF ThreadMetrics
<1>8. /\ Busy(w) = 1 /\ Held(w) = h /\ Busy(w)' = 0 /\ Held(w)' = 0
      /\ \A v \in Workers \ {w} : cur'[v] = cur[v] /\ Busy(v)' = Busy(v) /\ Held(v)' = Held(v)
  BY <1>2, <1>3 DEF Busy, Held, h
<1>9. /\ \A v \in Workers : /\ metrics[v].block_num \in Nat /\ metrics[v].command_num \in Nat
                            /\ Busy(v) \in Nat /\ Held(v) \in Nat
      /\ \A p \in Pools : Taken(p) \in Nat
  BY <1>1, Parts DEF QueueOk
<1>10. \A p \in Pools : QueueOk(p)' /\ Taken(p)' = Taken(p)
  BY <1>1, <1>2 DEF QueueOk, Taken
<1>11. Balanced(BlockCount, BusyCount, TakenCount)'
  <2>1. /\ BlockCount' = [BlockCount EXCEPT ![w] = @ + BusyCount[w]]
        /\ BusyCount' = [BusyCount EXCEPT ![w] = 0] /\ TakenCount' = TakenCount
    BY <1>7, <1>8, <1>10 DEF BlockCount, BusyCount, TakenCount, bs
  <2>2. /\ BlockCount \in [Workers -> Nat] /\ BusyCount \in [Workers -> Nat]
        /\ TakenCount \in [Pools -> Nat]
    BY <1>9 DEF BlockCount, BusyCount, TakenCount
  <2>3. Balanced([BlockCount EXCEPT ![w] = @ + BusyCount[w]], [BusyCount EXCEPT ![w] = 0], TakenCount)
    BY <1>1, <2>2, BalancedOutput DEF BlocksOk
  <2> QED  BY <2>1, <2>3
<1>12. CommandsOk(f)'
  <2>1. /\ CommandCount' = [CommandCount EXCEPT ![w] = @ + HeldCount[w]]
        /\ HeldCount' = [HeldCount EXCEPT ![w] = 0] /\ TakenCommands(f)' = TakenCommands(f)
    BY <1>7, <1>8, <1>10 DEF CommandCount, HeldCount, TakenCommands, cs
  <2>2. /\ CommandCount \in [Workers -> Nat] /\ HeldCount \in [Workers -> Nat]
        /\ TakenCommands(f) \in [Pools -> Nat]
    BY <1>9 DEF CommandCount, HeldCount, TakenCommands
  <2>3. Balanced([CommandCount EXCEPT ![w] = @ + HeldCount[w]], [HeldCount EXCEPT ![w] = 0],
                 TakenCommands(f))
    BY <1>1, <2>2, BalancedOutput DEF CommandsOk
  <2> QED  BY <1>1, <1>2, <2>1, <2>3 DEF CommandsOk
<1>13. \A p \in Pools : Finished(p) => Finished(p)'
  <2>1. ASSUME NEW q \in Pools, Finished(q) PROVE Finished(q)'
    <3>1. \A v \in Threads(q) : v \in Workers
      BY DEF Threads
    <3> QED  BY <1>2, <1>3, <1>8, <2>1, <3>1 DEF Finished
  <2> QED  BY <2>1
<1>14. MainOk'
  <2>1. "log" \in Pools /\ "file" \in Pools
    BY DEF Pools
  <2> QED  BY <1>1, <1>2, <1>13, <2>1 DEF MainOk
<1> QED  BY <1>2, <1>3, <1>7, <1>10, <1>11, <1>12, <1>13, <1>14 DEF bs

\* What an insertion leaves alone.
LEMMA OnlyConsole ==
  ASSUME NEW f \in [Nat -> Nat], Inv(f),
         UNCHANGED <<mgr, main_metric, queue, cur, metrics, bulk_files>>
  PROVE  /\ (\A p \in Pools : QueueOk(p)') /\ BlocksOk' /\ CommandsOk(f)' /\ FilesOk'
         /\ \A p \in Pools : Taken(p)' = Taken(p) /\ Finished(p)' = Finished(p)
<1>1. (\A q \in Pools : QueueOk(q)) /\ BlocksOk /\ CommandsOk(f) /\ FilesOk
  BY DEF Inv
<1>2. /\ \A p \in Pools : Taken(p)' = Taken(p)
      /\ \A w \in Workers : Busy(w)' = Busy(w) /\ Held(w)' = Held(w)
  BY DEF Taken, Busy, Held
<1>3. "file" \in Pools
  BY DEF Pools
<1>4. \A q \in Pools : QueueOk(q)'
  BY <1>1, <1>2 DEF QueueOk
<1>5. BlocksOk'
  BY <1>1, <1>2 DEF BlocksOk, BlockCount, BusyCount, TakenCount
<1>6. CommandsOk(f)'
  BY <1>1, <1>2 DEF CommandsOk, CommandCount, HeldCount, TakenCommands, Pending
<1>7. FilesOk'
  BY <1>1, <1>2, <1>3 DEF FilesOk
<1>8. \A p \in Pools : Finished(p)' = Finished(p)
  BY DEF Finished
<1> QED  BY <1>2, <1>4, <1>5, <1>6, <1>7, <1>8

\* The line log is printing is that of the next bulk.
LEMMA NewPiece ==
  ASSUME NEW f \in [Nat -> Nat], Inv(f), NEW e \in Entries, console' = Append(console, e),
         e.kind = "bulk", cur["log"] # None, e.data = cur["log"], e.part = 0 <=> at = 0,
         mgr' = mgr
  PROVE  /\ console' \in Seq(Entries) /\ ConsoleOk'
         /\ Cardinality(Begun(Len(console))') = metrics["log"].block_num + 1
<1>1. /\ Types /\ (\A q \in Pools : QueueOk(q)) /\ BlocksOk /\ LogOk /\ MainOk /\ ConsoleOk
  BY DEF Inv
<1> DEFINE b == metrics["log"].block_num
<1>2. "log" \in Workers /\ "log" \in Pools /\ b \in Nat
  BY <1>1, Parts DEF Workers, Pools
<1>3. PICK k \in Nat : k = Len(console)
  BY <1>1, LenProperties DEF Types
<1>4. /\ console' \in Seq(Entries) /\ Len(console') = k + 1
      /\ DOMAIN console = 1 .. k /\ DOMAIN console' = 1 .. k + 1 /\ console'[k + 1] = e
      /\ \A i \in 1 .. k : console'[i] = console[i] /\ Begun(i)' = Begun(i)
      /\ Cardinality(Begun(k)) \in Nat
      /\ Begins(e) => Cardinality(Begun(k + 1)') = Cardinality(Begun(k)) + 1
      /\ ~Begins(e) => Cardinality(Begun(k + 1)') = Cardinality(Begun(k))
      /\ \A i \in 1 .. k + 1 : i \in 1 .. k \/ i = k + 1
  BY <1>1, <1>3, ConsoleGrows
<1>5. Cardinality(Begun(k)) = b + Unended
  BY <1>1, <1>3 DEF LogOk
<1> HIDE DEF b
<1>6. Cardinality(Begun(k + 1)') = b + 1
  <2>1. CASE at = 0
    BY <1>2, <1>4, <1>5, <2>1 DEF Unended, Begins
  <2>2. CASE at # 0
    BY <1>2, <1>4, <1>5, <2>2 DEF Unended, Begins
  <2> QED  BY <2>1, <2>2
<1>7. b + 1 = Taken("log") /\ Taken("log") \in 1 .. Len(mgr.sent) /\ cur["log"] = mgr.sent[Taken("log")]
  <2>1. b + 1 = Taken("log")
    <3>1. BlockCount["log"] = b /\ BusyCount["log"] = 1 /\ TakenCount["log"] = Taken("log")
      BY <1>2 DEF BlockCount, BusyCount, TakenCount, Busy, b
    <3> QED  BY <1>1, <3>1, Zenon DEF BlocksOk, Balanced
  <2>2. Taken("log") \in 0 .. Len(mgr.sent) /\ Len(mgr.sent) \in Nat
    BY <1>1, <1>2, TakenBounds, Parts
  <2> DEFINE t == Taken("log")
             l == Len(mgr.sent)
  <2>3. t \in 1 .. l
    <3> HIDE DEF t, l
    <3>1. b + 1 = t /\ t \in 0 .. l /\ l \in Nat
      BY <2>1, <2>2 DEF t, l
    <3> QED  BY <1>2, <3>1
  <2> QED  BY <1>1, <2>1, <2>3 DEF LogOk
<1>8. ~Finished("log")
  BY DEF Finished, Threads, PoolOf, Workers
<1>9. ASSUME NEW i \in 1 .. k PROVE EntryOk(i)'
  <2>1. /\ console[i].kind # "log" /\ console[i].kind # "main" /\ EntryOk(i)
    BY <1>1, <1>4, <1>8, OnlyBulks DEF ConsoleOk
  <2> QED  BY <1>4, <2>1 DEF EntryOk
<1>10. ASSUME NEW i, i = k + 1 PROVE EntryOk(i)'
  <2>1. Cardinality(Begun(i)') = Taken("log")
    BY <1>6, <1>7, <1>10
  <2>2. console'[i].kind # "log" /\ console'[i].kind # "main" /\ console'[i].data = cur["log"]
    BY <1>4, <1>10
  <2>3. /\ Cardinality(Begun(i)') \in 1 .. Len(mgr'.sent)
        /\ console'[i].data = mgr'.sent[Cardinality(Begun(i)')]
    BY <1>7, <2>1, <2>2, Zenon
  <2> QED  BY <2>2, <2>3, Zenon DEF EntryOk
<1>11. ConsoleOk'
  BY <1>4, <1>9, <1>10 DEF ConsoleOk
<1>12. Begun(Len(console))' = Begun(k + 1)'
  BY <1>4 DEF Begun
<1> QED  BY <1>4, <1>6, <1>11, <1>12 DEF b

\* CmdStreamHandler::update: the thread log prints a piece of the line ...
LEMMA InsertTextKept ==
  ASSUME NEW f \in [Nat -> Nat], Inv(f), InsertText PROVE Inv(f)'
<1>1. Types /\ LogOk /\ MainOk
  BY DEF Inv
<1>2. /\ cur["log"] # None /\ console' = Append(console, Piece("bulk", at, cur["log"])) /\ at' = at + 1
      /\ UNCHANGED <<input, mgr, main_metric, main, queue, cur, metrics, row, bulk_files>>
  BY DEF InsertText
<1> DEFINE e == Piece("bulk", at, cur["log"])
<1>3. /\ e \in Entries /\ e.kind = "bulk" /\ e.data = cur["log"] /\ (e.part = 0 <=> at = 0)
      /\ console' = Append(console, e) /\ at \in Nat
  BY <1>1, <1>2 DEF Types, Entries, Piece, Workers
<1> HIDE DEF e
<1>4. /\ console' \in Seq(Entries) /\ ConsoleOk'
      /\ Cardinality(Begun(Len(console))') = metrics["log"].block_num + 1
  BY <1>2, <1>3, NewPiece
<1>5. /\ (\A p \in Pools : QueueOk(p)') /\ BlocksOk' /\ CommandsOk(f)' /\ FilesOk'
      /\ \A p \in Pools : Taken(p)' = Taken(p) /\ Finished(p)' = Finished(p)
  BY <1>2, OnlyConsole
<1>6. "log" \in Pools /\ "file" \in Pools
  BY DEF Pools
<1>7. at' \in Nat /\ at' # 0
  BY <1>2, <1>3
<1>8. Types'
  BY <1>1, <1>2, <1>4, <1>7 DEF Types
<1>9. LogOk'
  BY <1>1, <1>2, <1>4, <1>5, <1>6, <1>7 DEF LogOk, Unended
<1>10. MainOk'
  BY <1>1, <1>2, <1>5, <1>6 DEF MainOk, Pending
<1> QED  BY <1>4, <1>5, <1>8, <1>9, <1>10 DEF Inv

\* ... and its end.
LEMMA InsertEndKept ==
  ASSUME NEW f \in [Nat -> Nat], Inv(f), InsertEnd PROVE Inv(f)'
<1> DEFINE w == "log"
           b == metrics[w].block_num
<1>0. w \in Workers /\ "log" \in Pools
  BY DEF Workers, Pools
<1>1. /\ Types /\ BlocksOk /\ LogOk /\ FilesOk /\ MainOk /\ ConsoleOk
  BY DEF Inv
<1>2. /\ cur[w] # None /\ Count(w) /\ at = Len(cur[w]) + 1 /\ at' = 0
      /\ console' = Append(console, Piece("bulk", at, cur[w]))
      /\ UNCHANGED <<input, mgr, main_metric, main, queue, row, bulk_files>>
  BY DEF InsertEnd
<1>3. /\ cur' = [cur EXCEPT ![w] = None] /\ cur[w] \in Bulk
      /\ metrics' \in [Workers -> ThreadMetrics]
      /\ metrics'[w].block_num = metrics[w].block_num + 1
      /\ \A v \in Workers \ {w} : metrics'[v] = metrics[v]
      /\ Balanced(BlockCount, BusyCount, TakenCount)' /\ CommandsOk(f)' /\ MainOk'
      /\ \A p \in Pools : QueueOk(p)' /\ Taken(p)' = Taken(p)
  BY <1>0, <1>2, OutputCounts
<1> DEFINE e == Piece("bulk", at, cur[w])
<1>4. /\ e \in Entries /\ e.kind = "bulk" /\ e.data = cur[w] /\ (e.part = 0 <=> at = 0)
      /\ console' = Append(console, e)
  BY <1>1, <1>2, <1>3 DEF Types, Entries, Piece
<1> HIDE DEF e
<1>5. /\ console' \in Seq(Entries) /\ ConsoleOk'
      /\ Cardinality(Begun(Len(console))') = b + 1
  BY <1>2, <1>4, NewPiece
<1>6. b \in Nat /\ b + 1 = b + 1 + 0
  <2>1. b \in Nat
    BY <1>0, <1>1, Parts
  <2> HIDE DEF b
  <2> QED  BY <2>1
<1>7. cur'["log"] = None
  BY <1>0, <1>1, <1>3 DEF Types
<1>8. Types'
  BY <1>1, <1>2, <1>3, <1>5 DEF Types
<1>9. BlocksOk'
  <2>1. "file1" \in Workers \ {w} /\ "file2" \in Workers \ {w}
    BY DEF Workers
  <2> QED  BY <1>1, <1>2, <1>3, <2>1, Zenon DEF BlocksOk
<1>10. LogOk'
  <2>1. Unended' = 0 /\ ~(at' > 0)
    BY <1>2 DEF Unended
  <2>2. metrics'["log"].block_num + Unended' = Cardinality(Begun(Len(console))')
    BY <1>3, <1>5, <1>6, <2>1, Zenon
  <2> QED  BY <1>7, <2>1, <2>2, Zenon DEF LogOk
<1>11. FilesOk'
  <2>1. \A v \in Threads("file") : v \in Workers \ {w}
    BY DEF Threads, PoolOf
  <2>2. \A v \in Threads("file") : cur'[v] = cur[v]
    BY <1>1, <1>3, <2>1 DEF Types
  <2>3. Taken("file")' = Taken("file")
    BY <1>3 DEF Pools
  <2>4. /\ \A v \in Threads("file") : cur'[v] # None => cur'[v] \in Range(mgr'.sent)
        /\ Range(bulk_files') \subseteq Range(mgr'.sent)
    BY <1>1, <1>2, <2>2 DEF FilesOk
  <2>5. ASSUME NEW n \in 1 .. Taken("file")'
        PROVE  mgr'.sent[n] \in Range(bulk_files') \/ \E v \in Threads("file") : cur'[v] = mgr'.sent[n]
    <3>1. n \in 1 .. Taken("file")
      BY <2>3
    <3>2. mgr.sent[n] \in Range(bulk_files) \/ \E v \in Threads("file") : cur[v] = mgr.sent[n]
      BY <1>1, <3>1 DEF FilesOk
    <3>3. mgr' = mgr /\ bulk_files' = bulk_files
      BY <1>2
    <3> HIDE DEF FilesOk
    <3> QED  BY <2>2, <3>2, <3>3
  <2> QED  BY <2>4, <2>5 DEF FilesOk
<1> QED  BY <1>3, <1>5, <1>8, <1>9, <1>10, <1>11 DEF Inv

LEMMA OneMore ==
  ASSUME NEW x \in Nat, NEW y \in Nat, NEW z, z = x + y
  PROVE  z + 1 = (x + 1) + y /\ z + 1 = x + (y + 1)
OBVIOUS

\* FileCommandHandler::update: a thread of the files writes the bulk it has.
LEMMA WriteKept ==
  ASSUME NEW f \in [Nat -> Nat], Inv(f), NEW w \in Workers, WriteBulk(w)
  PROVE  Inv(f)'
<1>1. /\ Types /\ (\A q \in Pools : QueueOk(q)) /\ BlocksOk /\ LogOk /\ FilesOk /\ MainOk /\ ConsoleOk
  BY DEF Inv
<1>0. /\ w # "log" /\ cur[w] # None /\ Count(w) /\ bulk_files' = Append(bulk_files, cur[w])
      /\ UNCHANGED <<input, mgr, main_metric, main, queue, at, row, console>>
  BY DEF WriteBulk
<1>2. /\ cur' = [cur EXCEPT ![w] = None] /\ cur[w] \in Bulk
      /\ UNCHANGED <<input, mgr, main_metric, main, queue>>
      /\ metrics' \in [Workers -> ThreadMetrics]
      /\ metrics'[w].block_num = metrics[w].block_num + 1
      /\ \A v \in Workers \ {w} : metrics'[v] = metrics[v]
      /\ Balanced(BlockCount, BusyCount, TakenCount)' /\ CommandsOk(f)' /\ MainOk'
      /\ \A p \in Pools : QueueOk(p)' /\ Taken(p)' = Taken(p) /\ (Finished(p) => Finished(p)')
  BY <1>0, OutputCounts
<1>3. bulk_files' = Append(bulk_files, cur[w]) /\ UNCHANGED <<at, row, console>>
  BY <1>0
<1>4. /\ bulk_files' \in Seq(Bulk) /\ Len(bulk_files') = Len(bulk_files) + 1
      /\ Range(bulk_files') = Range(bulk_files) \cup {cur[w]}
  <2>1. bulk_files \in Seq(Bulk)
    BY <1>1 DEF Types
  <2> QED  BY <1>2, <1>3, <2>1, Appended, SMTT(30)
<1>5. /\ "log" \in Workers \ {w} /\ "log" \in Pools /\ "file" \in Pools /\ w \in Threads("file")
      /\ (w = "file1" /\ "file2" \in Workers \ {w}) \/ (w = "file2" /\ "file1" \in Workers \ {w})
  BY <1>0 DEF Workers, Pools, Threads, PoolOf
<1>6. \A v \in Workers \ {w} : cur'[v] = cur[v]
  BY <1>2
<1>7. Types'
  BY <1>1, <1>2, <1>3, <1>4 DEF Types
<1>8. BlocksOk'
  <2>1. metrics["file1"].block_num \in Nat /\ metrics["file2"].block_num \in Nat
    BY <1>1, Parts DEF Workers
  <2>2. Len(bulk_files) = metrics["file1"].block_num + metrics["file2"].block_num
    BY <1>1 DEF BlocksOk
  <2>3. /\ Len(bulk_files) + 1 = (metrics["file1"].block_num + 1) + metrics["file2"].block_num
        /\ Len(bulk_files) + 1 = metrics["file1"].block_num + (metrics["file2"].block_num + 1)
    BY <2>1, <2>2, OneMore, ZenonT(30)
  <2>4. Len(bulk_files') = metrics'["file1"].block_num + metrics'["file2"].block_num
    BY <1>2, <1>4, <1>5, <2>3, Zenon
  <2> QED  BY <1>2, <2>4 DEF BlocksOk
<1>9. \A i : Begun(i)' = Begun(i)
  BY <1>3 DEF Begun
<1>10. LogOk'
  <2>1. Unended' = Unended /\ metrics'["log"] = metrics["log"] /\ cur'["log"] = cur["log"]
    BY <1>2, <1>3, <1>5, <1>6 DEF Unended
  <2>2. Taken("log")' = Taken("log") /\ Begun(Len(console))' = Begun(Len(console))
    BY <1>2, <1>3, <1>5 DEF Begun
  <2>3. UNCHANGED <<mgr, at>>
    BY <1>2, <1>3
  <2>4. /\ Cardinality(Begun(Len(console)))' = (metrics["log"].block_num + Unended)'
        /\ (at > 0 => cur["log"] # None)'
    BY <1>1, <2>1, <2>2, <2>3 DEF LogOk
  <2>5. (cur["log"] # None => cur["log"] = mgr.sent[Taken("log")])'
    BY <1>1, <2>1, <2>2, <2>3 DEF LogOk
  <2> QED  BY <2>4, <2>5, Zenon DEF LogOk
<1>11. FilesOk'
  <2>1. Range(bulk_files') \subseteq Range(mgr'.sent)
    BY <1>0, <1>1, <1>2, <1>4, <1>5 DEF FilesOk
  <2>2. \A v \in Threads("file") : cur'[v] # None => cur'[v] \in Range(mgr'.sent)
    BY <1>1, <1>2, <1>6 DEF FilesOk, Threads, Types
  <2>3. ASSUME NEW n \in 1 .. Taken("file")'
        PROVE  mgr'.sent[n] \in Range(bulk_files') \/ \E v \in Threads("file") : cur'[v] = mgr'.sent[n]
    <3>1. n \in 1 .. Taken("file")
      BY <1>2, <1>5
    <3>2. mgr.sent[n] \in Range(bulk_files) \/ \E v \in Threads("file") : cur[v] = mgr.sent[n]
      BY <1>1, <3>1 DEF FilesOk
    <3>3. \A v \in Threads("file") : v = w \/ v \in Workers \ {w}
      BY DEF Threads
    <3> QED  BY <1>2, <1>4, <1>6, <3>2, <3>3
  <2> QED  BY <2>1, <2>2, <2>3 DEF FilesOk
<1>12. ConsoleOk'
  <2>1. ASSUME NEW i \in DOMAIN console, EntryOk(i) PROVE EntryOk(i)'
    BY <1>2, <1>3, <1>5, <1>9, <2>1 DEF EntryOk
  <2> QED  BY <1>1, <1>3, <2>1 DEF ConsoleOk
<1> QED  BY <1>2, <1>7, <1>8, <1>10, <1>11, <1>12 DEF Inv

-----------------------------------------------------------------------------
\* The end: main destroys the pools and prints its own metrics.

\* Nothing of a finished pool is in a queue or in a thread's hands.
LEMMA FinishedCounts ==
  ASSUME Types, NEW p \in Pools, Finished(p)
  PROVE  Taken(p) = Len(mgr.sent) /\ \A w \in Threads(p) : Busy(w) = 0 /\ Held(w) = 0
<1>1. Len(mgr.sent) \in Nat
  BY Parts
<1>2. Len(queue[p]) = 0
  BY DEF Finished
<1> DEFINE n == Len(mgr.sent)
           k == Len(queue[p])
<1>3. n - k = n
  <2> HIDE DEF n, k
  <2>1. n \in Nat /\ k = 0
    BY <1>1, <1>2 DEF n, k
  <2> QED  BY <2>1
<1> QED  BY <1>3 DEF Taken, Finished, Busy, Held

LEMMA LogCounts ==
  ASSUME Types, BlocksOk, Finished("log") PROVE metrics["log"].block_num = Len(mgr.sent)
<1>1. "log" \in Threads("log") /\ "log" \in Pools /\ "log" \in Workers
  BY DEF Threads, PoolOf, Workers, Pools
<1> DEFINE b == metrics["log"].block_num
<1>2. b \in Nat
  BY <1>1, Parts
<1>3. b + 0 = Len(mgr.sent)
  <2>1. BlockCount["log"] = b /\ BusyCount["log"] = Busy("log") /\ TakenCount["log"] = Taken("log")
    BY <1>1, Zenon DEF BlockCount, BusyCount, TakenCount
  <2>2. Busy("log") = 0 /\ Taken("log") = Len(mgr.sent)
    BY <1>1, FinishedCounts
  <2> QED  BY <2>1, <2>2, Zenon DEF BlocksOk, Balanced
<1> HIDE DEF b
<1>4. b + 0 = b
  BY <1>2
<1> QED  BY <1>3, <1>4 DEF b

\* Something other than a bulk is printed, by main.
LEMMA AnnounceKept ==
  ASSUME NEW f \in [Nat -> Nat], Inv(f), NEW e \in Entries, e.kind # "bulk",
         console' = Append(console, e), MainOk', main \in {"log", "file", "print"}, row' \in Nat,
         main' \in {"file", "log", "print", "exit"},
         main \in {"log", "print"} => main' # "file" /\ e.kind \in {"log", "main"},
         e.kind = "main" <=> main' = "exit",
         e.kind = "log" => /\ main' \in {"log", "print"} /\ Finished("log")
                           /\ metrics["log"].block_num = Len(mgr.sent),
         UNCHANGED <<input, mgr, main_metric, queue, cur, metrics, at, bulk_files>>
  PROVE  Inv(f)'
<1>1. /\ Types /\ (\A q \in Pools : QueueOk(q)) /\ BlocksOk /\ CommandsOk(f)
      /\ LogOk /\ FilesOk /\ MainOk /\ ConsoleOk
  BY DEF Inv
<1>2. PICK k \in Nat : k = Len(console)
  BY <1>1, LenProperties DEF Types
<1>3. /\ console' \in Seq(Entries) /\ Len(console') = k + 1
      /\ DOMAIN console = 1 .. k /\ DOMAIN console' = 1 .. k + 1 /\ console'[k + 1] = e
      /\ \A i \in 1 .. k : console'[i] = console[i] /\ Begun(i)' = Begun(i)
      /\ Cardinality(Begun(k + 1)') = Cardinality(Begun(k))
      /\ \A i \in 1 .. k + 1 : i \in 1 .. k \/ i = k + 1
  BY <1>1, <1>2, ConsoleGrows DEF Begins
<1>4. Cardinality(Begun(k)) = metrics["log"].block_num + Unended
  BY <1>1, <1>2 DEF LogOk
<1>5. Types'
  BY <1>1, <1>3 DEF Types
<1>6. /\ (\A p \in Pools : QueueOk(p)') /\ BlocksOk' /\ CommandsOk(f)' /\ FilesOk'
      /\ \A p \in Pools : Taken(p)' = Taken(p) /\ Finished(p)' = Finished(p)
  BY OnlyConsole
<1>7. LogOk'
  <2>1. Begun(Len(console))' = Begun(k + 1)'
    BY <1>3 DEF Begun
  <2>2. Taken("log")' = Taken("log") /\ Unended' = Unended
    BY DEF Taken, Unended
  <2> QED  BY <1>1, <1>3, <1>4, <2>1, <2>2 DEF LogOk
<1>8. ConsoleOk'
  <2>1. ASSUME NEW i \in 1 .. k PROVE EntryOk(i)'
    <3>1. EntryOk(i) /\ console'[i] = console[i] /\ Begun(i)' = Begun(i)
      BY <1>1, <1>3 DEF ConsoleOk
    <3>2. console[i].kind = "log"
            => /\ main' \in {"log", "print", "exit"} /\ Finished("log")'
               /\ \A j \in DOMAIN console' : j > i => console'[j].kind \in {"log", "main"}
      <4>1. ASSUME console[i].kind = "log"
            PROVE  /\ main' \in {"log", "print", "exit"} /\ e.kind \in {"log", "main"}
                   /\ Finished("log")
                   /\ \A j \in 1 .. k : j > i => console[j].kind \in {"log", "main"}
        BY <1>3, <3>1, <4>1 DEF EntryOk
      <4>2. Finished("log")' = Finished("log")
        BY <1>6 DEF Pools
      <4> QED  BY <1>3, <4>1, <4>2
    <3>3. console[i].kind # "main"
      BY <3>1 DEF EntryOk
    <3>4. Cardinality(Begun(i)') = Cardinality(Begun(i))
      BY <3>1
    <3> QED  BY <3>1, <3>2, <3>3, <3>4 DEF EntryOk
  <2>2. ASSUME NEW i, i = k + 1 PROVE EntryOk(i)'
    <3>1. /\ console'[i] = e
          /\ e.kind = "log" => /\ Cardinality(Begun(i)') = Len(mgr.sent) /\ Finished("log")'
                                /\ main' \in {"log", "print", "exit"}
      <4>1. ASSUME e.kind = "log" PROVE Cardinality(Begun(i)') = Len(mgr.sent)
        <5>1. at = 0
          <6>1. cur["log"] = None /\ at \in Nat
            BY <1>1, <4>1 DEF Finished, Threads, PoolOf, Workers, Types
          <6> QED  BY <1>1, <6>1 DEF LogOk
        <5>2. Cardinality(Begun(i)') = Len(mgr.sent) + 0 /\ Len(mgr.sent) \in Nat
          BY <1>1, <1>3, <1>4, <2>2, <4>1, <5>1, Parts DEF Unended
        <5> DEFINE l == Len(mgr.sent)
        <5> HIDE DEF l
        <5>3. l \in Nat /\ Cardinality(Begun(i)') = l + 0
          BY <5>2 DEF l
        <5> QED  BY <5>3 DEF l
      <4>2. Finished("log")' = Finished("log")
        BY <1>6 DEF Pools
      <4> QED  BY <1>3, <2>2, <4>1, <4>2
    <3>2. ASSUME NEW j \in DOMAIN console' PROVE ~(j > i)
      <4>1. j \in 1 .. k + 1
        BY <1>3
      <4> QED  BY <1>2, <2>2, <4>1
    <3>3. i = Len(console')
      BY <1>3, <2>2
    <3> QED  BY <3>1, <3>2, <3>3, Zenon DEF EntryOk
  <2> QED  BY <1>3, <2>1, <2>2 DEF ConsoleOk
<1> QED  BY <1>5, <1>6, <1>7, <1>8 DEF Inv

LEMMA MetricsPiece ==
  ASSUME NEW kind \in {"file", "log", "main"}, NEW n \in Nat
  PROVE  Piece(kind, n, <<>>) \in Entries /\ Piece(kind, n, <<>>).kind = kind
BY DEF Piece, Entries, Bulk

\* ~ThreadPool of the files, then of the log.
LEMMA DestroyPoolKept ==
  ASSUME NEW f \in [Nat -> Nat], Inv(f), NEW p \in Pools, DestroyPool(p) PROVE Inv(f)'
<1>1. Types /\ BlocksOk /\ MainOk
  BY DEF Inv
<1>2. /\ main = p /\ Finished(p) /\ console' = Append(console, Piece(p, row, <<>>))
      /\ \/ row' = row + 1 /\ main' = main
         \/ row' = 0 /\ main' = IF p = "file" THEN "log" ELSE "print"
      /\ UNCHANGED <<input, mgr, main_metric, queue, cur, metrics, at, bulk_files>>
  BY DEF DestroyPool
<1> DEFINE e == Piece(p, row, <<>>)
<1>4. p \in {"log", "file"}
  BY DEF Pools
<1>3. e \in Entries /\ e.kind = p /\ row' \in Nat
  <2>1. row \in Nat
    BY <1>1 DEF Types
  <2>2. row' = row + 1 \/ row' = 0
    BY <1>2
  <2>3. row' \in Nat
    BY <2>1, <2>2
  <2> QED  BY <1>4, <2>1, <2>3, MetricsPiece
<1>5. MainOk'
  <2>1. \A q \in Pools : Finished(q)' = Finished(q)
    BY <1>2 DEF Finished
  <2>2. Pending(mgr)' = 0
    BY <1>1, <1>2, <1>4 DEF MainOk, Pending
  <2>3. "log" \in Pools /\ "file" \in Pools
    BY DEF Pools
  <2> QED  BY <1>1, <1>2, <1>4, <2>1, <2>2, <2>3 DEF MainOk
<1>6. p = "log" => metrics["log"].block_num = Len(mgr.sent)
  BY <1>1, <1>2, LogCounts
<1> HIDE DEF e
<1>7. console' = Append(console, e)
  BY <1>2 DEF e
<1>8. /\ main \in {"log", "file", "print"} /\ main' \in {"file", "log", "print", "exit"}
      /\ main \in {"log", "print"} => main' # "file" /\ e.kind \in {"log", "main"}
      /\ e.kind = "main" <=> main' = "exit"
      /\ e.kind = "log" => main' \in {"log", "print"} /\ Finished("log")
  BY <1>2, <1>3, <1>4
<1> QED  BY <1>2, <1>3, <1>4, <1>5, <1>6, <1>7, <1>8, AnnounceKept

LEMMA PrintMainKept ==
  ASSUME NEW f \in [Nat -> Nat], Inv(f), PrintMain PROVE Inv(f)'
<1>1. MainOk /\ Types
  BY DEF Inv
<1>2. /\ main = "print" /\ main' = "exit"
      /\ console' = Append(console, Piece("main", 0, <<>>))
      /\ UNCHANGED <<input, mgr, main_metric, queue, cur, metrics, at, row, bulk_files>>
  BY DEF PrintMain
<1> DEFINE e == Piece("main", 0, <<>>)
<1>3. e \in Entries /\ e.kind = "main" /\ row' \in Nat
  BY <1>1, <1>2 DEF Entries, Bulk, Piece, Types
<1>4. MainOk'
  BY <1>1, <1>2 DEF MainOk, Finished, Pending
<1> HIDE DEF e
<1>5. console' = Append(console, e)
  BY <1>2 DEF e
<1> QED  BY <1>2, <1>3, <1>4, <1>5, AnnounceKept

-----------------------------------------------------------------------------
\* The invariant, and what it shows.

LEMMA InitInv == MtInit => IInv
<1> SUFFICES ASSUME MtInit PROVE IInv
  OBVIOUS
<1> DEFINE f == [n \in Nat |-> 0]
<1>1. f \in [Nat -> Nat] /\ f[0] = 0
  OBVIOUS
<1>2. /\ mgr.sent = <<>> /\ mgr.cur_bulk = <<>> /\ mgr.handler = "general" /\ mgr.nesting = 0
      /\ mgr \in Managers /\ Len(mgr.sent) = 0 /\ Pending(mgr) = 0
  BY DEF MtInit, NewManager, Managers, Bulk, Pending
<1>3. Types
  BY <1>2 DEF MtInit, Types, MainMetrics, ThreadMetrics, Pools, Bulk
<1>4. \A p \in Pools : Taken(p) = 0 /\ queue[p] = <<>>
  BY <1>2 DEF MtInit, Taken
<1>5. \A w \in Workers : /\ cur[w] = None /\ Busy(w) = 0 /\ Held(w) = 0
                         /\ metrics[w].block_num = 0 /\ metrics[w].command_num = 0
  BY DEF MtInit, Busy, Held
<1>6. 0 + 0 = 0 /\ 0 + 0 + 0 + 0 = 0
  OBVIOUS
<1>7. ASSUME NEW x \in [Workers -> {0}], NEW y \in [Workers -> {0}], NEW z \in [Pools -> {0}]
      PROVE  Balanced(x, y, z)
  <2>1. /\ \A w \in Workers : x[w] = 0 /\ y[w] = 0
        /\ \A p \in Pools : z[p] = 0
    OBVIOUS
  <2>2. /\ "log" \in Workers /\ "file1" \in Workers /\ "file2" \in Workers
        /\ "log" \in Pools /\ "file" \in Pools
    BY DEF Workers, Pools
  <2> QED  BY <1>6, <2>1, <2>2, Zenon DEF Balanced
<1>8. \A p \in Pools : QueueOk(p)
  BY <1>4 DEF QueueOk
<1>9. BlocksOk
  <2>1. Balanced(BlockCount, BusyCount, TakenCount)
    BY <1>4, <1>5, <1>7 DEF BlockCount, BusyCount, TakenCount
  <2>2. Len(bulk_files) = 0 /\ "file1" \in Workers /\ "file2" \in Workers
    BY DEF MtInit, Workers
  <2> QED  BY <1>5, <1>6, <2>1, <2>2, Zenon DEF BlocksOk
<1>10. CommandsOk(f)
  <2>1. Balanced(CommandCount, HeldCount, TakenCommands(f))
    <3>1. TakenCommands(f) \in [Pools -> {0}]
      BY <1>1, <1>4 DEF TakenCommands
    <3>2. CommandCount \in [Workers -> {0}] /\ HeldCount \in [Workers -> {0}]
      BY <1>5 DEF CommandCount, HeldCount
    <3> QED  BY <1>7, <3>1, <3>2
  <2>2. Sums(f, mgr.sent)
    <3>1. \A n : n \notin 1 .. 0
      OBVIOUS
    <3> QED  BY <1>1, <1>2, <3>1, Zenon DEF Sums
  <2>3. main_metric.command_num = 0
    BY DEF MtInit
  <2>4. f[Len(mgr.sent)] = 0
    BY <1>1, <1>2, Zenon
  <2> QED  BY <1>2, <1>6, <2>1, <2>2, <2>3, <2>4, Zenon DEF CommandsOk
<1>11. LogOk
  <2>1. Len(console) = 0 /\ "log" \in Workers
    BY DEF MtInit, Workers
  <2>2. Begun(Len(console)) = {}
    BY <2>1 DEF Begun
  <2>3. Cardinality({}) = 0
    BY FS_EmptySet
  <2>4. 0 = 0 + Unended /\ ~(at > 0)
    BY DEF MtInit, Unended
  <2> QED  BY <1>5, <2>1, <2>2, <2>3, <2>4, Zenon DEF LogOk
<1>12. FilesOk
  <2>1. Range(bulk_files) = {}
    BY DEF MtInit, Range
  <2>2. "file" \in Pools /\ \A w \in Threads("file") : cur[w] = None
    BY <1>5 DEF Pools, Threads
  <2>3. \A n : n \notin 1 .. Taken("file")
    <3>1. \A n : n \notin 1 .. 0
      OBVIOUS
    <3> QED  BY <1>4, <2>2, <3>1, Zenon
  <2> QED  BY <2>1, <2>2, <2>3 DEF FilesOk
<1>13. MainOk /\ ConsoleOk
  BY DEF MtInit, MainOk, ConsoleOk
<1>14. Inv(f)
  BY <1>3, <1>8, <1>9, <1>10, <1>11, <1>12, <1>13 DEF Inv
<1> QED  BY <1>1, <1>14 DEF IInv

LEMMA StepInv == IInv /\ [MtNext]_mtVars => IInv'
<1> SUFFICES ASSUME NEW f \in [Nat -> Nat], Inv(f), [MtNext]_mtVars
             PROVE  \E e \in [Nat -> Nat] : Inv(e)'
  BY DEF IInv
<1>1. ASSUME NEW text \in Text, ReadLine(text) PROVE \E e \in [Nat -> Nat] : Inv(e)'
  <2> DEFINE n == Len(input) + 1
             cmd == ToCommand(text, n)
  <2>1. input \in Seq(Text) /\ MainOk
    BY DEF Inv, Types
  <2>2. n \in Nat
    BY <2>1, LenProperties
  <2>3. cmd \in Commands
    <3> HIDE DEF n
    <3> QED  BY <2>2 DEF ToCommand, CommandType, Commands
  <2>4. input' \in Seq(Text)
    BY <1>1, <2>1, AppendProperties DEF ReadLine
  <2>5. /\ Add(cmd) /\ main = "read" /\ main' = "read"
        /\ UNCHANGED <<cur, metrics, at, row, console, bulk_files>>
    BY <1>1 DEF ReadLine
  <2> HIDE DEF cmd
  <2> QED  BY <2>3, <2>4, <2>5, AddKept
<1>2. ASSUME ReadEnd PROVE \E e \in [Nat -> Nat] : Inv(e)'
  <2>1. Terminator \in Commands
    BY DEF Terminator, Commands
  <2>2. /\ Add(Terminator) /\ main = "read" /\ main' = "file" /\ input' = input
        /\ UNCHANGED <<cur, metrics, at, row, console, bulk_files>>
    BY <1>2 DEF ReadEnd
  <2>3. Types
    BY DEF Inv
  <2>4. Pending(mgr') = 0
    <3>1. mgr' = AddCmd(mgr, Terminator, BulkSize)
      BY <2>2 DEF Add
    <3> QED  BY <2>3, <3>1, NothingPending DEF Types
  <2> QED  BY <2>1, <2>2, <2>3, <2>4, AddKept DEF Types
<1>3. ASSUME NEW p \in Pools, DestroyPool(p) PROVE Inv(f)'
  BY <1>3, DestroyPoolKept
<1>4. ASSUME PrintMain PROVE Inv(f)'
  BY <1>4, PrintMainKept
<1>5. ASSUME NEW w \in Workers, TakeBulk(w) PROVE Inv(f)'
  BY <1>5, TakeKept
<1>6. ASSUME NEW w \in Workers, WriteBulk(w) PROVE Inv(f)'
  BY <1>6, WriteKept
<1>8. ASSUME InsertText \/ InsertEnd PROVE Inv(f)'
  BY <1>8, InsertTextKept, InsertEndKept
<1>7. ASSUME UNCHANGED mtVars PROVE Inv(f)'
  <2>1. UNCHANGED <<input, mgr, main_metric, main, queue, cur, metrics, at, row, console, bulk_files>>
    BY <1>7 DEF mtVars
  <2>2. \A p \in Pools : Taken(p)' = Taken(p)
    BY <2>1 DEF Taken
  <2>3. \A w \in Workers : Busy(w)' = Busy(w) /\ Held(w)' = Held(w)
    BY <2>1 DEF Busy, Held
  <2>4. \A i : Begun(i)' = Begun(i)
    BY <2>1 DEF Begun
  <2>5. /\ "file" \in Pools /\ "log" \in Pools /\ Unended' = Unended
        /\ \A p \in Pools : Finished(p)' = Finished(p)
    BY <2>1 DEF Pools, Unended, Finished
  <2>6. Types' /\ (\A p \in Pools : QueueOk(p)') /\ FilesOk' /\ LogOk' /\ MainOk'
    BY <2>1, <2>2, <2>4, <2>5, ZenonT(30) DEF Inv, Types, QueueOk, FilesOk, LogOk, MainOk, Pending
  <2>7. BlocksOk' /\ CommandsOk(f)'
    BY <2>1, <2>2, <2>3 DEF Inv, BlocksOk, BlockCount, BusyCount, TakenCount,
                            CommandsOk, CommandCount, HeldCount, TakenCommands, Pending
  <2>8. ConsoleOk'
    BY <2>1, <2>4, <2>5 DEF Inv, ConsoleOk, EntryOk
  <2> QED  BY <2>6, <2>7, <2>8 DEF Inv
<1> QED  BY <1>1, <1>2, <1>3, <1>4, <1>5, <1>6, <1>7, <1>8 DEF MtNext, MainThread

\* Every state of bulkmt is one of the invariant's.
THEOREM Invariance == MtSpec => []IInv
<1> QED  BY InitInv, StepInv, PTL DEF MtSpec

LEMMA CountsAgree ==
  ASSUME NEW a \in Nat, NEW b \in Nat, NEW c, NEW d, d = c + 0, a + b + 0 + 0 = c
  PROVE  a + b = d
<1>1. a + b \in Nat /\ a + b = c
  OBVIOUS
<1> QED  BY <1>1

\* What the counters of the threads sum to when both pools are finished.
LEMMA AllCounted ==
  ASSUME Types, NEW x \in [Workers -> Nat], NEW y, NEW z, Balanced(x, y, z),
         \A w \in Workers : y[w] = 0
  PROVE  x["log"] = z["log"] /\ x["file1"] + x["file2"] = z["file"]
<1>1. "log" \in Workers /\ "file1" \in Workers /\ "file2" \in Workers
  BY DEF Workers
<1> DEFINE l == x["log"]
           a == x["file1"]
           b == x["file2"]
<1>2. l \in Nat /\ a \in Nat /\ b \in Nat
  BY <1>1
<1>3. l + 0 = z["log"] /\ a + b + 0 + 0 = z["file"]
  BY <1>1, Zenon DEF Balanced
<1> DEFINE zl == z["log"]
           zf == z["file"]
<1> HIDE DEF l, a, b, zl, zf
<1>4. l + 0 = l /\ zf = zf + 0
  <2>1. a + b + 0 + 0 \in Nat
    BY <1>2
  <2>2. zf \in Nat
    BY <1>3, <2>1 DEF zf
  <2> QED  BY <1>2, <2>2
<1>5. a + b = zf
  BY <1>2, <1>3, <1>4, CountsAgree DEF zf
<1> QED  BY <1>3, <1>4, <1>5, Zenon DEF l, a, b, zl, zf

\* OTUSLesson19/README.md: at the end main and both pools have counted the same
\* commands, and the pools every bulk that was sent.
THEOREM MetricsAgreeHolds == MtSpec => []MetricsAgree
<1>1. ASSUME NEW f \in [Nat -> Nat], Inv(f) PROVE MetricsAgree
  <2> SUFFICES ASSUME main = "exit"
               PROVE  /\ metrics["log"].command_num = main_metric.command_num
                      /\ metrics["file1"].command_num + metrics["file2"].command_num
                           = main_metric.command_num
                      /\ metrics["log"].block_num = Len(mgr.sent)
                      /\ metrics["file1"].block_num + metrics["file2"].block_num = Len(mgr.sent)
    BY DEF MetricsAgree
  <2>1. /\ Types /\ BlocksOk /\ CommandsOk(f) /\ MainOk
    BY <1>1 DEF Inv
  <2>2. Finished("log") /\ Finished("file") /\ Pending(mgr) = 0
    BY <2>1 DEF MainOk
  <2>3. "log" \in Pools /\ "file" \in Pools /\ Workers = Threads("log") \cup Threads("file")
    BY DEF Pools, Workers, Threads, PoolOf
  <2>4. /\ Taken("log") = Len(mgr.sent) /\ Taken("file") = Len(mgr.sent)
        /\ \A w \in Workers : Busy(w) = 0 /\ Held(w) = 0
    BY <2>1, <2>2, <2>3, FinishedCounts
  <2>5. /\ \A w \in Workers : metrics[w].block_num \in Nat /\ metrics[w].command_num \in Nat
        /\ "log" \in Workers /\ "file1" \in Workers /\ "file2" \in Workers
    BY <2>1, Parts DEF Workers
  <2>6. /\ BlockCount["log"] = TakenCount["log"]
        /\ BlockCount["file1"] + BlockCount["file2"] = TakenCount["file"]
    <3>1. BlockCount \in [Workers -> Nat] /\ \A w \in Workers : BusyCount[w] = 0
      BY <2>4, <2>5 DEF BlockCount, BusyCount
    <3> QED  BY <2>1, <3>1, AllCounted DEF BlocksOk
  <2>7. /\ CommandCount["log"] = TakenCommands(f)["log"]
        /\ CommandCount["file1"] + CommandCount["file2"] = TakenCommands(f)["file"]
    <3>1. CommandCount \in [Workers -> Nat] /\ \A w \in Workers : HeldCount[w] = 0
      BY <2>4, <2>5 DEF CommandCount, HeldCount
    <3> QED  BY <2>1, <3>1, AllCounted DEF CommandsOk
  <2>8. main_metric.command_num = f[Len(mgr.sent)]
    <3>1. Len(mgr.sent) \in Nat
      BY <2>1, Parts
    <3>2. f[Len(mgr.sent)] \in Nat
      BY <3>1
    <3> DEFINE t == f[Len(mgr.sent)]
    <3>3. t + 0 = t
      <4> HIDE DEF t
      <4>1. t \in Nat
        BY <3>2 DEF t
      <4> QED  BY <4>1
    <3> QED  BY <2>1, <2>2, <3>3, Zenon DEF CommandsOk
  <2>9. /\ TakenCount["log"] = Len(mgr.sent) /\ TakenCount["file"] = Len(mgr.sent)
        /\ TakenCommands(f)["log"] = main_metric.command_num
        /\ TakenCommands(f)["file"] = main_metric.command_num
    BY <2>3, <2>4, <2>8, Zenon DEF TakenCount, TakenCommands
  <2>10. \A w \in Workers : /\ BlockCount[w] = metrics[w].block_num
                            /\ CommandCount[w] = metrics[w].command_num
    BY DEF BlockCount, CommandCount
  <2> QED  BY <2>5, <2>6, <2>7, <2>9, <2>10, Zenon
<1>2. IInv => MetricsAgree
  BY <1>1 DEF IInv
<1> QED  BY <1>2, Invariance, PTL

-----------------------------------------------------------------------------
\* The pieces of the lines.

PieceOk(i) ==
  LET e == console[i] IN
  /\ e.kind = "bulk" /\ e.part > 0 =>
       \E j \in DOMAIN console : LastBefore(j, i) /\ console[j].part = e.part - 1
  /\ e.kind \in {"log", "main"} \/ (e.kind = "bulk" /\ e.part = 0) =>
       \A j \in DOMAIN console : LastBefore(j, i) => EndsLine(console[j])

\* What the next insertion finds.
NextPieceOk(n) ==
  /\ at > 0 => \E j \in DOMAIN console : LastBefore(j, n) /\ console[j].part = at - 1
  /\ at = 0 => \A j \in DOMAIN console : LastBefore(j, n) => EndsLine(console[j])

Pieces == (\A i \in DOMAIN console : PieceOk(i)) /\ NextPieceOk(Len(console) + 1)

LEMMA LastGrows ==
  ASSUME Types, NEW e \in Entries, console' = Append(console, e), NEW k, k = Len(console)
  PROVE  /\ k \in Nat /\ Len(console') = k + 1
         /\ DOMAIN console = 1 .. k /\ DOMAIN console' = 1 .. k + 1
         /\ console'[k + 1] = e /\ \A j \in 1 .. k : console'[j] = console[j]
         /\ \A i \in 1 .. k + 1 : \A j : LastBefore(j, i)' <=> LastBefore(j, i)
         /\ e.kind = "bulk" => \A j : LastBefore(j, k + 2)' <=> j = k + 1
         /\ e.kind # "bulk" => \A j : LastBefore(j, k + 2)' <=> LastBefore(j, k + 1)
<1>1. /\ k \in Nat /\ Len(console') = k + 1
      /\ DOMAIN console = 1 .. k /\ DOMAIN console' = 1 .. k + 1
      /\ console'[k + 1] = e /\ \A j \in 1 .. k : console'[j] = console[j]
  BY ConsoleGrows
<1> DEFINE Is(c, m) == c[m].kind = "bulk"
           Latest(c, j, i) == /\ j \in 1 .. i - 1 /\ Is(c, j)
                            /\ \A m \in 1 .. i - 1 : Is(c, m) => m <= j
<1>2. /\ \A m \in 1 .. k : Is(console', m) <=> Is(console, m)
      /\ Is(console', k + 1) <=> e.kind = "bulk"
  BY <1>1
<1>3. /\ \A j, i : LastBefore(j, i) <=> Latest(console, j, i)
      /\ \A j, i : LastBefore(j, i)' <=> Latest(console', j, i)
  BY Zenon DEF LastBefore
<1> HIDE DEF Is
<1>4. ASSUME NEW i \in 1 .. k + 1, NEW j PROVE Latest(console', j, i) <=> Latest(console, j, i)
  <2>1. \A m \in 1 .. i - 1 : m \in 1 .. k
    BY <1>1
  <2> QED  BY <1>2, <2>1
<1>5. ASSUME e.kind = "bulk", NEW j PROVE Latest(console', j, k + 2) <=> j = k + 1
  <2>1. /\ k + 2 - 1 = k + 1 /\ k + 1 \in 1 .. k + 1
        /\ \A m \in 1 .. k + 1 : m <= k + 1 /\ (k + 1 <= m => m = k + 1)
    BY <1>1
  <2> QED  BY <1>2, <1>5, <2>1
<1>6. ASSUME e.kind # "bulk", NEW j PROVE Latest(console', j, k + 2) <=> Latest(console, j, k + 1)
  <2>1. /\ k + 2 - 1 = k + 1 /\ k + 1 - 1 = k
        /\ \A m \in 1 .. k + 1 : m \in 1 .. k \/ m = k + 1
        /\ \A m \in 1 .. k : m \in 1 .. k + 1
    BY <1>1
  <2> QED  BY <1>2, <1>6, <2>1
<1> HIDE DEF Latest
<1> QED  BY <1>1, <1>3, <1>4, <1>5, <1>6

\* log goes on with its line, or something else is printed: by main, between two
\* lines unless these are the metrics of the files.
LEMMA PieceAdded ==
  ASSUME Types, Pieces, NEW e \in Entries, console' = Append(console, e),
         \/ /\ e.kind = "bulk" /\ e.part = at
            /\ at' = at + 1 \/ (at' = 0 /\ EndsLine(e))
         \/ /\ e.kind # "bulk" /\ at' = at
            /\ e.kind \in {"log", "main"} => at = 0
  PROVE  Pieces'
<1>1. PICK k \in Nat : k = Len(console)
  BY LenProperties DEF Types
<1>2. /\ Len(console') = k + 1
      /\ DOMAIN console = 1 .. k /\ DOMAIN console' = 1 .. k + 1
      /\ console'[k + 1] = e /\ \A j \in 1 .. k : console'[j] = console[j]
      /\ \A i \in 1 .. k + 1 : \A j : LastBefore(j, i)' <=> LastBefore(j, i)
      /\ e.kind = "bulk" => \A j : LastBefore(j, k + 2)' <=> j = k + 1
      /\ e.kind # "bulk" => \A j : LastBefore(j, k + 2)' <=> LastBefore(j, k + 1)
  BY <1>1, LastGrows
<1>3. /\ at \in Nat /\ k + 1 \in 1 .. k + 1 /\ at + 1 - 1 = at /\ at + 1 > 0 /\ k + 1 + 1 = k + 2
      /\ \A i \in 1 .. k : i \in 1 .. k + 1
      /\ \A i \in 1 .. k + 1 : i \in 1 .. k \/ i = k + 1
  BY <1>1 DEF Types
<1>4. \A j, i : LastBefore(j, i) /\ i \in 1 .. k + 1 => j \in 1 .. k
  BY <1>1 DEF LastBefore
<1>5. NextPieceOk(k + 1)
  BY <1>1 DEF Pieces
<1>6. ASSUME NEW i \in 1 .. k PROVE PieceOk(i)'
  <2>1. PieceOk(i) /\ console'[i] = console[i] /\ i \in 1 .. k + 1
    BY <1>2, <1>3 DEF Pieces
  <2> QED  BY <1>2, <1>3, <1>4, <2>1 DEF PieceOk
<1>7. ASSUME NEW i, i = k + 1 PROVE PieceOk(i)'
  <2>1. CASE e.kind = "bulk"
    BY <1>2, <1>3, <1>4, <1>5, <1>7, <2>1 DEF NextPieceOk, PieceOk
  <2>2. CASE e.kind # "bulk"
    BY <1>2, <1>3, <1>4, <1>5, <1>7, <2>2 DEF NextPieceOk, PieceOk
  <2> QED  BY <2>1, <2>2
<1>8. NextPieceOk(k + 2)'
  <2>1. CASE e.kind = "bulk"
    BY <1>2, <1>3, <2>1 DEF NextPieceOk
  <2>2. CASE e.kind # "bulk"
    BY <1>2, <1>3, <1>4, <1>5, <2>2 DEF NextPieceOk
  <2> QED  BY <2>1, <2>2
<1>9. Pieces' <=> (\A i \in DOMAIN console' : PieceOk(i)') /\ NextPieceOk(k + 2)'
  <2>1. Len(console') + 1 = k + 2
    BY <1>2, <1>3
  <2> QED  BY <2>1 DEF Pieces, NextPieceOk, LastBefore
<1> QED  BY <1>2, <1>3, <1>6, <1>7, <1>8, <1>9

LEMMA PiecesInit == MtInit => Pieces
<1> SUFFICES ASSUME MtInit PROVE Pieces
  OBVIOUS
<1>1. console = <<>> /\ at = 0 /\ DOMAIN console = {}
  BY DEF MtInit
<1> QED  BY <1>1 DEF Pieces, NextPieceOk

LEMMA PiecesKept == IInv /\ Pieces /\ [MtNext]_mtVars => Pieces'
<1> SUFFICES ASSUME NEW f \in [Nat -> Nat], Inv(f), Pieces, [MtNext]_mtVars PROVE Pieces'
  BY DEF IInv
<1>1. Types /\ LogOk /\ MainOk
  BY DEF Inv
<1>2. ASSUME UNCHANGED <<console, at>> PROVE Pieces'
  <2>1. \A i, j : LastBefore(j, i)' <=> LastBefore(j, i)
    BY <1>2 DEF LastBefore
  <2> QED  BY <1>2, <2>1 DEF Pieces, PieceOk, NextPieceOk
<1>3. Finished("log") => at = 0
  <2>1. ASSUME Finished("log") PROVE cur["log"] = None
    BY <2>1 DEF Finished, Threads, PoolOf, Workers
  <2> QED  BY <1>1, <2>1 DEF LogOk, Types
<1>4. cur["log"] # None => cur["log"] \in Bulk
  BY <1>1 DEF Types, Workers
<1>5. ASSUME InsertText \/ InsertEnd PROVE Pieces'
  <2> DEFINE e == Piece("bulk", at, cur["log"])
  <2>1. /\ cur["log"] # None /\ console' = Append(console, e)
        /\ at' = at + 1 \/ (at' = 0 /\ at = Len(cur["log"]) + 1)
    BY <1>5 DEF InsertText, InsertEnd
  <2>2. /\ e \in Entries /\ e.kind = "bulk" /\ e.part = at
        /\ at' = at + 1 \/ (at' = 0 /\ EndsLine(e))
    BY <1>1, <1>4, <2>1 DEF Types, Entries, Piece, EndsLine
  <2> HIDE DEF e
  <2> QED  BY <1>1, <2>1, <2>2, PieceAdded
<1>6. ASSUME NEW p \in Pools, DestroyPool(p) PROVE Pieces'
  <2> DEFINE e == Piece(p, row, <<>>)
  <2>1. Finished(p) /\ console' = Append(console, e) /\ at' = at
    BY <1>6 DEF DestroyPool
  <2>2. /\ e \in Entries /\ e.kind # "bulk"
        /\ e.kind \in {"log", "main"} => at = 0
    <3>1. row \in Nat /\ p \in {"file", "log"}
      BY <1>1 DEF Types, Pools
    <3>2. e \in Entries /\ e.kind = p
      BY <3>1, MetricsPiece
    <3> QED  BY <1>3, <2>1, <3>1, <3>2
  <2> HIDE DEF e
  <2> QED  BY <1>1, <2>1, <2>2, PieceAdded
<1>7. ASSUME PrintMain PROVE Pieces'
  <2> DEFINE e == Piece("main", 0, <<>>)
  <2>1. main = "print" /\ console' = Append(console, e) /\ at' = at
    BY <1>7 DEF PrintMain
  <2>2. e \in Entries /\ e.kind # "bulk" /\ at = 0
    BY <1>1, <1>3, <2>1 DEF Entries, Piece, Bulk, MainOk
  <2> HIDE DEF e
  <2> QED  BY <1>1, <2>1, <2>2, PieceAdded
<1>8. ASSUME NEW w \in Workers, TakeBulk(w) \/ WriteBulk(w) PROVE Pieces'
  BY <1>2, <1>8 DEF TakeBulk, WriteBulk
<1>9. ASSUME ReadEnd \/ \E text \in Text : ReadLine(text) PROVE Pieces'
  BY <1>2, <1>9 DEF ReadEnd, ReadLine
<1>10. CASE UNCHANGED mtVars
  BY <1>2, <1>10 DEF mtVars
<1> QED  BY <1>5, <1>6, <1>7, <1>8, <1>9, <1>10 DEF MtNext, MainThread

\* The console has the lines of the bulks in their order, each in its pieces'
\* order, then the log's metrics and main's, with nothing but the metrics of the
\* files inside a line; when main prints, the files have every bulk, none twice.
THEOREM OutputCompleteHolds == MtSpec => []OutputComplete
<1>1. ASSUME NEW f \in [Nat -> Nat], Inv(f), Pieces PROVE OutputComplete
  <2>1. Types /\ BlocksOk /\ FilesOk /\ MainOk /\ ConsoleOk
    BY <1>1 DEF Inv
  <2>2. DOMAIN mgr.sent = 1 .. Len(mgr.sent) /\ mgr.sent \in Seq(Bulk)
    BY <2>1, Parts, Elements
  <2>3. ASSUME main = "exit" PROVE Range(bulk_files) = Range(mgr.sent) /\ Len(bulk_files) = Len(mgr.sent)
    <3>1. /\ Finished("file") /\ "file" \in Pools
          /\ "file1" \in Threads("file") /\ "file2" \in Threads("file")
      BY <2>1, <2>3 DEF MainOk, Pools, Threads, Workers, PoolOf
    <3>2. /\ Taken("file") = Len(mgr.sent)
          /\ \A w \in Threads("file") : Busy(w) = 0 /\ cur[w] = None
      BY <2>1, <3>1, FinishedCounts DEF Finished
    <3>3. ASSUME NEW x \in Range(mgr.sent) PROVE x \in Range(bulk_files)
      <4>1. PICK n \in 1 .. Len(mgr.sent) : mgr.sent[n] = x
        BY <2>2, <3>3, Elements
      <4>2. x # None
        <5>1. x \in Bulk
          BY <2>2, <3>3, Elements
        <5> QED  BY <5>1, BulkMtAssumption DEF Bulk
      <4> QED  BY <2>1, <3>2, <4>1, <4>2 DEF FilesOk
    <3>4. Len(bulk_files) = Len(mgr.sent)
      <4>1. "file1" \in Workers /\ "file2" \in Workers
        BY DEF Workers
      <4> DEFINE a == metrics["file1"].block_num
                 b == metrics["file2"].block_num
      <4>2. a \in Nat /\ b \in Nat
        BY <2>1, <4>1, Parts
      <4>3. a + b + 0 + 0 = Len(mgr.sent)
        BY <2>1, <3>1, <3>2, <4>1, Zenon
        DEF BlocksOk, Balanced, BlockCount, BusyCount, TakenCount
      <4>4. Len(bulk_files) = a + b
        BY <2>1 DEF BlocksOk
      <4>5. Len(mgr.sent) = Len(mgr.sent) + 0
        <5> DEFINE l == Len(mgr.sent)
        <5>1. l \in Nat
          BY <2>1, Parts
        <5> HIDE DEF l
        <5>2. l = l + 0
          BY <5>1
        <5> QED  BY <5>2 DEF l
      <4> HIDE DEF a, b
      <4>6. a + b = Len(mgr.sent)
        BY <4>2, <4>3, <4>5, CountsAgree
      <4> QED  BY <4>4, <4>6
    <3> QED  BY <2>1, <3>3, <3>4 DEF FilesOk
  <2>4. ASSUME NEW i \in DOMAIN console
        PROVE  LET e == console[i]
                   no == Cardinality(Begun(i))
               IN  /\ e.kind = "bulk" =>
                        /\ no \in DOMAIN mgr.sent /\ e.data = mgr.sent[no]
                        /\ e.part > 0 => \E j \in DOMAIN console :
                                            LastBefore(j, i) /\ console[j].part = e.part - 1
                   /\ e.kind \in {"log", "main"} \/ (e.kind = "bulk" /\ e.part = 0) =>
                        \A j \in DOMAIN console : LastBefore(j, i) => EndsLine(console[j])
                   /\ e.kind = "log" =>
                        /\ no = Len(mgr.sent)
                        /\ \A j \in DOMAIN console : j > i => console[j].kind \in {"log", "main"}
                   /\ e.kind = "main" =>
                        /\ i = Len(console)
                        /\ Range(bulk_files) = Range(mgr.sent) /\ Len(bulk_files) = Len(mgr.sent)
    <3>1. EntryOk(i) /\ PieceOk(i)
      BY <1>1, <2>1 DEF ConsoleOk, Pieces
    <3>2. /\ console[i].kind = "bulk" =>
               Cardinality(Begun(i)) \in DOMAIN mgr.sent /\ console[i].data = mgr.sent[Cardinality(Begun(i))]
          /\ console[i].kind = "log" =>
               /\ Cardinality(Begun(i)) = Len(mgr.sent)
               /\ \A j \in DOMAIN console : j > i => console[j].kind \in {"log", "main"}
          /\ console[i].kind = "main" =>
               i = Len(console) /\ Range(bulk_files) = Range(mgr.sent) /\ Len(bulk_files) = Len(mgr.sent)
      BY <2>2, <2>3, <3>1 DEF EntryOk
    <3> QED  BY <3>1, <3>2, Zenon DEF PieceOk
  <2> QED  BY <2>4 DEF OutputComplete
<1>2. IInv /\ Pieces => OutputComplete
  BY <1>1 DEF IInv
<1>3. MtInit => IInv /\ Pieces
  BY InitInv, PiecesInit
<1>4. IInv /\ Pieces /\ [MtNext]_mtVars => (IInv /\ Pieces)'
  BY StepInv, PiecesKept
<1> QED  BY <1>2, <1>3, <1>4, PTL DEF MtSpec

-----------------------------------------------------------------------------
\* The manager's state is that of the lines read; the end of the input fixes
\* what it has sent.
ByTheBook ==
  /\ input \in Seq(Text)
  /\ main = "read" => Book(mgr, input, BulkSize)
  /\ main # "read" => mgr.sent = BulksOf(input, BulkSize, TRUE)

LEMMA ByTheBookInit == MtInit => ByTheBook
<1> SUFFICES ASSUME MtInit PROVE ByTheBook
  OBVIOUS
<1>1. input = <<>> /\ mgr = NewManager /\ main = "read"
  BY DEF MtInit
<1>2. Book(NewManager, <<>>, BulkSize)
  BY BulkMtAssumption, BookEmpty
<1>3. <<>> \in Seq(Text)
  OBVIOUS
<1> QED  BY <1>1, <1>2, <1>3 DEF ByTheBook

LEMMA ByTheBookKept == ByTheBook /\ [MtNext]_mtVars => ByTheBook'
<1> SUFFICES ASSUME ByTheBook, [MtNext]_mtVars PROVE ByTheBook'
  OBVIOUS
<1>1. ASSUME NEW text \in Text, ReadLine(text) PROVE ByTheBook'
  <2>1. /\ main = "read" /\ main' = "read" /\ input \in Seq(Text)
        /\ input' = Append(input, text)
        /\ mgr' = AddCmd(mgr, ToCommand(text, Len(input) + 1), BulkSize)
    BY <1>1 DEF ReadLine, Add, ByTheBook
  <2>2. input' \in Seq(Text)
    BY <2>1, AppendProperties
  <2>3. Book(mgr', input', BulkSize)
    <3>1. Book(mgr, input, BulkSize)
      BY <2>1 DEF ByTheBook
    <3> QED  BY <2>1, <3>1, BookGrows, BulkMtAssumption
  <2> QED  BY <2>1, <2>2, <2>3 DEF ByTheBook
<1>2. ASSUME ReadEnd PROVE ByTheBook'
  <2>1. /\ main = "read" /\ main' # "read" /\ input \in Seq(Text) /\ input' = input
        /\ mgr' = AddCmd(mgr, Terminator, BulkSize)
    BY <1>2 DEF ReadEnd, Add, ByTheBook
  <2>2. mgr'.sent = BulksOf(input, BulkSize, TRUE)
    <3>1. Book(mgr, input, BulkSize)
      BY <2>1 DEF ByTheBook
    <3> QED  BY <2>1, <3>1, BookSays, BulkMtAssumption
  <2> QED  BY <2>1, <2>2 DEF ByTheBook
<1>3. ASSUME UNCHANGED <<input, mgr>>, (main = "read") <=> (main' = "read")
      PROVE  ByTheBook'
  BY <1>3 DEF ByTheBook
<1>4. ASSUME NEW p \in Pools, DestroyPool(p) PROVE ByTheBook'
  BY <1>3, <1>4 DEF DestroyPool, Pools
<1>5. ASSUME PrintMain PROVE ByTheBook'
  BY <1>3, <1>5 DEF PrintMain
<1>6. ASSUME NEW w \in Workers, TakeBulk(w) \/ WriteBulk(w) PROVE ByTheBook'
  BY <1>3, <1>6 DEF TakeBulk, WriteBulk
<1>8. ASSUME InsertText \/ InsertEnd PROVE ByTheBook'
  BY <1>3, <1>8 DEF InsertText, InsertEnd
<1>7. CASE UNCHANGED mtVars
  BY <1>3, <1>7 DEF mtVars
<1> QED  BY <1>1, <1>2, <1>4, <1>5, <1>6, <1>7, <1>8 DEF MtNext, MainThread

\* Of every input, however long, and for every size of a bulk, the manager sends
\* the bulks the READMEs describe: the state machine that sees one line at a time
\* and the description that sees the whole input agree after each line.
THEOREM BulksByTheBookHolds == MtSpec => []BulksByTheBook
<1>1. ByTheBook => BulksByTheBook
  <2> SUFFICES ASSUME ByTheBook PROVE BulksByTheBook
    OBVIOUS
  <2>1. CASE main = "read"
    <3>1. Book(mgr, input, BulkSize) /\ input \in Seq(Text)
      BY <2>1 DEF ByTheBook
    <3>2. mgr.sent = BulksOf(input, BulkSize, FALSE)
      BY <3>1, BookSays, BulkMtAssumption
    <3>3. (main # "read") = FALSE
      BY <2>1
    <3> QED  BY <3>2, <3>3 DEF BulksByTheBook
  <2>2. CASE main # "read"
    <3>1. mgr.sent = BulksOf(input, BulkSize, TRUE) /\ (main # "read") = TRUE
      BY <2>2 DEF ByTheBook
    <3> QED  BY <3>1 DEF BulksByTheBook
  <2> QED  BY <2>1, <2>2
<1> QED  BY <1>1, ByTheBookInit, ByTheBookKept, PTL DEF MtSpec
=============================================================================
