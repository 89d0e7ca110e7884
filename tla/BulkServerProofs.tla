--------------------------- MODULE BulkServerProofs ---------------------------
(***************************************************************************)
(* Theorems about bulk_server, for every number of clients, every size of  *)
(* a bulk and whatever the clients send: nothing is dropped but a block    *)
(* that is never closed, the commands of a client keep their order, blocks *)
(* stay whole, every bulk is printed once and written once, and the last   *)
(* to leave flushes the bulk that all share.                               *)
(*                                                                         *)
(* The managers lag behind the clients by the lines in the buffers.  The   *)
(* invariants therefore speak of done[c], what c has sent up to the last   *)
(* line its manager has handled; it exists, but no variable holds it.      *)
(***************************************************************************)
EXTENDS BulkServer, SequenceTheorems, TLAPS

Bulk == Seq(Command)
States == [lines : Nat, depth : Nat, blocks : Nat]
Line == [text : Text, cmd : Command, complete : BOOLEAN]
IoStates == [pc : {"run", "receive", "rest", "terminate", "erase"}, c : Clients \cup {None}]

Types ==
  /\ handler \in [Clients -> {"general", "custom"}] /\ nesting \in [Clients -> Nat]
  /\ custom \in [Clients -> Bulk] /\ general \in Bulk
  /\ coutq \in [Clients -> Seq(Bulk)] /\ fileq \in [Clients -> Seq(Bulk)]
  /\ conn \in [Clients -> {"none", "open", "gone"}]
  /\ buffer \in [Clients -> Seq(Line)] /\ io \in IoStates
  /\ console \in Seq(Bulk) /\ files \in Seq(Bulk) /\ formed \in Seq(Bulk)
  /\ sender \in [Clients -> States] /\ received \subseteq Command

-----------------------------------------------------------------------------
\* The lines in a buffer are the ones the client has sent after done[c].

StateAfter(s, buf, n) ==
  IF n = 0 THEN s
  ELSE IF n = 1 THEN Sent(s, buf[1].text)
  ELSE Sent(Sent(s, buf[1].text), buf[2].text)

CommandAt(c, s) ==
  [from |-> c, no |-> s.lines + 1, block |-> IF s.depth > 0 THEN s.blocks ELSE 0]

Follows(c, s, buf) ==
  /\ sender[c] = StateAfter(s, buf, Len(buf))
  /\ \A i \in 1 .. Len(buf) : buf[i].cmd = CommandAt(c, StateAfter(s, buf, i - 1))

\* Between two reads at most one line is in the buffer, and it lacks its end.
LinesOf(c, s) ==
  /\ Follows(c, s, buffer[c])
  /\ Len(buffer[c]) <= 2
  /\ Len(buffer[c]) = 2 => buffer[c][1].complete
  /\ HasCmd(c) => io = [pc |-> "receive", c |-> c]
  /\ io \in {[pc |-> "terminate", c |-> c], [pc |-> "erase", c |-> c]} \/ conn[c] = "gone"
       => buffer[c] = <<>>
  /\ nesting[c] = s.depth
  /\ handler[c] = IF s.depth > 0 THEN "custom" ELSE "general"
  /\ s.depth > 0 => s.blocks > 0

IoOk == io = Idle \/ (io.pc # "run" /\ io.c \in Clients /\ conn[io.c] = "open")

Lines(done) == IoOk /\ \A c \in Clients : LinesOf(c, done[c])

-----------------------------------------------------------------------------
\* What the bulks hold: g is the shared bulk, cu the custom ones, fo the bulks
\* that were flushed, rc the base commands that have arrived.

\* The shared bulk has commands from outside of all blocks, and none of a
\* client that is in one.
GeneralOk(done, g) ==
  /\ Len(g) <= BulkSize
  /\ \A x \in Range(g) :
       x.block = 0 /\ x.no <= done[x.from].lines /\ done[x.from].depth = 0

\* A custom bulk has commands of its client's open block.
CustomOk(done, cu, rc) ==
  \A c \in Clients : \A x \in Range(cu[c]) :
    /\ x \in rc /\ x.from = c /\ x.block = done[c].blocks
    /\ x.no <= done[c].lines /\ done[c].depth > 0

\* No command to come lies in block k.
Closed(s, k) == k < s.blocks \/ (k = s.blocks /\ s.depth = 0)

OfGeneral(bulk) == Len(bulk) <= BulkSize /\ \A x \in Range(bulk) : x.block = 0

OfBlock(bulk, rc) ==
  /\ Head(bulk).block # 0
  /\ Range(bulk) = {x \in rc : x.from = Head(bulk).from /\ x.block = Head(bulk).block}

FormedOk(done, fo, rc) ==
  \A bulk \in Range(fo) :
    /\ bulk # <<>>
    /\ \A x \in Range(bulk) : x.no <= done[x.from].lines
    /\ \/ OfGeneral(bulk)
       \/ OfBlock(bulk, rc) /\ Closed(done[Head(bulk).from], Head(bulk).block)

ContentOk(done, g, cu, fo, rc) ==
  GeneralOk(done, g) /\ CustomOk(done, cu, rc) /\ FormedOk(done, fo, rc)

\* A command is in the buffer until its line has been handled, and then in a
\* bulk, unless its block went with its client.
Dropped(x, s) ==
  /\ conn[x.from] = "gone" \/ io = [pc |-> "erase", c |-> x.from]
  /\ x.block = s.blocks /\ s.depth > 0

InBulks(x, g, cu, fo) ==
  x \in Range(g) \/ x \in Range(cu[x.from]) \/ \E bulk \in Range(fo) : x \in Range(bulk)

Buffered(x, i) == x = buffer[x.from][i].cmd /\ buffer[x.from][i].text = "base"

ReceivedOk(done) ==
  /\ \A x \in received :
       IF x.no <= done[x.from].lines
         THEN InBulks(x, general, custom, formed) \/ Dropped(x, done[x.from])
         ELSE \E i \in 1 .. Len(buffer[x.from]) : Buffered(x, i)
  /\ \A c \in Clients : \A i \in 1 .. Len(buffer[c]) :
       buffer[c][i].text = "base" => buffer[c][i].cmd \in received

-----------------------------------------------------------------------------
\* The order of commands.

Earlier(x, y) == x.from = y.from => x.no < y.no
Before(bulk1, bulk2) == \A x \in Range(bulk1), y \in Range(bulk2) : Earlier(x, y)
Sorted(bulk) == \A k, l \in DOMAIN bulk : k < l => Earlier(bulk[k], bulk[l])

OrderOk(g, cu, fo) ==
  /\ Sorted(g) /\ \A c \in Clients : Sorted(cu[c])
  /\ \A bulk \in Range(fo) :
       Sorted(bulk) /\ Before(bulk, g) /\ \A c \in Clients : Before(bulk, cu[c])
  /\ \A i, j \in DOMAIN fo : i < j => Before(fo[i], fo[j])

-----------------------------------------------------------------------------
\* The bulks on their way out, each in one place.

Disjoint(q, out) ==
  /\ IsInjective(out) /\ \A c \in Clients : IsInjective(q[c])
  /\ \A c \in Clients : Range(q[c]) \cap Range(out) = {}
  /\ \A c, d \in Clients : c # d => Range(q[c]) \cap Range(q[d]) = {}

Through(q, out, fo) == Range(fo) = Range(out) \cup Queued(q) /\ Disjoint(q, out)

OutputOk ==
  /\ Through(coutq, console, formed) /\ Through(fileq, files, formed)
  /\ \A c \in Clients : conn[c] = "gone" => coutq[c] = <<>> /\ fileq[c] = <<>>

\* Whoever was the last has flushed the shared bulk, unless it left in a block.
NothingLeft(c) == general = <<>> \/ sender[c].depth > 0

LastOk ==
  /\ \A c \in Clients : io = [pc |-> "erase", c |-> c] /\ IsLast(c) => NothingLeft(c)
  /\ Open = {} => general = <<>> \/ (lastGone \in Clients /\ sender[lastGone].depth > 0)

Inv(done) ==
  /\ Types /\ Lines(done)
  /\ ContentOk(done, general, custom, formed, received) /\ Len(general) < BulkSize
  /\ ReceivedOk(done) /\ OrderOk(general, custom, formed)
  /\ OutputOk /\ LastOk

IInv == \E done \in [Clients -> States] : Inv(done)

-----------------------------------------------------------------------------
\* Sequences: what Append, Tail and RemoveAt leave of the elements.

LEMMA Elements ==
  ASSUME NEW S, NEW s \in Seq(S)
  PROVE  /\ Len(s) \in Nat /\ DOMAIN s = 1 .. Len(s) /\ (s = <<>> <=> Len(s) = 0)
         /\ Range(s) \subseteq S
         /\ \A i \in 1 .. Len(s) : s[i] \in Range(s) /\ s[i] \in S
         /\ \A x \in Range(s) : \E i \in 1 .. Len(s) : s[i] = x
<1>1. Len(s) \in Nat /\ DOMAIN s = 1 .. Len(s)
  BY LenProperties
<1>2. s = <<>> <=> Len(s) = 0
  BY <1>1, EmptySeq
<1>3. \A i \in 1 .. Len(s) : s[i] \in S
  BY ElementOfSeq
<1> QED  BY <1>1, <1>2, <1>3 DEF Range

LEMMA Appended ==
  ASSUME NEW S, NEW s \in Seq(S), NEW e \in S
  PROVE  /\ Append(s, e) \in Seq(S) /\ Append(s, e) # <<>> /\ Append(s, e) # s
         /\ Len(Append(s, e)) = Len(s) + 1
         /\ Append(s, e)[Len(s) + 1] = e
         /\ \A i \in 1 .. Len(s) : Append(s, e)[i] = s[i]
         /\ Last(Append(s, e)) = e
         /\ Range(Append(s, e)) = Range(s) \cup {e}
<1> DEFINE a == Append(s, e)
<1>1. /\ a \in Seq(S) /\ a # <<>> /\ Len(a) = Len(s) + 1 /\ a[Len(s) + 1] = e
      /\ \A i \in 1 .. Len(s) : a[i] = s[i]
  BY AppendProperties
<1>2. Len(s) \in Nat /\ DOMAIN s = 1 .. Len(s)
  BY Elements
<1> HIDE DEF a
<1>3. DOMAIN a = 1 .. Len(s) + 1
  BY <1>1, <1>2, LenProperties
<1>4. Last(a) = e /\ a # s
  BY <1>1, <1>2 DEF Last
<1>5. \A i \in 1 .. Len(s) + 1 : i \in 1 .. Len(s) \/ i = Len(s) + 1
  BY <1>2
<1>6. 1 .. Len(s) \subseteq 1 .. Len(s) + 1 /\ Len(s) + 1 \in 1 .. Len(s) + 1
  BY <1>2
<1>7. Range(a) = Range(s) \cup {e}
  BY <1>1, <1>2, <1>3, <1>5, <1>6, Zenon DEF Range
<1> QED  BY <1>1, <1>4, <1>7 DEF a

LEMMA TailElements ==
  ASSUME NEW S, NEW s \in Seq(S), s # <<>>
  PROVE  /\ Head(s) = s[1] /\ Head(s) \in S /\ Head(s) \in Range(s)
         /\ Tail(s) \in Seq(S) /\ Len(Tail(s)) = Len(s) - 1 /\ Len(s) \in Nat \ {0}
         /\ \A i \in 1 .. Len(s) - 1 : Tail(s)[i] = s[i + 1]
<1>1. /\ Head(s) \in S /\ Tail(s) \in Seq(S) /\ Len(Tail(s)) = Len(s) - 1
      /\ \A i \in 1 .. Len(Tail(s)) : Tail(s)[i] = s[i + 1]
  BY HeadTailProperties
<1>2. Len(s) \in Nat \ {0} /\ Head(s) = s[1]
  BY EmptySeq
<1>3. 1 \in 1 .. Len(s)
  BY <1>2
<1> QED  BY <1>1, <1>2, <1>3, Elements

\* r is s without its i-th element.
Without(r, s, i) ==
  /\ Len(r) = Len(s) - 1
  /\ \A k \in 1 .. Len(s) - 1 : r[k] = IF k < i THEN s[k] ELSE s[k + 1]

LEMMA Removed ==
  ASSUME NEW S, NEW s \in Seq(S), NEW i \in 1 .. Len(s)
  PROVE  RemoveAt(s, i) \in Seq(S) /\ Without(RemoveAt(s, i), s, i)
<1>1. Len(s) \in Nat /\ i \in Nat /\ i <= Len(s) /\ i >= 1 /\ \A k \in 1 .. Len(s) : s[k] \in S
  BY Elements
<1> DEFINE before == SubSeq(s, 1, i - 1)
           after == SubSeq(s, i + 1, Len(s))
<1>2. /\ before \in Seq(S) /\ Len(before) = i - 1
      /\ \A k \in 1 .. i - 1 : before[k] = s[k]
  <2>1. 1 \in Int /\ i - 1 \in Int /\ \A k \in 1 .. i - 1 : s[k] \in S
    BY <1>1
  <2>2. /\ before \in Seq(S) /\ Len(before) = IF 1 <= i - 1 THEN i - 1 - 1 + 1 ELSE 0
        /\ \A k \in 1 .. i - 1 - 1 + 1 : before[k] = s[1 + k - 1]
    BY <2>1, SubSeqProperties
  <2> HIDE DEF before
  <2> QED  BY <2>2, <1>1
<1>3. /\ after \in Seq(S) /\ Len(after) = Len(s) - i
      /\ \A k \in 1 .. Len(s) - i : after[k] = s[i + k]
  <2>1. i + 1 \in Int /\ Len(s) \in Int /\ \A k \in i + 1 .. Len(s) : s[k] \in S
    BY <1>1
  <2>2. /\ after \in Seq(S) /\ Len(after) = IF i + 1 <= Len(s) THEN Len(s) - (i + 1) + 1 ELSE 0
        /\ \A k \in 1 .. Len(s) - (i + 1) + 1 : after[k] = s[i + 1 + k - 1]
    BY <2>1, SubSeqProperties
  <2> HIDE DEF after
  <2> QED  BY <2>2, <1>1
<1>4. RemoveAt(s, i) = before \o after
  BY DEF RemoveAt
<1> HIDE DEF before, after
<1>5. /\ RemoveAt(s, i) \in Seq(S) /\ Len(RemoveAt(s, i)) = Len(s) - 1
      /\ \A k \in 1 .. Len(before) + Len(after) :
           RemoveAt(s, i)[k] = IF k <= Len(before) THEN before[k] ELSE after[k - Len(before)]
  <2>1. /\ before \o after \in Seq(S) /\ Len(before \o after) = Len(before) + Len(after)
        /\ \A k \in 1 .. Len(before) + Len(after) :
             (before \o after)[k] = IF k <= Len(before) THEN before[k] ELSE after[k - Len(before)]
    BY <1>2, <1>3, ConcatProperties
  <2>2. Len(before) + Len(after) = Len(s) - 1
    BY <1>1, <1>2, <1>3
  <2> QED  BY <2>1, <2>2, <1>4
<1>6. ASSUME NEW k \in 1 .. Len(s) - 1
      PROVE  RemoveAt(s, i)[k] = IF k < i THEN s[k] ELSE s[k + 1]
  <2>0. k \in 1 .. Len(before) + Len(after)
    BY <1>1, <1>2, <1>3
  <2>1. CASE k < i
    <3>1. k <= Len(before) /\ k \in 1 .. i - 1
      BY <1>1, <1>2, <2>1
    <3>2. RemoveAt(s, i)[k] = before[k]
      BY <2>0, <3>1, <1>5
    <3> QED  BY <2>1, <3>1, <3>2, <1>2
  <2>2. CASE ~(k < i)
    <3>1. ~(k <= Len(before)) /\ k - Len(before) \in 1 .. Len(s) - i /\ i + (k - Len(before)) = k + 1
      BY <1>1, <1>2, <2>2
    <3>2. RemoveAt(s, i)[k] = after[k - Len(before)]
      BY <2>0, <3>1, <1>5
    <3>3. after[k - Len(before)] = s[i + (k - Len(before))]
      BY <3>1, <1>3
    <3> QED  BY <2>2, <3>1, <3>2, <3>3
  <2> QED  BY <2>1, <2>2
<1> QED  BY <1>5, <1>6 DEF Without

\* A sequence without repetition loses its i-th element.
LEMMA RemovedFromInjective ==
  ASSUME NEW S, NEW s \in Seq(S), NEW i \in 1 .. Len(s), IsInjective(s), NEW r \in Seq(S), Without(r, s, i)
  PROVE  IsInjective(r) /\ Range(r) = Range(s) \ {s[i]}
<1> DEFINE rest == 1 .. Len(s) - 1
           at == [k \in rest |-> IF k < i THEN k ELSE k + 1]
<1>1. /\ Len(s) \in Nat /\ i \in Nat /\ DOMAIN s = 1 .. Len(s) /\ DOMAIN r = rest
      /\ i >= 1 /\ i <= Len(s)
  BY Elements DEF Without
<1>2. \A k, l \in 1 .. Len(s) : s[k] = s[l] => k = l
  BY <1>1 DEF IsInjective
<1>3. \A k \in rest : at[k] \in 1 .. Len(s) /\ at[k] # i /\ r[k] = s[at[k]]
  BY <1>1 DEF Without
<1>4. \A k, l \in rest : at[k] = at[l] => k = l
  BY <1>1
<1>5. \A l \in 1 .. Len(s) : l # i => \E k \in rest : at[k] = l
  <2>1. ASSUME NEW l \in 1 .. Len(s), l < i PROVE l \in rest /\ at[l] = l
    BY <1>1, <2>1
  <2>2. ASSUME NEW l \in 1 .. Len(s), l > i PROVE l - 1 \in rest /\ at[l - 1] = l
    BY <1>1, <2>2
  <2>3. \A l \in 1 .. Len(s) : l # i => l < i \/ l > i
    BY <1>1
  <2> QED  BY <2>1, <2>2, <2>3, Zenon
<1>6. i \in 1 .. Len(s)
  OBVIOUS
<1> HIDE DEF at, rest
<1>7. IsInjective(r)
  BY <1>1, <1>2, <1>3, <1>4 DEF IsInjective
<1>8. Range(r) \subseteq Range(s) \ {s[i]}
  BY <1>1, <1>2, <1>3, <1>6 DEF Range
<1>9. Range(s) \ {s[i]} \subseteq Range(r)
  BY <1>1, <1>3, <1>5, <1>6 DEF Range
<1> QED  BY <1>7, <1>8, <1>9

LEMMA AppendedToInjective ==
  ASSUME NEW S, NEW s \in Seq(S), NEW e \in S, IsInjective(s), e \notin Range(s)
  PROVE  IsInjective(Append(s, e))
<1> DEFINE a == Append(s, e)
<1>1. /\ a \in Seq(S) /\ Len(a) = Len(s) + 1 /\ a[Len(s) + 1] = e
      /\ \A i \in 1 .. Len(s) : a[i] = s[i]
  BY Appended
<1>2. /\ Len(s) \in Nat /\ DOMAIN s = 1 .. Len(s)
      /\ \A i \in 1 .. Len(s) : s[i] \in Range(s)
  BY Elements
<1> HIDE DEF a
<1>3. DOMAIN a = 1 .. Len(s) + 1
  BY <1>1, <1>2, LenProperties
<1>4. \A i \in DOMAIN a : i \in 1 .. Len(s) \/ i = Len(s) + 1
  BY <1>2, <1>3
<1>5. \A i, k \in 1 .. Len(s) : a[i] = a[k] => i = k
  BY <1>1, <1>2 DEF IsInjective
<1>6. \A i \in 1 .. Len(s) : a[i] # a[Len(s) + 1]
  BY <1>1, <1>2
<1>7. IsInjective(a)
  BY <1>4, <1>5, <1>6, Zenon DEF IsInjective
<1> QED  BY <1>7 DEF a

LEMMA EmptyBulk ==
  ASSUME NEW S
  PROVE  <<>> \in Seq(S) /\ Len(<<>>) = 0 /\ DOMAIN <<>> = {} /\ Range(<<>>) = {}
<1>1. <<>> \in Seq(S) /\ Len(<<>>) = 0
  BY EmptySeq
<1>2. DOMAIN <<>> = 1 .. 0
  BY <1>1, LenProperties
<1>3. DOMAIN <<>> = {}
  BY <1>2
<1> QED  BY <1>1, <1>3 DEF Range

-----------------------------------------------------------------------------
\* What a step of a manager does to the order of the commands: it adds a
\* command to a bulk, clears a bulk, or sends one.

\* The bulks sent after b has been sent; an empty bulk is not.
SentOff(fo, b) == IF b = <<>> THEN fo ELSE Append(fo, b)

LEMMA SortedAppend ==
  ASSUME NEW b \in Bulk, NEW x \in Command, Sorted(b), \A y \in Range(b) : Earlier(y, x)
  PROVE  Sorted(Append(b, x))
<1> DEFINE n == Len(b)
           a == Append(b, x)
<1>1. /\ n \in Nat /\ a \in Bulk /\ Len(a) = n + 1 /\ a[n + 1] = x
      /\ \A k \in 1 .. n : a[k] = b[k] /\ b[k] \in Range(b)
      /\ DOMAIN b = 1 .. n
  BY Elements, Appended DEF Bulk
<1> HIDE DEF a, n
<1>2. DOMAIN a = 1 .. n + 1
  BY <1>1, Elements DEF Bulk
<1>3. ASSUME NEW k \in DOMAIN a, NEW l \in DOMAIN a, k < l
      PROVE  Earlier(a[k], a[l])
  <2>1. k \in 1 .. n /\ (l \in 1 .. n \/ l = n + 1)
    BY <1>1, <1>2, <1>3
  <2>2. CASE l \in 1 .. n
    BY <1>1, <1>3, <2>1, <2>2 DEF Sorted
  <2>3. CASE l = n + 1
    BY <1>1, <2>1, <2>3
  <2> QED  BY <2>1, <2>2, <2>3
<1>4. Sorted(a)
  BY <1>3 DEF Sorted
<1> QED  BY <1>4 DEF a

LEMMA OrderAddGeneral ==
  ASSUME NEW g \in Bulk, NEW cu, NEW fo, NEW x \in Command, OrderOk(g, cu, fo),
         \A y \in Range(g) : Earlier(y, x),
         \A bulk \in Range(fo) : \A y \in Range(bulk) : Earlier(y, x)
  PROVE  OrderOk(Append(g, x), cu, fo)
<1>1. Sorted(Append(g, x))
  BY SortedAppend DEF OrderOk
<1>2. Range(Append(g, x)) = Range(g) \cup {x}
  BY Appended DEF Bulk
<1>3. \A bulk \in Range(fo) : Before(bulk, Append(g, x))
  BY <1>2 DEF OrderOk, Before
<1> QED  BY <1>1, <1>3 DEF OrderOk

LEMMA OrderAddCustom ==
  ASSUME NEW g, NEW cu \in [Clients -> Bulk], NEW fo, NEW x \in Command, NEW c \in Clients,
         OrderOk(g, cu, fo), \A y \in Range(cu[c]) : Earlier(y, x),
         \A bulk \in Range(fo) : \A y \in Range(bulk) : Earlier(y, x)
  PROVE  OrderOk(g, [cu EXCEPT ![c] = Append(@, x)], fo)
<1> DEFINE b == Append(cu[c], x)
<1>1. Sorted(b) /\ Range(b) = Range(cu[c]) \cup {x}
  BY SortedAppend, Appended DEF OrderOk, Bulk
<1>2. \A bulk \in Range(fo) : Before(bulk, b)
  BY <1>1 DEF OrderOk, Before
<1> HIDE DEF b
<1>3. OrderOk(g, [cu EXCEPT ![c] = b], fo)
  BY <1>1, <1>2 DEF OrderOk
<1> QED  BY <1>3 DEF b

LEMMA OrderClear ==
  ASSUME NEW g, NEW cu \in [Clients -> Bulk], NEW fo, OrderOk(g, cu, fo)
  PROVE  /\ OrderOk(<<>>, cu, fo)
         /\ \A c \in Clients : OrderOk(g, [cu EXCEPT ![c] = <<>>], fo)
<1>1. Sorted(<<>>) /\ \A bulk : Before(bulk, <<>>)
  BY EmptyBulk DEF Sorted, Before
<1> QED  BY <1>1 DEF OrderOk

LEMMA OrderSend ==
  ASSUME NEW g, NEW cu, NEW fo \in Seq(Bulk), NEW b \in Bulk, OrderOk(g, cu, fo),
         Sorted(b), \A bulk \in Range(fo) : Before(bulk, b),
         Before(b, g), \A c \in Clients : Before(b, cu[c])
  PROVE  OrderOk(g, cu, SentOff(fo, b))
<1> SUFFICES ASSUME b # <<>> PROVE OrderOk(g, cu, Append(fo, b))
  BY DEF SentOff
<1> DEFINE n == Len(fo)
           f == Append(fo, b)
<1>1. /\ n \in Nat /\ f \in Seq(Bulk) /\ Len(f) = n + 1 /\ f[n + 1] = b
      /\ \A i \in 1 .. n : f[i] = fo[i] /\ fo[i] \in Range(fo)
      /\ DOMAIN fo = 1 .. n /\ Range(f) = Range(fo) \cup {b}
  BY Elements, Appended
<1> HIDE DEF f, n
<1>2. DOMAIN f = 1 .. n + 1
  BY <1>1, Elements
<1>3. ASSUME NEW i \in DOMAIN f, NEW j \in DOMAIN f, i < j
      PROVE  Before(f[i], f[j])
  <2>1. i \in 1 .. n /\ (j \in 1 .. n \/ j = n + 1)
    BY <1>1, <1>2, <1>3
  <2>2. CASE j \in 1 .. n
    BY <1>1, <1>3, <2>1, <2>2 DEF OrderOk
  <2>3. CASE j = n + 1
    BY <1>1, <2>1, <2>3
  <2> QED  BY <2>1, <2>2, <2>3
<1>4. OrderOk(g, cu, f)
  BY <1>1, <1>3 DEF OrderOk
<1> QED  BY <1>4 DEF f

-----------------------------------------------------------------------------
\* What it does to what the bulks hold.

Opens(text) == text = "{"
Closes(text) == text = "}"

LEMMA SentOn ==
  ASSUME NEW s \in States, NEW text \in Text
  PROVE  /\ Sent(s, text) \in States /\ Sent(s, text).lines = s.lines + 1
         /\ s.depth > 0 => Sent(s, text).blocks = s.blocks
         /\ s.depth > 0 /\ ~(Closes(text) /\ s.depth = 1) => Sent(s, text).depth > 0
         /\ Opens(text) /\ s.depth = 0 => Sent(s, text).depth = 1
         /\ Closes(text) /\ s.depth = 1 =>
              Sent(s, text).depth = 0 /\ Sent(s, text).blocks = s.blocks
         /\ s.depth = 0 /\ ~Opens(text) => Sent(s, text).depth = 0 /\ Sent(s, text).blocks = s.blocks
         /\ (s.depth > 0 => s.blocks > 0) => (Sent(s, text).depth > 0 => Sent(s, text).blocks > 0)
         /\ \A k \in Nat : Closed(s, k) => Closed(Sent(s, text), k)
<1> DEFINE t == Sent(s, text)
<1>1. /\ s.lines \in Nat /\ s.depth \in Nat /\ s.blocks \in Nat
      /\ t.lines = s.lines + 1
      /\ t.depth = IF Opens(text) THEN s.depth + 1
                   ELSE IF Closes(text) /\ s.depth > 0 THEN s.depth - 1 ELSE s.depth
      /\ t.blocks = IF Opens(text) /\ s.depth = 0 THEN s.blocks + 1 ELSE s.blocks
      /\ ~(Opens(text) /\ Closes(text))
  BY DEF States, Sent, Opens, Closes
<1>2. t = [lines |-> t.lines, depth |-> t.depth, blocks |-> t.blocks]
  BY DEF Sent
<1> HIDE DEF t
<1>3. t.lines \in Nat /\ t.depth \in Nat /\ t.blocks \in Nat
  BY <1>1
<1>4. t \in States
  BY <1>2, <1>3 DEF States
<1>5. /\ s.depth > 0 => t.blocks = s.blocks
      /\ s.depth > 0 /\ ~(Closes(text) /\ s.depth = 1) => t.depth > 0
      /\ Opens(text) /\ s.depth = 0 => t.depth = 1
      /\ Closes(text) /\ s.depth = 1 => t.depth = 0 /\ t.blocks = s.blocks
      /\ s.depth = 0 /\ ~Opens(text) => t.depth = 0 /\ t.blocks = s.blocks
      /\ (s.depth > 0 => s.blocks > 0) => (t.depth > 0 => t.blocks > 0)
  BY <1>1
<1>6. ASSUME NEW k \in Nat, Closed(s, k) PROVE Closed(t, k)
  <2>1. k < s.blocks \/ (k = s.blocks /\ s.depth = 0)
    BY <1>6 DEF Closed
  <2>2. k < t.blocks \/ (k = t.blocks /\ t.depth = 0)
    BY <1>1, <2>1
  <2> QED  BY <2>2 DEF Closed
<1> QED  BY <1>1, <1>4, <1>5, <1>6 DEF t

Advance(done, c, text) == [done EXCEPT ![c] = Sent(@, text)]

LEMMA Advanced ==
  ASSUME NEW done \in [Clients -> States], NEW c \in Clients, NEW text \in Text
  PROVE  /\ Advance(done, c, text) \in [Clients -> States]
         /\ Advance(done, c, text)[c] = Sent(done[c], text)
         /\ \A d \in Clients : d # c => Advance(done, c, text)[d] = done[d]
         /\ \A d \in Clients : done[d].lines <= Advance(done, c, text)[d].lines
         /\ \A d \in Clients, k \in Nat : Closed(done[d], k) => Closed(Advance(done, c, text)[d], k)
<1>1. /\ Advance(done, c, text) \in [Clients -> States]
      /\ Advance(done, c, text)[c] = Sent(done[c], text)
      /\ \A d \in Clients : d # c => Advance(done, c, text)[d] = done[d]
  BY SentOn DEF Advance
<1>2. ASSUME NEW d \in Clients
      PROVE  done[d].lines <= Advance(done, c, text)[d].lines
  <2>1. done[d].lines \in Nat
    BY DEF States
  <2>2. Advance(done, c, text)[d].lines = IF d = c THEN done[d].lines + 1 ELSE done[d].lines
    BY <1>1, SentOn
  <2> QED  BY <2>1, <2>2
<1>3. \A d \in Clients : done[d].lines <= Advance(done, c, text)[d].lines
  BY <1>2
<1>4. \A d \in Clients, k \in Nat : Closed(done[d], k) => Closed(Advance(done, c, text)[d], k)
  BY <1>1, SentOn, Zenon
<1> QED  BY <1>1, <1>3, <1>4

LEMMA ContentAdvance ==
  ASSUME NEW done \in [Clients -> States], NEW c \in Clients, NEW text \in Text,
         NEW g \in Bulk, NEW cu \in [Clients -> Bulk], NEW fo \in Seq(Bulk), NEW rc \in SUBSET Command,
         ContentOk(done, g, cu, fo, rc),
         Opens(text) /\ done[c].depth = 0 => g = <<>>,
         Closes(text) /\ done[c].depth = 1 => cu[c] = <<>>
  PROVE  ContentOk(Advance(done, c, text), g, cu, fo, rc)
<1> DEFINE e == Advance(done, c, text)
<1>1. /\ e[c] = Sent(done[c], text) /\ e \in [Clients -> States]
      /\ \A d \in Clients : d # c => e[d] = done[d]
      /\ \A d \in Clients : done[d].lines <= e[d].lines
      /\ \A d \in Clients, k \in Nat : Closed(done[d], k) => Closed(e[d], k)
  BY Advanced
<1>2. \A b \in Bulk : \A x \in Range(b) : x \in Command
  BY Elements DEF Bulk
<1>3. \A x \in Command : x.no \in Nat /\ x.from \in Clients /\ x.block \in Nat
  BY DEF Command
<1>4. \A d \in Clients : done[d].lines \in Nat /\ done[d].depth \in Nat /\ e[d].lines \in Nat
  BY <1>1 DEF States
<1> HIDE DEF e
<1>5. GeneralOk(e, g)
  <2>1. ASSUME NEW x \in Range(g)
        PROVE  x.block = 0 /\ x.no <= e[x.from].lines /\ e[x.from].depth = 0
    <3>1. x.block = 0 /\ x.no <= done[x.from].lines /\ done[x.from].depth = 0 /\ x \in Command
      BY <1>2 DEF ContentOk, GeneralOk
    <3>2. x.no <= e[x.from].lines
      BY <3>1, <1>1, <1>3, <1>4
    <3>3. CASE x.from = c
      <4>1. g # <<>>
        BY EmptyBulk
      <4> QED  BY <1>1, <3>1, <3>2, <3>3, <4>1, SentOn
    <3> QED  BY <1>1, <1>3, <3>1, <3>2, <3>3
  <2> QED  BY <2>1 DEF ContentOk, GeneralOk
<1>6. CustomOk(e, cu, rc)
  <2>1. ASSUME NEW d \in Clients, NEW x \in Range(cu[d])
        PROVE  /\ x \in rc /\ x.from = d /\ x.block = e[d].blocks
               /\ x.no <= e[d].lines /\ e[d].depth > 0
    <3>1. /\ x \in rc /\ x.from = d /\ x.block = done[d].blocks
          /\ x.no <= done[d].lines /\ done[d].depth > 0 /\ x \in Command
      BY <1>2 DEF ContentOk, CustomOk
    <3>2. x.no <= e[d].lines
      BY <3>1, <1>1, <1>3, <1>4
    <3>3. CASE d = c
      <4>1. cu[c] # <<>>
        BY <3>3, EmptyBulk
      <4> QED  BY <1>1, <3>1, <3>2, <3>3, <4>1, SentOn
    <3> QED  BY <1>1, <3>1, <3>2, <3>3
  <2> QED  BY <2>1 DEF CustomOk
<1>7. FormedOk(e, fo, rc)
  <2>1. ASSUME NEW bulk \in Range(fo)
        PROVE  /\ bulk # <<>>
               /\ \A x \in Range(bulk) : x.no <= e[x.from].lines
               /\ \/ OfGeneral(bulk)
                  \/ OfBlock(bulk, rc) /\ Closed(e[Head(bulk).from], Head(bulk).block)
    <3>1. /\ bulk # <<>> /\ bulk \in Bulk
          /\ \A x \in Range(bulk) : x.no <= done[x.from].lines
          /\ \/ OfGeneral(bulk)
             \/ OfBlock(bulk, rc) /\ Closed(done[Head(bulk).from], Head(bulk).block)
      BY Elements DEF ContentOk, FormedOk
    <3>2. Head(bulk) \in Command
      BY <3>1, TailElements DEF Bulk
    <3>3. ASSUME NEW x \in Range(bulk) PROVE x.no <= e[x.from].lines
      <4>1. x \in Command /\ x.no <= done[x.from].lines
        BY <3>1, <1>2
      <4> QED  BY <4>1, <1>1, <1>3, <1>4
    <3> QED  BY <3>1, <3>2, <3>3, <1>1, <1>3
  <2> QED  BY <2>1 DEF FormedOk
<1> QED  BY <1>5, <1>6, <1>7 DEF ContentOk, e

LEMMA ContentClear ==
  ASSUME NEW done, NEW g, NEW cu \in [Clients -> Bulk], NEW fo, NEW rc,
         ContentOk(done, g, cu, fo, rc)
  PROVE  /\ ContentOk(done, <<>>, cu, fo, rc)
         /\ \A c \in Clients : ContentOk(done, g, [cu EXCEPT ![c] = <<>>], fo, rc)
<1>1. GeneralOk(done, <<>>)
  BY EmptyBulk, BulkAssumption DEF GeneralOk
<1>2. \A c \in Clients : CustomOk(done, [cu EXCEPT ![c] = <<>>], rc)
  BY EmptyBulk DEF ContentOk, CustomOk
<1> QED  BY <1>1, <1>2 DEF ContentOk

LEMMA ContentSend ==
  ASSUME NEW done, NEW g, NEW cu, NEW fo \in Seq(Bulk), NEW rc, NEW b \in Bulk,
         ContentOk(done, g, cu, fo, rc), \A x \in Range(b) : x.no <= done[x.from].lines,
         b # <<>> => \/ OfGeneral(b)
                     \/ OfBlock(b, rc) /\ Closed(done[Head(b).from], Head(b).block)
  PROVE  ContentOk(done, g, cu, SentOff(fo, b), rc)
<1>1. CASE b = <<>>
  BY <1>1 DEF SentOff
<1>2. CASE b # <<>>
  <2>1. Range(SentOff(fo, b)) = Range(fo) \cup {b}
    BY <1>2, Appended DEF SentOff
  <2>2. FormedOk(done, SentOff(fo, b), rc)
    BY <1>2, <2>1 DEF ContentOk, FormedOk
  <2> QED  BY <2>2 DEF ContentOk
<1> QED  BY <1>1, <1>2

LEMMA ContentAddGeneral ==
  ASSUME NEW done, NEW g \in Bulk, NEW cu, NEW fo, NEW rc, NEW x \in Command,
         ContentOk(done, g, cu, fo, rc), Len(g) < BulkSize,
         x.block = 0, x.no <= done[x.from].lines, done[x.from].depth = 0
  PROVE  ContentOk(done, Append(g, x), cu, fo, rc)
<1>1. Range(Append(g, x)) = Range(g) \cup {x} /\ Len(Append(g, x)) = Len(g) + 1 /\ Len(g) \in Nat
  BY Appended, Elements DEF Bulk
<1>2. Len(Append(g, x)) <= BulkSize
  BY <1>1, BulkAssumption
<1> QED  BY <1>1, <1>2 DEF ContentOk, GeneralOk

LEMMA ContentAddCustom ==
  ASSUME NEW done, NEW g, NEW cu \in [Clients -> Bulk], NEW fo, NEW rc, NEW c \in Clients,
         NEW x \in Command, ContentOk(done, g, cu, fo, rc),
         x \in rc, x.from = c, x.block = done[c].blocks, x.no <= done[c].lines, done[c].depth > 0
  PROVE  ContentOk(done, g, [cu EXCEPT ![c] = Append(@, x)], fo, rc)
<1>1. Range(Append(cu[c], x)) = Range(cu[c]) \cup {x}
  BY Appended DEF Bulk
<1>2. CustomOk(done, [cu EXCEPT ![c] = Append(@, x)], rc)
  BY <1>1 DEF ContentOk, CustomOk
<1> QED  BY <1>2 DEF ContentOk

\* Commands of a client that is in a block and of one that is not, or of two
\* clients: no order is asked of them.
LEMMA BulksApart ==
  ASSUME NEW done, NEW g, NEW cu, NEW fo, NEW rc, ContentOk(done, g, cu, fo, rc), NEW c \in Clients
  PROVE  /\ Before(g, cu[c]) /\ Before(cu[c], g)
         /\ \A d \in Clients \ {c} : Before(cu[c], cu[d])
<1>1. \A x \in Range(cu[c]) : x.from = c /\ done[c].depth > 0
  BY DEF ContentOk, CustomOk
<1>2. \A x \in Range(g) : done[x.from].depth = 0
  BY DEF ContentOk, GeneralOk
<1>3. \A d \in Clients \ {c} : \A y \in Range(cu[d]) : y.from = d
  BY DEF ContentOk, CustomOk
<1>4. \A x \in Range(g), y \in Range(cu[c]) : x.from # y.from
  BY <1>1, <1>2
<1> QED  BY <1>1, <1>3, <1>4 DEF Before, Earlier

\* The bulks that were flushed are earlier than the next one, which therefore
\* is none of them.
LEMMA NewBulk ==
  ASSUME NEW fo \in Seq(Bulk), NEW b \in Bulk, b # <<>>, \A bulk \in Range(fo) : Before(bulk, b)
  PROVE  b \notin Range(fo)
<1>1. Head(b) \in Range(b) /\ Head(b) \in Command
  BY TailElements DEF Bulk
<1>2. ~(Head(b).no < Head(b).no)
  BY <1>1 DEF Command
<1> QED  BY <1>1, <1>2 DEF Before, Earlier

\* The next command of a client is later than all it has in bulks.
LEMMA NextIsLater ==
  ASSUME NEW done \in [Clients -> States], NEW g \in Bulk, NEW cu \in [Clients -> Bulk],
         NEW fo \in Seq(Bulk), NEW rc, ContentOk(done, g, cu, fo, rc),
         NEW c \in Clients, NEW x, x = CommandAt(c, done[c])
  PROVE  /\ \A y \in Range(g) : Earlier(y, x)
         /\ \A d \in Clients : \A y \in Range(cu[d]) : Earlier(y, x)
         /\ \A bulk \in Range(fo) : \A y \in Range(bulk) : Earlier(y, x)
<1>1. x.from = c /\ x.no = done[c].lines + 1 /\ done[c].lines \in Nat
  BY DEF CommandAt, States
<1>2. \A y \in Command : y.no <= done[y.from].lines => Earlier(y, x)
  <2>1. ASSUME NEW y \in Command, y.no <= done[y.from].lines, y.from = c PROVE y.no < x.no
    <3>1. y.no \in Nat /\ y.no <= done[c].lines
      BY <2>1 DEF Command
    <3> QED  BY <3>1, <1>1
  <2> QED  BY <2>1, <1>1 DEF Earlier
<1>3. \A b \in Bulk : Range(b) \subseteq Command
  BY Elements DEF Bulk
<1>4. \A bulk \in Range(fo) : bulk \in Bulk
  BY Elements
<1>5. \A y \in Range(g) : y.no <= done[y.from].lines
  BY DEF ContentOk, GeneralOk
<1>6. \A d \in Clients : \A y \in Range(cu[d]) : y.no <= done[y.from].lines
  BY DEF ContentOk, CustomOk
<1>7. \A bulk \in Range(fo) : \A y \in Range(bulk) : y.no <= done[y.from].lines
  BY DEF ContentOk, FormedOk
<1> QED  BY <1>2, <1>3, <1>4, <1>5, <1>6, <1>7

LEMMA SentOffBulks ==
  ASSUME NEW fo \in Seq(Bulk), NEW b \in Bulk
  PROVE  /\ SentOff(fo, b) \in Seq(Bulk)
         /\ Range(SentOff(fo, b)) = IF b = <<>> THEN Range(fo) ELSE Range(fo) \cup {b}
         /\ Range(fo) \subseteq Range(SentOff(fo, b))
<1>1. CASE b = <<>>
  BY <1>1 DEF SentOff
<1>2. CASE b # <<>>
  <2>1. Append(fo, b) \in Seq(Bulk) /\ Range(Append(fo, b)) = Range(fo) \cup {b}
    BY Appended
  <2> QED  BY <1>2, <2>1 DEF SentOff
<1> QED  BY <1>1, <1>2

\* The shared bulk is flushed: by the command that fills it, by a { or when
\* the last client leaves.
LEMMA FlushGeneral ==
  ASSUME NEW done, NEW g \in Bulk, NEW cu \in [Clients -> Bulk], NEW fo \in Seq(Bulk), NEW rc,
         ContentOk(done, g, cu, fo, rc), OrderOk(g, cu, fo)
  PROVE  /\ ContentOk(done, <<>>, cu, SentOff(fo, g), rc) /\ OrderOk(<<>>, cu, SentOff(fo, g))
         /\ g = <<>> \/ g \notin Range(fo)
         /\ \A y : InBulks(y, g, cu, fo) => InBulks(y, <<>>, cu, SentOff(fo, g))
<1>1. \A bulk \in Range(fo) : Before(bulk, g)
  BY DEF OrderOk
<1>2. OrderOk(<<>>, cu, SentOff(fo, g))
  <2>1. OrderOk(<<>>, cu, fo) /\ Sorted(g) /\ Before(g, <<>>)
    BY OrderClear, EmptyBulk DEF OrderOk, Before
  <2> QED  BY <1>1, <2>1, OrderSend, BulksApart
<1>3. ContentOk(done, <<>>, cu, SentOff(fo, g), rc)
  <2>1. /\ ContentOk(done, <<>>, cu, fo, rc) /\ OfGeneral(g)
        /\ \A x \in Range(g) : x.no <= done[x.from].lines
    BY ContentClear DEF ContentOk, GeneralOk, OfGeneral
  <2> QED  BY <2>1, ContentSend
<1>4. ASSUME NEW y, InBulks(y, g, cu, fo) PROVE InBulks(y, <<>>, cu, SentOff(fo, g))
  <2>1. Range(fo) \subseteq Range(SentOff(fo, g)) /\ (g # <<>> => g \in Range(SentOff(fo, g)))
    BY SentOffBulks
  <2>2. CASE y \in Range(g)
    <3>1. g # <<>>
      BY <2>2, EmptyBulk
    <3> QED  BY <2>1, <2>2, <3>1 DEF InBulks
  <2>3. CASE y \notin Range(g)
    BY <1>4, <2>1, <2>3, Zenon DEF InBulks
  <2> QED  BY <2>2, <2>3
<1> QED  BY <1>1, <1>2, <1>3, <1>4, NewBulk

\* The custom bulk of a client is flushed when its block closes.
LEMMA FlushCustom ==
  ASSUME NEW done \in [Clients -> States], NEW c \in Clients, NEW text \in Text,
         NEW g \in Bulk, NEW cu \in [Clients -> Bulk], NEW fo \in Seq(Bulk), NEW rc \in SUBSET Command,
         ContentOk(done, g, cu, fo, rc), OrderOk(g, cu, fo),
         Closes(text), done[c].depth = 1,
         cu[c] # <<>> => OfBlock(cu[c], rc)
  PROVE  /\ ContentOk(Advance(done, c, text), g, [cu EXCEPT ![c] = <<>>], SentOff(fo, cu[c]), rc)
         /\ OrderOk(g, [cu EXCEPT ![c] = <<>>], SentOff(fo, cu[c]))
         /\ cu[c] = <<>> \/ cu[c] \notin Range(fo)
         /\ \A y : InBulks(y, g, cu, fo) => InBulks(y, g, [cu EXCEPT ![c] = <<>>], SentOff(fo, cu[c]))
<1> DEFINE b == cu[c]
           left == [cu EXCEPT ![c] = <<>>]
           e == Advance(done, c, text)
<1>1. /\ b \in Bulk /\ left \in [Clients -> Bulk] /\ left[c] = <<>>
      /\ \A d \in Clients \ {c} : left[d] = cu[d]
      /\ \A bulk \in Range(fo) : Before(bulk, b)
  BY EmptyBulk DEF OrderOk, Bulk
<1>2. OrderOk(g, left, fo) /\ ContentOk(done, g, left, fo, rc)
  BY OrderClear, ContentClear
<1>3. Before(b, g) /\ Sorted(b) /\ \A d \in Clients : Before(b, left[d])
  <2>1. Before(b, <<>>)
    BY EmptyBulk DEF Before
  <2> QED  BY <1>1, <2>1, BulksApart DEF OrderOk
<1>4. \A x \in Range(b) : x.no <= done[c].lines /\ x.from = c /\ x.block = done[c].blocks /\ x \in Command
  BY DEF ContentOk, CustomOk
<1> HIDE DEF b, left
<1>5. OrderOk(g, left, SentOff(fo, b))
  BY <1>1, <1>2, <1>3, OrderSend
<1>6. ContentOk(e, g, left, fo, rc)
  BY <1>1, <1>2, ContentAdvance DEF Opens, Closes
<1>7. ContentOk(e, g, left, SentOff(fo, b), rc)
  <2>1. \A x \in Range(b) : x.no <= e[x.from].lines
    <3>1. e[c].lines = done[c].lines + 1 /\ done[c].lines \in Nat
      <4>1. done[c] \in States /\ e[c] = Sent(done[c], text)
        BY Advanced
      <4>2. done[c].lines \in Nat
        BY <4>1 DEF States
      <4> QED  BY <4>1, <4>2, SentOn
    <3>2. \A x \in Command : x.no \in Nat
      BY DEF Command
    <3> HIDE DEF e
    <3> QED  BY <1>4, <3>1, <3>2
  <2>2. ASSUME b # <<>> PROVE OfBlock(b, rc) /\ Closed(e[Head(b).from], Head(b).block)
    <3>1. Head(b) \in Range(b)
      BY <2>2, <1>1, TailElements DEF Bulk
    <3>2. Head(b).from = c /\ Head(b).block = done[c].blocks
      BY <1>4, <3>1
    <3>3. e[c] = Sent(done[c], text) /\ done[c] \in States
      BY Advanced
    <3>4. e[c].depth = 0 /\ e[c].blocks = done[c].blocks
      BY <3>3, SentOn
    <3> QED  BY <2>2, <3>2, <3>4 DEF Closed, b
  <2> HIDE DEF e
  <2> QED  BY <1>1, <1>6, <2>1, <2>2, ContentSend
<1>8. ASSUME NEW y, InBulks(y, g, cu, fo) PROVE InBulks(y, g, left, SentOff(fo, b))
  <2>1. CASE y \in Range(cu[y.from]) /\ y.from = c
    <3>1. y \in Range(b) /\ b # <<>>
      BY <2>1, EmptyBulk DEF b
    <3> QED  BY <1>1, <3>1, SentOffBulks DEF InBulks
  <2>2. CASE y \in Range(cu[y.from]) /\ y.from # c
    BY <2>2 DEF InBulks, left
  <2>3. CASE y \in Range(g) \/ \E bulk \in Range(fo) : y \in Range(bulk)
    <3>1. Range(fo) \subseteq Range(SentOff(fo, b))
      BY <1>1, SentOffBulks, Zenon
    <3> QED  BY <2>3, <3>1, Zenon DEF InBulks
  <2> QED  BY <1>8, <2>1, <2>2, <2>3 DEF InBulks
<1> QED  BY <1>1, <1>5, <1>7, <1>8, NewBulk DEF b, left

-----------------------------------------------------------------------------
\* add_cmd: the steps of a manager, put together.

Sends(c, b) ==
  /\ coutq' = [coutq EXCEPT ![c] = SentOff(@, b)]
  /\ fileq' = [fileq EXCEPT ![c] = SentOff(@, b)]
  /\ formed' = SentOff(formed, b)

LEMMA FlushSends ==
  ASSUME Types, NEW c \in Clients, NEW b \in Bulk, RecordFormed(c)
  PROVE  /\ Flush(c, b) => Sends(c, b)
         /\ UNCHANGED <<coutq, fileq>> => Sends(c, <<>>)
<1>1. coutq[c] \in Seq(Bulk) /\ coutq \in [Clients -> Seq(Bulk)] /\ fileq \in [Clients -> Seq(Bulk)]
  BY DEF Types
<1>2. ASSUME UNCHANGED <<coutq, fileq>> PROVE Sends(c, <<>>)
  <2>1. formed' = formed
    BY <1>2 DEF RecordFormed
  <2> QED  BY <1>1, <1>2, <2>1 DEF Sends, SentOff
<1>3. ASSUME Flush(c, b), b # <<>> PROVE Sends(c, b)
  <2>1. /\ coutq' = [coutq EXCEPT ![c] = Append(@, b)]
        /\ fileq' = [fileq EXCEPT ![c] = Append(@, b)]
    BY <1>3 DEF Flush, Notify
  <2>2. coutq'[c] = Append(coutq[c], b)
    BY <1>1, <2>1
  <2>3. Append(coutq[c], b) # coutq[c] /\ Last(Append(coutq[c], b)) = b
    BY <1>1, Appended
  <2>4. formed' = Append(formed, b)
    BY <2>2, <2>3 DEF RecordFormed
  <2> QED  BY <1>3, <2>1, <2>4 DEF Sends, SentOff
<1> QED  BY <1>2, <1>3 DEF Flush

\* What a step of c's manager keeps, when e is what the clients have sent up to
\* it: no command leaves the bulks, and one bulk at most is sent.
Managed(e, c) ==
  /\ general' \in Bulk /\ custom' \in [Clients -> Bulk]
  /\ ContentOk(e, general', custom', formed', received) /\ Len(general') < BulkSize
  /\ OrderOk(general', custom', formed')
  /\ \E b \in Bulk : (b = <<>> \/ b \notin Range(formed)) /\ Sends(c, b)
  /\ \A y : InBulks(y, general, custom, formed) => InBulks(y, general', custom', formed')
  /\ nesting' = [nesting EXCEPT ![c] = e[c].depth]
  /\ handler' = [handler EXCEPT ![c] = IF e[c].depth > 0 THEN "custom" ELSE "general"]

Managing(done, c) ==
  /\ Types /\ ContentOk(done, general, custom, formed, received) /\ Len(general) < BulkSize
  /\ OrderOk(general, custom, formed)
  /\ nesting[c] = done[c].depth
  /\ handler[c] = IF done[c].depth > 0 THEN "custom" ELSE "general"

\* A base command outside of a block: it may fill the shared bulk.
LEMMA HandleGeneralBase ==
  ASSUME NEW done \in [Clients -> States], NEW c \in Clients, Managing(done, c), RecordFormed(c),
         done[c].depth = 0, NEW x \in Command, x = CommandAt(c, done[c]), GeneralBase(c, x)
  PROVE  Managed(Advance(done, c, "base"), c) /\ InBulks(x, general', custom', formed')
<1> DEFINE b == Append(general, x)
           e == Advance(done, c, "base")
           s == done[c]
<1>1. /\ general \in Bulk /\ custom \in [Clients -> Bulk] /\ formed \in Seq(Bulk)
      /\ received \in SUBSET Command /\ s \in States /\ "base" \in Text
      /\ ~Opens("base") /\ ~Closes("base")
  BY DEF Managing, Types, Text, Opens, Closes
<1>2. /\ ContentOk(done, general, custom, formed, received)
      /\ OrderOk(general, custom, formed) /\ Len(general) < BulkSize
  BY DEF Managing
<1>3. /\ e[c] = Sent(s, "base") /\ e[c].depth = 0 /\ e[c].lines = s.lines + 1
      /\ x.from = c /\ x.block = 0 /\ x.no = s.lines + 1 /\ s.lines \in Nat
  <2>1. e[c] = Sent(s, "base")
    BY <1>1, Advanced
  <2>2. s.depth = 0 /\ ~(s.depth > 0)
    OBVIOUS
  <2>3. x.from = c /\ x.block = 0 /\ x.no = s.lines + 1 /\ s.lines \in Nat
    BY <1>1, <2>2 DEF CommandAt, States
  <2> QED  BY <1>1, <2>1, <2>2, <2>3, SentOn
<1>4. ContentOk(e, general, custom, formed, received)
  BY <1>1, <1>2, ContentAdvance
<1>5. x.no <= e[x.from].lines /\ e[x.from].depth = 0
  BY <1>3
<1>6. ContentOk(e, b, custom, formed, received)
  BY <1>1, <1>2, <1>3, <1>4, <1>5, ContentAddGeneral
<1>7. OrderOk(b, custom, formed)
  BY <1>1, <1>2, NextIsLater, OrderAddGeneral
<1>8. b \in Bulk /\ b # <<>> /\ Range(b) = Range(general) \cup {x} /\ Len(b) = Len(general) + 1
      /\ Len(general) \in Nat
  BY <1>1, Appended, Elements, SMTT(30) DEF Bulk
<1>9. \A y : InBulks(y, general, custom, formed) \/ y = x => InBulks(y, b, custom, formed)
  BY <1>8 DEF InBulks
<1>10. /\ IF Len(b) = BulkSize THEN general' = <<>> /\ Flush(c, b)
                               ELSE general' = b /\ UNCHANGED <<coutq, fileq>>
       /\ custom' = custom /\ nesting' = nesting /\ handler' = handler
  BY <1>8 DEF GeneralBase, IsFull, Cleared, Flush
<1>11. /\ nesting' = [nesting EXCEPT ![c] = e[c].depth]
       /\ handler' = [handler EXCEPT ![c] = IF e[c].depth > 0 THEN "custom" ELSE "general"]
  <2>1. nesting[c] = e[c].depth /\ handler[c] = IF e[c].depth > 0 THEN "custom" ELSE "general"
    BY <1>3 DEF Managing
  <2> QED  BY <1>10, <2>1 DEF Managing, Types
<1> HIDE DEF b, e
<1>12. CASE Len(b) = BulkSize
  <2>1. general' = <<>> /\ Sends(c, b) /\ formed' = SentOff(formed, b) /\ <<>> \in Bulk
    BY <1>8, <1>10, <1>12, FlushSends, EmptyBulk DEF Managing, Sends, Bulk
  <2>2. /\ ContentOk(e, <<>>, custom, SentOff(formed, b), received)
        /\ OrderOk(<<>>, custom, SentOff(formed, b)) /\ b \notin Range(formed)
        /\ \A y : InBulks(y, b, custom, formed) => InBulks(y, <<>>, custom, SentOff(formed, b))
    BY <1>1, <1>6, <1>7, <1>8, FlushGeneral
  <2>3. Len(<<>>) < BulkSize
    BY EmptyBulk, BulkAssumption
  <2>4. /\ ContentOk(e, general', custom', formed', received) /\ OrderOk(general', custom', formed')
        /\ general' \in Bulk /\ custom' \in [Clients -> Bulk] /\ Len(general') < BulkSize
    BY <1>1, <1>10, <2>1, <2>2, <2>3
  <2>5. \A y : InBulks(y, general, custom, formed) \/ y = x => InBulks(y, general', custom', formed')
    BY <1>9, <1>10, <2>1, <2>2
  <2>6. \E bulk \in Bulk : (bulk = <<>> \/ bulk \notin Range(formed)) /\ Sends(c, bulk)
    BY <1>8, <2>1, <2>2
  <2> QED  BY <1>11, <2>4, <2>5, <2>6 DEF Managed, e
<1>13. CASE Len(b) # BulkSize
  <2>1. general' = b /\ Sends(c, <<>>) /\ formed' = formed /\ <<>> \in Bulk
    BY <1>8, <1>10, <1>13, FlushSends, EmptyBulk DEF Managing, Sends, SentOff, Bulk
  <2>2. Len(b) < BulkSize
    BY <1>2, <1>8, <1>13, BulkAssumption
  <2>3. /\ ContentOk(e, general', custom', formed', received) /\ OrderOk(general', custom', formed')
        /\ general' \in Bulk /\ custom' \in [Clients -> Bulk] /\ Len(general') < BulkSize
    BY <1>1, <1>6, <1>7, <1>8, <1>10, <2>1, <2>2
  <2>4. \A y : InBulks(y, general, custom, formed) \/ y = x => InBulks(y, general', custom', formed')
    BY <1>9, <1>10, <2>1
  <2>5. \E bulk \in Bulk : (bulk = <<>> \/ bulk \notin Range(formed)) /\ Sends(c, bulk)
    BY <2>1
  <2> QED  BY <1>11, <2>3, <2>4, <2>5 DEF Managed, e
<1> QED  BY <1>12, <1>13

\* A base command in a block.
LEMMA HandleCustomBase ==
  ASSUME NEW done \in [Clients -> States], NEW c \in Clients, Managing(done, c), RecordFormed(c),
         done[c].depth > 0, NEW x \in received, x = CommandAt(c, done[c]), CustomBase(c, x)
  PROVE  Managed(Advance(done, c, "base"), c) /\ InBulks(x, general', custom', formed')
<1> DEFINE e == Advance(done, c, "base")
           s == done[c]
           cu == [custom EXCEPT ![c] = Append(@, x)]
<1>1. /\ general \in Bulk /\ custom \in [Clients -> Bulk] /\ formed \in Seq(Bulk)
      /\ received \in SUBSET Command /\ s \in States /\ "base" \in Text /\ x \in Command
      /\ ~Opens("base") /\ ~Closes("base") /\ custom[c] \in Bulk
  BY DEF Managing, Types, Text, Opens, Closes
<1>2. /\ ContentOk(done, general, custom, formed, received)
      /\ OrderOk(general, custom, formed) /\ Len(general) < BulkSize
  BY DEF Managing
<1>3. /\ e[c] = Sent(s, "base") /\ e[c].depth > 0 /\ e[c].lines = s.lines + 1 /\ e[c].blocks = s.blocks
      /\ x.from = c /\ x.block = s.blocks /\ x.no = s.lines + 1 /\ s.lines \in Nat
  <2>1. e[c] = Sent(s, "base")
    BY <1>1, Advanced
  <2>2. x.from = c /\ x.block = s.blocks /\ x.no = s.lines + 1 /\ s.lines \in Nat
    BY <1>1 DEF CommandAt, States
  <2> QED  BY <1>1, <2>1, <2>2, SentOn
<1>4. ContentOk(e, general, custom, formed, received)
  BY <1>1, <1>2, ContentAdvance
<1>5. x.no <= e[c].lines
  BY <1>3
<1>6. ContentOk(e, general, cu, formed, received)
  BY <1>1, <1>3, <1>4, <1>5, ContentAddCustom
<1>7. OrderOk(general, cu, formed)
  <2>1. /\ \A y \in Range(custom[c]) : Earlier(y, x)
        /\ \A bulk \in Range(formed) : \A y \in Range(bulk) : Earlier(y, x)
    BY <1>1, <1>2, NextIsLater
  <2> QED  BY <1>1, <1>2, <2>1, OrderAddCustom
<1>8. Append(custom[c], x) \in Bulk /\ Range(Append(custom[c], x)) = Range(custom[c]) \cup {x}
  BY <1>1, Appended DEF Bulk
<1>9. /\ cu \in [Clients -> Bulk] /\ cu[c] = Append(custom[c], x)
      /\ \A d \in Clients \ {c} : cu[d] = custom[d]
      /\ \A d : d \notin Clients => cu[d] = custom[d]
  BY <1>1, <1>8
<1>10. /\ custom' = cu /\ general' = general /\ UNCHANGED <<coutq, fileq>>
       /\ nesting' = nesting /\ handler' = handler
  BY DEF CustomBase
<1>11. /\ nesting' = [nesting EXCEPT ![c] = e[c].depth]
       /\ handler' = [handler EXCEPT ![c] = IF e[c].depth > 0 THEN "custom" ELSE "general"]
  <2>1. e[c].depth = s.depth
    BY <1>3 DEF Sent
  <2>2. nesting[c] = e[c].depth /\ handler[c] = IF e[c].depth > 0 THEN "custom" ELSE "general"
    BY <1>3, <2>1 DEF Managing
  <2> QED  BY <1>10, <2>2 DEF Managing, Types
<1>12. Sends(c, <<>>) /\ <<>> \in Bulk
  BY <1>10, FlushSends, EmptyBulk DEF Managing, Bulk
<1>13. formed' = formed
  BY <1>12 DEF Sends, SentOff
<1>14. \A y : InBulks(y, general, custom, formed) \/ y = x => InBulks(y, general, cu, formed)
  BY <1>3, <1>8, <1>9, Zenon DEF InBulks
<1> HIDE DEF e, cu
<1>15. /\ ContentOk(e, general', custom', formed', received) /\ OrderOk(general', custom', formed')
       /\ general' \in Bulk /\ custom' \in [Clients -> Bulk] /\ Len(general') < BulkSize
       /\ \A y : InBulks(y, general, custom, formed) \/ y = x => InBulks(y, general', custom', formed')
  BY <1>1, <1>2, <1>6, <1>7, <1>9, <1>10, <1>13, <1>14
<1>16. \E bulk \in Bulk : (bulk = <<>> \/ bulk \notin Range(formed)) /\ Sends(c, bulk)
  BY <1>12
<1> QED  BY <1>11, <1>15, <1>16 DEF Managed, e

\* A { that opens a block: the shared bulk is flushed.
LEMMA HandleOpen ==
  ASSUME NEW done \in [Clients -> States], NEW c \in Clients, Managing(done, c), RecordFormed(c),
         done[c].depth = 0, GeneralStart(c)
  PROVE  Managed(Advance(done, c, "{"), c)
<1> DEFINE e == Advance(done, c, "{")
           s == done[c]
<1>1. /\ general \in Bulk /\ custom \in [Clients -> Bulk] /\ formed \in Seq(Bulk)
      /\ received \in SUBSET Command /\ s \in States /\ "{" \in Text /\ ~Closes("{") /\ <<>> \in Bulk
  BY EmptyBulk DEF Managing, Types, Text, Closes, Bulk
<1>2. /\ ContentOk(done, <<>>, custom, SentOff(formed, general), received)
      /\ OrderOk(<<>>, custom, SentOff(formed, general))
      /\ general = <<>> \/ general \notin Range(formed)
      /\ \A y : InBulks(y, general, custom, formed)
                  => InBulks(y, <<>>, custom, SentOff(formed, general))
  BY <1>1, FlushGeneral DEF Managing
<1>3. ContentOk(e, <<>>, custom, SentOff(formed, general), received)
  BY <1>1, <1>2, SentOffBulks, ContentAdvance
<1>4. Sends(c, general) /\ general' = <<>> /\ custom' = custom
  BY <1>1, FlushSends DEF GeneralStart, Cleared, Managing
<1>5. /\ nesting' = [nesting EXCEPT ![c] = e[c].depth]
      /\ handler' = [handler EXCEPT ![c] = IF e[c].depth > 0 THEN "custom" ELSE "general"]
  <2>1. e[c] = Sent(s, "{") /\ Opens("{")
    BY <1>1, Advanced DEF Opens
  <2>2. e[c].depth = 1
    <3>1. s.depth = 0 /\ s \in States /\ "{" \in Text
      BY <1>1
    <3>2. Sent(s, "{").depth = 1
      BY <2>1, <3>1, SentOn, ZenonT(30)
    <3> QED  BY <2>1, <3>2
  <2>3. nesting[c] + 1 = 1 /\ 1 > 0
    BY DEF Managing
  <2>4. nesting' = [nesting EXCEPT ![c] = nesting[c] + 1] /\ handler' = [handler EXCEPT ![c] = "custom"]
    BY DEF GeneralStart
  <2> QED  BY <2>2, <2>3, <2>4, Zenon
<1>6. Len(<<>>) < BulkSize
  BY EmptyBulk, BulkAssumption
<1> HIDE DEF e
<1>7. /\ ContentOk(e, general', custom', formed', received) /\ OrderOk(general', custom', formed')
      /\ general' \in Bulk /\ custom' \in [Clients -> Bulk] /\ Len(general') < BulkSize
      /\ \A y : InBulks(y, general, custom, formed) => InBulks(y, general', custom', formed')
  BY <1>1, <1>2, <1>3, <1>4, <1>6 DEF Sends
<1>8. \E bulk \in Bulk : (bulk = <<>> \/ bulk \notin Range(formed)) /\ Sends(c, bulk)
  BY <1>1, <1>2, <1>4
<1> QED  BY <1>5, <1>7, <1>8 DEF Managed, e

\* The } of the outermost block: it is whole, and is flushed.
LEMMA HandleClose ==
  ASSUME NEW done \in [Clients -> States], NEW c \in Clients, Managing(done, c), RecordFormed(c),
         done[c].depth = 1, custom[c] # <<>> => OfBlock(custom[c], received), CustomStop(c)
  PROVE  Managed(Advance(done, c, "}"), c)
<1> DEFINE e == Advance(done, c, "}")
           s == done[c]
           cu == [custom EXCEPT ![c] = <<>>]
<1>1. /\ general \in Bulk /\ custom \in [Clients -> Bulk] /\ formed \in Seq(Bulk) /\ custom[c] \in Bulk
      /\ received \in SUBSET Command /\ s \in States /\ "}" \in Text /\ Closes("}") /\ <<>> \in Bulk
  BY EmptyBulk DEF Managing, Types, Text, Closes, Bulk
<1>2. /\ ContentOk(e, general, cu, SentOff(formed, custom[c]), received)
      /\ OrderOk(general, cu, SentOff(formed, custom[c]))
      /\ custom[c] = <<>> \/ custom[c] \notin Range(formed)
      /\ \A y : InBulks(y, general, custom, formed)
                  => InBulks(y, general, cu, SentOff(formed, custom[c]))
  BY <1>1, FlushCustom DEF Managing
<1>3. nesting[c] = 1
  BY DEF Managing
<1>4. Sends(c, custom[c]) /\ general' = general /\ custom' = cu
  BY <1>1, <1>3, FlushSends DEF CustomStop, Outermost, Managing
<1>5. /\ nesting' = [nesting EXCEPT ![c] = e[c].depth]
      /\ handler' = [handler EXCEPT ![c] = IF e[c].depth > 0 THEN "custom" ELSE "general"]
  <2>1. e[c] = Sent(s, "}")
    BY <1>1, Advanced
  <2>2. e[c].depth = 0
    BY <1>1, <2>1, SentOn, ZenonT(30)
  <2>3. nesting[c] - 1 = 0 /\ ~(0 > 0)
    BY <1>3
  <2>4. nesting' = [nesting EXCEPT ![c] = nesting[c] - 1] /\ handler' = [handler EXCEPT ![c] = "general"]
    BY <1>3 DEF CustomStop, Outermost
  <2> QED  BY <2>2, <2>3, <2>4, Zenon
<1>6. cu \in [Clients -> Bulk] /\ Len(general) < BulkSize
  BY <1>1 DEF Managing
<1> HIDE DEF e, cu
<1>7. /\ ContentOk(e, general', custom', formed', received) /\ OrderOk(general', custom', formed')
      /\ general' \in Bulk /\ custom' \in [Clients -> Bulk] /\ Len(general') < BulkSize
      /\ \A y : InBulks(y, general, custom, formed) => InBulks(y, general', custom', formed')
  BY <1>1, <1>2, <1>4, <1>6 DEF Sends
<1>8. \E bulk \in Bulk : (bulk = <<>> \/ bulk \notin Range(formed)) /\ Sends(c, bulk)
  BY <1>1, <1>2, <1>4
<1> QED  BY <1>5, <1>7, <1>8 DEF Managed, e

\* A brace inside of a block, or a } outside: it is only counted.
LEMMA HandleBrace ==
  ASSUME NEW done \in [Clients -> States], NEW c \in Clients, Managing(done, c), RecordFormed(c),
         NEW text \in Text, ~(Opens(text) /\ done[c].depth = 0), ~(Closes(text) /\ done[c].depth = 1),
         UNCHANGED <<general, custom, coutq, fileq, handler>>,
         nesting' = [nesting EXCEPT ![c] = Sent(done[c], text).depth]
  PROVE  Managed(Advance(done, c, text), c)
<1> DEFINE e == Advance(done, c, text)
           s == done[c]
<1>1. /\ general \in Bulk /\ custom \in [Clients -> Bulk] /\ formed \in Seq(Bulk) /\ <<>> \in Bulk
      /\ received \in SUBSET Command /\ s \in States /\ e[c] = Sent(s, text)
  BY EmptyBulk, Advanced, ZenonT(30) DEF Managing, Types, Bulk
<1>2. ContentOk(e, general, custom, formed, received)
  BY <1>1, ContentAdvance DEF Managing
<1>3. Sends(c, <<>>) /\ formed' = formed
  BY <1>1, FlushSends DEF Managing, Sends, SentOff
<1>4. e[c].depth > 0 <=> s.depth > 0
  <2>1. s.depth \in Nat
    BY <1>1 DEF States
  <2>2. s.depth > 0 \/ s.depth = 0
    BY <2>1
  <2>3. CASE s.depth > 0
    BY <1>1, <2>3, SentOn
  <2>4. CASE s.depth = 0
    <3>1. e[c].depth = 0
      BY <1>1, <2>4, SentOn
    <3> QED  BY <2>4, <3>1
  <2> QED  BY <2>2, <2>3, <2>4
<1>5. /\ nesting' = [nesting EXCEPT ![c] = e[c].depth]
      /\ handler' = [handler EXCEPT ![c] = IF e[c].depth > 0 THEN "custom" ELSE "general"]
  <2>1. handler[c] = IF e[c].depth > 0 THEN "custom" ELSE "general"
    BY <1>4 DEF Managing
  <2> QED  BY <1>1, <2>1 DEF Managing, Types
<1> HIDE DEF e
<1>6. /\ ContentOk(e, general', custom', formed', received) /\ OrderOk(general', custom', formed')
      /\ general' \in Bulk /\ custom' \in [Clients -> Bulk] /\ Len(general') < BulkSize
      /\ \A y : InBulks(y, general, custom, formed) => InBulks(y, general', custom', formed')
  BY <1>1, <1>2, <1>3 DEF Managing
<1>7. \E bulk \in Bulk : (bulk = <<>> \/ bulk \notin Range(formed)) /\ Sends(c, bulk)
  BY <1>1, <1>3
<1> QED  BY <1>5, <1>6, <1>7 DEF Managed, e

-----------------------------------------------------------------------------
\* The lines in a buffer.

LEMMA BufferOfLines ==
  ASSUME NEW done \in [Clients -> States], Types, Lines(done), NEW c \in Clients
  PROVE  /\ buffer[c] \in Seq(Line) /\ done[c] \in States /\ sender[c] \in States
         /\ \A i \in 1 .. Len(buffer[c]) :
              buffer[c][i].text \in Text /\ buffer[c][i].cmd \in Command /\ buffer[c][i] \in Line
         /\ Len(buffer[c]) = 0 \/ Len(buffer[c]) = 1 \/ Len(buffer[c]) = 2
         /\ Len(buffer[c]) = 0 => buffer[c] = <<>> /\ sender[c] = done[c]
         /\ Len(buffer[c]) = 1 => /\ sender[c] = Sent(done[c], buffer[c][1].text)
                                  /\ buffer[c][1].cmd = CommandAt(c, done[c])
         /\ Len(buffer[c]) = 2 =>
              LET s == Sent(done[c], buffer[c][1].text) IN
                /\ sender[c] = Sent(s, buffer[c][2].text) /\ s \in States
                /\ buffer[c][1].cmd = CommandAt(c, done[c])
                /\ buffer[c][2].cmd = CommandAt(c, s)
<1>1. buffer[c] \in Seq(Line) /\ done[c] \in States /\ sender[c] \in States
  BY DEF Types
<1>2. ASSUME NEW i \in 1 .. Len(buffer[c])
      PROVE  buffer[c][i].text \in Text /\ buffer[c][i].cmd \in Command /\ buffer[c][i] \in Line
  <2>1. buffer[c][i] \in Line
    BY <1>1, Elements
  <2> QED  BY <2>1 DEF Line
<1>3. Len(buffer[c]) \in Nat /\ Len(buffer[c]) <= 2 /\ (Len(buffer[c]) = 0 => buffer[c] = <<>>)
  <2>1. Len(buffer[c]) <= 2
    BY DEF Lines, LinesOf
  <2>2. Len(buffer[c]) \in Nat /\ (Len(buffer[c]) = 0 => buffer[c] = <<>>)
    BY <1>1, Elements
  <2> QED  BY <2>1, <2>2
<1>4. Len(buffer[c]) = 0 \/ Len(buffer[c]) = 1 \/ Len(buffer[c]) = 2
  <2>1. \A n \in Nat : n <= 2 => n = 0 \/ n = 1 \/ n = 2
    OBVIOUS
  <2> QED  BY <1>3, <2>1, Zenon
<1>5. /\ sender[c] = StateAfter(done[c], buffer[c], Len(buffer[c]))
      /\ \A i \in 1 .. Len(buffer[c]) :
           buffer[c][i].cmd = CommandAt(c, StateAfter(done[c], buffer[c], i - 1))
  BY DEF Lines, LinesOf, Follows
<1>6. ASSUME Len(buffer[c]) = 0 PROVE sender[c] = done[c]
  BY <1>5, <1>6 DEF StateAfter
<1>7. ASSUME Len(buffer[c]) = 1
      PROVE  sender[c] = Sent(done[c], buffer[c][1].text) /\ buffer[c][1].cmd = CommandAt(c, done[c])
  <2>1. 1 \in 1 .. Len(buffer[c]) /\ 1 - 1 = 0 /\ 1 # 0
    BY <1>7
  <2>2. buffer[c][1].cmd = CommandAt(c, StateAfter(done[c], buffer[c], 0))
    BY <1>5, <2>1
  <2> QED  BY <1>5, <1>7, <2>1, <2>2 DEF StateAfter
<1>8. ASSUME Len(buffer[c]) = 2
      PROVE  /\ sender[c] = Sent(Sent(done[c], buffer[c][1].text), buffer[c][2].text)
             /\ buffer[c][1].cmd = CommandAt(c, done[c])
             /\ buffer[c][2].cmd = CommandAt(c, Sent(done[c], buffer[c][1].text))
             /\ Sent(done[c], buffer[c][1].text) \in States
  <2>1. 1 \in 1 .. Len(buffer[c]) /\ 2 \in 1 .. Len(buffer[c]) /\ 1 - 1 = 0 /\ 2 - 1 = 1
    BY <1>8
  <2>2. /\ buffer[c][1].cmd = CommandAt(c, StateAfter(done[c], buffer[c], 0))
        /\ buffer[c][2].cmd = CommandAt(c, StateAfter(done[c], buffer[c], 1))
    BY <1>5, <2>1
  <2>3. Sent(done[c], buffer[c][1].text) \in States
    BY <1>1, <1>2, <2>1, SentOn
  <2>4. 1 # 0 /\ 2 # 0 /\ 2 # 1
    OBVIOUS
  <2> QED  BY <1>5, <1>8, <2>2, <2>3, <2>4 DEF StateAfter
<1> QED  BY <1>1, <1>2, <1>3, <1>4, <1>6, <1>7, <1>8

\* The line at the front is what its client sent next.
LEMMA FrontLine ==
  ASSUME NEW done \in [Clients -> States], Types, Lines(done), NEW c \in Clients, buffer[c] # <<>>
  PROVE  LET l == buffer[c][1]
             rest == Tail(buffer[c]) IN
         /\ Head(buffer[c]) = l /\ 1 \in 1 .. Len(buffer[c])
         /\ l.text \in Text /\ l.cmd \in Command /\ l.cmd = CommandAt(c, done[c])
         /\ rest \in Seq(Line) /\ Len(rest) \in Nat /\ Len(rest) <= 1 /\ Len(rest) = Len(buffer[c]) - 1
         /\ \A i \in 1 .. Len(rest) : rest[i] = buffer[c][i + 1] /\ i + 1 \in 1 .. Len(buffer[c])
         /\ Follows(c, Sent(done[c], l.text), rest)
<1> DEFINE buf == buffer[c]
           l == buf[1]
           rest == Tail(buf)
           s == Sent(done[c], l.text)
<1>1. /\ Head(buf) = l /\ rest \in Seq(Line) /\ Len(rest) = Len(buf) - 1
      /\ \A i \in 1 .. Len(buf) - 1 : rest[i] = buf[i + 1]
      /\ buf \in Seq(Line) /\ Len(buf) # 0
  BY BufferOfLines, TailElements, Elements
<1>2. Len(buf) = 1 \/ Len(buf) = 2
  BY <1>1, BufferOfLines, Zenon
<1>3. Len(buf) = 1 =>
        sender[c] = s /\ l.cmd = CommandAt(c, done[c])
  BY BufferOfLines, Zenon
<1>4. Len(buf) = 2 =>
        sender[c] = Sent(s, buf[2].text) /\ buf[2].cmd = CommandAt(c, s) /\ l.cmd = CommandAt(c, done[c])
  BY BufferOfLines, Zenon
<1> HIDE DEF rest, s
<1>5. \A n \in Nat : \A m : (n = 1 \/ n = 2) /\ m = n - 1 =>
        /\ 1 \in 1 .. n /\ m \in Nat /\ m <= 1
        /\ \A i \in 1 .. m : i = 1 /\ i + 1 = 2 /\ i + 1 \in 1 .. n /\ i \in 1 .. n - 1 /\ i - 1 = 0
        /\ (n = 1 => m = 0 /\ 1 .. m = {}) /\ (n = 2 => m = 1 /\ 1 \in 1 .. m)
  OBVIOUS
<1>6. Len(buf) \in Nat
  BY <1>1, Elements
<1>7. /\ 1 \in 1 .. Len(buf) /\ Len(rest) \in Nat /\ Len(rest) <= 1
      /\ \A i \in 1 .. Len(rest) :
           i = 1 /\ i + 1 = 2 /\ i + 1 \in 1 .. Len(buf) /\ i \in 1 .. Len(buf) - 1 /\ i - 1 = 0
      /\ Len(buf) = 1 => Len(rest) = 0 /\ 1 .. Len(rest) = {}
      /\ Len(buf) = 2 => Len(rest) = 1 /\ 1 \in 1 .. Len(rest)
  BY <1>1, <1>2, <1>5, <1>6, Zenon
<1>8. l.text \in Text /\ l.cmd \in Command
  BY <1>7, BufferOfLines, Zenon
<1>9. \A i \in 1 .. Len(rest) : rest[i] = buf[i + 1] /\ i + 1 \in 1 .. Len(buf) /\ i = 1 /\ i - 1 = 0
  BY <1>1, <1>7, Zenon
<1>10. CASE Len(buf) = 1
  <2>1. Len(rest) = 0 /\ 1 .. Len(rest) = {} /\ sender[c] = s /\ l.cmd = CommandAt(c, done[c])
    BY <1>3, <1>7, <1>10, Zenon
  <2>2. Follows(c, s, rest)
    BY <2>1, Zenon DEF Follows, StateAfter
  <2> QED  BY <1>1, <1>7, <1>8, <1>9, <2>1, <2>2, Zenon DEF rest, s
<1>11. CASE Len(buf) = 2
  <2>1. /\ Len(rest) = 1 /\ 1 \in 1 .. Len(rest) /\ l.cmd = CommandAt(c, done[c])
        /\ sender[c] = Sent(s, buf[2].text) /\ buf[2].cmd = CommandAt(c, s)
    BY <1>4, <1>7, <1>11, Zenon
  <2>2. rest[1] = buf[2]
    BY <1>7, <1>9, <2>1, Zenon
  <2>3. 1 # 0
    OBVIOUS
  <2>4. Follows(c, s, rest)
    BY <1>9, <2>1, <2>2, <2>3, Zenon DEF Follows, StateAfter
  <2> QED  BY <1>1, <1>7, <1>8, <1>9, <2>1, <2>4, Zenon DEF rest, s
<1> QED  BY <1>2, <1>10, <1>11

-----------------------------------------------------------------------------
\* read_next_cmd and add_cmd.

\* All that a client has sent of its block is in its custom bulk when the
\* block's } is handled.
LEMMA BlockIsWhole ==
  ASSUME NEW done \in [Clients -> States], Types, Lines(done), ReceivedOk(done),
         ContentOk(done, general, custom, formed, received),
         NEW c \in Clients, conn[c] = "open", io # [pc |-> "erase", c |-> c],
         buffer[c] # <<>>, Closes(buffer[c][1].text), done[c].depth = 1, custom[c] # <<>>
  PROVE  OfBlock(custom[c], received)
<1> DEFINE s == done[c]
           t == Sent(s, buffer[c][1].text)
<1>1. \A x \in Range(custom[c]) : x \in received /\ x.from = c /\ x.block = s.blocks
  BY DEF ContentOk, CustomOk
<1>2. custom[c] \in Bulk /\ Head(custom[c]) \in Range(custom[c])
  BY TailElements DEF Types, Bulk
<1>3. s \in States /\ s.blocks # 0
  <2>1. s.depth > 0 => s.blocks > 0
    BY DEF Lines, LinesOf
  <2>2. 1 > 0 /\ ~(0 > 0)
    OBVIOUS
  <2> QED  BY <2>1, <2>2
<1>4. t \in States /\ ~(t.depth > 0)
  <2>1. t \in States /\ t.depth = 0
    BY <1>3, FrontLine, SentOn, Zenon
  <2> QED  BY <2>1
<1>5. ASSUME NEW x \in received, x.from = c, x.block = s.blocks PROVE x \in Range(custom[c])
  <2>1. x.no <= s.lines
    <3>1. SUFFICES ASSUME NEW i \in 1 .. Len(buffer[c]), Buffered(x, i) PROVE FALSE
      BY <1>5 DEF ReceivedOk
    <3>2. x = buffer[c][i].cmd /\ buffer[c][i].text = "base"
      BY <1>5, <3>1 DEF Buffered
    <3>3. i # 1
      BY <3>2 DEF Closes
    <3>4. Len(buffer[c]) = 2 /\ i = 2
      <4>1. \A n, k \in Nat : (n = 0 \/ n = 1 \/ n = 2) /\ k \in 1 .. n /\ k # 1 => n = 2 /\ k = 2
        OBVIOUS
      <4>2. Len(buffer[c]) \in Nat /\ i \in Nat
        BY BufferOfLines, Elements
      <4> QED  BY <3>3, <4>1, <4>2, BufferOfLines, Zenon
    <3>5. x = CommandAt(c, t)
      BY <3>2, <3>4, BufferOfLines, Zenon
    <3>6. x.block = 0
      <4> HIDE DEF t
      <4> QED  BY <1>4, <3>5 DEF CommandAt
    <3> QED  BY <1>3, <1>5, <3>6
  <2>2. InBulks(x, general, custom, formed)
    BY <1>5, <2>1 DEF ReceivedOk, Dropped
  <2>3. ASSUME x \in Range(general) PROVE FALSE
    BY <1>3, <1>5, <2>3 DEF ContentOk, GeneralOk
  <2>4. ASSUME NEW bulk \in Range(formed), x \in Range(bulk) PROVE FALSE
    <3>1. \/ OfGeneral(bulk)
          \/ OfBlock(bulk, received) /\ Closed(done[Head(bulk).from], Head(bulk).block)
      BY DEF ContentOk, FormedOk
    <3>2. CASE OfGeneral(bulk)
      BY <1>3, <1>5, <2>4, <3>2 DEF OfGeneral
    <3>3. CASE OfBlock(bulk, received) /\ Closed(done[Head(bulk).from], Head(bulk).block)
      <4>1. Head(bulk).from = c /\ Head(bulk).block = s.blocks
        BY <1>5, <2>4, <3>3 DEF OfBlock
      <4>2. Closed(s, s.blocks)
        BY <3>3, <4>1
      <4> QED  BY <1>3, <4>2 DEF Closed, States
    <3> QED  BY <3>1, <3>2, <3>3
  <2> QED  BY <1>5, <2>2, <2>3, <2>4 DEF InBulks
<1> QED  BY <1>1, <1>2, <1>3, <1>5 DEF OfBlock

\* Every base command that has arrived is still accounted for.
LEMMA ReceivedFront ==
  ASSUME NEW done \in [Clients -> States], Types, Lines(done), ReceivedOk(done),
         NEW c \in Clients, buffer[c] # <<>>, conn[c] = "open",
         \A d \in Clients : io # [pc |-> "erase", c |-> d],
         buffer' = [buffer EXCEPT ![c] = Tail(@)], UNCHANGED <<received, conn>>,
         NEW e, e = Advance(done, c, buffer[c][1].text), Managed(e, c),
         buffer[c][1].text = "base" => InBulks(buffer[c][1].cmd, general', custom', formed')
  PROVE  ReceivedOk(e)'
<1> DEFINE l == buffer[c][1]
           rest == Tail(buffer[c])
<1>1. /\ l.text \in Text /\ l.cmd = CommandAt(c, done[c]) /\ done[c] \in States
      /\ \A i \in 1 .. Len(rest) : rest[i] = buffer[c][i + 1] /\ i + 1 \in 1 .. Len(buffer[c])
      /\ buffer' = [buffer EXCEPT ![c] = rest]
      /\ received \subseteq Command /\ buffer \in [Clients -> Seq(Line)]
  BY FrontLine DEF Types
<1>2. /\ e[c] = Sent(done[c], l.text) /\ \A d \in Clients : d # c => e[d] = done[d]
      /\ \A d \in Clients : done[d].lines <= e[d].lines
      /\ e \in [Clients -> States]
  <2> DEFINE f == Advance(done, c, l.text)
  <2>1. /\ f[c] = Sent(done[c], l.text) /\ \A d \in Clients : d # c => f[d] = done[d]
        /\ \A d \in Clients : done[d].lines <= f[d].lines
        /\ f \in [Clients -> States]
    <3> HIDE DEF l
    <3>1. \A text \in Text : Advance(done, c, text)[c] = Sent(done[c], text)
      BY Advanced
    <3>2. \A text \in Text, d \in Clients : d # c => Advance(done, c, text)[d] = done[d]
      BY Advanced
    <3>3. \A text \in Text : Advance(done, c, text) \in [Clients -> States]
      BY Advanced
    <3>4. \A text \in Text, d \in Clients : done[d].lines <= Advance(done, c, text)[d].lines
      BY Advanced
    <3> QED  BY <1>1, <3>1, <3>2, <3>3, <3>4, Zenon
  <2>2. e = f
    OBVIOUS
  <2> HIDE DEF f
  <2> QED  BY <2>1, <2>2
<1>3. buffer'[c] = rest /\ \A d \in Clients : d # c => buffer'[d] = buffer[d]
  BY <1>1
<1>4. \A y : InBulks(y, general, custom, formed) => InBulks(y, general', custom', formed')
  BY DEF Managed
<1>5. l.cmd.no = done[c].lines + 1 /\ e[c].lines = done[c].lines + 1 /\ done[c].lines \in Nat
  <2>1. done[c].lines \in Nat
    BY <1>1 DEF States
  <2>2. e[c].lines = done[c].lines + 1
    BY <1>1, <1>2, SentOn
  <2>3. l.cmd.no = done[c].lines + 1
    BY <1>1 DEF CommandAt
  <2> QED  BY <2>1, <2>2, <2>3
<1> HIDE DEF l, rest
<1>6. ASSUME NEW x \in received
      PROVE  IF x.no <= e[x.from].lines
               THEN InBulks(x, general', custom', formed') \/ Dropped(x, e[x.from])'
               ELSE \E i \in 1 .. Len(buffer'[x.from]) : Buffered(x, i)'
  <2>1. x.from \in Clients /\ x.no \in Nat
    BY <1>1 DEF Command
  <2>2. CASE x.no <= done[x.from].lines
    <3>1. x.no <= e[x.from].lines
      <4>1. done[x.from].lines \in Nat /\ e[x.from].lines \in Nat /\ done[x.from].lines <= e[x.from].lines
        BY <1>2, <2>1 DEF States
      <4> QED  BY <2>1, <2>2, <4>1
    <3>2. InBulks(x, general, custom, formed) \/ Dropped(x, done[x.from])
      BY <2>2 DEF ReceivedOk
    <3>3. ASSUME Dropped(x, done[x.from]) PROVE Dropped(x, e[x.from])'
      <4>1. conn[x.from] = "gone" /\ x.from # c
        BY <2>1, <3>3 DEF Dropped
      <4>2. conn'[x.from] = "gone" /\ e[x.from] = done[x.from]
        BY <1>2, <2>1, <4>1
      <4> QED  BY <3>3, <4>2, Zenon DEF Dropped
    <3> QED  BY <1>4, <3>1, <3>2, <3>3
  <2>3. CASE ~(x.no <= done[x.from].lines)
    <3>1. PICK i \in 1 .. Len(buffer[x.from]) : Buffered(x, i)
      BY <2>3 DEF ReceivedOk
    <3>2. CASE x.from # c
      <4>1. e[x.from] = done[x.from] /\ buffer'[x.from] = buffer[x.from] /\ Buffered(x, i)'
        BY <1>2, <1>3, <2>1, <3>1, <3>2 DEF Buffered
      <4> QED  BY <2>3, <3>1, <4>1
    <3>3. CASE x.from = c /\ i = 1
      <4>1. x = l.cmd /\ InBulks(x, general', custom', formed')
        BY <3>1, <3>3 DEF Buffered, l
      <4>2. x.no <= e[x.from].lines
        BY <1>5, <3>3, <4>1
      <4> QED  BY <4>1, <4>2
    <3>4. CASE x.from = c /\ i # 1
      <4>1. Len(buffer[c]) = 2 /\ i = 2
        <5>1. \A n, k \in Nat : (n = 0 \/ n = 1 \/ n = 2) /\ k \in 1 .. n /\ k # 1 => n = 2 /\ k = 2
          OBVIOUS
        <5>2. Len(buffer[c]) \in Nat /\ i \in Nat
          BY <3>4, BufferOfLines, Elements
        <5> QED  BY <3>4, <5>1, <5>2, BufferOfLines, Zenon
      <4>2. x = CommandAt(c, e[c])
        <5>1. x = buffer[c][2].cmd
          BY <3>1, <3>4, <4>1 DEF Buffered
        <5>2. buffer[c][2].cmd = CommandAt(c, Sent(done[c], buffer[c][1].text))
          BY <4>1, BufferOfLines, Zenon
        <5> QED  BY <1>2, <5>1, <5>2, Zenon DEF l
      <4>3. ~(x.no <= e[x.from].lines)
        <5>1. e[c].lines \in Nat /\ x.no = e[c].lines + 1
          BY <1>2, <4>2 DEF CommandAt, States
        <5> QED  BY <3>4, <5>1
      <4>4. Len(rest) = 1 /\ 1 \in 1 .. 1 /\ 1 + 1 = 2
        <5>1. Len(rest) = Len(buffer[c]) - 1
          BY FrontLine DEF rest
        <5> QED  BY <4>1, <5>1
      <4>5. Buffered(x, 1)'
        BY <1>1, <1>3, <3>1, <3>4, <4>1, <4>4 DEF Buffered
      <4> QED  BY <1>3, <3>4, <4>3, <4>4, <4>5
    <3> QED  BY <3>2, <3>3, <3>4
  <2> QED  BY <2>2, <2>3
<1>7. ASSUME NEW d \in Clients, NEW i \in 1 .. Len(buffer'[d]), buffer'[d][i].text = "base"
      PROVE  buffer'[d][i].cmd \in received
  <2>1. CASE d = c
    <3>1. buffer'[d] = rest /\ i \in 1 .. Len(rest)
      BY <1>3, <2>1
    <3>2. buffer'[d][i] = buffer[c][i + 1] /\ i + 1 \in 1 .. Len(buffer[c])
      BY <1>1, <3>1
    <3> QED  BY <1>7, <3>2 DEF ReceivedOk
  <2>2. CASE d # c
    BY <1>3, <1>7, <2>2 DEF ReceivedOk
  <2> QED  BY <2>1, <2>2
<1>8. received' = received
  OBVIOUS
<1> QED  BY <1>6, <1>7, <1>8, Zenon DEF ReceivedOk

-----------------------------------------------------------------------------
\* The bulks on their way out.

LEMMA ThroughSend ==
  ASSUME NEW q \in [Clients -> Seq(Bulk)], NEW out \in Seq(Bulk), NEW fo \in Seq(Bulk),
         Through(q, out, fo), NEW c \in Clients, NEW b \in Bulk, b = <<>> \/ b \notin Range(fo)
  PROVE  Through([q EXCEPT ![c] = SentOff(@, b)], out, SentOff(fo, b))
<1>1. CASE b = <<>>
  BY <1>1 DEF SentOff
<1>2. CASE b # <<>>
  <2> DEFINE r == Append(q[c], b)
             p == [q EXCEPT ![c] = r]
  <2>1. /\ b \notin Range(out) /\ \A d \in Clients : b \notin Range(q[d])
        /\ IsInjective(out) /\ \A d \in Clients : IsInjective(q[d])
    BY <1>2 DEF Through, Queued, Disjoint
  <2>2. Range(r) = Range(q[c]) \cup {b} /\ IsInjective(r)
    BY <2>1, Appended, AppendedToInjective
  <2>3. Range(Append(fo, b)) = Range(fo) \cup {b}
    BY Appended
  <2>4. p[c] = r /\ \A d \in Clients \ {c} : p[d] = q[d]
    OBVIOUS
  <2> HIDE DEF r, p
  <2>5. Queued(p) = Queued(q) \cup {b}
    BY <2>2, <2>4 DEF Queued
  <2>6. Disjoint(p, out)
    <3>1. \A d \in Clients : IsInjective(p[d]) /\ Range(p[d]) \cap Range(out) = {}
      BY <2>1, <2>2, <2>4, ZenonT(30) DEF Through, Disjoint
    <3>2. ASSUME NEW d \in Clients, NEW d2 \in Clients, d # d2
          PROVE  Range(p[d]) \cap Range(p[d2]) = {}
      <4>1. /\ Range(q[d]) \cap Range(q[d2]) = {}
            /\ b \notin Range(q[d]) /\ b \notin Range(q[d2])
        BY <2>1, <3>2 DEF Through, Disjoint
      <4>2. CASE d = c
        BY <2>2, <2>4, <3>2, <4>1, <4>2
      <4>3. CASE d2 = c
        BY <2>2, <2>4, <3>2, <4>1, <4>3
      <4>4. CASE d # c /\ d2 # c
        BY <2>4, <4>1, <4>4
      <4> QED  BY <4>2, <4>3, <4>4
    <3> QED  BY <2>1, <3>1, <3>2 DEF Disjoint
  <2>7. Through(p, out, Append(fo, b))
    BY <2>3, <2>5, <2>6 DEF Through
  <2> QED  BY <1>2, <2>7 DEF SentOff, p, r
<1> QED  BY <1>1, <1>2

\* A pool's thread takes the i-th bulk of its queue and puts it out.
LEMMA ThroughMove ==
  ASSUME NEW q \in [Clients -> Seq(Bulk)], NEW out \in Seq(Bulk), NEW fo, Through(q, out, fo),
         NEW c \in Clients, NEW i \in 1 .. Len(q[c]), NEW r \in Seq(Bulk),
         Without(r, q[c], i)
  PROVE  Through([q EXCEPT ![c] = r], Append(out, q[c][i]), fo)
<1> DEFINE p == [q EXCEPT ![c] = r]
           b == q[c][i]
           o == Append(out, b)
<1>1. IsInjective(out) /\ IsInjective(q[c]) /\ q[c] \in Seq(Bulk) /\ b \in Range(q[c]) /\ b \in Bulk
  BY Elements DEF Through, Disjoint
<1>2. IsInjective(r) /\ Range(r) = Range(q[c]) \ {b}
  BY <1>1, RemovedFromInjective
<1>3. p[c] = r /\ \A d \in Clients \ {c} : p[d] = q[d]
  OBVIOUS
<1>4. b \notin Range(out) /\ \A d \in Clients \ {c} : b \notin Range(q[d])
  BY <1>1 DEF Through, Disjoint
<1>5. Range(o) = Range(out) \cup {b} /\ IsInjective(o)
  BY <1>1, <1>4, Appended, AppendedToInjective
<1> HIDE DEF b, o, p
<1>6. Range(o) \cup Queued(p) = Range(out) \cup Queued(q)
  <2>1. ASSUME NEW x \in Queued(p) PROVE x \in Queued(q)
    <3>1. PICK d \in Clients : x \in Range(p[d])
      BY <2>1 DEF Queued
    <3> QED  BY <1>2, <1>3, <3>1 DEF Queued
  <2>2. ASSUME NEW x \in Queued(q), x # b PROVE x \in Queued(p)
    <3>1. PICK d \in Clients : x \in Range(q[d])
      BY <2>2 DEF Queued
    <3> QED  BY <1>2, <1>3, <2>2, <3>1 DEF Queued
  <2>3. b \in Queued(q)
    BY <1>1 DEF Queued
  <2> QED  BY <1>5, <2>1, <2>2, <2>3
<1>7. Disjoint(p, o)
  <2>1. \A d \in Clients : IsInjective(p[d]) /\ Range(p[d]) \cap Range(o) = {}
    <3>1. \A d \in Clients : IsInjective(q[d]) /\ Range(q[d]) \cap Range(out) = {}
      BY DEF Through, Disjoint
    <3>2. IsInjective(p[c]) /\ Range(p[c]) \cap Range(o) = {}
      BY <1>2, <1>3, <1>5, <3>1
    <3>3. \A d \in Clients \ {c} : IsInjective(p[d]) /\ Range(p[d]) \cap Range(o) = {}
      BY <1>3, <1>4, <1>5, <3>1
    <3> QED  BY <3>2, <3>3
  <2>2. ASSUME NEW d \in Clients, NEW d2 \in Clients, d # d2
        PROVE  Range(p[d]) \cap Range(p[d2]) = {}
    <3>1. Range(q[d]) \cap Range(q[d2]) = {}
      BY <2>2 DEF Through, Disjoint
    <3>2. \A d3 \in Clients : Range(p[d3]) \subseteq Range(q[d3])
      BY <1>2, <1>3
    <3> QED  BY <3>1, <3>2
  <2> QED  BY <1>5, <2>1, <2>2 DEF Disjoint
<1>8. Through(p, o, fo)
  BY <1>6, <1>7 DEF Through
<1> QED  BY <1>8 DEF p, o, b

LEMMA OutputSends ==
  ASSUME Types, OutputOk, NEW c \in Clients, conn[c] = "open",
         NEW b \in Bulk, b = <<>> \/ b \notin Range(formed),
         Sends(c, b), UNCHANGED <<console, files, conn>>
  PROVE  /\ OutputOk' /\ formed' \in Seq(Bulk)
         /\ coutq' \in [Clients -> Seq(Bulk)] /\ fileq' \in [Clients -> Seq(Bulk)]
<1>1. /\ coutq \in [Clients -> Seq(Bulk)] /\ fileq \in [Clients -> Seq(Bulk)]
      /\ console \in Seq(Bulk) /\ files \in Seq(Bulk) /\ formed \in Seq(Bulk)
  BY DEF Types
<1>2. /\ coutq' = [coutq EXCEPT ![c] = SentOff(@, b)]
      /\ fileq' = [fileq EXCEPT ![c] = SentOff(@, b)]
      /\ formed' = SentOff(formed, b) /\ console' = console /\ files' = files
  BY DEF Sends
<1>3. Through(coutq', console', formed') /\ Through(fileq', files', formed')
  BY <1>1, <1>2, ThroughSend DEF OutputOk
<1>4. \A q \in Seq(Bulk) : SentOff(q, b) \in Seq(Bulk)
  BY SentOffBulks
<1>5. /\ formed' \in Seq(Bulk)
      /\ coutq' \in [Clients -> Seq(Bulk)] /\ fileq' \in [Clients -> Seq(Bulk)]
  BY <1>1, <1>2, <1>4
<1>6. ASSUME NEW d \in Clients, conn'[d] = "gone" PROVE coutq'[d] = <<>> /\ fileq'[d] = <<>>
  <2>1. d # c /\ conn[d] = "gone"
    BY <1>6
  <2> QED  BY <1>1, <1>2, <2>1 DEF OutputOk
<1> QED  BY <1>3, <1>5, <1>6 DEF OutputOk

\* The handlers of one client do not touch the lines of another.
LEMMA OtherLines ==
  ASSUME NEW s, NEW c \in Clients, NEW d \in Clients, c # d, LinesOf(d, s),
         io = Idle \/ io.c = c, io' = Idle \/ io'.c = c,
         buffer'[d] = buffer[d], conn'[d] = conn[d], nesting'[d] = nesting[d],
         handler'[d] = handler[d], sender'[d] = sender[d]
  PROVE  LinesOf(d, s)'
<1>1. \A p \in {"receive", "terminate", "erase"} : io # [pc |-> p, c |-> d] /\ io' # [pc |-> p, c |-> d]
  BY DEF Idle
<1>2. Follows(d, s, buffer[d])'
  BY DEF LinesOf, Follows
<1>3. ~HasCmd(d) /\ ~HasCmd(d)'
  BY <1>1 DEF LinesOf, HasCmd
<1> QED  BY <1>1, <1>2, <1>3 DEF LinesOf

\* What the manager does with the line at the front.
LEMMA FrontManaged ==
  ASSUME NEW done \in [Clients -> States], Inv(done), NEW c \in Clients, HandleFront(c),
         buffer[c] # <<>>, conn[c] = "open", io # [pc |-> "erase", c |-> c]
  PROVE  LET l == buffer[c][1] IN
           /\ Managed(Advance(done, c, l.text), c)
           /\ l.text = "base" => InBulks(l.cmd, general', custom', formed')
<1> DEFINE l == buffer[c][1]
           s == done[c]
           G == /\ Managed(Advance(done, c, l.text), c)
                /\ l.text = "base" => InBulks(l.cmd, general', custom', formed')
<1>1. /\ Managing(done, c) /\ s \in States /\ RecordFormed(c)
      /\ l.text \in Text /\ l.cmd \in Command /\ l.cmd = CommandAt(c, s)
      /\ AddLine(c, l.text, l.cmd)
  <2>1. Managing(done, c)
    BY DEF Inv, Managing, Lines, LinesOf
  <2>2. Head(buffer[c]) = l /\ l.text \in Text /\ l.cmd \in Command /\ l.cmd = CommandAt(c, s)
    BY FrontLine DEF Inv
  <2> QED  BY <2>1, <2>2 DEF HandleFront
<1>2. /\ s.depth \in Nat /\ nesting[c] = s.depth
      /\ handler[c] = "general" => s.depth = 0 /\ ~(s.depth > 0) /\ ~(s.depth = 1)
      /\ handler[c] = "custom" => s.depth > 0 /\ ~(s.depth = 0)
  <2>1. s.depth \in Nat /\ nesting[c] = s.depth
    BY <1>1 DEF Managing, States
  <2>2. (s.depth > 0 /\ ~(s.depth = 0)) \/ (s.depth = 0 /\ ~(s.depth > 0) /\ ~(s.depth = 1))
    BY <2>1
  <2>3. "custom" # "general"
    OBVIOUS
  <2> QED  BY <1>1, <2>1, <2>2, <2>3, Zenon DEF Managing
<1>3. l.text = "base" => l.cmd \in received
  <2>1. 1 \in 1 .. Len(buffer[c])
    BY FrontLine DEF Inv
  <2> QED  BY <2>1 DEF Inv, ReceivedOk
<1> HIDE DEF l
<1>4. ASSUME l.text = "base" /\ GeneralBase(c, l.cmd) PROVE G
  BY <1>1, <1>2, <1>4, HandleGeneralBase DEF GeneralBase
<1>5. ASSUME l.text = "base" /\ CustomBase(c, l.cmd) PROVE G
  BY <1>1, <1>2, <1>3, <1>5, HandleCustomBase DEF CustomBase
<1>6. ASSUME l.text = "{" /\ GeneralStart(c) PROVE G
  BY <1>1, <1>2, <1>6, HandleOpen DEF GeneralStart
<1>7. ASSUME l.text = "{" /\ CustomStart(c) PROVE G
  <2>1. s.depth > 0 /\ ~(s.depth = 0) /\ ~Closes(l.text)
    BY <1>2, <1>7, Zenon DEF CustomStart, Closes
  <2>2. nesting' = [nesting EXCEPT ![c] = Sent(s, l.text).depth]
    BY <1>2, <1>7 DEF CustomStart, Sent
  <2>3. Managed(Advance(done, c, l.text), c)
    BY <1>1, <1>7, <2>1, <2>2, HandleBrace DEF CustomStart
  <2> QED  BY <1>7, <2>3
<1>8. ASSUME l.text = "}" /\ GeneralStop(c) PROVE G
  <2>1. s.depth = 0 /\ ~(s.depth > 0) /\ ~(s.depth = 1) /\ ~Opens(l.text) /\ l.text # "{"
    BY <1>2, <1>8, Zenon DEF GeneralStop, Opens
  <2>2. Sent(s, l.text).depth = s.depth
    BY <2>1 DEF Sent
  <2>3. nesting' = [nesting EXCEPT ![c] = Sent(s, l.text).depth]
    BY <1>1, <1>2, <1>8, <2>2 DEF GeneralStop, mgrVars, Managing, Types
  <2>4. Managed(Advance(done, c, l.text), c)
    BY <1>1, <1>8, <2>1, <2>3, HandleBrace DEF GeneralStop, mgrVars
  <2> QED  BY <1>8, <2>4
<1>9. ASSUME l.text = "}" /\ CustomStop(c) /\ s.depth = 1 PROVE G
  <2>1. custom[c] # <<>> => OfBlock(custom[c], received)
    BY <1>9, BlockIsWhole DEF Inv, Closes, l
  <2>2. Managed(Advance(done, c, "}"), c)
    BY <1>1, <1>9, <2>1, HandleClose
  <2> QED  BY <1>9, <2>2
<1>10. ASSUME l.text = "}" /\ CustomStop(c) /\ s.depth # 1 PROVE G
  <2>1. s.depth > 0 /\ ~(s.depth = 1) /\ ~Opens(l.text) /\ l.text # "{"
    BY <1>2, <1>10, Zenon DEF CustomStop, Opens
  <2>2. nesting' = [nesting EXCEPT ![c] = Sent(s, l.text).depth]
    BY <1>2, <1>10, <2>1 DEF CustomStop, Sent
  <2>3. Managed(Advance(done, c, l.text), c)
    BY <1>1, <1>2, <1>10, <2>1, <2>2, HandleBrace DEF CustomStop, Outermost
  <2> QED  BY <1>10, <2>3
<1>11. \/ l.text = "base" /\ (GeneralBase(c, l.cmd) \/ CustomBase(c, l.cmd))
       \/ l.text = "{" /\ (GeneralStart(c) \/ CustomStart(c))
       \/ l.text = "}" /\ (GeneralStop(c) \/ CustomStop(c))
  BY <1>1 DEF AddLine
<1> QED  BY <1>4, <1>5, <1>6, <1>7, <1>8, <1>9, <1>10, <1>11, Zenon DEF l

-----------------------------------------------------------------------------
\* The steps keep the invariant.

\* The io thread handles the line at the front, in receive or in disconnect.
LEMMA FrontKept ==
  ASSUME NEW done \in [Clients -> States], Inv(done), NEW c \in Clients, HandleFront(c),
         buffer[c] # <<>>, conn[c] = "open",
         \/ io = [pc |-> "receive", c |-> c] /\ io' = io
         \/ io = [pc |-> "rest", c |-> c] /\ io' = [pc |-> "terminate", c |-> c]
  PROVE  \E e \in [Clients -> States] : Inv(e)'
<1> DEFINE l == buffer[c][1]
<1>1. l.text \in Text /\ done[c] \in States
  BY FrontLine DEF Inv
<1>2. PICK e \in [Clients -> States] : e = Advance(done, c, l.text)
  BY <1>1, Advanced
<1>3. /\ e[c] = Sent(done[c], l.text) /\ e[c] \in States
      /\ \A d \in Clients : d # c => e[d] = done[d]
  BY <1>1, <1>2, Advanced, SentOn, ZenonT(30)
<1>4. \A d \in Clients : io # [pc |-> "erase", c |-> d]
  OBVIOUS
<1>5. Managed(e, c) /\ (l.text = "base" => InBulks(l.cmd, general', custom', formed'))
  BY <1>2, <1>4, FrontManaged
<1>6. /\ buffer' = [buffer EXCEPT ![c] = Tail(@)]
      /\ UNCHANGED <<conn, console, files, sender, received, lastGone>>
  BY DEF HandleFront, outVars
<1>7. ReceivedOk(e)'
  BY <1>2, <1>4, <1>5, <1>6, ReceivedFront DEF Inv
<1>8. PICK b \in Bulk : (b = <<>> \/ b \notin Range(formed)) /\ Sends(c, b)
  BY <1>5 DEF Managed
<1>9. /\ OutputOk' /\ formed' \in Seq(Bulk)
      /\ coutq' \in [Clients -> Seq(Bulk)] /\ fileq' \in [Clients -> Seq(Bulk)]
  BY <1>6, <1>8, OutputSends DEF Inv
<1>10. /\ Tail(buffer[c]) \in Seq(Line) /\ Len(Tail(buffer[c])) <= 1 /\ Len(Tail(buffer[c])) \in Nat
       /\ Len(Tail(buffer[c])) = Len(buffer[c]) - 1
       /\ Follows(c, e[c], Tail(buffer[c]))
  BY <1>3, FrontLine, Zenon DEF Inv
<1>11. Types'
  <2>1. e[c].depth \in Nat
    BY <1>3 DEF States
  <2>2. nesting' \in [Clients -> Nat] /\ handler' \in [Clients -> {"general", "custom"}]
    BY <1>5, <2>1 DEF Managed, Inv, Types
  <2>3. buffer' \in [Clients -> Seq(Line)]
    BY <1>6, <1>10 DEF Inv, Types
  <2>4. io' \in IoStates
    BY DEF IoStates, Inv, Types
  <2> QED  BY <1>5, <1>6, <1>9, <2>2, <2>3, <2>4 DEF Managed, Inv, Types
<1>12. Lines(e)'
  <2>1. buffer'[c] = Tail(buffer[c]) /\ \A d \in Clients : d # c => buffer'[d] = buffer[d]
    BY <1>6 DEF Inv, Types
  <2>2. /\ nesting'[c] = e[c].depth /\ handler'[c] = IF e[c].depth > 0 THEN "custom" ELSE "general"
        /\ \A d \in Clients : d # c => nesting'[d] = nesting[d] /\ handler'[d] = handler[d]
    BY <1>5 DEF Managed, Inv, Types
  <2>3. ASSUME NEW d \in Clients, d # c PROVE LinesOf(d, e[d])'
    <3>1. LinesOf(d, done[d]) /\ io.c = c /\ io'.c = c
      BY DEF Inv, Lines
    <3> QED  BY <1>3, <1>6, <2>1, <2>2, <2>3, <3>1, OtherLines
  <2>4. LinesOf(c, e[c])'
    <3>1. Follows(c, e[c], buffer[c])'
      BY <1>6, <1>10, <2>1 DEF Follows
    <3>2. Len(buffer'[c]) <= 2 /\ ~(Len(buffer'[c]) = 2)
      <4>1. \A n \in Nat : n <= 1 => n <= 2 /\ ~(n = 2)
        OBVIOUS
      <4> QED  BY <1>10, <2>1, <4>1, Zenon
    <3>3. io' = [pc |-> "terminate", c |-> c] => Tail(buffer[c]) = <<>>
      <4>1. SUFFICES ASSUME io = [pc |-> "rest", c |-> c] PROVE Tail(buffer[c]) = <<>>
        OBVIOUS
      <4>2. ~buffer[c][1].complete
        <5>1. ~HasCmd(c)
          BY <4>1 DEF Inv, Lines, LinesOf
        <5> QED  BY <5>1, FrontLine DEF HasCmd, Inv
      <4>3. Len(buffer[c]) # 2
        BY <4>2 DEF Inv, Lines, LinesOf
      <4>4. Len(Tail(buffer[c])) = 0
        <5>1. \A n, m \in Nat : m <= 1 /\ m = n - 1 /\ n # 2 => m = 0
          OBVIOUS
        <5>2. Len(buffer[c]) \in Nat
          BY Elements DEF Inv, Types
        <5> QED  BY <1>10, <4>3, <5>1, <5>2, Zenon
      <4> QED  BY <1>10, <4>4, Elements
    <3>4. HasCmd(c)' => io' = [pc |-> "receive", c |-> c]
      <4>1. CASE io' = [pc |-> "receive", c |-> c]
        BY <4>1
      <4>2. CASE io' = [pc |-> "terminate", c |-> c]
        BY <2>1, <3>3, <4>2 DEF HasCmd
      <4> QED  BY <4>1, <4>2
    <3>5. io' # [pc |-> "erase", c |-> c] /\ conn'[c] = "open"
      BY <1>6
    <3>6. e[c].depth > 0 => e[c].blocks > 0
      <4>1. done[c].depth > 0 => done[c].blocks > 0
        BY DEF Inv, Lines, LinesOf
      <4> QED  BY <1>1, <1>3, <4>1, SentOn, Zenon
    <3>7. io' \in {[pc |-> "terminate", c |-> c], [pc |-> "erase", c |-> c]} \/ conn'[c] = "gone"
            => buffer'[c] = <<>>
      BY <2>1, <3>3, <3>5
    <3> QED  BY <2>2, <3>1, <3>2, <3>4, <3>6, <3>7 DEF LinesOf
  <2>5. IoOk'
    <3>1. io'.pc # "run" /\ io'.c = c /\ conn'[c] = "open"
      BY <1>6
    <3> QED  BY <3>1 DEF IoOk
  <2> QED  BY <2>3, <2>4, <2>5 DEF Lines
<1>13. LastOk'
  <2>1. c \in Open'
    BY <1>6 DEF Open
  <2>2. \A d \in Clients : io' # [pc |-> "erase", c |-> d]
    OBVIOUS
  <2> QED  BY <2>1, <2>2 DEF LastOk
<1>14. received' = received
  BY <1>6
<1> QED  BY <1>5, <1>7, <1>9, <1>11, <1>12, <1>13, <1>14 DEF Managed, Inv

\* A step that handles no line and changes no bulk.
LEMMA BulksStay ==
  ASSUME NEW done \in [Clients -> States], Inv(done),
         UNCHANGED <<general, custom, formed, received>>,
         \A d \in Clients : conn[d] = "gone" \/ io = [pc |-> "erase", c |-> d]
                              => conn'[d] = "gone" \/ io' = [pc |-> "erase", c |-> d],
         \A d \in Clients :
           /\ Len(buffer'[d]) = Len(buffer[d])
           /\ \A i \in 1 .. Len(buffer[d]) : /\ buffer'[d][i].text = buffer[d][i].text
                                             /\ buffer'[d][i].cmd = buffer[d][i].cmd
  PROVE  /\ ContentOk(done, general', custom', formed', received') /\ Len(general') < BulkSize
         /\ OrderOk(general', custom', formed') /\ ReceivedOk(done)'
<1>1. \A x \in received : x.from \in Clients
  BY DEF Inv, Types, Command
<1>2. \A x \in received : Dropped(x, done[x.from]) => Dropped(x, done[x.from])'
  BY <1>1 DEF Dropped
<1>3. \A x \in received : \A i \in 1 .. Len(buffer[x.from]) : Buffered(x, i) => Buffered(x, i)'
  BY <1>1 DEF Buffered
<1>4. ReceivedOk(done)'
  <2>1. ASSUME NEW x \in received
        PROVE  IF x.no <= done[x.from].lines
                 THEN InBulks(x, general', custom', formed') \/ Dropped(x, done[x.from])'
                 ELSE \E i \in 1 .. Len(buffer'[x.from]) : Buffered(x, i)'
    <3>1. CASE x.no <= done[x.from].lines
      BY <1>2, <3>1 DEF Inv, ReceivedOk
    <3>2. CASE ~(x.no <= done[x.from].lines)
      <4>1. PICK i \in 1 .. Len(buffer[x.from]) : Buffered(x, i)
        BY <3>2 DEF Inv, ReceivedOk
      <4> QED  BY <1>1, <1>3, <3>2, <4>1
    <3> QED  BY <3>1, <3>2
  <2>2. \A d \in Clients : \A i \in 1 .. Len(buffer'[d]) :
          buffer'[d][i].text = "base" => buffer'[d][i].cmd \in received
    BY DEF Inv, ReceivedOk
  <2> QED  BY <2>1, <2>2 DEF ReceivedOk
<1> QED  BY <1>4 DEF Inv

\* Whoever is being served changes; the lines stay.
LEMMA IoKept ==
  ASSUME NEW done \in [Clients -> States], Inv(done), NEW c \in Clients,
         UNCHANGED <<mgrVars, conn, buffer, outVars, histVars>>,
         conn[c] = "open", \A d \in Clients : io # [pc |-> "erase", c |-> d],
         \/ io = [pc |-> "receive", c |-> c] /\ AllHandled(c) /\ io' = Idle
         \/ io = Idle /\ io' = [pc |-> "rest", c |-> c]
         \/ io = [pc |-> "rest", c |-> c] /\ buffer[c] = <<>> /\ io' = [pc |-> "terminate", c |-> c]
  PROVE  Inv(done)'
<1> USE DEF mgrVars, outVars, histVars
<1>1. /\ io = Idle \/ io.c = c
      /\ io' = Idle \/ io'.c = c
      /\ \A d \in Clients : io' # [pc |-> "erase", c |-> d]
  BY DEF Idle
<1>2. /\ ContentOk(done, general', custom', formed', received') /\ Len(general') < BulkSize
      /\ OrderOk(general', custom', formed') /\ ReceivedOk(done)'
  BY BulksStay
<1>3. Types'
  <2>1. io' \in IoStates
    BY DEF IoStates, Idle
  <2> QED  BY <2>1 DEF Inv, Types
<1>4. Lines(done)'
  <2>1. \A d \in Clients : LinesOf(d, done[d])
    BY DEF Inv, Lines
  <2>2. \A d \in Clients : d # c => LinesOf(d, done[d])'
    BY <1>1, <2>1, OtherLines
  <2>3. LinesOf(c, done[c])'
    <3>1. ~HasCmd(c)
      BY <2>1 DEF LinesOf, Idle, HasCmd, AllHandled
    <3>2. ~HasCmd(c)' /\ Follows(c, done[c], buffer[c])'
      BY <2>1, <3>1 DEF LinesOf, HasCmd, Follows
    <3>3. io' = [pc |-> "terminate", c |-> c] => buffer[c] = <<>>
      BY DEF Idle
    <3> QED  BY <1>1, <2>1, <3>2, <3>3 DEF LinesOf
  <2>4. IoOk'
    BY DEF IoOk, Idle
  <2> QED  BY <2>2, <2>3, <2>4 DEF Lines
<1>5. OutputOk'
  BY DEF Inv, OutputOk
<1>6. LastOk'
  BY <1>1 DEF Inv, LastOk, Open
<1> QED  BY <1>2, <1>3, <1>4, <1>5, <1>6 DEF Inv

LEMMA ConnectKept ==
  ASSUME NEW done \in [Clients -> States], Inv(done), NEW c \in Clients, Connect(c)
  PROVE  Inv(done)'
<1> USE DEF mgrVars, outVars, histVars
<1>1. /\ io = Idle /\ io' = Idle /\ conn[c] = "none" /\ conn'[c] = "open"
      /\ conn' = [conn EXCEPT ![c] = "open"]
      /\ \A d \in Clients : d # c => conn'[d] = conn[d]
      /\ UNCHANGED <<mgrVars, buffer, outVars, histVars>>
  BY DEF Connect, Inv, Types
<1>2. /\ ContentOk(done, general', custom', formed', received') /\ Len(general') < BulkSize
      /\ OrderOk(general', custom', formed') /\ ReceivedOk(done)'
  BY <1>1, BulksStay DEF Idle
<1>3. Types'
  BY <1>1 DEF Inv, Types
<1>4. Lines(done)'
  <2>1. \A d \in Clients : LinesOf(d, done[d])
    BY DEF Inv, Lines
  <2>2. \A d \in Clients : d # c => LinesOf(d, done[d])'
    BY <1>1, <2>1, OtherLines
  <2>3. LinesOf(c, done[c])'
    <3>1. HasCmd(c)' = HasCmd(c) /\ Follows(c, done[c], buffer[c])'
      BY <1>1, <2>1 DEF LinesOf, HasCmd, Follows
    <3> QED  BY <1>1, <2>1, <3>1 DEF LinesOf, Idle
  <2> QED  BY <1>1, <2>2, <2>3 DEF Lines, IoOk
<1>5. OutputOk'
  BY <1>1 DEF Inv, OutputOk
<1>6. LastOk'
  BY <1>1 DEF LastOk, Open, Idle
<1> QED  BY <1>2, <1>3, <1>4, <1>5, <1>6 DEF Inv

\* A pool puts a bulk out.
LEMMA OutputKept ==
  ASSUME NEW done \in [Clients -> States], Inv(done), NEW c \in Clients,
         PrintBulk(c) \/ \E i \in 1 .. 2 : WriteFile(c, i)
  PROVE  Inv(done)'
<1> USE DEF srvVars, histVars
<1>1. UNCHANGED <<handler, nesting, custom, general, srvVars, histVars>>
  BY DEF PrintBulk, WriteFile
<1>2. /\ ContentOk(done, general', custom', formed', received') /\ Len(general') < BulkSize
      /\ OrderOk(general', custom', formed') /\ ReceivedOk(done)'
  BY <1>1, BulksStay
<1>3. Lines(done)'
  BY <1>1 DEF Inv, Lines, LinesOf, IoOk, HasCmd, Follows
<1>4. LastOk'
  BY <1>1 DEF Inv, LastOk, NothingLeft, IsLast, Open
<1>5. /\ coutq \in [Clients -> Seq(Bulk)] /\ fileq \in [Clients -> Seq(Bulk)]
      /\ console \in Seq(Bulk) /\ files \in Seq(Bulk) /\ formed \in Seq(Bulk)
      /\ Through(coutq, console, formed) /\ Through(fileq, files, formed)
      /\ coutq[c] \in Seq(Bulk) /\ fileq[c] \in Seq(Bulk) /\ formed' = formed /\ conn' = conn
  BY <1>1 DEF Inv, Types, OutputOk
<1>6. CASE PrintBulk(c)
  <2>1. /\ coutq[c] # <<>> /\ coutq' = [coutq EXCEPT ![c] = Tail(coutq[c])]
        /\ console' = Append(console, Head(coutq[c])) /\ UNCHANGED <<fileq, files>>
    BY <1>6 DEF PrintBulk
  <2>2. /\ Tail(coutq[c]) \in Seq(Bulk) /\ Head(coutq[c]) = coutq[c][1] /\ 1 \in 1 .. Len(coutq[c])
        /\ Head(coutq[c]) \in Bulk /\ Without(Tail(coutq[c]), coutq[c], 1)
    <3>1. /\ Head(coutq[c]) = coutq[c][1] /\ Head(coutq[c]) \in Bulk /\ Tail(coutq[c]) \in Seq(Bulk)
          /\ Len(Tail(coutq[c])) = Len(coutq[c]) - 1 /\ Len(coutq[c]) \in Nat \ {0}
          /\ \A i \in 1 .. Len(coutq[c]) - 1 : Tail(coutq[c])[i] = coutq[c][i + 1]
      BY <1>5, <2>1, TailElements
    <3>2. \A n \in Nat \ {0} : 1 \in 1 .. n /\ \A i \in 1 .. n - 1 : ~(i < 1)
      OBVIOUS
    <3> QED  BY <3>1, <3>2, Zenon DEF Without
  <2>3. Through(coutq', console', formed')
    BY <1>5, <2>1, <2>2, ThroughMove
  <2>4. Types'
    BY <1>1, <1>5, <2>1, <2>2, Appended DEF Inv, Types
  <2>5. OutputOk'
    <3>1. \A d \in Clients : coutq[d] = <<>> => coutq'[d] = <<>>
      BY <1>5, <2>1
    <3> QED  BY <1>5, <2>1, <2>3, <3>1 DEF Inv, OutputOk
  <2> QED  BY <1>2, <1>3, <1>4, <2>4, <2>5 DEF Inv
<1>7. CASE \E i \in 1 .. 2 : WriteFile(c, i)
  <2>1. PICK i \in 1 .. 2 : WriteFile(c, i)
    BY <1>7
  <2>2. /\ i <= Len(fileq[c]) /\ fileq' = [fileq EXCEPT ![c] = RemoveAt(fileq[c], i)]
        /\ files' = Append(files, fileq[c][i]) /\ UNCHANGED <<coutq, console>>
    BY <2>1 DEF WriteFile
  <2>3. i \in 1 .. Len(fileq[c])
    BY <1>5, <2>2, Elements
  <2>4. /\ RemoveAt(fileq[c], i) \in Seq(Bulk) /\ Without(RemoveAt(fileq[c], i), fileq[c], i)
        /\ fileq[c][i] \in Bulk
    BY <1>5, <2>3, Removed, Elements
  <2>5. Through(fileq', files', formed')
    BY <1>5, <2>2, <2>3, <2>4, ThroughMove
  <2>6. Types'
    BY <1>1, <1>5, <2>2, <2>4, Appended DEF Inv, Types
  <2>7. OutputOk'
    <3>1. fileq[c] # <<>>
      BY <1>5, <2>3, Elements
    <3>2. \A d \in Clients : fileq[d] = <<>> => fileq'[d] = <<>>
      BY <1>5, <2>2, <3>1
    <3> QED  BY <1>5, <2>2, <2>5, <3>2 DEF Inv, OutputOk
  <2> QED  BY <1>2, <1>3, <1>4, <2>6, <2>7 DEF Inv
<1> QED  BY <1>6, <1>7

\* The rest of a line goes to the line: only its end changes.
LEMMA JoinedLines ==
  ASSUME NEW done \in [Clients -> States], Types, Lines(done), NEW c \in Clients, io = Idle
  PROVE  /\ Joined(c) \in Seq(Line) /\ Len(Joined(c)) = Len(buffer[c])
         /\ Len(buffer[c]) = 0 \/ (Len(buffer[c]) = 1 /\ Joined(c)[1].complete)
         /\ \A i \in 1 .. Len(buffer[c]) : /\ Joined(c)[i].text = buffer[c][i].text
                                           /\ Joined(c)[i].cmd = buffer[c][i].cmd
<1> DEFINE buf == buffer[c]
<1>1. buf \in Seq(Line) /\ DOMAIN buf = 1 .. Len(buf) /\ Len(buf) \in Nat
  BY Elements DEF Types
<1>2. CASE Len(buf) = 0
  <2>1. buf = <<>> /\ Joined(c) = buf
    BY <1>1, <1>2, Elements DEF Joined, LineOpen
  <2> QED  BY <1>1, <1>2, <2>1
<1>3. CASE buf # <<>>
  <2>1. ~HasCmd(c)
    BY DEF Lines, LinesOf, Idle
  <2>2. ~buf[1].complete /\ 1 \in 1 .. Len(buf) /\ buf[1] \in Line
    <3>1. Head(buf) = buf[1] /\ 1 \in 1 .. Len(buf)
      BY <1>3, FrontLine
    <3>2. buf[1] \in Line
      BY <3>1, BufferOfLines
    <3> QED  BY <1>3, <2>1, <3>1, <3>2 DEF HasCmd
  <2>3. Len(buf) = 1
    <3>1. Len(buf) # 2
      BY <2>2 DEF Lines, LinesOf
    <3>2. Len(buf) # 0
      BY <1>1, <1>3, Elements
    <3> QED  BY <3>1, <3>2, BufferOfLines
  <2> DEFINE e == [buf[1] EXCEPT !.complete = TRUE]
  <2>4. e \in Line /\ e.complete /\ e.text = buf[1].text /\ e.cmd = buf[1].cmd
    BY <2>2 DEF Line
  <2> HIDE DEF e
  <2>5. Joined(c) = [buf EXCEPT ![1] = e]
    BY <1>3, <2>2, <2>3 DEF Joined, LineOpen, Last, ReplaceAt, e
  <2>6. Joined(c) \in Seq(Line) /\ Len(Joined(c)) = Len(buf) /\ Joined(c)[1] = e
    BY <1>1, <2>2, <2>4, <2>5, ExceptSeq
  <2>7. \A i \in 1 .. Len(buf) : i = 1
    BY <2>3
  <2> QED  BY <2>3, <2>4, <2>6, <2>7
<1> QED  BY <1>1, <1>2, <1>3, Elements

LEMMA ReceiveRestKept ==
  ASSUME NEW done \in [Clients -> States], Inv(done), NEW c \in Clients, ReceiveRest(c)
  PROVE  Inv(done)'
<1> USE DEF mgrVars, outVars, histVars
<1>1. /\ io = Idle /\ io' = [pc |-> "receive", c |-> c] /\ conn[c] = "open"
      /\ buffer' = [buffer EXCEPT ![c] = Joined(c)]
      /\ UNCHANGED <<mgrVars, conn, outVars, histVars>>
  BY DEF ReceiveRest
<1>2. /\ Joined(c) \in Seq(Line) /\ Len(Joined(c)) = Len(buffer[c])
      /\ Len(buffer[c]) = 0 \/ (Len(buffer[c]) = 1 /\ Joined(c)[1].complete)
      /\ \A i \in 1 .. Len(buffer[c]) : /\ Joined(c)[i].text = buffer[c][i].text
                                        /\ Joined(c)[i].cmd = buffer[c][i].cmd
  BY <1>1, JoinedLines DEF Inv
<1>3. buffer'[c] = Joined(c) /\ \A d \in Clients : d # c => buffer'[d] = buffer[d]
  BY <1>1 DEF Inv, Types
<1>4. /\ ContentOk(done, general', custom', formed', received') /\ Len(general') < BulkSize
      /\ OrderOk(general', custom', formed') /\ ReceivedOk(done)'
  <2>1. \A d \in Clients :
           /\ Len(buffer'[d]) = Len(buffer[d])
           /\ \A i \in 1 .. Len(buffer[d]) : /\ buffer'[d][i].text = buffer[d][i].text
                                             /\ buffer'[d][i].cmd = buffer[d][i].cmd
    BY <1>2, <1>3
  <2>2. \A d \in Clients : io # [pc |-> "erase", c |-> d]
    BY <1>1 DEF Idle
  <2> QED  BY <1>1, <2>1, <2>2, BulksStay
<1>5. Types'
  <2>1. buffer' \in [Clients -> Seq(Line)]
    BY <1>1, <1>2 DEF Inv, Types
  <2>2. io' \in IoStates
    BY <1>1 DEF IoStates
  <2> QED  BY <1>1, <2>1, <2>2 DEF Inv, Types
<1>6. Lines(done)'
  <2>1. \A d \in Clients : LinesOf(d, done[d])
    BY DEF Inv, Lines
  <2>2. ASSUME NEW d \in Clients, d # c PROVE LinesOf(d, done[d])'
    <3>1. io'.c = c
      BY <1>1
    <3> QED  BY <1>1, <1>3, <2>1, <2>2, <3>1, OtherLines
  <2>3. LinesOf(c, done[c])'
    <3>1. Follows(c, done[c], buffer[c])'
      <4>1. Len(buffer[c]) = 0 \/ Len(buffer[c]) = 1
        BY <1>2
      <4>2. CASE Len(buffer[c]) = 0
        <5>1. StateAfter(done[c], buffer'[c], Len(buffer'[c])) = done[c] /\ 1 .. Len(buffer'[c]) = {}
          BY <1>2, <1>3, <4>2 DEF StateAfter
        <5>2. sender'[c] = done[c]
          BY <1>1, <4>2, BufferOfLines DEF Inv
        <5> QED  BY <5>1, <5>2 DEF Follows
      <4>3. CASE Len(buffer[c]) = 1
        <5>1. /\ Len(buffer'[c]) = 1 /\ 1 # 0 /\ 1 \in 1 .. 1
              /\ \A i \in 1 .. 1 : i = 1 /\ i - 1 = 0
          BY <1>2, <1>3, <4>3
        <5>2. buffer'[c][1].text = buffer[c][1].text /\ buffer'[c][1].cmd = buffer[c][1].cmd
          BY <1>2, <1>3, <4>3, <5>1, ZenonT(30)
        <5>3. sender[c] = Sent(done[c], buffer[c][1].text) /\ buffer[c][1].cmd = CommandAt(c, done[c])
          BY <4>3, BufferOfLines, Zenon DEF Inv
        <5>4. sender' = sender
          BY <1>1
        <5> QED  BY <5>1, <5>2, <5>3, <5>4, Zenon DEF Follows, StateAfter
      <4> QED  BY <4>1, <4>2, <4>3
    <3>2. Len(buffer'[c]) <= 2 /\ ~(Len(buffer'[c]) = 2)
      <4>1. Len(buffer'[c]) = 0 \/ Len(buffer'[c]) = 1
        BY <1>2, <1>3
      <4> QED  BY <4>1
    <3> QED  BY <1>1, <2>1, <3>1, <3>2 DEF LinesOf
  <2>4. IoOk'
    BY <1>1 DEF IoOk
  <2> QED  BY <2>2, <2>3, <2>4 DEF Lines
<1>7. OutputOk'
  BY <1>1 DEF Inv, OutputOk
<1>8. LastOk'
  BY <1>1 DEF LastOk, Open
<1> QED  BY <1>4, <1>5, <1>6, <1>7, <1>8 DEF Inv

\* A command that lies in no closed block may arrive.
LEMMA ContentReceive ==
  ASSUME NEW done, NEW g, NEW cu, NEW fo, NEW rc, ContentOk(done, g, cu, fo, rc),
         NEW x, \A k : k # 0 /\ Closed(done[x.from], k) => x.block # k
  PROVE  ContentOk(done, g, cu, fo, rc \cup {x})
<1>1. CustomOk(done, cu, rc \cup {x})
  BY DEF ContentOk, CustomOk
<1>2. ASSUME NEW bulk, OfBlock(bulk, rc), Closed(done[Head(bulk).from], Head(bulk).block)
      PROVE  OfBlock(bulk, rc \cup {x})
  <2>1. x.from = Head(bulk).from => x.block # Head(bulk).block
    BY <1>2 DEF OfBlock
  <2> QED  BY <1>2, <2>1 DEF OfBlock
<1>3. FormedOk(done, fo, rc \cup {x})
  BY <1>2 DEF ContentOk, FormedOk
<1> QED  BY <1>1, <1>3 DEF ContentOk

\* What a client is in is what its buffer leads to.
LEMMA SenderAhead ==
  ASSUME NEW done \in [Clients -> States], Types, Lines(done), NEW c \in Clients,
         Len(buffer[c]) = 0 \/ Len(buffer[c]) = 1
  PROVE  /\ done[c].lines \in Nat /\ sender[c].lines \in Nat /\ done[c].lines <= sender[c].lines
         /\ \A k \in Nat : Closed(done[c], k) => Closed(sender[c], k)
<1>1. done[c] \in States /\ sender[c] \in States
  BY DEF Types
<1>2. done[c].lines \in Nat /\ sender[c].lines \in Nat
  BY <1>1 DEF States
<1>3. CASE Len(buffer[c]) = 0
  <2>1. sender[c] = done[c]
    BY <1>3, BufferOfLines, Zenon
  <2> QED  BY <1>2, <2>1
<1>4. CASE Len(buffer[c]) = 1
  <2>1. sender[c] = Sent(done[c], buffer[c][1].text)
    BY <1>4, BufferOfLines, Zenon
  <2>2. buffer[c][1].text \in Text
    <3>1. 1 \in 1 .. Len(buffer[c])
      BY <1>4
    <3> QED  BY <3>1, BufferOfLines, Zenon
  <2>3. sender[c].lines = done[c].lines + 1
    <3>1. \A s, text : Sent(s, text).lines = s.lines + 1
      BY DEF Sent
    <3> QED  BY <2>1, <3>1, Zenon
  <2>4. \A k \in Nat : Closed(done[c], k) => Closed(sender[c], k)
    BY <1>1, <2>1, <2>2, SentOn, Zenon
  <2> QED  BY <1>2, <2>3, <2>4
<1> QED  BY <1>3, <1>4

LEMMA ReceiveLineKept ==
  ASSUME NEW done \in [Clients -> States], Inv(done), NEW c \in Clients,
         NEW text \in Text, NEW complete \in BOOLEAN, ReceiveLine(c, text, complete)
  PROVE  Inv(done)'
<1> DEFINE x == NewCommand(c)
           ln == [text |-> text, cmd |-> x, complete |-> complete]
           J == Joined(c)
<1> USE DEF mgrVars, outVars
<1>1. /\ io = Idle /\ io' = [pc |-> "receive", c |-> c] /\ conn[c] = "open"
      /\ buffer' = [buffer EXCEPT ![c] = Append(J, ln)]
      /\ sender' = [sender EXCEPT ![c] = Sent(sender[c], text)]
      /\ received' = IF text = "base" THEN received \cup {x} ELSE received
      /\ UNCHANGED <<mgrVars, conn, outVars, formed, lastGone>>
  BY DEF ReceiveLine
<1>0. PICK n \in Nat : n = Len(buffer[c])
  BY Elements DEF Inv, Types
<1>2. /\ J \in Seq(Line) /\ Len(J) = n
      /\ n = 0 \/ (n = 1 /\ J[1].complete)
      /\ \A i \in 1 .. n : J[i].text = buffer[c][i].text /\ J[i].cmd = buffer[c][i].cmd
  BY <1>0, <1>1, JoinedLines DEF Inv
<1>3. /\ x = CommandAt(c, sender[c]) /\ x \in Command /\ ln \in Line /\ ln.text = text /\ ln.cmd = x
      /\ sender[c] \in States /\ Sent(sender[c], text) \in States
  <2>1. sender[c] \in States
    BY DEF Inv, Types
  <2>2. sender[c].lines \in Nat /\ sender[c].blocks \in Nat
    BY <2>1 DEF States
  <2>3. x = CommandAt(c, sender[c]) /\ x \in Command
    BY <2>2 DEF NewCommand, CommandAt, Command
  <2> QED  BY <2>1, <2>3, SentOn DEF Line
<1>4. /\ done[c].lines \in Nat /\ sender[c].lines \in Nat /\ done[c].lines <= sender[c].lines
      /\ \A k \in Nat : Closed(done[c], k) => Closed(sender[c], k)
  BY <1>0, <1>2, SenderAhead DEF Inv
<1>5. /\ x.from = c /\ x.no = sender[c].lines + 1 /\ x.block \in Nat
      /\ x.block # 0 => sender[c].depth > 0 /\ x.block = sender[c].blocks
  BY <1>3 DEF CommandAt, Command
<1>6. /\ Append(J, ln) \in Seq(Line) /\ Len(Append(J, ln)) = n + 1 /\ n \in Nat
      /\ Append(J, ln)[n + 1] = ln /\ \A i \in 1 .. n : Append(J, ln)[i] = J[i]
  <2>1. /\ Append(J, ln) \in Seq(Line) /\ Len(Append(J, ln)) = Len(J) + 1
        /\ Append(J, ln)[Len(J) + 1] = ln /\ \A i \in 1 .. Len(J) : Append(J, ln)[i] = J[i]
    BY <1>2, <1>3, Appended
  <2> QED  BY <1>2, <2>1
<1>7. /\ buffer'[c] = Append(J, ln) /\ \A d \in Clients : d # c => buffer'[d] = buffer[d]
      /\ sender'[c] = Sent(sender[c], text) /\ \A d \in Clients : d # c => sender'[d] = sender[d]
  BY <1>1 DEF Inv, Types
<1> HIDE DEF x, ln, J
<1>8. /\ Len(buffer'[c]) = n + 1 /\ buffer'[c][n + 1].text = text /\ buffer'[c][n + 1].cmd = x
      /\ \A i \in 1 .. n : /\ buffer'[c][i].text = buffer[c][i].text
                           /\ buffer'[c][i].cmd = buffer[c][i].cmd
  BY <1>2, <1>3, <1>6, <1>7
<1>9. n = Len(buffer[c]) /\ 1 .. n \subseteq 1 .. n + 1 /\ n + 1 \in 1 .. n + 1
      /\ \A i \in 1 .. n + 1 : i \in 1 .. n \/ i = n + 1
  <2>1. \A k \in Nat : /\ 1 .. k \subseteq 1 .. k + 1 /\ k + 1 \in 1 .. k + 1
                       /\ \A i \in 1 .. k + 1 : i \in 1 .. k \/ i = k + 1
    OBVIOUS
  <2> QED  BY <1>0, <2>1
<1>10. ContentOk(done, general', custom', formed', received')
  <2>1. ContentOk(done, general, custom, formed, received \cup {x})
    <3>1. ASSUME NEW k, k # 0, Closed(done[x.from], k), x.block = k PROVE FALSE
      <4>1. k \in Nat /\ Closed(sender[c], k) /\ sender[c].depth > 0 /\ k = sender[c].blocks
        BY <1>4, <1>5, <3>1
      <4>2. sender[c].depth \in Nat
        BY <1>3 DEF States
      <4> QED  BY <4>1, <4>2 DEF Closed
    <3> QED  BY <3>1, ContentReceive DEF Inv
  <2> QED  BY <1>1, <2>1 DEF Inv
<1>11. ReceivedOk(done)'
  <2>1. ASSUME NEW y \in received'
        PROVE  IF y.no <= done[y.from].lines
                 THEN InBulks(y, general', custom', formed') \/ Dropped(y, done[y.from])'
                 ELSE \E i \in 1 .. Len(buffer'[y.from]) : Buffered(y, i)'
    <3>1. CASE y \in received
      <4>0. y.from \in Clients
        BY <3>1 DEF Inv, Types, Command
      <4>1. CASE y.no <= done[y.from].lines
        <5>1. InBulks(y, general, custom, formed) \/ Dropped(y, done[y.from])
          BY <3>1, <4>1 DEF Inv, ReceivedOk
        <5>2. Dropped(y, done[y.from]) => Dropped(y, done[y.from])'
          BY <1>1 DEF Dropped, Idle
        <5> QED  BY <1>1, <4>1, <5>1, <5>2
      <4>2. CASE ~(y.no <= done[y.from].lines)
        <5>1. PICK i \in 1 .. Len(buffer[y.from]) : Buffered(y, i)
          BY <3>1, <4>2 DEF Inv, ReceivedOk
        <5>2. i \in 1 .. Len(buffer'[y.from]) /\ Buffered(y, i)'
          BY <1>7, <1>8, <1>9, <4>0, <5>1 DEF Buffered
        <5> QED  BY <4>2, <5>2
      <4> QED  BY <4>1, <4>2
    <3>2. CASE y \notin received
      <4>1. y = x /\ text = "base"
        BY <1>1, <2>1, <3>2
      <4>2. ~(y.no <= done[y.from].lines)
        <5>1. y.no = sender[c].lines + 1 /\ y.from = c
          BY <1>5, <4>1
        <5> QED  BY <1>4, <5>1
      <4>3. n + 1 \in 1 .. Len(buffer'[y.from]) /\ Buffered(y, n + 1)'
        <5>1. y.from = c
          BY <1>5, <4>1
        <5>2. n + 1 \in 1 .. Len(buffer'[c])
          BY <1>8, <1>9
        <5>3. y = buffer'[c][n + 1].cmd /\ buffer'[c][n + 1].text = "base"
          BY <1>8, <4>1
        <5> QED  BY <5>1, <5>2, <5>3 DEF Buffered
      <4> QED  BY <4>2, <4>3, Zenon
    <3> QED  BY <3>1, <3>2
  <2>2. ASSUME NEW d \in Clients, NEW i \in 1 .. Len(buffer'[d]), buffer'[d][i].text = "base"
        PROVE  buffer'[d][i].cmd \in received'
    <3>1. received \subseteq received'
      BY <1>1
    <3>2. CASE d = c /\ i = n + 1
      BY <1>1, <1>8, <2>2, <3>2
    <3>3. CASE d = c /\ i # n + 1
      <4>1. i \in 1 .. Len(buffer[c])
        BY <1>8, <1>9, <3>3
      <4>2. buffer[c][i].text = "base" /\ buffer'[d][i].cmd = buffer[c][i].cmd
        BY <1>8, <1>9, <2>2, <3>3, <4>1
      <4> QED  BY <3>1, <4>1, <4>2 DEF Inv, ReceivedOk
    <3>4. CASE d # c
      BY <1>7, <2>2, <3>1, <3>4 DEF Inv, ReceivedOk
    <3> QED  BY <3>2, <3>3, <3>4
  <2> QED  BY <2>1, <2>2 DEF ReceivedOk
<1>12. Types'
  <2>1. buffer' \in [Clients -> Seq(Line)] /\ sender' \in [Clients -> States]
    BY <1>1, <1>3, <1>6 DEF Inv, Types
  <2>2. io' \in IoStates /\ received' \subseteq Command
    BY <1>1, <1>3 DEF IoStates, Inv, Types
  <2> QED  BY <1>1, <2>1, <2>2 DEF Inv, Types
<1>13. Lines(done)'
  <2>1. \A d \in Clients : LinesOf(d, done[d])
    BY DEF Inv, Lines
  <2>2. ASSUME NEW d \in Clients, d # c PROVE LinesOf(d, done[d])'
    <3>1. io'.c = c
      BY <1>1
    <3> QED  BY <1>1, <1>7, <2>1, <2>2, <3>1, OtherLines
  <2>3. CASE n = 0
    <3>1. Len(buffer'[c]) = 1 /\ buffer'[c][1].text = text /\ buffer'[c][1].cmd = x
      BY <1>8, <2>3
    <3>2. 1 # 0 /\ \A i \in 1 .. 1 : i = 1 /\ i - 1 = 0
      OBVIOUS
    <3>3. sender[c] = done[c]
      BY <1>9, <2>3, BufferOfLines, Zenon DEF Inv
    <3>4. Follows(c, done[c], buffer[c])'
      BY <1>3, <1>7, <3>1, <3>2, <3>3, Zenon DEF Follows, StateAfter
    <3>5. Len(buffer'[c]) <= 2 /\ ~(Len(buffer'[c]) = 2)
      BY <3>1
    <3>6. LinesOf(c, done[c])'
      BY <1>1, <2>1, <3>4, <3>5 DEF LinesOf
    <3> QED  BY <1>1, <2>2, <3>6 DEF Lines, IoOk
  <2>4. CASE n = 1
    <3>1. /\ Len(buffer'[c]) = 2 /\ buffer'[c][2].text = text /\ buffer'[c][2].cmd = x
          /\ buffer'[c][1].text = buffer[c][1].text /\ buffer'[c][1].cmd = buffer[c][1].cmd
      <4>1. n + 1 = 2 /\ 1 \in 1 .. n
        BY <2>4
      <4> QED  BY <1>8, <4>1
    <3>2. 1 # 0 /\ 2 # 0 /\ 2 # 1 /\ \A i \in 1 .. 2 : (i = 1 /\ i - 1 = 0) \/ (i = 2 /\ i - 1 = 1)
      OBVIOUS
    <3>3. sender[c] = Sent(done[c], buffer[c][1].text) /\ buffer[c][1].cmd = CommandAt(c, done[c])
      BY <1>9, <2>4, BufferOfLines, ZenonT(30) DEF Inv
    <3>4. Follows(c, done[c], buffer[c])'
      BY <1>3, <1>7, <3>1, <3>2, <3>3, Zenon DEF Follows, StateAfter
    <3>5. Len(buffer'[c]) <= 2 /\ buffer'[c][1].complete
      <4>1. buffer'[c][1] = J[1]
        <5>1. 1 \in 1 .. n
          BY <2>4
        <5> QED  BY <1>6, <1>7, <5>1
      <4>2. J[1].complete
        BY <1>2, <2>4
      <4> QED  BY <3>1, <4>1, <4>2
    <3>6. LinesOf(c, done[c])'
      BY <1>1, <2>1, <3>4, <3>5 DEF LinesOf
    <3> QED  BY <1>1, <2>2, <3>6 DEF Lines, IoOk
  <2> QED  BY <1>2, <2>3, <2>4
<1>14. OutputOk'
  BY <1>1 DEF Inv, OutputOk
<1>15. LastOk'
  BY <1>1 DEF LastOk, Open
<1>16. Len(general') < BulkSize /\ OrderOk(general', custom', formed')
  BY <1>1 DEF Inv
<1> QED  BY <1>10, <1>11, <1>12, <1>13, <1>14, <1>15, <1>16 DEF Inv

\* Commands may leave the bulks when their block goes with its client.
LEMMA ReceivedLeft ==
  ASSUME NEW done \in [Clients -> States], Types, ReceivedOk(done),
         UNCHANGED <<buffer, received>>,
         \A x \in received : InBulks(x, general, custom, formed)
           => InBulks(x, general', custom', formed') \/ Dropped(x, done[x.from])',
         \A x \in received : Dropped(x, done[x.from]) => Dropped(x, done[x.from])'
  PROVE  ReceivedOk(done)'
<1>1. ASSUME NEW x \in received
      PROVE  IF x.no <= done[x.from].lines
               THEN InBulks(x, general', custom', formed') \/ Dropped(x, done[x.from])'
               ELSE \E i \in 1 .. Len(buffer'[x.from]) : Buffered(x, i)'
  <2>1. CASE x.no <= done[x.from].lines
    BY <2>1 DEF ReceivedOk
  <2>2. CASE ~(x.no <= done[x.from].lines)
    BY <2>2 DEF ReceivedOk, Buffered
  <2> QED  BY <2>1, <2>2
<1> QED  BY <1>1 DEF ReceivedOk

LEMMA TerminateKept ==
  ASSUME NEW done \in [Clients -> States], Inv(done), NEW c \in Clients, Terminate(c)
  PROVE  Inv(done)'
<1> USE DEF outVars
<1>1. /\ io = [pc |-> "terminate", c |-> c] /\ io' = [pc |-> "erase", c |-> c]
      /\ UNCHANGED <<conn, buffer, outVars, sender, received, lastGone>>
      /\ nesting' = nesting /\ handler' = handler
  BY DEF Terminate, AddTerminator, GeneralTerminator, CustomTerminator, mgrVars
<1>2. conn[c] = "open" /\ LinesOf(c, done[c]) /\ buffer[c] = <<>> /\ sender[c] = done[c]
  <2>1. conn[c] = "open"
    BY <1>1 DEF Inv, Lines, IoOk, Idle
  <2>2. LinesOf(c, done[c]) /\ buffer[c] = <<>>
    BY <1>1 DEF Inv, Lines, LinesOf
  <2>3. Len(buffer[c]) = 0
    BY <2>2
  <2> QED  BY <2>1, <2>2, <2>3, BufferOfLines, Zenon DEF Inv
<1>3. Lines(done)'
  <2>1. ASSUME NEW d \in Clients, d # c PROVE LinesOf(d, done[d])'
    <3>1. LinesOf(d, done[d]) /\ io.c = c /\ io'.c = c
      BY <1>1 DEF Inv, Lines
    <3> QED  BY <1>1, <2>1, <3>1, OtherLines
  <2>2. LinesOf(c, done[c])'
    <3>1. Follows(c, done[c], buffer[c])' /\ ~HasCmd(c)'
      BY <1>1, <1>2 DEF LinesOf, Follows, HasCmd
    <3> QED  BY <1>1, <1>2, <3>1 DEF LinesOf
  <2>3. IoOk'
    BY <1>1, <1>2 DEF IoOk
  <2> QED  BY <2>1, <2>2, <2>3 DEF Lines
<1>4. c \in Open' /\ \A d \in Clients : d # c => io' # [pc |-> "erase", c |-> d]
  BY <1>1, <1>2 DEF Open
<1>5. \A x \in received : Dropped(x, done[x.from]) => Dropped(x, done[x.from])'
  BY <1>1 DEF Dropped
<1>6. /\ general \in Bulk /\ custom \in [Clients -> Bulk] /\ formed \in Seq(Bulk) /\ <<>> \in Bulk
      /\ Len(<<>>) < BulkSize
  BY EmptyBulk, BulkAssumption DEF Inv, Types, Bulk
<1>7. io' \in IoStates
  BY <1>1 DEF IoStates
<1>8. CASE IsLast(c) /\ GeneralTerminator(c) /\ RecordFormed(c)
  <2>1. Sends(c, general) /\ general' = <<>> /\ custom' = custom
    BY <1>6, <1>8, FlushSends DEF GeneralTerminator, Cleared, Inv
  <2>2. /\ ContentOk(done, <<>>, custom, SentOff(formed, general), received)
        /\ OrderOk(<<>>, custom, SentOff(formed, general))
        /\ general = <<>> \/ general \notin Range(formed)
        /\ \A y : InBulks(y, general, custom, formed)
                    => InBulks(y, <<>>, custom, SentOff(formed, general))
    BY <1>6, FlushGeneral DEF Inv
  <2>3. formed' = SentOff(formed, general)
    BY <2>1 DEF Sends
  <2>4. /\ OutputOk' /\ formed' \in Seq(Bulk)
        /\ coutq' \in [Clients -> Seq(Bulk)] /\ fileq' \in [Clients -> Seq(Bulk)]
    BY <1>1, <1>2, <1>6, <2>1, <2>2, OutputSends DEF Inv
  <2>5. ReceivedOk(done)'
    <3>1. \A x \in received : InBulks(x, general, custom, formed) => InBulks(x, general', custom', formed')
      BY <2>1, <2>2, <2>3
    <3> QED  BY <1>1, <1>5, <3>1, ReceivedLeft DEF Inv
  <2>6. Types'
    BY <1>1, <1>6, <1>7, <2>1, <2>4 DEF Inv, Types
  <2>7. LastOk'
    BY <1>4, <2>1 DEF LastOk, NothingLeft
  <2> QED  BY <1>1, <1>3, <1>6, <2>1, <2>2, <2>3, <2>4, <2>5, <2>6, <2>7 DEF Inv
<1>9. CASE IsLast(c) /\ CustomTerminator(c) /\ RecordFormed(c)
  <2>1. Sends(c, <<>>) /\ general' = general /\ custom' = [custom EXCEPT ![c] = <<>>]
    BY <1>6, <1>9, FlushSends DEF CustomTerminator, Inv
  <2>2. done[c].depth > 0
    <3>1. handler[c] = "custom" /\ "custom" # "general"
      BY <1>9 DEF CustomTerminator
    <3> QED  BY <1>2, <3>1, Zenon DEF LinesOf
  <2>3. formed' = formed
    BY <2>1 DEF Sends, SentOff
  <2>4. /\ OutputOk' /\ formed' \in Seq(Bulk)
        /\ coutq' \in [Clients -> Seq(Bulk)] /\ fileq' \in [Clients -> Seq(Bulk)]
    BY <1>1, <1>2, <1>6, <2>1, OutputSends DEF Inv
  <2>5. ContentOk(done, general', custom', formed', received') /\ OrderOk(general', custom', formed')
    BY <1>1, <1>6, <2>1, <2>3, ContentClear, OrderClear DEF Inv
  <2>6. ReceivedOk(done)'
    <3>1. ASSUME NEW x \in received, InBulks(x, general, custom, formed)
          PROVE  InBulks(x, general', custom', formed') \/ Dropped(x, done[x.from])'
      <4>1. CASE x \in Range(custom[x.from]) /\ x.from = c
        <5>1. x.block = done[c].blocks
          BY <4>1 DEF Inv, ContentOk, CustomOk
        <5> QED  BY <1>1, <2>2, <4>1, <5>1 DEF Dropped
      <4>2. CASE x \in Range(custom[x.from]) /\ x.from # c
        <5>1. custom'[x.from] = custom[x.from]
          BY <2>1, <4>2 DEF Inv, Types, Command
        <5> QED  BY <4>2, <5>1 DEF InBulks
      <4>3. CASE x \notin Range(custom[x.from])
        BY <2>1, <2>3, <3>1, <4>3 DEF InBulks
      <4> QED  BY <4>1, <4>2, <4>3
    <3> QED  BY <1>1, <1>5, <3>1, ReceivedLeft DEF Inv
  <2>7. Types'
    BY <1>1, <1>6, <1>7, <2>1, <2>4 DEF Inv, Types
  <2>8. LastOk'
    <3>1. NothingLeft(c)'
      BY <1>1, <1>2, <2>2 DEF NothingLeft
    <3> QED  BY <1>4, <3>1 DEF LastOk
  <2> QED  BY <1>3, <2>1, <2>4, <2>5, <2>6, <2>7, <2>8 DEF Inv
<1>10. CASE ~IsLast(c) /\ UNCHANGED <<mgrVars, formed>>
  <2>1. /\ UNCHANGED <<handler, nesting, custom, general, coutq, fileq, formed>>
        /\ \A d \in Clients : io # [pc |-> "erase", c |-> d]
    BY <1>1, <1>10 DEF mgrVars
  <2>2. /\ ContentOk(done, general', custom', formed', received') /\ Len(general') < BulkSize
        /\ OrderOk(general', custom', formed') /\ ReceivedOk(done)'
    BY <1>1, <2>1, BulksStay
  <2>3. Types' /\ OutputOk'
    BY <1>1, <1>7, <2>1 DEF Inv, Types, OutputOk
  <2>4. LastOk'
    <3>1. ~IsLast(c)'
      BY <1>1, <1>10 DEF IsLast, Open
    <3> QED  BY <1>4, <3>1 DEF LastOk
  <2> QED  BY <1>3, <2>2, <2>3, <2>4 DEF Inv
<1> QED  BY <1>8, <1>9, <1>10 DEF Terminate, AddTerminator

LEMMA EraseKept ==
  ASSUME NEW done \in [Clients -> States], Inv(done), NEW c \in Clients, Erase(c)
  PROVE  Inv(done)'
<1>1. /\ io = [pc |-> "erase", c |-> c] /\ io' = Idle /\ Drained(c) /\ lastGone' = c
      /\ conn' = [conn EXCEPT ![c] = "gone"]
      /\ custom' = [custom EXCEPT ![c] = <<>>]
      /\ buffer' = [buffer EXCEPT ![c] = <<>>]
      /\ UNCHANGED <<handler, nesting, general, coutq, fileq, console, files, sender, received, formed>>
  BY DEF Erase, outVars
<1>2. conn[c] = "open" /\ LinesOf(c, done[c]) /\ buffer[c] = <<>>
  <2>1. conn[c] = "open"
    BY <1>1 DEF Inv, Lines, IoOk, Idle
  <2> QED  BY <1>1, <2>1 DEF Inv, Lines, LinesOf
<1>3. /\ buffer' = buffer
      /\ conn'[c] = "gone" /\ \A d \in Clients : d # c => conn'[d] = conn[d]
      /\ \A d \in Clients : d # c => custom'[d] = custom[d]
      /\ custom \in [Clients -> Bulk] /\ <<>> \in Bulk
  BY <1>1, <1>2, EmptyBulk DEF Inv, Types, Bulk
<1>4. ContentOk(done, general', custom', formed', received') /\ OrderOk(general', custom', formed')
  BY <1>1, <1>3, ContentClear, OrderClear DEF Inv
<1>5. ReceivedOk(done)'
  <2>0. \A x \in received : x.from \in Clients
    BY DEF Inv, Types, Command
  <2>1. ASSUME NEW x \in received, InBulks(x, general, custom, formed)
        PROVE  InBulks(x, general', custom', formed') \/ Dropped(x, done[x.from])'
    <3>1. CASE x \in Range(custom[x.from]) /\ x.from = c
      <4>1. x.block = done[c].blocks /\ done[c].depth > 0
        BY <3>1 DEF Inv, ContentOk, CustomOk
      <4> QED  BY <1>3, <3>1, <4>1 DEF Dropped
    <3>2. CASE x \in Range(custom[x.from]) /\ x.from # c
      BY <1>3, <2>0, <3>2 DEF InBulks
    <3>3. CASE x \notin Range(custom[x.from])
      BY <1>1, <2>1, <3>3 DEF InBulks
    <3> QED  BY <3>1, <3>2, <3>3
  <2>2. ASSUME NEW x \in received, Dropped(x, done[x.from]) PROVE Dropped(x, done[x.from])'
    <3>1. conn'[x.from] = "gone"
      <4>1. conn[x.from] = "gone" \/ x.from = c
        BY <1>1, <2>2 DEF Dropped
      <4> QED  BY <1>3, <2>0, <4>1
    <3> QED  BY <2>2, <3>1 DEF Dropped
  <2> QED  BY <1>1, <1>3, <2>1, <2>2, ReceivedLeft DEF Inv
<1>6. Types'
  <2>1. io' \in IoStates
    BY <1>1 DEF IoStates, Idle
  <2> QED  BY <1>1, <1>3, <2>1 DEF Inv, Types
<1>7. Lines(done)'
  <2>1. ASSUME NEW d \in Clients, d # c PROVE LinesOf(d, done[d])'
    <3>1. LinesOf(d, done[d]) /\ io.c = c
      BY <1>1 DEF Inv, Lines
    <3> QED  BY <1>1, <1>3, <2>1, <3>1, OtherLines
  <2>2. LinesOf(c, done[c])'
    <3>1. Follows(c, done[c], buffer[c])' /\ ~HasCmd(c)'
      BY <1>1, <1>2, <1>3 DEF LinesOf, Follows, HasCmd
    <3> QED  BY <1>1, <1>2, <1>3, <3>1 DEF LinesOf
  <2> QED  BY <1>1, <2>1, <2>2 DEF Lines, IoOk
<1>8. OutputOk'
  BY <1>1, <1>3 DEF Inv, OutputOk, Drained
<1>9. LastOk'
  <2>1. \A d \in Clients : io' # [pc |-> "erase", c |-> d]
    BY <1>1 DEF Idle
  <2>2. ASSUME Open' = {} PROVE general' = <<>> \/ sender'[c].depth > 0
    <3>1. Open = {c}
      BY <1>2, <1>3, <2>2 DEF Open
    <3>2. NothingLeft(c)
      BY <1>1, <3>1 DEF Inv, LastOk, IsLast
    <3> QED  BY <1>1, <3>2 DEF NothingLeft
  <2> QED  BY <1>1, <2>1, <2>2 DEF LastOk
<1> QED  BY <1>1, <1>4, <1>5, <1>6, <1>7, <1>8, <1>9 DEF Inv

-----------------------------------------------------------------------------
\* The invariant.

LEMMA InitInv == Init => IInv
<1> SUFFICES ASSUME Init PROVE IInv
  OBVIOUS
<1> USE DEF Init, MgrInit
<1>1. /\ <<>> \in Bulk /\ <<>> \in Seq(Bulk) /\ <<>> \in Seq(Line) /\ Len(<<>>) = 0
      /\ DOMAIN <<>> = {} /\ Range(<<>>) = {}
  BY EmptyBulk DEF Bulk
<1>2. [lines |-> 0, depth |-> 0, blocks |-> 0] \in States /\ Idle \in IoStates
  BY DEF States, IoStates, Idle
<1>3. sender \in [Clients -> States]
  BY <1>2
<1>4. Types
  <2>1. nesting \in [Clients -> Nat] /\ handler \in [Clients -> {"general", "custom"}]
    OBVIOUS
  <2>2. custom \in [Clients -> Bulk] /\ coutq \in [Clients -> Seq(Bulk)] /\ fileq \in [Clients -> Seq(Bulk)]
    BY <1>1
  <2>3. buffer \in [Clients -> Seq(Line)] /\ conn \in [Clients -> {"none", "open", "gone"}]
    BY <1>1
  <2> QED  BY <1>1, <1>2, <1>3, <2>1, <2>2, <2>3 DEF Types
<1>5. Lines(sender)
  <2>1. ASSUME NEW c \in Clients PROVE LinesOf(c, sender[c])
    <3>1. buffer[c] = <<>> /\ conn[c] = "none" /\ nesting[c] = 0 /\ handler[c] = "general"
      OBVIOUS
    <3>2. sender[c].depth = 0 /\ ~(0 > 0) /\ 0 <= 2 /\ ~(0 = 2) /\ 1 .. 0 = {}
      OBVIOUS
    <3>3. Follows(c, sender[c], buffer[c])
      BY <1>1, <3>1, <3>2 DEF Follows, StateAfter
    <3>4. \A p \in {"terminate", "erase"} : io # [pc |-> p, c |-> c]
      BY DEF Idle
    <3> QED  BY <1>1, <3>1, <3>2, <3>3, <3>4 DEF LinesOf, HasCmd
  <2> QED  BY <2>1 DEF Lines, IoOk
<1>6. ContentOk(sender, general, custom, formed, received) /\ Len(general) < BulkSize
  BY <1>1, BulkAssumption DEF ContentOk, GeneralOk, CustomOk, FormedOk
<1>7. ReceivedOk(sender)
  BY <1>1 DEF ReceivedOk
<1>8. OrderOk(general, custom, formed)
  BY <1>1 DEF OrderOk, Sorted, Before
<1>9. OutputOk
  <2>1. IsInjective(<<>>)
    BY <1>1 DEF IsInjective
  <2>2. \A c \in Clients : coutq[c] = <<>> /\ fileq[c] = <<>>
    OBVIOUS
  <2>3. Queued(coutq) = {} /\ Queued(fileq) = {}
    BY <1>1, <2>2 DEF Queued
  <2> QED  BY <1>1, <2>1, <2>2, <2>3 DEF OutputOk, Through, Disjoint
<1>10. LastOk
  BY DEF LastOk, Idle
<1>11. Inv(sender)
  BY <1>4, <1>5, <1>6, <1>7, <1>8, <1>9, <1>10 DEF Inv
<1> QED  BY <1>3, <1>11 DEF IInv

LEMMA StepInv == IInv /\ [Next]_vars => IInv'
<1> SUFFICES ASSUME NEW done \in [Clients -> States], Inv(done), [Next]_vars
             PROVE  \E e \in [Clients -> States] : Inv(e)'
  BY DEF IInv
<1>1. CASE UNCHANGED vars
  <2>1. Inv(done)'
    <3> USE <1>1 DEF vars, mgrVars, srvVars, outVars, histVars
    <3>1. UNCHANGED <<handler, nesting, custom, general, coutq, fileq, conn, buffer, io, console,
                      files, sender, received, formed, lastGone>>
      OBVIOUS
    <3>2. /\ ContentOk(done, general', custom', formed', received') /\ Len(general') < BulkSize
          /\ OrderOk(general', custom', formed') /\ ReceivedOk(done)'
      BY <3>1, BulksStay
    <3>3. Lines(done)'
      BY <3>1 DEF Inv, Lines, LinesOf, IoOk, HasCmd, Follows
    <3>4. Types' /\ OutputOk'
      BY <3>1 DEF Inv, Types, OutputOk
    <3>5. LastOk'
      BY <3>1 DEF Inv, LastOk, NothingLeft, IsLast, Open
    <3> QED  BY <3>2, <3>3, <3>4, <3>5 DEF Inv
  <2> QED  BY <2>1
<1>2. ASSUME NEW c \in Clients, Event(c) PROVE \E e \in [Clients -> States] : Inv(e)'
  <2>1. CASE Connect(c)
    BY <2>1, ConnectKept
  <2>2. CASE Disconnect(c)
    <3>1. Inv(done)'
      BY <2>2, IoKept DEF Disconnect, Idle
    <3> QED  BY <3>1
  <2>3. CASE ReceiveRest(c)
    BY <2>3, ReceiveRestKept
  <2>4. CASE \E text \in Text, complete \in BOOLEAN : ReceiveLine(c, text, complete)
    BY <2>4, ReceiveLineKept
  <2> QED  BY <1>2, <2>1, <2>2, <2>3, <2>4 DEF Event
<1>3. ASSUME NEW c \in Clients, Handler(c) PROVE \E e \in [Clients -> States] : Inv(e)'
  <2>0. io # Idle => conn[io.c] = "open"
    BY DEF Inv, Lines, IoOk
  <2>1. CASE ProcessLine(c)
    <3>1. /\ io = [pc |-> "receive", c |-> c] /\ buffer[c] # <<>> /\ HandleFront(c) /\ io' = io
          /\ conn[c] = "open"
      BY <2>0, <2>1 DEF ProcessLine, HasCmd, Idle
    <3> QED  BY <3>1, FrontKept
  <2>2. CASE EndReceive(c)
    <3>1. conn[c] = "open" /\ \A d \in Clients : io # [pc |-> "erase", c |-> d]
      BY <2>0, <2>2 DEF EndReceive, Idle
    <3>2. Inv(done)'
      BY <2>2, <3>1, IoKept DEF EndReceive
    <3> QED  BY <3>2
  <2>3. CASE HandleRest(c)
    <3>1. /\ conn[c] = "open" /\ \A d \in Clients : io # [pc |-> "erase", c |-> d]
          /\ io = [pc |-> "rest", c |-> c] /\ io' = [pc |-> "terminate", c |-> c]
      BY <2>0, <2>3 DEF HandleRest, Idle
    <3>2. CASE buffer[c] # <<>> /\ HandleFront(c)
      BY <3>1, <3>2, FrontKept
    <3>3. CASE buffer[c] = <<>> /\ UNCHANGED <<mgrVars, conn, buffer, outVars, histVars>>
      <4>1. Inv(done)'
        BY <3>1, <3>3, IoKept
      <4> QED  BY <4>1
    <3> QED  BY <2>3, <3>2, <3>3 DEF HandleRest
  <2>4. CASE Terminate(c)
    BY <2>4, TerminateKept
  <2>5. CASE Erase(c)
    BY <2>5, EraseKept
  <2> QED  BY <1>3, <2>1, <2>2, <2>3, <2>4, <2>5 DEF Handler, Handling
<1>4. ASSUME NEW c \in Clients, Output(c) PROVE \E e \in [Clients -> States] : Inv(e)'
  BY <1>4, OutputKept DEF Output
<1> QED  BY <1>1, <1>2, <1>3, <1>4 DEF Next

LEMMA Invariance == Spec => []IInv
BY InitInv, StepInv, PTL DEF Spec

-----------------------------------------------------------------------------
\* What the invariant says of the server.

\* async.cpp, disconnect: a base command that has arrived is in a buffer, in a
\* bulk, or was dropped with the block its client left open.
THEOREM NothingDroppedHolds == Spec => []NothingDropped
<1>1. ASSUME NEW done \in [Clients -> States], Inv(done) PROVE NothingDropped
  <2>1. ASSUME NEW x \in received, x \notin Places
        PROVE  /\ conn[x.from] = "gone" \/ io = [pc |-> "erase", c |-> x.from]
               /\ x.block = sender[x.from].blocks /\ sender[x.from].depth > 0
    <3> DEFINE inCustom == UNION {Range(custom[c]) : c \in Clients}
               inFormed == UNION {Range(bulk) : bulk \in Range(formed)}
               inBuffer == {l.cmd : l \in UNION {Range(buffer[c]) : c \in Clients}}
    <3>0. x.from \in Clients
      BY <1>1 DEF Inv, Types, Command
    <3>1. x \notin Range(general) /\ x \notin inCustom /\ x \notin inFormed /\ x \notin inBuffer
      <4>1. Places = Range(general) \cup inCustom \cup inFormed \cup inBuffer
        BY Zenon DEF Places
      <4> HIDE DEF inCustom, inFormed, inBuffer
      <4> QED  BY <2>1, <4>1
    <3>2. ~InBulks(x, general, custom, formed)
      BY <3>0, <3>1 DEF InBulks
    <3>3. ASSUME NEW i \in 1 .. Len(buffer[x.from]) PROVE ~Buffered(x, i)
      <4>1. buffer[x.from][i] \in Range(buffer[x.from])
        BY <1>1, <3>0, Elements DEF Inv, Types
      <4>2. buffer[x.from][i] \in UNION {Range(buffer[c]) : c \in Clients}
        BY <3>0, <4>1
      <4>3. buffer[x.from][i].cmd \in inBuffer
        BY <4>2
      <4> QED  BY <3>1, <4>3, Zenon DEF Buffered
    <3>4. Dropped(x, done[x.from])
      BY <1>1, <3>2, <3>3 DEF Inv, ReceivedOk
    <3>5. buffer[x.from] = <<>>
      BY <1>1, <3>0, <3>4 DEF Dropped, Inv, Lines, LinesOf
    <3>6. sender[x.from] = done[x.from]
      <4>1. Len(buffer[x.from]) = 0
        BY <3>5
      <4> QED  BY <1>1, <3>0, <4>1, BufferOfLines, Zenon DEF Inv
    <3> QED  BY <3>4, <3>6 DEF Dropped
  <2> QED  BY <2>1 DEF NothingDropped
<1>2. IInv => NothingDropped
  BY <1>1 DEF IInv
<1> QED  BY <1>2, Invariance, PTL

\* bulk.cpp: the shared bulk and the blocks keep the commands of each client in
\* the order they were sent.
THEOREM ClientOrderHolds == Spec => []ClientOrder
<1>1. ASSUME NEW done \in [Clients -> States], Inv(done) PROVE ClientOrder
  <2> DEFINE n == Len(formed)
             bulks == Append(formed, general)
  <2>1. /\ n \in Nat /\ bulks \in Seq(Bulk) /\ Len(bulks) = n + 1 /\ bulks[n + 1] = general
        /\ \A i \in 1 .. n : bulks[i] = formed[i] /\ formed[i] \in Range(formed)
        /\ DOMAIN formed = 1 .. n
    BY <1>1, Elements, Appended DEF Inv, Types
  <2>2. OrderOk(general, custom, formed)
    BY <1>1 DEF Inv
  <2> HIDE DEF n, bulks
  <2>3. DOMAIN bulks = 1 .. n + 1
    BY <2>1, Elements
  <2>4. ASSUME NEW i \in DOMAIN bulks PROVE Sorted(bulks[i]) /\ bulks[i] \in Bulk
    <3>1. i \in 1 .. n \/ i = n + 1
      BY <2>1, <2>3
    <3>2. bulks[i] \in Bulk
      BY <2>1, <2>3, Elements
    <3> QED  BY <2>1, <2>2, <3>1, <3>2 DEF OrderOk
  <2>5. ASSUME NEW i \in DOMAIN bulks, NEW j \in DOMAIN bulks, i < j PROVE Before(bulks[i], bulks[j])
    <3>1. i \in 1 .. n /\ (j \in 1 .. n \/ j = n + 1)
      BY <2>1, <2>3, <2>5
    <3>2. CASE j \in 1 .. n
      BY <2>1, <2>2, <2>5, <3>1, <3>2 DEF OrderOk
    <3>3. CASE j = n + 1
      BY <2>1, <2>2, <3>1, <3>3 DEF OrderOk
    <3> QED  BY <3>1, <3>2, <3>3
  <2>6. ASSUME NEW i \in DOMAIN bulks, NEW j \in DOMAIN bulks,
               NEW k \in DOMAIN bulks[i], NEW l \in DOMAIN bulks[j],
               i < j \/ (i = j /\ k < l), bulks[i][k].from = bulks[j][l].from
        PROVE  bulks[i][k].no < bulks[j][l].no
    <3>1. bulks[i][k] \in Range(bulks[i]) /\ bulks[j][l] \in Range(bulks[j])
      BY <2>4, Elements DEF Bulk
    <3>2. Earlier(bulks[i][k], bulks[j][l])
      BY <2>4, <2>5, <2>6, <3>1 DEF Before, Sorted
    <3> QED  BY <2>6, <3>2 DEF Earlier
  <2>7. \A i, j \in DOMAIN bulks : \A k \in DOMAIN bulks[i], l \in DOMAIN bulks[j] :
          (i < j \/ (i = j /\ k < l)) /\ bulks[i][k].from = bulks[j][l].from
            => bulks[i][k].no < bulks[j][l].no
    BY <2>6
  <2> QED  BY <2>7 DEF ClientOrder, bulks
<1>2. IInv => ClientOrder
  BY <1>1 DEF IInv
<1> QED  BY <1>2, Invariance, PTL

\* README.md: a bulk is a block of one client and nothing else, or has BulkSize
\* commands from outside of all blocks at most.
THEOREM BlocksAreWholeHolds == Spec => []BlocksAreWhole
<1>1. ASSUME NEW done \in [Clients -> States], Inv(done) PROVE BlocksAreWhole
  <2>1. Len(general) < BulkSize /\ \A x \in Range(general) : x.block = 0
    BY <1>1 DEF Inv, ContentOk, GeneralOk
  <2>2. \A bulk \in Range(formed) : OfGeneral(bulk) \/ OfBlock(bulk, received)
    BY <1>1 DEF Inv, ContentOk, FormedOk
  <2> QED  BY <2>1, <2>2 DEF BlocksAreWhole, OfGeneral, OfBlock
<1>2. IInv => BlocksAreWhole
  BY <1>1 DEF IInv
<1> QED  BY <1>2, Invariance, PTL

\* The pools: every bulk is printed and written once, and all of a connection's
\* bulks before its processor is gone.
THEOREM EveryBulkIsOutputHolds == Spec => []EveryBulkIsOutput
<1>1. ASSUME NEW done \in [Clients -> States], Inv(done) PROVE EveryBulkIsOutput
  BY <1>1 DEF Inv, OutputOk, Through, Disjoint, EveryBulkIsOutput
<1>2. IInv => EveryBulkIsOutput
  BY <1>1 DEF IInv
<1> QED  BY <1>2, Invariance, PTL

\* async.cpp, disconnect: with nobody connected the shared bulk is empty, or
\* the last client left inside a block.
THEOREM LastOneFlushesHolds == Spec => []LastOneFlushes
<1>1. ASSUME NEW done \in [Clients -> States], Inv(done) PROVE LastOneFlushes
  BY <1>1 DEF Inv, LastOk, LastOneFlushes, Connected
<1>2. IInv => LastOneFlushes
  BY <1>1 DEF IInv
<1> QED  BY <1>2, Invariance, PTL
=============================================================================
