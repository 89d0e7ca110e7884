---------------------------- MODULE ExercisesProofs ----------------------------
(***************************************************************************)
(* Theorems about the exercises that keep a state from one operation to    *)
(* the next, each for every value of its bounds.  MyList over its three    *)
(* allocators: the lists never share a node, and no block is lost or freed *)
(* twice.  The three sparse matrices: they hold and give back the same.    *)
(* The database of join_server: what its two joins answer.  bayan: which   *)
(* files it takes for duplicates.                                          *)
(***************************************************************************)
EXTENDS AllocatorList, SparseMatrix, DatabaseBySteps, FileCompare, SequenceTheorems, FiniteSetTheorems, TLAPS

-----------------------------------------------------------------------------
\* Every set of numbers that is not empty has a least element.
LEMMA LeastNumber ==
  ASSUME NEW T \in SUBSET Nat, T # {}
  PROVE  \E x \in T : \A y \in T : ~ (y < x)
<1> DEFINE R == OpToRel(<, Nat)
<1>1. IsWellFoundedOn(R, Nat)
  BY NatLessThanWellFounded
<1>2. \A a, b \in Nat : a < b => <<a, b>> \in R
  BY DEF OpToRel
<1> HIDE DEF R
<1>3. PICK x \in T : \A y \in T : ~ (<<y, x>> \in R)
  BY <1>1, WFMin
<1>4. ASSUME NEW y \in T PROVE ~ (y < x)
  <2>1. y \in Nat /\ x \in Nat
    OBVIOUS
  <2> QED
    BY <1>2, <1>3, <2>1
<1> QED
  BY <1>4

\* Induction up to n; D holds the numbers for which the claim is true.
LEMMA Upwards ==
  ASSUME NEW n \in Nat, NEW D, 0 \in D,
         \A k \in Nat : k < n /\ k \in D => k + 1 \in D
  PROVE  \A k \in 0 .. n : k \in D
<1> DEFINE T == {k \in 0 .. n : k \notin D}
<1> SUFFICES ASSUME T # {} PROVE FALSE
  OBVIOUS
<1>1. PICK x \in T : \A y \in T : ~ (y < x)
  <2>1. T \in SUBSET Nat
    OBVIOUS
  <2> HIDE DEF T
  <2> QED
    BY <2>1, LeastNumber
<1>2. x \in Nat /\ x # 0 /\ x <= n /\ x \notin D
  OBVIOUS
<1>3. x - 1 \in 0 .. n /\ x - 1 < x /\ x - 1 < n
  BY <1>2
<1>4. x - 1 \in D
  BY <1>1, <1>3
<1>5. (x - 1) + 1 \in D
  BY <1>3, <1>4
<1> QED
  BY <1>2, <1>5

\* A recursive function of numbers exists whatever its step g is.
LEMMA Recursion ==
  ASSUME NEW X, NEW base \in X, NEW n \in Nat, NEW g,
         \A k \in 1 .. n : \A x \in X : g[<<k, x>>] \in X
  PROVE  \E f : /\ f = [k \in 0 .. n |-> IF k = 0 THEN base ELSE g[<<k, f[k - 1]>>]]
                /\ f \in [0 .. n -> X]
<1> DEFINE Good(f, m) == /\ f = [k \in 0 .. m |-> IF k = 0 THEN base ELSE g[<<k, f[k - 1]>>]]
                         /\ f \in [0 .. m -> X]
           D == {m \in 0 .. n : \E f : Good(f, m)}
<1>1. 0 \in D
  <2>1. Good([k \in 0 .. 0 |-> base], 0)
    OBVIOUS
  <2>2. \E f : Good(f, 0)
    BY <2>1, Zenon
  <2> QED
    BY <2>2
<1>2. ASSUME NEW m \in Nat, m < n, m \in D
      PROVE  m + 1 \in D
  <2>1. PICK f : Good(f, m)
    BY <1>2
  <2> DEFINE e == [k \in 0 .. m + 1 |-> IF k = m + 1 THEN g[<<m + 1, f[m]>>] ELSE f[k]]
  <2>2. f[m] \in X /\ g[<<m + 1, f[m]>>] \in X
    BY <1>2, <2>1
  <2>3. ASSUME NEW k \in 0 .. m + 1
        PROVE  /\ e[k] = IF k = 0 THEN base ELSE g[<<k, e[k - 1]>>]
               /\ e[k] \in X
    <3>1. CASE k = m + 1
      <4>1. k # 0 /\ k - 1 = m /\ m \in 0 .. m + 1 /\ m # m + 1
        BY <3>1
      <4>2. e[m] = f[m] /\ e[k] = g[<<m + 1, f[m]>>]
        BY <3>1, <4>1
      <4> QED
        BY <2>2, <3>1, <4>1, <4>2
    <3>2. CASE k # m + 1
      <4>1. k \in 0 .. m /\ e[k] = f[k]
        BY <3>2
      <4>2. f[k] \in X /\ f[k] = IF k = 0 THEN base ELSE g[<<k, f[k - 1]>>]
        BY <2>1, <4>1
      <4>3. k # 0 => k - 1 \in 0 .. m + 1 /\ k - 1 # m + 1
        BY <4>1
      <4>4. k # 0 => e[k - 1] = f[k - 1]
        BY <4>3
      <4> QED
        BY <4>1, <4>2, <4>4
    <3> QED
      BY <3>1, <3>2
  <2>4. e = [k \in 0 .. m + 1 |-> e[k]]
    OBVIOUS
  <2>5. Good(e, m + 1)
    <3> HIDE DEF e
    <3> QED
      BY <2>3, <2>4
  <2>6. \E f2 : Good(f2, m + 1)
    BY <2>5, Zenon
  <2> HIDE DEF Good
  <2> QED
    BY <1>2, <2>6
<1> HIDE DEF D
<1>3. \A k \in 0 .. n : k \in D
  BY <1>1, <1>2, Upwards
<1>4. n \in D
  BY <1>3
<1> QED
  BY <1>4 DEF D

-----------------------------------------------------------------------------
\* The allocators.  The nodes that lie in S are a list's before an allocation.

\* Where a node lies: its block and its place there.
Places == Nat \X Nat

Allocators == [owned : Seq(Nat), cur : Nat, used : Nat]

AllocStates == [allocator : Allocators, blocks : Nat, nodes : Seq(Places), thrown : BOOLEAN]

\* The blocks a list frees when it is destroyed, if S is the set of its nodes.
Held(kind, a, S) == IF kind = "std" THEN {x[1] : x \in S} ELSE Range(a.owned)

\* A node lies within a block that the list holds and below idx_ of the block
\* cp_ points into; the flat allocator has that one block only.
GoodAllocator(kind, a, S) ==
  /\ a \in Allocators /\ a.used <= BlockNodes
  /\ S \subseteq Nat \X (1 .. BlockNodes)
  /\ \A x \in S : x[1] \in Held(kind, a, S) /\ (kind = "std" => x[2] = 1)
  /\ kind # "std" => /\ a.cur # 0 => a.cur \in Range(a.owned)
                     /\ a.cur = 0 => a.owned = <<>> /\ a.used = 0
                     /\ \A x \in S : x[1] = a.cur => x[2] <= a.used
  /\ kind = "flat" => Range(a.owned) \subseteq {a.cur}

LEMMA StateFields ==
  ASSUME NEW s \in AllocStates
  PROVE  /\ s = [allocator |-> s.allocator, blocks |-> s.blocks, nodes |-> s.nodes, thrown |-> s.thrown]
         /\ s.allocator \in Allocators /\ s.allocator.owned \in Seq(Nat)
         /\ s.allocator.cur \in Nat /\ s.allocator.used \in Nat
         /\ s.blocks \in Nat /\ s.nodes \in Seq(Places) /\ s.thrown \in BOOLEAN
<1> DEFINE a == s.allocator
<1>1. /\ s = [allocator |-> a, blocks |-> s.blocks, nodes |-> s.nodes, thrown |-> s.thrown]
      /\ a \in Allocators /\ s.blocks \in Nat /\ s.nodes \in Seq(Places) /\ s.thrown \in BOOLEAN
  BY DEF AllocStates
<1> HIDE DEF a
<1>2. a.owned \in Seq(Nat) /\ a.cur \in Nat /\ a.used \in Nat
  BY <1>1 DEF Allocators
<1> QED
  BY <1>1, <1>2 DEF a

\* Each way to allocate, field by field.
LEMMA AllocationsAre ==
  ASSUME NEW s \in AllocStates
  PROVE  /\ Take(s) \in AllocStates
         /\ Take(s).allocator.owned = s.allocator.owned /\ Take(s).allocator.cur = s.allocator.cur
         /\ Take(s).allocator.used = s.allocator.used + 1
         /\ Take(s).blocks = s.blocks /\ Take(s).thrown = s.thrown
         /\ Take(s).nodes = Append(s.nodes, <<s.allocator.cur, s.allocator.used + 1>>)
         /\ NextBlock(s) \in AllocStates
         /\ NextBlock(s).allocator.owned = Append(s.allocator.owned, s.blocks + 1)
         /\ NextBlock(s).allocator.cur = s.blocks + 1 /\ NextBlock(s).allocator.used = 0
         /\ NextBlock(s).blocks = s.blocks + 1 /\ NextBlock(s).thrown = s.thrown
         /\ NextBlock(s).nodes = s.nodes
         /\ StdAllocate(s) \in AllocStates
         /\ StdAllocate(s).allocator = s.allocator
         /\ StdAllocate(s).blocks = s.blocks + 1 /\ StdAllocate(s).thrown = s.thrown
         /\ StdAllocate(s).nodes = Append(s.nodes, <<s.blocks + 1, 1>>)
         /\ [s EXCEPT !.thrown = TRUE] \in AllocStates
         /\ [s EXCEPT !.thrown = TRUE].allocator = s.allocator /\ [s EXCEPT !.thrown = TRUE].blocks = s.blocks
         /\ [s EXCEPT !.thrown = TRUE].nodes = s.nodes /\ [s EXCEPT !.thrown = TRUE].thrown = TRUE
<1> DEFINE a == s.allocator
<1>1. /\ a \in Allocators /\ a.owned \in Seq(Nat) /\ a.cur \in Nat /\ a.used \in Nat
      /\ s.blocks \in Nat /\ s.nodes \in Seq(Places) /\ s.thrown \in BOOLEAN
  BY StateFields
<1>2. PICK b : b = s.blocks + 1
  OBVIOUS
<1>3. PICK u : u = a.used + 1
  OBVIOUS
<1>4. PICK taken : taken = Append(s.nodes, <<a.cur, u>>)
  OBVIOUS
<1>5. PICK single : single = Append(s.nodes, <<b, 1>>)
  OBVIOUS
<1>6. PICK more : more = Append(a.owned, b)
  OBVIOUS
<1>7. b \in Nat /\ u \in Nat
  BY <1>1, <1>2, <1>3
<1>8. taken \in Seq(Places) /\ single \in Seq(Places) /\ more \in Seq(Nat)
  <2>1. <<a.cur, u>> \in Places /\ <<b, 1>> \in Places
    BY <1>1, <1>7 DEF Places
  <2> QED
    BY <1>1, <1>4, <1>5, <1>6, <1>7, <2>1, AppendProperties
<1>9. PICK a2 : a2 = [a EXCEPT !.used = u]
  OBVIOUS
<1>10. a2 \in Allocators /\ a2.owned = a.owned /\ a2.cur = a.cur /\ a2.used = u
  BY <1>1, <1>7, <1>9 DEF Allocators
<1>11. PICK a3 : a3 = [owned |-> more, cur |-> b, used |-> 0]
  OBVIOUS
<1>12. a3 \in Allocators /\ a3.owned = more /\ a3.cur = b /\ a3.used = 0
  BY <1>7, <1>8, <1>11 DEF Allocators
<1>13. /\ Take(s) \in AllocStates /\ Take(s).allocator = a2 /\ Take(s).blocks = s.blocks
       /\ Take(s).nodes = taken /\ Take(s).thrown = s.thrown
  <2>1. PICK t : t = [s EXCEPT !.allocator = a2]
    OBVIOUS
  <2>2. Take(s) = [t EXCEPT !.nodes = taken]
    BY <1>3, <1>4, <1>9, <2>1, Zenon DEF Take
  <2>3. t \in AllocStates /\ t.allocator = a2 /\ t.blocks = s.blocks /\ t.thrown = s.thrown
    BY <1>10, <2>1 DEF AllocStates
  <2>4. PICK r : r = [t EXCEPT !.nodes = taken]
    OBVIOUS
  <2>5. r \in AllocStates /\ r.allocator = t.allocator /\ r.blocks = t.blocks /\ r.nodes = taken /\ r.thrown = t.thrown
    BY <1>8, <2>3, <2>4 DEF AllocStates
  <2> QED
    BY <2>2, <2>3, <2>4, <2>5, Zenon
<1>14. /\ NextBlock(s) \in AllocStates /\ NextBlock(s).allocator = a3 /\ NextBlock(s).blocks = b
       /\ NextBlock(s).nodes = s.nodes /\ NextBlock(s).thrown = s.thrown
  <2>1. PICK t : t = [s EXCEPT !.blocks = b]
    OBVIOUS
  <2>2. NextBlock(s) = [t EXCEPT !.allocator = a3]
    BY <1>2, <1>6, <1>11, <2>1, Zenon DEF NextBlock
  <2>3. t \in AllocStates /\ t.blocks = b /\ t.nodes = s.nodes /\ t.thrown = s.thrown
    BY <1>7, <2>1 DEF AllocStates
  <2>4. PICK r : r = [t EXCEPT !.allocator = a3]
    OBVIOUS
  <2>5. r \in AllocStates /\ r.allocator = a3 /\ r.blocks = t.blocks /\ r.nodes = t.nodes /\ r.thrown = t.thrown
    BY <1>12, <2>3, <2>4 DEF AllocStates
  <2> QED
    BY <2>2, <2>3, <2>4, <2>5, Zenon
<1>15. /\ StdAllocate(s) \in AllocStates /\ StdAllocate(s).allocator = a /\ StdAllocate(s).blocks = b
       /\ StdAllocate(s).nodes = single /\ StdAllocate(s).thrown = s.thrown
  <2>1. PICK t : t = [s EXCEPT !.blocks = b]
    OBVIOUS
  <2>2. StdAllocate(s) = [t EXCEPT !.nodes = single]
    BY <1>2, <1>5, <2>1, Zenon DEF StdAllocate
  <2>3. t \in AllocStates /\ t.allocator = a /\ t.blocks = b /\ t.thrown = s.thrown
    BY <1>7, <2>1 DEF AllocStates
  <2>4. PICK r : r = [t EXCEPT !.nodes = single]
    OBVIOUS
  <2>5. r \in AllocStates /\ r.allocator = t.allocator /\ r.blocks = t.blocks /\ r.nodes = single /\ r.thrown = t.thrown
    BY <1>8, <2>3, <2>4 DEF AllocStates
  <2> QED
    BY <2>2, <2>3, <2>4, <2>5, Zenon
<1>16. LET t == [s EXCEPT !.thrown = TRUE] IN
       t \in AllocStates /\ t.allocator = s.allocator /\ t.blocks = s.blocks /\ t.nodes = s.nodes /\ t.thrown = TRUE
  BY DEF AllocStates
<1> HIDE DEF a
<1>17. /\ Take(s).allocator.owned = a.owned /\ Take(s).allocator.cur = a.cur /\ Take(s).allocator.used = u
       /\ NextBlock(s).allocator.owned = more /\ NextBlock(s).allocator.cur = b /\ NextBlock(s).allocator.used = 0
  BY <1>10, <1>12, <1>13, <1>14, Zenon
<1> QED
  BY <1>2, <1>3, <1>4, <1>5, <1>6, <1>13, <1>14, <1>15, <1>16, <1>17, Zenon DEF a

LEMMA RangeAppend ==
  ASSUME NEW A, NEW q \in Seq(A), NEW e \in A
  PROVE  Range(Append(q, e)) = Range(q) \cup {e}
<1>1. Len(q) \in Nat /\ DOMAIN q = 1 .. Len(q)
  BY LenProperties
<1>2. Append(q, e) \in Seq(A) /\ Len(Append(q, e)) = Len(q) + 1
  BY AppendProperties
<1>3. DOMAIN Append(q, e) = 1 .. Len(q) + 1
  BY <1>2, LenProperties
<1>4. /\ \A i \in 1 .. Len(q) : Append(q, e)[i] = q[i]
      /\ Append(q, e)[Len(q) + 1] = e
  BY AppendProperties
<1>5. \A i \in 1 .. Len(q) + 1 : i \in 1 .. Len(q) \/ i = Len(q) + 1
  BY <1>1
<1>6. \A i \in 1 .. Len(q) : i \in 1 .. Len(q) + 1
  BY <1>1
<1>7. Len(q) + 1 \in 1 .. Len(q) + 1
  BY <1>1
<1> QED
  BY <1>1, <1>3, <1>4, <1>5, <1>6, <1>7, Zenon DEF Range

\* A new block, after which the list still owns what it did, and that block.
LEMMA NextBlockKeeps ==
  ASSUME NEW kind \in Kinds, kind # "std", NEW s \in AllocStates, NEW S,
         GoodAllocator(kind, s.allocator, S), Held(kind, s.allocator, S) \subseteq 1 .. s.blocks,
         kind = "flat" => s.allocator.cur = 0
  PROVE  /\ GoodAllocator(kind, NextBlock(s).allocator, S)
         /\ Held(kind, NextBlock(s).allocator, S) = Held(kind, s.allocator, S) \cup {s.blocks + 1}
<1>1. PICK a : a = s.allocator
  OBVIOUS
<1>2. PICK b : b = s.blocks + 1
  OBVIOUS
<1>3. PICK n : n = NextBlock(s).allocator
  OBVIOUS
<1>4. /\ a \in Allocators /\ a.owned \in Seq(Nat) /\ s.blocks \in Nat /\ b \in Nat /\ b > s.blocks
  BY <1>1, <1>2, StateFields
<1>5. /\ n \in Allocators /\ n.owned = Append(a.owned, b) /\ n.cur = b /\ n.used = 0
  BY <1>1, <1>2, <1>3, AllocationsAre, StateFields
<1>6. Range(n.owned) = Range(a.owned) \cup {b}
  BY <1>4, <1>5, RangeAppend
<1>7. Held(kind, n, S) = Held(kind, a, S) \cup {b} /\ Held(kind, a, S) = Range(a.owned)
  BY <1>6 DEF Held
<1>8. \A x \in S : x[1] \in Held(kind, a, S) /\ x[1] # b
  <2> SUFFICES ASSUME NEW x \in S PROVE x[1] \in Held(kind, a, S) /\ x[1] # b
    OBVIOUS
  <2>1. x[1] \in Held(kind, a, S)
    BY <1>1 DEF GoodAllocator
  <2>2. x[1] \in 1 .. s.blocks
    BY <1>1, <2>1
  <2> QED
    BY <1>2, <1>4, <2>1, <2>2
<1>9. kind = "flat" => Range(a.owned) = {}
  BY <1>1 DEF GoodAllocator, Range
<1>10. GoodAllocator(kind, n, S)
  <2>1. S \subseteq Nat \X (1 .. BlockNodes)
    BY DEF GoodAllocator
  <2>2. n.used <= BlockNodes
    BY <1>5, AllocatorListAssumption
  <2>3. b # 0
    BY <1>4
  <2>4. \A x \in S : x[1] \in Held(kind, n, S)
    BY <1>7, <1>8
  <2>5. b \in Range(n.owned) /\ (kind = "flat" => Range(n.owned) \subseteq {b})
    BY <1>6, <1>9
  <2> QED
    BY <1>5, <1>8, <2>1, <2>2, <2>3, <2>4, <2>5 DEF GoodAllocator
<1> QED
  BY <1>1, <1>2, <1>3, <1>7, <1>10

\* A node of the block cp_ points into.
LEMMA TakeKeeps ==
  ASSUME NEW kind \in Kinds, kind # "std", NEW s \in AllocStates, NEW S,
         GoodAllocator(kind, s.allocator, S), s.allocator.cur # 0, s.allocator.used + 1 <= BlockNodes,
         NEW x, x = <<s.allocator.cur, s.allocator.used + 1>>
  PROVE  /\ x \in Places /\ x \notin S
         /\ GoodAllocator(kind, Take(s).allocator, S \cup {x})
         /\ Held(kind, Take(s).allocator, S \cup {x}) = Held(kind, s.allocator, S)
<1>1. PICK a : a = s.allocator
  OBVIOUS
<1>2. PICK n : n = Take(s).allocator
  OBVIOUS
<1>3. PICK u : u = a.used + 1
  OBVIOUS
<1>4. a \in Allocators /\ a.owned \in Seq(Nat) /\ a.cur \in Nat /\ a.used \in Nat
  BY <1>1, StateFields
<1>5. u \in 1 .. BlockNodes /\ u > a.used /\ u \in Nat
  BY <1>1, <1>3, <1>4, AllocatorListAssumption
<1>6. x = <<a.cur, u>> /\ x[1] = a.cur /\ x[2] = u
  BY <1>1, <1>3
<1>7. n \in Allocators /\ n.owned = a.owned /\ n.cur = a.cur /\ n.used = u
  BY <1>1, <1>2, <1>3, AllocationsAre, StateFields
<1>8. Held(kind, n, S \cup {x}) = Held(kind, a, S) /\ Held(kind, a, S) = Range(a.owned)
  BY <1>7 DEF Held
<1>9. x \notin S
  <2> SUFFICES ASSUME x \in S PROVE FALSE
    OBVIOUS
  <2>1. x[2] <= a.used
    BY <1>1, <1>6 DEF GoodAllocator
  <2> QED
    BY <1>4, <1>5, <1>6, <2>1
<1>10. GoodAllocator(kind, n, S \cup {x})
  <2>1. S \cup {x} \subseteq Nat \X (1 .. BlockNodes)
    BY <1>4, <1>5, <1>6 DEF GoodAllocator
  <2>2. a.cur \in Range(a.owned) /\ a.cur # 0 /\ (kind = "flat" => Range(a.owned) \subseteq {a.cur})
    BY <1>1 DEF GoodAllocator
  <2>3. \A y \in S \cup {x} : y[1] \in Held(kind, n, S \cup {x})
    BY <1>1, <1>6, <1>8, <2>2 DEF GoodAllocator
  <2>4. \A y \in S \cup {x} : y[1] = a.cur => y[2] <= u
    <3> SUFFICES ASSUME NEW y \in S, y[1] = a.cur PROVE y[2] <= u
      BY <1>5, <1>6
    <3>1. y[2] <= a.used /\ y \in Nat \X (1 .. BlockNodes)
      BY <1>1 DEF GoodAllocator
    <3>2. y[2] \in Nat
      BY <3>1
    <3> QED
      BY <1>4, <1>5, <3>1, <3>2
  <2>5. u <= BlockNodes
    BY <1>5
  <2> QED
    BY <1>7, <2>1, <2>2, <2>3, <2>4, <2>5 DEF GoodAllocator
<1>11. x \in Places
  BY <1>4, <1>5, <1>6 DEF Places
<1> QED
  BY <1>1, <1>2, <1>8, <1>9, <1>10, <1>11

\* From s to t the list that has the nodes S was given node x.
Gives(kind, s, S, t, x) ==
  /\ t.nodes = Append(s.nodes, x) /\ x \notin S
  /\ GoodAllocator(kind, t.allocator, S \cup {x})
  /\ Held(kind, t.allocator, S \cup {x}) = Held(kind, s.allocator, S) \cup (s.blocks + 1 .. t.blocks)

\* Every allocator hands out a node nobody has, and keeps account of its
\* blocks; the flat one, when it is full, throws and changes nothing.
LEMMA AllocateStep ==
  ASSUME NEW kind \in Kinds, NEW s \in AllocStates, ~ s.thrown, NEW S,
         GoodAllocator(kind, s.allocator, S), Held(kind, s.allocator, S) \subseteq 1 .. s.blocks,
         NEW t, t = Allocate(kind, s)
  PROVE  /\ t \in AllocStates /\ t.blocks >= s.blocks
         /\ t.thrown => /\ kind = "flat" /\ t.allocator.cur # 0
                        /\ t.allocator = s.allocator /\ t.blocks = s.blocks /\ t.nodes = s.nodes
         /\ ~ t.thrown => \E x \in Places : Gives(kind, s, S, t, x)
<1>0. /\ s.blocks \in Nat /\ s.allocator \in Allocators /\ s.allocator.cur \in Nat
      /\ s.allocator.used \in Nat /\ s.thrown = FALSE
  BY StateFields
<1> DEFINE Goal(r) ==
             /\ r \in AllocStates /\ r.blocks >= s.blocks
             /\ r.thrown => /\ kind = "flat" /\ r.allocator.cur # 0
                            /\ r.allocator = s.allocator /\ r.blocks = s.blocks /\ r.nodes = s.nodes
             /\ ~ r.thrown => \E x \in Places : Gives(kind, s, S, r, x)
\* What follows a choice between the same block and a new one.
<1>1. ASSUME kind # "std", s.allocator.cur # 0, s.allocator.used + 1 <= BlockNodes
      PROVE  Goal(Take(s))
  <2>1. PICK x : x = <<s.allocator.cur, s.allocator.used + 1>>
    OBVIOUS
  <2>2. PICK r : r = Take(s)
    OBVIOUS
  <2>3. r \in AllocStates /\ r.blocks = s.blocks /\ r.thrown = FALSE /\ r.nodes = Append(s.nodes, x)
    BY <1>0, <2>1, <2>2, AllocationsAre
  <2>4. /\ x \in Places /\ x \notin S
        /\ GoodAllocator(kind, r.allocator, S \cup {x})
        /\ Held(kind, r.allocator, S \cup {x}) = Held(kind, s.allocator, S)
    BY <1>1, <2>1, <2>2, TakeKeeps
  <2>5. s.blocks + 1 .. r.blocks = {} /\ r.blocks >= s.blocks
    BY <1>0, <2>3
  <2>6. Held(kind, s.allocator, S) = Held(kind, s.allocator, S) \cup (s.blocks + 1 .. r.blocks)
    BY <2>5
  <2> QED
    BY <2>2, <2>3, <2>4, <2>5, <2>6 DEF Gives
<1>2. ASSUME kind # "std", kind = "flat" => s.allocator.cur = 0
      PROVE  Goal(Take(NextBlock(s)))
  <2>1. PICK m : m = NextBlock(s)
    OBVIOUS
  <2>2. /\ m \in AllocStates /\ m.blocks = s.blocks + 1 /\ m.thrown = FALSE /\ m.nodes = s.nodes
        /\ m.allocator.cur = s.blocks + 1 /\ m.allocator.used = 0
    BY <1>0, <2>1, AllocationsAre
  <2>3. /\ GoodAllocator(kind, m.allocator, S)
        /\ Held(kind, m.allocator, S) = Held(kind, s.allocator, S) \cup {s.blocks + 1}
    BY <1>2, <2>1, NextBlockKeeps
  <2>4. m.allocator.cur # 0 /\ m.allocator.used + 1 <= BlockNodes
    BY <1>0, <2>2, AllocatorListAssumption
  <2>5. PICK x : x = <<m.allocator.cur, m.allocator.used + 1>>
    OBVIOUS
  <2>6. PICK r : r = Take(m)
    OBVIOUS
  <2>7. r \in AllocStates /\ r.blocks = m.blocks /\ r.thrown = m.thrown /\ r.nodes = Append(m.nodes, x)
    BY <2>2, <2>5, <2>6, AllocationsAre
  <2>8. /\ x \in Places /\ x \notin S
        /\ GoodAllocator(kind, r.allocator, S \cup {x})
        /\ Held(kind, r.allocator, S \cup {x}) = Held(kind, m.allocator, S)
    BY <1>2, <2>2, <2>3, <2>4, <2>5, <2>6, TakeKeeps DEF Places
  <2>9. s.blocks + 1 .. r.blocks = {s.blocks + 1} /\ r.blocks >= s.blocks
    BY <1>0, <2>2, <2>7
  <2>10. /\ r.nodes = Append(s.nodes, x) /\ ~ r.thrown
         /\ Held(kind, r.allocator, S \cup {x}) = Held(kind, s.allocator, S) \cup (s.blocks + 1 .. r.blocks)
    BY <2>2, <2>3, <2>7, <2>8, <2>9
  <2> QED
    BY <2>1, <2>6, <2>7, <2>8, <2>9, <2>10 DEF Gives
<1>3. CASE kind = "std"
  <2>1. t = StdAllocate(s)
    BY <1>3 DEF Allocate
  <2>2. PICK x : x = <<s.blocks + 1, 1>>
    OBVIOUS
  <2>3. /\ t \in AllocStates /\ t.blocks = s.blocks + 1 /\ t.thrown = FALSE
        /\ t.nodes = Append(s.nodes, x) /\ t.allocator = s.allocator
    BY ONLY s \in AllocStates, <1>0, <2>1, <2>2, AllocationsAre, Zenon
  <2>4. x \in Nat \X (1 .. BlockNodes) /\ x \in Places /\ x[1] = s.blocks + 1 /\ x[2] = 1
    BY <1>0, <2>2, AllocatorListAssumption DEF Places
  <2>5. \A a, R : Held(kind, a, R) = {y[1] : y \in R}
    BY <1>3 DEF Held
  <2>6. x \notin S
    <3> SUFFICES ASSUME x \in S PROVE FALSE
      OBVIOUS
    <3>1. x[1] \in 1 .. s.blocks
      BY <2>5
    <3> QED
      BY <1>0, <2>4, <3>1
  <2>7. s.blocks + 1 .. t.blocks = {x[1]} /\ t.blocks >= s.blocks
    BY <1>0, <2>3, <2>4
  <2>8. Held(kind, t.allocator, S \cup {x}) = Held(kind, s.allocator, S) \cup (s.blocks + 1 .. t.blocks)
    BY <2>5, <2>7
  <2>9. GoodAllocator(kind, t.allocator, S \cup {x})
    <3>1. \A y \in S \cup {x} : y[1] \in Held(kind, t.allocator, S \cup {x}) /\ y[2] = 1
      BY <1>3, <2>4, <2>5 DEF GoodAllocator
    <3> QED
      BY <1>3, <2>3, <2>4, <3>1 DEF GoodAllocator
  <2> QED
    BY <2>3, <2>4, <2>6, <2>7, <2>8, <2>9 DEF Gives
<1>4. CASE kind = "chunk"
  <2>1. t = Take(IF NeedsChunk(s.allocator) THEN NextBlock(s) ELSE s)
    BY <1>4 DEF Allocate, ChunkAllocate
  <2>2. CASE NeedsChunk(s.allocator)
    <3>1. t = Take(NextBlock(s))
      BY <2>1, <2>2
    <3> QED
      BY <1>2, <1>4, <3>1
  <2>3. CASE ~ NeedsChunk(s.allocator)
    <3>1. t = Take(s)
      BY <2>1, <2>3
    <3>2. s.allocator.used # 0 /\ s.allocator.used + 1 <= BlockNodes
      BY <1>0, <2>3, AllocatorListAssumption DEF NeedsChunk
    <3>3. s.allocator.cur # 0
      BY <1>4, <3>2 DEF GoodAllocator
    <3> QED
      BY <1>1, <1>4, <3>1, <3>2, <3>3
  <2> QED
    BY <2>2, <2>3
<1>5. CASE kind = "flat"
  <2>1. t = FlatAllocate(s)
    BY <1>5 DEF Allocate
  <2>2. CASE s.allocator.cur = 0
    <3>1. FlatFits(NextBlock(s).allocator)
      <4>1. /\ NextBlock(s).allocator.used = 0
            /\ NextBlock(s).allocator.owned = Append(s.allocator.owned, s.blocks + 1)
        BY AllocationsAre
      <4>2. PICK o : o = s.allocator.owned
        OBVIOUS
      <4>3. o \in Seq(Nat) /\ s.blocks + 1 \in Nat
        BY <4>2, StateFields
      <4>4. Append(o, s.blocks + 1) # <<>>
        BY <4>3, AppendProperties
      <4> QED
        BY <4>1, <4>2, <4>4, AllocatorListAssumption DEF FlatFits
    <3>2. t = Take(NextBlock(s))
      BY <2>1, <2>2, <3>1 DEF FlatAllocate
    <3> QED
      BY <1>2, <1>5, <2>2, <3>2
  <2>3. CASE s.allocator.cur # 0
    <3>0. FlatFits(s.allocator) <=> s.allocator.used + 1 <= BlockNodes
      <4>1. Range(s.allocator.owned) # {}
        BY <1>5, <2>3 DEF GoodAllocator
      <4>2. s.allocator.owned # <<>>
        BY <4>1, EmptySeq DEF Range
      <4> QED
        BY <4>2 DEF FlatFits
    <3>1. CASE s.allocator.used + 1 <= BlockNodes
      <4>1. t = Take(s)
        BY <2>1, <2>3, <3>0, <3>1 DEF FlatAllocate
      <4> QED
        BY <1>1, <1>5, <2>3, <3>1, <4>1
    <3>2. CASE ~ (s.allocator.used + 1 <= BlockNodes)
      <4>1. t = [s EXCEPT !.thrown = TRUE]
        BY <2>1, <2>3, <3>0, <3>2, Zenon DEF FlatAllocate
      <4>2. /\ t \in AllocStates /\ t.allocator = s.allocator /\ t.blocks = s.blocks
            /\ t.nodes = s.nodes /\ t.thrown = TRUE
        <5>1. LET u == [s EXCEPT !.thrown = TRUE] IN
              u \in AllocStates /\ u.allocator = s.allocator /\ u.blocks = s.blocks /\ u.nodes = s.nodes /\ u.thrown = TRUE
          BY DEF AllocStates
        <5> QED
          BY <4>1, <5>1, Zenon
      <4> QED
        BY <1>0, <1>5, <2>3, <4>2
    <3> QED
      BY <3>1, <3>2
  <2> QED
    BY <2>2, <2>3
<1> QED
  BY <1>3, <1>4, <1>5 DEF Kinds

LEMMA AllocateType ==
  ASSUME NEW kind \in Kinds, NEW s \in AllocStates
  PROVE  Allocate(kind, s) \in AllocStates
<1>1. Take(s) \in AllocStates /\ NextBlock(s) \in AllocStates /\ StdAllocate(s) \in AllocStates
  BY AllocationsAre
<1>2. ASSUME NEW t \in AllocStates
      PROVE  Take(t) \in AllocStates /\ [t EXCEPT !.thrown = TRUE] \in AllocStates
  BY AllocationsAre
<1>3. FlatAllocate(s) \in AllocStates
  <2> DEFINE t == IF s.allocator.cur = 0 THEN NextBlock(s) ELSE s
  <2>1. t \in AllocStates
    BY <1>1
  <2>2. FlatAllocate(s) = IF FlatFits(t.allocator) THEN Take(t) ELSE [t EXCEPT !.thrown = TRUE]
    BY Zenon DEF FlatAllocate
  <2> HIDE DEF t
  <2> QED
    BY <1>2, <2>1, <2>2, Zenon
<1>4. ChunkAllocate(s) \in AllocStates
  BY <1>1, <1>2, Zenon DEF ChunkAllocate
<1> QED
  BY <1>1, <1>3, <1>4 DEF Allocate, Kinds

\* The states of an allocation of n nodes, as AllocateNodes computes them.
IsAllocation(kind, a, n, f) ==
  f = [k \in 0 .. n |->
         IF k = 0 THEN [allocator |-> a, blocks |-> Cardinality(DOMAIN frees), nodes |-> <<>>, thrown |-> FALSE]
         ELSE IF f[k - 1].thrown THEN f[k - 1] ELSE Allocate(kind, f[k - 1])]

LEMMA AllocationExists ==
  ASSUME NEW kind \in Kinds, NEW a \in Allocators, NEW n \in Nat, Cardinality(DOMAIN frees) \in Nat
  PROVE  \E f : IsAllocation(kind, a, n, f)
<1>1. PICK base : base = [allocator |-> a, blocks |-> Cardinality(DOMAIN frees), nodes |-> <<>>, thrown |-> FALSE]
  OBVIOUS
<1>2. base \in AllocStates
  <2>1. <<>> \in Seq(Places)
    BY EmptySeq
  <2> QED
    BY <1>1, <2>1 DEF AllocStates
<1> DEFINE g == [p \in (1 .. n) \X AllocStates |-> IF p[2].thrown THEN p[2] ELSE Allocate(kind, p[2])]
<1>3. \A k \in 1 .. n : \A x \in AllocStates :
        g[<<k, x>>] \in AllocStates /\ g[<<k, x>>] = IF x.thrown THEN x ELSE Allocate(kind, x)
  BY AllocateType
<1> HIDE DEF g
<1>4. PICK f : /\ f = [k \in 0 .. n |-> IF k = 0 THEN base ELSE g[<<k, f[k - 1]>>]]
               /\ f \in [0 .. n -> AllocStates]
  BY <1>2, <1>3, Recursion
<1>5. ASSUME NEW k \in 0 .. n
      PROVE  f[k] = IF k = 0 THEN base
                    ELSE IF f[k - 1].thrown THEN f[k - 1] ELSE Allocate(kind, f[k - 1])
  <2>1. f[k] = IF k = 0 THEN base ELSE g[<<k, f[k - 1]>>]
    BY <1>4
  <2>2. CASE k = 0
    BY <2>1, <2>2
  <2>3. CASE k # 0
    <3>1. k \in 1 .. n /\ k - 1 \in 0 .. n
      BY <2>3
    <3>2. f[k - 1] \in AllocStates
      BY <1>4, <3>1
    <3>3. g[<<k, f[k - 1]>>] = IF f[k - 1].thrown THEN f[k - 1] ELSE Allocate(kind, f[k - 1])
      BY <1>3, <3>1, <3>2
    <3> QED
      BY <2>1, <2>3, <3>3
  <2> QED
    BY <2>2, <2>3
<1>6. f = [k \in 0 .. n |-> f[k]]
  BY <1>4
<1>7. f = [k \in 0 .. n |-> IF k = 0 THEN base
                            ELSE IF f[k - 1].thrown THEN f[k - 1] ELSE Allocate(kind, f[k - 1])]
  BY <1>5, <1>6
<1>8. IsAllocation(kind, a, n, f)
  BY <1>1, <1>7, Zenon DEF IsAllocation
<1> QED
  BY <1>8, Zenon

LEMMA AllocateNodesIs ==
  ASSUME NEW kind \in Kinds, NEW a \in Allocators, NEW n \in Nat, Cardinality(DOMAIN frees) \in Nat
  PROVE  \E f : IsAllocation(kind, a, n, f) /\ AllocateNodes(kind, a, n) = f[n]
<1> DEFINE f == CHOOSE f : IsAllocation(kind, a, n, f)
<1>1. IsAllocation(kind, a, n, f)
  BY AllocationExists, Zenon
<1>2. AllocateNodes(kind, a, n) = f[n]
  BY Zenon DEF AllocateNodes, IsAllocation
<1> HIDE DEF f
<1> QED
  BY <1>1, <1>2, Zenon

\* What an allocation of n nodes comes to, for a list that has the nodes S
\* before it and when B blocks have been malloced: s.nodes are new and all
\* different, the blocks malloced meanwhile are the list's.
Allocated(kind, a, S, B, n, s) ==
  /\ s \in AllocStates /\ s.blocks >= B
  /\ GoodAllocator(kind, s.allocator, S \cup Range(s.nodes))
  /\ Held(kind, s.allocator, S \cup Range(s.nodes)) = Held(kind, a, S) \cup (B + 1 .. s.blocks)
  /\ \A i, j \in 1 .. Len(s.nodes) : s.nodes[i] = s.nodes[j] => i = j
  /\ \A i \in 1 .. Len(s.nodes) : s.nodes[i] \notin S
  /\ ~ s.thrown => Len(s.nodes) = n
  /\ s.thrown => kind = "flat" /\ s.allocator.cur # 0 /\ Len(s.nodes) < n

LEMMA AllocatedMore ==
  ASSUME NEW kind \in Kinds, NEW a \in Allocators, NEW S, NEW B \in Nat, NEW k \in Nat, NEW s,
         Held(kind, a, S) \subseteq 1 .. B, Allocated(kind, a, S, B, k, s)
  PROVE  Allocated(kind, a, S, B, k + 1, IF s.thrown THEN s ELSE Allocate(kind, s))
<1>0. /\ s \in AllocStates /\ s.blocks \in Nat /\ s.blocks >= B /\ s.nodes \in Seq(Places)
      /\ Len(s.nodes) \in Nat
  BY StateFields, LenProperties DEF Allocated
<1>1. CASE s.thrown
  <2>1. Len(s.nodes) < k => Len(s.nodes) < k + 1
    BY <1>0
  <2> QED
    BY <1>1, <2>1 DEF Allocated
<1>2. CASE ~ s.thrown
  <2>1. PICK t : t = Allocate(kind, s)
    OBVIOUS
  <2>2. PICK R : R = S \cup Range(s.nodes)
    OBVIOUS
  <2>3. GoodAllocator(kind, s.allocator, R) /\ Held(kind, s.allocator, R) = Held(kind, a, S) \cup (B + 1 .. s.blocks)
    BY <2>2 DEF Allocated
  <2>4. Held(kind, s.allocator, R) \subseteq 1 .. s.blocks
    <3>1. 1 .. B \subseteq 1 .. s.blocks /\ B + 1 .. s.blocks \subseteq 1 .. s.blocks
      BY <1>0
    <3> QED
      BY <2>3, <3>1
  <2>5. /\ t \in AllocStates /\ t.blocks >= s.blocks
        /\ t.thrown => /\ kind = "flat" /\ t.allocator.cur # 0
                       /\ t.allocator = s.allocator /\ t.blocks = s.blocks /\ t.nodes = s.nodes
        /\ ~ t.thrown => \E x \in Places : Gives(kind, s, R, t, x)
    BY <1>0, <1>2, <2>1, <2>3, <2>4, AllocateStep
  <2>6. Len(s.nodes) = k
    BY <1>2 DEF Allocated
  <2>7. t.blocks \in Nat /\ t.blocks >= B
    BY <1>0, <2>5, StateFields
  <2>8. CASE t.thrown
    <3>1. Len(t.nodes) < k + 1
      BY <1>0, <2>5, <2>6, <2>8
    <3> QED
      BY <1>2, <2>1, <2>5, <2>7, <2>8, <3>1 DEF Allocated
  <2>9. CASE ~ t.thrown
    <3>1. PICK x \in Places : Gives(kind, s, R, t, x)
      BY <2>5, <2>9
    <3>2. Range(t.nodes) = Range(s.nodes) \cup {x}
      <4>1. PICK A : A = Places
        OBVIOUS
      <4>2. t.nodes = Append(s.nodes, x) /\ s.nodes \in Seq(A) /\ x \in A
        BY <1>0, <3>1, <4>1 DEF Gives
      <4> QED
        BY ONLY <4>2, RangeAppend
    <3>3. S \cup Range(t.nodes) = R \cup {x}
      BY <2>2, <3>2
    <3>4. (B + 1 .. s.blocks) \cup (s.blocks + 1 .. t.blocks) = B + 1 .. t.blocks
      <4>1. PICK x1 : x1 = s.blocks
        OBVIOUS
      <4>2. PICK x2 : x2 = t.blocks
        OBVIOUS
      <4>3. x1 \in Nat /\ x2 \in Nat /\ B \in Nat /\ B <= x1 /\ x1 <= x2
        BY <1>0, <2>5, <2>7, <4>1, <4>2
      <4>4. (B + 1 .. x1) \cup (x1 + 1 .. x2) = B + 1 .. x2
        BY ONLY <4>3
      <4> QED
        BY <4>1, <4>2, <4>4
    <3>5. Held(kind, t.allocator, S \cup Range(t.nodes)) = Held(kind, a, S) \cup (B + 1 .. t.blocks)
      BY <2>3, <3>1, <3>3, <3>4 DEF Gives
    <3>6. /\ Len(t.nodes) = k + 1
          /\ \A i \in 1 .. k : t.nodes[i] = s.nodes[i]
          /\ t.nodes[k + 1] = x
      BY <1>0, <2>6, <3>1, AppendProperties DEF Gives
    <3>7. \A i \in 1 .. k : s.nodes[i] \in Range(s.nodes)
      <4>1. DOMAIN s.nodes = 1 .. k
        BY <1>0, <2>6, LenProperties
      <4> QED
        BY <4>1 DEF Range
    <3>8. \A i \in 1 .. k : s.nodes[i] # x /\ s.nodes[i] \notin S
      BY <2>2, <2>6, <3>1, <3>7 DEF Allocated, Gives
    <3>9. \A i \in 1 .. k + 1 : i \in 1 .. k \/ i = k + 1
      OBVIOUS
    <3>10. \A i \in 1 .. k + 1 : t.nodes[i] \notin S
      BY <2>2, <3>1, <3>6, <3>8, <3>9 DEF Gives
    <3>11. \A i, j \in 1 .. k + 1 : t.nodes[i] = t.nodes[j] => i = j
      <4>1. \A i, j \in 1 .. k : s.nodes[i] = s.nodes[j] => i = j
        BY <2>6 DEF Allocated
      <4> QED
        BY <3>6, <3>8, <3>9, <4>1
    <3>12. Allocated(kind, a, S, B, k + 1, t)
      BY <2>5, <2>7, <2>9, <3>1, <3>3, <3>5, <3>6, <3>10, <3>11 DEF Allocated, Gives
    <3> QED
      BY <1>2, <2>1, <3>12
  <2> QED
    BY <2>8, <2>9
<1> QED
  BY <1>1, <1>2

LEMMA AllocateNodesKeep ==
  ASSUME NEW kind \in Kinds, NEW a \in Allocators, NEW S, NEW B \in Nat, B = Cardinality(DOMAIN frees),
         GoodAllocator(kind, a, S), Held(kind, a, S) \subseteq 1 .. B, NEW n \in Nat
  PROVE  Allocated(kind, a, S, B, n, AllocateNodes(kind, a, n))
<1>1. PICK f : IsAllocation(kind, a, n, f) /\ AllocateNodes(kind, a, n) = f[n]
  BY AllocateNodesIs
<1>2. f[0] = [allocator |-> a, blocks |-> B, nodes |-> <<>>, thrown |-> FALSE]
  BY <1>1 DEF IsAllocation
<1>3. \A k \in Nat : k < n => f[k + 1] = IF f[k].thrown THEN f[k] ELSE Allocate(kind, f[k])
  <2> SUFFICES ASSUME NEW k \in Nat, k < n
               PROVE  f[k + 1] = IF f[k].thrown THEN f[k] ELSE Allocate(kind, f[k])
    OBVIOUS
  <2>1. k + 1 \in 0 .. n /\ k + 1 # 0 /\ (k + 1) - 1 = k
    OBVIOUS
  <2> QED
    BY <1>1, <2>1 DEF IsAllocation
<1> DEFINE D == {k \in 0 .. n : Allocated(kind, a, S, B, k, f[k])}
<1>4. 0 \in D
  <2>1. <<>> \in Seq(Places) /\ Len(<<>>) = 0 /\ Range(<<>>) = {}
    BY EmptySeq DEF Range
  <2>2. PICK s : s = f[0]
    OBVIOUS
  <2>3. s \in AllocStates /\ s.blocks = B /\ s.allocator = a /\ s.nodes = <<>> /\ s.thrown = FALSE
    BY <1>2, <2>1, <2>2 DEF AllocStates
  <2>4. S \cup Range(s.nodes) = S
    BY <2>1, <2>3
  <2>5. B + 1 .. s.blocks = {} /\ s.blocks >= B /\ 1 .. 0 = {}
    BY <2>3
  <2>6. Held(kind, s.allocator, S \cup Range(s.nodes)) = Held(kind, a, S) \cup (B + 1 .. s.blocks)
    BY <2>3, <2>4, <2>5
  <2>7. Allocated(kind, a, S, B, 0, s)
    BY <2>1, <2>3, <2>4, <2>5, <2>6 DEF Allocated
  <2> QED
    BY <2>2, <2>7
<1>5. \A k \in Nat : k < n /\ k \in D => k + 1 \in D
  <2> SUFFICES ASSUME NEW k \in Nat, k < n, k \in D PROVE k + 1 \in D
    OBVIOUS
  <2>1. k + 1 \in 0 .. n
    OBVIOUS
  <2>2. PICK s : s = f[k]
    OBVIOUS
  <2>3. Allocated(kind, a, S, B, k, s)
    BY <2>2
  <2>4. Allocated(kind, a, S, B, k + 1, IF s.thrown THEN s ELSE Allocate(kind, s))
    BY <2>3, AllocatedMore
  <2> QED
    BY <1>3, <2>1, <2>2, <2>4
<1> HIDE DEF D
<1>6. n \in D
  BY <1>4, <1>5, Upwards
<1> QED
  BY <1>1, <1>6 DEF D

-----------------------------------------------------------------------------
\* The lists.  Their inductive invariant: every allocator is good, the memory
\* is what the lists should hold, and each block malloced is free or belongs
\* to exactly one list.

ListRecords == [alive : {"no", "yes", "moved"}, kind : Kinds, nodes : Seq(Places), allocator : Allocators]

\* The blocks a list frees when it is destroyed.
BlocksOf(r) == Held(r.kind, r.allocator, Range(r.nodes))

GoodList(r) ==
  /\ r.alive = "yes" => GoodAllocator(r.kind, r.allocator, Range(r.nodes))
  /\ r.alive # "yes" => r.nodes = <<>> /\ r.allocator.owned = <<>>
  /\ r.alive = "moved" => r.allocator.cur # 0
  /\ \A i, j \in 1 .. Len(r.nodes) : r.nodes[i] = r.nodes[j] => i = j

GoodLists ==
  /\ lists \in [Lists -> ListRecords]
  /\ \A l \in Lists : GoodList(lists[l])

Remembered ==
  /\ content \in [Lists -> Seq(NodeValues)]
  /\ \A l \in Lists :
         /\ Len(content[l]) = Len(lists[l].nodes)
         /\ \A k \in 1 .. Len(lists[l].nodes) :
              lists[l].nodes[k] \in DOMAIN memory /\ content[l][k] = memory[lists[l].nodes[k]]

\* How often malloc has been called.
Mallocs == Cardinality(DOMAIN frees)

Ownership ==
  /\ Mallocs \in Nat /\ frees \in [1 .. Mallocs -> 0 .. 1]
  /\ \A l \in Lists : \A b \in BlocksOf(lists[l]) : b \in 1 .. Mallocs /\ frees[b] = 0
  /\ \A l, m \in Lists : l # m => BlocksOf(lists[l]) \cap BlocksOf(lists[m]) = {}
  /\ \A b \in 1 .. Mallocs :
       frees[b] = 0 => \E l \in Lists : lists[l].alive = "yes" /\ b \in BlocksOf(lists[l])

ListInv == GoodLists /\ Remembered /\ Ownership

\* List l, now r, owns what it did and the blocks malloced meanwhile.
LEMMA OwnershipGrows ==
  ASSUME lists \in [Lists -> ListRecords], Ownership, NEW l \in Lists, NEW r, r.alive = "yes",
         NEW B2 \in Nat, B2 >= Mallocs,
         BlocksOf(r) = BlocksOf(lists[l]) \cup (Mallocs + 1 .. B2),
         lists' = [lists EXCEPT ![l] = r],
         frees' = [b \in 1 .. B2 |-> IF b \in DOMAIN frees THEN frees[b] ELSE 0]
  PROVE  Ownership'
<1>1. PICK B : B = Mallocs
  OBVIOUS
<1>2. B \in Nat /\ B2 >= B /\ frees \in [1 .. B -> 0 .. 1] /\ DOMAIN frees = 1 .. B
  BY <1>1 DEF Ownership
<1>3. DOMAIN frees' = 1 .. B2
  OBVIOUS
<1>4. Mallocs' = B2
  <2>1. Cardinality(1 .. B2) = IF 1 > B2 THEN 0 ELSE B2 - 1 + 1
    BY FS_Interval
  <2> QED
    BY <1>3, <2>1 DEF Mallocs
<1>5. /\ \A b \in 1 .. B : b \in 1 .. B2 /\ frees'[b] = frees[b]
      /\ \A b \in 1 .. B2 : b \in 1 .. B \/ b \in B + 1 .. B2
      /\ \A b \in B + 1 .. B2 : b \in 1 .. B2 /\ b \notin 1 .. B /\ frees'[b] = 0
  BY <1>2
<1>6. frees' \in [1 .. B2 -> 0 .. 1]
  BY <1>2, <1>5
<1> DEFINE O(m) == BlocksOf(lists[m])
           P(m) == BlocksOf(lists'[m])
<1>7. /\ lists'[l] = r /\ P(l) = O(l) \cup (B + 1 .. B2)
      /\ \A m \in Lists : m # l => lists'[m] = lists[m] /\ P(m) = O(m)
  BY <1>1
<1>8. /\ \A m \in Lists : \A b \in O(m) : b \in 1 .. B /\ frees[b] = 0
      /\ \A k, m \in Lists : k # m => O(k) \cap O(m) = {}
      /\ \A b \in 1 .. B : frees[b] = 0 => \E m \in Lists : lists[m].alive = "yes" /\ b \in O(m)
  BY <1>1 DEF Ownership
<1> HIDE DEF O, P
<1>9. \A m \in Lists : \A b \in P(m) : b \in 1 .. B2 /\ frees'[b] = 0
  <2> SUFFICES ASSUME NEW m \in Lists, NEW b \in P(m) PROVE b \in 1 .. B2 /\ frees'[b] = 0
    OBVIOUS
  <2>1. b \in O(m) \/ b \in B + 1 .. B2
    BY ONLY <1>7, m \in Lists, b \in P(m), l \in Lists, Zenon
  <2>2. CASE b \in O(m)
    <3>1. b \in 1 .. B /\ frees[b] = 0
      BY <1>8, <2>2
    <3> QED
      BY <1>5, <3>1
  <2>3. CASE b \in B + 1 .. B2
    BY <1>5, <2>3
  <2> QED
    BY <2>1, <2>2, <2>3
<1>10. \A k, m \in Lists : k # m => P(k) \cap P(m) = {}
  <2>1. ASSUME NEW m \in Lists, m # l PROVE P(l) \cap P(m) = {}
    <3>1. PICK N : N = B + 1 .. B2
      OBVIOUS
    <3>2. \A b \in O(m) : b \notin N
      BY <1>5, <1>8, <3>1
    <3>3. P(l) = O(l) \cup N /\ P(m) = O(m) /\ O(l) \cap O(m) = {}
      BY <1>7, <1>8, <2>1, <3>1
    <3> QED
      BY ONLY <3>2, <3>3
  <2>2. ASSUME NEW k \in Lists, NEW m \in Lists, k # m, k # l, m # l PROVE P(k) \cap P(m) = {}
    BY <1>7, <1>8, <2>2
  <2> QED
    BY <2>1, <2>2
<1>11. ASSUME NEW b \in 1 .. B2, frees'[b] = 0
       PROVE  \E m \in Lists : lists'[m].alive = "yes" /\ b \in P(m)
  <2>1. CASE b \in B + 1 .. B2
    BY <1>7, <2>1
  <2>2. CASE b \in 1 .. B
    <3>1. PICK m \in Lists : lists[m].alive = "yes" /\ b \in O(m)
      BY <1>5, <1>8, <1>11, <2>2
    <3>2. lists'[m].alive = "yes" /\ b \in P(m)
      BY <1>7, <3>1
    <3> QED
      BY <3>2
  <2> QED
    BY <1>5, <2>1, <2>2
<1> QED
  BY <1>4, <1>6, <1>9, <1>10, <1>11 DEF Ownership, P

\* Blocks are freed, those malloced for an object that never lived or those of
\* a list that is destroyed.
LEMMA OwnershipShrinks ==
  ASSUME Ownership, NEW B2 \in Nat, B2 >= Mallocs, NEW gone,
         \A b \in gone \cap (1 .. Mallocs) : frees[b] = 0,
         Mallocs + 1 .. B2 \subseteq gone,
         frees' = [b \in 1 .. B2 |-> IF b \in gone THEN 1 ELSE frees[b]],
         \A m \in Lists : BlocksOf(lists'[m]) = BlocksOf(lists[m]) \ gone,
         \A m \in Lists : lists'[m].alive = "yes" \/ lists[m].alive # "yes" \/ BlocksOf(lists[m]) \subseteq gone
  PROVE  Ownership'
<1>1. PICK B : B = Mallocs
  OBVIOUS
<1>2. B \in Nat /\ B2 >= B /\ frees \in [1 .. B -> 0 .. 1] /\ DOMAIN frees = 1 .. B
  BY <1>1 DEF Ownership
<1>3. DOMAIN frees' = 1 .. B2
  OBVIOUS
<1>4. Mallocs' = B2
  <2>1. Cardinality(1 .. B2) = IF 1 > B2 THEN 0 ELSE B2 - 1 + 1
    BY FS_Interval
  <2> QED
    BY <1>3, <2>1 DEF Mallocs
<1>5. \A b \in 1 .. B2 : b \in gone \/ b \in 1 .. B
  BY <1>1, <1>2
<1>6. \A b \in 1 .. B : b \in 1 .. B2
  BY <1>2
<1>7. \A b \in 1 .. B2 : frees'[b] = IF b \in gone THEN 1 ELSE frees[b]
  OBVIOUS
<1>8. frees' \in [1 .. B2 -> 0 .. 1]
  BY <1>2, <1>3, <1>5, <1>7
<1> DEFINE O(m) == BlocksOf(lists[m])
           P(m) == BlocksOf(lists'[m])
<1>9. /\ \A m \in Lists : P(m) = O(m) \ gone
      /\ \A m \in Lists : lists'[m].alive = "yes" \/ lists[m].alive # "yes" \/ O(m) \subseteq gone
  OBVIOUS
<1>10. /\ \A m \in Lists : \A b \in O(m) : b \in 1 .. B /\ frees[b] = 0
       /\ \A k, m \in Lists : k # m => O(k) \cap O(m) = {}
       /\ \A b \in 1 .. B : frees[b] = 0 => \E m \in Lists : lists[m].alive = "yes" /\ b \in O(m)
  BY <1>1 DEF Ownership
<1> HIDE DEF O, P
<1>11. \A m \in Lists : \A b \in P(m) : b \in 1 .. B2 /\ frees'[b] = 0
  BY <1>6, <1>7, <1>9, <1>10
<1>12. \A k, m \in Lists : k # m => P(k) \cap P(m) = {}
  BY <1>9, <1>10
<1>13. ASSUME NEW b \in 1 .. B2, frees'[b] = 0
       PROVE  \E m \in Lists : lists'[m].alive = "yes" /\ b \in P(m)
  <2>1. b \notin gone /\ b \in 1 .. B /\ frees[b] = 0
    BY <1>5, <1>7, <1>13
  <2>2. PICK m \in Lists : lists[m].alive = "yes" /\ b \in O(m)
    BY <1>10, <2>1
  <2>3. lists'[m].alive = "yes" /\ b \in P(m)
    BY <1>9, <2>1, <2>2
  <2> QED
    BY <2>3
<1> QED
  BY <1>4, <1>8, <1>11, <1>12, <1>13 DEF Ownership, P

\* A list takes over the blocks of another.
LEMMA OwnershipMoves ==
  ASSUME Ownership, NEW l \in Lists, NEW other \in Lists, l # other, UNCHANGED frees,
         BlocksOf(lists[l]) = {}, BlocksOf(lists'[other]) = {},
         BlocksOf(lists'[l]) = BlocksOf(lists[other]), lists'[l].alive = lists[other].alive,
         \A m \in Lists \ {l, other} : lists'[m] = lists[m]
  PROVE  Ownership'
<1>1. Mallocs' = Mallocs
  BY DEF Mallocs
<1> DEFINE O(m) == BlocksOf(lists[m])
           P(m) == BlocksOf(lists'[m])
<1>2. /\ O(l) = {} /\ P(other) = {} /\ P(l) = O(other)
      /\ \A m \in Lists \ {l, other} : P(m) = O(m) /\ lists'[m].alive = lists[m].alive
  OBVIOUS
<1>3. /\ \A m \in Lists : \A b \in O(m) : b \in 1 .. Mallocs /\ frees[b] = 0
      /\ \A k, m \in Lists : k # m => O(k) \cap O(m) = {}
      /\ \A b \in 1 .. Mallocs : frees[b] = 0 => \E m \in Lists : lists[m].alive = "yes" /\ b \in O(m)
  BY DEF Ownership
<1>4. \A m \in Lists : m \in Lists \ {l, other} \/ m = l \/ m = other
  OBVIOUS
<1> HIDE DEF O, P
<1>5. \A m \in Lists : \A b \in P(m) : b \in 1 .. Mallocs /\ frees[b] = 0
  BY <1>2, <1>3, <1>4
<1>6. \A k, m \in Lists : k # m => P(k) \cap P(m) = {}
  BY <1>2, <1>3, <1>4
<1>7. ASSUME NEW b \in 1 .. Mallocs, frees[b] = 0
      PROVE  \E m \in Lists : lists'[m].alive = "yes" /\ b \in P(m)
  <2>1. PICK m \in Lists : lists[m].alive = "yes" /\ b \in O(m)
    BY <1>3, <1>7
  <2>2. CASE m = other
    BY <1>2, <2>1, <2>2
  <2>3. CASE m # other
    <3>1. m # l
      BY <1>2, <2>1
    <3> QED
      BY <1>2, <1>4, <2>1, <2>3, <3>1
  <2> QED
    BY <2>2, <2>3
<1>8. Mallocs \in Nat /\ frees \in [1 .. Mallocs -> 0 .. 1]
  BY DEF Ownership
<1> QED
  BY <1>1, <1>5, <1>6, <1>7, <1>8 DEF Ownership, P

-----------------------------------------------------------------------------
\* What the operations of a list do to the fields of its record.

LEMMA RecordFields ==
  ASSUME NEW r \in ListRecords
  PROVE  /\ r.alive \in {"no", "yes", "moved"} /\ r.kind \in Kinds
         /\ r.nodes \in Seq(Places) /\ r.allocator \in Allocators
BY DEF ListRecords

LEMMA WithAllocator ==
  ASSUME NEW L \in [Lists -> ListRecords], NEW l \in Lists, NEW a \in Allocators,
         NEW t, t = [L EXCEPT ![l].allocator = a]
  PROVE  /\ t \in [Lists -> ListRecords] /\ \A m \in Lists : m # l => t[m] = L[m]
         /\ t[l].alive = L[l].alive /\ t[l].kind = L[l].kind /\ t[l].nodes = L[l].nodes /\ t[l].allocator = a
<1>1. PICK r : r = [L[l] EXCEPT !.allocator = a]
  OBVIOUS
<1>2. r \in ListRecords /\ r.alive = L[l].alive /\ r.kind = L[l].kind /\ r.nodes = L[l].nodes /\ r.allocator = a
  <2>1. L[l] \in ListRecords
    OBVIOUS
  <2> QED
    BY <1>1, <2>1 DEF ListRecords
<1>3. t = [L EXCEPT ![l] = r]
  BY <1>1, Zenon
<1> QED
  BY <1>2, <1>3

LEMMA WithNodes ==
  ASSUME NEW L \in [Lists -> ListRecords], NEW l \in Lists, NEW n \in Seq(Places),
         NEW t, t = [L EXCEPT ![l].nodes = n]
  PROVE  /\ t \in [Lists -> ListRecords] /\ \A m \in Lists : m # l => t[m] = L[m]
         /\ t[l].alive = L[l].alive /\ t[l].kind = L[l].kind /\ t[l].nodes = n /\ t[l].allocator = L[l].allocator
<1>1. PICK r : r = [L[l] EXCEPT !.nodes = n]
  OBVIOUS
<1>2. r \in ListRecords /\ r.alive = L[l].alive /\ r.kind = L[l].kind /\ r.nodes = n /\ r.allocator = L[l].allocator
  <2>1. L[l] \in ListRecords
    OBVIOUS
  <2> QED
    BY <1>1, <2>1 DEF ListRecords
<1>3. t = [L EXCEPT ![l] = r]
  BY <1>1, Zenon
<1> QED
  BY <1>2, <1>3

LEMMA NewIsGood ==
  ASSUME NEW kind \in Kinds
  PROVE  /\ NewAllocator \in Allocators /\ NewAllocator.owned = <<>>
         /\ GoodAllocator(kind, NewAllocator, {}) /\ Held(kind, NewAllocator, {}) = {}
<1>1. <<>> \in Seq(Nat) /\ Range(<<>>) = {}
  BY EmptySeq DEF Range
<1>2. NewAllocator \in Allocators /\ NewAllocator.owned = <<>> /\ NewAllocator.cur = 0 /\ NewAllocator.used = 0
  BY <1>1 DEF NewAllocator, Allocators
<1>3. Held(kind, NewAllocator, {}) = {}
  BY <1>1, <1>2 DEF Held
<1>4. NewAllocator.used <= BlockNodes
  BY <1>2, AllocatorListAssumption
<1> QED
  BY <1>1, <1>2, <1>3, <1>4 DEF GoodAllocator

LEMMA NoListIs ==
  /\ NoList \in ListRecords /\ NoList.alive = "no" /\ NoList.kind = "std"
  /\ NoList.nodes = <<>> /\ NoList.allocator = NewAllocator
<1>1. NewAllocator \in Allocators
  BY NewIsGood DEF Kinds
<1>2. <<>> \in Seq(Places)
  BY EmptySeq
<1> HIDE DEF NewAllocator
<1> QED
  BY <1>1, <1>2 DEF NoList, ListRecords, Kinds

\* A list without nodes whose allocator owns nothing owns nothing.
LEMMA NothingHeld ==
  ASSUME NEW r, r.nodes = <<>>, r.allocator.owned = <<>>
  PROVE  BlocksOf(r) = {} /\ Range(r.nodes) = {} /\ Len(r.nodes) = 0
<1>1. Range(<<>>) = {} /\ Len(<<>>) = 0
  BY EmptySeq DEF Range
<1> QED
  BY <1>1 DEF BlocksOf, Held

\* Nodes added in front of a list's are all different if no node is in both.
LEMMA ConcatApart ==
  ASSUME NEW A, NEW p \in Seq(A), NEW q \in Seq(A),
         \A i, j \in 1 .. Len(p) : p[i] = p[j] => i = j,
         \A i, j \in 1 .. Len(q) : q[i] = q[j] => i = j,
         \A i \in 1 .. Len(p) : p[i] \notin Range(q)
  PROVE  \A i, j \in 1 .. Len(p \o q) : (p \o q)[i] = (p \o q)[j] => i = j
<1>1. /\ Len(p) \in Nat /\ Len(q) \in Nat /\ Len(p \o q) = Len(p) + Len(q)
      /\ \A i \in 1 .. Len(p) + Len(q) : (p \o q)[i] = IF i <= Len(p) THEN p[i] ELSE q[i - Len(p)]
  BY ConcatProperties, LenProperties
<1>2. \A i \in 1 .. Len(q) : q[i] \in Range(q)
  BY LenProperties DEF Range
<1> SUFFICES ASSUME NEW i \in 1 .. Len(p) + Len(q), NEW j \in 1 .. Len(p) + Len(q), (p \o q)[i] = (p \o q)[j]
             PROVE  i = j
  BY <1>1
<1>3. \A k \in 1 .. Len(p) + Len(q) :
        \/ k \in 1 .. Len(p) /\ (p \o q)[k] = p[k]
        \/ k - Len(p) \in 1 .. Len(q) /\ (p \o q)[k] = q[k - Len(p)]
  BY <1>1
<1>4. CASE i \in 1 .. Len(p) /\ j \in 1 .. Len(p)
  BY <1>1, <1>4
<1>5. CASE i - Len(p) \in 1 .. Len(q) /\ j - Len(p) \in 1 .. Len(q)
  <2>1. (p \o q)[i] = q[i - Len(p)] /\ (p \o q)[j] = q[j - Len(p)]
    BY <1>1, <1>5
  <2>2. i - Len(p) = j - Len(p)
    BY <1>5, <2>1
  <2> QED
    BY <1>1, <2>2
<1> QED
  BY <1>1, <1>2, <1>3, <1>4, <1>5

LEMMA OverrideIs ==
  ASSUME NEW f, NEW g
  PROVE  /\ DOMAIN Override(f, g) = DOMAIN f \cup DOMAIN g
         /\ \A x \in DOMAIN g : Override(f, g)[x] = g[x]
         /\ \A x \in DOMAIN f \ DOMAIN g : Override(f, g)[x] = f[x]
BY DEF Override

\* What an allocation promises, with the state of the lists it starts in.
LEMMA AllocationOfList ==
  ASSUME ListInv, NEW kind \in Kinds, NEW a \in Allocators, NEW S, NEW n \in Nat,
         GoodAllocator(kind, a, S), Held(kind, a, S) \subseteq 1 .. Mallocs,
         NEW s, s = AllocateNodes(kind, a, n)
  PROVE  /\ Allocated(kind, a, S, Mallocs, n, s) /\ s \in AllocStates
         /\ s.blocks \in Nat /\ s.nodes \in Seq(Places) /\ s.allocator \in Allocators
         /\ Len(s.nodes) \in Nat /\ DOMAIN s.nodes = 1 .. Len(s.nodes)
<1>1. Mallocs \in Nat
  BY DEF ListInv, Ownership
<1>2. Allocated(kind, a, S, Mallocs, n, s)
  BY <1>1, AllocateNodesKeep DEF Mallocs
<1>3. s \in AllocStates
  BY <1>2 DEF Allocated
<1> QED
  BY <1>2, <1>3, StateFields, LenProperties

LEMMA NodesAreHeld ==
  ASSUME ListInv, NEW m \in Lists, NEW k \in 1 .. Len(lists[m].nodes)
  PROVE  lists[m].nodes[k][1] \in BlocksOf(lists[m])
<1>1. lists[m] \in ListRecords /\ GoodList(lists[m])
  BY DEF ListInv, GoodLists
<1>2. lists[m].nodes \in Seq(Places)
  BY <1>1, RecordFields
<1>3. DOMAIN lists[m].nodes = 1 .. Len(lists[m].nodes)
  BY <1>2, LenProperties
<1>4. lists[m].nodes[k] \in Range(lists[m].nodes)
  BY <1>3 DEF Range
<1>5. lists[m].alive = "yes"
  <2> SUFFICES ASSUME lists[m].alive # "yes" PROVE FALSE
    OBVIOUS
  <2>1. lists[m].nodes = <<>>
    BY <1>1 DEF GoodList
  <2> QED
    BY <2>1, EmptySeq
<1> QED
  BY <1>1, <1>4, <1>5 DEF GoodList, GoodAllocator, BlocksOf

LEMMA EmplaceFrontStep ==
  ASSUME ListInv, NEW l \in Lists, lists[l].alive = "yes", NEW v \in NodeValues, EmplaceFront(l, v)
  PROVE  ListInv'
<1>1. PICK r0 : r0 = lists[l]
  OBVIOUS
<1>2. PICK S : S = Range(r0.nodes)
  OBVIOUS
<1>3. PICK s : s = AllocateNodes(r0.kind, r0.allocator, 1)
  OBVIOUS
<1>4. /\ lists \in [Lists -> ListRecords] /\ r0 \in ListRecords /\ r0.alive = "yes"
      /\ GoodAllocator(r0.kind, r0.allocator, S) /\ BlocksOf(r0) = Held(r0.kind, r0.allocator, S)
      /\ r0.kind \in Kinds /\ r0.allocator \in Allocators /\ r0.nodes \in Seq(Places)
  BY <1>1, <1>2, RecordFields DEF ListInv, GoodLists, GoodList, EmplaceFront, BlocksOf
<1>5. Held(r0.kind, r0.allocator, S) \subseteq 1 .. Mallocs
  BY <1>1, <1>4 DEF ListInv, Ownership
<1>6. /\ Allocated(r0.kind, r0.allocator, S, Mallocs, 1, s)
      /\ s.blocks \in Nat /\ s.nodes \in Seq(Places) /\ s.allocator \in Allocators
      /\ Len(s.nodes) \in Nat /\ DOMAIN s.nodes = 1 .. Len(s.nodes)
  BY <1>3, <1>4, <1>5, AllocationOfList
<1> DEFINE kept == IF lists[l].alive = "moved" THEN [s.allocator EXCEPT !.owned = <<>>] ELSE s.allocator
<1>7. /\ frees' = [b \in 1 .. s.blocks |-> IF b \in DOMAIN frees THEN frees[b] ELSE IF b \in {} THEN 1 ELSE 0]
      /\ lists' = [lists EXCEPT ![l].allocator = s.allocator, ![l].nodes = s.nodes \o @]
      /\ memory' = IF s.thrown THEN memory ELSE Override(memory, [n \in {s.nodes[1]} |-> v])
      /\ content' = IF s.thrown THEN content ELSE [content EXCEPT ![l] = <<v>> \o @]
  <2>1. /\ Malloced(s, {})
        /\ lists' = [lists EXCEPT ![l].allocator = kept, ![l].nodes = s.nodes \o @]
        /\ memory' = IF s.thrown THEN memory ELSE Override(memory, [n \in {s.nodes[1]} |-> v])
        /\ content' = IF s.thrown THEN content ELSE [content EXCEPT ![l] = <<v>> \o @]
    BY <1>1, <1>3, Zenon DEF EmplaceFront
  <2>2. kept = s.allocator
    OBVIOUS
  <2> HIDE DEF kept
  <2> QED
    BY <2>1, <2>2, Zenon DEF Malloced
<1> HIDE DEF kept
<1>8. PICK q : q = s.nodes \o r0.nodes
  OBVIOUS
<1>9. q \in Seq(Places)
  BY <1>4, <1>6, <1>8, ConcatProperties
<1>10. /\ lists' \in [Lists -> ListRecords] /\ \A m \in Lists : m # l => lists'[m] = lists[m]
       /\ lists'[l].alive = "yes" /\ lists'[l].kind = r0.kind /\ lists'[l].nodes = q
       /\ lists'[l].allocator = s.allocator
  <2>1. PICK L : L = [lists EXCEPT ![l].allocator = s.allocator]
    OBVIOUS
  <2>2. /\ L \in [Lists -> ListRecords] /\ \A m \in Lists : m # l => L[m] = lists[m]
        /\ L[l].alive = r0.alive /\ L[l].kind = r0.kind /\ L[l].nodes = r0.nodes /\ L[l].allocator = s.allocator
    <3>0. PICK a1 : a1 = s.allocator
      OBVIOUS
    <3>1. lists \in [Lists -> ListRecords] /\ l \in Lists /\ a1 \in Allocators
      BY <1>4, <1>6, <3>0
    <3>2. /\ L \in [Lists -> ListRecords] /\ \A m \in Lists : m # l => L[m] = lists[m]
          /\ L[l].alive = lists[l].alive /\ L[l].kind = lists[l].kind /\ L[l].nodes = lists[l].nodes
          /\ L[l].allocator = a1
      <4>1. L = [lists EXCEPT ![l].allocator = a1]
        BY <2>1, <3>0
      <4> QED
        BY ONLY <3>1, <4>1, WithAllocator
    <3> QED
      BY <1>1, <3>0, <3>2, Zenon
  <2>3. lists' = [L EXCEPT ![l].nodes = s.nodes \o L[l].nodes]
    BY <1>7, <2>1, Zenon
  <2>4. lists' = [L EXCEPT ![l].nodes = q]
    BY <1>8, <2>2, <2>3, Zenon
  <2>5. /\ lists' \in [Lists -> ListRecords] /\ \A m \in Lists : m # l => lists'[m] = L[m]
        /\ lists'[l].alive = L[l].alive /\ lists'[l].kind = L[l].kind /\ lists'[l].nodes = q
        /\ lists'[l].allocator = L[l].allocator
    <3>1. L \in [Lists -> ListRecords] /\ l \in Lists
      BY <2>2
    <3> QED
      <4>1. PICK t : t = lists'
        OBVIOUS
      <4>2. t = [L EXCEPT ![l].nodes = q]
        BY <2>4, <4>1
      <4>3. /\ t \in [Lists -> ListRecords] /\ \A m \in Lists : m # l => t[m] = L[m]
            /\ t[l].alive = L[l].alive /\ t[l].kind = L[l].kind /\ t[l].nodes = q /\ t[l].allocator = L[l].allocator
        BY ONLY <1>9, <3>1, <4>2, WithNodes
      <4> QED
        BY <4>1, <4>3
  <2> QED
    BY <1>4, <2>2, <2>5, Zenon
<1>11. PICK r : r = lists'[l]
  OBVIOUS
<1>12. Range(r.nodes) = S \cup Range(s.nodes)
  <2>1. Range(q) = Range(s.nodes) \cup Range(r0.nodes)
    BY <1>4, <1>6, <1>8, RangeConcatenation
  <2> QED
    BY <1>2, <1>10, <1>11, <2>1
<1>13. GoodAllocator(r.kind, r.allocator, Range(r.nodes))
  BY <1>6, <1>10, <1>11, <1>12 DEF Allocated
<1>14. \A i, j \in 1 .. Len(r.nodes) : r.nodes[i] = r.nodes[j] => i = j
  <2>1. \A i, j \in 1 .. Len(r0.nodes) : r0.nodes[i] = r0.nodes[j] => i = j
    BY <1>1 DEF ListInv, GoodLists, GoodList
  <2>2. /\ \A i, j \in 1 .. Len(s.nodes) : s.nodes[i] = s.nodes[j] => i = j
        /\ \A i \in 1 .. Len(s.nodes) : s.nodes[i] \notin Range(r0.nodes)
    BY <1>2, <1>6 DEF Allocated
  <2>3. \A i, j \in 1 .. Len(q) : q[i] = q[j] => i = j
    <3>1. PICK A : A = Places
      OBVIOUS
    <3>2. s.nodes \in Seq(A) /\ r0.nodes \in Seq(A)
      BY <1>4, <1>6, <3>1
    <3>3. PICK p1 : p1 = s.nodes
      OBVIOUS
    <3>4. PICK q1 : q1 = r0.nodes
      OBVIOUS
    <3>5. /\ p1 \in Seq(A) /\ q1 \in Seq(A)
          /\ \A i, j \in 1 .. Len(p1) : p1[i] = p1[j] => i = j
          /\ \A i, j \in 1 .. Len(q1) : q1[i] = q1[j] => i = j
          /\ \A i \in 1 .. Len(p1) : p1[i] \notin Range(q1)
      BY <2>1, <2>2, <3>2, <3>3, <3>4
    <3>6. \A i, j \in 1 .. Len(p1 \o q1) : (p1 \o q1)[i] = (p1 \o q1)[j] => i = j
      BY ONLY <3>5, ConcatApart
    <3> QED
      BY <1>8, <3>3, <3>4, <3>6
  <2> QED
    BY <1>10, <1>11, <2>3
<1>15. GoodLists'
  <2>1. GoodList(r)
    BY <1>10, <1>11, <1>13, <1>14 DEF GoodList
  <2>2. \A m \in Lists : GoodList(lists'[m])
    BY <1>10, <1>11, <2>1 DEF ListInv, GoodLists
  <2> QED
    BY <1>10, <2>2 DEF GoodLists
<1>16. Ownership'
  <2>1. BlocksOf(r) = BlocksOf(lists[l]) \cup (Mallocs + 1 .. s.blocks)
    BY <1>1, <1>4, <1>6, <1>10, <1>11, <1>12 DEF BlocksOf, Allocated
  <2>2. s.blocks >= Mallocs
    BY <1>6 DEF Allocated
  <2>3. frees' = [b \in 1 .. s.blocks |-> IF b \in DOMAIN frees THEN frees[b] ELSE 0]
    BY <1>7
  <2>4. lists' = [lists EXCEPT ![l] = r]
    BY <1>4, <1>10, <1>11
  <2>5. r.alive = "yes"
    BY <1>10, <1>11
  <2> QED
    BY <1>4, <1>6, <2>1, <2>2, <2>3, <2>4, <2>5, OwnershipGrows DEF ListInv
<1>17. /\ content \in [Lists -> Seq(NodeValues)]
       /\ \A m \in Lists :
              /\ Len(content[m]) = Len(lists[m].nodes)
              /\ \A k \in 1 .. Len(lists[m].nodes) :
                   lists[m].nodes[k] \in DOMAIN memory /\ content[m][k] = memory[lists[m].nodes[k]]
  BY DEF ListInv, Remembered
<1>18. CASE s.thrown
  <2>1. q = r0.nodes
    <3>1. Len(s.nodes) = 0
      BY <1>6, <1>18 DEF Allocated
    <3>2. s.nodes = <<>>
      BY <1>6, <3>1, EmptySeq
    <3> QED
      BY <1>4, <1>8, <3>2, ConcatEmptySeq
  <2>2. memory' = memory /\ content' = content
    BY <1>7, <1>18
  <2>3. \A m \in Lists : lists'[m].nodes = lists[m].nodes /\ lists'[m].alive = lists[m].alive
    BY <1>1, <1>4, <1>10, <2>1
  <2>4. \A m \in Lists :
            /\ Len(content'[m]) = Len(lists'[m].nodes)
            /\ \A k \in 1 .. Len(lists'[m].nodes) :
                 lists'[m].nodes[k] \in DOMAIN memory' /\ content'[m][k] = memory'[lists'[m].nodes[k]]
    BY <1>17, <2>2, <2>3
  <2> QED
    BY <1>15, <1>16, <1>17, <2>2, <2>4 DEF ListInv, Remembered
<1>19. CASE ~ s.thrown
  <2>1. PICK x : x = s.nodes[1]
    OBVIOUS
  <2>2. Len(s.nodes) = 1 /\ x \notin S
    BY <1>6, <1>19, <2>1 DEF Allocated
  <2>3. x \in Range(s.nodes)
    BY <1>6, <2>1, <2>2 DEF Range
  <2>4. /\ memory' = Override(memory, [n \in {x} |-> v])
        /\ content' = [content EXCEPT ![l] = <<v>> \o content[l]]
    BY <1>7, <1>19, <2>1
  <2>5. /\ DOMAIN memory' = DOMAIN memory \cup {x} /\ memory'[x] = v
        /\ \A n \in DOMAIN memory : n # x => memory'[n] = memory[n]
    <3>1. PICK g : g = [n \in {x} |-> v]
      OBVIOUS
    <3>2. DOMAIN g = {x} /\ g[x] = v /\ memory' = Override(memory, g)
      BY <2>4, <3>1
    <3>3. /\ DOMAIN Override(memory, g) = DOMAIN memory \cup DOMAIN g
          /\ \A n \in DOMAIN g : Override(memory, g)[n] = g[n]
          /\ \A n \in DOMAIN memory \ DOMAIN g : Override(memory, g)[n] = memory[n]
      BY OverrideIs
    <3> QED
      BY <3>2, <3>3
  <2>6. PICK c : c = <<v>> \o content[l]
    OBVIOUS
  <2>7. /\ c \in Seq(NodeValues) /\ Len(c) = 1 + Len(content[l])
        /\ \A k \in 1 .. 1 + Len(content[l]) : c[k] = IF k = 1 THEN v ELSE content[l][k - 1]
    <3>1. <<v>> \in Seq(NodeValues) /\ Len(<<v>>) = 1 /\ <<v>>[1] = v
      OBVIOUS
    <3>2. content[l] \in Seq(NodeValues) /\ Len(content[l]) \in Nat
      BY <1>17, LenProperties
    <3> QED
      BY <2>6, <3>1, <3>2, ConcatProperties
  <2>8. /\ content' \in [Lists -> Seq(NodeValues)] /\ content'[l] = c
        /\ \A m \in Lists : m # l => content'[m] = content[m]
    BY <1>17, <2>4, <2>6, <2>7
  <2>9. /\ Len(q) = 1 + Len(r0.nodes) /\ Len(r0.nodes) \in Nat
        /\ \A k \in 1 .. 1 + Len(r0.nodes) : q[k] = IF k = 1 THEN x ELSE r0.nodes[k - 1]
    <3>1. Len(r0.nodes) \in Nat
      BY <1>4, LenProperties
    <3>2. /\ Len(q) = Len(s.nodes) + Len(r0.nodes)
          /\ \A k \in 1 .. Len(s.nodes) + Len(r0.nodes) :
               q[k] = IF k <= Len(s.nodes) THEN s.nodes[k] ELSE r0.nodes[k - Len(s.nodes)]
      BY <1>4, <1>6, <1>8, ConcatProperties
    <3>3. \A k \in 1 .. 1 + Len(r0.nodes) : k <= 1 <=> k = 1
      BY <3>1
    <3> QED
      BY <2>1, <2>2, <3>1, <3>2, <3>3
  <2>10. ASSUME NEW m \in Lists, m # l, NEW k \in 1 .. Len(lists[m].nodes)
         PROVE  lists[m].nodes[k] # x
    <3>2. lists[m].nodes[k][1] \in BlocksOf(lists[m])
      BY <2>10, NodesAreHeld
    <3>3. x[1] \in BlocksOf(r)
      BY <1>12, <1>13, <2>3 DEF GoodAllocator, BlocksOf
    <3>4. BlocksOf(r) \cap BlocksOf(lists[m]) = {}
      BY <1>10, <1>11, <1>16, <2>10 DEF Ownership
    <3> QED
      BY <3>2, <3>3, <3>4
  <2>11. ASSUME NEW m \in Lists, m # l
         PROVE  /\ Len(content'[m]) = Len(lists'[m].nodes)
                /\ \A k \in 1 .. Len(lists'[m].nodes) :
                     lists'[m].nodes[k] \in DOMAIN memory' /\ content'[m][k] = memory'[lists'[m].nodes[k]]
    BY <1>10, <1>17, <2>5, <2>8, <2>10, <2>11
  <2>12. /\ Len(c) = Len(q)
         /\ \A k \in 1 .. Len(q) : q[k] \in DOMAIN memory' /\ c[k] = memory'[q[k]]
    <3>1. /\ Len(content[l]) = Len(r0.nodes)
          /\ \A k \in 1 .. Len(r0.nodes) : r0.nodes[k] \in DOMAIN memory /\ content[l][k] = memory[r0.nodes[k]]
      BY <1>1, <1>4, <1>17
    <3>2. Len(c) = Len(q)
      BY <2>7, <2>9, <3>1
    <3>3. ASSUME NEW k \in 1 .. Len(q)
          PROVE  q[k] \in DOMAIN memory' /\ c[k] = memory'[q[k]]
      <4>1. k \in 1 .. 1 + Len(r0.nodes) /\ k \in 1 .. 1 + Len(content[l])
        BY <2>9, <3>1
      <4>2. CASE k = 1
        <5>1. q[k] = x /\ c[k] = v
          BY <2>7, <2>9, <4>1, <4>2
        <5> QED
          BY <2>5, <5>1
      <4>3. CASE k # 1
        <5>1. PICK j : j = k - 1
          OBVIOUS
        <5>2. j \in 1 .. Len(r0.nodes)
          BY <2>9, <4>1, <4>3, <5>1
        <5>3. q[k] = r0.nodes[j] /\ c[k] = content[l][j]
          BY <2>7, <2>9, <4>1, <4>3, <5>1
        <5>4. r0.nodes[j] \in S
          <6>1. DOMAIN r0.nodes = 1 .. Len(r0.nodes)
            BY <1>4, LenProperties
          <6> QED
            BY <1>2, <5>2, <6>1 DEF Range
        <5>5. r0.nodes[j] # x /\ r0.nodes[j] \in DOMAIN memory /\ content[l][j] = memory[r0.nodes[j]]
          BY <2>2, <3>1, <5>2, <5>4
        <5> QED
          BY <2>5, <5>3, <5>5
      <4> QED
        BY <4>2, <4>3
    <3> QED
      BY <3>2, <3>3
  <2>13. Remembered'
    <3>1. \A m \in Lists :
              /\ Len(content'[m]) = Len(lists'[m].nodes)
              /\ \A k \in 1 .. Len(lists'[m].nodes) :
                   lists'[m].nodes[k] \in DOMAIN memory' /\ content'[m][k] = memory'[lists'[m].nodes[k]]
      <4> SUFFICES ASSUME NEW m \in Lists
                   PROVE  /\ Len(content'[m]) = Len(lists'[m].nodes)
                          /\ \A k \in 1 .. Len(lists'[m].nodes) :
                               lists'[m].nodes[k] \in DOMAIN memory' /\ content'[m][k] = memory'[lists'[m].nodes[k]]
        OBVIOUS
      <4>1. CASE m = l
        BY <1>10, <2>8, <2>12, <4>1
      <4>2. CASE m # l
        BY <1>10, <2>11, <4>2
      <4> QED
        BY <4>1, <4>2
    <3> QED
      BY <2>8, <3>1 DEF Remembered
  <2> QED
    BY <1>15, <1>16, <2>13 DEF ListInv
<1> QED
  BY <1>18, <1>19

\* From a list that was moved from, the flat allocator throws.
LEMMA EmplaceMovedStep ==
  ASSUME ListInv, NEW l \in Lists, lists[l].alive = "moved", NEW v \in NodeValues, EmplaceFront(l, v)
  PROVE  misused' \/ ListInv'
<1>1. PICK r : r = lists[l]
  OBVIOUS
<1>2. /\ lists \in [Lists -> ListRecords] /\ r \in ListRecords /\ r.kind \in Kinds /\ r.allocator \in Allocators
      /\ r.nodes = <<>> /\ r.allocator.owned = <<>> /\ r.allocator.cur # 0
  BY <1>1, RecordFields DEF ListInv, GoodLists, GoodList
<1>3. Mallocs \in Nat /\ frees \in [1 .. Mallocs -> 0 .. 1] /\ DOMAIN frees = 1 .. Mallocs
  BY DEF ListInv, Ownership
<1>4. PICK f : IsAllocation(r.kind, r.allocator, 1, f) /\ AllocateNodes(r.kind, r.allocator, 1) = f[1]
  BY <1>2, <1>3, AllocateNodesIs DEF Mallocs
<1>5. PICK b : b = [allocator |-> r.allocator, blocks |-> Mallocs, nodes |-> <<>>, thrown |-> FALSE]
  OBVIOUS
<1>6. b.allocator = r.allocator /\ b.blocks = Mallocs /\ b.nodes = <<>> /\ b.thrown = FALSE /\ b \in AllocStates
  <2>1. <<>> \in Seq(Places)
    BY EmptySeq
  <2>2. PICK a : a = r.allocator
    OBVIOUS
  <2>3. PICK n : n = Mallocs
    OBVIOUS
  <2>4. a \in Allocators /\ n \in Nat /\ b = [allocator |-> a, blocks |-> n, nodes |-> <<>>, thrown |-> FALSE]
    BY <1>2, <1>3, <1>5, <2>2, <2>3
  <2>5. b.allocator = a /\ b.blocks = n /\ b.nodes = <<>> /\ b.thrown = FALSE /\ b \in AllocStates
    BY ONLY <2>1, <2>4 DEF AllocStates
  <2> QED
    BY <2>2, <2>3, <2>5
<1>7. f[1] = Allocate(r.kind, b)
  <2>1. f[0] = b
    BY <1>4, <1>5 DEF IsAllocation, Mallocs
  <2>2. f[1] = IF f[0].thrown THEN f[0] ELSE Allocate(r.kind, f[0])
    <3>1. 1 \in 0 .. 1 /\ 1 # 0 /\ 1 - 1 = 0
      OBVIOUS
    <3> QED
      BY <1>4, <3>1 DEF IsAllocation
  <2> QED
    BY <1>6, <2>1, <2>2
<1>8. PICK s : s = AllocateNodes(r.kind, r.allocator, 1)
  OBVIOUS
<1>9. s = Allocate(r.kind, b)
  BY <1>4, <1>7, <1>8
<1> DEFINE kept == IF lists[l].alive = "moved" THEN [s.allocator EXCEPT !.owned = <<>>] ELSE s.allocator
<1>10. /\ misused' = (lists[l].alive = "moved" /\ ~ s.thrown)
       /\ Malloced(s, {})
       /\ lists' = [lists EXCEPT ![l].allocator = kept, ![l].nodes = s.nodes \o @]
       /\ memory' = IF s.thrown THEN memory ELSE Override(memory, [n \in {s.nodes[1]} |-> v])
       /\ content' = IF s.thrown THEN content ELSE [content EXCEPT ![l] = <<v>> \o @]
  BY <1>1, <1>8, Zenon DEF EmplaceFront
<1>11. CASE ~ s.thrown
  BY <1>10, <1>11
<1>12. CASE s.thrown
  <2>1. r.kind = "flat"
    <3>1. StdAllocate(b).thrown = FALSE /\ Take(b).thrown = FALSE /\ NextBlock(b) \in AllocStates /\ NextBlock(b).thrown = FALSE
      BY <1>6, AllocationsAre
    <3>2. Take(NextBlock(b)).thrown = FALSE
      BY <3>1, AllocationsAre
    <3>3. r.kind # "std"
      BY <1>9, <1>12, <3>1 DEF Allocate
    <3>4. ChunkAllocate(b).thrown = FALSE
      BY <3>1, <3>2 DEF ChunkAllocate
    <3> QED
      BY <1>2, <1>9, <1>12, <3>3, <3>4 DEF Allocate, Kinds
  <2>2. s = [b EXCEPT !.thrown = TRUE]
    <3>1. s = FlatAllocate(b)
      BY <1>9, <2>1 DEF Allocate
    <3>2. b.allocator.cur # 0 /\ ~ FlatFits(b.allocator)
      BY <1>2, <1>6 DEF FlatFits
    <3> QED
      BY <3>1, <3>2, Zenon DEF FlatAllocate
  <2>3. s.allocator = r.allocator /\ s.blocks = Mallocs /\ s.nodes = <<>>
    BY <1>6, <2>2, AllocationsAre
  <2>4. kept = r.allocator
    <3>1. PICK a : a = r.allocator
      OBVIOUS
    <3>2. a \in Allocators /\ a.owned = <<>> /\ s.allocator = a
      BY <1>2, <2>3, <3>1
    <3>3. [a EXCEPT !.owned = <<>>] = a
      BY ONLY <3>2 DEF Allocators
    <3> QED
      BY <3>1, <3>2, <3>3
  <2> HIDE DEF kept
  <2>5. lists' = lists
    <3>1. PICK a : a = r.allocator
      OBVIOUS
    <3>2. PICK L : L = [lists EXCEPT ![l].allocator = a]
      OBVIOUS
    <3>3. L = lists
      <4>1. [r EXCEPT !.allocator = a] = r
        BY ONLY <1>2, <3>1 DEF ListRecords
      <4>2. L = [lists EXCEPT ![l] = [lists[l] EXCEPT !.allocator = a]]
        BY <3>2, Zenon
      <4> QED
        BY <1>1, <1>2, <4>1, <4>2
    <3>4. lists' = [L EXCEPT ![l].nodes = s.nodes \o L[l].nodes]
      BY <1>10, <2>4, <3>1, <3>2, Zenon
    <3>5. <<>> \o <<>> = <<>>
      BY EmptySeq, ConcatEmptySeq
    <3>6. s.nodes \o L[l].nodes = <<>>
      BY <1>1, <1>2, <2>3, <3>3, <3>5
    <3>7. lists' = [lists EXCEPT ![l].nodes = <<>>]
      BY <3>3, <3>4, <3>6, Zenon
    <3>8. [r EXCEPT !.nodes = <<>>] = r
      BY ONLY <1>2 DEF ListRecords
    <3>9. lists' = [lists EXCEPT ![l] = [lists[l] EXCEPT !.nodes = <<>>]]
      BY <3>7, Zenon
    <3> QED
      BY <1>1, <1>2, <3>8, <3>9
  <2>6. memory' = memory /\ content' = content
    BY <1>10, <1>12
  <2>7. frees' = frees
    <3>1. frees' = [c \in 1 .. s.blocks |-> IF c \in DOMAIN frees THEN frees[c] ELSE IF c \in {} THEN 1 ELSE 0]
      BY <1>10, Zenon DEF Malloced
    <3> QED
      BY <1>3, <2>3, <3>1
  <2>8. ListInv'
    BY <2>5, <2>6, <2>7 DEF ListInv, GoodLists, Remembered, Ownership, Mallocs
  <2> QED
    BY <2>8
<1> QED
  BY <1>11, <1>12

LEMMA ConstructStep ==
  ASSUME ListInv, NEW l \in Lists, NEW kind \in Kinds, Construct(l, kind)
  PROVE  ListInv'
<1>1. PICK r : r = [NoList EXCEPT !.alive = "yes", !.kind = kind]
  OBVIOUS
<1>2. r \in ListRecords /\ r.alive = "yes" /\ r.kind = kind /\ r.nodes = <<>> /\ r.allocator = NewAllocator
  <2>1. PICK n : n = NoList
    OBVIOUS
  <2>2. PICK t : t = [n EXCEPT !.alive = "yes"]
    OBVIOUS
  <2>3. n \in ListRecords /\ n.nodes = <<>> /\ n.allocator = NewAllocator
    BY <2>1, NoListIs
  <2>4. t \in ListRecords /\ t.alive = "yes" /\ t.nodes = n.nodes /\ t.allocator = n.allocator
    BY <2>2, <2>3 DEF ListRecords
  <2>5. PICK u : u = [t EXCEPT !.kind = kind]
    OBVIOUS
  <2>6. u \in ListRecords /\ u.alive = t.alive /\ u.kind = kind /\ u.nodes = t.nodes /\ u.allocator = t.allocator
    BY <2>4, <2>5 DEF ListRecords
  <2>7. r = u
    BY <1>1, <2>1, <2>2, <2>5, Zenon
  <2> QED
    BY <2>3, <2>4, <2>6, <2>7, Zenon
<1>3. /\ lists[l].alive = "no" /\ lists' = [lists EXCEPT ![l] = r]
      /\ content' = [content EXCEPT ![l] = <<>>] /\ memory' = memory /\ frees' = frees
  BY <1>1, Zenon DEF Construct
<1>4. NewAllocator.owned = <<>> /\ GoodAllocator(kind, NewAllocator, {}) /\ Held(kind, NewAllocator, {}) = {}
  BY NewIsGood
<1>5. BlocksOf(r) = {} /\ Range(r.nodes) = {} /\ Len(r.nodes) = 0
  BY <1>2, <1>4, NothingHeld
<1>6. BlocksOf(lists[l]) = {}
  BY <1>3, NothingHeld DEF ListInv, GoodLists, GoodList
<1>7. lists \in [Lists -> ListRecords] /\ \A m \in Lists : GoodList(lists[m])
  BY DEF ListInv, GoodLists
<1>8. lists' \in [Lists -> ListRecords] /\ lists'[l] = r /\ \A m \in Lists : m # l => lists'[m] = lists[m]
  BY <1>2, <1>3, <1>7
<1>9. GoodLists'
  <2>1. 1 .. 0 = {}
    OBVIOUS
  <2>2. GoodList(r)
    BY <1>2, <1>4, <1>5, <2>1 DEF GoodList
  <2> QED
    BY <1>7, <1>8, <2>2 DEF GoodLists
<1>10. Ownership'
  <2>1. Mallocs \in Nat /\ DOMAIN frees = 1 .. Mallocs /\ frees = [b \in 1 .. Mallocs |-> frees[b]]
    BY DEF ListInv, Ownership
  <2>2. frees' = [b \in 1 .. Mallocs |-> IF b \in DOMAIN frees THEN frees[b] ELSE 0]
    BY <1>3, <2>1
  <2>3. Mallocs + 1 .. Mallocs = {} /\ Mallocs >= Mallocs
    BY <2>1
  <2>4. BlocksOf(r) = BlocksOf(lists[l]) \cup (Mallocs + 1 .. Mallocs)
    BY <1>5, <1>6, <2>3
  <2> QED
    BY <1>2, <1>3, <1>7, <2>1, <2>2, <2>3, <2>4, OwnershipGrows DEF ListInv
<1>11. Remembered'
  <2>1. /\ content \in [Lists -> Seq(NodeValues)]
        /\ \A m \in Lists :
               /\ Len(content[m]) = Len(lists[m].nodes)
               /\ \A k \in 1 .. Len(lists[m].nodes) :
                    lists[m].nodes[k] \in DOMAIN memory /\ content[m][k] = memory[lists[m].nodes[k]]
    BY DEF ListInv, Remembered
  <2>2. <<>> \in Seq(NodeValues) /\ Len(<<>>) = 0 /\ 1 .. 0 = {}
    BY EmptySeq
  <2>3. /\ content' \in [Lists -> Seq(NodeValues)] /\ content'[l] = <<>>
        /\ \A m \in Lists : m # l => content'[m] = content[m]
    BY <1>3, <2>1, <2>2
  <2>4. \A m \in Lists :
            /\ Len(content'[m]) = Len(lists'[m].nodes)
            /\ \A k \in 1 .. Len(lists'[m].nodes) :
                 lists'[m].nodes[k] \in DOMAIN memory /\ content'[m][k] = memory[lists'[m].nodes[k]]
    <3> SUFFICES ASSUME NEW m \in Lists
                 PROVE  /\ Len(content'[m]) = Len(lists'[m].nodes)
                        /\ \A k \in 1 .. Len(lists'[m].nodes) :
                             lists'[m].nodes[k] \in DOMAIN memory /\ content'[m][k] = memory[lists'[m].nodes[k]]
      OBVIOUS
    <3>1. CASE m = l
      <4>1. lists'[m] = r /\ content'[m] = <<>>
        BY <1>8, <2>3, <3>1
      <4>2. Len(lists'[m].nodes) = 0 /\ Len(content'[m]) = 0
        BY <1>5, <2>2, <4>1
      <4> QED
        BY <2>2, <4>2
    <3>2. CASE m # l
      <4>1. lists'[m] = lists[m] /\ content'[m] = content[m]
        BY <1>8, <2>3, <3>2
      <4>3. /\ Len(content[m]) = Len(lists[m].nodes)
            /\ \A k \in 1 .. Len(lists[m].nodes) :
                 lists[m].nodes[k] \in DOMAIN memory /\ content[m][k] = memory[lists[m].nodes[k]]
        BY <2>1
      <4> QED
        BY ONLY <4>1, <4>3
    <3> QED
      BY <3>1, <3>2
  <2> QED
    BY <1>3, <2>3, <2>4 DEF Remembered
<1> QED
  BY <1>9, <1>10, <1>11 DEF ListInv

LEMMA CopyStep ==
  ASSUME ListInv, NEW l \in Lists, NEW other \in Lists, NEW kind \in Kinds, CopyNodes(l, other, kind)
  PROVE  ListInv'
<1> DEFINE from == lists[other].nodes
           s == AllocateNodes(kind, NewAllocator, Len(from))
<1>1. from = lists[other].nodes
  OBVIOUS
<1>2. s = AllocateNodes(kind, NewAllocator, Len(from))
  OBVIOUS
<1> HIDE DEF from, s
<1>3. /\ lists \in [Lists -> ListRecords] /\ \A m \in Lists : GoodList(lists[m])
      /\ lists[l].alive = "no"
      /\ from \in Seq(Places) /\ Len(from) \in Nat /\ DOMAIN from = 1 .. Len(from)
  BY <1>1, RecordFields, LenProperties DEF ListInv, GoodLists, CopyNodes
<1>4. /\ Allocated(kind, NewAllocator, {}, Mallocs, Len(from), s)
      /\ s \in AllocStates /\ s.blocks \in Nat /\ s.nodes \in Seq(Places) /\ s.allocator \in Allocators
      /\ Len(s.nodes) \in Nat /\ DOMAIN s.nodes = 1 .. Len(s.nodes)
  <2>0. Len(from) \in Nat
    BY <1>3
  <2>1. PICK n \in Nat : n = Len(from)
    BY ONLY <2>0
  <2>2. /\ NewAllocator \in Allocators /\ GoodAllocator(kind, NewAllocator, {})
        /\ Held(kind, NewAllocator, {}) \subseteq 1 .. Mallocs
    BY NewIsGood
  <2> QED
    BY <1>2, <2>1, <2>2, AllocationOfList
<1>5. PICK R : R = Range(s.nodes)
  OBVIOUS
<1>6. /\ GoodAllocator(kind, s.allocator, R) /\ Held(kind, s.allocator, R) = Mallocs + 1 .. s.blocks
      /\ s.blocks >= Mallocs /\ Mallocs \in Nat
      /\ \A i, j \in 1 .. Len(s.nodes) : s.nodes[i] = s.nodes[j] => i = j
  <2>1. {} \cup Range(s.nodes) = R /\ {} \cup (Mallocs + 1 .. s.blocks) = Mallocs + 1 .. s.blocks
    BY <1>5
  <2>2. Held(kind, NewAllocator, {}) = {}
    BY NewIsGood
  <2>3. Mallocs \in Nat
    BY DEF ListInv, Ownership
  <2> QED
    BY <1>4, <2>1, <2>2, <2>3 DEF Allocated
<1>7. BlocksOf(lists[l]) = {}
  BY <1>3, NothingHeld DEF GoodList
<1>8. frees \in [1 .. Mallocs -> 0 .. 1]
  BY DEF ListInv, Ownership
<1>9. CASE s.thrown
  <2>1. PICK c : c = s.allocator.cur
    OBVIOUS
  <2>2. PICK gone : gone = Mallocs + 1 .. s.blocks
    OBVIOUS
  <2>3. gone = {c}
    <3>1. kind = "flat" /\ c # 0
      BY <1>4, <1>9, <2>1 DEF Allocated
    <3>2. Held(kind, s.allocator, R) = Range(s.allocator.owned)
      BY <3>1 DEF Held
    <3>3. Range(s.allocator.owned) \subseteq {c} /\ c \in Range(s.allocator.owned)
      BY <1>6, <2>1, <3>1 DEF GoodAllocator
    <3> QED
      BY <1>6, <2>2, <3>2, <3>3
  <2>4. /\ frees' = [b \in 1 .. s.blocks |-> IF b \in DOMAIN frees THEN frees[b] ELSE IF b \in {c} THEN 1 ELSE 0]
        /\ lists' = lists /\ memory' = memory /\ content' = content
    BY <1>1, <1>2, <1>9, <2>1, Zenon DEF CopyNodes, Malloced
  <2>5. PICK B \in Nat : B = Mallocs
    BY <1>6
  <2>6. PICK B2 \in Nat : B2 = s.blocks
    BY <1>4
  <2>7. /\ \A b \in gone : b \notin 1 .. B
        /\ \A b \in 1 .. B2 : b \in gone \/ b \in 1 .. B
    BY <1>6, <2>2, <2>5, <2>6
  <2>8. frees' = [b \in 1 .. B2 |-> IF b \in gone THEN 1 ELSE frees[b]]
    <3>1. \A b \in 1 .. B2 : (IF b \in DOMAIN frees THEN frees[b] ELSE IF b \in {c} THEN 1 ELSE 0)
                             = IF b \in gone THEN 1 ELSE frees[b]
      BY <1>8, <2>3, <2>5, <2>7
    <3> QED
      BY <2>4, <2>6, <3>1
  <2>9. \A m \in Lists : BlocksOf(lists'[m]) = BlocksOf(lists[m]) \ gone
    <3>1. \A m \in Lists : \A b \in BlocksOf(lists[m]) : b \in 1 .. B
      BY <2>5 DEF ListInv, Ownership
    <3>2. \A m \in Lists : BlocksOf(lists[m]) = BlocksOf(lists[m]) \ gone
      BY <2>7, <3>1
    <3>3. \A m \in Lists : lists'[m] = lists[m]
      BY <2>4
    <3> QED
      BY <3>2, <3>3
  <2>10. \A m \in Lists : lists'[m].alive = "yes" \/ lists[m].alive # "yes" \/ BlocksOf(lists[m]) \subseteq gone
    BY <2>4
  <2>11. /\ B2 >= Mallocs /\ Mallocs + 1 .. B2 \subseteq gone
         /\ \A b \in gone \cap (1 .. Mallocs) : frees[b] = 0
    BY <1>6, <2>2, <2>5, <2>6, <2>7
  <2>12. Ownership'
    BY <2>8, <2>9, <2>10, <2>11, OwnershipShrinks DEF ListInv
  <2>13. GoodLists' /\ Remembered'
    BY <2>4 DEF ListInv, GoodLists, Remembered
  <2> QED
    BY <2>12, <2>13 DEF ListInv
<1>10. CASE ~ s.thrown
  <2>1. PICK r : r = [alive |-> "yes", kind |-> kind, nodes |-> s.nodes, allocator |-> s.allocator]
    OBVIOUS
  <2>2. PICK g : g = [n \in {s.nodes[k] : k \in DOMAIN from} |->
                        memory[from[CHOOSE k \in DOMAIN from : s.nodes[k] = n]]]
    OBVIOUS
  <2>3. /\ frees' = [b \in 1 .. s.blocks |-> IF b \in DOMAIN frees THEN frees[b] ELSE IF b \in {} THEN 1 ELSE 0]
        /\ lists' = [lists EXCEPT ![l] = r] /\ memory' = Override(memory, g)
        /\ content' = [content EXCEPT ![l] = content[other]]
    BY <1>10, <2>1, <2>2, Zenon DEF CopyNodes, Malloced, from, s
  <2>4. /\ r \in ListRecords /\ r.alive = "yes" /\ r.kind = kind
        /\ r.nodes = s.nodes /\ r.allocator = s.allocator
    <3>1. PICK p : p = s.nodes
      OBVIOUS
    <3>2. PICK a : a = s.allocator
      OBVIOUS
    <3>3. p \in Seq(Places) /\ a \in Allocators /\ r = [alive |-> "yes", kind |-> kind, nodes |-> p, allocator |-> a]
      BY <1>4, <2>1, <3>1, <3>2
    <3>4. r \in ListRecords /\ r.alive = "yes" /\ r.kind = kind /\ r.nodes = p /\ r.allocator = a
      BY ONLY <3>3, kind \in Kinds DEF ListRecords
    <3> QED
      BY <3>1, <3>2, <3>4
  <2>5. lists' \in [Lists -> ListRecords] /\ lists'[l] = r /\ \A m \in Lists : m # l => lists'[m] = lists[m]
    BY <1>3, <2>3, <2>4
  <2>6. GoodLists'
    <3>1. GoodList(r)
      BY <1>5, <1>6, <2>4 DEF GoodList
    <3> QED
      BY <1>3, <2>5, <3>1 DEF GoodLists
  <2>7. BlocksOf(r) = Mallocs + 1 .. s.blocks
    BY <1>5, <1>6, <2>4 DEF BlocksOf
  <2>8. Ownership'
    <3>1. BlocksOf(r) = BlocksOf(lists[l]) \cup (Mallocs + 1 .. s.blocks)
      BY <1>7, <2>7
    <3>2. frees' = [b \in 1 .. s.blocks |-> IF b \in DOMAIN frees THEN frees[b] ELSE 0]
      BY <2>3
    <3> QED
      BY <1>3, <1>4, <1>6, <2>3, <2>4, <3>1, <3>2, OwnershipGrows DEF ListInv
  <2>9. Len(s.nodes) = Len(from)
    BY <1>4, <1>10 DEF Allocated
  <2>10. /\ DOMAIN g = R
         /\ \A k \in 1 .. Len(from) : s.nodes[k] \in R /\ g[s.nodes[k]] = memory[from[k]]
    <3>1. DOMAIN from = 1 .. Len(from) /\ DOMAIN s.nodes = 1 .. Len(from)
      BY <1>3, <1>4, <2>9
    <3>2. DOMAIN g = {s.nodes[k] : k \in DOMAIN from}
      BY <2>2
    <3>3. R = {s.nodes[k] : k \in DOMAIN from}
      BY <1>5, <3>1 DEF Range
    <3>4. ASSUME NEW k \in 1 .. Len(from)
          PROVE  s.nodes[k] \in R /\ g[s.nodes[k]] = memory[from[k]]
      <4>1. PICK n : n = s.nodes[k]
        OBVIOUS
      <4>2. n \in {s.nodes[i] : i \in DOMAIN from}
        BY <3>1, <4>1
      <4>3. g[n] = memory[from[CHOOSE j \in DOMAIN from : s.nodes[j] = n]]
        BY <2>2, <4>2
      <4>4. PICK i : i = CHOOSE j \in DOMAIN from : s.nodes[j] = n
        OBVIOUS
      <4>5. i \in DOMAIN from /\ s.nodes[i] = n
        <5>1. \E j \in DOMAIN from : s.nodes[j] = n
          BY <3>1, <4>1
        <5> QED
          BY <4>4, <5>1, Zenon
      <4>6. i = k
        BY <1>6, <2>9, <3>1, <4>1, <4>5
      <4> QED
        BY <3>3, <4>1, <4>2, <4>3, <4>4, <4>6
    <3> QED
      BY <3>2, <3>3, <3>4
  <2>11. /\ DOMAIN memory' = DOMAIN memory \cup R
         /\ \A n \in R : memory'[n] = g[n]
         /\ \A n \in DOMAIN memory \ R : memory'[n] = memory[n]
    <3>1. /\ DOMAIN Override(memory, g) = DOMAIN memory \cup DOMAIN g
          /\ \A x \in DOMAIN g : Override(memory, g)[x] = g[x]
          /\ \A x \in DOMAIN memory \ DOMAIN g : Override(memory, g)[x] = memory[x]
      BY OverrideIs
    <3> QED
      BY <2>3, <2>10, <3>1
  <2>12. ASSUME NEW m \in Lists, m # l, NEW k \in 1 .. Len(lists[m].nodes)
         PROVE  lists[m].nodes[k] \notin R
    <3>2. lists[m].nodes[k][1] \in BlocksOf(lists[m])
      BY <2>12, NodesAreHeld
    <3>3. \A x \in R : x[1] \in BlocksOf(r)
      BY <1>5, <1>6, <2>4 DEF GoodAllocator, BlocksOf
    <3>4. BlocksOf(r) \cap BlocksOf(lists[m]) = {}
      BY <2>5, <2>8, <2>12 DEF Ownership
    <3> QED
      BY <3>2, <3>3, <3>4
  <2>13. /\ content \in [Lists -> Seq(NodeValues)]
         /\ \A m \in Lists :
                /\ Len(content[m]) = Len(lists[m].nodes)
                /\ \A k \in 1 .. Len(lists[m].nodes) :
                     lists[m].nodes[k] \in DOMAIN memory /\ content[m][k] = memory[lists[m].nodes[k]]
    BY DEF ListInv, Remembered
  <2>14. /\ content' \in [Lists -> Seq(NodeValues)] /\ content'[l] = content[other]
         /\ \A m \in Lists : m # l => content'[m] = content[m]
    BY <2>3, <2>13
  <2>15. \A m \in Lists :
             /\ Len(content'[m]) = Len(lists'[m].nodes)
             /\ \A k \in 1 .. Len(lists'[m].nodes) :
                  lists'[m].nodes[k] \in DOMAIN memory' /\ content'[m][k] = memory'[lists'[m].nodes[k]]
    <3> SUFFICES ASSUME NEW m \in Lists
                 PROVE  /\ Len(content'[m]) = Len(lists'[m].nodes)
                        /\ \A k \in 1 .. Len(lists'[m].nodes) :
                             lists'[m].nodes[k] \in DOMAIN memory' /\ content'[m][k] = memory'[lists'[m].nodes[k]]
      OBVIOUS
    <3>1. CASE m = l
      <4>1. /\ Len(content[other]) = Len(from)
            /\ \A k \in 1 .. Len(from) : content[other][k] = memory[from[k]]
        BY <1>1, <1>3, <2>13
      <4>2. lists'[m].nodes = s.nodes /\ content'[m] = content[other]
        BY <2>4, <2>5, <2>14, <3>1
      <4>3. \A k \in 1 .. Len(from) : s.nodes[k] \in DOMAIN memory' /\ memory'[s.nodes[k]] = memory[from[k]]
        BY <2>10, <2>11
      <4> QED
        BY <2>9, <4>1, <4>2, <4>3
    <3>2. CASE m # l
      <4>1. lists'[m] = lists[m] /\ content'[m] = content[m]
        BY <2>5, <2>14, <3>2
      <4>2. /\ Len(content[m]) = Len(lists[m].nodes)
            /\ \A k \in 1 .. Len(lists[m].nodes) :
                 /\ lists[m].nodes[k] \in DOMAIN memory /\ lists[m].nodes[k] \notin R
                 /\ content[m][k] = memory[lists[m].nodes[k]]
        BY <2>12, <2>13, <3>2, <4>1
      <4>3. \A k \in 1 .. Len(lists[m].nodes) :
              lists[m].nodes[k] \in DOMAIN memory' /\ memory'[lists[m].nodes[k]] = memory[lists[m].nodes[k]]
        BY <2>11, <4>2
      <4> QED
        BY <4>1, <4>2, <4>3
    <3> QED
      BY <3>1, <3>2
  <2>16. Remembered'
    BY <2>14, <2>15 DEF Remembered
  <2> QED
    BY <2>6, <2>8, <2>16 DEF ListInv
<1> QED
  BY <1>9, <1>10

LEMMA MoveStep ==
  ASSUME ListInv, NEW l \in Lists, NEW other \in Lists, l # other, MoveList(l, other)
  PROVE  ListInv'
<1>1. PICK r : r = lists[other]
  OBVIOUS
<1>2. PICK a : a = MovedFrom(r.allocator)
  OBVIOUS
<1>3. /\ lists \in [Lists -> ListRecords] /\ \A m \in Lists : GoodList(lists[m])
      /\ lists[l].alive = "no" /\ r.alive # "no" /\ r \in ListRecords
      /\ r.allocator \in Allocators /\ r.kind \in Kinds
  BY <1>1, RecordFields DEF ListInv, GoodLists, MoveList
<1>4. /\ a \in Allocators /\ a.owned = <<>>
      /\ a.cur = r.allocator.cur /\ a.used = r.allocator.used
  <2>1. PICK b : b = r.allocator
    OBVIOUS
  <2>2. b \in Allocators /\ a = [b EXCEPT !.owned = <<>>]
    BY <1>2, <1>3, <2>1 DEF MovedFrom
  <2>3. <<>> \in Seq(Nat)
    BY EmptySeq
  <2>4. a \in Allocators /\ a.owned = <<>> /\ a.cur = b.cur /\ a.used = b.used
    BY ONLY <2>2, <2>3 DEF Allocators
  <2> QED
    BY <2>1, <2>4
<1> DEFINE left == IF r.allocator.cur = 0 THEN "yes" ELSE "moved"
<1>0. left \in {"no", "yes", "moved"}
  OBVIOUS
<1> HIDE DEF left
<1>5. /\ lists' \in [Lists -> ListRecords] /\ lists'[l] = r
      /\ lists'[other].alive = left /\ lists'[other].kind = r.kind
      /\ lists'[other].nodes = <<>> /\ lists'[other].allocator = a
      /\ \A m \in Lists \ {l, other} : lists'[m] = lists[m]
  <2>1. PICK L1 : L1 = [lists EXCEPT ![l] = r]
    OBVIOUS
  <2>2. PICK r2 : r2 = [r EXCEPT !.alive = left]
    OBVIOUS
  <2>3. PICK r3 : r3 = [r2 EXCEPT !.nodes = <<>>]
    OBVIOUS
  <2>4. PICK r4 : r4 = [r3 EXCEPT !.allocator = a]
    OBVIOUS
  <2>5. L1 \in [Lists -> ListRecords] /\ L1[l] = r /\ \A m \in Lists \ {l} : L1[m] = lists[m]
    BY <1>3, <2>1
  <2>6. r2 \in ListRecords /\ r2.alive = left /\ r2.kind = r.kind /\ r2.allocator = r.allocator
    BY ONLY <1>0, <1>3, <2>2 DEF ListRecords
  <2>7. r3 \in ListRecords /\ r3.alive = left /\ r3.kind = r.kind /\ r3.nodes = <<>> /\ r3.allocator = r.allocator
    <3>1. <<>> \in Seq(Places)
      BY EmptySeq
    <3> QED
      BY ONLY <2>3, <2>6, <3>1 DEF ListRecords
  <2>8. r4 \in ListRecords /\ r4.alive = left /\ r4.kind = r.kind /\ r4.nodes = <<>> /\ r4.allocator = a
    BY ONLY <1>4, <2>4, <2>7 DEF ListRecords
  <2>9. lists' = [L1 EXCEPT ![other] = r4]
    <3>1. PICK L2 : L2 = [L1 EXCEPT ![other].alive = left]
      OBVIOUS
    <3>2. PICK L3 : L3 = [L2 EXCEPT ![other].nodes = <<>>]
      OBVIOUS
    <3>3. lists' = [L3 EXCEPT ![other].allocator = MovedFrom(L3[other].allocator)]
      BY <1>1, <2>1, <3>1, <3>2, Zenon DEF MoveList, left
    <3>4. L1[other] = r
      BY <1>1, <2>5
    <3>5. L2 = [L1 EXCEPT ![other] = r2]
      BY <2>2, <3>1, <3>4, Zenon
    <3>6. L2[other] = r2 /\ \A x : [L2 EXCEPT ![other] = x] = [L1 EXCEPT ![other] = x]
      BY <2>5, <3>5
    <3>7. L3 = [L1 EXCEPT ![other] = r3]
      BY <2>3, <3>2, <3>6, Zenon
    <3>8. L3[other] = r3 /\ \A x : [L3 EXCEPT ![other] = x] = [L1 EXCEPT ![other] = x]
      BY <2>5, <3>7
    <3>9. lists' = [L3 EXCEPT ![other] = r4]
      BY <1>2, <2>4, <2>7, <3>3, <3>8, Zenon
    <3> QED
      BY <3>8, <3>9, Zenon
  <2> QED
    BY <2>5, <2>8, <2>9
<1>6. /\ content' = [content EXCEPT ![l] = content[other], ![other] = <<>>]
      /\ memory' = memory /\ frees' = frees
  BY DEF MoveList
<1>7. BlocksOf(lists'[other]) = {} /\ Len(lists'[other].nodes) = 0
  BY <1>4, <1>5, NothingHeld
<1>8. BlocksOf(lists[l]) = {}
  BY <1>3, NothingHeld DEF GoodList
<1>9. GoodLists'
  <2>1. GoodList(lists'[l])
    BY <1>1, <1>3, <1>5
  <2>2. GoodList(lists'[other])
    <3>1. 1 .. 0 = {} /\ Range(<<>>) = {}
      BY EmptySeq DEF Range
    \* An allocator without a block, as all of std::allocator's, is as new.
    <3>2. ASSUME left = "yes"
          PROVE  GoodAllocator(r.kind, a, {})
      <4>1. r.allocator.cur = 0
        BY <3>2 DEF left
      <4>2. r.alive = "yes"
        BY <1>1, <1>3, <4>1, RecordFields DEF GoodList
      <4>3. GoodAllocator(r.kind, r.allocator, Range(r.nodes))
        BY <1>1, <1>3, <4>2 DEF GoodList
      <4>4. a.cur = 0
        BY <1>4, <4>1
      <4> QED
        BY <1>4, <3>1, <4>3, <4>4 DEF GoodAllocator
    <3>3. left = "moved" => a.cur # 0
      BY <1>4 DEF left
    <3> QED
      BY <1>4, <1>5, <1>7, <3>1, <3>2, <3>3 DEF GoodList
  <2>3. \A m \in Lists : GoodList(lists'[m])
    BY <1>3, <1>5, <2>1, <2>2
  <2> QED
    BY <1>5, <2>3 DEF GoodLists
<1>10. Ownership'
  BY <1>1, <1>3, <1>5, <1>6, <1>7, <1>8, OwnershipMoves DEF ListInv
<1>11. Remembered'
  <2>1. /\ content \in [Lists -> Seq(NodeValues)]
        /\ \A m \in Lists :
               /\ Len(content[m]) = Len(lists[m].nodes)
               /\ \A k \in 1 .. Len(lists[m].nodes) :
                    lists[m].nodes[k] \in DOMAIN memory /\ content[m][k] = memory[lists[m].nodes[k]]
    BY DEF ListInv, Remembered
  <2>2. /\ content' \in [Lists -> Seq(NodeValues)] /\ content'[l] = content[other]
        /\ \A m \in Lists \ {l, other} : content'[m] = content[m]
    <3>1. <<>> \in Seq(NodeValues)
      BY EmptySeq
    <3> QED
      BY <1>6, <2>1, <3>1
  <2>3. \A m \in Lists :
            /\ Len(content'[m]) = Len(lists'[m].nodes)
            /\ \A k \in 1 .. Len(lists'[m].nodes) :
                 lists'[m].nodes[k] \in DOMAIN memory /\ content'[m][k] = memory[lists'[m].nodes[k]]
    <3> SUFFICES ASSUME NEW m \in Lists
                 PROVE  /\ Len(content'[m]) = Len(lists'[m].nodes)
                        /\ \A k \in 1 .. Len(lists'[m].nodes) :
                             lists'[m].nodes[k] \in DOMAIN memory /\ content'[m][k] = memory[lists'[m].nodes[k]]
      OBVIOUS
    <3>1. CASE m = l
      <4>1. lists'[m] = lists[other] /\ content'[m] = content[other]
        BY <1>1, <1>5, <2>2, <3>1
      <4> QED
        BY <2>1, <4>1
    <3>2. CASE m = other
      <4>1. content'[m] = <<>> /\ Len(<<>>) = 0 /\ 1 .. 0 = {}
        BY <1>6, <2>1, <3>2, EmptySeq
      <4> QED
        BY <1>7, <3>2, <4>1
    <3>3. CASE m \in Lists \ {l, other}
      <4>1. lists'[m] = lists[m] /\ content'[m] = content[m]
        BY <1>5, <2>2, <3>3
      <4> QED
        BY <2>1, <4>1
    <3> QED
      BY <3>1, <3>2, <3>3
  <2> QED
    BY <1>6, <2>2, <2>3 DEF Remembered
<1> QED
  BY <1>9, <1>10, <1>11 DEF ListInv

LEMMA NoListIsGood ==
  BlocksOf(NoList) = {} /\ Len(NoList.nodes) = 0 /\ GoodList(NoList)
<1>1. NewAllocator.owned = <<>>
  BY NewIsGood DEF Kinds
<1>2. NoList.alive = "no" /\ NoList.nodes = <<>> /\ NoList.allocator.owned = <<>>
  BY <1>1, NoListIs
<1>3. PICK r : r = NoList
  OBVIOUS
<1>4. BlocksOf(r) = {} /\ Len(r.nodes) = 0
  BY <1>2, <1>3, NothingHeld
<1>5. GoodList(r)
  <2>1. 1 .. 0 = {}
    OBVIOUS
  <2> QED
    BY <1>2, <1>3, <1>4, <2>1 DEF GoodList
<1> QED
  BY <1>3, <1>4, <1>5

LEMMA DestroyStep ==
  ASSUME ListInv, NEW l \in Lists, DestroyList(l)
  PROVE  ListInv'
<1>1. PICK r : r = lists[l]
  OBVIOUS
<1>2. PICK gone : gone = BlocksOf(r)
  OBVIOUS
<1>3. /\ lists \in [Lists -> ListRecords] /\ \A m \in Lists : GoodList(lists[m])
      /\ r \in ListRecords /\ r.nodes \in Seq(Places) /\ r.allocator \in Allocators
  BY <1>1, RecordFields DEF ListInv, GoodLists
<1>4. gone = IF r.kind = "std" THEN {r.nodes[k][1] : k \in DOMAIN r.nodes}
             ELSE {r.allocator.owned[k] : k \in DOMAIN r.allocator.owned}
  BY <1>2 DEF BlocksOf, Held, Range
<1>5. /\ frees' = [b \in DOMAIN frees |-> IF b \in gone THEN frees[b] + 1 ELSE frees[b]]
      /\ lists' = [lists EXCEPT ![l] = NoList] /\ content' = [content EXCEPT ![l] = <<>>]
      /\ memory' = memory
  BY <1>1, <1>4, Zenon DEF DestroyList
<1>6. /\ Mallocs \in Nat /\ frees \in [1 .. Mallocs -> 0 .. 1]
      /\ \A b \in gone : b \in 1 .. Mallocs /\ frees[b] = 0
      /\ \A m \in Lists : m # l => BlocksOf(lists[m]) \cap gone = {}
  <2>1. BlocksOf(lists[l]) = gone
    BY <1>1, <1>2
  <2>2. /\ Mallocs \in Nat /\ frees \in [1 .. Mallocs -> 0 .. 1]
        /\ \A b \in BlocksOf(lists[l]) : b \in 1 .. Mallocs /\ frees[b] = 0
        /\ \A m \in Lists : m # l => BlocksOf(lists[m]) \cap BlocksOf(lists[l]) = {}
    BY DEF ListInv, Ownership
  <2> QED
    BY <2>1, <2>2
<1>7. BlocksOf(NoList) = {} /\ Len(NoList.nodes) = 0 /\ GoodList(NoList)
  BY NoListIsGood
<1>8. lists' \in [Lists -> ListRecords] /\ lists'[l] = NoList /\ \A m \in Lists : m # l => lists'[m] = lists[m]
  BY <1>3, <1>5, NoListIs
<1>9. GoodLists'
  <2>1. \A m \in Lists : GoodList(lists'[m])
    BY <1>3, <1>7, <1>8
  <2> QED
    BY <1>8, <2>1 DEF GoodLists
<1>10. Ownership'
  <2>1. PICK B \in Nat : B = Mallocs
    BY <1>6
  <2>2. frees' = [b \in 1 .. B |-> IF b \in gone THEN 1 ELSE frees[b]]
    <3>1. DOMAIN frees = 1 .. B
      BY <1>6, <2>1
    <3>2. \A b \in 1 .. B : (IF b \in gone THEN frees[b] + 1 ELSE frees[b]) = IF b \in gone THEN 1 ELSE frees[b]
      BY <1>6, <2>1
    <3> QED
      BY <1>5, <3>1, <3>2
  <2>3. \A m \in Lists : BlocksOf(lists'[m]) = BlocksOf(lists[m]) \ gone
    <3> SUFFICES ASSUME NEW m \in Lists PROVE BlocksOf(lists'[m]) = BlocksOf(lists[m]) \ gone
      OBVIOUS
    <3>1. CASE m = l
      <4>1. BlocksOf(lists'[m]) = {} /\ BlocksOf(lists[m]) = gone
        BY <1>1, <1>2, <1>7, <1>8, <3>1
      <4> QED
        BY <4>1
    <3>2. CASE m # l
      <4>1. BlocksOf(lists'[m]) = BlocksOf(lists[m]) /\ BlocksOf(lists[m]) \cap gone = {}
        BY <1>6, <1>8, <3>2
      <4> QED
        BY <4>1
    <3> QED
      BY <3>1, <3>2
  <2>4. \A m \in Lists : lists'[m].alive = "yes" \/ lists[m].alive # "yes" \/ BlocksOf(lists[m]) \subseteq gone
    BY <1>1, <1>2, <1>8
  <2>5. B >= Mallocs /\ Mallocs + 1 .. B \subseteq gone /\ \A b \in gone \cap (1 .. Mallocs) : frees[b] = 0
    BY <1>6, <2>1
  <2> QED
    BY <2>2, <2>3, <2>4, <2>5, OwnershipShrinks DEF ListInv
<1>11. Remembered'
  <2>1. /\ content \in [Lists -> Seq(NodeValues)]
        /\ \A m \in Lists :
               /\ Len(content[m]) = Len(lists[m].nodes)
               /\ \A k \in 1 .. Len(lists[m].nodes) :
                    lists[m].nodes[k] \in DOMAIN memory /\ content[m][k] = memory[lists[m].nodes[k]]
    BY DEF ListInv, Remembered
  <2>2. content' \in [Lists -> Seq(NodeValues)] /\ \A m \in Lists : m # l => content'[m] = content[m]
    <3>1. <<>> \in Seq(NodeValues)
      BY EmptySeq
    <3> QED
      BY <1>5, <2>1, <3>1
  <2>3. content'[l] = <<>> /\ Len(<<>>) = 0 /\ 1 .. 0 = {}
    BY <1>5, <2>1, EmptySeq
  <2>4. \A m \in Lists :
            /\ Len(content'[m]) = Len(lists'[m].nodes)
            /\ \A k \in 1 .. Len(lists'[m].nodes) :
                 lists'[m].nodes[k] \in DOMAIN memory /\ content'[m][k] = memory[lists'[m].nodes[k]]
    <3> SUFFICES ASSUME NEW m \in Lists
                 PROVE  /\ Len(content'[m]) = Len(lists'[m].nodes)
                        /\ \A k \in 1 .. Len(lists'[m].nodes) :
                             lists'[m].nodes[k] \in DOMAIN memory /\ content'[m][k] = memory[lists'[m].nodes[k]]
      OBVIOUS
    <3>1. CASE m = l
      BY <1>7, <1>8, <2>3, <3>1
    <3>2. CASE m # l
      <4>1. lists'[m] = lists[m] /\ content'[m] = content[m]
        BY <1>8, <2>2, <3>2
      <4> QED
        BY <2>1, <4>1
    <3> QED
      BY <3>1, <3>2
  <2> QED
    BY <1>5, <2>2, <2>4 DEF Remembered
<1> QED
  BY <1>9, <1>10, <1>11 DEF ListInv

LEMMA ListInitially ==
  ASSUME ListInit
  PROVE  ListInv
<1>1. /\ lists = [l \in Lists |-> NoList] /\ DOMAIN frees = {}
      /\ content = [l \in Lists |-> <<>>] /\ frees = [b \in {} |-> 0]
  BY DEF ListInit, Nothing
<1>2. /\ \A l \in Lists : lists[l] = NoList
      /\ BlocksOf(NoList) = {} /\ GoodList(NoList) /\ NoList.alive = "no" /\ NoList \in ListRecords
  BY <1>1, NoListIs, NoListIsGood
<1>3. GoodLists
  <2>1. lists \in [Lists -> ListRecords]
    BY <1>1, <1>2
  <2> QED
    BY <1>2, <2>1 DEF GoodLists
<1>4. Remembered
  <2>1. content \in [Lists -> Seq(NodeValues)]
    BY <1>1, EmptySeq
  <2>2. Len(NoList.nodes) = 0 /\ Len(<<>>) = 0 /\ 1 .. 0 = {}
    BY NoListIsGood, EmptySeq
  <2>3. \A l \in Lists : Len(content[l]) = 0 /\ Len(lists[l].nodes) = 0
    BY <1>1, <1>2, <2>2
  <2> QED
    BY <2>1, <2>2, <2>3 DEF Remembered
<1>5. Ownership
  <2>1. Mallocs = 0
    BY <1>1, FS_EmptySet DEF Mallocs
  <2>2. 1 .. 0 = {} /\ frees \in [1 .. 0 -> 0 .. 1]
    BY <1>1
  <2> QED
    BY <1>2, <2>1, <2>2 DEF Ownership
<1> QED
  BY <1>3, <1>4, <1>5 DEF ListInv

\* Whatever the lists do, every list's nodes are within good blocks of its own
\* and hold what was put there, and each block has one owner or was freed once,
\* until an allocator that was moved from gives out another's memory.
THEOREM ListInvariant == ListSpec => [](misused \/ ListInv)
<1>1. ListInit => misused \/ ListInv
  BY ListInitially
<1>2. (misused \/ ListInv) /\ [ListNext]_listVars => (misused \/ ListInv)'
  <2>0. ASSUME misused, [ListNext]_listVars PROVE misused'
    BY <2>0 DEF ListNext, listVars
  <2> SUFFICES ASSUME ListInv, [ListNext]_listVars PROVE misused' \/ ListInv'
    BY <2>0
  <2>1. ASSUME NEW l \in Lists, NEW kind \in Kinds, Construct(l, kind) PROVE ListInv'
    BY <2>1, ConstructStep
  <2>2. ASSUME NEW l \in Lists, NEW v \in NodeValues, EmplaceFront(l, v) PROVE misused' \/ ListInv'
    <3>1. lists[l].alive = "yes" \/ lists[l].alive = "moved"
      BY <2>2, RecordFields DEF EmplaceFront, ListInv, GoodLists
    <3> QED
      BY <2>2, <3>1, EmplaceFrontStep, EmplaceMovedStep
  <2>3. ASSUME NEW l \in Lists, NEW other \in Lists \ {l}, CopyList(l, other) PROVE ListInv'
    <3>1. lists[other].kind \in Kinds
      BY RecordFields DEF ListInv, GoodLists
    <3> QED
      BY <2>3, <3>1, CopyStep DEF CopyList
  <2>4. ASSUME NEW l \in Lists, NEW other \in Lists \ {l}, MoveList(l, other) PROVE ListInv'
    BY <2>4, MoveStep
  <2>5. ASSUME NEW l \in Lists, NEW other \in Lists \ {l}, NEW kind \in Kinds,
               ConvertCopy(l, other, kind) \/ ConvertMove(l, other, kind)
        PROVE  ListInv'
    BY <2>5, CopyStep DEF ConvertCopy, ConvertMove
  <2>6. ASSUME NEW l \in Lists, DestroyList(l) PROVE ListInv'
    BY <2>6, DestroyStep
  <2>7. CASE UNCHANGED listVars
    BY <2>7 DEF ListInv, GoodLists, Remembered, Ownership, Mallocs, listVars
  <2> QED
    BY <2>1, <2>2, <2>3, <2>4, <2>5, <2>6, <2>7 DEF ListNext
<1> QED
  BY <1>1, <1>2, PTL DEF ListSpec

LEMMA SoundLists ==
  ASSUME ListInv
  PROVE  ListsAreSound
<1>1. /\ lists \in [Lists -> ListRecords] /\ \A l \in Lists : GoodList(lists[l])
      /\ Mallocs \in Nat /\ frees \in [1 .. Mallocs -> 0 .. 1]
      /\ \A l \in Lists : \A b \in BlocksOf(lists[l]) : b \in 1 .. Mallocs /\ frees[b] = 0
      /\ \A l, m \in Lists : l # m => BlocksOf(lists[l]) \cap BlocksOf(lists[m]) = {}
      /\ \A b \in 1 .. Mallocs :
           frees[b] = 0 => \E l \in Lists : lists[l].alive = "yes" /\ b \in BlocksOf(lists[l])
  BY DEF ListInv, GoodLists, Ownership
<1>2. ASSUME NEW l \in Lists
      PROVE  /\ lists[l].nodes \in Seq(Places) /\ Len(lists[l].nodes) \in Nat
             /\ DOMAIN lists[l].nodes = 1 .. Len(lists[l].nodes)
             /\ \A i, j \in 1 .. Len(lists[l].nodes) : lists[l].nodes[i] = lists[l].nodes[j] => i = j
  BY <1>1, RecordFields, LenProperties DEF GoodList
<1>3. ASSUME NEW l \in Lists, NEW k \in DOMAIN lists[l].nodes
      PROVE  lists[l].nodes[k][1] \in BlocksOf(lists[l]) /\ lists[l].nodes[k][2] \in 1 .. BlockNodes
  <2>1. lists[l].nodes[k] \in Range(lists[l].nodes)
    BY DEF Range
  <2>2. GoodAllocator(lists[l].kind, lists[l].allocator, Range(lists[l].nodes))
    <3>1. lists[l].nodes # <<>>
      BY <1>2, EmptySeq
    <3> QED
      BY <1>1, <3>1 DEF GoodList
  <2>3. PICK x : x = lists[l].nodes[k]
    OBVIOUS
  <2>4. PICK S : S = Range(lists[l].nodes)
    OBVIOUS
  <2>5. x \in S /\ S \subseteq Nat \X (1 .. BlockNodes) /\ x[1] \in BlocksOf(lists[l])
    BY <2>1, <2>2, <2>3, <2>4 DEF GoodAllocator, BlocksOf
  <2>6. x[2] \in 1 .. BlockNodes
    BY ONLY <2>5
  <2> QED
    BY <2>3, <2>5, <2>6
<1>4. ASSUME NEW l \in Lists
      PROVE  content[l] = [k \in DOMAIN lists[l].nodes |-> memory[lists[l].nodes[k]]]
  <2>1. /\ content[l] \in Seq(NodeValues) /\ Len(content[l]) = Len(lists[l].nodes)
        /\ \A k \in 1 .. Len(lists[l].nodes) : content[l][k] = memory[lists[l].nodes[k]]
    BY DEF ListInv, Remembered
  <2>2. content[l] = [k \in 1 .. Len(lists[l].nodes) |-> content[l][k]]
    BY <2>1, LenProperties
  <2> QED
    BY <1>2, <2>1, <2>2
<1>5. ASSUME NEW l \in Lists, NEW k \in DOMAIN lists[l].nodes,
             NEW m \in Lists, NEW j \in DOMAIN lists[m].nodes,
             lists[l].nodes[k] = lists[m].nodes[j]
      PROVE  l = m /\ k = j
  <2>1. lists[l].nodes[k][1] \in BlocksOf(lists[l]) /\ lists[m].nodes[j][1] \in BlocksOf(lists[m])
    BY <1>3, <1>5
  <2>2. l = m
    BY <1>1, <1>5, <2>1
  <2> QED
    BY <1>2, <1>5, <2>2
<1>6. \A l \in Lists : BlocksOf(lists[l]) =
        IF lists[l].kind = "std" THEN {lists[l].nodes[k][1] : k \in DOMAIN lists[l].nodes}
        ELSE {lists[l].allocator.owned[k] : k \in DOMAIN lists[l].allocator.owned}
  BY DEF BlocksOf, Held, Range
<1>7. \A b \in DOMAIN frees : frees[b] <= 1
  BY <1>1
<1> DEFINE live == {l \in Lists : lists[l].alive # "no"}
           nodes(l) == lists[l].nodes
           blocks(l) == IF lists[l].kind = "std" THEN {nodes(l)[k][1] : k \in DOMAIN nodes(l)}
                        ELSE {lists[l].allocator.owned[k] : k \in DOMAIN lists[l].allocator.owned}
<1>8. \A l \in live :
        /\ content[l] = [k \in DOMAIN nodes(l) |-> memory[nodes(l)[k]]]
        /\ \A k \in DOMAIN nodes(l) : /\ frees[nodes(l)[k][1]] = 0
                                      /\ nodes(l)[k][2] \in 1 .. BlockNodes
                                      /\ \A m \in live : \A j \in DOMAIN nodes(m) :
                                           nodes(l)[k] = nodes(m)[j] => l = m /\ k = j
  <2> SUFFICES ASSUME NEW l \in live
               PROVE  /\ content[l] = [k \in DOMAIN nodes(l) |-> memory[nodes(l)[k]]]
                      /\ \A k \in DOMAIN nodes(l) : /\ frees[nodes(l)[k][1]] = 0
                                                    /\ nodes(l)[k][2] \in 1 .. BlockNodes
                                                    /\ \A m \in live : \A j \in DOMAIN nodes(m) :
                                                         nodes(l)[k] = nodes(m)[j] => l = m /\ k = j
    OBVIOUS
  <2>1. l \in Lists
    OBVIOUS
  <2>2. ASSUME NEW k \in DOMAIN nodes(l)
        PROVE  frees[nodes(l)[k][1]] = 0 /\ nodes(l)[k][2] \in 1 .. BlockNodes
    BY <1>1, <1>3, <2>1
  <2>3. ASSUME NEW k \in DOMAIN nodes(l), NEW m \in live, NEW j \in DOMAIN nodes(m), nodes(l)[k] = nodes(m)[j]
        PROVE  l = m /\ k = j
    BY <1>5, <2>1, <2>3
  <2> QED
    BY <1>4, <2>1, <2>2, <2>3
<1>9. \A b \in DOMAIN frees : frees[b] = 0 => \E l \in live : b \in blocks(l)
  <2> SUFFICES ASSUME NEW b \in DOMAIN frees, frees[b] = 0 PROVE \E l \in live : b \in blocks(l)
    OBVIOUS
  <2>1. PICK l \in Lists : lists[l].alive = "yes" /\ b \in BlocksOf(lists[l])
    BY <1>1
  <2>2. l \in live /\ blocks(l) = BlocksOf(lists[l])
    BY <1>6, <2>1
  <2> QED
    BY <2>1, <2>2
<1> QED
  BY <1>7, <1>8, <1>9, Zenon DEF ListsAreSound

\* The lists of every kind of allocator are sound, with any number of lists,
\* nodes and blocks: no list reads a node that another one writes or that has
\* been freed, no block is freed twice and none is lost, also for copies of and
\* moves from a list that was moved from, until a chunk allocator that was moved
\* from is asked for a node (chunk_allocator.h:29-63, simple_list.h:28-100).
THEOREM ListsSound == ListSpec => []ListsAreSound
<1>1. misused \/ ListInv => ListsAreSound
  <2>1. misused => ListsAreSound
    BY Zenon DEF ListsAreSound
  <2> QED
    BY <2>1, SoundLists
<1> QED
  BY <1>1, ListInvariant, PTL

-----------------------------------------------------------------------------
\* The sparse matrices.

\* A list in the order of its keys, as the nodes of the list of lists are.
Sorted(list) == \A i, j \in 1 .. Len(list) : i < j => list[i].key < list[j].key

KeysAreNumbers(A) == \A x \in A : x.key \in Int

IsPlace(p, list, key) ==
  /\ p \in 1 .. Len(list) + 1
  /\ \A i \in 1 .. Len(list) : i < p <=> list[i].key < key
  /\ HasKey(list, key) <=> \E i \in 1 .. Len(list) : list[i].key = key
  /\ HasKey(list, key) => p \in 1 .. Len(list) /\ list[p].key = key

\* Where std::lower_bound ends in such a list.
LEMMA LowerBoundIs ==
  ASSUME NEW A, KeysAreNumbers(A), NEW list \in Seq(A), Sorted(list), NEW key \in Int,
         NEW p, p = LowerBound(list, key)
  PROVE  IsPlace(p, list, key)
<1>1. PICK n \in Nat : n = Len(list) /\ DOMAIN list = 1 .. n
  BY LenProperties
<1>2. \A i \in 1 .. n : list[i].key \in Int
  BY <1>1, ElementOfSeq DEF KeysAreNumbers
<1>3. \A i, j \in 1 .. n : i < j => list[i].key < list[j].key
  BY <1>1 DEF Sorted
<1> DEFINE T == {i \in 1 .. n + 1 : i = n + 1 \/ ~ (list[i].key < key)}
<1>4. PICK q \in T : \A y \in T : ~ (y < q)
  <2>1. T \in SUBSET Nat /\ n + 1 \in T
    OBVIOUS
  <2> HIDE DEF T
  <2> QED
    BY <2>1, LeastNumber
<1>5. q \in 1 .. n + 1 /\ (q = n + 1 \/ ~ (list[q].key < key))
  OBVIOUS
<1>6. \A i \in 1 .. n : i < q => list[i].key < key
  BY <1>4, <1>5
<1>7. \A i \in 1 .. n : q <= i => ~ (list[i].key < key)
  BY <1>2, <1>3, <1>5
<1>8. {i \in DOMAIN list : list[i].key < key} = 1 .. q - 1
  BY <1>1, <1>5, <1>6, <1>7
<1>9. Cardinality(1 .. q - 1) = q - 1
  <2>1. Cardinality(1 .. q - 1) = IF 1 > q - 1 THEN 0 ELSE q - 1 - 1 + 1
    BY <1>5, FS_Interval
  <2> QED
    BY <1>5, <2>1
<1>10. p = q
  <2>1. p = 1 + (q - 1)
    BY <1>8, <1>9, Zenon DEF LowerBound
  <2> QED
    BY <1>5, <2>1
<1>11. HasKey(list, key) <=> p <= n /\ list[p].key = key
  BY <1>1 DEF HasKey
<1> HIDE DEF T
<1>12. \A i \in 1 .. n : list[i].key = key => i = q
  <2> SUFFICES ASSUME NEW i \in 1 .. n, list[i].key = key PROVE i = q
    OBVIOUS
  <2>1. ~ (i < q)
    BY <1>2, <1>6
  <2>2. ~ (q < i)
    <3> SUFFICES ASSUME q < i PROVE FALSE
      OBVIOUS
    <3>1. q \in 1 .. n /\ ~ (list[q].key < key) /\ list[q].key < list[i].key
      BY <1>3, <1>5
    <3> QED
      BY <1>2, <3>1
  <2> QED
    BY <1>5, <2>1, <2>2
<1> QED
  BY <1>1, <1>5, <1>6, <1>7, <1>10, <1>11, <1>12 DEF IsPlace

\* t is s, of length n, with e put in at p.
Inserted(t, s, n, p, e) ==
  /\ Len(t) = n + 1
  /\ \A i \in 1 .. n : i < p => t[i] = s[i]
  /\ t[p] = e
  /\ \A i \in 1 .. n : p <= i => t[i + 1] = s[i]

LEMMA InsertAtIs ==
  ASSUME NEW A, NEW s \in Seq(A), NEW e \in A, NEW n \in Nat, n = Len(s), NEW p \in 1 .. n + 1,
         NEW t, t = InsertAt(s, p, e)
  PROVE  t \in Seq(A) /\ Inserted(t, s, n, p, e)
<1>1. n = Len(s) /\ DOMAIN s = 1 .. n /\ \A i \in 1 .. n : s[i] \in A
  BY LenProperties, ElementOfSeq
<1>2. p \in 1 .. n + 1
  BY <1>1
<1>3. PICK u : u = SubSeq(s, 1, p - 1)
  OBVIOUS
<1>4. u \in Seq(A) /\ Len(u) = p - 1 /\ \A i \in 1 .. p - 1 : u[i] = s[i]
  <2>1. \A i \in 1 .. p - 1 : s[i] \in A
    BY <1>1, <1>2
  <2>2. /\ SubSeq(s, 1, p - 1) \in Seq(A)
        /\ Len(SubSeq(s, 1, p - 1)) = IF 1 <= p - 1 THEN p - 1 - 1 + 1 ELSE 0
        /\ \A i \in 1 .. p - 1 - 1 + 1 : SubSeq(s, 1, p - 1)[i] = s[1 + i - 1]
    BY <1>2, <2>1, SubSeqProperties
  <2> QED
    BY <1>2, <1>3, <2>2
<1>5. PICK w : w = SubSeq(s, p, n)
  OBVIOUS
<1>6. w \in Seq(A) /\ Len(w) = n - p + 1 /\ \A i \in 1 .. n - p + 1 : w[i] = s[p + i - 1]
  <2>1. \A i \in p .. n : s[i] \in A
    BY <1>1, <1>2
  <2>2. /\ SubSeq(s, p, n) \in Seq(A)
        /\ Len(SubSeq(s, p, n)) = IF p <= n THEN n - p + 1 ELSE 0
        /\ \A i \in 1 .. n - p + 1 : SubSeq(s, p, n)[i] = s[p + i - 1]
    BY <1>2, <2>1, SubSeqProperties
  <2> QED
    BY <1>2, <1>5, <2>2
<1>7. PICK x : x = u \o <<e>>
  OBVIOUS
<1>8. x \in Seq(A) /\ Len(x) = p /\ \A i \in 1 .. p : x[i] = IF i < p THEN s[i] ELSE e
  <2>1. <<e>> \in Seq(A) /\ Len(<<e>>) = 1 /\ <<e>>[1] = e
    OBVIOUS
  <2>2. x \in Seq(A) /\ Len(x) = Len(u) + 1
        /\ \A i \in 1 .. Len(u) + 1 : x[i] = IF i <= Len(u) THEN u[i] ELSE <<e>>[i - Len(u)]
    BY <1>4, <1>7, <2>1, ConcatProperties
  <2>3. \A i \in 1 .. p : x[i] = IF i <= p - 1 THEN u[i] ELSE <<e>>[i - (p - 1)]
    BY <1>2, <1>4, <2>2
  <2>4. x[p] = e
    BY <1>2, <2>1, <2>3
  <2>5. ASSUME NEW i \in 1 .. p, i < p PROVE x[i] = s[i]
    BY <1>2, <1>4, <2>3, <2>5
  <2> QED
    BY <1>2, <1>4, <2>2, <2>4, <2>5
<1>9. t = x \o w
  BY <1>1, <1>3, <1>5, <1>7 DEF InsertAt
<1>10. t \in Seq(A) /\ Len(t) = Len(x) + Len(w)
       /\ \A i \in 1 .. Len(x) + Len(w) : t[i] = IF i <= Len(x) THEN x[i] ELSE w[i - Len(x)]
  <2>1. x \in Seq(A) /\ w \in Seq(A) /\ t = x \o w
    BY <1>6, <1>8, <1>9
  <2> QED
    BY ONLY <2>1, ConcatProperties
<1>11. Len(t) = n + 1
  BY <1>2, <1>6, <1>8, <1>10
<1>12. \A i \in 1 .. n + 1 : t[i] = IF i <= p THEN x[i] ELSE w[i - p]
  BY <1>2, <1>6, <1>8, <1>10
<1>13. t[p] = e
  BY <1>2, <1>8, <1>12
<1>14. ASSUME NEW i \in 1 .. n, i < p PROVE t[i] = s[i]
  <2>1. i \in 1 .. n + 1 /\ i \in 1 .. p /\ i <= p
    BY <1>2, <1>14
  <2> QED
    BY <1>8, <1>12, <1>14, <2>1
<1>15. ASSUME NEW i \in 1 .. n, p <= i PROVE t[i + 1] = s[i]
  <2>1. PICK j \in 1 .. n - p + 1 : j = i + 1 - p
    BY <1>2, <1>15
  <2>2. w[j] = s[i]
    <3>1. p + j - 1 = i
      BY <1>2, <2>1
    <3>2. w[j] = s[p + j - 1]
      BY ONLY <1>6
    <3> QED
      BY <3>1, <3>2
  <2>3. t[i + 1] = w[j]
    <3>1. i + 1 \in 1 .. n + 1 /\ ~ (i + 1 <= p) /\ i + 1 - p = j
      BY <1>2, <1>15, <2>1
    <3> QED
      BY <1>12, <3>1
  <2> QED
    BY <2>2, <2>3
<1> QED
  BY <1>10, <1>11, <1>13, <1>14, <1>15 DEF Inserted

\* What follows place p has moved up by one.
MovedUp(t, s, p) == \A i \in 1 .. Len(s) - 1 : t[i] = IF i < p THEN s[i] ELSE s[i + 1]

LEMMA RemoveAtIs ==
  ASSUME NEW A, NEW s \in Seq(A), NEW p \in 1 .. Len(s), NEW t, t = RemoveAt(s, p)
  PROVE  t \in Seq(A) /\ Len(t) = Len(s) - 1 /\ MovedUp(t, s, p)
<1>1. PICK n \in Nat : n = Len(s) /\ DOMAIN s = 1 .. n /\ \A i \in 1 .. n : s[i] \in A
  BY LenProperties, ElementOfSeq
<1>2. p \in 1 .. n
  BY <1>1
<1>3. PICK u : u = SubSeq(s, 1, p - 1)
  OBVIOUS
<1>4. u \in Seq(A) /\ Len(u) = p - 1 /\ \A i \in 1 .. p - 1 : u[i] = s[i]
  <2>1. \A i \in 1 .. p - 1 : s[i] \in A
    BY <1>1, <1>2
  <2>2. /\ SubSeq(s, 1, p - 1) \in Seq(A)
        /\ Len(SubSeq(s, 1, p - 1)) = IF 1 <= p - 1 THEN p - 1 - 1 + 1 ELSE 0
        /\ \A i \in 1 .. p - 1 - 1 + 1 : SubSeq(s, 1, p - 1)[i] = s[1 + i - 1]
    BY <1>2, <2>1, SubSeqProperties
  <2> QED
    BY <1>2, <1>3, <2>2
<1>5. PICK w : w = SubSeq(s, p + 1, n)
  OBVIOUS
<1>6. w \in Seq(A) /\ Len(w) = n - p /\ \A i \in 1 .. n - p : w[i] = s[p + i]
  <2>1. \A i \in p + 1 .. n : s[i] \in A
    BY <1>1, <1>2
  <2>2. /\ SubSeq(s, p + 1, n) \in Seq(A)
        /\ Len(SubSeq(s, p + 1, n)) = IF p + 1 <= n THEN n - (p + 1) + 1 ELSE 0
        /\ \A i \in 1 .. n - (p + 1) + 1 : SubSeq(s, p + 1, n)[i] = s[p + 1 + i - 1]
    BY <1>2, <2>1, SubSeqProperties
  <2> QED
    BY <1>2, <1>5, <2>2
<1>7. t = u \o w
  BY <1>1, <1>3, <1>5 DEF RemoveAt
<1>8. t \in Seq(A) /\ Len(t) = Len(u) + Len(w)
      /\ \A i \in 1 .. Len(u) + Len(w) : t[i] = IF i <= Len(u) THEN u[i] ELSE w[i - Len(u)]
  <2>1. u \in Seq(A) /\ w \in Seq(A) /\ t = u \o w
    BY <1>4, <1>6, <1>7
  <2> QED
    BY ONLY <2>1, ConcatProperties
<1>9. Len(t) = n - 1
  BY <1>2, <1>4, <1>6, <1>8
<1>10. ASSUME NEW i \in 1 .. n - 1
       PROVE  t[i] = IF i < p THEN s[i] ELSE s[i + 1]
  <2>1. t[i] = IF i <= p - 1 THEN u[i] ELSE w[i - (p - 1)]
    BY <1>2, <1>4, <1>6, <1>8
  <2>2. CASE i < p
    BY <1>2, <1>4, <2>1, <2>2
  <2>3. CASE i >= p
    <3>1. PICK j \in 1 .. n - p : j = i - (p - 1)
      BY <1>2, <2>3
    <3>2. w[j] = s[p + j] /\ p + j = i + 1
      BY <1>2, <1>6, <3>1
    <3> QED
      BY <1>2, <2>1, <2>3, <3>1, <3>2
  <2> QED
    BY <1>2, <2>2, <2>3
<1>11. MovedUp(t, s, p)
  BY <1>1, <1>10 DEF MovedUp
<1> QED
  BY <1>1, <1>8, <1>9, <1>11

LEMMA RangeOf ==
  ASSUME NEW A, NEW s \in Seq(A)
  PROVE  \A x : x \in Range(s) <=> \E i \in 1 .. Len(s) : s[i] = x
BY LenProperties DEF Range

LEMMA SortedUnique ==
  ASSUME NEW A, \A x \in A : x.key \in Int, NEW list \in Seq(A), Sorted(list),
         NEW x \in Range(list), NEW y \in Range(list), x.key = y.key
  PROVE  x = y
<1>1. PICK i \in 1 .. Len(list) : list[i] = x
  BY RangeOf
<1>2. PICK j \in 1 .. Len(list) : list[j] = y
  BY RangeOf
<1>3. x \in A /\ y \in A
  BY <1>1, <1>2, ElementOfSeq, LenProperties
<1>4. Len(list) \in Nat
  BY LenProperties
<1>5. ~ (i < j) /\ ~ (j < i)
  BY <1>1, <1>2, <1>3 DEF Sorted
<1>6. i = j
  BY <1>4, <1>5
<1> QED
  BY <1>1, <1>2, <1>6

\* What is put where std::lower_bound ends leaves the list in order.
LEMMA SortedInsert ==
  ASSUME NEW A, \A x \in A : x.key \in Int, NEW list \in Seq(A), Sorted(list), NEW e \in A,
         NEW k, k = e.key, ~ HasKey(list, k), NEW p, p = LowerBound(list, k),
         NEW t, t = InsertAt(list, p, e)
  PROVE  t \in Seq(A) /\ Sorted(t) /\ Range(t) = Range(list) \cup {e}
<1>1. PICK n \in Nat : n = Len(list) /\ DOMAIN list = 1 .. n /\ \A i \in 1 .. n : list[i] \in A
  BY LenProperties, ElementOfSeq
<1>2. p = LowerBound(list, k)
  OBVIOUS
<1>3. k = e.key
  OBVIOUS
<1>4. k \in Int /\ Sorted(list) /\ ~ HasKey(list, k) /\ p = LowerBound(list, k)
  BY <1>2, <1>3
<1>5. /\ p \in 1 .. n + 1
      /\ \A i \in 1 .. n : i < p <=> list[i].key < k
      /\ \A i \in 1 .. n : list[i].key # k
  <2>1. KeysAreNumbers(A)
    BY DEF KeysAreNumbers
  <2>2. IsPlace(p, list, k)
    BY <1>4, <2>1, LowerBoundIs
  <2> QED
    BY <1>1, <1>4, <2>2 DEF IsPlace
<1>6. /\ t \in Seq(A) /\ Len(t) = n + 1
      /\ \A i \in 1 .. n : i < p => t[i] = list[i]
      /\ t[p] = e
      /\ \A i \in 1 .. n : p <= i => t[i + 1] = list[i]
  <2>1. n = Len(list) /\ n \in Nat /\ p \in 1 .. n + 1 /\ t = InsertAt(list, p, e)
    BY <1>1, <1>2, <1>5
  <2>2. list \in Seq(A) /\ e \in A
    OBVIOUS
  <2>3. t \in Seq(A)
    BY ONLY <2>1, <2>2, InsertAtIs, SMTT(30)
  <2>4. Inserted(t, list, n, p, e)
    BY ONLY <2>1, <2>2, InsertAtIs, SMTT(30)
  <2> QED
    BY <2>3, <2>4 DEF Inserted
<1>7. \A i \in 1 .. n : list[i].key \in Int
  BY <1>1
<1>8. \A i, j \in 1 .. n : i < j => list[i].key < list[j].key
  BY <1>1 DEF Sorted
<1>9. /\ \A i \in 1 .. n + 1 : i < p => i \in 1 .. n /\ t[i] = list[i] /\ list[i].key < k
      /\ \A i \in 1 .. n + 1 : i = p => t[i] = e
      /\ \A i \in 1 .. n + 1 : p < i => i - 1 \in 1 .. n /\ t[i] = list[i - 1] /\ k < list[i - 1].key
  <2>1. ASSUME NEW i \in 1 .. n + 1, i < p PROVE i \in 1 .. n /\ t[i] = list[i] /\ list[i].key < k
    <3>1. i \in 1 .. n
      BY <1>5, <2>1
    <3> QED
      BY <1>5, <1>6, <2>1, <3>1
  <2>2. ASSUME NEW i \in 1 .. n + 1, p < i PROVE i - 1 \in 1 .. n /\ t[i] = list[i - 1] /\ k < list[i - 1].key
    <3>1. PICK j \in 1 .. n : j = i - 1
      BY <1>5, <2>2
    <3>2. ~ (j < p) /\ p <= j /\ i = j + 1
      BY <1>5, <2>2, <3>1
    <3>3. ~ (list[j].key < k) /\ list[j].key # k /\ list[j].key \in Int
      BY <1>5, <1>7, <3>2
    <3>4. t[i] = list[j]
      BY <1>6, <3>2
    <3> QED
      BY <1>4, <3>1, <3>3, <3>4
  <2> QED
    BY <1>6, <2>1, <2>2
<1>10. Sorted(t)
  <2> SUFFICES ASSUME NEW i \in 1 .. n + 1, NEW j \in 1 .. n + 1, i < j PROVE t[i].key < t[j].key
    BY <1>6 DEF Sorted
  <2>1. CASE j < p
    <3>1. i < p /\ i \in 1 .. n /\ j \in 1 .. n /\ t[i] = list[i] /\ t[j] = list[j]
      BY <1>5, <1>9, <2>1
    <3> QED
      BY <1>8, <3>1
  <2>2. CASE p < i
    <3>1. PICK a \in 1 .. n : a = i - 1 /\ t[i] = list[a]
      BY <1>9, <2>2
    <3>2. PICK b \in 1 .. n : b = j - 1 /\ t[j] = list[b]
      BY <1>5, <1>9, <2>2
    <3>3. a < b
      BY <3>1, <3>2
    <3> QED
      BY <1>8, <3>1, <3>2, <3>3
  <2>3. CASE i <= p /\ p <= j
    <3>1. t[i].key = k \/ (i < p /\ t[i].key < k /\ t[i].key \in Int)
      <4>1. CASE i = p
        <5>1. t[i] = e
          BY <1>9, <4>1
        <5> QED
          BY <1>3, <5>1
      <4>2. CASE i < p
        BY <1>7, <1>9, <4>2
      <4> QED
        BY <1>5, <2>3, <4>1, <4>2
    <3>2. t[j].key = k \/ (p < j /\ k < t[j].key /\ t[j].key \in Int)
      BY <1>3, <1>5, <1>7, <1>9, <2>3
    <3>3. ~ (t[i].key = k /\ t[j].key = k) \/ i < p \/ p < j
      BY <1>5, <2>3
    <3>4. i < p => t[i].key < k /\ t[i].key \in Int
      BY <1>7, <1>9
    <3>5. p < j => k < t[j].key /\ t[j].key \in Int
      BY <1>7, <1>9
    <3> QED
      BY <1>4, <1>5, <3>1, <3>2, <3>4, <3>5
  <2> QED
    BY <1>5, <2>1, <2>2, <2>3
<1>11. ASSUME NEW x PROVE x \in Range(t) <=> x \in Range(list) \/ x = e
  <2>1. x \in Range(t) <=> \E i \in 1 .. n + 1 : t[i] = x
    BY <1>6, RangeOf
  <2>2. x \in Range(list) <=> \E i \in 1 .. n : list[i] = x
    BY <1>1, RangeOf
  <2>3. ASSUME NEW i \in 1 .. n + 1, t[i] = x PROVE x \in Range(list) \/ x = e
    BY <1>5, <1>9, <2>2, <2>3
  <2>4. ASSUME NEW i \in 1 .. n, list[i] = x PROVE x \in Range(t)
    <3>1. CASE i < p
      <4>1. i \in 1 .. n + 1
        OBVIOUS
      <4> QED
        BY <1>9, <2>1, <2>4, <3>1, <4>1
    <3>2. CASE ~ (i < p)
      <4>1. PICK j \in 1 .. n + 1 : j = i + 1
        OBVIOUS
      <4>2. p < j /\ j - 1 = i
        BY <1>5, <3>2, <4>1
      <4>3. t[j] = list[i]
        BY <1>9, <4>2
      <4> QED
        BY <2>1, <2>4, <4>3
    <3> QED
      BY <3>1, <3>2
  <2>5. x = e => x \in Range(t)
    BY <1>5, <1>9, <2>1
  <2> QED
    BY <2>1, <2>2, <2>3, <2>4, <2>5
<1> QED
  BY <1>6, <1>10, <1>11

LEMMA SortedRemove ==
  ASSUME NEW A, \A x \in A : x.key \in Int, NEW list \in Seq(A), Sorted(list),
         NEW p \in 1 .. Len(list), NEW t, t = RemoveAt(list, p)
  PROVE  t \in Seq(A) /\ Sorted(t) /\ Range(t) = Range(list) \ {list[p]}
<1>1. PICK n \in Nat : n = Len(list) /\ DOMAIN list = 1 .. n /\ \A i \in 1 .. n : list[i] \in A
  BY LenProperties, ElementOfSeq
<1>2. /\ t \in Seq(A) /\ Len(t) = n - 1 /\ p \in 1 .. n
      /\ \A i \in 1 .. n - 1 : t[i] = IF i < p THEN list[i] ELSE list[i + 1]
  <2>1. t \in Seq(A)
    BY ONLY list \in Seq(A), p \in 1 .. Len(list), t = RemoveAt(list, p), RemoveAtIs
  <2>2. Len(t) = Len(list) - 1
    BY ONLY list \in Seq(A), p \in 1 .. Len(list), t = RemoveAt(list, p), RemoveAtIs
  <2>3. \A i \in 1 .. Len(list) - 1 : t[i] = IF i < p THEN list[i] ELSE list[i + 1]
    <3>1. MovedUp(t, list, p)
      BY ONLY list \in Seq(A), p \in 1 .. Len(list), t = RemoveAt(list, p), RemoveAtIs
    <3> QED
      BY ONLY <3>1 DEF MovedUp
  <2>4. n = Len(list)
    BY <1>1
  <2> QED
    BY ONLY <2>1, <2>2, <2>3, <2>4, p \in 1 .. Len(list)
<1>3. \A i \in 1 .. n : list[i].key \in Int
  BY <1>1
<1>4. \A i, j \in 1 .. n : i < j => list[i].key < list[j].key
  BY <1>1 DEF Sorted
<1>5. \A i, j \in 1 .. n : list[i] = list[j] => i = j
  BY <1>3, <1>4
<1>6. \A i \in 1 .. n - 1 : \E a \in 1 .. n : a = (IF i < p THEN i ELSE i + 1) /\ t[i] = list[a] /\ a # p
  BY <1>2
<1>7. Sorted(t)
  <2> SUFFICES ASSUME NEW i \in 1 .. n - 1, NEW j \in 1 .. n - 1, i < j PROVE t[i].key < t[j].key
    BY <1>2 DEF Sorted
  <2>1. PICK a \in 1 .. n : a = (IF i < p THEN i ELSE i + 1) /\ t[i] = list[a]
    BY <1>6
  <2>2. PICK b \in 1 .. n : b = (IF j < p THEN j ELSE j + 1) /\ t[j] = list[b]
    BY <1>6
  <2>3. a < b
    BY <1>2, <2>1, <2>2
  <2> QED
    BY <1>4, <2>1, <2>2, <2>3
<1>8. ASSUME NEW x PROVE x \in Range(t) <=> x \in Range(list) /\ x # list[p]
  <2>1. x \in Range(t) <=> \E i \in 1 .. n - 1 : t[i] = x
    BY <1>2, RangeOf
  <2>2. x \in Range(list) <=> \E i \in 1 .. n : list[i] = x
    BY <1>1, RangeOf
  <2>3. ASSUME NEW i \in 1 .. n - 1, t[i] = x PROVE x \in Range(list) /\ x # list[p]
    <3>1. PICK a \in 1 .. n : t[i] = list[a] /\ a # p
      BY <1>6
    <3> QED
      BY <1>2, <1>5, <2>2, <2>3, <3>1
  <2>4. ASSUME NEW i \in 1 .. n, list[i] = x, x # list[p] PROVE x \in Range(t)
    <3>1. i # p
      BY <2>4
    <3>2. CASE i < p
      <4>1. i \in 1 .. n - 1 /\ t[i] = list[i]
        BY <1>2, <3>2
      <4> QED
        BY <2>1, <2>4, <4>1
    <3>3. CASE p < i
      <4>1. PICK j \in 1 .. n - 1 : j = i - 1
        BY <1>2, <3>3
      <4>2. ~ (j < p) /\ j + 1 = i
        BY <1>2, <3>3, <4>1
      <4>3. t[j] = list[i]
        BY <1>2, <4>2
      <4> QED
        BY <2>1, <2>4, <4>3
    <3> QED
      BY <1>2, <3>1, <3>2, <3>3
  <2> QED
    BY <2>1, <2>2, <2>3, <2>4
<1> QED
  BY <1>2, <1>7, <1>8

LEMMA SortedReplace ==
  ASSUME NEW A, \A x \in A : x.key \in Int, NEW list \in Seq(A), Sorted(list),
         NEW p \in 1 .. Len(list), NEW e \in A, e.key = list[p].key, NEW t, t = ReplaceAt(list, p, e)
  PROVE  t \in Seq(A) /\ Sorted(t) /\ Range(t) = (Range(list) \ {list[p]}) \cup {e}
<1>1. PICK n \in Nat : n = Len(list) /\ DOMAIN list = 1 .. n /\ \A i \in 1 .. n : list[i] \in A
  BY LenProperties, ElementOfSeq
<1>2. /\ t \in Seq(A) /\ Len(t) = n /\ p \in 1 .. n
      /\ \A i \in 1 .. n : t[i] = IF i = p THEN e ELSE list[i]
  BY <1>1, ExceptSeq DEF ReplaceAt
<1>3. \A i \in 1 .. n : list[i].key \in Int
  BY <1>1
<1>4. \A i, j \in 1 .. n : i < j => list[i].key < list[j].key
  BY <1>1 DEF Sorted
<1>5. \A i, j \in 1 .. n : list[i] = list[j] => i = j
  BY <1>3, <1>4
<1>6. \A i \in 1 .. n : t[i].key = list[i].key
  BY <1>2
<1>7. Sorted(t)
  BY <1>2, <1>4, <1>6 DEF Sorted
<1>8. ASSUME NEW x PROVE x \in Range(t) <=> (x \in Range(list) /\ x # list[p]) \/ x = e
  <2>1. x \in Range(t) <=> \E i \in 1 .. n : t[i] = x
    <3>1. x \in Range(t) <=> \E i \in 1 .. Len(t) : t[i] = x
      BY ONLY <1>2, RangeOf
    <3> QED
      BY <1>2, <3>1
  <2>2. x \in Range(list) <=> \E i \in 1 .. n : list[i] = x
    BY <1>1, RangeOf
  <2> QED
    BY <1>2, <1>5, <2>1, <2>2
<1> QED
  BY <1>2, <1>7, <1>8

-----------------------------------------------------------------------------
\* The list of lists.

ColNodes == [key : 0 .. MaxColumn, val : CellValues]
RowNodes == [key : 0 .. MaxRow, column : Seq(ColNodes)]

GoodColumn(column) == column \in Seq(ColNodes) /\ Sorted(column) /\ \A n \in Range(column) : n.val # zero_value

GoodRows(data) == data \in Seq(RowNodes) /\ Sorted(data) /\ \A row \in Range(data) : GoodColumn(row.column)

\* Only the row k may be without cells.
FullBut(data, k) == \A row \in Range(data) : row.column = <<>> => row.key = k
Full(data) == \A row \in Range(data) : row.column # <<>>

\* A column and a list of rows, as the values they hold.
Has(column, c, v) == \E n \in Range(column) : n.key = c /\ n.val = v
Holds(data, r, c, v) == \E row \in Range(data) : row.key = r /\ Has(row.column, c, v)

LEMMA NodesAre ==
  /\ \A n \in ColNodes : n.key \in Int /\ n.key \in 0 .. MaxColumn /\ n.val \in CellValues
  /\ \A row \in RowNodes : row.key \in Int /\ row.key \in 0 .. MaxRow /\ row.column \in Seq(ColNodes)
<1>1. \A x \in 0 .. MaxColumn : x \in Int
  BY SparseMatrixAssumption
<1>2. \A x \in 0 .. MaxRow : x \in Int
  BY SparseMatrixAssumption
<1> QED
  BY <1>1, <1>2 DEF ColNodes, RowNodes

\* std::lower_bound in a column, and what it finds.
LEMMA FindColumn ==
  ASSUME NEW column, GoodColumn(column), NEW c \in 0 .. MaxColumn, NEW p, p = LowerBound(column, c)
  PROVE  /\ HasKey(column, c) <=> \E v : Has(column, c, v)
         /\ HasKey(column, c) => /\ p \in 1 .. Len(column) /\ column[p] \in ColNodes /\ column[p].key = c
                                 /\ column[p].val # zero_value
                                 /\ \A v : Has(column, c, v) <=> v = column[p].val
<1>1. /\ column \in Seq(ColNodes) /\ Sorted(column) /\ \A n \in Range(column) : n.val # zero_value
      /\ \A n \in ColNodes : n.key \in Int
      /\ c \in Int
  BY NodesAre, SparseMatrixAssumption DEF GoodColumn
<1>2. /\ HasKey(column, c) <=> \E i \in 1 .. Len(column) : column[i].key = c
      /\ HasKey(column, c) => p \in 1 .. Len(column) /\ column[p].key = c
  <2>1. KeysAreNumbers(ColNodes)
    BY <1>1 DEF KeysAreNumbers
  <2>2. IsPlace(p, column, c)
    BY <1>1, <2>1, LowerBoundIs
  <2> QED
    BY <2>2 DEF IsPlace
<1>3. \A x : x \in Range(column) <=> \E i \in 1 .. Len(column) : column[i] = x
  BY <1>1, RangeOf
<1>4. (\E i \in 1 .. Len(column) : column[i].key = c) <=> \E v : Has(column, c, v)
  BY <1>3, Zenon DEF Has
<1>5. ASSUME HasKey(column, c)
      PROVE  /\ p \in 1 .. Len(column) /\ column[p] \in ColNodes /\ column[p].key = c
             /\ column[p].val # zero_value
             /\ \A v : Has(column, c, v) <=> v = column[p].val
  <2>1. p \in 1 .. Len(column) /\ column[p].key = c
    BY <1>2, <1>5
  <2>2. PICK x : x = column[p]
    OBVIOUS
  <2>3. x \in Range(column) /\ x \in ColNodes /\ x.key = c
    BY <1>1, <1>3, <2>1, <2>2, ElementOfSeq
  <2>4. \A n \in Range(column) : n.key = c => n = x
    BY <1>1, <2>3, SortedUnique
  <2>5. \A v : Has(column, c, v) <=> v = x.val
    BY <2>3, <2>4 DEF Has
  <2> QED
    BY <1>1, <2>1, <2>2, <2>3, <2>5
<1> QED
  BY <1>2, <1>4, <1>5

LEMMA FindRow ==
  ASSUME NEW data, GoodRows(data), NEW r \in 0 .. MaxRow, NEW p, p = LowerBound(data, r)
  PROVE  /\ HasKey(data, r) => /\ p \in 1 .. Len(data) /\ data[p] \in RowNodes /\ data[p] \in Range(data)
                               /\ data[p].key = r /\ GoodColumn(data[p].column)
                               /\ \A c, v : Holds(data, r, c, v) <=> Has(data[p].column, c, v)
         /\ ~ HasKey(data, r) => \A c, v : ~ Holds(data, r, c, v)
<1>1. /\ data \in Seq(RowNodes) /\ Sorted(data) /\ \A row \in Range(data) : GoodColumn(row.column)
      /\ \A row \in RowNodes : row.key \in Int
      /\ r \in Int
  BY NodesAre, SparseMatrixAssumption DEF GoodRows
<1>2. /\ HasKey(data, r) <=> \E i \in 1 .. Len(data) : data[i].key = r
      /\ HasKey(data, r) => p \in 1 .. Len(data) /\ data[p].key = r
  <2>1. KeysAreNumbers(RowNodes)
    BY <1>1 DEF KeysAreNumbers
  <2>2. IsPlace(p, data, r)
    BY <1>1, <2>1, LowerBoundIs
  <2> QED
    BY <2>2 DEF IsPlace
<1>3. \A x : x \in Range(data) <=> \E i \in 1 .. Len(data) : data[i] = x
  BY <1>1, RangeOf
<1>4. ~ HasKey(data, r) => \A c, v : ~ Holds(data, r, c, v)
  BY <1>2, <1>3, Zenon DEF Holds
<1>5. ASSUME HasKey(data, r)
      PROVE  /\ p \in 1 .. Len(data) /\ data[p] \in RowNodes /\ data[p] \in Range(data)
             /\ data[p].key = r /\ GoodColumn(data[p].column)
             /\ \A c, v : Holds(data, r, c, v) <=> Has(data[p].column, c, v)
  <2>1. p \in 1 .. Len(data) /\ data[p].key = r
    BY <1>2, <1>5
  <2>2. PICK x : x = data[p]
    OBVIOUS
  <2>3. x \in Range(data) /\ x \in RowNodes /\ x.key = r
    BY <1>1, <1>3, <2>1, <2>2, ElementOfSeq
  <2>4. \A row \in Range(data) : row.key = r => row = x
    BY <1>1, <2>3, SortedUnique
  <2>5. \A c, v : Holds(data, r, c, v) <=> Has(x.column, c, v)
    BY <2>3, <2>4, Zenon DEF Holds
  <2> QED
    BY <1>1, <2>1, <2>2, <2>3, <2>5
<1> QED
  BY <1>4, <1>5

\* A read gives the value the lists hold, the default one if there is none.
LEMMA LilValueIs ==
  ASSUME NEW data, GoodRows(data), NEW r \in 0 .. MaxRow, NEW c \in 0 .. MaxColumn, NEW w, w = LilValue(data, r, c)
  PROVE  \/ w = zero_value /\ \A v : ~ Holds(data, r, c, v)
         \/ w # zero_value /\ \A v : Holds(data, r, c, v) <=> v = w
<1>1. CASE ~ HasKey(data, r)
  <2>1. w = zero_value
    BY <1>1 DEF LilValue
  <2> QED
    BY <1>1, <2>1, FindRow
<1>2. CASE HasKey(data, r)
  <2>1. PICK p : p = LowerBound(data, r)
    OBVIOUS
  <2>2. PICK column : column = data[p].column
    OBVIOUS
  <2>3. GoodColumn(column) /\ \A v : Holds(data, r, c, v) <=> Has(column, c, v)
    BY <1>2, <2>1, <2>2, FindRow
  <2>4. w = IF HasKey(column, c) THEN column[LowerBound(column, c)].val ELSE zero_value
    BY <1>2, <2>1, <2>2, Zenon DEF LilValue
  <2>5. PICK q : q = LowerBound(column, c)
    OBVIOUS
  <2>6. /\ HasKey(column, c) <=> \E v : Has(column, c, v)
        /\ HasKey(column, c) => column[q].val # zero_value /\ \A v : Has(column, c, v) <=> v = column[q].val
    BY <2>3, <2>5, FindColumn
  <2> QED
    BY <2>3, <2>4, <2>5, <2>6
<1> QED
  BY <1>1, <1>2

\* A row whose column becomes another.
RowWith(data, at, column) == [data EXCEPT ![at].column = column]

LEMMA WithColumn ==
  ASSUME NEW data, GoodRows(data), NEW at \in 1 .. Len(data), NEW column, GoodColumn(column),
         NEW key, key = data[at].key, NEW t, t = RowWith(data, at, column)
  PROVE  /\ GoodRows(t)
         /\ \A r, c, v : r = key => (Holds(t, r, c, v) <=> Has(column, c, v))
         /\ \A r, c, v : r # key => (Holds(t, r, c, v) <=> Holds(data, r, c, v))
         /\ column # <<>> /\ FullBut(data, key) => Full(t)
<1>1. /\ data \in Seq(RowNodes) /\ Sorted(data) /\ \A row \in Range(data) : GoodColumn(row.column)
      /\ \A row \in RowNodes : row.key \in Int
      /\ column \in Seq(ColNodes)
  BY NodesAre DEF GoodRows, GoodColumn
<1>2. PICK x : x = data[at]
  OBVIOUS
<1>3. x \in RowNodes /\ x \in Range(data)
  <2>1. DOMAIN data = 1 .. Len(data)
    BY <1>1, LenProperties
  <2> QED
    BY <1>1, <1>2, <2>1, ElementOfSeq DEF Range
<1>4. PICK e : e = [x EXCEPT !.column = column]
  OBVIOUS
<1>5. e \in RowNodes /\ e.key = x.key /\ e.column = column
  BY ONLY <1>1, <1>3, <1>4 DEF RowNodes
<1>6. t = ReplaceAt(data, at, e)
  BY <1>2, <1>4, Zenon DEF ReplaceAt, RowWith
<1>7. t \in Seq(RowNodes) /\ Sorted(t) /\ Range(t) = (Range(data) \ {x}) \cup {e}
  <2>1. PICK A : A = RowNodes
    OBVIOUS
  <2>2. /\ \A y \in A : y.key \in Int
        /\ data \in Seq(A) /\ Sorted(data) /\ at \in 1 .. Len(data) /\ e \in A /\ e.key = data[at].key
        /\ t = ReplaceAt(data, at, e)
    BY <1>1, <1>2, <1>5, <1>6, <2>1
  <2>3. t \in Seq(A)
    BY ONLY <2>2, SortedReplace
  <2>4. Sorted(t)
    BY ONLY <2>2, SortedReplace
  <2>5. Range(t) = (Range(data) \ {data[at]}) \cup {e}
    BY ONLY <2>2, SortedReplace
  <2> QED
    BY <1>2, <2>1, <2>3, <2>4, <2>5
<1>8. \A y \in Range(data) : y.key = x.key => y = x
  BY <1>1, <1>3, SortedUnique
<1>9. GoodRows(t)
  BY <1>1, <1>5, <1>7 DEF GoodRows
<1>10. ASSUME NEW r, NEW c, NEW v
       PROVE  /\ r = x.key => (Holds(t, r, c, v) <=> Has(column, c, v))
              /\ r # x.key => (Holds(t, r, c, v) <=> Holds(data, r, c, v))
  <2>1. CASE r = x.key
    <3>1. \A y \in Range(t) : y.key = r => y = e
      BY <1>7, <1>8, <2>1
    <3> QED
      BY <1>5, <1>7, <2>1, <3>1, Zenon DEF Holds
  <2>2. CASE r # x.key
    BY <1>5, <1>7, <2>2, Zenon DEF Holds
  <2> QED
    BY <2>1, <2>2
<1>11. ASSUME column # <<>>, FullBut(data, x.key)
       PROVE  Full(t)
  BY <1>5, <1>7, <1>8, <1>11 DEF Full, FullBut
<1> QED
  BY <1>2, <1>9, <1>10, <1>11

\* add_value's first half: the row is there, as the only one that may be empty.
LEMMA WithRowIs ==
  ASSUME NEW data, GoodRows(data), Full(data), NEW r \in 0 .. MaxRow, NEW t, t = WithRow(data, r)
  PROVE  /\ GoodRows(t) /\ HasKey(t, r) /\ FullBut(t, r)
         /\ \A k, c, v : Holds(t, k, c, v) <=> Holds(data, k, c, v)
<1>1. /\ data \in Seq(RowNodes) /\ Sorted(data) /\ \A row \in Range(data) : GoodColumn(row.column)
      /\ \A row \in RowNodes : row.key \in Int
      /\ r \in Int
  BY NodesAre, SparseMatrixAssumption DEF GoodRows
<1>2. CASE HasKey(data, r)
  BY <1>2 DEF WithRow, Full, FullBut
<1>3. CASE ~ HasKey(data, r)
  <2>1. PICK e : e = [key |-> r, column |-> <<>>]
    OBVIOUS
  <2>2. e \in RowNodes /\ e.key = r /\ e.column = <<>>
    <3>1. <<>> \in Seq(ColNodes)
      BY EmptySeq
    <3> QED
      BY <2>1, <3>1 DEF RowNodes
  <2>3. PICK p : p = LowerBound(data, r) /\ t = InsertAt(data, p, e)
    BY <1>3, <2>1, Zenon DEF WithRow
  <2>4. PICK A : A = RowNodes
    OBVIOUS
  <2>5. /\ \A y \in A : y.key \in Int
        /\ data \in Seq(A) /\ Sorted(data) /\ e \in A /\ r = e.key /\ ~ HasKey(data, r)
        /\ p = LowerBound(data, r) /\ t = InsertAt(data, p, e)
    BY <1>1, <1>3, <2>2, <2>3, <2>4
  <2>6. t \in Seq(A)
    BY ONLY <2>5, SortedInsert
  <2>7. Sorted(t)
    BY ONLY <2>5, SortedInsert
  <2>8. Range(t) = Range(data) \cup {e}
    BY ONLY <2>5, SortedInsert
  <2>9. GoodColumn(e.column)
    <3>1. <<>> \in Seq(ColNodes) /\ Len(<<>>) = 0 /\ Range(<<>>) = {}
      BY EmptySeq DEF Range
    <3>2. 1 .. 0 = {}
      OBVIOUS
    <3> QED
      BY <2>2, <3>1, <3>2 DEF GoodColumn, Sorted
  <2>10. GoodRows(t)
    BY <1>1, <2>4, <2>6, <2>7, <2>8, <2>9 DEF GoodRows
  <2>11. FullBut(t, r)
    BY <2>2, <2>8 DEF Full, FullBut
  <2>12. \A c, v : ~ Has(e.column, c, v)
    <3>1. Range(<<>>) = {}
      BY EmptySeq DEF Range
    <3> QED
      BY <2>2, <3>1 DEF Has
  <2>13. \A k, c, v : Holds(t, k, c, v) <=> Holds(data, k, c, v)
    BY <2>8, <2>12, Zenon DEF Holds
  <2>14. HasKey(t, r)
    <3>1. PICK i \in 1 .. Len(t) : t[i] = e
      BY <2>6, <2>8, RangeOf
    <3>2. KeysAreNumbers(A) /\ t \in Seq(A) /\ Sorted(t) /\ r \in Int
      BY <1>1, <2>4, <2>6, <2>7 DEF KeysAreNumbers
    <3>3. PICK q : q = LowerBound(t, r)
      OBVIOUS
    <3>4. IsPlace(q, t, r)
      BY ONLY <3>2, <3>3, LowerBoundIs
    <3> QED
      BY <2>2, <3>1, <3>4 DEF IsPlace
  <2> QED
    BY <2>10, <2>11, <2>13, <2>14
<1> QED
  BY <1>2, <1>3

\* A column with one cell written, and with one cell erased.
LEMMA ColumnPut ==
  ASSUME NEW column, GoodColumn(column), NEW c \in 0 .. MaxColumn, NEW v \in CellValues, v # zero_value,
         NEW ct, ct = LowerBound(column, c), NEW node, node = [key |-> c, val |-> v],
         NEW t, t = IF HasKey(column, c) THEN ReplaceAt(column, ct, node) ELSE InsertAt(column, ct, node)
  PROVE  GoodColumn(t) /\ t # <<>> /\ \A k, w : Has(t, k, w) <=> IF k = c THEN w = v ELSE Has(column, k, w)
<1>1. /\ column \in Seq(ColNodes) /\ Sorted(column) /\ \A n \in Range(column) : n.val # zero_value
      /\ \A n \in ColNodes : n.key \in Int
  BY NodesAre DEF GoodColumn
<1>2. node \in ColNodes /\ node.key = c /\ node.val = v
  BY DEF ColNodes
<1>3. PICK A : A = ColNodes
  OBVIOUS
<1>4. ASSUME t \in Seq(ColNodes), Sorted(t),
             \A x : x \in Range(t) => x = node \/ (x \in Range(column) /\ x.key # c),
             \A x \in Range(column) : x.key # c => x \in Range(t), node \in Range(t)
      PROVE  GoodColumn(t) /\ t # <<>> /\ \A k, w : Has(t, k, w) <=> IF k = c THEN w = v ELSE Has(column, k, w)
  <2>1. GoodColumn(t)
    BY <1>1, <1>2, <1>4 DEF GoodColumn
  <2>2. t # <<>>
    <3>1. Range(<<>>) = {}
      BY EmptySeq DEF Range
    <3> QED
      BY <1>4, <3>1
  <2>3. ASSUME NEW k, NEW w PROVE Has(t, k, w) <=> IF k = c THEN w = v ELSE Has(column, k, w)
    <3>1. CASE k = c
      BY <1>2, <1>4, <3>1, Zenon DEF Has
    <3>2. CASE k # c
      BY <1>2, <1>4, <3>2, Zenon DEF Has
    <3> QED
      BY <3>1, <3>2
  <2> QED
    BY <2>1, <2>2, <2>3
<1>5. CASE HasKey(column, c)
  <2>1. ct \in 1 .. Len(column) /\ column[ct] \in ColNodes /\ column[ct].key = c
    BY <1>5, FindColumn
  <2>2. PICK x : x = column[ct]
    OBVIOUS
  <2>3. x \in Range(column)
    BY <1>1, <2>1, <2>2, RangeOf
  <2>4. /\ \A y \in A : y.key \in Int
        /\ column \in Seq(A) /\ Sorted(column) /\ ct \in 1 .. Len(column) /\ node \in A
        /\ node.key = column[ct].key /\ t = ReplaceAt(column, ct, node)
    BY <1>1, <1>2, <1>3, <1>5, <2>1
  <2>5. t \in Seq(A)
    BY ONLY <2>4, SortedReplace
  <2>6. Sorted(t)
    BY ONLY <2>4, SortedReplace
  <2>7. Range(t) = (Range(column) \ {column[ct]}) \cup {node}
    BY ONLY <2>4, SortedReplace
  <2>8. \A y \in Range(column) : y.key = c => y = x
    BY <1>1, <2>1, <2>2, <2>3, SortedUnique
  <2> QED
    BY <1>3, <1>4, <2>1, <2>2, <2>5, <2>6, <2>7, <2>8
<1>6. CASE ~ HasKey(column, c)
  <2>1. /\ \A y \in A : y.key \in Int
        /\ column \in Seq(A) /\ Sorted(column) /\ node \in A /\ c = node.key /\ ~ HasKey(column, c)
        /\ ct = LowerBound(column, c) /\ t = InsertAt(column, ct, node)
    BY <1>1, <1>2, <1>3, <1>6
  <2>2. t \in Seq(A)
    BY ONLY <2>1, SortedInsert
  <2>3. Sorted(t)
    BY ONLY <2>1, SortedInsert
  <2>4. Range(t) = Range(column) \cup {node}
    BY ONLY <2>1, SortedInsert
  <2>5. \A v2 : ~ Has(column, c, v2)
    BY <1>6, FindColumn
  <2>6. \A y \in Range(column) : y.key # c
    BY <2>5, Zenon DEF Has
  <2> QED
    BY <1>3, <1>4, <2>2, <2>3, <2>4, <2>6
<1> QED
  BY <1>5, <1>6

LEMMA ColumnCut ==
  ASSUME NEW column, GoodColumn(column), NEW c \in 0 .. MaxColumn, HasKey(column, c),
         NEW t, t = RemoveAt(column, LowerBound(column, c))
  PROVE  GoodColumn(t) /\ \A k, w : Has(t, k, w) <=> k # c /\ Has(column, k, w)
<1>1. /\ column \in Seq(ColNodes) /\ Sorted(column) /\ \A n \in Range(column) : n.val # zero_value
      /\ \A n \in ColNodes : n.key \in Int
  BY NodesAre DEF GoodColumn
<1>2. PICK p : p = LowerBound(column, c)
  OBVIOUS
<1>3. PICK x : x = column[p]
  OBVIOUS
<1>4. p \in 1 .. Len(column) /\ x.key = c
  BY <1>2, <1>3, FindColumn
<1>5. x \in Range(column)
  BY <1>1, <1>3, <1>4, RangeOf
<1>6. PICK A : A = ColNodes
  OBVIOUS
<1>7. /\ \A y \in A : y.key \in Int
      /\ column \in Seq(A) /\ Sorted(column) /\ p \in 1 .. Len(column) /\ t = RemoveAt(column, p)
  BY <1>1, <1>2, <1>4, <1>6
<1>8. t \in Seq(A)
  BY ONLY <1>7, SortedRemove
<1>9. Sorted(t)
  BY ONLY <1>7, SortedRemove
<1>10. Range(t) = Range(column) \ {column[p]}
  BY ONLY <1>7, SortedRemove
<1>11. \A y \in Range(column) : y.key = c => y = x
  BY <1>1, <1>4, <1>5, SortedUnique
<1>12. GoodColumn(t)
  BY <1>1, <1>6, <1>8, <1>9, <1>10 DEF GoodColumn
<1>13. \A k, w : Has(t, k, w) <=> k # c /\ Has(column, k, w)
  <2>1. \A y : y \in Range(t) <=> y \in Range(column) /\ y.key # c
    BY <1>3, <1>4, <1>10, <1>11
  <2> QED
    BY <2>1, Zenon DEF Has
<1> QED
  BY <1>12, <1>13

LEMMA LilAddIs ==
  ASSUME NEW data, GoodRows(data), Full(data), NEW r \in 0 .. MaxRow, NEW c \in 0 .. MaxColumn,
         NEW v \in CellValues, v # zero_value, NEW m, m = LilAdd(data, r, c, v)
  PROVE  /\ GoodRows(m.list) /\ Full(m.list)
         /\ \A k, j, w : Holds(m.list, k, j, w) <=> IF k = r /\ j = c THEN w = v ELSE Holds(data, k, j, w)
         /\ (\E w : Holds(data, r, c, w)) => m.more = 0
         /\ (\A w : ~ Holds(data, r, c, w)) => m.more = 1
<1>1. PICK list : list = WithRow(data, r)
  OBVIOUS
<1>2. /\ GoodRows(list) /\ HasKey(list, r) /\ FullBut(list, r)
      /\ \A k, j, w : Holds(list, k, j, w) <=> Holds(data, k, j, w)
  BY <1>1, WithRowIs
<1>3. PICK at : at = LowerBound(list, r)
  OBVIOUS
<1>4. PICK column : column = list[at].column
  OBVIOUS
<1>5. /\ at \in 1 .. Len(list) /\ list[at].key = r /\ GoodColumn(column)
      /\ \A j, w : Holds(list, r, j, w) <=> Has(column, j, w)
  BY <1>2, <1>3, <1>4, FindRow
<1>6. PICK ct : ct = LowerBound(column, c)
  OBVIOUS
<1>7. PICK node : node = [key |-> c, val |-> v]
  OBVIOUS
<1>8. PICK new : new = IF HasKey(column, c) THEN ReplaceAt(column, ct, node) ELSE InsertAt(column, ct, node)
  OBVIOUS
<1>9. /\ GoodColumn(new) /\ new # <<>>
      /\ \A k, w : Has(new, k, w) <=> IF k = c THEN w = v ELSE Has(column, k, w)
  BY <1>5, <1>6, <1>7, <1>8, ColumnPut
<1>10. PICK t : t = [list EXCEPT ![at].column = new]
  OBVIOUS
<1>11. /\ GoodRows(t) /\ Full(t)
       /\ \A k, j, w : Holds(t, k, j, w) <=> IF k = r THEN Has(new, j, w) ELSE Holds(list, k, j, w)
  <2>0. /\ GoodRows(list) /\ at \in 1 .. Len(list) /\ GoodColumn(new) /\ r = list[at].key
       /\ t = RowWith(list, at, new)
    BY <1>2, <1>5, <1>9, <1>10, Zenon DEF RowWith
  <2>1. GoodRows(t)
    BY ONLY <2>0, WithColumn
  <2>2. \A k, j, w : k = r => (Holds(t, k, j, w) <=> Has(new, j, w))
    BY ONLY <2>0, WithColumn
  <2>3. \A k, j, w : k # r => (Holds(t, k, j, w) <=> Holds(list, k, j, w))
    BY ONLY <2>0, WithColumn
  <2>4. new # <<>> /\ FullBut(list, r) => Full(t)
    BY ONLY <2>0, WithColumn
  <2> QED
    BY <1>2, <1>5, <1>9, <2>1, <2>2, <2>3, <2>4
<1>12. HasKey(column, c) <=> \E w : Has(column, c, w)
  BY <1>5, <1>6, FindColumn
<1>13. m = IF HasKey(column, c) THEN [list |-> t, more |-> 0] ELSE [list |-> t, more |-> 1]
  BY <1>1, <1>3, <1>4, <1>6, <1>7, <1>8, <1>10, Zenon DEF LilAdd
<1>14. m.list = t /\ m.more = IF HasKey(column, c) THEN 0 ELSE 1
  BY <1>13
<1>15. \A w : Has(column, c, w) <=> Holds(data, r, c, w)
  BY <1>2, <1>5
<1>16. ASSUME NEW k, NEW j, NEW w
       PROVE  Holds(t, k, j, w) <=> IF k = r /\ j = c THEN w = v ELSE Holds(data, k, j, w)
  BY <1>2, <1>5, <1>9, <1>11
<1> QED
  BY <1>11, <1>12, <1>14, <1>15, <1>16

LEMMA LilDeleteIs ==
  ASSUME NEW data, GoodRows(data), Full(data), NEW r \in 0 .. MaxRow, NEW c \in 0 .. MaxColumn,
         NEW m, m = LilDelete(data, r, c)
  PROVE  /\ GoodRows(m.list) /\ Full(m.list)
         /\ \A k, j, w : Holds(m.list, k, j, w) <=> ~ (k = r /\ j = c) /\ Holds(data, k, j, w)
         /\ (\E w : Holds(data, r, c, w)) => m.more = -1
         /\ (\A w : ~ Holds(data, r, c, w)) => m.more = 0
<1>1. PICK w0 : w0 = LilValue(data, r, c)
  OBVIOUS
<1>2. \/ w0 = zero_value /\ \A w : ~ Holds(data, r, c, w)
      \/ w0 # zero_value /\ \A w : Holds(data, r, c, w) <=> w = w0
  BY <1>1, LilValueIs
<1>3. CASE w0 = zero_value
  <2>1. m = [list |-> data, more |-> 0]
    BY <1>1, <1>3, Zenon DEF LilDelete
  <2>2. m.list = data /\ m.more = 0
    BY <2>1
  <2> QED
    BY <1>2, <1>3, <2>2
<1>4. CASE w0 # zero_value
  <2>1. PICK at : at = LowerBound(data, r)
    OBVIOUS
  <2>2. PICK old : old = data[at].column
    OBVIOUS
  <2>3. PICK new : new = RemoveAt(old, LowerBound(old, c))
    OBVIOUS
  <2>4. PICK t : t = IF new = <<>> THEN RemoveAt(data, at) ELSE [data EXCEPT ![at].column = new]
    OBVIOUS
  <2>5. m = [list |-> t, more |-> -1]
    BY <1>1, <1>4, <2>1, <2>2, <2>3, <2>4, Zenon DEF LilDelete
  <2>6. m.list = t /\ m.more = -1
    BY <2>5
  <2>7. Holds(data, r, c, w0)
    BY <1>2, <1>4
  <2>8. HasKey(data, r)
    BY <2>7, FindRow
  <2>9. /\ at \in 1 .. Len(data) /\ data[at] \in Range(data) /\ data[at].key = r /\ GoodColumn(old)
        /\ \A j, w : Holds(data, r, j, w) <=> Has(old, j, w)
    BY <2>1, <2>2, <2>8, FindRow
  <2>10. HasKey(old, c)
    <3>1. PICK q : q = LowerBound(old, c)
      OBVIOUS
    <3>2. HasKey(old, c) <=> \E w : Has(old, c, w)
      BY <2>9, <3>1, FindColumn
    <3> QED
      BY <2>7, <2>9, <3>2
  <2>11. GoodColumn(new) /\ \A k, w : Has(new, k, w) <=> k # c /\ Has(old, k, w)
    <3>1. GoodColumn(new)
      BY <2>3, <2>9, <2>10, ColumnCut
    <3>2. \A k, w : Has(new, k, w) <=> k # c /\ Has(old, k, w)
      BY <2>3, <2>9, <2>10, ColumnCut
    <3> QED
      BY <3>1, <3>2
  <2>12. /\ GoodRows(t) /\ Full(t)
         /\ \A k, j, w : Holds(t, k, j, w) <=> IF k = r THEN Has(new, j, w) ELSE Holds(data, k, j, w)
    <3>1. CASE new # <<>>
      <4>0. /\ GoodRows(data) /\ at \in 1 .. Len(data) /\ GoodColumn(new) /\ r = data[at].key
           /\ t = RowWith(data, at, new)
        BY <2>4, <2>9, <2>11, <3>1, Zenon DEF RowWith
      <4>1. GoodRows(t)
        BY ONLY <4>0, WithColumn
      <4>2. \A k, j, w : k = r => (Holds(t, k, j, w) <=> Has(new, j, w))
        BY ONLY <4>0, WithColumn
      <4>3. \A k, j, w : k # r => (Holds(t, k, j, w) <=> Holds(data, k, j, w))
        BY ONLY <4>0, WithColumn
      <4>4. new # <<>> /\ FullBut(data, r) => Full(t)
        BY ONLY <4>0, WithColumn
      <4>5. FullBut(data, r)
        BY DEF Full, FullBut
      <4> QED
        BY <2>9, <3>1, <4>1, <4>2, <4>3, <4>4, <4>5
    <3>2. CASE new = <<>>
      <4>0. t = RemoveAt(data, at)
        BY <2>4, <3>2
      <4>1. PICK A : A = RowNodes
        OBVIOUS
      <4>2. /\ \A y \in A : y.key \in Int
            /\ data \in Seq(A) /\ Sorted(data) /\ at \in 1 .. Len(data) /\ t = RemoveAt(data, at)
        BY <2>9, <4>0, <4>1, NodesAre DEF GoodRows
      <4>3. t \in Seq(A)
        BY ONLY <4>2, SortedRemove
      <4>4. Sorted(t)
        BY ONLY <4>2, SortedRemove
      <4>5. Range(t) = Range(data) \ {data[at]}
        BY ONLY <4>2, SortedRemove
      <4>6. PICK x : x = data[at]
        OBVIOUS
      <4>7. \A y \in Range(data) : y.key = r => y = x
        <5>1. x \in Range(data) /\ x.key = r
          BY <2>9, <4>6
        <5> QED
          BY ONLY <4>2, <5>1, SortedUnique
      <4>8. \A y : y \in Range(t) <=> y \in Range(data) /\ y.key # r
        BY <2>9, <4>5, <4>6, <4>7
      <4>9. GoodRows(t) /\ Full(t)
        BY <4>1, <4>3, <4>4, <4>8 DEF GoodRows, Full
      <4>10. \A j, w : ~ Has(new, j, w)
        <5>1. Range(<<>>) = {}
          BY EmptySeq DEF Range
        <5> QED
          BY <3>2, <5>1 DEF Has
      <4>11. ASSUME NEW k, NEW j, NEW w
             PROVE  Holds(t, k, j, w) <=> IF k = r THEN Has(new, j, w) ELSE Holds(data, k, j, w)
        <5>1. CASE k = r
          BY <4>8, <4>10, <5>1, Zenon DEF Holds
        <5>2. CASE k # r
          BY <4>8, <5>2, Zenon DEF Holds
        <5> QED
          BY <5>1, <5>2
      <4> QED
        BY <4>9, <4>11
    <3> QED
      BY <3>1, <3>2
  <2>13. ASSUME NEW k, NEW j, NEW w
         PROVE  Holds(t, k, j, w) <=> ~ (k = r /\ j = c) /\ Holds(data, k, j, w)
    BY <2>9, <2>11, <2>12
  <2> QED
    BY <2>6, <2>7, <2>12, <2>13
<1> QED
  BY <1>3, <1>4

-----------------------------------------------------------------------------
\* The walk over the list of lists.

Before(x, y) == x[1] < y[1] \/ (x[1] = y[1] /\ x[2] < y[2])
Ordered(s) == \A i, j \in 1 .. Len(s) : i < j => Before(s[i], s[j])
AllBefore(s, u) == \A x \in Range(s), y \in Range(u) : Before(x, y)

LEMMA OrderedConcat ==
  ASSUME NEW E, NEW s \in Seq(E), NEW u \in Seq(E), Ordered(s), Ordered(u),
         AllBefore(s, u), NEW t, t = s \o u
  PROVE  /\ t \in Seq(E) /\ Ordered(t)
         /\ \A x : x \in Range(t) <=> x \in Range(s) \/ x \in Range(u)
<1>1. PICK n \in Nat : n = Len(s)
  BY LenProperties
<1>2. PICK m \in Nat : m = Len(u)
  BY LenProperties
<1> PICK N \in Nat : N = n + m
  OBVIOUS
<1>3. /\ t \in Seq(E) /\ Len(t) = N
      /\ \A i \in 1 .. N : t[i] = IF i <= n THEN s[i] ELSE u[i - n]
  BY <1>1, <1>2, ConcatProperties
<1>4. /\ \A i \in 1 .. N : i <= n => i \in 1 .. n /\ t[i] = s[i]
      /\ \A i \in 1 .. N : n < i => \E k \in 1 .. m : k = i - n /\ t[i] = u[k]
  BY <1>3
<1>5. /\ \A x : x \in Range(s) <=> \E i \in 1 .. n : s[i] = x
      /\ \A x : x \in Range(u) <=> \E i \in 1 .. m : u[i] = x
  BY <1>1, <1>2, RangeOf, SMTT(30)
<1>6. \A x : x \in Range(t) <=> \E i \in 1 .. N : t[i] = x
  <2>1. t \in Seq(E) /\ Len(t) = N
    BY <1>3
  <2>2. \A x : x \in Range(t) <=> \E i \in 1 .. Len(t) : t[i] = x
    BY ONLY <2>1, RangeOf, ZenonT(30)
  <2> QED
    BY ONLY <2>1, <2>2, ZenonT(30)
<1>7. Ordered(t)
  <2> SUFFICES ASSUME NEW i \in 1 .. N, NEW j \in 1 .. N, i < j PROVE Before(t[i], t[j])
    BY <1>3 DEF Ordered
  <2>1. CASE j <= n
    <3>1. i \in 1 .. n /\ j \in 1 .. n /\ t[i] = s[i] /\ t[j] = s[j]
      BY ONLY <1>4, <2>1, i < j
    <3> QED
      BY <1>1, <3>1 DEF Ordered
  <2>2. CASE n < i
    <3>1. PICK a \in 1 .. m : a = i - n /\ t[i] = u[a]
      BY ONLY <1>4, <2>2, i < j
    <3>2. PICK b \in 1 .. m : b = j - n /\ t[j] = u[b]
      BY ONLY <1>4, <2>2, i < j
    <3>3. a < b
      BY <3>1, <3>2
    <3> QED
      BY <1>2, <3>1, <3>2, <3>3 DEF Ordered
  <2>3. CASE i <= n /\ n < j
    <3>1. t[i] \in Range(s)
      BY <1>4, <1>5, <2>3
    <3>2. t[j] \in Range(u)
      BY <1>4, <1>5, <2>3
    <3> QED
      BY <3>1, <3>2 DEF AllBefore
  <2> QED
    BY ONLY <2>1, <2>2, <2>3, i < j
<1>8. ASSUME NEW x PROVE x \in Range(t) <=> x \in Range(s) \/ x \in Range(u)
  <2>1. ASSUME NEW i \in 1 .. N, t[i] = x PROVE x \in Range(s) \/ x \in Range(u)
    <3>1. CASE i <= n
      <4>1. i \in 1 .. n /\ s[i] = x
        BY ONLY <1>4, <2>1, <3>1
      <4> QED
        BY ONLY <1>5, <4>1
    <3>2. CASE n < i
      <4>1. PICK k \in 1 .. m : u[k] = x
        BY ONLY <1>4, <2>1, <3>2
      <4> QED
        BY ONLY <1>5, <4>1
    <3> QED
      BY <3>1, <3>2
  <2>2. ASSUME NEW i \in 1 .. n, s[i] = x PROVE x \in Range(t)
    <3>1. i \in 1 .. N /\ i <= n
      OBVIOUS
    <3> QED
      BY <1>3, <1>6, <2>2, <3>1
  <2>3. ASSUME NEW i \in 1 .. m, u[i] = x PROVE x \in Range(t)
    <3>1. PICK k \in 1 .. N : k = n + i
      OBVIOUS
    <3>2. ~ (k <= n) /\ k - n = i
      BY <3>1
    <3> QED
      BY <1>3, <1>6, <2>3, <3>2
  <2> QED
    BY <1>5, <1>6, <2>1, <2>2, <2>3
<1> QED
  BY <1>3, <1>7, <1>8

\* The recursion of FlattenSeq.
IsFlatten(f, seqs) == f = [i \in 1 .. Len(seqs) |-> IF i = 1 THEN seqs[i] ELSE f[i - 1] \o seqs[i]]

LEMMA FlattenExists ==
  ASSUME NEW E, NEW seqs \in Seq(Seq(E)), Len(seqs) # 0
  PROVE  \E f : IsFlatten(f, seqs)
<1>1. PICK n \in Nat : n + 1 = Len(seqs) /\ \A i \in 1 .. n + 1 : seqs[i] \in Seq(E)
  <2>1. Len(seqs) \in Nat /\ DOMAIN seqs = 1 .. Len(seqs)
    BY LenProperties
  <2>2. \A i \in 1 .. Len(seqs) : seqs[i] \in Seq(E)
    BY ElementOfSeq
  <2>3. PICK n \in Nat : n + 1 = Len(seqs)
    <3>1. Len(seqs) - 1 \in Nat /\ (Len(seqs) - 1) + 1 = Len(seqs)
      BY <2>1
    <3> QED
      BY <3>1
  <2> QED
    BY <2>2, <2>3
<1> DEFINE g == [p \in (1 .. n) \X Seq(E) |-> p[2] \o seqs[p[1] + 1]]
<1>2. ASSUME NEW k \in 1 .. n, NEW x \in Seq(E) PROVE g[<<k, x>>] = x \o seqs[k + 1] /\ g[<<k, x>>] \in Seq(E)
  <2>1. g[<<k, x>>] = x \o seqs[k + 1]
    OBVIOUS
  <2>2. seqs[k + 1] \in Seq(E)
    BY <1>1
  <2>3. x \o seqs[k + 1] \in Seq(E)
    BY ONLY x \in Seq(E), <2>2, ConcatProperties
  <2> HIDE DEF g
  <2> QED
    BY <2>1, <2>3
<1>3. PICK base \in Seq(E) : base = seqs[1]
  BY <1>1
<1> HIDE DEF g
<1>4. PICK h : h = g
  OBVIOUS
<1>5. PICK F : /\ F = [k \in 0 .. n |-> IF k = 0 THEN base ELSE h[<<k, F[k - 1]>>]]
               /\ F \in [0 .. n -> Seq(E)]
  <2>1. PICK X : X = Seq(E)
    OBVIOUS
  <2>2. base \in X /\ \A k \in 1 .. n : \A x \in X : h[<<k, x>>] \in X
    BY <1>2, <1>4, <2>1
  <2>3. \E F : /\ F = [k \in 0 .. n |-> IF k = 0 THEN base ELSE h[<<k, F[k - 1]>>]]
               /\ F \in [0 .. n -> X]
    BY <2>2, Recursion
  <2> QED
    BY <2>1, <2>3
<1> DEFINE f == [i \in 1 .. n + 1 |-> F[i - 1]]
<1>6. ASSUME NEW i \in 1 .. n + 1 PROVE f[i] = IF i = 1 THEN seqs[i] ELSE f[i - 1] \o seqs[i]
  <2>1. PICK k \in 0 .. n : k = i - 1
    OBVIOUS
  <2>2. f[i] = F[k]
    BY <2>1
  <2>3. CASE k = 0
    <3>1. i = 1 /\ F[k] = base
      BY <1>5, <2>1, <2>3
    <3> HIDE DEF f
    <3> QED
      BY <1>3, <2>2, <3>1
  <2>4. CASE k # 0
    <3>1. k \in 1 .. n /\ k - 1 \in 0 .. n /\ i # 1 /\ i - 1 \in 1 .. n + 1 /\ i = k + 1 /\ i - 1 - 1 = k - 1
      BY <2>1, <2>4
    <3>2. f[i - 1] = F[k - 1]
      BY <3>1
    <3> HIDE DEF f
    <3>3. PICK x \in Seq(E) : x = F[k - 1]
      BY <1>5, <3>1
    <3>4. F[k] = h[<<k, F[k - 1]>>]
      <4>1. F[k] = IF k = 0 THEN base ELSE h[<<k, F[k - 1]>>]
        BY <1>5
      <4> QED
        BY <2>4, <4>1
    <3>5. F[k] = x \o seqs[k + 1]
      BY <1>2, <1>4, <3>1, <3>3, <3>4
    <3> QED
      BY <2>2, <3>1, <3>2, <3>3, <3>5
  <2> QED
    BY <2>3, <2>4
<1>7. f = [i \in 1 .. n + 1 |-> f[i]]
  OBVIOUS
<1>8. IsFlatten(f, seqs)
  <2> HIDE DEF f
  <2>1. f = [i \in 1 .. n + 1 |-> IF i = 1 THEN seqs[i] ELSE f[i - 1] \o seqs[i]]
    BY <1>6, <1>7, Zenon
  <2> QED
    BY <1>1, <2>1 DEF IsFlatten
<1> HIDE DEF f
<1> QED
  BY <1>8, Zenon

\* What the flattening of sequences in order is.
LEMMA FlattenIs ==
  ASSUME NEW E, NEW seqs \in Seq(Seq(E)), \A i \in 1 .. Len(seqs) : Ordered(seqs[i]),
         \A i, j \in 1 .. Len(seqs) : i < j => AllBefore(seqs[i], seqs[j]),
         NEW t, t = FlattenSeq(seqs)
  PROVE  /\ t \in Seq(E) /\ Ordered(t)
         /\ \A x : x \in Range(t) <=> \E i \in 1 .. Len(seqs) : x \in Range(seqs[i])
<1>1. CASE Len(seqs) = 0
  <2>1. t = <<>> /\ t = seqs
    BY <1>1, EmptySeq DEF FlattenSeq
  <2>2. t \in Seq(E) /\ Len(t) = 0 /\ Range(t) = {}
    BY <2>1, EmptySeq DEF Range
  <2>3. 1 .. 0 = {}
    OBVIOUS
  <2> QED
    BY <1>1, <2>2, <2>3 DEF Ordered
<1>2. CASE Len(seqs) # 0
  <2>1. PICK n \in Nat : n + 1 = Len(seqs) /\ \A i \in 1 .. n + 1 : seqs[i] \in Seq(E)
    <3>1. Len(seqs) \in Nat /\ DOMAIN seqs = 1 .. Len(seqs)
      BY LenProperties
    <3>2. \A i \in 1 .. Len(seqs) : seqs[i] \in Seq(E)
      BY ElementOfSeq
    <3>3. PICK n \in Nat : n + 1 = Len(seqs)
      <4>1. Len(seqs) - 1 \in Nat /\ (Len(seqs) - 1) + 1 = Len(seqs)
        BY <1>2, <3>1
      <4> QED
        BY <4>1
    <3> QED
      BY <3>2, <3>3
  <2> DEFINE f == CHOOSE f : IsFlatten(f, seqs)
  <2>2. IsFlatten(f, seqs)
    BY <1>2, FlattenExists, Zenon
  <2>3. t = f[Len(seqs)]
    BY <1>2, Zenon DEF FlattenSeq, IsFlatten
  <2> HIDE DEF f
  <2>4. PICK ff : ff = f
    OBVIOUS
  <2>5. \A i \in 1 .. n + 1 : ff[i] = IF i = 1 THEN seqs[i] ELSE ff[i - 1] \o seqs[i]
    <3>1. ff = [i \in 1 .. n + 1 |-> IF i = 1 THEN seqs[i] ELSE ff[i - 1] \o seqs[i]]
      BY <2>1, <2>2, <2>4, Zenon DEF IsFlatten
    <3> QED
      BY ONLY <3>1
  <2> DEFINE Good(k) == /\ ff[k + 1] \in Seq(E) /\ Ordered(ff[k + 1])
                        /\ \A x : x \in Range(ff[k + 1]) <=> \E i \in 1 .. k + 1 : x \in Range(seqs[i])
  <2> DEFINE D == {k \in 0 .. n : Good(k)}
  <2>6. 0 \in D
    <3>1. ff[1] = seqs[1]
      BY <2>5
    <3>2. ff[1] \in Seq(E) /\ Ordered(ff[1])
      BY <2>1, <3>1
    <3>3. \A x : x \in Range(ff[1]) <=> \E i \in 1 .. 1 : x \in Range(seqs[i])
      BY <3>1
    <3>4. Good(0)
      BY <3>2, <3>3
    <3> HIDE DEF Good
    <3> QED
      BY <3>4
  <2>7. ASSUME NEW k \in Nat, k < n, k \in D
        PROVE  k + 1 \in D
    <3>0. Good(k)
      BY <2>7
    <3>1. PICK s \in Seq(E) : /\ s = ff[k + 1] /\ Ordered(s)
                              /\ \A x : x \in Range(s) <=> \E i \in 1 .. k + 1 : x \in Range(seqs[i])
      BY <3>0
    <3>2. PICK j \in 1 .. n + 1 : j = k + 2
      BY <2>7
    <3>3. PICK u \in Seq(E) : u = seqs[j]
      BY <2>1
    <3>4. PICK w : w = ff[j]
      OBVIOUS
    <3>5. w = s \o u
      <4>1. j # 1 /\ j - 1 = k + 1
        BY <3>2
      <4>2. ff[j] = ff[j - 1] \o seqs[j]
        BY <2>5, <4>1
      <4> QED
        BY <3>1, <3>3, <3>4, <4>1, <4>2
    <3>6. Ordered(u)
      BY <2>1, <3>3
    <3>7. AllBefore(s, u)
      <4> SUFFICES ASSUME NEW x \in Range(s), NEW y \in Range(u) PROVE Before(x, y)
        BY DEF AllBefore
      <4>1. PICK i \in 1 .. k + 1 : x \in Range(seqs[i])
        BY <3>1
      <4>2. i \in 1 .. n + 1 /\ i < j
        BY <2>7, <3>2
      <4> QED
        BY <2>1, <3>3, <4>1, <4>2 DEF AllBefore
    <3>8. w \in Seq(E) /\ Ordered(w) /\ \A x : x \in Range(w) <=> x \in Range(s) \/ x \in Range(u)
      <4>0. s \in Seq(E) /\ u \in Seq(E) /\ Ordered(s) /\ Ordered(u) /\ AllBefore(s, u) /\ w = s \o u
        BY <3>1, <3>5, <3>6, <3>7
      <4>1. w \in Seq(E)
        BY ONLY <4>0, OrderedConcat
      <4>2. Ordered(w)
        BY ONLY <4>0, OrderedConcat
      <4>3. \A x : x \in Range(w) <=> x \in Range(s) \/ x \in Range(u)
        BY ONLY <4>0, OrderedConcat
      <4> QED
        BY <4>1, <4>2, <4>3
    <3>9. \A x : x \in Range(w) <=> \E i \in 1 .. k + 2 : x \in Range(seqs[i])
      <4>1. \A i : i \in 1 .. k + 2 <=> i \in 1 .. k + 1 \/ i = j
        BY <3>2
      <4>2. \A x : x \in Range(w) <=> (\E i \in 1 .. k + 1 : x \in Range(seqs[i])) \/ x \in Range(seqs[j])
        BY <3>1, <3>3, <3>8
      <4> QED
        BY <4>1, <4>2, Zenon
    <3>10. Good(k + 1)
      <4>1. k + 1 + 1 = j /\ k + 1 + 1 = k + 2
        BY <3>2
      <4>2. ff[k + 1 + 1] = w
        BY <3>4, <4>1
      <4> QED
        BY <3>8, <3>9, <4>1, <4>2
    <3>11. k + 1 \in 0 .. n
      BY <2>7
    <3> HIDE DEF Good
    <3> QED
      BY <3>10, <3>11
  <2>8. Good(n)
    <3> HIDE DEF D
    <3>1. \A k \in 0 .. n : k \in D
      BY <2>6, <2>7, Upwards
    <3>2. n \in D
      BY <3>1
    <3> HIDE DEF Good
    <3> QED
      BY <3>2 DEF D
  <2>9. t = ff[n + 1]
    BY <2>1, <2>3, <2>4
  <2> QED
    BY <2>1, <2>8, <2>9
<1> QED
  BY <1>1, <1>2

Triples == (0 .. MaxRow) \X (0 .. MaxColumn) \X CellValues

\* The part of the walk that is in one row.
CellsOf(row) == [j \in DOMAIN row.column |-> <<row.key, row.column[j].key, row.column[j].val>>]

LEMMA CellsOfIs ==
  ASSUME NEW row \in RowNodes, GoodColumn(row.column), NEW s, s = CellsOf(row)
  PROVE  /\ s \in Seq(Triples) /\ Ordered(s)
         /\ \A x \in Range(s) : x[1] = row.key
         /\ \A r, c, v : <<r, c, v>> \in Range(s) <=> r = row.key /\ Has(row.column, c, v)
<1>1. PICK column : column = row.column
  OBVIOUS
<1>2. PICK k \in 0 .. MaxRow : k = row.key
  BY NodesAre
<1>3. column \in Seq(ColNodes) /\ Sorted(column)
  BY <1>1 DEF GoodColumn
<1>4. PICK n \in Nat : n = Len(column) /\ DOMAIN column = 1 .. n
  BY <1>3, LenProperties
<1>5. s = [j \in 1 .. n |-> <<k, column[j].key, column[j].val>>]
  BY <1>1, <1>2, <1>4, Zenon DEF CellsOf
<1>6. \A j \in 1 .. n : column[j].key \in 0 .. MaxColumn /\ column[j].key \in Int /\ column[j].val \in CellValues
  <2>1. \A j \in 1 .. n : column[j] \in ColNodes
    BY <1>3, <1>4, ElementOfSeq
  <2> QED
    BY <2>1, NodesAre
<1>7. \A j \in 1 .. n : <<k, column[j].key, column[j].val>> \in Triples
  BY <1>6, Zenon DEF Triples
<1>8. s \in [1 .. n -> Triples]
  BY <1>5, <1>7, Zenon
<1>9. s \in Seq(Triples) /\ Len(s) = n
  BY <1>8, IsASeq
<1>10. \A j \in 1 .. n : s[j] = <<k, column[j].key, column[j].val>>
  BY ONLY <1>5
<1>11. \A j \in 1 .. n : s[j][1] = k /\ s[j][2] = column[j].key
  BY <1>10
<1>12. \A i, j \in 1 .. n : i < j => column[i].key < column[j].key
  BY <1>3, <1>4 DEF Sorted
<1>13. Ordered(s)
  BY <1>9, <1>11, <1>12 DEF Ordered, Before
<1>14. \A x : x \in Range(s) <=> \E j \in 1 .. n : s[j] = x
  BY <1>9, RangeOf
<1>15. \A x \in Range(s) : x[1] = k
  BY <1>11, <1>14
<1>16. \A x : x \in Range(column) <=> \E j \in 1 .. n : column[j] = x
  BY <1>3, <1>4, RangeOf
<1>17. ASSUME NEW r, NEW c, NEW v
       PROVE  <<r, c, v>> \in Range(s) <=> r = k /\ Has(column, c, v)
  <2>1. <<r, c, v>> \in Range(s) <=> \E j \in 1 .. n : <<k, column[j].key, column[j].val>> = <<r, c, v>>
    BY <1>10, <1>14, ZenonT(30)
  <2>2. \A a, b, d : <<a, b, d>> = <<r, c, v>> <=> a = r /\ b = c /\ d = v
    OBVIOUS
  <2>3. Has(column, c, v) <=> \E j \in 1 .. n : column[j].key = c /\ column[j].val = v
    BY <1>16, Zenon DEF Has
  <2> QED
    BY <2>1, <2>2, <2>3, Zenon
<1> QED
  BY <1>1, <1>2, <1>9, <1>13, <1>15, <1>17

\* The walk meets every cell, in order.
LEMMA LilCellsAre ==
  ASSUME NEW data, GoodRows(data), NEW t, t = LilCells(data)
  PROVE  /\ t \in Seq(Triples) /\ Ordered(t)
         /\ \A r, c, v : <<r, c, v>> \in Range(t) <=> Holds(data, r, c, v)
<1>1. data \in Seq(RowNodes) /\ Sorted(data) /\ \A row \in Range(data) : GoodColumn(row.column)
  BY DEF GoodRows
<1>2. PICK n \in Nat : n = Len(data) /\ DOMAIN data = 1 .. n
  BY <1>1, LenProperties
<1>3. \A x : x \in Range(data) <=> \E i \in 1 .. n : data[i] = x
  BY <1>1, <1>2, RangeOf
<1>4. \A i \in 1 .. n : data[i] \in RowNodes /\ GoodColumn(data[i].column)
  <2>1. \A i \in 1 .. n : data[i] \in RowNodes
    BY <1>1, <1>2, ElementOfSeq
  <2> QED
    BY <1>1, <1>3, <2>1
<1>5. PICK seqs : seqs = [i \in 1 .. n |-> CellsOf(data[i])]
  OBVIOUS
<1>6. t = FlattenSeq(seqs)
  BY <1>2, <1>5, Zenon DEF LilCells, CellsOf
<1>7. \A i \in 1 .. n : seqs[i] = CellsOf(data[i])
  BY ONLY <1>5
<1>8. ASSUME NEW i \in 1 .. n
      PROVE  /\ seqs[i] \in Seq(Triples) /\ Ordered(seqs[i])
             /\ \A x \in Range(seqs[i]) : x[1] = data[i].key
             /\ \A r, c, v : <<r, c, v>> \in Range(seqs[i]) <=> r = data[i].key /\ Has(data[i].column, c, v)
  <2>1. PICK s : s = seqs[i]
    OBVIOUS
  <2>2. PICK row : row = data[i]
    OBVIOUS
  <2>3. row \in RowNodes /\ GoodColumn(row.column) /\ s = CellsOf(row)
    BY <1>4, <1>7, <2>1, <2>2
  <2>4. s \in Seq(Triples)
    BY ONLY <2>3, CellsOfIs
  <2>5. Ordered(s)
    BY ONLY <2>3, CellsOfIs
  <2>6. \A x \in Range(s) : x[1] = row.key
    BY ONLY <2>3, CellsOfIs
  <2>7. \A r, c, v : <<r, c, v>> \in Range(s) <=> r = row.key /\ Has(row.column, c, v)
    BY ONLY <2>3, CellsOfIs
  <2> QED
    BY <2>1, <2>2, <2>4, <2>5, <2>6, <2>7, Zenon
<1>9. seqs \in Seq(Seq(Triples)) /\ Len(seqs) = n
  <2>1. seqs \in [1 .. n -> Seq(Triples)]
    BY <1>5, <1>7, <1>8, Zenon
  <2> QED
    BY <2>1, IsASeq
<1>10. \A i, j \in 1 .. n : i < j => AllBefore(seqs[i], seqs[j])
  <2> SUFFICES ASSUME NEW i \in 1 .. n, NEW j \in 1 .. n, i < j,
                      NEW x \in Range(seqs[i]), NEW y \in Range(seqs[j])
               PROVE  Before(x, y)
    BY DEF AllBefore
  <2>1. x[1] = data[i].key /\ y[1] = data[j].key
    BY <1>8
  <2>2. data[i].key < data[j].key
    BY <1>1, <1>2 DEF Sorted
  <2> QED
    BY <2>1, <2>2 DEF Before
<1>11. PICK E : E = Triples
  OBVIOUS
<1>12. /\ seqs \in Seq(Seq(E)) /\ t = FlattenSeq(seqs)
       /\ \A i \in 1 .. Len(seqs) : Ordered(seqs[i])
       /\ \A i, j \in 1 .. Len(seqs) : i < j => AllBefore(seqs[i], seqs[j])
  BY <1>6, <1>8, <1>9, <1>10, <1>11
<1>13. t \in Seq(E)
  BY ONLY <1>12, FlattenIs
<1>14. Ordered(t)
  BY ONLY <1>12, FlattenIs
<1>15. \A x : x \in Range(t) <=> \E i \in 1 .. Len(seqs) : x \in Range(seqs[i])
  BY ONLY <1>12, FlattenIs
<1>16. ASSUME NEW r, NEW c, NEW v
       PROVE  <<r, c, v>> \in Range(t) <=> Holds(data, r, c, v)
  <2>1. <<r, c, v>> \in Range(t) <=> \E i \in 1 .. n : <<r, c, v>> \in Range(seqs[i])
    BY <1>9, <1>15, Zenon
  <2>2. <<r, c, v>> \in Range(t) <=> \E i \in 1 .. n : r = data[i].key /\ Has(data[i].column, c, v)
    BY <1>8, <2>1, Zenon
  <2>3. Holds(data, r, c, v) <=> \E i \in 1 .. n : data[i].key = r /\ Has(data[i].column, c, v)
    BY <1>3, Zenon DEF Holds
  <2> QED
    BY <2>2, <2>3, Zenon
<1> QED
  BY <1>11, <1>13, <1>14, <1>16

\* As many cells as the walk meets.
LEMMA CountCells ==
  ASSUME NEW t \in Seq(Triples), Ordered(t), NEW D, IsFiniteSet(D),
         \A cell \in D : cell = <<cell[1], cell[2]>>,
         \A r, c : <<r, c>> \in D <=> \E v : <<r, c, v>> \in Range(t)
  PROVE  Len(t) = Cardinality(D)
<1>1. PICK n \in Nat : n = Len(t)
  BY LenProperties
<1>2. \A i \in 1 .. n : t[i] \in Triples
  BY <1>1, LenProperties, ElementOfSeq
<1>3. \A x : x \in Range(t) <=> \E i \in 1 .. n : t[i] = x
  BY <1>1, RangeOf
<1>4. \A x \in Triples : x = <<x[1], x[2], x[3]>> /\ x[1] \in Int /\ x[2] \in Int
  BY SparseMatrixAssumption DEF Triples
<1>5. PICK f : f = [i \in 1 .. n |-> <<t[i][1], t[i][2]>>]
  OBVIOUS
<1>6. \A i \in 1 .. n : f[i] = <<t[i][1], t[i][2]>>
  BY ONLY <1>5
<1>7. \A i \in 1 .. n : f[i] \in D
  <2> SUFFICES ASSUME NEW i \in 1 .. n PROVE <<t[i][1], t[i][2]>> \in D
    BY <1>6
  <2>1. <<t[i][1], t[i][2], t[i][3]>> \in Range(t)
    BY <1>2, <1>3, <1>4
  <2> QED
    BY <2>1, Zenon
<1>8. f \in [1 .. n -> D]
  BY ONLY <1>5, <1>7
<1>9. ASSUME NEW i \in 1 .. n, NEW j \in 1 .. n, f[i] = f[j] PROVE i = j
  <2>1. t[i][1] = t[j][1] /\ t[i][2] = t[j][2]
    BY <1>6, <1>9
  <2>2. t[i][1] \in Int /\ t[i][2] \in Int
    BY <1>2, <1>4
  <2>3. i < j => Before(t[i], t[j])
    BY <1>1 DEF Ordered
  <2>4. j < i => Before(t[j], t[i])
    BY <1>1 DEF Ordered
  <2>5. ~ Before(t[i], t[j]) /\ ~ Before(t[j], t[i])
    BY <2>1, <2>2 DEF Before
  <2> QED
    BY <2>3, <2>4, <2>5
<1>10. ASSUME NEW cell \in D PROVE \E i \in 1 .. n : f[i] = cell
  <2>1. PICK r, c : cell = <<r, c>>
    OBVIOUS
  <2>2. PICK v : <<r, c, v>> \in Range(t)
    BY <2>1
  <2>3. PICK i \in 1 .. n : t[i] = <<r, c, v>>
    BY <1>3, <2>2
  <2>4. t[i][1] = r /\ t[i][2] = c
    BY <2>3
  <2> QED
    BY <1>6, <2>1, <2>4
<1>11. f \in Bijection(1 .. n, D)
  <2>1. f \in Injection(1 .. n, D)
    BY ONLY <1>8, <1>9, Zenon DEF Injection, IsInjective
  <2>2. f \in Surjection(1 .. n, D)
    BY ONLY <1>8, <1>10, Zenon DEF Surjection
  <2> QED
    BY <2>1, <2>2 DEF Bijection
<1>12. ExistsBijection(1 .. n, D)
  BY <1>11 DEF ExistsBijection
<1>13. IsFiniteSet(1 .. n) /\ Cardinality(1 .. n) = n
  <2>1. IsFiniteSet(1 .. n)
    BY FS_Interval
  <2>2. Cardinality(1 .. n) = IF 1 > n THEN 0 ELSE n - 1 + 1
    BY FS_Interval
  <2> QED
    BY <2>1, <2>2
<1>14. Cardinality(D) = Cardinality(1 .. n)
  BY <1>12, <1>13, FS_Bijection
<1> QED
  BY <1>1, <1>13, <1>14

-----------------------------------------------------------------------------
\* The invariant of the matrices: the list of lists is in order and has no row
\* without cells, it holds what the map of pairs holds, size_ counts that, and
\* the two maps are the same.

MatrixInv ==
  /\ GoodRows(rows) /\ Full(rows)
  /\ DOMAIN dok \subseteq Cell /\ IsFiniteSet(DOMAIN dok)
  /\ \A r, c, v : Holds(rows, r, c, v) <=> <<r, c>> \in DOMAIN dok /\ dok[<<r, c>>] = v
  /\ lilSize = Cardinality(DOMAIN dok)
  /\ multi = dok

LEMMA MultiIndexesAre ==
  ASSUME NEW r, NEW c
  PROVE  MultiIndexes(r, c) = <<r, c>>
BY DEF MultiIndexes, IndexHolder

LEMMA DokAddIs ==
  ASSUME NEW data, NEW cell, NEW v, NEW t, t = DokAdd(data, cell, v)
  PROVE  DOMAIN t = DOMAIN data \cup {cell} /\ t[cell] = v /\ \A k \in DOMAIN data : k # cell => t[k] = data[k]
BY DEF DokAdd

\* A write of v to one cell of all three matrices.
LEMMA WrittenKeeps ==
  ASSUME MatrixInv, NEW r \in 0 .. MaxRow, NEW c \in 0 .. MaxColumn, NEW v \in CellValues \cup {zero_value},
         Written(r, c, v, v, v)
  PROVE  MatrixInv'
<1>1. PICK cell : cell = <<r, c>>
  OBVIOUS
<1>2. PICK D : D = DOMAIN dok
  OBVIOUS
<1>3. cell \in Cell /\ D \subseteq Cell /\ IsFiniteSet(D) /\ lilSize = Cardinality(D) /\ Cardinality(D) \in Nat
  BY <1>1, <1>2, FS_CardinalityType DEF MatrixInv, Cell
<1>4. \A k, j, w : Holds(rows, k, j, w) <=> <<k, j>> \in D /\ dok[<<k, j>>] = w
  BY <1>2, Zenon DEF MatrixInv
<1>5. multi' = dok'
  BY MultiIndexesAre, Zenon DEF MatrixInv, Written, MultiAssign, DokAssign
<1>6. \A k, j : <<k, j>> = cell <=> k = r /\ j = c
  BY <1>1
<1>7. (\E w : Holds(rows, r, c, w)) <=> cell \in D
  BY <1>1, <1>4, Zenon
<1>8. CASE v # zero_value
  <2>1. PICK m : m = LilAdd(rows, r, c, v)
    OBVIOUS
  <2>2. PICK t : t = m.list
    OBVIOUS
  <2>3. rows' = t /\ lilSize' = lilSize + m.more
    BY <1>8, <2>1, <2>2, Zenon DEF Written, LilAssign
  <2>4. v \in CellValues /\ GoodRows(rows) /\ Full(rows)
    BY <1>8 DEF MatrixInv
  <2>5. /\ GoodRows(t) /\ Full(t)
        /\ \A k, j, w : Holds(t, k, j, w) <=> IF k = r /\ j = c THEN w = v ELSE Holds(rows, k, j, w)
        /\ (\E w : Holds(rows, r, c, w)) => m.more = 0
        /\ (\A w : ~ Holds(rows, r, c, w)) => m.more = 1
    <3>1. /\ GoodRows(rows) /\ Full(rows) /\ r \in 0 .. MaxRow /\ c \in 0 .. MaxColumn
          /\ v \in CellValues /\ v # zero_value /\ m = LilAdd(rows, r, c, v)
      BY <1>8, <2>1, <2>4
    <3>2. GoodRows(m.list) /\ Full(m.list)
      BY ONLY <3>1, LilAddIs
    <3>3. \A k, j, w : Holds(m.list, k, j, w) <=> IF k = r /\ j = c THEN w = v ELSE Holds(rows, k, j, w)
      BY ONLY <3>1, LilAddIs
    <3>4. (\E w : Holds(rows, r, c, w)) => m.more = 0
      BY ONLY <3>1, LilAddIs
    <3>5. (\A w : ~ Holds(rows, r, c, w)) => m.more = 1
      BY ONLY <3>1, LilAddIs
    <3> QED
      BY <2>2, <3>2, <3>3, <3>4, <3>5, Zenon
  <2>6. PICK d : d = dok'
    OBVIOUS
  <2>7. d = DokAdd(dok, cell, v)
    BY <1>1, <1>8, <2>6, Zenon DEF Written, DokAssign
  <2>8. DOMAIN d = D \cup {cell} /\ d[cell] = v /\ \A k \in D : k # cell => d[k] = dok[k]
    BY <1>2, <2>7, DokAddIs
  <2>9. IsFiniteSet(D \cup {cell}) /\ Cardinality(D \cup {cell}) = IF cell \in D THEN Cardinality(D) ELSE Cardinality(D) + 1
    BY <1>3, FS_AddElement
  <2>10. m.more = IF cell \in D THEN 0 ELSE 1
    BY <1>7, <2>5
  <2>11. lilSize' = Cardinality(D \cup {cell})
    BY <1>3, <2>3, <2>9, <2>10
  <2>12. ASSUME NEW k, NEW j, NEW w
         PROVE  Holds(t, k, j, w) <=> <<k, j>> \in DOMAIN d /\ d[<<k, j>>] = w
    <3>1. PICK x : x = <<k, j>>
      OBVIOUS
    <3>2. CASE x = cell
      <4>1. Holds(t, k, j, w) <=> w = v
        BY <1>6, <2>5, <3>1, <3>2
      <4> QED
        BY <2>8, <3>1, <3>2, <4>1
    <3>3. CASE x # cell
      <4>1. Holds(t, k, j, w) <=> Holds(rows, k, j, w)
        BY <1>6, <2>5, <3>1, <3>3
      <4>2. Holds(rows, k, j, w) <=> x \in D /\ dok[x] = w
        BY <1>4, <3>1
      <4> QED
        BY <2>8, <3>1, <3>3, <4>1, <4>2
    <3> QED
      BY <3>2, <3>3
  <2> QED
    BY <1>3, <1>5, <2>3, <2>5, <2>6, <2>8, <2>9, <2>11, <2>12 DEF MatrixInv
<1>9. CASE v = zero_value
  <2>1. PICK m : m = LilDelete(rows, r, c)
    OBVIOUS
  <2>2. PICK t : t = m.list
    OBVIOUS
  <2>3. rows' = t /\ lilSize' = lilSize + m.more
    BY <1>9, <2>1, <2>2, Zenon DEF Written, LilAssign
  <2>4. GoodRows(rows) /\ Full(rows)
    BY DEF MatrixInv
  <2>5. /\ GoodRows(t) /\ Full(t)
        /\ \A k, j, w : Holds(t, k, j, w) <=> ~ (k = r /\ j = c) /\ Holds(rows, k, j, w)
        /\ (\E w : Holds(rows, r, c, w)) => m.more = -1
        /\ (\A w : ~ Holds(rows, r, c, w)) => m.more = 0
    BY <2>1, <2>2, <2>4, LilDeleteIs
  <2>6. PICK d : d = dok'
    OBVIOUS
  <2>7. d = DokDelete(dok, cell)
    BY <1>1, <1>9, <2>6, Zenon DEF Written, DokAssign
  <2>8. DOMAIN d = D \ {cell} /\ \A k \in D : k # cell => d[k] = dok[k]
    <3>1. DOMAIN d = DOMAIN dok \ {cell}
      BY ONLY <2>7 DEF DokDelete
    <3>2. \A k \in DOMAIN dok : k # cell => d[k] = dok[k]
      BY ONLY <2>7, Zenon DEF DokDelete
    <3> QED
      BY <1>2, <3>1, <3>2, Zenon
  <2>9. IsFiniteSet(D \ {cell}) /\ Cardinality(D \ {cell}) = IF cell \in D THEN Cardinality(D) - 1 ELSE Cardinality(D)
    BY <1>3, FS_RemoveElement
  <2>10. m.more = IF cell \in D THEN -1 ELSE 0
    BY <1>7, <2>5
  <2>11. lilSize' = Cardinality(D \ {cell})
    BY <1>3, <2>3, <2>9, <2>10
  <2>12. ASSUME NEW k, NEW j, NEW w
         PROVE  Holds(t, k, j, w) <=> <<k, j>> \in DOMAIN d /\ d[<<k, j>>] = w
    <3>1. PICK x : x = <<k, j>>
      OBVIOUS
    <3>2. CASE x = cell
      <4>1. ~ Holds(t, k, j, w)
        BY <1>6, <2>5, <3>1, <3>2
      <4> QED
        BY <2>8, <3>1, <3>2, <4>1
    <3>3. CASE x # cell
      <4>1. Holds(t, k, j, w) <=> Holds(rows, k, j, w)
        BY <1>6, <2>5, <3>1, <3>3
      <4>2. Holds(rows, k, j, w) <=> x \in D /\ dok[x] = w
        BY <1>4, <3>1
      <4> QED
        BY <2>8, <3>1, <3>3, <4>1, <4>2
    <3> QED
      BY <3>2, <3>3
  <2> QED
    BY <1>3, <1>5, <2>3, <2>5, <2>6, <2>8, <2>9, <2>11, <2>12 DEF MatrixInv
<1> QED
  BY <1>8, <1>9

\* A read gives the same from all three, a value that may be written.
LEMMA SameValues ==
  ASSUME MatrixInv, NEW r \in 0 .. MaxRow, NEW c \in 0 .. MaxColumn,
         NEW cell, cell = <<r, c>>, NEW v, v = LilValue(rows, r, c)
  PROVE  /\ v = DokValue(dok, cell) /\ v = MultiValue(multi, r, c)
         /\ cell \in DOMAIN dok <=> v # zero_value
         /\ v \in CellValues \cup {zero_value}
<1>1. GoodRows(rows) /\ multi = dok
  BY DEF MatrixInv
<1>2. \A w : Holds(rows, r, c, w) <=> cell \in DOMAIN dok /\ dok[cell] = w
  BY Zenon DEF MatrixInv
<1>3. \/ v = zero_value /\ \A w : ~ Holds(rows, r, c, w)
      \/ v # zero_value /\ \A w : Holds(rows, r, c, w) <=> w = v
  BY <1>1, LilValueIs
<1>4. MultiValue(multi, r, c) = DokValue(dok, cell)
  BY <1>1, MultiIndexesAre, Zenon DEF MultiValue
<1>5. v = DokValue(dok, cell) /\ (cell \in DOMAIN dok <=> v # zero_value)
  BY <1>2, <1>3 DEF DokValue
<1>6. v # zero_value => v \in CellValues
  <2> SUFFICES ASSUME v # zero_value PROVE v \in CellValues
    OBVIOUS
  <2>1. Holds(rows, r, c, v)
    BY <1>3
  <2>2. PICK row \in Range(rows) : Has(row.column, c, v)
    BY <2>1, Zenon DEF Holds
  <2>3. row.column \in Seq(ColNodes)
    BY <1>1, <2>2, Zenon DEF GoodRows, GoodColumn
  <2>4. PICK n \in Range(row.column) : n.val = v
    BY <2>2, Zenon DEF Has
  <2>5. n \in ColNodes
    BY <2>3, <2>4, RangeOf, ElementOfSeq, LenProperties
  <2> QED
    BY <2>4, <2>5, NodesAre
<1> QED
  BY <1>4, <1>5, <1>6

\* The matrices' invariant holds, for every number of rows and of columns and
\* every set of values.
THEOREM MatrixInvariant == MatrixSpec => []MatrixInv
<1>1. MatrixInit => MatrixInv
  <2> SUFFICES ASSUME MatrixInit PROVE MatrixInv
    OBVIOUS
  <2>1. rows = <<>> /\ lilSize = 0 /\ multi = dok /\ DOMAIN dok = {}
    BY DEF MatrixInit, NoCells
  <2>2. rows \in Seq(RowNodes) /\ Len(rows) = 0 /\ Range(rows) = {}
    BY <2>1, EmptySeq DEF Range
  <2>3. 1 .. 0 = {}
    OBVIOUS
  <2>4. GoodRows(rows) /\ Full(rows)
    BY <2>2, <2>3 DEF GoodRows, Full, Sorted
  <2>5. \A r, c, v : ~ Holds(rows, r, c, v)
    BY <2>2 DEF Holds
  <2>6. IsFiniteSet({}) /\ Cardinality({}) = 0
    BY FS_EmptySet
  <2> QED
    BY <2>1, <2>4, <2>5, <2>6 DEF MatrixInv
<1>2. MatrixInv /\ [MatrixNext]_matrixVars => MatrixInv'
  <2> SUFFICES ASSUME MatrixInv, [MatrixNext]_matrixVars PROVE MatrixInv'
    OBVIOUS
  <2>1. ASSUME NEW cell \in Cell, NEW v \in CellValues \cup {zero_value}, Assign(cell[1], cell[2], v)
        PROVE  MatrixInv'
    <3>1. PICK r \in 0 .. MaxRow, c \in 0 .. MaxColumn : cell[1] = r /\ cell[2] = c
      BY DEF Cell
    <3> QED
      BY <2>1, <3>1, WrittenKeeps DEF Assign
  <2>2. ASSUME NEW cell \in Cell, NEW from \in Cell, CopyCell(cell[1], cell[2], from[1], from[2])
        PROVE  MatrixInv'
    <3>1. PICK r \in 0 .. MaxRow, c \in 0 .. MaxColumn : cell[1] = r /\ cell[2] = c
      BY DEF Cell
    <3>2. PICK i \in 0 .. MaxRow, j \in 0 .. MaxColumn : from[1] = i /\ from[2] = j
      BY DEF Cell
    <3>3. PICK v : v = LilValue(rows, i, j)
      OBVIOUS
    <3>4. PICK x : x = <<i, j>>
      OBVIOUS
    <3>5. v = DokValue(dok, x) /\ v = MultiValue(multi, i, j) /\ v \in CellValues \cup {zero_value}
      BY <3>3, <3>4, SameValues
    <3>6. Written(r, c, LilValue(rows, i, j), DokValue(dok, <<i, j>>), MultiValue(multi, i, j))
      BY <2>2, <3>1, <3>2, Zenon DEF CopyCell
    <3>7. Written(r, c, v, v, v)
      BY <3>3, <3>4, <3>5, <3>6, Zenon
    <3> QED
      BY <3>5, <3>7, WrittenKeeps
  <2>3. CASE UNCHANGED matrixVars
    BY <2>3, Zenon DEF MatrixInv, matrixVars
  <2> QED
    BY <2>1, <2>2, <2>3, Zenon DEF MatrixNext
<1> QED
  BY <1>1, <1>2, PTL DEF MatrixSpec

\* What the invariant says of every read and of the walk.
LEMMA MatricesAreSound ==
  ASSUME MatrixInv
  PROVE  MatricesAgree
<1>1. PICK cells : cells = LilCells(rows)
  OBVIOUS
<1>2. PICK D : D = DOMAIN dok
  OBVIOUS
<1>3. /\ GoodRows(rows) /\ Full(rows) /\ D \subseteq Cell /\ IsFiniteSet(D) /\ lilSize = Cardinality(D)
      /\ \A r, c, v : Holds(rows, r, c, v) <=> <<r, c>> \in D /\ dok[<<r, c>>] = v
  BY <1>2, Zenon DEF MatrixInv
<1>4. /\ cells \in Seq(Triples) /\ Ordered(cells)
      /\ \A r, c, v : <<r, c, v>> \in Range(cells) <=> Holds(rows, r, c, v)
  BY <1>1, <1>3, LilCellsAre
<1>5. DOMAIN cells = 1 .. Len(cells)
  BY <1>4, LenProperties
<1>6. \A cell \in Cell : cell = <<cell[1], cell[2]>> /\ cell[1] \in 0 .. MaxRow /\ cell[2] \in 0 .. MaxColumn
  BY DEF Cell
<1>7. Len(cells) = lilSize
  <2>1. \A cell \in D : cell = <<cell[1], cell[2]>>
    BY <1>3, <1>6
  <2>2. \A r, c : <<r, c>> \in D <=> \E v : <<r, c, v>> \in Range(cells)
    BY <1>3, <1>4, Zenon
  <2> QED
    BY <1>3, <1>4, <2>1, <2>2, CountCells
<1>8. Walkable(rows)
  <2>1. rows \in Seq(RowNodes) /\ DOMAIN rows = 1 .. Len(rows)
    BY <1>3, LenProperties DEF GoodRows
  <2>2. \A i \in DOMAIN rows : rows[i] \in Range(rows)
    BY <2>1, RangeOf
  <2> QED
    BY <1>3, <2>2 DEF Walkable, Full
<1>9. \A i, j \in DOMAIN cells :
        i < j => cells[i][1] < cells[j][1] \/ (cells[i][1] = cells[j][1] /\ cells[i][2] < cells[j][2])
  BY <1>4, <1>5, Zenon DEF Ordered, Before
<1>10. ASSUME NEW cell \in Cell
       PROVE  /\ LilValue(rows, cell[1], cell[2]) = DokValue(dok, cell)
              /\ MultiValue(multi, cell[1], cell[2]) = DokValue(dok, cell)
              /\ cell \in D <=> DokValue(dok, cell) # zero_value
              /\ cell \in D => <<cell[1], cell[2], dok[cell]>> \in {cells[i] : i \in DOMAIN cells}
  <2>1. PICK r \in 0 .. MaxRow, c \in 0 .. MaxColumn : cell[1] = r /\ cell[2] = c /\ cell = <<r, c>>
    BY <1>6
  <2>2. PICK v : v = LilValue(rows, r, c)
    OBVIOUS
  <2>3. v = DokValue(dok, cell) /\ v = MultiValue(multi, r, c) /\ (cell \in D <=> v # zero_value)
    BY <1>2, <2>1, <2>2, SameValues
  <2>4. ASSUME cell \in D
        PROVE  <<r, c, dok[cell]>> \in {cells[i] : i \in DOMAIN cells}
    <3>1. Holds(rows, r, c, dok[cell])
      <4>1. PICK w : w = dok[cell]
        OBVIOUS
      <4>2. <<r, c>> \in D /\ dok[<<r, c>>] = w
        BY <2>1, <2>4, <4>1
      <4> QED
        BY <1>3, <4>1, <4>2
    <3>2. <<r, c, dok[cell]>> \in Range(cells)
      BY <1>4, <3>1, Zenon
    <3> QED
      BY <3>2, Zenon DEF Range
  <2> QED
    BY <2>1, <2>2, <2>3, <2>4, Zenon
<1> QED
  BY <1>1, <1>2, <1>3, <1>7, <1>8, <1>9, <1>10 DEF MatricesAgree

\* MatricesAgree holds in every state (src/OTUSLesson11/lil_sparse_matrix.h:116):
\* the three matrices read alike, size_ is the number of cells, and the walk
\* meets each of them once, in order.
THEOREM MatricesSound == MatrixSpec => []MatricesAgree
BY MatrixInvariant, MatricesAreSound, PTL

-----------------------------------------------------------------------------
\* The joins of the database.

\* A recursive function on places of a rank below n exists when its step g
\* looks at places of a lower rank only.
StepType(g, P, Y) == \A p \in P : \A W \in [P -> Y] : g[<<p, W>>] \in Y

StepLooksBelow(g, P, Y, rank) ==
  \A p \in P : \A V, W \in [P -> Y] :
    (\A q \in P : rank[q] < rank[p] => V[q] = W[q]) => g[<<p, V>>] = g[<<p, W>>]

IsWalk(W, g, P) == W = [p \in P |-> g[<<p, W>>]]

LEMMA WalkExists ==
  ASSUME NEW P, NEW Y, NEW base \in Y, NEW n \in Nat, NEW rank \in [P -> Nat], \A p \in P : rank[p] < n,
         NEW g, StepType(g, P, Y), StepLooksBelow(g, P, Y, rank)
  PROVE  \E W \in [P -> Y] : IsWalk(W, g, P)
<1> USE DEF StepType, StepLooksBelow, IsWalk
<1> DEFINE X == [P -> Y]
           h == [kx \in (1 .. n + 1) \X X |-> [p \in P |-> g[<<p, kx[2]>>]]]
<1>1. ASSUME NEW k \in 1 .. n + 1, NEW x \in X PROVE h[<<k, x>>] = [p \in P |-> g[<<p, x>>]] /\ h[<<k, x>>] \in X
  <2>1. h[<<k, x>>] = [p \in P |-> g[<<p, x>>]]
    OBVIOUS
  <2>2. [p \in P |-> g[<<p, x>>]] \in X
    OBVIOUS
  <2> HIDE DEF h, X
  <2> QED
    BY <2>1, <2>2
<1>2. PICK start \in X : start = [p \in P |-> base]
  OBVIOUS
<1> HIDE DEF h
<1>3. PICK hh : hh = h
  OBVIOUS
<1>4. PICK m \in Nat : m = n + 1
  OBVIOUS
<1>5. PICK F : /\ F = [k \in 0 .. m |-> IF k = 0 THEN start ELSE hh[<<k, F[k - 1]>>]]
               /\ F \in [0 .. m -> X]
  <2>1. PICK A : A = X
    OBVIOUS
  <2> HIDE DEF X
  <2>2. start \in A /\ \A k \in 1 .. m : \A x \in A : hh[<<k, x>>] \in A
    BY <1>1, <1>3, <1>4, <2>1
  <2>3. \E F : /\ F = [k \in 0 .. m |-> IF k = 0 THEN start ELSE hh[<<k, F[k - 1]>>]]
               /\ F \in [0 .. m -> A]
    BY ONLY <2>2, m \in Nat, Recursion
  <2> QED
    BY <2>1, <2>3
<1> HIDE DEF X
<1>6. ASSUME NEW k \in 0 .. n
      PROVE  F[k] \in X /\ F[k + 1] \in X /\ F[k + 1] = [p \in P |-> g[<<p, F[k]>>]]
  <2>1. PICK j \in 0 .. m : j = k + 1
    BY <1>4
  <2>2. F[j] = IF j = 0 THEN start ELSE hh[<<j, F[j - 1]>>]
    BY ONLY <1>5
  <2>3. j - 1 = k /\ j # 0 /\ j \in 1 .. n + 1 /\ k \in 0 .. m
    BY <1>4, <2>1
  <2>4. F[j] = hh[<<j, F[k]>>]
    BY <2>2, <2>3
  <2>5. F[k] \in X /\ F[j] \in X
    BY <1>5, <2>3
  <2>6. PICK x \in X : x = F[k]
    BY <2>5
  <2> QED
    BY <1>1, <1>3, <2>1, <2>3, <2>4, <2>5, <2>6
<1> DEFINE D == {k \in 0 .. n : \A p \in P : rank[p] < k => F[k + 1][p] = F[k][p]}
<1>7. 0 \in D
  OBVIOUS
<1>8. ASSUME NEW k \in Nat, k < n, k \in D
      PROVE  k + 1 \in D
  <2>1. k \in 0 .. n /\ k + 1 \in 0 .. n
    BY <1>8
  <2>2. PICK V \in X : V = F[k]
    BY <1>6, <2>1
  <2>3. PICK W \in X : W = F[k + 1]
    BY <1>6, <2>1
  <2>4. W = [p \in P |-> g[<<p, V>>]]
    BY <1>6, <2>1, <2>2, <2>3
  <2>5. F[k + 1 + 1] = [p \in P |-> g[<<p, W>>]]
    BY <1>6, <2>1, <2>3
  <2>6. \A p \in P : rank[p] < k => W[p] = V[p]
    BY <1>8, <2>2, <2>3
  <2>7. ASSUME NEW p \in P, rank[p] < k + 1
        PROVE  g[<<p, W>>] = g[<<p, V>>]
    <3>1. \A q \in P : rank[q] < rank[p] => W[q] = V[q]
      BY <2>6, <2>7
    <3> QED
      BY <3>1 DEF X
  <2>8. \A p \in P : rank[p] < k + 1 => F[k + 1 + 1][p] = F[k + 1][p]
    BY <2>3, <2>4, <2>5, <2>7
  <2> QED
    BY <2>1, <2>8
<1>9. n \in D
  <2> HIDE DEF D
  <2>1. \A k \in 0 .. n : k \in D
    BY <1>7, <1>8, Upwards
  <2> QED
    BY <2>1
<1>20. F[n] \in X /\ F[n + 1] \in X
  <2>1. n \in 0 .. n
    OBVIOUS
  <2> QED
    BY <1>6, <2>1
<1>10. PICK W \in X : W = F[n]
  BY <1>20
<1>11. PICK V \in X : V = F[n + 1]
  BY <1>20
<1>12. V = [p \in P |-> g[<<p, W>>]]
  BY <1>6, <1>10, <1>11
<1>13. \A p \in P : V[p] = W[p]
  BY <1>9, <1>10, <1>11
<1>14. V = W
  BY <1>13 DEF X
<1> QED
  BY <1>12, <1>14 DEF X

\* The rows of a table of the database.
RowsOfTables == [id : Int, name : Nat]

GoodTable(S) == S \subseteq RowsOfTables /\ IsFiniteSet(S) /\ \A r, q \in S : r.id = q.id => r = q

Ascending(s) == \A i, j \in 1 .. Len(s) : i < j => s[i].id < s[j].id

\* An iteration over a table meets all its rows, in the order of their keys.
LEMMA RowsAre ==
  ASSUME NEW S, GoodTable(S), NEW s, s = Rows(S)
  PROVE  s \in Seq(RowsOfTables) /\ Ascending(s) /\ \A x : x \in S <=> \E i \in 1 .. Len(s) : s[i] = x
<1> DEFINE Lower(x) == {y \in S : y.id < x.id}
<1>1. \A x \in S : x \in RowsOfTables /\ x.id \in Int /\ x.name \in Nat
  BY DEF GoodTable, RowsOfTables
<1>2. PICK n \in Nat : n = Cardinality(S)
  <2>1. IsFiniteSet(S)
    BY DEF GoodTable
  <2>2. Cardinality(S) \in Nat
    BY <2>1, FS_CardinalityType
  <2> QED
    BY <2>2
<1>3. ASSUME NEW x \in S
      PROVE  {y \in S : y.id < x.id \/ (y.id = x.id /\ y.name < x.name)} = Lower(x)
  <2>1. \A y \in S : ~ (y.id = x.id /\ y.name < x.name)
    BY <1>1 DEF GoodTable
  <2> QED
    BY <2>1
<1> HIDE DEF Lower
<1>4. s = [k \in 1 .. n |-> CHOOSE x \in S : Cardinality(Lower(x)) = k - 1]
  <2>1. s = [k \in 1 .. Cardinality(S) |->
               CHOOSE x \in S : Cardinality({y \in S : y.id < x.id \/ (y.id = x.id /\ y.name < x.name)}) = k - 1]
    BY Zenon DEF Rows
  <2> QED
    BY <1>2, <1>3, <2>1, Zenon
<1> DEFINE f == [x \in S |-> Cardinality(Lower(x))]
<1>5. ASSUME NEW x \in S
      PROVE  IsFiniteSet(Lower(x)) /\ f[x] = Cardinality(Lower(x)) /\ f[x] \in 0 .. n - 1
  <2>1. Lower(x) \subseteq S /\ x \notin Lower(x)
    BY <1>1 DEF Lower
  <2>2. IsFiniteSet(Lower(x)) /\ Cardinality(Lower(x)) <= Cardinality(S)
        /\ (Cardinality(Lower(x)) = Cardinality(S) => S = Lower(x))
    <3>1. IsFiniteSet(S)
      BY DEF GoodTable
    <3>2. PICK L : L = Lower(x)
      OBVIOUS
    <3>3. L \in SUBSET S
      BY <2>1, <3>2
    <3>4. IsFiniteSet(L) /\ Cardinality(L) <= Cardinality(S) /\ (Cardinality(S) = Cardinality(L) => S = L)
      BY ONLY <3>1, <3>3, FS_Subset
    <3> QED
      BY <3>2, <3>4
  <2>3. Cardinality(Lower(x)) \in Nat
    BY <2>2, FS_CardinalityType
  <2>4. f[x] = Cardinality(Lower(x))
    OBVIOUS
  <2> HIDE DEF f
  <2> QED
    BY <1>2, <2>1, <2>2, <2>3, <2>4
<1>6. ASSUME NEW x \in S, NEW y \in S, x.id < y.id
      PROVE  f[x] < f[y]
  <2>1. Lower(x) \subseteq Lower(y) /\ x \in Lower(y) /\ x \notin Lower(x)
    BY <1>1, <1>6 DEF Lower
  <2>2. Cardinality(Lower(x)) <= Cardinality(Lower(y))
        /\ (Cardinality(Lower(x)) = Cardinality(Lower(y)) => Lower(y) = Lower(x))
    <3>1. PICK L, M : L = Lower(x) /\ M = Lower(y)
      OBVIOUS
    <3>2. L \in SUBSET M /\ IsFiniteSet(M)
      BY <1>5, <2>1, <3>1
    <3>3. Cardinality(L) <= Cardinality(M) /\ (Cardinality(M) = Cardinality(L) => M = L)
      BY ONLY <3>2, FS_Subset
    <3> QED
      BY <3>1, <3>3
  <2> HIDE DEF f
  <2>3. f[x] \in Int /\ f[y] \in Int
    BY <1>5
  <2> QED
    BY <1>5, <2>1, <2>2, <2>3
<1> HIDE DEF f
<1>7. \A x, y \in S : f[x] = f[y] => x = y
  <2> SUFFICES ASSUME NEW x \in S, NEW y \in S, f[x] = f[y] PROVE x = y
    OBVIOUS
  <2>1. ~ (x.id < y.id) /\ ~ (y.id < x.id)
    BY <1>5, <1>6
  <2>2. x.id = y.id
    BY <1>1, <2>1
  <2> QED
    BY <2>2 DEF GoodTable
<1>8. f \in [S -> 0 .. n - 1]
  BY <1>5 DEF f
<1>9. f \in Injection(S, 0 .. n - 1)
  BY <1>7, <1>8, Zenon DEF Injection, IsInjective
<1>10. f \in Surjection(S, 0 .. n - 1)
  <2>0. PICK m \in Int : m = n - 1
    OBVIOUS
  <2>1. IsFiniteSet(0 .. m)
    BY FS_Interval
  <2>2. Cardinality(0 .. m) = IF 0 > m THEN 0 ELSE m - 0 + 1
    BY FS_Interval
  <2>3. Cardinality(0 .. m) = n
    BY <2>0, <2>2
  <2>4. Cardinality(S) = Cardinality(0 .. m) <=> f \in Surjection(S, 0 .. m)
    <3>1. PICK T : T = 0 .. m
      OBVIOUS
    <3>2. f \in Injection(S, T) /\ IsFiniteSet(T)
      BY <1>9, <2>0, <2>1, <3>1
    <3>3. Cardinality(S) = Cardinality(T) <=> f \in Surjection(S, T)
      BY ONLY <3>2, FS_Injection
    <3> QED
      BY <3>1, <3>3
  <2> QED
    BY <1>2, <2>0, <2>3, <2>4
<1>11. ASSUME NEW k \in 1 .. n
       PROVE  s[k] \in S /\ f[s[k]] = k - 1
  <2>1. PICK y \in S : f[y] = k - 1
    <3>1. k - 1 \in 0 .. n - 1
      OBVIOUS
    <3> QED
      BY <1>10, <3>1 DEF Surjection
  <2>2. Cardinality(Lower(y)) = k - 1
    BY <1>5, <2>1
  <2>3. s[k] = CHOOSE x \in S : Cardinality(Lower(x)) = k - 1
    BY ONLY <1>4, k \in 1 .. n
  <2>4. s[k] \in S /\ Cardinality(Lower(s[k])) = k - 1
    BY <2>2, <2>3, Zenon
  <2> QED
    BY <1>5, <2>4
<1>12. s \in Seq(RowsOfTables) /\ Len(s) = n
  <2>1. \A k \in 1 .. n : s[k] \in RowsOfTables
    BY <1>1, <1>11
  <2>2. s \in [1 .. n -> RowsOfTables]
    BY <1>4, <2>1, Zenon
  <2> QED
    BY <2>2, IsASeq
<1>13. Ascending(s)
  <2> SUFFICES ASSUME NEW i \in 1 .. n, NEW j \in 1 .. n, i < j PROVE s[i].id < s[j].id
    BY <1>12 DEF Ascending
  <2>1. s[i] \in S /\ s[j] \in S /\ f[s[i]] = i - 1 /\ f[s[j]] = j - 1
    BY <1>11
  <2>2. ~ (s[j].id < s[i].id)
    BY <1>6, <2>1
  <2>3. s[j].id # s[i].id
    <3>1. s[j] # s[i]
      BY <2>1
    <3> QED
      BY <2>1, <3>1 DEF GoodTable
  <2> QED
    BY <1>1, <2>1, <2>2, <2>3
<1>14. ASSUME NEW x \in S
       PROVE  \E i \in 1 .. n : s[i] = x
  <2>1. PICK i \in 1 .. n : i = f[x] + 1
    BY <1>5
  <2>2. s[i] \in S /\ f[s[i]] = f[x]
    BY <1>5, <1>11, <2>1
  <2> QED
    BY <1>7, <2>2
<1> QED
  BY <1>11, <1>12, <1>13, <1>14


\* The lines of a join.
Lines == [id : Int, a : Nat, b : Nat]

Meets(s, x) == \E i \in 1 .. Len(s) : s[i] = x

LEMMA LineIs ==
  ASSUME NEW id \in Int, NEW a \in Nat, NEW b \in Nat
  PROVE  Line(id, a, b) \in Lines /\ Line(id, a, b).id = id
BY DEF Line, Lines

LEMMA EmplacedType ==
  ASSUME NEW l \in Lines, NEW rest \in Seq(Lines)
  PROVE  Emplaced(l, rest) \in Seq(Lines)
<1>1. PICK w : w = IF rest # <<>> /\ Head(rest).id = l.id THEN Tail(rest) ELSE rest
  OBVIOUS
<1>2. w \in Seq(Lines)
  BY <1>1
<1>3. Emplaced(l, rest) = <<l>> \o w
  BY <1>1 DEF Emplaced
<1> QED
  BY ONLY l \in Lines, <1>2, <1>3

\* The rows of e are l and those of w.
MeetsAlso(e, l, w) == \A x : Meets(e, x) <=> x = l \/ Meets(w, x)

\* A line before all others is put in front of them.
LEMMA EmplacedIs ==
  ASSUME NEW l \in Lines, NEW rest \in Seq(Lines), Ascending(rest),
         \A i \in 1 .. Len(rest) : l.id < rest[i].id
  PROVE  /\ Emplaced(l, rest) \in Seq(Lines)
         /\ Ascending(Emplaced(l, rest))
         /\ MeetsAlso(Emplaced(l, rest), l, rest)
<1>1. ASSUME NEW i \in 1 .. Len(rest) PROVE rest[i].id \in Int
  <2>1. rest[i] \in Lines
    OBVIOUS
  <2> QED
    BY <2>1 DEF Lines
<1>2. l.id \in Int
  BY DEF Lines
<1>3. ~ (rest # <<>> /\ Head(rest).id = l.id)
  <2> SUFFICES ASSUME rest # <<>> PROVE Head(rest).id # l.id
    OBVIOUS
  <2>1. Len(rest) \in Nat /\ Len(rest) # 0 /\ Head(rest) = rest[1]
    OBVIOUS
  <2>2. 1 \in 1 .. Len(rest)
    BY <2>1
  <2> QED
    BY <1>1, <1>2, <2>1, <2>2
<1>4. PICK e : e = Emplaced(l, rest)
  OBVIOUS
<1>5. e = <<l>> \o rest
  BY <1>3, <1>4 DEF Emplaced
<1>6. PICK n \in Nat : n = Len(rest)
  OBVIOUS
<1>7. /\ e \in Seq(Lines) /\ Len(e) = n + 1 /\ e[1] = l
      /\ \A i \in 1 .. n : e[i + 1] = rest[i]
  BY ONLY l \in Lines, rest \in Seq(Lines), <1>5, <1>6
<1>8. \A i \in 2 .. n + 1 : i - 1 \in 1 .. n /\ e[i] = rest[i - 1]
  BY ONLY n \in Nat, <1>7
<1>9. Ascending(e)
  <2> SUFFICES \A i, j \in 1 .. n + 1 : i < j => e[i].id < e[j].id
    <3>1. Len(e) = n + 1
      BY <1>7
    <3> QED
      BY ONLY <3>1, \A i, j \in 1 .. n + 1 : i < j => e[i].id < e[j].id, Zenon DEF Ascending
  <2> SUFFICES ASSUME NEW i \in 1 .. n + 1, NEW j \in 1 .. n + 1, i < j PROVE e[i].id < e[j].id
    OBVIOUS
  <2>1. j \in 2 .. n + 1
    OBVIOUS
  <2>2. e[j] = rest[j - 1] /\ j - 1 \in 1 .. n
    BY ONLY <1>8, <2>1
  <2>3. CASE i = 1
    BY ONLY <1>6, <1>7, <2>2, <2>3, \A k \in 1 .. Len(rest) : l.id < rest[k].id
  <2>4. CASE i # 1
    <3>1. i \in 2 .. n + 1 /\ i - 1 < j - 1
      BY <2>4
    <3>2. e[i] = rest[i - 1] /\ i - 1 \in 1 .. n
      BY ONLY <1>8, <3>1
    <3> QED
      BY ONLY <1>6, <2>2, <3>1, <3>2, Ascending(rest) DEF Ascending
  <2> QED
    BY <2>3, <2>4
<1>10. ASSUME NEW x PROVE Meets(e, x) <=> x = l \/ Meets(rest, x)
  <2>1. ASSUME Meets(e, x) PROVE x = l \/ Meets(rest, x)
    <3>1. PICK i \in 1 .. n + 1 : e[i] = x
      BY <1>7, <2>1 DEF Meets
    <3>2. i = 1 \/ i \in 2 .. n + 1
      OBVIOUS
    <3> QED
      BY ONLY <1>6, <1>7, <1>8, <3>1, <3>2 DEF Meets
  <2>2. ASSUME x = l PROVE Meets(e, x)
    <3>1. 1 \in 1 .. n + 1
      OBVIOUS
    <3> QED
      BY ONLY <1>7, <2>2, <3>1 DEF Meets
  <2>3. ASSUME Meets(rest, x) PROVE Meets(e, x)
    <3>1. PICK i \in 1 .. n : rest[i] = x
      BY <1>6, <2>3 DEF Meets
    <3>2. i + 1 \in 1 .. n + 1
      OBVIOUS
    <3> QED
      BY ONLY <1>7, <3>1, <3>2 DEF Meets
  <2> QED
    BY <2>1, <2>2, <2>3
<1> QED
  BY <1>4, <1>7, <1>9, <1>10 DEF MeetsAlso

\* One step of the walk over the ids of both tables.
InterStep(W, s, t, at) ==
  LET i == at[1]
      j == at[2]
  IN  CASE i > Len(s) \/ j > Len(t) -> <<>>
        [] OTHER ->
             CASE Behind(s[i], t[j]) -> W[<<i + 1, j>>]
               [] Behind(t[j], s[i]) -> W[<<i, j + 1>>]
               [] OTHER -> Emplaced(Line(s[i].id, s[i].name, t[j].name), W[<<i + 1, j + 1>>])

IsInter(W, s, t) == W = [at \in WalkPlaces(s, t) |-> InterStep(W, s, t, at)]

LEMMA PlacesAre ==
  ASSUME NEW s \in Seq(RowsOfTables), NEW t \in Seq(RowsOfTables)
  PROVE  /\ \A at \in WalkPlaces(s, t) : /\ at = <<at[1], at[2]>>
                                         /\ at[1] \in 1 .. Len(s) + 1 /\ at[2] \in 1 .. Len(t) + 1
         /\ \A i \in 1 .. Len(s) + 1, j \in 1 .. Len(t) + 1 : <<i, j>> \in WalkPlaces(s, t)
BY DEF WalkPlaces

LEMMA RowIs ==
  ASSUME NEW s \in Seq(RowsOfTables), NEW i \in 1 .. Len(s)
  PROVE  s[i].id \in Int /\ s[i].name \in Nat
<1>1. s[i] \in RowsOfTables
  OBVIOUS
<1> QED
  BY <1>1 DEF RowsOfTables

InterCases(W, s, t, i, j) ==
  IF i = Len(s) + 1 \/ j = Len(t) + 1 THEN <<>>
  ELSE IF s[i].id < t[j].id THEN W[<<i + 1, j>>]
  ELSE IF t[j].id < s[i].id THEN W[<<i, j + 1>>]
  ELSE Emplaced(Line(s[i].id, s[i].name, t[j].name), W[<<i + 1, j + 1>>])

LEMMA InterStepIs ==
  ASSUME NEW s \in Seq(RowsOfTables), NEW t \in Seq(RowsOfTables), NEW W,
         NEW i \in 1 .. Len(s) + 1, NEW j \in 1 .. Len(t) + 1
  PROVE  InterStep(W, s, t, <<i, j>>) = InterCases(W, s, t, i, j)
<1> USE DEF InterCases
<1>1. i > Len(s) <=> i = Len(s) + 1
  OBVIOUS
<1>2. j > Len(t) <=> j = Len(t) + 1
  OBVIOUS
<1>3. InterStep(W, s, t, <<i, j>>) =
        CASE i > Len(s) \/ j > Len(t) -> <<>>
          [] OTHER ->
               CASE s[i].id < t[j].id -> W[<<i + 1, j>>]
                 [] t[j].id < s[i].id -> W[<<i, j + 1>>]
                 [] OTHER -> Emplaced(Line(s[i].id, s[i].name, t[j].name), W[<<i + 1, j + 1>>])
  <2>1. PICK at : at = <<i, j>>
    OBVIOUS
  <2>2. at[1] = i /\ at[2] = j
    BY <2>1
  <2> QED
    BY ONLY <2>1, <2>2, Zenon DEF InterStep, Behind
<1>4. CASE i = Len(s) + 1 \/ j = Len(t) + 1
  BY ONLY <1>1, <1>2, <1>3, <1>4
<1>5. CASE ~ (i = Len(s) + 1 \/ j = Len(t) + 1)
  <2>1. InterStep(W, s, t, <<i, j>>) =
          CASE s[i].id < t[j].id -> W[<<i + 1, j>>]
            [] t[j].id < s[i].id -> W[<<i, j + 1>>]
            [] OTHER -> Emplaced(Line(s[i].id, s[i].name, t[j].name), W[<<i + 1, j + 1>>])
    BY ONLY <1>1, <1>2, <1>3, <1>5
  <2>2. i \in 1 .. Len(s) /\ j \in 1 .. Len(t)
    BY <1>5
  <2>3. ~ (s[i].id < t[j].id /\ t[j].id < s[i].id)
    BY <2>2, RowIs
  <2> QED
    BY ONLY <1>5, <2>1, <2>3
<1> QED
  BY <1>4, <1>5

LEMMA InterExists ==
  ASSUME NEW s \in Seq(RowsOfTables), NEW t \in Seq(RowsOfTables)
  PROVE  \E W \in [WalkPlaces(s, t) -> Seq(Lines)] : IsInter(W, s, t)
<1>1. PICK n \in Nat, m \in Nat : n = Len(s) /\ m = Len(t)
  OBVIOUS
<1>2. PICK P : P = WalkPlaces(s, t)
  OBVIOUS
<1>3. PICK Y : Y = Seq(Lines)
  OBVIOUS
<1>4. /\ \A at \in P : at = <<at[1], at[2]>> /\ at[1] \in 1 .. n + 1 /\ at[2] \in 1 .. m + 1
      /\ \A i \in 1 .. n + 1, j \in 1 .. m + 1 : <<i, j>> \in P
  BY <1>1, <1>2, PlacesAre
<1> DEFINE rank == [at \in P |-> (n + 1 - at[1]) + (m + 1 - at[2])]
           g == [z \in P \X [P -> Y] |-> InterStep(z[2], s, t, z[1])]
<1>5. ASSUME NEW at \in P
      PROVE  rank[at] = (n + 1 - at[1]) + (m + 1 - at[2])
  OBVIOUS
<1>6. ASSUME NEW at \in P, NEW W \in [P -> Y]
      PROVE  g[<<at, W>>] = InterStep(W, s, t, at)
  OBVIOUS
<1>7. rank \in [P -> Nat] /\ \A at \in P : rank[at] < n + m + 1
  <2>1. ASSUME NEW at \in P PROVE rank[at] \in Nat /\ rank[at] < n + m + 1
    <3>1. PICK i \in 1 .. n + 1, j \in 1 .. m + 1 : at = <<i, j>>
      BY <1>4
    <3>2. rank[at] = (n + 1 - i) + (m + 1 - j)
      BY <1>5, <3>1
    <3> HIDE DEF rank
    <3> QED
      BY <3>2
  <2> QED
    BY <2>1
<1> HIDE DEF rank, g
<1>8. ASSUME NEW at \in P, NEW W \in [P -> Y]
      PROVE  g[<<at, W>>] \in Y
  <2>1. PICK i \in 1 .. n + 1, j \in 1 .. m + 1 : at = <<i, j>>
    BY <1>4
  <2>2. g[<<at, W>>] =
           IF i = n + 1 \/ j = m + 1 THEN <<>>
           ELSE IF s[i].id < t[j].id THEN W[<<i + 1, j>>]
           ELSE IF t[j].id < s[i].id THEN W[<<i, j + 1>>]
           ELSE Emplaced(Line(s[i].id, s[i].name, t[j].name), W[<<i + 1, j + 1>>])
    <3>1. g[<<at, W>>] = InterStep(W, s, t, <<i, j>>)
      BY <1>6, <2>1
    <3>2. i \in 1 .. Len(s) + 1 /\ j \in 1 .. Len(t) + 1
      BY <1>1
    <3> QED
      <4>1. InterStep(W, s, t, <<i, j>>) = InterCases(W, s, t, i, j)
        BY ONLY <3>2, s \in Seq(RowsOfTables), t \in Seq(RowsOfTables), InterStepIs
      <4> QED
        BY ONLY <1>1, <3>1, <4>1 DEF InterCases
  <2>3. <<>> \in Y
    BY <1>3
  <2>4. CASE i = n + 1 \/ j = m + 1
    BY ONLY <2>2, <2>3, <2>4
  <2>5. CASE i # n + 1 /\ j # m + 1
    <3>1. i + 1 \in 1 .. n + 1 /\ j + 1 \in 1 .. m + 1 /\ i \in 1 .. Len(s) /\ j \in 1 .. Len(t)
      BY <1>1, <2>5
    <3>2. <<i + 1, j>> \in P /\ <<i, j + 1>> \in P /\ <<i + 1, j + 1>> \in P
      BY ONLY <1>4, <3>1, i \in 1 .. n + 1, j \in 1 .. m + 1
    <3>3. W[<<i + 1, j>>] \in Y /\ W[<<i, j + 1>>] \in Y /\ W[<<i + 1, j + 1>>] \in Y
      BY ONLY <3>2, W \in [P -> Y]
    <3>4. PICK l \in Lines : l = Line(s[i].id, s[i].name, t[j].name)
      BY <3>1, RowIs, LineIs
    <3>5. PICK rest \in Seq(Lines) : rest = W[<<i + 1, j + 1>>]
      BY <1>3, <3>3
    <3>6. Emplaced(l, rest) \in Y
      BY <1>3, EmplacedType
    <3> QED
      BY ONLY <2>2, <2>5, <3>3, <3>4, <3>5, <3>6
  <2> QED
    BY <2>4, <2>5
<1>9. ASSUME NEW at \in P, NEW V \in [P -> Y], NEW W \in [P -> Y],
             \A q \in P : rank[q] < rank[at] => V[q] = W[q]
      PROVE  g[<<at, V>>] = g[<<at, W>>]
  <2>1. PICK i \in 1 .. n + 1, j \in 1 .. m + 1 : at = <<i, j>>
    BY <1>4
  <2>2. \A Z \in [P -> Y] : g[<<at, Z>>] =
           IF i = n + 1 \/ j = m + 1 THEN <<>>
           ELSE IF s[i].id < t[j].id THEN Z[<<i + 1, j>>]
           ELSE IF t[j].id < s[i].id THEN Z[<<i, j + 1>>]
           ELSE Emplaced(Line(s[i].id, s[i].name, t[j].name), Z[<<i + 1, j + 1>>])
    <3> SUFFICES ASSUME NEW Z \in [P -> Y]
                 PROVE  g[<<at, Z>>] =
           IF i = n + 1 \/ j = m + 1 THEN <<>>
           ELSE IF s[i].id < t[j].id THEN Z[<<i + 1, j>>]
           ELSE IF t[j].id < s[i].id THEN Z[<<i, j + 1>>]
           ELSE Emplaced(Line(s[i].id, s[i].name, t[j].name), Z[<<i + 1, j + 1>>])
      OBVIOUS
    <3>1. g[<<at, Z>>] = InterStep(Z, s, t, <<i, j>>)
      BY <1>6, <2>1
    <3>2. i \in 1 .. Len(s) + 1 /\ j \in 1 .. Len(t) + 1
      BY <1>1
    <3> QED
      <4>1. InterStep(Z, s, t, <<i, j>>) = InterCases(Z, s, t, i, j)
        BY ONLY <3>2, s \in Seq(RowsOfTables), t \in Seq(RowsOfTables), InterStepIs
      <4> QED
        BY ONLY <1>1, <3>1, <4>1 DEF InterCases
  <2>3. CASE i = n + 1 \/ j = m + 1
    BY <2>2, <2>3
  <2>4. CASE i # n + 1 /\ j # m + 1
    <3>1. i + 1 \in 1 .. n + 1 /\ j + 1 \in 1 .. m + 1
      BY <2>4
    <3>2. <<i, j>> \in P /\ <<i + 1, j>> \in P /\ <<i, j + 1>> \in P /\ <<i + 1, j + 1>> \in P
      BY ONLY <1>4, <3>1, i \in 1 .. n + 1, j \in 1 .. m + 1
    <3>3. /\ rank[<<i + 1, j>>] < rank[at] /\ rank[<<i, j + 1>>] < rank[at]
          /\ rank[<<i + 1, j + 1>>] < rank[at]
      <4>1. rank[at] = (n + 1 - i) + (m + 1 - j)
        BY <1>5, <2>1
      <4>2. /\ rank[<<i + 1, j>>] = (n + 1 - (i + 1)) + (m + 1 - j)
            /\ rank[<<i, j + 1>>] = (n + 1 - i) + (m + 1 - (j + 1))
            /\ rank[<<i + 1, j + 1>>] = (n + 1 - (i + 1)) + (m + 1 - (j + 1))
        BY <1>5, <3>2
      <4> QED
        BY <4>1, <4>2
    <3>4. V[<<i + 1, j>>] = W[<<i + 1, j>>] /\ V[<<i, j + 1>>] = W[<<i, j + 1>>]
          /\ V[<<i + 1, j + 1>>] = W[<<i + 1, j + 1>>]
      BY <1>9, <3>2, <3>3
    <3> QED
      BY <2>2, <3>4
  <2> QED
    BY <2>3, <2>4
<1>10. \E W \in [P -> Y] : W = [p \in P |-> g[<<p, W>>]]
  <2>1. PICK k \in Nat : k = n + m + 1
    OBVIOUS
  <2>2. \A p \in P : rank[p] < k
    BY <1>7, <2>1
  <2>3. rank \in [P -> Nat]
    BY <1>7
  <2>4. <<>> \in Y
    BY <1>3
  <2> QED
    <3>1. \A p \in P : \A Z \in [P -> Y] : g[<<p, Z>>] \in Y
      BY <1>8
    <3>2. \A p \in P : \A V, Z \in [P -> Y] :
            (\A q \in P : rank[q] < rank[p] => V[q] = Z[q]) => g[<<p, V>>] = g[<<p, Z>>]
      BY <1>9
    <3> QED
      <4>1. StepType(g, P, Y) /\ StepLooksBelow(g, P, Y, rank)
        BY ONLY <3>1, <3>2 DEF StepType, StepLooksBelow
      <4>2. \E W \in [P -> Y] : IsWalk(W, g, P)
        BY ONLY <2>2, <2>3, <2>4, <4>1, k \in Nat, WalkExists
      <4> QED
        BY ONLY <4>2 DEF IsWalk
<1>11. PICK W \in [P -> Y] : W = [p \in P |-> g[<<p, W>>]]
  BY <1>10
<1>12. \A p \in P : g[<<p, W>>] = InterStep(W, s, t, p)
  BY <1>6
<1>13. IsInter(W, s, t)
  BY ONLY <1>2, <1>11, <1>12 DEF IsInter
<1> QED
  BY <1>2, <1>3, <1>13

LEMMA IntersectionWalks ==
  ASSUME NEW lhs, NEW rhs, Rows(lhs) \in Seq(RowsOfTables), Rows(rhs) \in Seq(RowsOfTables)
  PROVE  \E W : IsInter(W, Rows(lhs), Rows(rhs)) /\ Intersection(lhs, rhs) = W[<<1, 1>>]
<1>1. \E V : IsInter(V, Rows(lhs), Rows(rhs))
  BY InterExists
<1> DEFINE W == CHOOSE W : IsInter(W, Rows(lhs), Rows(rhs))
<1>2. IsInter(W, Rows(lhs), Rows(rhs))
  BY <1>1, Zenon
<1>3. Intersection(lhs, rhs) = W[<<1, 1>>]
  BY Zenon DEF Intersection, IsInter, InterStep
<1> QED
  BY <1>2, <1>3, Zenon

\* The lines of the ids of both tables, from row i of the one and row j of the other.
InterMeets(s, t, i, j, x) ==
  \E a \in i .. Len(s), b \in j .. Len(t) :
    s[a].id = t[b].id /\ x = Line(s[a].id, s[a].name, t[b].name)

LEMMA LaterRows ==
  ASSUME NEW s \in Seq(RowsOfTables), Ascending(s), NEW i \in 1 .. Len(s)
  PROVE  \A a \in i + 1 .. Len(s) : s[i].id < s[a].id /\ s[a].id \in Int
<1> SUFFICES ASSUME NEW a \in i + 1 .. Len(s) PROVE s[i].id < s[a].id /\ s[a].id \in Int
  OBVIOUS
<1>1. a \in 1 .. Len(s) /\ i < a
  OBVIOUS
<1> QED
  BY <1>1, RowIs DEF Ascending

LEMMA InterMeetsIs ==
  ASSUME NEW s \in Seq(RowsOfTables), NEW t \in Seq(RowsOfTables), Ascending(s), Ascending(t),
         NEW i \in 1 .. Len(s), NEW j \in 1 .. Len(t), NEW x
  PROVE  /\ s[i].id < t[j].id => (InterMeets(s, t, i, j, x) <=> InterMeets(s, t, i + 1, j, x))
         /\ t[j].id < s[i].id => (InterMeets(s, t, i, j, x) <=> InterMeets(s, t, i, j + 1, x))
         /\ s[i].id = t[j].id => (InterMeets(s, t, i, j, x) <=>
                                    \/ x = Line(s[i].id, s[i].name, t[j].name)
                                    \/ InterMeets(s, t, i + 1, j + 1, x))
<1>1. PICK n \in Nat, m \in Nat : n = Len(s) /\ m = Len(t)
  OBVIOUS
<1>2. /\ i \in i .. n /\ \A a \in i .. n : a = i \/ a \in i + 1 .. n
      /\ \A a \in i + 1 .. n : a \in i .. n
  BY <1>1
<1>3. /\ j \in j .. m /\ \A b \in j .. m : b = j \/ b \in j + 1 .. m
      /\ \A b \in j + 1 .. m : b \in j .. m
  BY <1>1
<1>4. s[i].id \in Int /\ t[j].id \in Int
  BY RowIs
<1>5. \A a \in i + 1 .. n : s[i].id < s[a].id /\ s[a].id \in Int
  BY <1>1, LaterRows
<1>6. \A b \in j + 1 .. m : t[j].id < t[b].id /\ t[b].id \in Int
  BY <1>1, LaterRows
<1>7. ASSUME s[i].id < t[j].id
      PROVE  \A b \in j .. m : s[i].id # t[b].id
  BY ONLY <1>3, <1>4, <1>6, <1>7
<1>8. ASSUME t[j].id < s[i].id
      PROVE  \A a \in i .. n : s[a].id # t[j].id
  BY ONLY <1>2, <1>4, <1>5, <1>8
<1>9. ASSUME s[i].id = t[j].id
      PROVE  (\A a \in i + 1 .. n : s[a].id # t[j].id) /\ (\A b \in j + 1 .. m : s[i].id # t[b].id)
  BY ONLY <1>4, <1>5, <1>6, <1>9
<1>10. ASSUME s[i].id < t[j].id
       PROVE  InterMeets(s, t, i, j, x) <=> InterMeets(s, t, i + 1, j, x)
  BY ONLY <1>1, <1>2, <1>7, <1>10 DEF InterMeets
<1>11. ASSUME t[j].id < s[i].id
       PROVE  InterMeets(s, t, i, j, x) <=> InterMeets(s, t, i, j + 1, x)
  BY ONLY <1>1, <1>3, <1>8, <1>11 DEF InterMeets
<1>12. ASSUME s[i].id = t[j].id
       PROVE  InterMeets(s, t, i, j, x) <=> \/ x = Line(s[i].id, s[i].name, t[j].name)
                                            \/ InterMeets(s, t, i + 1, j + 1, x)
  BY ONLY <1>1, <1>2, <1>3, <1>9, <1>12 DEF InterMeets
<1> QED
  BY <1>10, <1>11, <1>12

\* What the walk answers from a place.
InterFrom(w, s, t, i, j) ==
  /\ w \in Seq(Lines)
  /\ Ascending(w)
  /\ \A x : Meets(w, x) <=> InterMeets(s, t, i, j, x)

LEMMA NothingMet == <<>> \in Seq(Lines) /\ Ascending(<<>>) /\ \A x : ~ Meets(<<>>, x)
BY DEF Ascending, Meets

LEMMA InterIs ==
  ASSUME NEW s \in Seq(RowsOfTables), NEW t \in Seq(RowsOfTables), Ascending(s), Ascending(t),
         NEW W, IsInter(W, s, t)
  PROVE  InterFrom(W[<<1, 1>>], s, t, 1, 1)
<1>1. PICK n \in Nat, m \in Nat : n = Len(s) /\ m = Len(t)
  OBVIOUS
<1>2. ASSUME NEW i \in 1 .. n + 1, NEW j \in 1 .. m + 1
      PROVE  W[<<i, j>>] = InterCases(W, s, t, i, j)
  <2>1. PICK at \in WalkPlaces(s, t) : at = <<i, j>>
    BY <1>1, PlacesAre
  <2>2. W[at] = InterStep(W, s, t, at)
    BY ONLY IsInter(W, s, t), at \in WalkPlaces(s, t) DEF IsInter
  <2>3. InterStep(W, s, t, <<i, j>>) = InterCases(W, s, t, i, j)
    BY <1>1, InterStepIs
  <2> QED
    BY <2>1, <2>2, <2>3
<1> DEFINE D == {k \in 0 .. n + m :
                  \A i \in 1 .. n + 1, j \in 1 .. m + 1 :
                    (n + 1 - i) + (m + 1 - j) <= k => InterFrom(W[<<i, j>>], s, t, i, j)}
<1>3. ASSUME NEW i \in 1 .. n + 1, NEW j \in 1 .. m + 1, i = n + 1 \/ j = m + 1
      PROVE  InterFrom(W[<<i, j>>], s, t, i, j)
  <2>1. W[<<i, j>>] = <<>>
    BY <1>1, <1>2, <1>3 DEF InterCases
  <2>2. (i .. n) = {} \/ (j .. m) = {}
    BY <1>3
  <2>3. \A x : ~ InterMeets(s, t, i, j, x)
    BY ONLY <1>1, <2>2 DEF InterMeets
  <2> QED
    BY ONLY <2>1, <2>3, NothingMet DEF InterFrom
<1>4. ASSUME NEW i \in 1 .. n, NEW j \in 1 .. m,
             InterFrom(W[<<i + 1, j>>], s, t, i + 1, j), InterFrom(W[<<i, j + 1>>], s, t, i, j + 1),
             InterFrom(W[<<i + 1, j + 1>>], s, t, i + 1, j + 1)
      PROVE  InterFrom(W[<<i, j>>], s, t, i, j)
  <2>1. W[<<i, j>>] = IF s[i].id < t[j].id THEN W[<<i + 1, j>>]
                      ELSE IF t[j].id < s[i].id THEN W[<<i, j + 1>>]
                      ELSE Emplaced(Line(s[i].id, s[i].name, t[j].name), W[<<i + 1, j + 1>>])
    <3>1. i \in 1 .. n + 1 /\ j \in 1 .. m + 1 /\ i # n + 1 /\ j # m + 1
      OBVIOUS
    <3>2. W[<<i, j>>] = InterCases(W, s, t, i, j)
      BY <1>2, <3>1
    <3> QED
      BY ONLY <1>1, <3>1, <3>2 DEF InterCases
  <2>2. i \in 1 .. Len(s) /\ j \in 1 .. Len(t)
    BY <1>1
  <2>3. s[i].id \in Int /\ s[i].name \in Nat /\ t[j].id \in Int /\ t[j].name \in Nat
    BY <2>2, RowIs
  <2>4. CASE s[i].id < t[j].id
    <3>1. W[<<i, j>>] = W[<<i + 1, j>>]
      BY ONLY <2>1, <2>4
    <3>2. \A x : InterMeets(s, t, i, j, x) <=> InterMeets(s, t, i + 1, j, x)
      BY <2>2, <2>4, InterMeetsIs
    <3> QED
      BY ONLY <3>1, <3>2, <1>4 DEF InterFrom
  <2>5. CASE t[j].id < s[i].id
    <3>1. W[<<i, j>>] = W[<<i, j + 1>>]
      <4>1. PICK p \in Int, q \in Int : p = s[i].id /\ q = t[j].id
        BY <2>3
      <4>2. ~ (p < q) /\ q < p
        BY <2>5, <4>1
      <4> QED
        BY ONLY <2>1, <4>1, <4>2
    <3>2. \A x : InterMeets(s, t, i, j, x) <=> InterMeets(s, t, i, j + 1, x)
      BY <2>2, <2>5, InterMeetsIs
    <3> QED
      BY ONLY <3>1, <3>2, <1>4 DEF InterFrom
  <2>6. CASE s[i].id = t[j].id
    <3>1. PICK l \in Lines : l = Line(s[i].id, s[i].name, t[j].name) /\ l.id = s[i].id
      <4>1. PICK p \in Int, a \in Nat, b \in Nat : p = s[i].id /\ a = s[i].name /\ b = t[j].name
        BY <2>3
      <4>2. Line(p, a, b) \in Lines
        BY LineIs
      <4>3. Line(p, a, b).id = p
        BY LineIs
      <4> QED
        BY ONLY <4>1, <4>2, <4>3
    <3>2. PICK w \in Seq(Lines) : /\ w = W[<<i + 1, j + 1>>] /\ Ascending(w)
                                  /\ \A x : Meets(w, x) <=> InterMeets(s, t, i + 1, j + 1, x)
      BY <1>4 DEF InterFrom
    <3>3. W[<<i, j>>] = Emplaced(l, w)
      BY ONLY <2>1, <2>3, <2>6, <3>1, <3>2
    <3>4. ASSUME NEW k \in 1 .. Len(w) PROVE l.id < w[k].id
      <4>1. PICK x : x = w[k]
        OBVIOUS
      <4>2. InterMeets(s, t, i + 1, j + 1, x)
        <5>1. Meets(w, x)
          BY ONLY <4>1, k \in 1 .. Len(w) DEF Meets
        <5> QED
          BY ONLY <3>2, <5>1
      <4>3. PICK a \in i + 1 .. n, b \in j + 1 .. m : s[a].id = t[b].id /\ x = Line(s[a].id, s[a].name, t[b].name)
        BY ONLY <1>1, <4>2 DEF InterMeets
      <4>4. x.id = s[a].id
        BY <4>3 DEF Line
      <4>5. s[i].id < s[a].id
        BY <1>1, <2>2, LaterRows
      <4> QED
        BY ONLY <3>1, <4>1, <4>4, <4>5
    <3>5. /\ Emplaced(l, w) \in Seq(Lines) /\ Ascending(Emplaced(l, w))
          /\ \A x : Meets(Emplaced(l, w), x) <=> x = l \/ Meets(w, x)
      <4>1. Emplaced(l, w) \in Seq(Lines)
        BY ONLY l \in Lines, w \in Seq(Lines), <3>2, <3>4, EmplacedIs
      <4>2. Ascending(Emplaced(l, w))
        BY ONLY l \in Lines, w \in Seq(Lines), <3>2, <3>4, EmplacedIs
      <4>3. \A x : Meets(Emplaced(l, w), x) <=> x = l \/ Meets(w, x)
        <5>1. MeetsAlso(Emplaced(l, w), l, w)
          BY ONLY l \in Lines, w \in Seq(Lines), <3>2, <3>4, EmplacedIs
        <5> QED
          BY ONLY <5>1 DEF MeetsAlso
      <4> QED
        BY ONLY <4>1, <4>2, <4>3
    <3>6. \A x : InterMeets(s, t, i, j, x) <=>
                   x = Line(s[i].id, s[i].name, t[j].name) \/ InterMeets(s, t, i + 1, j + 1, x)
      BY <2>2, <2>6, InterMeetsIs
    <3> QED
      BY ONLY <3>1, <3>2, <3>3, <3>5, <3>6 DEF InterFrom
  <2> QED
    BY <2>3, <2>4, <2>5, <2>6
<1>5. 0 \in D
  <2>1. ASSUME NEW i \in 1 .. n + 1, NEW j \in 1 .. m + 1, (n + 1 - i) + (m + 1 - j) <= 0
        PROVE  InterFrom(W[<<i, j>>], s, t, i, j)
    BY <1>3, <2>1
  <2> QED
    BY <2>1
<1>6. ASSUME NEW k \in Nat, k < n + m, k \in D PROVE k + 1 \in D
  <2>1. ASSUME NEW i \in 1 .. n + 1, NEW j \in 1 .. m + 1, (n + 1 - i) + (m + 1 - j) <= k + 1
        PROVE  InterFrom(W[<<i, j>>], s, t, i, j)
    <3>1. CASE i = n + 1 \/ j = m + 1
      BY <1>3, <3>1
    <3>2. CASE i # n + 1 /\ j # m + 1
      <4>1. i \in 1 .. n /\ j \in 1 .. m /\ i + 1 \in 1 .. n + 1 /\ j + 1 \in 1 .. m + 1
        BY <3>2
      <4>2. /\ (n + 1 - (i + 1)) + (m + 1 - j) <= k /\ (n + 1 - i) + (m + 1 - (j + 1)) <= k
            /\ (n + 1 - (i + 1)) + (m + 1 - (j + 1)) <= k
        BY <2>1
      <4>3. \A p \in 1 .. n + 1, q \in 1 .. m + 1 :
              (n + 1 - p) + (m + 1 - q) <= k => InterFrom(W[<<p, q>>], s, t, p, q)
        BY <1>6
      <4>4. InterFrom(W[<<i + 1, j>>], s, t, i + 1, j)
        BY ONLY <4>1, <4>2, <4>3, j \in 1 .. m + 1
      <4>5. InterFrom(W[<<i, j + 1>>], s, t, i, j + 1)
        BY ONLY <4>1, <4>2, <4>3, i \in 1 .. n + 1
      <4>6. InterFrom(W[<<i + 1, j + 1>>], s, t, i + 1, j + 1)
        BY ONLY <4>1, <4>2, <4>3
      <4> QED
        BY ONLY <1>4, <4>1, <4>4, <4>5, <4>6
    <3> QED
      BY <3>1, <3>2
  <2>2. k + 1 \in 0 .. n + m
    BY <1>6
  <2> QED
    BY <2>1, <2>2
<1>7. n + m \in D
  <2> HIDE DEF D
  <2>1. PICK N \in Nat : N = n + m
    OBVIOUS
  <2>2. \A k \in Nat : k < N /\ k \in D => k + 1 \in D
    BY <1>6, <2>1
  <2>3. \A k \in 0 .. N : k \in D
    BY ONLY <1>5, <2>2, N \in Nat, Upwards
  <2> QED
    BY <2>1, <2>3
<1>8. 1 \in 1 .. n + 1 /\ 1 \in 1 .. m + 1 /\ (n + 1 - 1) + (m + 1 - 1) <= n + m
  OBVIOUS
<1> QED
  BY <1>7, <1>8

\* One step of the walk over the ids of one table only.
SymStep(W, s, t, at) ==
  LET i == at[1]
      j == at[2]
  IN  CASE j > Len(t) -> <<>>
        [] i > Len(s) /\ j <= Len(t) -> Emplaced(Line(t[j].id, NoName, t[j].name), W[<<i, j + 1>>])
        [] OTHER ->
             CASE Behind(s[i], t[j]) -> Emplaced(Line(s[i].id, s[i].name, NoName), W[<<i + 1, j>>])
               [] Behind(t[j], s[i]) -> Emplaced(Line(t[j].id, NoName, t[j].name), W[<<i, j + 1>>])
               [] OTHER -> W[<<i + 1, j + 1>>]

IsSym(W, s, t) == W = [at \in WalkPlaces(s, t) |-> SymStep(W, s, t, at)]

SymCases(W, s, t, i, j) ==
  IF j = Len(t) + 1 THEN <<>>
  ELSE IF i = Len(s) + 1 THEN Emplaced(Line(t[j].id, NoName, t[j].name), W[<<i, j + 1>>])
  ELSE IF s[i].id < t[j].id THEN Emplaced(Line(s[i].id, s[i].name, NoName), W[<<i + 1, j>>])
  ELSE IF t[j].id < s[i].id THEN Emplaced(Line(t[j].id, NoName, t[j].name), W[<<i, j + 1>>])
  ELSE W[<<i + 1, j + 1>>]

LEMMA SymStepIs ==
  ASSUME NEW s \in Seq(RowsOfTables), NEW t \in Seq(RowsOfTables), NEW W,
         NEW i \in 1 .. Len(s) + 1, NEW j \in 1 .. Len(t) + 1
  PROVE  SymStep(W, s, t, <<i, j>>) = SymCases(W, s, t, i, j)
<1> USE DEF SymCases
<1>1. i > Len(s) <=> i = Len(s) + 1
  OBVIOUS
<1>2. j > Len(t) <=> j = Len(t) + 1
  OBVIOUS
<1>6. j <= Len(t) <=> j # Len(t) + 1
  OBVIOUS
<1>3. SymStep(W, s, t, <<i, j>>) =
        CASE j > Len(t) -> <<>>
          [] i > Len(s) /\ j <= Len(t) -> Emplaced(Line(t[j].id, NoName, t[j].name), W[<<i, j + 1>>])
          [] OTHER ->
               CASE s[i].id < t[j].id -> Emplaced(Line(s[i].id, s[i].name, NoName), W[<<i + 1, j>>])
                 [] t[j].id < s[i].id -> Emplaced(Line(t[j].id, NoName, t[j].name), W[<<i, j + 1>>])
                 [] OTHER -> W[<<i + 1, j + 1>>]
  <2>1. PICK at : at = <<i, j>>
    OBVIOUS
  <2>2. at[1] = i /\ at[2] = j
    BY <2>1
  <2> QED
    BY ONLY <2>1, <2>2, Zenon DEF SymStep, Behind
<1>4. CASE i = Len(s) + 1 \/ j = Len(t) + 1
  BY ONLY <1>1, <1>2, <1>3, <1>4, <1>6
<1>5. CASE ~ (i = Len(s) + 1 \/ j = Len(t) + 1)
  <2>1. SymStep(W, s, t, <<i, j>>) =
          CASE s[i].id < t[j].id -> Emplaced(Line(s[i].id, s[i].name, NoName), W[<<i + 1, j>>])
            [] t[j].id < s[i].id -> Emplaced(Line(t[j].id, NoName, t[j].name), W[<<i, j + 1>>])
            [] OTHER -> W[<<i + 1, j + 1>>]
    BY ONLY <1>1, <1>2, <1>3, <1>5
  <2>2. i \in 1 .. Len(s) /\ j \in 1 .. Len(t)
    BY <1>5
  <2>3. ~ (s[i].id < t[j].id /\ t[j].id < s[i].id)
    BY <2>2, RowIs
  <2> QED
    BY ONLY <1>5, <2>1, <2>3
<1> QED
  BY <1>4, <1>5

LEMMA SymExists ==
  ASSUME NEW s \in Seq(RowsOfTables), NEW t \in Seq(RowsOfTables)
  PROVE  \E W \in [WalkPlaces(s, t) -> Seq(Lines)] : IsSym(W, s, t)
<1>1. PICK n \in Nat, m \in Nat : n = Len(s) /\ m = Len(t)
  OBVIOUS
<1>2. PICK P : P = WalkPlaces(s, t)
  OBVIOUS
<1>3. PICK Y : Y = Seq(Lines)
  OBVIOUS
<1>4. /\ \A at \in P : at = <<at[1], at[2]>> /\ at[1] \in 1 .. n + 1 /\ at[2] \in 1 .. m + 1
      /\ \A i \in 1 .. n + 1, j \in 1 .. m + 1 : <<i, j>> \in P
  BY <1>1, <1>2, PlacesAre
<1> DEFINE rank == [at \in P |-> (n + 1 - at[1]) + (m + 1 - at[2])]
           g == [z \in P \X [P -> Y] |-> SymStep(z[2], s, t, z[1])]
<1>5. ASSUME NEW at \in P
      PROVE  rank[at] = (n + 1 - at[1]) + (m + 1 - at[2])
  OBVIOUS
<1>6. ASSUME NEW at \in P, NEW W \in [P -> Y]
      PROVE  g[<<at, W>>] = SymStep(W, s, t, at)
  OBVIOUS
<1>7. rank \in [P -> Nat] /\ \A at \in P : rank[at] < n + m + 1
  <2>1. ASSUME NEW at \in P PROVE rank[at] \in Nat /\ rank[at] < n + m + 1
    <3>1. PICK i \in 1 .. n + 1, j \in 1 .. m + 1 : at = <<i, j>>
      BY <1>4
    <3>2. rank[at] = (n + 1 - i) + (m + 1 - j)
      BY <1>5, <3>1
    <3> HIDE DEF rank
    <3> QED
      BY <3>2
  <2> QED
    BY <2>1
<1> HIDE DEF rank, g
<1>20. NoName \in Nat
  BY DEF NoName
<1>8. ASSUME NEW at \in P, NEW W \in [P -> Y]
      PROVE  g[<<at, W>>] \in Y
  <2>1. PICK i \in 1 .. n + 1, j \in 1 .. m + 1 : at = <<i, j>>
    BY <1>4
  <2>2. g[<<at, W>>] = SymCases(W, s, t, i, j)
    <3>1. g[<<at, W>>] = SymStep(W, s, t, <<i, j>>)
      BY <1>6, <2>1
    <3>2. i \in 1 .. Len(s) + 1 /\ j \in 1 .. Len(t) + 1
      BY <1>1
    <3>3. SymStep(W, s, t, <<i, j>>) = SymCases(W, s, t, i, j)
      BY ONLY <3>2, s \in Seq(RowsOfTables), t \in Seq(RowsOfTables), SymStepIs
    <3> QED
      BY ONLY <3>1, <3>3
  <2>3. <<>> \in Y
    BY <1>3
  <2>4. ASSUME NEW l \in Lines, NEW rest \in Y PROVE Emplaced(l, rest) \in Y
    BY <1>3, EmplacedType
  <2>5. CASE j = m + 1
    BY ONLY <1>1, <2>2, <2>3, <2>5 DEF SymCases
  <2>6. CASE i = n + 1 /\ j # m + 1
    <3>1. j + 1 \in 1 .. m + 1 /\ j \in 1 .. Len(t)
      BY <1>1, <2>6
    <3>2. PICK rest \in Y : rest = W[<<i, j + 1>>]
      <4>1. <<i, j + 1>> \in P
        BY ONLY <1>4, <3>1, i \in 1 .. n + 1
      <4> QED
        BY ONLY <4>1, W \in [P -> Y]
    <3>3. PICK l \in Lines : l = Line(t[j].id, NoName, t[j].name)
      BY <1>20, <3>1, RowIs, LineIs
    <3> QED
      BY ONLY <1>1, <2>2, <2>4, <2>6, <3>2, <3>3 DEF SymCases
  <2>7. CASE i # n + 1 /\ j # m + 1
    <3>1. i + 1 \in 1 .. n + 1 /\ j + 1 \in 1 .. m + 1 /\ i \in 1 .. Len(s) /\ j \in 1 .. Len(t)
      BY <1>1, <2>7
    <3>2. <<i + 1, j>> \in P /\ <<i, j + 1>> \in P /\ <<i + 1, j + 1>> \in P
      BY ONLY <1>4, <3>1, i \in 1 .. n + 1, j \in 1 .. m + 1
    <3>3. PICK u \in Y, v \in Y, w \in Y :
            u = W[<<i + 1, j>>] /\ v = W[<<i, j + 1>>] /\ w = W[<<i + 1, j + 1>>]
      BY ONLY <3>2, W \in [P -> Y]
    <3>4. PICK k \in Lines : k = Line(s[i].id, s[i].name, NoName)
      BY <1>20, <3>1, RowIs, LineIs
    <3>5. PICK l \in Lines : l = Line(t[j].id, NoName, t[j].name)
      BY <1>20, <3>1, RowIs, LineIs
    <3>6. Emplaced(k, u) \in Y /\ Emplaced(l, v) \in Y
      BY <2>4
    <3> QED
      BY ONLY <1>1, <2>2, <2>7, <3>3, <3>4, <3>5, <3>6, w \in Y DEF SymCases
  <2> QED
    BY <2>5, <2>6, <2>7
<1>9. ASSUME NEW at \in P, NEW V \in [P -> Y], NEW W \in [P -> Y],
             \A q \in P : rank[q] < rank[at] => V[q] = W[q]
      PROVE  g[<<at, V>>] = g[<<at, W>>]
  <2>1. PICK i \in 1 .. n + 1, j \in 1 .. m + 1 : at = <<i, j>>
    BY <1>4
  <2>2. \A Z \in [P -> Y] : g[<<at, Z>>] = SymCases(Z, s, t, i, j)
    <3> SUFFICES ASSUME NEW Z \in [P -> Y] PROVE g[<<at, Z>>] = SymCases(Z, s, t, i, j)
      OBVIOUS
    <3>1. g[<<at, Z>>] = SymStep(Z, s, t, <<i, j>>)
      BY <1>6, <2>1
    <3>2. i \in 1 .. Len(s) + 1 /\ j \in 1 .. Len(t) + 1
      BY <1>1
    <3>3. SymStep(Z, s, t, <<i, j>>) = SymCases(Z, s, t, i, j)
      BY ONLY <3>2, s \in Seq(RowsOfTables), t \in Seq(RowsOfTables), SymStepIs
    <3> QED
      BY ONLY <3>1, <3>3
  <2>3. rank[at] = (n + 1 - i) + (m + 1 - j)
    BY <1>5, <2>1
  <2>4. j # m + 1 => V[<<i, j + 1>>] = W[<<i, j + 1>>]
    <3> SUFFICES ASSUME j # m + 1 PROVE V[<<i, j + 1>>] = W[<<i, j + 1>>]
      OBVIOUS
    <3>1. j + 1 \in 1 .. m + 1
      OBVIOUS
    <3>2. <<i, j + 1>> \in P
      BY ONLY <1>4, <3>1, i \in 1 .. n + 1
    <3>3. rank[<<i, j + 1>>] = (n + 1 - i) + (m + 1 - (j + 1))
      BY <1>5, <3>2
    <3> QED
      BY <1>9, <2>3, <3>2, <3>3
  <2>5. i # n + 1 /\ j # m + 1 => V[<<i + 1, j>>] = W[<<i + 1, j>>] /\ V[<<i + 1, j + 1>>] = W[<<i + 1, j + 1>>]
    <3> SUFFICES ASSUME i # n + 1, j # m + 1
                 PROVE  V[<<i + 1, j>>] = W[<<i + 1, j>>] /\ V[<<i + 1, j + 1>>] = W[<<i + 1, j + 1>>]
      OBVIOUS
    <3>1. i + 1 \in 1 .. n + 1 /\ j + 1 \in 1 .. m + 1
      OBVIOUS
    <3>2. <<i + 1, j>> \in P /\ <<i + 1, j + 1>> \in P
      BY ONLY <1>4, <3>1, j \in 1 .. m + 1
    <3>3. /\ rank[<<i + 1, j>>] = (n + 1 - (i + 1)) + (m + 1 - j)
          /\ rank[<<i + 1, j + 1>>] = (n + 1 - (i + 1)) + (m + 1 - (j + 1))
      BY <1>5, <3>2
    <3> QED
      BY <1>9, <2>3, <3>2, <3>3
  <2>6. SymCases(V, s, t, i, j) = SymCases(W, s, t, i, j)
    BY ONLY <1>1, <2>4, <2>5 DEF SymCases
  <2> QED
    BY <2>2, <2>6
<1>10. \E W \in [P -> Y] : W = [p \in P |-> g[<<p, W>>]]
  <2>1. PICK k \in Nat : k = n + m + 1
    OBVIOUS
  <2>2. \A p \in P : rank[p] < k
    BY <1>7, <2>1
  <2>3. rank \in [P -> Nat]
    BY <1>7
  <2>4. <<>> \in Y
    BY <1>3
  <2> QED
    <3>1. \A p \in P : \A Z \in [P -> Y] : g[<<p, Z>>] \in Y
      BY <1>8
    <3>2. \A p \in P : \A V, Z \in [P -> Y] :
            (\A q \in P : rank[q] < rank[p] => V[q] = Z[q]) => g[<<p, V>>] = g[<<p, Z>>]
      BY <1>9
    <3> QED
      <4>1. StepType(g, P, Y) /\ StepLooksBelow(g, P, Y, rank)
        BY ONLY <3>1, <3>2 DEF StepType, StepLooksBelow
      <4>2. \E W \in [P -> Y] : IsWalk(W, g, P)
        BY ONLY <2>2, <2>3, <2>4, <4>1, k \in Nat, WalkExists
      <4> QED
        BY ONLY <4>2 DEF IsWalk
<1>11. PICK W \in [P -> Y] : W = [p \in P |-> g[<<p, W>>]]
  BY <1>10
<1>12. \A p \in P : g[<<p, W>>] = SymStep(W, s, t, p)
  BY <1>6
<1>13. IsSym(W, s, t)
  BY ONLY <1>2, <1>11, <1>12 DEF IsSym
<1> QED
  BY <1>2, <1>3, <1>13

LEMMA SymmetricDifferenceWalks ==
  ASSUME NEW lhs, NEW rhs, Rows(lhs) \in Seq(RowsOfTables), Rows(rhs) \in Seq(RowsOfTables)
  PROVE  \E W : IsSym(W, Rows(lhs), Rows(rhs)) /\ SymmetricDifference(lhs, rhs) = W[<<1, 1>>]
<1>1. \E V : IsSym(V, Rows(lhs), Rows(rhs))
  BY SymExists
<1> DEFINE W == CHOOSE W : IsSym(W, Rows(lhs), Rows(rhs))
<1>2. IsSym(W, Rows(lhs), Rows(rhs))
  BY <1>1, Zenon
<1>3. SymmetricDifference(lhs, rhs) = W[<<1, 1>>]
  BY Zenon DEF SymmetricDifference, IsSym, SymStep
<1> QED
  BY <1>2, <1>3, Zenon

\* No row from i on has the id, and: a row from j on has a later one.
Apart(s, i, id) == \A a \in i .. Len(s) : s[a].id # id

Under(t, j, id) == \E b \in j .. Len(t) : id < t[b].id

\* The lines of the ids of one table only, from row i of the one and row j of
\* the other; an id of the left one has a line only if it lies under the right.
OnlyRight(s, t, i, j, x) ==
  \E b \in j .. Len(t) : Apart(s, i, t[b].id) /\ x = Line(t[b].id, NoName, t[b].name)

OnlyLeft(s, t, i, j, x) ==
  \E a \in i .. Len(s) :
    Apart(t, j, s[a].id) /\ Under(t, j, s[a].id) /\ x = Line(s[a].id, s[a].name, NoName)

SymMeets(s, t, i, j, x) == OnlyRight(s, t, i, j, x) \/ OnlyLeft(s, t, i, j, x)

LEMMA ApartIs ==
  ASSUME NEW s \in Seq(RowsOfTables), Ascending(s), NEW i \in 1 .. Len(s), NEW id \in Int
  PROVE  /\ Apart(s, i, id) <=> s[i].id # id /\ Apart(s, i + 1, id)
         /\ id < s[i].id => Apart(s, i, id)
         /\ Under(s, i, id) <=> id < s[i].id \/ Under(s, i + 1, id)
<1>1. PICK n \in Nat : n = Len(s)
  OBVIOUS
<1>2. /\ i \in i .. n /\ \A a \in i .. n : a = i \/ a \in i + 1 .. n
      /\ \A a \in i + 1 .. n : a \in i .. n
  BY <1>1
<1>3. s[i].id \in Int /\ \A a \in i + 1 .. n : s[i].id < s[a].id /\ s[a].id \in Int
  BY <1>1, RowIs, LaterRows
<1>4. Apart(s, i, id) <=> s[i].id # id /\ Apart(s, i + 1, id)
  BY ONLY <1>1, <1>2 DEF Apart
<1>5. Under(s, i, id) <=> id < s[i].id \/ Under(s, i + 1, id)
  BY ONLY <1>1, <1>2 DEF Under
<1>6. ASSUME id < s[i].id PROVE Apart(s, i, id)
  BY ONLY <1>1, <1>2, <1>3, <1>6, id \in Int DEF Apart
<1> QED
  BY <1>4, <1>5, <1>6

LEMMA SymMeetsIs ==
  ASSUME NEW s \in Seq(RowsOfTables), NEW t \in Seq(RowsOfTables), Ascending(s), Ascending(t),
         NEW i \in 1 .. Len(s), NEW j \in 1 .. Len(t), NEW x
  PROVE  /\ s[i].id < t[j].id =>
              (SymMeets(s, t, i, j, x) <=> x = Line(s[i].id, s[i].name, NoName) \/ SymMeets(s, t, i + 1, j, x))
         /\ t[j].id < s[i].id =>
              (SymMeets(s, t, i, j, x) <=> x = Line(t[j].id, NoName, t[j].name) \/ SymMeets(s, t, i, j + 1, x))
         /\ s[i].id = t[j].id => (SymMeets(s, t, i, j, x) <=> SymMeets(s, t, i + 1, j + 1, x))
<1>1. PICK n \in Nat, m \in Nat : n = Len(s) /\ m = Len(t)
  OBVIOUS
<1>2. /\ i \in i .. n /\ \A a \in i .. n : a = i \/ a \in i + 1 .. n
      /\ \A a \in i + 1 .. n : a \in i .. n
  BY <1>1
<1>3. /\ j \in j .. m /\ \A b \in j .. m : b = j \/ b \in j + 1 .. m
      /\ \A b \in j + 1 .. m : b \in j .. m
  BY <1>1
<1>4. s[i].id \in Int /\ t[j].id \in Int
  BY RowIs
<1>5. \A a \in i + 1 .. n : s[i].id < s[a].id /\ s[a].id \in Int
  BY <1>1, LaterRows
<1>6. \A b \in j + 1 .. m : t[j].id < t[b].id /\ t[b].id \in Int
  BY <1>1, LaterRows
<1>7. ASSUME NEW id \in Int
      PROVE  /\ Apart(s, i, id) <=> s[i].id # id /\ Apart(s, i + 1, id)
             /\ id < s[i].id => Apart(s, i, id)
             /\ Apart(t, j, id) <=> t[j].id # id /\ Apart(t, j + 1, id)
             /\ id < t[j].id => Apart(t, j, id)
             /\ Under(t, j, id) <=> id < t[j].id \/ Under(t, j + 1, id)
  BY ApartIs
<1>10. ASSUME s[i].id < t[j].id
       PROVE  SymMeets(s, t, i, j, x) <=> x = Line(s[i].id, s[i].name, NoName) \/ SymMeets(s, t, i + 1, j, x)
  <2>1. \A b \in j .. m : Apart(s, i, t[b].id) <=> Apart(s, i + 1, t[b].id)
    <3> SUFFICES ASSUME NEW b \in j .. m PROVE Apart(s, i, t[b].id) <=> Apart(s, i + 1, t[b].id)
      OBVIOUS
    <3>1. PICK id : id = t[b].id
      OBVIOUS
    <3>2. id \in Int /\ s[i].id # id
      <4>1. CASE b = j
        BY ONLY <1>4, <1>10, <3>1, <4>1
      <4>2. CASE b \in j + 1 .. m
        <5>1. t[j].id < id /\ id \in Int
          BY ONLY <1>6, <3>1, <4>2
        <5> QED
          BY ONLY <1>4, <1>10, <5>1
      <4> QED
        BY ONLY <1>3, b \in j .. m, <4>1, <4>2
    <3>3. Apart(s, i, id) <=> s[i].id # id /\ Apart(s, i + 1, id)
      BY ONLY <1>7, <3>2
    <3> QED
      BY ONLY <3>1, <3>2, <3>3
  <2>2. OnlyRight(s, t, i, j, x) <=> OnlyRight(s, t, i + 1, j, x)
    BY ONLY <1>1, <2>1 DEF OnlyRight
  <2>3. Apart(t, j, s[i].id) /\ Under(t, j, s[i].id)
    BY ONLY <1>4, <1>7, <1>10
  <2>4. OnlyLeft(s, t, i, j, x) <=> x = Line(s[i].id, s[i].name, NoName) \/ OnlyLeft(s, t, i + 1, j, x)
    BY ONLY <1>1, <1>2, <2>3 DEF OnlyLeft
  <2> QED
    BY ONLY <2>2, <2>4 DEF SymMeets
<1>11. ASSUME t[j].id < s[i].id
       PROVE  SymMeets(s, t, i, j, x) <=> x = Line(t[j].id, NoName, t[j].name) \/ SymMeets(s, t, i, j + 1, x)
  <2>1. Apart(s, i, t[j].id)
    BY ONLY <1>4, <1>7, <1>11
  <2>2. OnlyRight(s, t, i, j, x) <=> x = Line(t[j].id, NoName, t[j].name) \/ OnlyRight(s, t, i, j + 1, x)
    BY ONLY <1>1, <1>3, <2>1 DEF OnlyRight
  <2>3. ASSUME NEW a \in i .. n
        PROVE  /\ Apart(t, j, s[a].id) <=> Apart(t, j + 1, s[a].id)
               /\ Under(t, j, s[a].id) <=> Under(t, j + 1, s[a].id)
    <3>1. PICK id \in Int : id = s[a].id
      BY ONLY <1>2, <1>4, <1>5, a \in i .. n
    <3>2. t[j].id < id
      BY ONLY <1>2, <1>4, <1>5, <1>11, <3>1, a \in i .. n
    <3>3. t[j].id # id /\ ~ (id < t[j].id)
      BY ONLY <1>4, <3>2, id \in Int
    <3> QED
      BY ONLY <1>7, <3>1, <3>3, id \in Int
  <2>4. OnlyLeft(s, t, i, j, x) <=> OnlyLeft(s, t, i, j + 1, x)
    BY ONLY <1>1, <2>3 DEF OnlyLeft
  <2> QED
    BY ONLY <2>2, <2>4 DEF SymMeets
<1>12. ASSUME s[i].id = t[j].id
       PROVE  SymMeets(s, t, i, j, x) <=> SymMeets(s, t, i + 1, j + 1, x)
  <2>1. ~ Apart(s, i, t[j].id) /\ ~ Apart(t, j, s[i].id)
    BY ONLY <1>4, <1>7, <1>12
  <2>2. \A b \in j + 1 .. m : Apart(s, i, t[b].id) <=> Apart(s, i + 1, t[b].id)
    BY ONLY <1>4, <1>6, <1>7, <1>12
  <2>3. OnlyRight(s, t, i, j, x) <=> OnlyRight(s, t, i + 1, j + 1, x)
    BY ONLY <1>1, <1>3, <2>1, <2>2 DEF OnlyRight
  <2>4. ASSUME NEW a \in i + 1 .. n
        PROVE  /\ Apart(t, j, s[a].id) <=> Apart(t, j + 1, s[a].id)
               /\ Under(t, j, s[a].id) <=> Under(t, j + 1, s[a].id)
    <3>1. PICK id \in Int : id = s[a].id
      BY ONLY <1>5, a \in i + 1 .. n
    <3>2. t[j].id < id
      BY ONLY <1>5, <1>12, <3>1, a \in i + 1 .. n
    <3>3. t[j].id # id /\ ~ (id < t[j].id)
      BY ONLY <1>4, <3>2, id \in Int
    <3> QED
      BY ONLY <1>7, <3>1, <3>3, id \in Int
  <2>5. OnlyLeft(s, t, i, j, x) <=> OnlyLeft(s, t, i + 1, j + 1, x)
    BY ONLY <1>1, <1>2, <2>1, <2>4 DEF OnlyLeft
  <2> QED
    BY ONLY <2>3, <2>5 DEF SymMeets
<1> QED
  BY <1>10, <1>11, <1>12

\* The last rows: the left table is at its end, or the right one is.
LEMMA SymMeetsAtEnd ==
  ASSUME NEW s \in Seq(RowsOfTables), NEW t \in Seq(RowsOfTables), NEW x
  PROVE  /\ \A i \in 1 .. Len(s) + 1 : ~ SymMeets(s, t, i, Len(t) + 1, x)
         /\ \A j \in 1 .. Len(t) :
              SymMeets(s, t, Len(s) + 1, j, x) <=>
                x = Line(t[j].id, NoName, t[j].name) \/ SymMeets(s, t, Len(s) + 1, j + 1, x)
<1>1. PICK n \in Nat, m \in Nat : n = Len(s) /\ m = Len(t)
  OBVIOUS
<1>2. (n + 1 .. n) = {} /\ (m + 1 .. m) = {}
  OBVIOUS
<1>3. \A i \in 1 .. Len(s) + 1 : ~ SymMeets(s, t, i, Len(t) + 1, x)
  BY ONLY <1>1, <1>2 DEF SymMeets, OnlyRight, OnlyLeft, Under
<1>4. ASSUME NEW j \in 1 .. Len(t)
      PROVE  SymMeets(s, t, Len(s) + 1, j, x) <=>
               x = Line(t[j].id, NoName, t[j].name) \/ SymMeets(s, t, Len(s) + 1, j + 1, x)
  <2>1. /\ j \in j .. m /\ \A b \in j .. m : b = j \/ b \in j + 1 .. m
        /\ \A b \in j + 1 .. m : b \in j .. m
    BY <1>1
  <2>2. \A k : Apart(s, n + 1, k)
    BY ONLY <1>1, <1>2 DEF Apart
  <2>3. OnlyRight(s, t, n + 1, j, x) <=> x = Line(t[j].id, NoName, t[j].name) \/ OnlyRight(s, t, n + 1, j + 1, x)
    BY ONLY <1>1, <2>1, <2>2 DEF OnlyRight
  <2>4. ~ OnlyLeft(s, t, n + 1, j, x) /\ ~ OnlyLeft(s, t, n + 1, j + 1, x)
    BY ONLY <1>1, <1>2 DEF OnlyLeft
  <2> QED
    BY ONLY <1>1, <2>3, <2>4 DEF SymMeets
<1> QED
  BY <1>3, <1>4

SymFrom(w, s, t, i, j) ==
  /\ w \in Seq(Lines)
  /\ Ascending(w)
  /\ \A x : Meets(w, x) <=> SymMeets(s, t, i, j, x)

\* The ids that follow are beyond id, so are the lines that follow.
AllLater(s, i, id) == \A a \in i .. Len(s) : id < s[a].id

LEMMA SymLater ==
  ASSUME NEW s, NEW t, NEW i, NEW j, NEW id, AllLater(s, i, id), AllLater(t, j, id),
         NEW x, SymMeets(s, t, i, j, x)
  PROVE  id < x.id
<1>1. CASE OnlyRight(s, t, i, j, x)
  <2>1. PICK b \in j .. Len(t) : x = Line(t[b].id, NoName, t[b].name)
    BY ONLY <1>1 DEF OnlyRight
  <2>2. x.id = t[b].id
    BY ONLY <2>1 DEF Line
  <2> QED
    BY ONLY <2>2, AllLater(t, j, id), b \in j .. Len(t) DEF AllLater
<1>2. CASE OnlyLeft(s, t, i, j, x)
  <2>1. PICK a \in i .. Len(s) : x = Line(s[a].id, s[a].name, NoName)
    BY ONLY <1>2 DEF OnlyLeft
  <2>2. x.id = s[a].id
    BY ONLY <2>1 DEF Line
  <2> QED
    BY ONLY <2>2, AllLater(s, i, id), a \in i .. Len(s) DEF AllLater
<1> QED
  BY <1>1, <1>2 DEF SymMeets

LEMMA SymPut ==
  ASSUME NEW s, NEW t, NEW i, NEW j, NEW p, NEW q, NEW l \in Lines, NEW w, SymFrom(w, s, t, p, q),
         AllLater(s, p, l.id), AllLater(t, q, l.id),
         \A x : SymMeets(s, t, i, j, x) <=> x = l \/ SymMeets(s, t, p, q, x)
  PROVE  SymFrom(Emplaced(l, w), s, t, i, j)
<1>1. w \in Seq(Lines) /\ Ascending(w) /\ \A x : Meets(w, x) <=> SymMeets(s, t, p, q, x)
  BY DEF SymFrom
<1>2. ASSUME NEW k \in 1 .. Len(w) PROVE l.id < w[k].id
  <2>1. PICK x : x = w[k]
    OBVIOUS
  <2>2. Meets(w, x)
    BY ONLY <2>1, k \in 1 .. Len(w) DEF Meets
  <2>3. SymMeets(s, t, p, q, x)
    BY ONLY <1>1, <2>2
  <2>4. l.id < x.id
    BY <2>3, SymLater
  <2> QED
    BY ONLY <2>1, <2>4
<1>3. Emplaced(l, w) \in Seq(Lines)
  BY ONLY l \in Lines, <1>1, <1>2, EmplacedIs
<1>4. Ascending(Emplaced(l, w))
  BY ONLY l \in Lines, <1>1, <1>2, EmplacedIs
<1>5. MeetsAlso(Emplaced(l, w), l, w)
  BY ONLY l \in Lines, <1>1, <1>2, EmplacedIs
<1>6. \A x : Meets(Emplaced(l, w), x) <=> SymMeets(s, t, i, j, x)
  BY ONLY <1>1, <1>5, \A x : SymMeets(s, t, i, j, x) <=> x = l \/ SymMeets(s, t, p, q, x) DEF MeetsAlso
<1> QED
  BY ONLY <1>3, <1>4, <1>6 DEF SymFrom

LEMMA SymIs ==
  ASSUME NEW s \in Seq(RowsOfTables), NEW t \in Seq(RowsOfTables), Ascending(s), Ascending(t),
         NEW W, IsSym(W, s, t)
  PROVE  SymFrom(W[<<1, 1>>], s, t, 1, 1)
<1>1. PICK n \in Nat, m \in Nat : n = Len(s) /\ m = Len(t)
  OBVIOUS
<1>2. ASSUME NEW i \in 1 .. n + 1, NEW j \in 1 .. m + 1
      PROVE  W[<<i, j>>] = SymCases(W, s, t, i, j)
  <2>1. PICK at \in WalkPlaces(s, t) : at = <<i, j>>
    BY <1>1, PlacesAre
  <2>2. W[at] = SymStep(W, s, t, at)
    BY ONLY IsSym(W, s, t), at \in WalkPlaces(s, t) DEF IsSym
  <2>3. SymStep(W, s, t, <<i, j>>) = SymCases(W, s, t, i, j)
    BY <1>1, SymStepIs
  <2> QED
    BY <2>1, <2>2, <2>3
<1> DEFINE D == {k \in 0 .. n + m :
                  \A i \in 1 .. n + 1, j \in 1 .. m + 1 :
                    (n + 1 - i) + (m + 1 - j) <= k => SymFrom(W[<<i, j>>], s, t, i, j)}
<1>3. ASSUME NEW i \in 1 .. n + 1, NEW j \in 1 .. m + 1, j = m + 1
      PROVE  SymFrom(W[<<i, j>>], s, t, i, j)
  <2>1. W[<<i, j>>] = <<>>
    BY <1>1, <1>2, <1>3 DEF SymCases
  <2>2. \A x : ~ SymMeets(s, t, i, j, x)
    BY <1>1, <1>3, SymMeetsAtEnd
  <2> QED
    BY ONLY <2>1, <2>2, NothingMet DEF SymFrom
<1>20. ASSUME NEW p \in Int, NEW a \in Nat
       PROVE  /\ Line(p, a, NoName) \in Lines /\ Line(p, a, NoName).id = p
              /\ Line(p, NoName, a) \in Lines /\ Line(p, NoName, a).id = p
  BY DEF Line, Lines, NoName
<1>4. ASSUME NEW i, i = n + 1, NEW j \in 1 .. m, SymFrom(W[<<i, j + 1>>], s, t, i, j + 1)
      PROVE  SymFrom(W[<<i, j>>], s, t, i, j)
  <2>1. i \in 1 .. n + 1 /\ j \in 1 .. m + 1 /\ j # m + 1 /\ j \in 1 .. Len(t)
    BY <1>1, <1>4
  <2>2. W[<<i, j>>] = Emplaced(Line(t[j].id, NoName, t[j].name), W[<<i, j + 1>>])
    <3>1. W[<<i, j>>] = SymCases(W, s, t, i, j)
      BY <1>2, <2>1
    <3> QED
      BY ONLY <1>1, <1>4, <2>1, <3>1 DEF SymCases
  <2>3. PICK p \in Int, a \in Nat : p = t[j].id /\ a = t[j].name
    BY <2>1, RowIs
  <2>4. PICK l \in Lines : l = Line(p, NoName, a) /\ l.id = p
    BY ONLY <1>20, p \in Int, a \in Nat
  <2>5. \A x : SymMeets(s, t, i, j, x) <=> x = l \/ SymMeets(s, t, i, j + 1, x)
    BY <1>1, <1>4, <2>1, <2>3, <2>4, SymMeetsAtEnd
  <2>6. AllLater(t, j + 1, l.id)
    BY <2>1, <2>3, <2>4, LaterRows DEF AllLater
  <2>7. AllLater(s, i, l.id)
    <3>1. (n + 1 .. n) = {}
      OBVIOUS
    <3> QED
      BY ONLY <1>1, <1>4, <3>1 DEF AllLater
  <2>8. SymFrom(Emplaced(l, W[<<i, j + 1>>]), s, t, i, j)
    BY ONLY <1>4, <2>5, <2>6, <2>7, l \in Lines, SymPut
  <2> QED
    BY ONLY <2>2, <2>3, <2>4, <2>8
<1>5. ASSUME NEW i \in 1 .. n, NEW j \in 1 .. m,
             SymFrom(W[<<i + 1, j>>], s, t, i + 1, j), SymFrom(W[<<i, j + 1>>], s, t, i, j + 1),
             SymFrom(W[<<i + 1, j + 1>>], s, t, i + 1, j + 1)
      PROVE  SymFrom(W[<<i, j>>], s, t, i, j)
  <2>1. W[<<i, j>>] = IF s[i].id < t[j].id THEN Emplaced(Line(s[i].id, s[i].name, NoName), W[<<i + 1, j>>])
                      ELSE IF t[j].id < s[i].id THEN Emplaced(Line(t[j].id, NoName, t[j].name), W[<<i, j + 1>>])
                      ELSE W[<<i + 1, j + 1>>]
    <3>1. i \in 1 .. n + 1 /\ j \in 1 .. m + 1 /\ i # n + 1 /\ j # m + 1
      OBVIOUS
    <3>2. W[<<i, j>>] = SymCases(W, s, t, i, j)
      BY <1>2, <3>1
    <3> QED
      BY ONLY <1>1, <3>1, <3>2 DEF SymCases
  <2>2. i \in 1 .. Len(s) /\ j \in 1 .. Len(t)
    BY <1>1
  <2>3. PICK p \in Int, a \in Nat, q \in Int, b \in Nat :
          p = s[i].id /\ a = s[i].name /\ q = t[j].id /\ b = t[j].name
    BY <2>2, RowIs
  <2>4. /\ \A c \in i + 1 .. Len(s) : p < s[c].id /\ s[c].id \in Int
        /\ \A c \in i .. Len(s) : c = i \/ c \in i + 1 .. Len(s)
    <3>1. \A c \in i + 1 .. Len(s) : s[i].id < s[c].id /\ s[c].id \in Int
      BY <2>2, LaterRows
    <3>2. \A c \in i .. Len(s) : c = i \/ c \in i + 1 .. Len(s)
      BY <1>1
    <3> QED
      BY ONLY <2>3, <3>1, <3>2
  <2>5. /\ \A c \in j + 1 .. Len(t) : q < t[c].id /\ t[c].id \in Int
        /\ \A c \in j .. Len(t) : c = j \/ c \in j + 1 .. Len(t)
    <3>1. \A c \in j + 1 .. Len(t) : t[j].id < t[c].id /\ t[c].id \in Int
      BY <2>2, LaterRows
    <3>2. \A c \in j .. Len(t) : c = j \/ c \in j + 1 .. Len(t)
      BY <1>1
    <3> QED
      BY ONLY <2>3, <3>1, <3>2
  <2>6. CASE p < q
    <3>1. PICK l \in Lines : l = Line(p, a, NoName) /\ l.id = p
      BY ONLY <1>20, p \in Int, a \in Nat
    <3>2. W[<<i, j>>] = Emplaced(l, W[<<i + 1, j>>])
      BY ONLY <2>1, <2>3, <2>6, <3>1
    <3>3. \A x : SymMeets(s, t, i, j, x) <=> x = l \/ SymMeets(s, t, i + 1, j, x)
      BY <2>2, <2>3, <2>6, <3>1, SymMeetsIs
    <3>4. AllLater(s, i + 1, l.id)
      BY ONLY <2>4, <3>1 DEF AllLater
    <3>5. AllLater(t, j, l.id)
      <4>1. ASSUME NEW c \in j .. Len(t) PROVE p < t[c].id
        <5>1. CASE c = j
          BY ONLY <2>3, <2>6, <5>1
        <5>2. CASE c \in j + 1 .. Len(t)
          <6>1. q < t[c].id /\ t[c].id \in Int
            BY ONLY <2>5, <5>2
          <6> QED
            BY ONLY <2>6, <6>1, p \in Int, q \in Int
        <5> QED
          BY ONLY <2>5, <5>1, <5>2, c \in j .. Len(t)
      <4> QED
        BY ONLY <3>1, <4>1 DEF AllLater
    <3>6. SymFrom(Emplaced(l, W[<<i + 1, j>>]), s, t, i, j)
      BY ONLY <1>5, <3>3, <3>4, <3>5, l \in Lines, SymPut
    <3> QED
      BY ONLY <3>2, <3>6
  <2>7. CASE q < p
    <3>1. PICK l \in Lines : l = Line(q, NoName, b) /\ l.id = q
      BY ONLY <1>20, q \in Int, b \in Nat
    <3>2. W[<<i, j>>] = Emplaced(l, W[<<i, j + 1>>])
      <4>1. ~ (p < q)
        BY <2>7
      <4> QED
        BY ONLY <2>1, <2>3, <2>7, <3>1, <4>1
    <3>3. \A x : SymMeets(s, t, i, j, x) <=> x = l \/ SymMeets(s, t, i, j + 1, x)
      BY <2>2, <2>3, <2>7, <3>1, SymMeetsIs
    <3>4. AllLater(t, j + 1, l.id)
      BY ONLY <2>5, <3>1 DEF AllLater
    <3>5. AllLater(s, i, l.id)
      <4>1. ASSUME NEW c \in i .. Len(s) PROVE q < s[c].id
        <5>1. CASE c = i
          BY ONLY <2>3, <2>7, <5>1
        <5>2. CASE c \in i + 1 .. Len(s)
          <6>1. p < s[c].id /\ s[c].id \in Int
            BY ONLY <2>4, <5>2
          <6> QED
            BY ONLY <2>7, <6>1, p \in Int, q \in Int
        <5> QED
          BY ONLY <2>4, <5>1, <5>2, c \in i .. Len(s)
      <4> QED
        BY ONLY <3>1, <4>1 DEF AllLater
    <3>6. SymFrom(Emplaced(l, W[<<i, j + 1>>]), s, t, i, j)
      BY ONLY <1>5, <3>3, <3>4, <3>5, l \in Lines, SymPut
    <3> QED
      BY ONLY <3>2, <3>6
  <2>8. CASE p = q
    <3>1. W[<<i, j>>] = W[<<i + 1, j + 1>>]
      <4>1. ~ (p < q) /\ ~ (q < p)
        BY <2>8
      <4> QED
        BY ONLY <2>1, <2>3, <4>1
    <3>2. \A x : SymMeets(s, t, i, j, x) <=> SymMeets(s, t, i + 1, j + 1, x)
      BY <2>2, <2>3, <2>8, SymMeetsIs
    <3> QED
      BY ONLY <3>1, <3>2, <1>5 DEF SymFrom
  <2> QED
    BY <2>6, <2>7, <2>8
<1>6. 0 \in D
  <2>1. ASSUME NEW i \in 1 .. n + 1, NEW j \in 1 .. m + 1, (n + 1 - i) + (m + 1 - j) <= 0
        PROVE  SymFrom(W[<<i, j>>], s, t, i, j)
    <3>1. j = m + 1
      BY <2>1
    <3> QED
      BY <1>3, <3>1
  <2> QED
    BY <2>1
<1>7. ASSUME NEW k \in Nat, k < n + m, k \in D PROVE k + 1 \in D
  <2>1. ASSUME NEW i \in 1 .. n + 1, NEW j \in 1 .. m + 1, (n + 1 - i) + (m + 1 - j) <= k + 1
        PROVE  SymFrom(W[<<i, j>>], s, t, i, j)
    <3>1. CASE j = m + 1
      BY <1>3, <3>1
    <3>2. CASE j # m + 1
      <4>1. j \in 1 .. m /\ j + 1 \in 1 .. m + 1 /\ (n + 1 - i) + (m + 1 - (j + 1)) <= k
        BY <2>1, <3>2
      <4>2. \A p \in 1 .. n + 1, q \in 1 .. m + 1 :
              (n + 1 - p) + (m + 1 - q) <= k => SymFrom(W[<<p, q>>], s, t, p, q)
        BY <1>7
      <4>3. SymFrom(W[<<i, j + 1>>], s, t, i, j + 1)
        BY ONLY <4>1, <4>2, i \in 1 .. n + 1
      <4>4. CASE i = n + 1
        BY ONLY <1>4, <4>1, <4>3, <4>4
      <4>5. CASE i # n + 1
        <5>1. i \in 1 .. n /\ i + 1 \in 1 .. n + 1
          BY <4>5
        <5>2. (n + 1 - (i + 1)) + (m + 1 - j) <= k /\ (n + 1 - (i + 1)) + (m + 1 - (j + 1)) <= k
          BY <2>1
        <5>3. SymFrom(W[<<i + 1, j>>], s, t, i + 1, j)
          BY ONLY <4>2, <5>1, <5>2, j \in 1 .. m + 1
        <5>4. SymFrom(W[<<i + 1, j + 1>>], s, t, i + 1, j + 1)
          BY ONLY <4>1, <4>2, <5>1, <5>2
        <5> QED
          BY ONLY <1>5, <4>1, <4>3, <5>1, <5>3, <5>4
      <4> QED
        BY <4>4, <4>5
    <3> QED
      BY <3>1, <3>2
  <2>2. k + 1 \in 0 .. n + m
    BY <1>7
  <2> QED
    BY <2>1, <2>2
<1>8. n + m \in D
  <2> HIDE DEF D
  <2>1. PICK N \in Nat : N = n + m
    OBVIOUS
  <2>2. \A k \in Nat : k < N /\ k \in D => k + 1 \in D
    BY <1>7, <2>1
  <2>3. \A k \in 0 .. N : k \in D
    BY ONLY <1>6, <2>2, N \in Nat, Upwards
  <2> QED
    BY <2>1, <2>3
<1>9. 1 \in 1 .. n + 1 /\ 1 \in 1 .. m + 1 /\ (n + 1 - 1) + (m + 1 - 1) <= n + m
  OBVIOUS
<1> QED
  BY <1>8, <1>9

\* The ids of a table, and the name of an id in it.
TableIds(T) == {row.id : row \in T}

NameIn(T, id) == IF id \in TableIds(T) THEN (CHOOSE row \in T : row.id = id).name ELSE NoName

Answers(lines, A, B, wanted) ==
  /\ {lines[i] : i \in DOMAIN lines} = {Line(id, NameIn(A, id), NameIn(B, id)) : id \in wanted}
  /\ \A i, j \in DOMAIN lines : i < j => lines[i].id < lines[j].id

Missing(A, B) == {id \in TableIds(A) : \A other \in TableIds(B) : other < id}

\* s lists the rows of T.
ListsRows(s, T) ==
  /\ s \in Seq(RowsOfTables) /\ Ascending(s)
  /\ \A a \in 1 .. Len(s) : s[a].id \in TableIds(T) /\ NameIn(T, s[a].id) = s[a].name /\ s[a].id \in Int
  /\ \A id \in TableIds(T) : \E a \in 1 .. Len(s) : s[a].id = id
  /\ \A id : id \notin TableIds(T) => NameIn(T, id) = NoName

LEMMA RowsListed ==
  ASSUME NEW T, GoodTable(T)
  PROVE  ListsRows(Rows(T), T)
<1>1. PICK s : s = Rows(T)
  OBVIOUS
<1>2. s \in Seq(RowsOfTables) /\ Ascending(s) /\ \A x : x \in T <=> \E i \in 1 .. Len(s) : s[i] = x
  BY <1>1, RowsAre
<1>3. ASSUME NEW r \in T
      PROVE  r.id \in TableIds(T) /\ NameIn(T, r.id) = r.name /\ r.id \in Int
  <2>1. r.id \in TableIds(T)
    BY DEF TableIds
  <2>2. PICK c : c = CHOOSE row \in T : row.id = r.id
    OBVIOUS
  <2>3. c \in T /\ c.id = r.id
    BY <2>2, Zenon
  <2>4. c = r
    BY <2>3 DEF GoodTable
  <2>5. NameIn(T, r.id) = c.name
    BY <2>1, <2>2, Zenon DEF NameIn
  <2>6. r.id \in Int
    BY DEF GoodTable, RowsOfTables
  <2> QED
    BY <2>1, <2>4, <2>5, <2>6
<1>4. \A id \in TableIds(T) : \E a \in 1 .. Len(s) : s[a].id = id
  BY <1>2 DEF TableIds
<1>5. \A id : id \notin TableIds(T) => NameIn(T, id) = NoName
  BY DEF NameIn
<1>6. ASSUME NEW a \in 1 .. Len(s)
      PROVE  s[a].id \in TableIds(T) /\ NameIn(T, s[a].id) = s[a].name /\ s[a].id \in Int
  <2>1. PICK r \in T : r = s[a]
    BY <1>2
  <2> QED
    BY ONLY <1>3, <2>1, r \in T
<1> QED
  BY ONLY <1>1, <1>2, <1>4, <1>5, <1>6 DEF ListsRows

LEMMA AnswersAre ==
  ASSUME NEW A, NEW B, NEW wanted, NEW w \in Seq(Lines), Ascending(w),
         \A x : Meets(w, x) <=> \E id \in wanted : x = Line(id, NameIn(A, id), NameIn(B, id))
  PROVE  Answers(w, A, B, wanted)
<1>1. DOMAIN w = 1 .. Len(w)
  OBVIOUS
<1>2. \A i, j \in DOMAIN w : i < j => w[i].id < w[j].id
  BY ONLY <1>1, Ascending(w) DEF Ascending
<1>3. ASSUME NEW x PROVE x \in {w[i] : i \in DOMAIN w} <=> Meets(w, x)
  BY ONLY <1>1 DEF Meets
<1>4. {w[i] : i \in DOMAIN w} = {Line(id, NameIn(A, id), NameIn(B, id)) : id \in wanted}
  BY ONLY <1>3, \A x : Meets(w, x) <=> \E id \in wanted : x = Line(id, NameIn(A, id), NameIn(B, id))
<1> QED
  BY <1>2, <1>4 DEF Answers

LEMMA IntersectionAnswers ==
  ASSUME NEW A, NEW B, GoodTable(A), GoodTable(B)
  PROVE  Answers(Intersection(A, B), A, B, TableIds(A) \cap TableIds(B))
<1>1. PICK s, t : s = Rows(A) /\ t = Rows(B)
  OBVIOUS
<1>2. ListsRows(s, A) /\ ListsRows(t, B)
  BY <1>1, RowsListed
<1>3. s \in Seq(RowsOfTables) /\ t \in Seq(RowsOfTables) /\ Ascending(s) /\ Ascending(t)
  BY <1>2 DEF ListsRows
<1>4. PICK W : IsInter(W, s, t) /\ Intersection(A, B) = W[<<1, 1>>]
  BY <1>1, <1>3, IntersectionWalks
<1>5. PICK w : w = W[<<1, 1>>]
  OBVIOUS
<1>6. InterFrom(w, s, t, 1, 1)
  BY <1>3, <1>4, <1>5, InterIs
<1>7. w \in Seq(Lines) /\ Ascending(w) /\ \A x : Meets(w, x) <=> InterMeets(s, t, 1, 1, x)
  BY ONLY <1>6 DEF InterFrom
<1> DEFINE wanted == TableIds(A) \cap TableIds(B)
<1>8. ASSUME NEW x
      PROVE  InterMeets(s, t, 1, 1, x) <=> \E id \in wanted : x = Line(id, NameIn(A, id), NameIn(B, id))
  <2>1. ASSUME InterMeets(s, t, 1, 1, x)
        PROVE  \E id \in wanted : x = Line(id, NameIn(A, id), NameIn(B, id))
    <3>1. PICK a \in 1 .. Len(s), b \in 1 .. Len(t) : s[a].id = t[b].id /\ x = Line(s[a].id, s[a].name, t[b].name)
      BY <2>1 DEF InterMeets
    <3>2. s[a].id \in TableIds(A) /\ NameIn(A, s[a].id) = s[a].name
      BY <1>2 DEF ListsRows
    <3>3. t[b].id \in TableIds(B) /\ NameIn(B, t[b].id) = t[b].name
      BY <1>2 DEF ListsRows
    <3> QED
      BY ONLY <3>1, <3>2, <3>3
  <2>2. ASSUME NEW id \in wanted, x = Line(id, NameIn(A, id), NameIn(B, id))
        PROVE  InterMeets(s, t, 1, 1, x)
    <3>0. id \in TableIds(A) /\ id \in TableIds(B)
      OBVIOUS
    <3>1. PICK a \in 1 .. Len(s) : s[a].id = id /\ NameIn(A, id) = s[a].name
      BY ONLY <1>2, <3>0 DEF ListsRows
    <3>2. PICK b \in 1 .. Len(t) : t[b].id = id /\ NameIn(B, id) = t[b].name
      <4>1. ListsRows(t, B) /\ id \in TableIds(B)
        BY ONLY <1>2, <3>0
      <4>2. PICK b \in 1 .. Len(t) : t[b].id = id
        BY ONLY <4>1 DEF ListsRows
      <4>3. NameIn(B, t[b].id) = t[b].name
        BY ONLY <4>1, b \in 1 .. Len(t) DEF ListsRows
      <4> QED
        BY ONLY <4>2, <4>3
    <3> QED
      BY ONLY <2>2, <3>1, <3>2 DEF InterMeets
  <2> QED
    BY <2>1, <2>2
<1>9. Answers(w, A, B, wanted)
  <2> HIDE DEF wanted
  <2>1. \A x : Meets(w, x) <=> \E id \in wanted : x = Line(id, NameIn(A, id), NameIn(B, id))
    BY <1>7, <1>8
  <2> QED
    BY ONLY <1>7, <2>1, AnswersAre
<1> QED
  BY <1>4, <1>5, <1>9

LEMMA SymmetricDifferenceAnswers ==
  ASSUME NEW A, NEW B, GoodTable(A), GoodTable(B)
  PROVE  Answers(SymmetricDifference(A, B), A, B,
                 ((TableIds(A) \ TableIds(B)) \ Missing(A, B)) \cup (TableIds(B) \ TableIds(A)))
<1>1. PICK s, t : s = Rows(A) /\ t = Rows(B)
  OBVIOUS
<1>2. ListsRows(s, A) /\ ListsRows(t, B)
  BY <1>1, RowsListed
<1>3. s \in Seq(RowsOfTables) /\ t \in Seq(RowsOfTables) /\ Ascending(s) /\ Ascending(t)
  BY <1>2 DEF ListsRows
<1>4. PICK W : IsSym(W, s, t) /\ SymmetricDifference(A, B) = W[<<1, 1>>]
  BY <1>1, <1>3, SymmetricDifferenceWalks
<1>5. PICK w : w = W[<<1, 1>>]
  OBVIOUS
<1>6. SymFrom(w, s, t, 1, 1)
  BY <1>3, <1>4, <1>5, SymIs
<1>7. w \in Seq(Lines) /\ Ascending(w) /\ \A x : Meets(w, x) <=> SymMeets(s, t, 1, 1, x)
  BY ONLY <1>6 DEF SymFrom
<1> DEFINE left == (TableIds(A) \ TableIds(B)) \ Missing(A, B)
           right == TableIds(B) \ TableIds(A)
<1>8. ASSUME NEW id
      PROVE  /\ Apart(s, 1, id) <=> id \notin TableIds(A)
             /\ Apart(t, 1, id) <=> id \notin TableIds(B)
  BY ONLY <1>2 DEF ListsRows, Apart
<1>9. ASSUME NEW id \in Int, id \in TableIds(A), id \notin TableIds(B)
      PROVE  Under(t, 1, id) <=> id \notin Missing(A, B)
  <2>1. ASSUME Under(t, 1, id) PROVE id \notin Missing(A, B)
    <3>1. PICK b \in 1 .. Len(t) : id < t[b].id
      BY ONLY <2>1 DEF Under
    <3>2. t[b].id \in TableIds(B) /\ t[b].id \in Int
      BY ONLY <1>2, b \in 1 .. Len(t) DEF ListsRows
    <3>3. ~ (t[b].id < id)
      BY ONLY <3>1, <3>2, id \in Int
    <3> QED
      BY ONLY <3>2, <3>3 DEF Missing
  <2>2. ASSUME id \notin Missing(A, B) PROVE Under(t, 1, id)
    <3>1. PICK other \in TableIds(B) : ~ (other < id)
      BY ONLY <1>9, <2>2 DEF Missing
    <3>2. PICK b \in 1 .. Len(t) : t[b].id = other /\ t[b].id \in Int
      BY ONLY <1>2, other \in TableIds(B) DEF ListsRows
    <3>3. id < t[b].id
      BY ONLY <1>9, <3>1, <3>2, id \in Int, other \in TableIds(B)
    <3> QED
      BY ONLY <3>3, b \in 1 .. Len(t) DEF Under
  <2> QED
    BY <2>1, <2>2
<1>10. ASSUME NEW x
       PROVE  SymMeets(s, t, 1, 1, x) <=> \E id \in left \cup right : x = Line(id, NameIn(A, id), NameIn(B, id))
  <2>1. ASSUME OnlyRight(s, t, 1, 1, x)
        PROVE  \E id \in right : x = Line(id, NameIn(A, id), NameIn(B, id))
    <3>1. PICK b \in 1 .. Len(t) : Apart(s, 1, t[b].id) /\ x = Line(t[b].id, NoName, t[b].name)
      BY ONLY <2>1 DEF OnlyRight
    <3>2. t[b].id \in TableIds(B) /\ NameIn(B, t[b].id) = t[b].name
      BY ONLY <1>2, b \in 1 .. Len(t) DEF ListsRows
    <3>3. t[b].id \notin TableIds(A) /\ NameIn(A, t[b].id) = NoName
      BY ONLY <1>2, <1>8, <3>1 DEF ListsRows
    <3> QED
      BY ONLY <3>1, <3>2, <3>3
  <2>2. ASSUME OnlyLeft(s, t, 1, 1, x)
        PROVE  \E id \in left : x = Line(id, NameIn(A, id), NameIn(B, id))
    <3>1. PICK a \in 1 .. Len(s) :
            Apart(t, 1, s[a].id) /\ Under(t, 1, s[a].id) /\ x = Line(s[a].id, s[a].name, NoName)
      BY ONLY <2>2 DEF OnlyLeft
    <3>2. s[a].id \in TableIds(A) /\ NameIn(A, s[a].id) = s[a].name /\ s[a].id \in Int
      BY ONLY <1>2, a \in 1 .. Len(s) DEF ListsRows
    <3>3. s[a].id \notin TableIds(B) /\ NameIn(B, s[a].id) = NoName
      BY ONLY <1>2, <1>8, <3>1 DEF ListsRows
    <3>4. s[a].id \notin Missing(A, B)
      BY ONLY <1>9, <3>1, <3>2, <3>3
    <3> QED
      BY ONLY <3>1, <3>2, <3>3, <3>4
  <2>3. ASSUME NEW id \in right, x = Line(id, NameIn(A, id), NameIn(B, id))
        PROVE  OnlyRight(s, t, 1, 1, x)
    <3>1. id \in TableIds(B) /\ id \notin TableIds(A)
      OBVIOUS
    <3>2. PICK b \in 1 .. Len(t) : t[b].id = id /\ NameIn(B, id) = t[b].name
      BY ONLY <1>2, <3>1 DEF ListsRows
    <3>3. Apart(s, 1, id) /\ NameIn(A, id) = NoName
      BY ONLY <1>2, <1>8, <3>1 DEF ListsRows
    <3> QED
      BY ONLY <2>3, <3>2, <3>3 DEF OnlyRight
  <2>4. ASSUME NEW id \in left, x = Line(id, NameIn(A, id), NameIn(B, id))
        PROVE  OnlyLeft(s, t, 1, 1, x)
    <3>1. id \in TableIds(A) /\ id \notin TableIds(B) /\ id \notin Missing(A, B)
      OBVIOUS
    <3>2. PICK a \in 1 .. Len(s) : s[a].id = id /\ NameIn(A, id) = s[a].name /\ id \in Int
      BY ONLY <1>2, <3>1 DEF ListsRows
    <3>3. Apart(t, 1, id) /\ NameIn(B, id) = NoName
      BY ONLY <1>2, <1>8, <3>1 DEF ListsRows
    <3>4. Under(t, 1, id)
      BY ONLY <1>9, <3>1, <3>2
    <3> QED
      BY ONLY <2>4, <3>2, <3>3, <3>4 DEF OnlyLeft
  <2> HIDE DEF left, right
  <2> QED
    BY ONLY <2>1, <2>2, <2>3, <2>4 DEF SymMeets
<1>11. Answers(w, A, B, left \cup right)
  <2> HIDE DEF left, right
  <2>1. PICK wanted : wanted = left \cup right
    OBVIOUS
  <2>2. \A x : Meets(w, x) <=> \E id \in wanted : x = Line(id, NameIn(A, id), NameIn(B, id))
    BY ONLY <1>7, <1>10, <2>1
  <2>3. Answers(w, A, B, wanted)
    BY ONLY <1>7, <2>2, AnswersAre
  <2> QED
    BY <2>1, <2>3
<1> QED
  BY <1>4, <1>5, <1>11

\* Every table holds finitely many rows, of one name each.
DatabaseInv ==
  /\ DOMAIN db = TableNames
  /\ \A t \in TableNames : GoodTable(db[t])

\* In every state the database reaches the tables are maps from id to name.
THEOREM DatabaseInvariant == DatabaseSpec => []DatabaseInv
<1>1. DatabaseInit => DatabaseInv
  <2> SUFFICES ASSUME DatabaseInit PROVE DatabaseInv
    OBVIOUS
  <2>1. GoodTable({})
    BY FS_EmptySet DEF GoodTable
  <2> QED
    BY <2>1 DEF DatabaseInit, EmptyDataBase, DatabaseInv
<1>2. DatabaseInv /\ [DatabaseNext]_db => DatabaseInv'
  <2> SUFFICES ASSUME DatabaseInv, [DatabaseNext]_db PROVE DatabaseInv'
    OBVIOUS
  <2>1. ASSUME NEW t \in TableNames, NEW id \in Ids, NEW name \in RowNames,
               InsertRow(t, [id |-> id, name |-> name])
        PROVE  DatabaseInv'
    <3>1. PICK row, T : row = [id |-> id, name |-> name] /\ T = db[t] \cup {row}
      OBVIOUS
    <3>2. db' = [db EXCEPT ![t] = T] /\ ~ HasId(db[t], row.id)
      BY <2>1, <3>1 DEF InsertRow
    <3>3. row \in RowsOfTables
      BY <3>1, DatabaseAssumption DEF RowsOfTables
    <3>4. GoodTable(db[t])
      BY DEF DatabaseInv
    <3>5. IsFiniteSet(T)
      <4>1. IsFiniteSet(db[t])
        BY <3>4 DEF GoodTable
      <4> QED
        BY ONLY <3>1, <4>1, FS_AddElement
    <3>6. GoodTable(T)
      BY ONLY <3>1, <3>2, <3>3, <3>4, <3>5 DEF GoodTable, HasId
    <3> QED
      BY ONLY <3>2, <3>6, DatabaseInv, t \in TableNames DEF DatabaseInv
  <2>2. ASSUME NEW t \in TableNames, TruncateTable(t) PROVE DatabaseInv'
    <3>1. GoodTable({})
      BY FS_EmptySet DEF GoodTable
    <3>2. db' = [db EXCEPT ![t] = {}]
      BY <2>2 DEF TruncateTable
    <3> QED
      BY ONLY <3>1, <3>2, DatabaseInv, t \in TableNames DEF DatabaseInv
  <2>3. ASSUME UNCHANGED db PROVE DatabaseInv'
    BY <2>3 DEF DatabaseInv
  <2> QED
    BY <2>1, <2>2, <2>3 DEF DatabaseNext
<1> QED
  BY <1>1, <1>2, PTL DEF DatabaseSpec

LinesOf(A, B, wanted) == {Line(id, NameIn(A, id), NameIn(B, id)) : id \in wanted}

OfOne(A, B) == (TableIds(A) \ TableIds(B)) \cup (TableIds(B) \ TableIds(A))

InOrder(lines) == \A i, j \in DOMAIN lines : i < j => lines[i].id < lines[j].id

JoinsOf(A, B, both, one) ==
  /\ InOrder(both) /\ {both[i] : i \in DOMAIN both} = LinesOf(A, B, TableIds(A) \cap TableIds(B))
  /\ InOrder(one) /\ {one[i] : i \in DOMAIN one} \subseteq LinesOf(A, B, OfOne(A, B))
  /\ LinesOf(A, B, OfOne(A, B) \ Missing(A, B)) \subseteq {one[i] : i \in DOMAIN one}

LEMMA JoinsAnswer ==
  ASSUME NEW A, NEW B, GoodTable(A), GoodTable(B)
  PROVE  JoinsOf(A, B, Intersection(A, B), SymmetricDifference(A, B))
<1>1. PICK both, one : both = Intersection(A, B) /\ one = SymmetricDifference(A, B)
  OBVIOUS
<1>2. Answers(both, A, B, TableIds(A) \cap TableIds(B))
  BY <1>1, IntersectionAnswers
<1>3. PICK wanted : /\ Answers(one, A, B, wanted) /\ wanted \subseteq OfOne(A, B)
                    /\ OfOne(A, B) \ Missing(A, B) \subseteq wanted
  <2>1. Answers(one, A, B, ((TableIds(A) \ TableIds(B)) \ Missing(A, B)) \cup (TableIds(B) \ TableIds(A)))
    BY <1>1, SymmetricDifferenceAnswers
  <2> QED
    BY <2>1 DEF OfOne
<1>4. /\ InOrder(both)
      /\ {both[i] : i \in DOMAIN both} = LinesOf(A, B, TableIds(A) \cap TableIds(B))
  BY <1>2 DEF Answers, LinesOf, InOrder
<1>5. /\ InOrder(one)
      /\ {one[i] : i \in DOMAIN one} = LinesOf(A, B, wanted)
  BY <1>3 DEF Answers, LinesOf, InOrder
<1>6. /\ {one[i] : i \in DOMAIN one} \subseteq LinesOf(A, B, OfOne(A, B))
      /\ LinesOf(A, B, OfOne(A, B) \ Missing(A, B)) \subseteq {one[i] : i \in DOMAIN one}
  <2>1. ASSUME NEW V, NEW W, V \subseteq W PROVE LinesOf(A, B, V) \subseteq LinesOf(A, B, W)
    BY <2>1 DEF LinesOf
  <2> QED
    BY <1>3, <1>5, <2>1
<1> QED
  BY <1>1, <1>4, <1>5, <1>6 DEF JoinsOf

LEMMA JoinsAre == DatabaseInv => JoinsByTheBook
<1> SUFFICES ASSUME DatabaseInv PROVE JoinsByTheBook
  OBVIOUS
<1>1. GoodTable(db["A"]) /\ GoodTable(db["B"])
  BY DEF DatabaseInv, TableNames
<1>2. JoinsOf(db["A"], db["B"], Intersection(db["A"], db["B"]), SymmetricDifference(db["A"], db["B"]))
  BY <1>1, JoinsAnswer
<1> QED
  BY <1>2, Zenon DEF JoinsByTheBook, JoinsOf, InOrder, LinesOf, OfOne, TableIds, NameIn, Missing

\* In every state the intersection answers a line for every id of both tables;
\* the symmetric difference only for ids of one table only, and for all of them
\* but, perhaps, those of the left table beyond the last id of the right; in the
\* order of ids (database.cpp:25-77).
THEOREM JoinsSound == DatabaseSpec => []JoinsByTheBook
<1>1. DatabaseInv => JoinsByTheBook
  BY JoinsAre
<1> QED
  BY <1>1, DatabaseInvariant, PTL

-----------------------------------------------------------------------------
\* bayan.

\* A recursive function of numbers whose values stay where its steps keep them.
StepsWithin(g, X, n) == \A k \in 1 .. n : \A x \in X[k - 1] : g[<<k, x>>] \in X[k]

AreStages(f, g, X, n, base) ==
  /\ f = [k \in 0 .. n |-> IF k = 0 THEN base ELSE g[<<k, f[k - 1]>>]]
  /\ \A k \in 0 .. n : f[k] \in X[k]

LEMMA Stages ==
  ASSUME NEW n \in Nat, NEW X, NEW base \in X[0], NEW g, StepsWithin(g, X, n)
  PROVE  \E f : AreStages(f, g, X, n, base)
<1> USE DEF StepsWithin
<1> DEFINE U == UNION {X[k] : k \in 0 .. n}
           h == [p \in (1 .. n) \X U |-> IF p[2] \in X[p[1] - 1] THEN g[p] ELSE base]
<1>1. base \in U
  OBVIOUS
<1>2. ASSUME NEW k \in 1 .. n, NEW x \in U
      PROVE  h[<<k, x>>] = IF x \in X[k - 1] THEN g[<<k, x>>] ELSE base
  OBVIOUS
<1>3. ASSUME NEW k \in 1 .. n, NEW x \in U PROVE h[<<k, x>>] \in U
  <2>1. CASE x \in X[k - 1]
    <3>1. h[<<k, x>>] \in X[k] /\ k \in 0 .. n
      BY <1>2, <2>1
    <3> HIDE DEF h
    <3> QED
      BY <3>1
  <2>2. CASE x \notin X[k - 1]
    BY <1>1, <1>2, <2>2
  <2> QED
    BY <2>1, <2>2
<1> HIDE DEF h
<1>4. \A k \in 0 .. n : \A x \in X[k] : x \in U
  OBVIOUS
<1> HIDE DEF U
<1>5. PICK f : /\ f = [k \in 0 .. n |-> IF k = 0 THEN base ELSE h[<<k, f[k - 1]>>]]
               /\ f \in [0 .. n -> U]
  BY <1>1, <1>3, Recursion
<1> DEFINE D == {k \in 0 .. n : f[k] \in X[k]}
<1>6. 0 \in D
  BY <1>5
<1>7. ASSUME NEW k \in Nat, k < n, k \in D PROVE k + 1 \in D
  <2>1. k + 1 \in 1 .. n /\ k + 1 \in 0 .. n /\ (k + 1) - 1 = k /\ k \in 0 .. n
    BY <1>7
  <2>2. f[k + 1] = h[<<k + 1, f[k]>>]
    BY <1>5, <2>1
  <2>3. f[k] \in X[k] /\ f[k] \in U
    BY <1>5, <1>7, <2>1
  <2>4. h[<<k + 1, f[k]>>] = g[<<k + 1, f[k]>>]
    BY <1>2, <2>1, <2>3
  <2>5. g[<<k + 1, f[k]>>] \in X[k + 1]
    BY <2>1, <2>3
  <2> QED
    BY <2>1, <2>2, <2>4, <2>5
<1> HIDE DEF D
<1>8. \A k \in 0 .. n : k \in D
  BY <1>6, <1>7, Upwards
<1>9. ASSUME NEW k \in 0 .. n PROVE f[k] = IF k = 0 THEN base ELSE g[<<k, f[k - 1]>>]
  <2>1. CASE k = 0
    BY <1>5, <2>1
  <2>2. CASE k # 0
    <3>1. k \in 1 .. n /\ k - 1 \in 0 .. n
      BY <2>2
    <3>2. f[k] = h[<<k, f[k - 1]>>] /\ f[k - 1] \in U
      BY <1>5, <3>1
    <3>3. f[k - 1] \in X[k - 1]
      BY <1>8, <3>1 DEF D
    <3> QED
      BY <1>2, <2>2, <3>1, <3>2, <3>3
  <2> QED
    BY <2>1, <2>2
<1>10. f = [k \in 0 .. n |-> f[k]]
  BY <1>5
<1>11. f = [k \in 0 .. n |-> IF k = 0 THEN base ELSE g[<<k, f[k - 1]>>]]
  BY <1>9, <1>10
<1>12. \A k \in 0 .. n : f[k] \in X[k]
  BY <1>8 DEF D
<1> QED
  BY <1>11, <1>12, Zenon DEF AreStages

FileRecords == [bytes : Seq(Int), readable : BOOLEAN]

FilesOk == files \in Seq(FileRecords)

Blocks == [1 .. BlockSize -> Int]
HashValues == {hash[b] : b \in Blocks}

HasherRecords ==
  [name : Nat, cache : Seq(HashValues), open : BOOLEAN, valid : BOOLEAN, at : Nat, readed : Nat]

\* Where the stream is after c blocks.
Reached(f, c) == IF c * BlockSize <= Len(f.bytes) THEN c * BlockSize ELSE Len(f.bytes)

Cached(f, cache) ==
  \A k \in 0 .. Len(cache) - 1 : k * BlockSize < Len(f.bytes) /\ cache[k + 1] = HashOf(f, k)

\* A hasher of the file f: its cache has the hashes of the first blocks, and an
\* open stream is where the cache ends.
Reads(f, fh) ==
  /\ Cached(f, fh.cache)
  /\ f.readable => fh.valid
  /\ ~ f.readable => fh.cache = <<>> /\ ~ fh.open
  /\ fh.open => fh.readed = Len(fh.cache) /\ fh.at = Reached(f, Len(fh.cache))
  /\ ~ fh.open => fh.readed = 0

GoodHasher(fh) == fh \in HasherRecords /\ fh.name \in DOMAIN files /\ Reads(files[fh.name], fh)

LEMMA HasherFields ==
  ASSUME NEW fh \in HasherRecords
  PROVE  /\ fh.name \in Nat /\ fh.cache \in Seq(HashValues) /\ fh.open \in BOOLEAN /\ fh.valid \in BOOLEAN
         /\ fh.at \in Nat /\ fh.readed \in Nat /\ Len(fh.cache) \in Nat
BY DEF HasherRecords

LEMMA FileFields ==
  ASSUME FilesOk, NEW i \in DOMAIN files
  PROVE  /\ files[i] \in FileRecords /\ files[i].bytes \in Seq(Int) /\ files[i].readable \in BOOLEAN
         /\ Len(files[i].bytes) \in Nat /\ i \in Nat
<1>1. files[i] \in FileRecords /\ i \in Nat
  BY DEF FilesOk
<1>2. PICK f : f = files[i]
  OBVIOUS
<1>3. f.bytes \in Seq(Int) /\ f.readable \in BOOLEAN
  BY <1>1, <1>2 DEF FileRecords
<1>4. Len(f.bytes) \in Nat
  BY <1>3
<1> QED
  BY <1>1, <1>2, <1>3, <1>4

\* A block is a tuple of numbers, padded with zeros.
LEMMA BlockIs ==
  ASSUME NEW bytes \in Seq(Int), NEW k \in Nat
  PROVE  BlockOf(bytes, k) \in Blocks
<1>1. PICK q \in Nat : q = k * BlockSize
  BY FileCompareAssumption
<1>2. ASSUME NEW i \in 1 .. BlockSize, q + i <= Len(bytes) PROVE bytes[q + i] \in Int
  <2>1. q + i \in 1 .. Len(bytes)
    BY <1>2, FileCompareAssumption
  <2> QED
    BY <2>1
<1>3. BlockOf(bytes, k) = [i \in 1 .. BlockSize |-> IF q + i <= Len(bytes) THEN bytes[q + i] ELSE 0]
  BY <1>1, Zenon DEF BlockOf
<1> QED
  BY <1>2, <1>3 DEF Blocks

\* What read() does for a stream that is where the cache ends.
LEMMA NextBlockIs ==
  ASSUME FilesOk, NEW fh, GoodHasher(fh), fh.open, NEW c, c = Len(fh.cache),
         c * BlockSize < Len(files[fh.name].bytes), NEW x, x = WithNextBlock(fh)
  PROVE  /\ GoodHasher(x) /\ x.name = fh.name /\ x.open = fh.open /\ x.valid = fh.valid
         /\ Len(x.cache) = c + 1
<1>1. PICK f : f = files[fh.name]
  OBVIOUS
<1>2. /\ fh \in HasherRecords /\ fh.name \in DOMAIN files /\ Reads(f, fh) /\ c \in Nat
      /\ fh.cache \in Seq(HashValues) /\ f.bytes \in Seq(Int) /\ f.readable \in BOOLEAN
  BY <1>1, HasherFields, FileFields DEF GoodHasher
<1>3. PICK size \in Nat : size = Len(f.bytes)
  BY <1>2
<1>4. PICK q \in Nat : q = c * BlockSize /\ (c + 1) * BlockSize = q + BlockSize
  BY <1>2, FileCompareAssumption
<1>5. BlockSize \in Nat /\ BlockSize > 0 /\ q < size
  BY <1>1, <1>3, <1>4, FileCompareAssumption
<1>6. fh.readed = c /\ fh.at = q /\ f.readable
  BY <1>2, <1>3, <1>4, <1>5 DEF Reads, Reached
<1>7. PICK n : n = IF q + BlockSize <= size THEN BlockSize ELSE IF size > q THEN size - q ELSE 0
  OBVIOUS
<1>19. /\ n \in Nat
       /\ \/ q + BlockSize <= size /\ n = BlockSize
          \/ ~ (q + BlockSize <= size) /\ n = size - q
  <2>1. size - q \in Nat /\ size > q
    BY <1>5
  <2> QED
    BY <1>5, <1>7, <2>1
<1>8. PICK block : block = [i \in 1 .. BlockSize |-> IF i <= n THEN f.bytes[q + i] ELSE 0]
  OBVIOUS
<1>9. x = [fh EXCEPT !.at = q + n, !.readed = c + 1, !.cache = Append(fh.cache, hash[block])]
  <2>1. SizeOf(fh) = size
    BY <1>1, <1>3 DEF SizeOf
  <2>2. fh.readed * BlockSize = q /\ fh.readed + 1 = c + 1
    BY <1>4, <1>6
  <2> QED
    BY <1>1, <1>6, <1>7, <1>8, <2>1, <2>2 DEF WithNextBlock
<1>10. block = BlockOf(f.bytes, c)
  <2>1. \A i \in 1 .. BlockSize : i <= n <=> q + i <= size
    BY <1>5, <1>19
  <2>2. BlockOf(f.bytes, c) = [i \in 1 .. BlockSize |-> IF q + i <= size THEN f.bytes[q + i] ELSE 0]
    BY <1>3, <1>4, Zenon DEF BlockOf
  <2> QED
    BY <1>8, <2>1, <2>2
<1>11. hash[block] \in HashValues /\ hash[block] = HashOf(f, c)
  BY <1>2, <1>10, BlockIs DEF HashValues, HashOf
<1>12. PICK cache : cache = Append(fh.cache, hash[block])
  OBVIOUS
<1>13. /\ cache \in Seq(HashValues) /\ Len(cache) = c + 1 /\ cache[c + 1] = hash[block]
       /\ \A k \in 1 .. c : cache[k] = fh.cache[k]
  BY <1>2, <1>11, <1>12
<1>14. PICK at \in Nat : at = q + n
  BY <1>19
<1>15. /\ x \in HasherRecords /\ x.name = fh.name /\ x.open = fh.open /\ x.valid = fh.valid
       /\ x.cache = cache /\ x.at = at /\ x.readed = c + 1
  <2>1. x = [fh EXCEPT !.at = at, !.readed = c + 1, !.cache = cache]
    BY <1>9, <1>12, <1>14
  <2>2. c + 1 \in Nat
    BY <1>2
  <2> QED
    BY <1>2, <1>13, <2>1, <2>2 DEF HasherRecords
<1>16. Cached(f, cache)
  <2> SUFFICES ASSUME NEW k \in 0 .. c PROVE k * BlockSize < size /\ cache[k + 1] = HashOf(f, k)
    BY <1>2, <1>3, <1>13 DEF Cached
  <2>1. CASE k = c
    BY <1>4, <1>5, <1>11, <1>13, <2>1
  <2>2. CASE k # c
    <3>1. k \in 0 .. c - 1 /\ k + 1 \in 1 .. c
      BY <1>2, <2>2
    <3> QED
      BY <1>2, <1>3, <1>13, <3>1 DEF Reads, Cached
  <2> QED
    BY <2>1, <2>2
<1>17. at = Reached(f, c + 1)
  <2>1. at = IF q + BlockSize <= size THEN q + BlockSize ELSE size
    BY <1>5, <1>14, <1>19
  <2> QED
    BY <1>3, <1>4, <2>1 DEF Reached
<1>18. Reads(f, x)
  BY <1>2, <1>6, <1>13, <1>15, <1>16, <1>17 DEF Reads
<1> QED
  BY <1>1, <1>2, <1>13, <1>15, <1>18 DEF GoodHasher

\* A hasher whose file has been opened, or could not be, and its loop after m turns.
Ready(fh) ==
  /\ GoodHasher(fh)
  /\ fh.open = files[fh.name].readable /\ fh.valid = files[fh.name].readable

FilledTo(name, k, m) ==
  {x \in HasherRecords : Ready(x) /\ x.name = name /\ (x.open => Len(x.cache) >= m)}

FillStep(x, k) == IF Len(x.cache) <= k /\ x.valid THEN WithNextBlock(x) ELSE x

LEMMA FillStepIs ==
  ASSUME FilesOk, NEW name, NEW k \in Nat, k * BlockSize < Len(files[name].bytes),
         NEW m \in 1 .. k + 1, NEW x \in FilledTo(name, k, m - 1)
  PROVE  FillStep(x, k) \in FilledTo(name, k, m)
<1>1. /\ x \in HasherRecords /\ Ready(x) /\ x.name = name /\ (x.open => Len(x.cache) >= m - 1)
      /\ Len(x.cache) \in Nat /\ x.open \in BOOLEAN /\ x.valid \in BOOLEAN
      /\ GoodHasher(x) /\ x.open = x.valid /\ x.open = files[name].readable
  BY HasherFields DEF FilledTo, Ready
<1>2. CASE Len(x.cache) <= k /\ x.valid
  <2>1. PICK c \in Nat : c = Len(x.cache)
    BY <1>1
  <2>2. PICK y : y = WithNextBlock(x)
    OBVIOUS
  <2>3. c * BlockSize < Len(files[name].bytes)
    <3>1. c * BlockSize <= k * BlockSize
      BY <1>2, <2>1, FileCompareAssumption
    <3>2. PICK q \in Nat, r \in Nat : q = c * BlockSize /\ r = k * BlockSize
      BY <2>1, FileCompareAssumption
    <3>3. name \in DOMAIN files
      BY <1>1 DEF GoodHasher
    <3>4. Len(files[name].bytes) \in Nat
      BY <3>3, FileFields
    <3> QED
      BY <3>1, <3>2, <3>4
  <2>4. /\ GoodHasher(y) /\ y.name = x.name /\ y.open = x.open /\ y.valid = x.valid
        /\ Len(y.cache) = c + 1
    BY <1>1, <1>2, <2>1, <2>2, <2>3, NextBlockIs
  <2>5. y \in HasherRecords
    BY <2>4 DEF GoodHasher
  <2>6. Len(y.cache) >= m
    <3>1. c >= m - 1
      BY <1>1, <1>2, <2>1
    <3> QED
      BY <2>1, <2>4, <3>1
  <2> QED
    BY <1>1, <1>2, <2>2, <2>4, <2>5, <2>6 DEF FilledTo, Ready, FillStep
<1>3. CASE ~ (Len(x.cache) <= k /\ x.valid)
  <2>1. x.open => Len(x.cache) >= m
    BY <1>1, <1>3
  <2> QED
    BY <1>1, <1>3, <2>1 DEF FilledTo, FillStep
<1> QED
  BY <1>2, <1>3

IsFilling(F, fh, k) ==
  F = [n \in 0 .. k + 1 |->
         IF n = 0 THEN fh
         ELSE LET before == F[n - 1]
              IN  IF Len(before.cache) <= k /\ before.valid THEN WithNextBlock(before) ELSE before]

LEMMA FilledIs ==
  ASSUME FilesOk, NEW fh, Ready(fh), NEW k \in Nat, k * BlockSize < Len(files[fh.name].bytes)
  PROVE  /\ Ready(Filled(fh, k)) /\ Filled(fh, k).name = fh.name
         /\ fh.open => k < Len(Filled(fh, k).cache)
<1>1. PICK name : name = fh.name
  OBVIOUS
<1> DEFINE X == [m \in 0 .. k + 1 |-> FilledTo(name, k, m)]
           g == [p \in (1 .. k + 1) \X HasherRecords |-> FillStep(p[2], k)]
<1>2. fh \in X[0]
  BY <1>1, HasherFields DEF FilledTo, Ready, GoodHasher
<1>3. ASSUME NEW m \in 1 .. k + 1, NEW x \in X[m - 1] PROVE g[<<m, x>>] = FillStep(x, k) /\ g[<<m, x>>] \in X[m]
  <2>1. x \in FilledTo(name, k, m - 1) /\ x \in HasherRecords
    BY DEF FilledTo
  <2>2. FillStep(x, k) \in FilledTo(name, k, m)
    BY <1>1, <2>1, FillStepIs
  <2> QED
    BY <2>1, <2>2
<1>4. k + 1 \in Nat
  OBVIOUS
<1> HIDE DEF g
<1>5. PICK F : /\ F = [m \in 0 .. k + 1 |-> IF m = 0 THEN fh ELSE g[<<m, F[m - 1]>>]]
               /\ \A m \in 0 .. k + 1 : F[m] \in X[m]
  <2> HIDE DEF X
  <2>1. PICK N \in Nat : N = k + 1
    BY <1>4
  <2>2. PICK Y, h : Y = X /\ h = g
    OBVIOUS
  <2>3. fh \in Y[0] /\ StepsWithin(h, Y, N)
    BY <1>2, <1>3, <2>1, <2>2 DEF StepsWithin
  <2>4. PICK F : AreStages(F, h, Y, N, fh)
    BY ONLY <2>3, N \in Nat, Stages
  <2> QED
    BY <2>1, <2>2, <2>4, Zenon DEF AreStages
<1>6. \A m \in 0 .. k + 1 : F[m] = IF m = 0 THEN fh ELSE FillStep(F[m - 1], k)
  <2> SUFFICES ASSUME NEW m \in 0 .. k + 1 PROVE F[m] = IF m = 0 THEN fh ELSE FillStep(F[m - 1], k)
    OBVIOUS
  <2>1. CASE m = 0
    BY <1>5, <2>1
  <2>2. CASE m # 0
    <3>1. m \in 1 .. k + 1 /\ m - 1 \in 0 .. k + 1
      BY <2>2
    <3>2. F[m - 1] \in X[m - 1]
      BY <1>5, <3>1
    <3>3. F[m] = g[<<m, F[m - 1]>>]
      BY <1>5, <2>2
    <3> HIDE DEF X
    <3> QED
      BY <1>3, <2>2, <3>1, <3>2, <3>3
  <2> QED
    BY <2>1, <2>2
<1>7. IsFilling(F, fh, k)
  <2>1. F = [m \in 0 .. k + 1 |-> F[m]]
    BY <1>5
  <2>2. F = [m \in 0 .. k + 1 |-> IF m = 0 THEN fh ELSE FillStep(F[m - 1], k)]
    BY <1>6, <2>1
  <2> QED
    BY <2>2, Zenon DEF IsFilling, FillStep
<1> DEFINE W == CHOOSE W : IsFilling(W, fh, k)
<1>8. IsFilling(W, fh, k)
  BY <1>7, Zenon
<1>9. Filled(fh, k) = W[k + 1]
  BY Zenon DEF Filled, IsFilling
<1> HIDE DEF W
<1>10. \A m \in 0 .. k + 1 : W[m] = IF m = 0 THEN fh ELSE FillStep(W[m - 1], k)
  BY <1>8 DEF IsFilling, FillStep
<1> DEFINE D == {m \in 0 .. k + 1 : W[m] \in X[m]}
<1>11. 0 \in D
  BY <1>2, <1>10
<1>12. ASSUME NEW m \in Nat, m < k + 1, m \in D PROVE m + 1 \in D
  <2>1. m + 1 \in 1 .. k + 1 /\ m + 1 \in 0 .. k + 1 /\ (m + 1) - 1 = m /\ m + 1 # 0
    BY <1>12
  <2>2. W[m] \in X[m]
    BY <1>12
  <2>3. W[m + 1] = FillStep(W[m], k)
    BY <1>10, <2>1
  <2>4. FillStep(W[m], k) \in X[m + 1]
    <3> HIDE DEF X
    <3> QED
      BY <1>3, <2>1, <2>2
  <2> QED
    BY <2>1, <2>3, <2>4
<1> HIDE DEF D
<1>13. \A m \in 0 .. k + 1 : m \in D
  BY <1>4, <1>11, <1>12, Upwards
<1>14. W[k + 1] \in FilledTo(name, k, k + 1)
  <2>1. k + 1 \in 0 .. k + 1
    OBVIOUS
  <2> QED
    BY <1>13, <2>1 DEF D
<1>15. PICK y : y = Filled(fh, k)
  OBVIOUS
<1>16. y \in HasherRecords /\ Ready(y) /\ y.name = name /\ (y.open => Len(y.cache) >= k + 1)
  BY <1>9, <1>14, <1>15 DEF FilledTo
<1>17. Len(y.cache) \in Nat /\ y.open = fh.open
  BY <1>1, <1>16, HasherFields DEF Ready
<1> QED
  BY <1>1, <1>15, <1>16, <1>17

\* A file that is opened again is read on where the cache ends.
LEMMA ShiftedIs ==
  ASSUME FilesOk, NEW fh, GoodHasher(fh), fh.valid, NEW c, c = Len(fh.cache),
         c * BlockSize < Len(files[fh.name].bytes), NEW x, x = Shifted(Opened(fh), c)
  PROVE  Ready(x) /\ x.name = fh.name
<1>1. PICK f : f = files[fh.name]
  OBVIOUS
<1>2. /\ fh \in HasherRecords /\ fh.name \in DOMAIN files /\ Reads(f, fh) /\ c \in Nat
      /\ fh.name \in Nat /\ fh.cache \in Seq(HashValues) /\ fh.open \in BOOLEAN /\ fh.valid \in BOOLEAN
      /\ fh.at \in Nat /\ fh.readed \in Nat
      /\ f.readable \in BOOLEAN /\ Len(f.bytes) \in Nat
  BY <1>1, HasherFields, FileFields DEF GoodHasher
<1>3. CASE fh.open
  <2>1. Opened(fh) = fh /\ fh.readed = c /\ f.readable
    BY <1>2, <1>3 DEF Opened, Reads
  <2>2. x = fh
    BY <1>2, <2>1 DEF Shifted
  <2> QED
    BY <1>1, <1>2, <1>3, <2>1, <2>2 DEF Ready
<1>4. CASE ~ fh.open
  <2>1. PICK q \in Nat : q = c * BlockSize
    BY <1>2, FileCompareAssumption
  <2>2. PICK o : o = [fh EXCEPT !.open = f.readable, !.valid = f.readable, !.at = 0]
    OBVIOUS
  <2>3. Opened(fh) = o
    BY <1>1, <1>4, <2>2 DEF Opened
  <2>4. /\ o \in HasherRecords /\ o.name = fh.name /\ o.cache = fh.cache /\ o.open = f.readable
        /\ o.valid = f.readable /\ o.at = 0 /\ o.readed = 0
    BY <1>2, <1>4, <2>2 DEF HasherRecords, Reads
  <2>5. /\ x \in HasherRecords /\ x.name = fh.name /\ x.cache = fh.cache /\ x.open = f.readable
        /\ x.valid = f.readable /\ x.readed = c /\ x.at = q
    <3>1. CASE c > 0
      <4>1. x = [o EXCEPT !.at = q, !.readed = c]
        <5>1. c > o.readed /\ (c - o.readed) * BlockSize = q
          BY <1>2, <2>1, <2>4, <3>1
        <5> QED
          BY <2>3, <5>1 DEF Shifted
      <4> QED
        BY <1>2, <2>1, <2>4, <4>1 DEF HasherRecords
    <3>2. CASE c = 0
      <4>1. x = o
        BY <2>3, <2>4, <3>2 DEF Shifted
      <4>2. q = 0
        BY <2>1, <3>2, FileCompareAssumption
      <4> QED
        BY <2>4, <3>2, <4>1, <4>2
    <3> QED
      BY <1>2, <3>1, <3>2
  <2>6. Reached(f, c) = q
    BY <1>1, <1>2, <2>1 DEF Reached
  <2>7. ~ f.readable => c = 0
    BY <1>2 DEF Reads
  <2>8. Reads(f, x)
    BY <1>2, <2>5, <2>6, <2>7 DEF Reads
  <2> QED
    BY <1>1, <1>2, <2>5, <2>8 DEF Ready, GoodHasher
<1> QED
  BY <1>3, <1>4

\* There is a k-th block if the file can be read and is long enough, and its
\* hash is that of the block, whatever was read before.
LEMMA AfterReadIs ==
  ASSUME FilesOk, NEW fh, GoodHasher(fh), NEW k \in Nat, NEW r, r = AfterRead(fh, k),
         NEW f, f = files[fh.name]
  PROVE  /\ GoodHasher(r) /\ r.name = fh.name
         /\ HasBlock(r, k) <=> f.readable /\ k * BlockSize < Len(f.bytes)
         /\ HasBlock(r, k) => r.cache[k + 1] = HashOf(f, k)
<1>1. /\ fh \in HasherRecords /\ fh.name \in DOMAIN files /\ Reads(f, fh)
      /\ Len(fh.cache) \in Nat /\ f.readable \in BOOLEAN /\ Len(f.bytes) \in Nat
  BY HasherFields, FileFields DEF GoodHasher
<1>2. PICK q \in Nat : q = k * BlockSize
  BY FileCompareAssumption
<1>3. SizeOf(fh) = Len(f.bytes)
  BY DEF SizeOf
<1>4. /\ GoodHasher(r) /\ r.name = fh.name
      /\ f.readable /\ q < Len(f.bytes) => k < Len(r.cache)
  <2>1. CASE k < Len(fh.cache) \/ q >= Len(f.bytes) \/ ~ fh.valid
    <3>1. r = fh
      BY <1>2, <1>3, <2>1 DEF AfterRead
    <3>2. f.readable => fh.valid
      BY <1>1 DEF Reads
    <3> QED
      BY <1>1, <1>2, <2>1, <3>1, <3>2
  <2>2. CASE ~ (k < Len(fh.cache) \/ q >= Len(f.bytes) \/ ~ fh.valid)
    <3>1. PICK c \in Nat : c = Len(fh.cache)
      BY <1>1
    <3>2. PICK x : x = Shifted(Opened(fh), c)
      OBVIOUS
    <3>3. r = Filled(x, k)
      BY <1>2, <1>3, <2>2, <3>1, <3>2 DEF AfterRead
    <3>4. c * BlockSize < Len(f.bytes)
      <4>1. c * BlockSize <= k * BlockSize
        BY <2>2, <3>1, FileCompareAssumption
      <4>2. PICK d \in Nat : d = c * BlockSize
        BY <3>1, FileCompareAssumption
      <4> QED
        BY <1>1, <1>2, <2>2, <4>1, <4>2
    <3>5. Ready(x) /\ x.name = fh.name
      BY <2>2, <3>1, <3>2, <3>4, ShiftedIs
    <3>6. k * BlockSize < Len(files[x.name].bytes)
      BY <1>1, <1>2, <2>2, <3>5
    <3>7. Ready(r) /\ r.name = x.name /\ (x.open => k < Len(r.cache))
      BY <3>3, <3>5, <3>6, FilledIs
    <3>8. x.open = f.readable
      BY <3>5 DEF Ready
    <3> QED
      BY <3>5, <3>7, <3>8 DEF Ready
  <2> QED
    BY <2>1, <2>2
<1>5. ASSUME k < Len(r.cache)
      PROVE  f.readable /\ q < Len(f.bytes) /\ r.cache[k + 1] = HashOf(f, k)
  <2>1. Reads(f, r) /\ Len(r.cache) \in Nat
    BY <1>4, HasherFields DEF GoodHasher
  <2>2. k \in 0 .. Len(r.cache) - 1
    BY <1>5, <2>1
  <2>3. Cached(f, r.cache) /\ (~ f.readable => r.cache = <<>>)
    BY <2>1 DEF Reads
  <2>4. f.readable
    BY <1>1, <1>5, <2>3
  <2> QED
    BY <1>2, <2>2, <2>3, <2>4 DEF Cached
<1> QED
  BY <1>2, <1>4, <1>5 DEF HasBlock

LEMMA ClosedIs ==
  ASSUME FilesOk, NEW fh, GoodHasher(fh)
  PROVE  GoodHasher(Closed(fh)) /\ Closed(fh).name = fh.name
<1>1. PICK x : x = Closed(fh)
  OBVIOUS
<1>2. fh \in HasherRecords /\ fh.open \in BOOLEAN /\ fh.readed \in Nat
  BY HasherFields DEF GoodHasher
<1>3. CASE ~ fh.open
  BY <1>1, <1>3 DEF Closed
<1>4. CASE fh.open
  <2>1. x = [fh EXCEPT !.open = FALSE, !.readed = 0]
    BY <1>1, <1>4 DEF Closed
  <2>2. /\ x \in HasherRecords /\ x.name = fh.name /\ x.cache = fh.cache /\ x.open = FALSE
        /\ x.valid = fh.valid /\ x.readed = 0
    BY <1>2, <2>1 DEF HasherRecords
  <2>3. Reads(files[fh.name], x)
    BY <2>2 DEF GoodHasher, Reads
  <2> QED
    BY <1>1, <2>2, <2>3 DEF GoodHasher
<1> QED
  BY <1>3, <1>4

\* Whether operator== takes two files for the same, told from their bytes: a
\* file that cannot be opened has no blocks and equals any file of its size.
LooksSame(f, g) ==
  /\ Len(f.bytes) = Len(g.bytes)
  /\ f.readable /\ g.readable =>
       \A k \in 0 .. Len(f.bytes) : k * BlockSize < Len(f.bytes) => HashOf(f, k) = HashOf(g, k)

\* The first file each file looks the same as, among those that started a group or stand alone.
Leaders ==
  LET leader[f \in DOMAIN files] ==
        LET same == {g \in NonEmpty : g < f /\ leader[g] = g /\ LooksSame(files[f], files[g])}
        IN  IF same = {} THEN f ELSE CHOOSE g \in same : \A x \in same : g <= x
  IN  leader

GroupOf(g) == {f \in NonEmpty : Leaders[f] = g}

\* The walk over the blocks of two files of one size, after n turns.
WalkRecords == [lhs : HasherRecords, rhs : HasherRecords, over : BOOLEAN, same : BOOLEAN]

SameBefore(f, g, n) ==
  /\ n > 0 => f.readable /\ g.readable
  /\ \A k \in 0 .. n - 1 : k * BlockSize < Len(f.bytes) /\ HashOf(f, k) = HashOf(g, k)

WalkedTo(l, r, n) ==
  {w \in WalkRecords :
     /\ GoodHasher(w.lhs) /\ w.lhs.name = l /\ GoodHasher(w.rhs) /\ w.rhs.name = r
     /\ ~ w.over => SameBefore(files[l], files[r], n)
     /\ w.over => (w.same <=> LooksSame(files[l], files[r]))}

LEMMA TurnIs ==
  ASSUME FilesOk, NEW l \in DOMAIN files, NEW r \in DOMAIN files,
         Len(files[l].bytes) = Len(files[r].bytes),
         NEW n \in Nat, NEW w \in WalkedTo(l, r, n)
  PROVE  Turn(w, n) \in WalkedTo(l, r, n + 1)
<1>1. /\ w \in WalkRecords /\ GoodHasher(w.lhs) /\ w.lhs.name = l /\ GoodHasher(w.rhs) /\ w.rhs.name = r
      /\ ~ w.over => SameBefore(files[l], files[r], n)
      /\ w.over => (w.same <=> LooksSame(files[l], files[r]))
  BY DEF WalkedTo
<1>2. CASE w.over
  BY <1>1, <1>2 DEF WalkedTo, Turn
<1>3. CASE ~ w.over
  <2>1. PICK a, b : a = AfterRead(w.lhs, n) /\ b = AfterRead(w.rhs, n)
    OBVIOUS
  <2>2. PICK f, g : f = files[l] /\ g = files[r]
    OBVIOUS
  <2>3. PICK q \in Nat : q = n * BlockSize
    BY FileCompareAssumption
  <2>4. /\ GoodHasher(a) /\ a.name = l
        /\ HasBlock(a, n) <=> f.readable /\ q < Len(f.bytes)
        /\ HasBlock(a, n) => a.cache[n + 1] = HashOf(f, n)
    BY <1>1, <2>1, <2>2, <2>3, AfterReadIs
  <2>5. /\ GoodHasher(b) /\ b.name = r
        /\ HasBlock(b, n) <=> g.readable /\ q < Len(g.bytes)
        /\ HasBlock(b, n) => b.cache[n + 1] = HashOf(g, n)
    BY <1>1, <2>1, <2>2, <2>3, AfterReadIs
  <2>6. /\ Len(f.bytes) = Len(g.bytes) /\ Len(f.bytes) \in Nat /\ f.readable \in BOOLEAN /\ g.readable \in BOOLEAN
    BY <2>2, FileFields
  <2>7. PICK both \in BOOLEAN : both <=> HasBlock(a, n) /\ HasBlock(b, n)
    OBVIOUS
  <2>8. PICK over \in BOOLEAN : over <=> ~ both \/ a.cache[n + 1] # b.cache[n + 1]
    OBVIOUS
  <2>9. PICK v : v = [lhs |-> a, rhs |-> b, over |-> over, same |-> ~ both]
    OBVIOUS
  <2>10. Turn(w, n) = v
    <3>1. both = (HasBlock(a, n) /\ HasBlock(b, n)) /\ over = (~ both \/ a.cache[n + 1] # b.cache[n + 1])
      BY <2>7, <2>8
    <3> QED
      BY <1>3, <2>1, <2>9, <3>1, Zenon DEF Turn
  <2>11. a \in HasherRecords /\ b \in HasherRecords
    BY <2>4, <2>5 DEF GoodHasher
  <2>12. /\ v \in WalkRecords /\ v.lhs = a /\ v.rhs = b /\ (v.over <=> over) /\ (v.same <=> ~ both)
    BY <2>7, <2>8, <2>9, <2>11 DEF WalkRecords
  <2>13. both => f.readable /\ g.readable /\ q < Len(f.bytes)
    BY <2>4, <2>5, <2>7
  <2>14. SameBefore(f, g, n)
    BY <1>1, <1>3, <2>2
  <2>15. ASSUME ~ over PROVE SameBefore(f, g, n + 1)
    <3>1. both /\ HashOf(f, n) = HashOf(g, n)
      BY <2>4, <2>5, <2>7, <2>8, <2>15
    <3>2. ASSUME NEW k \in 0 .. n PROVE k * BlockSize < Len(f.bytes) /\ HashOf(f, k) = HashOf(g, k)
      <4>1. CASE k = n
        BY <2>3, <2>13, <3>1, <4>1
      <4>2. CASE k # n
        <5>1. k \in 0 .. n - 1
          BY <4>2
        <5> QED
          BY <2>14, <5>1 DEF SameBefore
      <4> QED
        BY <4>1, <4>2
    <3>3. (n + 1) - 1 = n
      OBVIOUS
    <3> QED
      BY <2>13, <3>1, <3>2, <3>3 DEF SameBefore
  <2>16. ASSUME over, both PROVE ~ LooksSame(f, g)
    <3>1. HashOf(f, n) # HashOf(g, n)
      BY <2>4, <2>5, <2>7, <2>8, <2>16
    <3>2. n \in 0 .. Len(f.bytes)
      <4>1. n <= q
        BY <2>3, FileCompareAssumption
      <4> QED
        BY <2>3, <2>6, <2>13, <2>16, <4>1
    <3> QED
      BY <2>3, <2>13, <2>16, <3>1, <3>2 DEF LooksSame
  <2>17. ASSUME ~ both PROVE LooksSame(f, g)
    <3> SUFFICES ASSUME f.readable, g.readable, NEW k \in 0 .. Len(f.bytes), k * BlockSize < Len(f.bytes)
                 PROVE  HashOf(f, k) = HashOf(g, k)
      BY <2>6 DEF LooksSame
    <3>1. q >= Len(f.bytes)
      BY <2>3, <2>4, <2>5, <2>6, <2>7, <2>17
    <3>2. k \in 0 .. n - 1
      <4>1. PICK p \in Nat : p = k * BlockSize
        BY FileCompareAssumption
      <4>2. k \in Nat /\ p < q
        BY <2>3, <2>6, <3>1, <4>1
      <4>3. ASSUME k >= n PROVE FALSE
        <5>1. k * BlockSize >= n * BlockSize
          BY <4>2, <4>3, FileCompareAssumption
        <5> QED
          BY <2>3, <4>1, <4>2, <5>1
      <4> QED
        BY <4>2, <4>3
    <3> QED
      BY <2>14, <3>2 DEF SameBefore
  <2>18. v.over => (v.same <=> LooksSame(f, g))
    BY <2>12, <2>16, <2>17
  <2> QED
    BY <2>2, <2>4, <2>5, <2>10, <2>12, <2>15, <2>18 DEF WalkedTo
<1> QED
  BY <1>2, <1>3

IsWalking(F, lhs, rhs) ==
  F = [n \in 0 .. SizeOf(lhs) + 1 |->
         IF n = 0 THEN [lhs |-> lhs, rhs |-> rhs, over |-> FALSE, same |-> TRUE] ELSE Turn(F[n - 1], n - 1)]

\* The loop ends before the turns do, and with the answer.
LEMMA WalkIs ==
  ASSUME FilesOk, NEW lhs, GoodHasher(lhs), NEW rhs, GoodHasher(rhs),
         NEW l, l = lhs.name, NEW r, r = rhs.name, Len(files[l].bytes) = Len(files[r].bytes),
         NEW w, w = Walk(lhs, rhs)
  PROVE  /\ GoodHasher(w.lhs) /\ w.lhs.name = l /\ GoodHasher(w.rhs) /\ w.rhs.name = r
         /\ w.same \in BOOLEAN /\ (w.same <=> LooksSame(files[l], files[r]))
<1>1. PICK N \in Nat, size \in Nat : N = size + 1 /\ size = SizeOf(lhs) /\ size = Len(files[l].bytes)
  <2>1. PICK size : size = Len(files[l].bytes)
    OBVIOUS
  <2>2. l \in DOMAIN files
    BY DEF GoodHasher
  <2>3. size \in Nat /\ size + 1 \in Nat
    BY <2>1, <2>2, FileFields
  <2>4. size = SizeOf(lhs)
    BY <2>1 DEF SizeOf
  <2> QED
    BY <2>1, <2>3, <2>4
<1>2. l \in DOMAIN files /\ r \in DOMAIN files
  BY DEF GoodHasher
<1>3. PICK base : base = [lhs |-> lhs, rhs |-> rhs, over |-> FALSE, same |-> TRUE]
  OBVIOUS
<1> DEFINE X == [n \in 0 .. N |-> WalkedTo(l, r, n)]
           g == [p \in (1 .. N) \X WalkRecords |-> Turn(p[2], p[1] - 1)]
<1>4. base \in X[0]
  <2>1. lhs \in HasherRecords /\ rhs \in HasherRecords
    BY DEF GoodHasher
  <2>2. /\ base \in WalkRecords /\ base.lhs = lhs /\ base.rhs = rhs /\ ~ base.over
    BY <1>3, <2>1 DEF WalkRecords
  <2>3. SameBefore(files[l], files[r], 0)
    <3>1. 0 .. 0 - 1 = {}
      OBVIOUS
    <3> QED
      BY <3>1 DEF SameBefore
  <2> QED
    BY <2>2, <2>3 DEF WalkedTo
<1>5. ASSUME NEW m \in 1 .. N, NEW x \in X[m - 1]
      PROVE  g[<<m, x>>] = Turn(x, m - 1) /\ g[<<m, x>>] \in X[m]
  <2>1. x \in WalkedTo(l, r, m - 1) /\ x \in WalkRecords /\ m - 1 \in Nat /\ (m - 1) + 1 = m
    BY DEF WalkedTo
  <2>2. PICK k \in Nat : k = m - 1 /\ k + 1 = m
    BY <2>1
  <2>3. Turn(x, k) \in WalkedTo(l, r, k + 1)
    BY <1>2, <2>1, <2>2, TurnIs
  <2> QED
    BY <2>1, <2>2, <2>3
<1> HIDE DEF g
<1>6. PICK F : AreStages(F, g, X, N, base)
  <2> HIDE DEF X
  <2>1. PICK Y, h : Y = X /\ h = g
    OBVIOUS
  <2>2. base \in Y[0] /\ StepsWithin(h, Y, N)
    BY <1>4, <1>5, <2>1 DEF StepsWithin
  <2>3. PICK F : AreStages(F, h, Y, N, base)
    BY ONLY <2>2, N \in Nat, Stages
  <2> QED
    BY <2>1, <2>3, Zenon
<1>7. /\ F = [m \in 0 .. N |-> IF m = 0 THEN base ELSE g[<<m, F[m - 1]>>]]
      /\ \A m \in 0 .. N : F[m] \in X[m]
  BY <1>6 DEF AreStages
<1>8. \A m \in 0 .. N : F[m] = IF m = 0 THEN base ELSE Turn(F[m - 1], m - 1)
  <2> SUFFICES ASSUME NEW m \in 0 .. N PROVE F[m] = IF m = 0 THEN base ELSE Turn(F[m - 1], m - 1)
    OBVIOUS
  <2>1. CASE m = 0
    BY <1>7, <2>1
  <2>2. CASE m # 0
    <3>1. m \in 1 .. N /\ m - 1 \in 0 .. N
      BY <2>2
    <3>2. F[m - 1] \in X[m - 1]
      BY <1>7, <3>1
    <3>3. F[m] = g[<<m, F[m - 1]>>]
      BY <1>7, <2>2
    <3> HIDE DEF X
    <3> QED
      BY <1>5, <2>2, <3>1, <3>2, <3>3
  <2> QED
    BY <2>1, <2>2
<1>9. IsWalking(F, lhs, rhs)
  <2>1. F = [m \in 0 .. N |-> F[m]]
    BY <1>7
  <2>2. F = [m \in 0 .. N |-> IF m = 0 THEN base ELSE Turn(F[m - 1], m - 1)]
    BY <1>8, <2>1
  <2>3. N = SizeOf(lhs) + 1
    BY <1>1
  <2> QED
    BY <1>3, <2>2, <2>3, Zenon DEF IsWalking
<1> DEFINE W == CHOOSE W : IsWalking(W, lhs, rhs)
<1>10. IsWalking(W, lhs, rhs)
  BY <1>9, Zenon
<1>11. Walk(lhs, rhs) = W[SizeOf(lhs) + 1]
  BY Zenon DEF Walk, IsWalking
<1> HIDE DEF W
<1>12. \A m \in 0 .. N : W[m] = IF m = 0 THEN base ELSE Turn(W[m - 1], m - 1)
  BY <1>1, <1>3, <1>10 DEF IsWalking
<1> DEFINE D == {m \in 0 .. N : W[m] \in X[m]}
<1>13. 0 \in D
  BY <1>4, <1>12
<1>14. ASSUME NEW m \in Nat, m < N, m \in D PROVE m + 1 \in D
  <2>1. m + 1 \in 1 .. N /\ m + 1 \in 0 .. N /\ (m + 1) - 1 = m /\ m + 1 # 0
    BY <1>14
  <2>2. W[m] \in X[m]
    BY <1>14
  <2>3. W[m + 1] = Turn(W[m], m)
    BY <1>12, <2>1
  <2>4. Turn(W[m], m) \in X[m + 1]
    <3> HIDE DEF X
    <3> QED
      BY <1>5, <2>1, <2>2
  <2> QED
    BY <2>1, <2>3, <2>4
<1> HIDE DEF D
<1>15. \A m \in 0 .. N : m \in D
  BY <1>13, <1>14, Upwards
<1>16. w \in WalkedTo(l, r, N)
  <2>1. N \in 0 .. N
    OBVIOUS
  <2>2. W[N] \in WalkedTo(l, r, N)
    BY <1>15, <2>1 DEF D
  <2> QED
    BY <1>1, <1>11, <2>2
<1>17. w.over
  <2> SUFFICES ASSUME ~ w.over PROVE FALSE
    OBVIOUS
  <2>1. SameBefore(files[l], files[r], N)
    BY <1>16 DEF WalkedTo
  <2>2. size * BlockSize < size
    <3>1. size \in 0 .. N - 1
      BY <1>1
    <3> QED
      BY <1>1, <2>1, <3>1 DEF SameBefore
  <2>3. size <= size * BlockSize
    BY FileCompareAssumption
  <2>4. PICK q \in Nat : q = size * BlockSize
    BY FileCompareAssumption
  <2> QED
    BY <2>2, <2>3, <2>4
<1>18. w.same \in BOOLEAN
  BY <1>16 DEF WalkedTo, WalkRecords
<1> QED
  BY <1>16, <1>17, <1>18 DEF WalkedTo

\* operator== says of two files, and of hashers in any state, whether they look the same.
LEMMA EqualIs ==
  ASSUME FilesOk, NEW lhs, GoodHasher(lhs), NEW rhs, GoodHasher(rhs),
         NEW l, l = lhs.name, NEW r, r = rhs.name, NEW e, e = Equal(lhs, rhs)
  PROVE  /\ GoodHasher(e.lhs) /\ e.lhs.name = l /\ GoodHasher(e.rhs) /\ e.rhs.name = r
         /\ e.same \in BOOLEAN /\ (e.same <=> LooksSame(files[l], files[r]))
<1>1. SizeOf(lhs) = Len(files[l].bytes) /\ SizeOf(rhs) = Len(files[r].bytes)
  BY DEF SizeOf
<1>2. CASE SizeOf(lhs) # SizeOf(rhs)
  <2>1. e = [lhs |-> lhs, rhs |-> rhs, same |-> FALSE]
    BY <1>2, Zenon DEF Equal
  <2>2. ~ LooksSame(files[l], files[r])
    BY <1>1, <1>2 DEF LooksSame
  <2> QED
    BY <2>1, <2>2
<1>3. CASE SizeOf(lhs) = SizeOf(rhs)
  <2>1. PICK w : w = Walk(lhs, rhs)
    OBVIOUS
  <2>2. e = [lhs |-> Closed(w.lhs), rhs |-> Closed(w.rhs), same |-> w.same]
    BY <1>3, <2>1, Zenon DEF Equal
  <2>3. /\ GoodHasher(w.lhs) /\ w.lhs.name = l /\ GoodHasher(w.rhs) /\ w.rhs.name = r
        /\ w.same \in BOOLEAN /\ (w.same <=> LooksSame(files[l], files[r]))
    <3>1. Len(files[l].bytes) = Len(files[r].bytes)
      BY <1>1, <1>3
    <3>2. GoodHasher(w.lhs) /\ w.lhs.name = l
      BY <2>1, <3>1, WalkIs
    <3>3. GoodHasher(w.rhs) /\ w.rhs.name = r
      BY <2>1, <3>1, WalkIs
    <3>4. w.same \in BOOLEAN /\ (w.same <=> LooksSame(files[l], files[r]))
      BY <2>1, <3>1, WalkIs
    <3> QED
      BY <3>2, <3>3, <3>4
  <2>4. /\ GoodHasher(Closed(w.lhs)) /\ Closed(w.lhs).name = l
        /\ GoodHasher(Closed(w.rhs)) /\ Closed(w.rhs).name = r
    BY <2>3, ClosedIs
  <2> QED
    BY <2>2, <2>3, <2>4
<1> QED
  BY <1>2, <1>3

-----------------------------------------------------------------------------
\* The search in a list of hashers.

EntryRecords == [group : Nat, fh : HasherRecords]

\* The list has been compared with, which changes its hashers but not their files and groups.
SameEntries(list, before) ==
  /\ list \in Seq(EntryRecords) /\ Len(list) = Len(before)
  /\ \A i \in 1 .. Len(before) : /\ GoodHasher(list[i].fh)
                                 /\ list[i].fh.name = before[i].fh.name /\ list[i].group = before[i].group

SearchRecords(n) == [cur : HasherRecords, list : Seq(EntryRecords), found : BOOLEAN, at : 0 .. n]

\* cur has been compared with the first n of the list, or found.
SearchedTo(f, list, n) ==
  {s \in SearchRecords(Len(list)) :
     /\ GoodHasher(s.cur) /\ s.cur.name = f /\ SameEntries(s.list, list)
     /\ ~ s.found => \A i \in 1 .. n : ~ LooksSame(files[f], files[list[i].fh.name])
     /\ s.found => /\ s.at \in 1 .. Len(list)
                   /\ LooksSame(files[f], files[list[s.at].fh.name])
                   /\ \A i \in 1 .. s.at - 1 : ~ LooksSame(files[f], files[list[i].fh.name])}

LEMMA ComparedIs ==
  ASSUME FilesOk, NEW f, NEW list \in Seq(EntryRecords), NEW n \in 1 .. Len(list),
         NEW s \in SearchedTo(f, list, n - 1)
  PROVE  Compared(s, n) \in SearchedTo(f, list, n)
<1>1. /\ s \in SearchRecords(Len(list)) /\ GoodHasher(s.cur) /\ s.cur.name = f /\ SameEntries(s.list, list)
      /\ ~ s.found => \A i \in 1 .. n - 1 : ~ LooksSame(files[f], files[list[i].fh.name])
      /\ s.found => /\ s.at \in 1 .. Len(list)
                    /\ LooksSame(files[f], files[list[s.at].fh.name])
                    /\ \A i \in 1 .. s.at - 1 : ~ LooksSame(files[f], files[list[i].fh.name])
  BY DEF SearchedTo
<1>2. CASE s.found
  <2>1. Compared(s, n) = s
    BY <1>2, Zenon DEF Compared
  <2> QED
    BY <1>1, <1>2, <2>1 DEF SearchedTo
<1>3. CASE ~ s.found
  <2>1. PICK name : name = list[n].fh.name
    OBVIOUS
  <2>2. PICK N \in Nat : N = Len(list)
    OBVIOUS
  <2>3. PICK before : before = s.list
    OBVIOUS
  <2>4. /\ before \in Seq(EntryRecords) /\ Len(before) = N
        /\ \A i \in 1 .. N : /\ GoodHasher(before[i].fh)
                             /\ before[i].fh.name = list[i].fh.name /\ before[i].group = list[i].group
    BY <1>1, <2>2, <2>3 DEF SameEntries
  <2>5. PICK fh : fh = before[n].fh
    OBVIOUS
  <2>6. GoodHasher(fh) /\ fh.name = name
    BY <2>1, <2>2, <2>4, <2>5
  <2>7. PICK e : e = Equal(s.cur, fh)
    OBVIOUS
  <2>8. /\ GoodHasher(e.lhs) /\ e.lhs.name = f /\ GoodHasher(e.rhs) /\ e.rhs.name = name
        /\ e.same \in BOOLEAN /\ (e.same <=> LooksSame(files[f], files[name]))
    BY <1>1, <2>6, <2>7, EqualIs
  <2>9. PICK after : after = [before EXCEPT ![n].fh = e.rhs]
    OBVIOUS
  <2>10. SameEntries(after, list)
    <3>1. \A i \in 1 .. N : before[i] \in EntryRecords
      BY <2>4
    <3>2. n \in 1 .. N /\ DOMAIN before = 1 .. N /\ before = [i \in 1 .. N |-> before[i]]
      BY <2>2, <2>4
    <3>3. PICK entry : entry = [before[n] EXCEPT !.fh = e.rhs]
      OBVIOUS
    <3>4. entry \in EntryRecords /\ entry.fh = e.rhs /\ entry.group = before[n].group
      <4>1. e.rhs \in HasherRecords /\ before[n] \in EntryRecords
        BY <2>8, <3>1, <3>2 DEF GoodHasher
      <4> QED
        BY <3>3, <4>1 DEF EntryRecords
    <3>5. /\ after = [i \in 1 .. N |-> IF i = n THEN entry ELSE before[i]]
      BY <2>9, <3>2, <3>3
    <3>6. after \in Seq(EntryRecords) /\ Len(after) = N
      BY <3>1, <3>4, <3>5, SeqDef
    <3>7. ASSUME NEW i \in 1 .. N
          PROVE  GoodHasher(after[i].fh) /\ after[i].fh.name = list[i].fh.name /\ after[i].group = list[i].group
      <4>1. CASE i = n
        BY <2>1, <2>4, <2>8, <3>4, <3>5, <4>1
      <4>2. CASE i # n
        BY <2>4, <3>5, <4>2
      <4> QED
        BY <4>1, <4>2
    <3> QED
      BY <2>2, <3>6, <3>7 DEF SameEntries
  <2>11. PICK v : v = [cur |-> e.lhs, list |-> after, found |-> e.same, at |-> n]
    OBVIOUS
  <2>12. Compared(s, n) = v
    BY <1>3, <2>3, <2>5, <2>7, <2>9, <2>11, Zenon DEF Compared
  <2>13. v \in SearchRecords(Len(list)) /\ v.cur = e.lhs /\ v.list = after /\ v.found = e.same /\ v.at = n
    <3>1. e.lhs \in HasherRecords /\ after \in Seq(EntryRecords) /\ n \in 0 .. Len(list)
      BY <2>8, <2>10 DEF GoodHasher, SameEntries
    <3> QED
      BY <2>8, <2>11, <3>1 DEF SearchRecords
  <2>14. \A i \in 1 .. n - 1 : ~ LooksSame(files[f], files[list[i].fh.name])
    BY <1>1, <1>3
  <2>15. ~ v.found => \A i \in 1 .. n : ~ LooksSame(files[f], files[list[i].fh.name])
    <3> SUFFICES ASSUME ~ e.same, NEW i \in 1 .. n PROVE ~ LooksSame(files[f], files[list[i].fh.name])
      BY <2>13
    <3>1. CASE i = n
      BY <2>1, <2>8, <3>1
    <3>2. CASE i # n
      <4>1. i \in 1 .. n - 1
        BY <3>2
      <4> QED
        BY <2>14, <4>1
    <3> QED
      BY <3>1, <3>2
  <2> QED
    BY <2>1, <2>8, <2>10, <2>12, <2>13, <2>14, <2>15 DEF SearchedTo
<1> QED
  BY <1>2, <1>3

IsSearching(F, cur, list) ==
  F = [n \in 0 .. Len(list) |->
         IF n = 0 THEN [cur |-> cur, list |-> list, found |-> FALSE, at |-> 0] ELSE Compared(F[n - 1], n)]

LEMMA SearchIs ==
  ASSUME FilesOk, NEW cur, GoodHasher(cur), NEW f, f = cur.name, NEW list \in Seq(EntryRecords),
         \A i \in 1 .. Len(list) : GoodHasher(list[i].fh)
  PROVE  Search(cur, list) \in SearchedTo(f, list, Len(list))
<1>1. PICK N \in Nat : N = Len(list)
  OBVIOUS
<1>2. PICK base : base = [cur |-> cur, list |-> list, found |-> FALSE, at |-> 0]
  OBVIOUS
<1> DEFINE X == [n \in 0 .. N |-> SearchedTo(f, list, n)]
           g == [p \in (1 .. N) \X SearchRecords(N) |-> Compared(p[2], p[1])]
<1>3. base \in X[0]
  <2>1. cur \in HasherRecords /\ 0 \in 0 .. N
    BY DEF GoodHasher
  <2>2. base \in SearchRecords(N) /\ base.cur = cur /\ base.list = list /\ ~ base.found
    BY <1>2, <2>1 DEF SearchRecords
  <2>3. SameEntries(list, list)
    BY DEF SameEntries
  <2> QED
    BY <1>1, <2>2, <2>3 DEF SearchedTo
<1>4. ASSUME NEW m \in 1 .. N, NEW x \in X[m - 1]
      PROVE  g[<<m, x>>] = Compared(x, m) /\ g[<<m, x>>] \in X[m]
  <2>1. x \in SearchedTo(f, list, m - 1) /\ x \in SearchRecords(N)
    BY <1>1 DEF SearchedTo
  <2>2. Compared(x, m) \in SearchedTo(f, list, m)
    BY <1>1, <2>1, ComparedIs
  <2> QED
    BY <2>1, <2>2
<1> HIDE DEF g
<1>5. PICK F : AreStages(F, g, X, N, base)
  <2> HIDE DEF X
  <2>1. PICK Y, h : Y = X /\ h = g
    OBVIOUS
  <2>2. base \in Y[0] /\ StepsWithin(h, Y, N)
    BY <1>3, <1>4, <2>1 DEF StepsWithin
  <2>3. PICK F : AreStages(F, h, Y, N, base)
    BY ONLY <2>2, N \in Nat, Stages
  <2> QED
    BY <2>1, <2>3, Zenon
<1>6. /\ F = [m \in 0 .. N |-> IF m = 0 THEN base ELSE g[<<m, F[m - 1]>>]]
      /\ \A m \in 0 .. N : F[m] \in X[m]
  BY <1>5 DEF AreStages
<1>7. \A m \in 0 .. N : F[m] = IF m = 0 THEN base ELSE Compared(F[m - 1], m)
  <2> SUFFICES ASSUME NEW m \in 0 .. N PROVE F[m] = IF m = 0 THEN base ELSE Compared(F[m - 1], m)
    OBVIOUS
  <2>1. CASE m = 0
    BY <1>6, <2>1
  <2>2. CASE m # 0
    <3>1. m \in 1 .. N /\ m - 1 \in 0 .. N
      BY <2>2
    <3>2. F[m - 1] \in X[m - 1]
      BY <1>6, <3>1
    <3>3. F[m] = g[<<m, F[m - 1]>>]
      BY <1>6, <2>2
    <3> HIDE DEF X
    <3> QED
      BY <1>4, <2>2, <3>1, <3>2, <3>3
  <2> QED
    BY <2>1, <2>2
<1>8. IsSearching(F, cur, list)
  <2>1. F = [m \in 0 .. N |-> F[m]]
    BY <1>6
  <2>2. F = [m \in 0 .. N |-> IF m = 0 THEN base ELSE Compared(F[m - 1], m)]
    BY <1>7, <2>1
  <2> QED
    BY <1>1, <1>2, <2>2, Zenon DEF IsSearching
<1> DEFINE W == CHOOSE W : IsSearching(W, cur, list)
<1>9. IsSearching(W, cur, list)
  BY <1>8, Zenon
<1>10. Search(cur, list) = W[Len(list)]
  BY Zenon DEF Search, IsSearching
<1> HIDE DEF W
<1>11. \A m \in 0 .. N : W[m] = IF m = 0 THEN base ELSE Compared(W[m - 1], m)
  BY <1>1, <1>2, <1>9 DEF IsSearching
<1> DEFINE D == {m \in 0 .. N : W[m] \in X[m]}
<1>12. 0 \in D
  BY <1>3, <1>11
<1>13. ASSUME NEW m \in Nat, m < N, m \in D PROVE m + 1 \in D
  <2>1. m + 1 \in 1 .. N /\ m + 1 \in 0 .. N /\ (m + 1) - 1 = m /\ m + 1 # 0
    BY <1>13
  <2>2. W[m] \in X[m]
    BY <1>13
  <2>3. W[m + 1] = Compared(W[m], m + 1)
    BY <1>11, <2>1
  <2>4. Compared(W[m], m + 1) \in X[m + 1]
    <3> HIDE DEF X
    <3> QED
      BY <1>4, <2>1, <2>2
  <2> QED
    BY <2>1, <2>3, <2>4
<1> HIDE DEF D
<1>14. \A m \in 0 .. N : m \in D
  BY <1>12, <1>13, Upwards
<1>15. N \in 0 .. N
  OBVIOUS
<1>16. W[N] \in SearchedTo(f, list, N)
  BY <1>14, <1>15 DEF D
<1> QED
  BY <1>1, <1>10, <1>16

-----------------------------------------------------------------------------
\* The leaders, by what decides them.

SameAs(f, W) == {g \in NonEmpty : g < f /\ W[g] = g /\ LooksSame(files[f], files[g])}

FirstOf(f, S) == IF S = {} THEN f ELSE CHOOSE g \in S : \A x \in S : g <= x

LEMMA FirstIs ==
  ASSUME NEW f \in Nat, NEW S \in SUBSET Nat
  PROVE  /\ FirstOf(f, S) \in Nat
         /\ S = {} => FirstOf(f, S) = f
         /\ S # {} => FirstOf(f, S) \in S /\ \A x \in S : FirstOf(f, S) <= x
<1>1. CASE S = {}
  BY <1>1 DEF FirstOf
<1>2. CASE S # {}
  <2>1. PICK g \in S : \A x \in S : ~ (x < g)
    BY <1>2, LeastNumber
  <2>2. \A x \in S : x \in Nat
    OBVIOUS
  <2>3. \A x \in S : g <= x
    BY <2>1, <2>2
  <2>4. FirstOf(f, S) = CHOOSE h \in S : \A x \in S : h <= x
    BY <1>2 DEF FirstOf
  <2>5. FirstOf(f, S) \in S /\ \A x \in S : FirstOf(f, S) <= x
    BY <2>3, <2>4, Zenon
  <2> QED
    BY <1>2, <2>2, <2>5
<1> QED
  BY <1>1, <1>2

IsLeading(W) ==
  W = [f \in DOMAIN files |->
         LET same == {g \in NonEmpty : g < f /\ W[g] = g /\ LooksSame(files[f], files[g])}
         IN  IF same = {} THEN f ELSE CHOOSE g \in same : \A x \in same : g <= x]

LEMMA NonEmptyIs ==
  ASSUME FilesOk, NEW f \in NonEmpty
  PROVE  /\ f \in DOMAIN files /\ f \in Nat /\ f \in 1 .. Len(files)
         /\ Len(files[f].bytes) \in Nat \ {0}
<1>1. f \in DOMAIN files /\ files[f].bytes # <<>>
  BY DEF NonEmpty
<1>2. f \in 1 .. Len(files) /\ Len(files) \in Nat
  BY <1>1 DEF FilesOk
<1>3. PICK b : b = files[f].bytes
  OBVIOUS
<1>4. b \in Seq(Int) /\ b # <<>>
  BY <1>1, <1>3, FileFields
<1>5. Len(b) \in Nat \ {0}
  BY <1>4
<1> QED
  BY <1>1, <1>2, <1>3, <1>5

LEMMA SameAsIs ==
  ASSUME FilesOk, NEW f, NEW W
  PROVE  SameAs(f, W) \in SUBSET Nat
BY NonEmptyIs DEF SameAs

LEMMA LeadersLead == FilesOk => IsLeading(Leaders)
<1> SUFFICES ASSUME FilesOk PROVE IsLeading(Leaders)
  OBVIOUS
<1>12. PICK n \in Nat : n = Len(files) /\ DOMAIN files = 1 .. n
  BY DEF FilesOk
<1>13. PICK P : P = 1 .. n
  OBVIOUS
<1>1. n = Len(files) /\ P = 1 .. n /\ P = DOMAIN files
  BY <1>12, <1>13
<1>2. PICK rank : rank = [p \in P |-> p]
  OBVIOUS
<1>3. rank \in [P -> Nat] /\ \A p \in P : rank[p] = p /\ rank[p] < n + 1
  BY <1>1, <1>2
<1> DEFINE g == [p \in P \X [P -> Nat] |-> FirstOf(p[1], SameAs(p[1], p[2]))]
<1>4. ASSUME NEW p \in P, NEW W \in [P -> Nat]
      PROVE  g[<<p, W>>] = FirstOf(p, SameAs(p, W)) /\ g[<<p, W>>] \in Nat
  <2>1. p \in Nat
    BY <1>1
  <2>2. FirstOf(p, SameAs(p, W)) \in Nat
    BY <2>1, SameAsIs, FirstIs
  <2> QED
    BY <2>2
<1> HIDE DEF g
<1>5. ASSUME NEW p \in P, NEW V \in [P -> Nat], NEW W \in [P -> Nat],
             \A q \in P : rank[q] < rank[p] => V[q] = W[q]
      PROVE  g[<<p, V>>] = g[<<p, W>>]
  <2>1. \A q \in NonEmpty : q < p => V[q] = W[q]
    <3> SUFFICES ASSUME NEW q \in NonEmpty, q < p PROVE V[q] = W[q]
      OBVIOUS
    <3>1. q \in P
      BY <1>1, NonEmptyIs
    <3> QED
      BY <1>3, <1>5, <3>1
  <2>2. SameAs(p, V) = SameAs(p, W)
    BY <2>1 DEF SameAs
  <2> QED
    BY <1>4, <2>2
<1>6. PICK h : h = g
  OBVIOUS
<1>7. StepType(h, P, Nat) /\ StepLooksBelow(h, P, Nat, rank)
  BY <1>4, <1>5, <1>6 DEF StepType, StepLooksBelow
<1>8. PICK W \in [P -> Nat] : IsWalk(W, h, P)
  <2>1. PICK m \in Nat : m = n + 1
    OBVIOUS
  <2>2. 0 \in Nat /\ \A p \in P : rank[p] < m
    BY <1>3, <2>1
  <2> QED
    BY ONLY <1>3, <1>7, <2>2, m \in Nat, WalkExists
<1>9. IsLeading(W)
  <2>1. W = [p \in P |-> FirstOf(p, SameAs(p, W))]
    <3>1. W = [p \in P |-> h[<<p, W>>]]
      BY <1>8 DEF IsWalk
    <3>2. \A p \in P : h[<<p, W>>] = FirstOf(p, SameAs(p, W))
      BY <1>4, <1>6
    <3> QED
      BY <3>1, <3>2
  <2>2. W = [p \in DOMAIN files |-> FirstOf(p, SameAs(p, W))]
    BY <1>1, <2>1
  <2> QED
    BY <2>2, Zenon DEF IsLeading, FirstOf, SameAs
<1>10. IsLeading(CHOOSE V : IsLeading(V))
  BY <1>9, Zenon
<1>11. Leaders = CHOOSE V : IsLeading(V)
  BY Zenon DEF Leaders, IsLeading
<1> QED
  BY <1>10, <1>11, Zenon

\* A file that a later one may go to.
Leads(g, f) == g \in NonEmpty /\ g < f /\ Leaders[g] = g /\ LooksSame(files[f], files[g])

LEMMA LeaderIs ==
  ASSUME FilesOk, NEW f \in DOMAIN files
  PROVE  /\ Leaders[f] \in DOMAIN files /\ Leaders[f] <= f /\ Leaders[Leaders[f]] = Leaders[f]
         /\ f \in NonEmpty => Leaders[f] \in NonEmpty
         /\ (\A g : ~ Leads(g, f)) => Leaders[f] = f
         /\ \A g : Leads(g, f) /\ (\A x : Leads(x, f) => g <= x) => Leaders[f] = g
<1>1. Leaders[f] = FirstOf(f, SameAs(f, Leaders))
  <2>1. IsLeading(Leaders)
    BY LeadersLead
  <2>2. Leaders = [p \in DOMAIN files |-> FirstOf(p, SameAs(p, Leaders))]
    BY <2>1, Zenon DEF IsLeading, FirstOf, SameAs
  <2>3. PICK L : L = Leaders
    OBVIOUS
  <2>4. L = [p \in DOMAIN files |-> FirstOf(p, SameAs(p, L))]
    BY <2>2, <2>3
  <2> QED
    BY <2>3, <2>4
<1>2. PICK S : S = SameAs(f, Leaders)
  OBVIOUS
<1>3. \A g : g \in S <=> Leads(g, f)
  BY <1>2 DEF SameAs, Leads
<1>4. S \in SUBSET Nat /\ f \in Nat
  BY <1>2, SameAsIs, FileFields
<1>5. CASE S = {}
  <2>1. Leaders[f] = f
    BY <1>1, <1>2, <1>4, <1>5, FirstIs
  <2> QED
    BY <1>3, <1>4, <1>5, <2>1
<1>6. CASE S # {}
  <2>1. PICK g : g = Leaders[f]
    OBVIOUS
  <2>2. g \in S /\ \A x \in S : g <= x
    BY <1>1, <1>2, <1>4, <1>6, <2>1, FirstIs
  <2>3. g \in NonEmpty /\ g < f /\ Leaders[g] = g /\ g \in Nat
    BY <1>3, <1>4, <2>2 DEF Leads
  <2>4. g \in DOMAIN files
    BY <2>3, NonEmptyIs
  <2>5. ASSUME NEW h, Leads(h, f), \A x : Leads(x, f) => h <= x PROVE h = g
    <3>1. h \in S /\ h \in Nat
      BY <1>3, <1>4, <2>5
    <3>2. h <= g
      BY <1>3, <2>2, <2>5
    <3>3. g <= h
      BY <2>2, <3>1
    <3> QED
      BY <2>3, <3>1, <3>2, <3>3
  <2>6. g <= f
    BY <1>4, <2>3
  <2>7. Leads(g, f)
    BY <1>3, <2>2
  <2> QED
    BY <2>1, <2>3, <2>4, <2>5, <2>6, <2>7
<1> QED
  BY <1>5, <1>6

-----------------------------------------------------------------------------
\* The comparison.  After c - 1 files: a list has the leaders of its size, in
\* the order of their names; a leader has no group if it is its only member,
\* and one that is complete so far otherwise.

GroupAt(g, c) == {f \in NonEmpty : f < c /\ Leaders[f] = g}

EntryOk(e, size, ds, c) ==
  /\ GoodHasher(e.fh) /\ e.fh.name \in NonEmpty /\ e.fh.name < c
  /\ Leaders[e.fh.name] = e.fh.name
  /\ Len(files[e.fh.name].bytes) = size
  /\ e.group = NotInGroup => GroupAt(e.fh.name, c) = {e.fh.name}
  /\ e.group # NotInGroup => e.group \in 1 .. Len(ds) /\ ds[e.group] = GroupAt(e.fh.name, c)

AllListed(list, size, c) ==
  \A f \in NonEmpty : f < c /\ Leaders[f] = f /\ Len(files[f].bytes) = size =>
    \E i \in 1 .. Len(list) : list[i].fh.name = f

ByName(list) == \A i, j \in 1 .. Len(list) : i < j => list[i].fh.name < list[j].fh.name

EntriesOk(list, size, ds, c) ==
  /\ list \in Seq(EntryRecords)
  /\ \A i \in 1 .. Len(list) : EntryOk(list[i], size, ds, c)
  /\ ByName(list) /\ AllListed(list, size, c)

BigGroup(S, g, c) == g \in NonEmpty /\ g < c /\ Leaders[g] = g /\ S = GroupAt(g, c) /\ \E f \in S : f # g

GroupsOk(ds, c) ==
  /\ ds \in Seq(SUBSET Nat)
  /\ \A i \in 1 .. Len(ds) : \E g : BigGroup(ds[i], g, c)
  /\ \A i, j \in 1 .. Len(ds) : ds[i] = ds[j] => i = j

EntriesAt(hs, size) == IF size \in DOMAIN hs THEN hs[size] ELSE <<>>

Midway(hs, es, ds, c) ==
  /\ c \in 1 .. Len(files) + 1 /\ Len(files) >= 2
  /\ es = {f \in DOMAIN files \ NonEmpty : f < c}
  /\ \A size \in Nat \ {0} : EntriesOk(EntriesAt(hs, size), size, ds, c)
  /\ GroupsOk(ds, c)

LEMMA GroupAtGrows ==
  ASSUME FilesOk, NEW c \in Nat, NEW g
  PROVE  /\ c \in NonEmpty /\ Leaders[c] = g => GroupAt(g, c + 1) = GroupAt(g, c) \cup {c}
         /\ ~ (c \in NonEmpty /\ Leaders[c] = g) => GroupAt(g, c + 1) = GroupAt(g, c)
         /\ c \notin GroupAt(g, c)
<1>1. \A f \in NonEmpty : f < c + 1 <=> f < c \/ f = c
  BY NonEmptyIs
<1>2. c \notin GroupAt(g, c)
  BY DEF GroupAt
<1>3. ASSUME NEW f PROVE f \in GroupAt(g, c + 1) <=> f \in GroupAt(g, c) \/ (f = c /\ c \in NonEmpty /\ Leaders[c] = g)
  <2>1. CASE f \in NonEmpty
    <3>1. c + 1 > c
      OBVIOUS
    <3> QED
      BY <1>1, <2>1, <3>1 DEF GroupAt
  <2>2. CASE f \notin NonEmpty
    BY <2>2 DEF GroupAt
  <2> QED
    BY <2>1, <2>2
<1> QED
  BY <1>2, <1>3

\* An entry whose group does not get the file c stays good.
LEMMA EntryKept ==
  ASSUME FilesOk, NEW c \in Nat, NEW e, NEW size, NEW ds, NEW ds2, NEW e2, EntryOk(e, size, ds, c),
         ~ (c \in NonEmpty /\ Leaders[c] = e.fh.name),
         Len(ds) \in Nat, Len(ds2) \in Nat, Len(ds2) >= Len(ds),
         e.group # NotInGroup => ds2[e.group] = ds[e.group],
         GoodHasher(e2.fh), e2.fh.name = e.fh.name, e2.group = e.group
  PROVE  EntryOk(e2, size, ds2, c + 1)
<1>1. PICK name, group : name = e.fh.name /\ group = e.group
  OBVIOUS
<1>2. /\ name \in NonEmpty /\ name < c /\ Leaders[name] = name /\ Len(files[name].bytes) = size
      /\ group = NotInGroup => GroupAt(name, c) = {name}
      /\ group # NotInGroup => group \in 1 .. Len(ds) /\ ds[group] = GroupAt(name, c)
  BY <1>1 DEF EntryOk
<1>3. GroupAt(name, c + 1) = GroupAt(name, c)
  BY <1>1, GroupAtGrows
<1>4. name < c + 1
  BY <1>2, NonEmptyIs
<1>5. group # NotInGroup => group \in 1 .. Len(ds2) /\ ds2[group] = GroupAt(name, c + 1)
  BY <1>1, <1>2, <1>3
<1>6. group = NotInGroup => GroupAt(name, c + 1) = {name}
  BY <1>2, <1>3
<1>7. e2.fh.name = name /\ e2.group = group
  BY <1>1
<1> QED
  BY ONLY <1>2, <1>4, <1>5, <1>6, <1>7, GoodHasher(e2.fh) DEF EntryOk

LEMMA BigGroupKept ==
  ASSUME FilesOk, NEW c \in Nat, NEW S, NEW g, BigGroup(S, g, c), ~ (c \in NonEmpty /\ Leaders[c] = g)
  PROVE  BigGroup(S, g, c + 1)
<1>1. GroupAt(g, c + 1) = GroupAt(g, c)
  BY GroupAtGrows
<1>2. g < c + 1
  BY NonEmptyIs DEF BigGroup
<1> QED
  BY <1>1, <1>2 DEF BigGroup

\* The files of a list of the size of c that look like it are those it may go to.
LEMMA Candidates ==
  ASSUME FilesOk, NEW c \in NonEmpty, NEW size, size = Len(files[c].bytes), NEW list, NEW ds,
         EntriesOk(list, size, ds, c), NEW g
  PROVE  Leads(g, c) <=> \E i \in 1 .. Len(list) : list[i].fh.name = g /\ LooksSame(files[c], files[g])
<1>1. ASSUME NEW i \in 1 .. Len(list), list[i].fh.name = g, LooksSame(files[c], files[g]) PROVE Leads(g, c)
  <2>1. EntryOk(list[i], size, ds, c)
    BY DEF EntriesOk
  <2>2. PICK name : name = list[i].fh.name
    OBVIOUS
  <2>3. name \in NonEmpty /\ name < c /\ Leaders[name] = name
    BY <2>1, <2>2 DEF EntryOk
  <2> QED
    BY <1>1, <2>2, <2>3 DEF Leads
<1>2. ASSUME Leads(g, c) PROVE \E i \in 1 .. Len(list) : list[i].fh.name = g /\ LooksSame(files[c], files[g])
  <2>1. g \in NonEmpty /\ g < c /\ Leaders[g] = g /\ LooksSame(files[c], files[g])
    BY <1>2 DEF Leads
  <2>2. Len(files[g].bytes) = size
    BY <2>1 DEF LooksSame
  <2>3. AllListed(list, size, c)
    BY DEF EntriesOk
  <2> QED
    BY <2>1, <2>2, <2>3 DEF AllListed
<1> QED
  BY <1>1, <1>2

LEMMA StandsAlone ==
  ASSUME FilesOk, NEW c \in NonEmpty, NEW size, size = Len(files[c].bytes), NEW list, NEW ds,
         EntriesOk(list, size, ds, c),
         \A i \in 1 .. Len(list) : ~ LooksSame(files[c], files[list[i].fh.name])
  PROVE  Leaders[c] = c
<1>1. ASSUME NEW g PROVE ~ Leads(g, c)
  BY Candidates
<1>2. c \in DOMAIN files
  BY NonEmptyIs
<1> QED
  BY <1>1, <1>2, LeaderIs

\* The entry at is the first that c looks the same as.
FirstAlike(c, list, at) ==
  /\ at \in 1 .. Len(list) /\ LooksSame(files[c], files[list[at].fh.name])
  /\ \A i \in 1 .. at - 1 : ~ LooksSame(files[c], files[list[i].fh.name])

LEMMA GoesTo ==
  ASSUME FilesOk, NEW c \in NonEmpty, NEW size, size = Len(files[c].bytes), NEW list, NEW ds,
         EntriesOk(list, size, ds, c), NEW at, FirstAlike(c, list, at)
  PROVE  Leaders[c] = list[at].fh.name
<1>5. PICK g : g = list[at].fh.name
  OBVIOUS
<1>6. /\ at \in 1 .. Len(list) /\ LooksSame(files[c], files[g])
      /\ \A i \in 1 .. at - 1 : ~ LooksSame(files[c], files[list[i].fh.name])
  BY <1>5 DEF FirstAlike
<1>1. Leads(g, c)
  BY <1>5, <1>6, Candidates
<1>2. ASSUME NEW x, Leads(x, c) PROVE g <= x
  <2>1. PICK i \in 1 .. Len(list) : list[i].fh.name = x /\ LooksSame(files[c], files[x])
    BY <1>2, Candidates
  <2>2. Len(list) \in Nat
    BY DEF EntriesOk
  <2>3. ~ (i < at)
    <3> SUFFICES ASSUME i < at PROVE FALSE
      OBVIOUS
    <3>1. i \in 1 .. at - 1
      BY <1>6, <2>2
    <3> QED
      BY <1>6, <2>1, <3>1
  <2>4. x \in Nat /\ g \in Nat
    BY <1>1, <1>2, NonEmptyIs DEF Leads
  <2>5. CASE i = at
    BY <1>5, <2>1, <2>4, <2>5
  <2>6. CASE i # at
    <3>1. at < i
      BY <1>6, <2>2, <2>3, <2>6
    <3>2. g < x
      BY <1>5, <1>6, <2>1, <3>1 DEF EntriesOk, ByName
    <3> QED
      BY <2>4, <3>2
  <2> QED
    BY <2>5, <2>6
<1>3. c \in DOMAIN files
  BY NonEmptyIs
<1>4. Leaders[c] = g
  BY <1>1, <1>2, <1>3, LeaderIs
<1> QED
  BY <1>4, <1>5

\* Lists of another size, and the rest of c's, stay good when c joins a group or makes an entry.
LEMMA EntriesKept ==
  ASSUME FilesOk, NEW c \in Nat, NEW size, NEW list, NEW ds, EntriesOk(list, size, ds, c), NEW ds2,
         c \in NonEmpty => /\ Leaders[c] \in NonEmpty
                           /\ Len(files[Leaders[c]].bytes) # size,
         c \in NonEmpty /\ Leaders[c] = c => Len(files[c].bytes) # size,
         Len(ds) \in Nat, Len(ds2) \in Nat, Len(ds2) >= Len(ds),
         \A i \in 1 .. Len(ds) : ds2[i] = ds[i] \/ (c \in NonEmpty /\ ds[i] = GroupAt(Leaders[c], c))
  PROVE  EntriesOk(list, size, ds2, c + 1)
<1>1. list \in Seq(EntryRecords) /\ ByName(list) /\ AllListed(list, size, c)
  BY DEF EntriesOk
<1>2. ASSUME NEW i \in 1 .. Len(list) PROVE EntryOk(list[i], size, ds2, c + 1)
  <2>1. PICK e : e = list[i]
    OBVIOUS
  <2>2. EntryOk(e, size, ds, c)
    BY <2>1 DEF EntriesOk
  <2>3. PICK name : name = e.fh.name
    OBVIOUS
  <2>4. /\ GoodHasher(e.fh) /\ Len(files[name].bytes) = size /\ name \in NonEmpty /\ name < c /\ Leaders[name] = name
        /\ e.group # NotInGroup => e.group \in 1 .. Len(ds) /\ ds[e.group] = GroupAt(name, c)
    BY <2>2, <2>3 DEF EntryOk
  <2>5. ~ (c \in NonEmpty /\ Leaders[c] = name)
    BY <2>4
  <2>6. ASSUME e.group # NotInGroup PROVE ds2[e.group] = ds[e.group]
    <3>1. ASSUME c \in NonEmpty, ds[e.group] = GroupAt(Leaders[c], c) PROVE FALSE
      <4>1. name \in GroupAt(name, c)
        BY <2>4 DEF GroupAt
      <4>2. name \in GroupAt(Leaders[c], c)
        BY <2>4, <2>6, <3>1, <4>1
      <4> QED
        BY <2>4, <2>5, <3>1, <4>2 DEF GroupAt
    <3> QED
      BY <2>4, <2>6, <3>1
  <2>7. EntryOk(e, size, ds2, c + 1)
    <3>1. ~ (c \in NonEmpty /\ Leaders[c] = e.fh.name)
      BY <2>3, <2>5
    <3> QED
      BY <2>2, <2>4, <2>6, <3>1, EntryKept
  <2> QED
    BY <2>1, <2>7
<1>3. AllListed(list, size, c + 1)
  <2> SUFFICES ASSUME NEW f \in NonEmpty, f < c + 1, Leaders[f] = f, Len(files[f].bytes) = size
               PROVE  \E i \in 1 .. Len(list) : list[i].fh.name = f
    BY DEF AllListed
  <2>1. f # c
    OBVIOUS
  <2>2. f < c
    BY <2>1, NonEmptyIs
  <2> QED
    BY <1>1, <2>2 DEF AllListed
<1> QED
  BY <1>1, <1>2, <1>3 DEF EntriesOk

LEMMA EmptyOnesGrow ==
  ASSUME FilesOk, NEW c \in DOMAIN files
  PROVE  {f \in DOMAIN files \ NonEmpty : f < c + 1} =
           {f \in DOMAIN files \ NonEmpty : f < c} \cup (IF c \in NonEmpty THEN {} ELSE {c})
<1>1. c \in Nat /\ \A f \in DOMAIN files : f \in Nat
  BY FileFields
<1>2. \A f \in DOMAIN files : f < c + 1 <=> f < c \/ f = c
  BY <1>1
<1> QED
  BY <1>2

LEMMA GroupsKept ==
  ASSUME FilesOk, NEW c \in Nat, NEW ds, GroupsOk(ds, c), ~ (c \in NonEmpty /\ Leaders[c] < c)
  PROVE  GroupsOk(ds, c + 1)
<1>1. ASSUME NEW i \in 1 .. Len(ds) PROVE \E g : BigGroup(ds[i], g, c + 1)
  <2>1. PICK g : BigGroup(ds[i], g, c)
    BY DEF GroupsOk
  <2>2. ~ (c \in NonEmpty /\ Leaders[c] = g)
    BY <2>1 DEF BigGroup
  <2> QED
    BY <2>1, <2>2, BigGroupKept
<1> QED
  BY <1>1 DEF GroupsOk

\* An empty file.
LEMMA EmptyStep ==
  ASSUME FilesOk, NEW hs, NEW es, NEW ds, NEW c \in DOMAIN files, Midway(hs, es, ds, c), c \notin NonEmpty
  PROVE  Midway(hs, es \cup {c}, ds, c + 1)
<1>1. c \in Nat /\ c + 1 \in 1 .. Len(files) + 1 /\ Len(files) >= 2
  BY DEF FilesOk, Midway
<1>2. es \cup {c} = {f \in DOMAIN files \ NonEmpty : f < c + 1}
  BY EmptyOnesGrow DEF Midway
<1>3. GroupsOk(ds, c + 1)
  BY <1>1, GroupsKept DEF Midway
<1>4. ASSUME NEW size \in Nat \ {0} PROVE EntriesOk(EntriesAt(hs, size), size, ds, c + 1)
  <2>1. PICK list : list = EntriesAt(hs, size)
    OBVIOUS
  <2>2. EntriesOk(list, size, ds, c)
    BY <2>1 DEF Midway
  <2>3. Len(ds) \in Nat
    BY DEF Midway, GroupsOk
  <2>4. EntriesOk(list, size, ds, c + 1)
    BY <1>1, <2>2, <2>3, EntriesKept
  <2> QED
    BY <2>1, <2>4
<1> QED
  BY <1>1, <1>2, <1>3, <1>4 DEF Midway

\* What the search says of c, whose lists are those of its size.
LEMMA SearchedWell ==
  ASSUME FilesOk, NEW c \in NonEmpty, NEW size, size = Len(files[c].bytes), NEW list, NEW ds,
         EntriesOk(list, size, ds, c), NEW s \in SearchedTo(c, list, Len(list))
  PROVE  /\ GoodHasher(s.cur) /\ s.cur.name = c /\ SameEntries(s.list, list)
         /\ ~ s.found => Leaders[c] = c
         /\ s.found => /\ s.at \in 1 .. Len(list)
                       /\ Leaders[c] = list[s.at].fh.name
<1>1. /\ GoodHasher(s.cur) /\ s.cur.name = c /\ SameEntries(s.list, list)
      /\ ~ s.found => \A i \in 1 .. Len(list) : ~ LooksSame(files[c], files[list[i].fh.name])
      /\ s.found => /\ s.at \in 1 .. Len(list)
                    /\ LooksSame(files[c], files[list[s.at].fh.name])
                    /\ \A i \in 1 .. s.at - 1 : ~ LooksSame(files[c], files[list[i].fh.name])
  BY DEF SearchedTo
<1>2. ASSUME ~ s.found PROVE Leaders[c] = c
  BY <1>1, <1>2, StandsAlone
<1>3. ASSUME s.found PROVE Leaders[c] = list[s.at].fh.name
  <2>1. FirstAlike(c, list, s.at)
    BY <1>1, <1>3 DEF FirstAlike
  <2> QED
    BY <2>1, GoesTo
<1> QED
  BY <1>1, <1>2, <1>3

\* The list of a size has become L.
Relists(hs2, hs, size, L) == \A z : EntriesAt(hs2, z) = IF z = size THEN L ELSE EntriesAt(hs, z)

NewEntry(s) == [group |-> NotInGroup, fh |-> s.cur]

\* The first of its kind gets an entry.
LEMMA NewStep ==
  ASSUME FilesOk, NEW hs, NEW es, NEW ds, NEW c \in NonEmpty, Midway(hs, es, ds, c),
         NEW size, size = Len(files[c].bytes), NEW list, list = EntriesAt(hs, size),
         NEW s \in SearchedTo(c, list, Len(list)), ~ s.found,
         NEW hs2, Relists(hs2, hs, size, Append(s.list, NewEntry(s)))
  PROVE  Midway(hs2, es, ds, c + 1)
<1>20. PICK L : L = Append(s.list, NewEntry(s))
  OBVIOUS
<1>21. \A z : EntriesAt(hs2, z) = IF z = size THEN L ELSE EntriesAt(hs, z)
  BY <1>20 DEF Relists
<1>1. c \in DOMAIN files /\ c \in Nat /\ c \in 1 .. Len(files) /\ size \in Nat \ {0} /\ Len(files) \in Nat
  BY NonEmptyIs DEF FilesOk
<1>2. EntriesOk(list, size, ds, c) /\ Len(ds) \in Nat
  BY <1>1 DEF Midway, GroupsOk
<1>3. GoodHasher(s.cur) /\ s.cur.name = c /\ SameEntries(s.list, list) /\ Leaders[c] = c
  BY <1>2, SearchedWell
<1>4. PICK N \in Nat : N = Len(list)
  BY <1>2 DEF EntriesOk
<1>5. PICK before : before = s.list
  OBVIOUS
<1>6. /\ before \in Seq(EntryRecords) /\ Len(before) = N
      /\ \A i \in 1 .. N : /\ GoodHasher(before[i].fh)
                           /\ before[i].fh.name = list[i].fh.name /\ before[i].group = list[i].group
  BY <1>3, <1>4, <1>5 DEF SameEntries
<1>7. PICK entry : entry = [group |-> NotInGroup, fh |-> s.cur] /\ entry = NewEntry(s)
  BY DEF NewEntry
<1>8. entry \in EntryRecords /\ entry.group = NotInGroup /\ entry.fh = s.cur
  <2>1. s.cur \in HasherRecords /\ NotInGroup \in Nat
    BY <1>3 DEF GoodHasher, NotInGroup
  <2> QED
    BY <1>7, <2>1 DEF EntryRecords
<1>9. /\ L \in Seq(EntryRecords) /\ Len(L) = N + 1 /\ L[N + 1] = entry
      /\ \A i \in 1 .. N : L[i] = before[i]
  BY <1>5, <1>6, <1>7, <1>8, <1>20
<1>10. ASSUME NEW i \in 1 .. N PROVE EntryOk(L[i], size, ds, c + 1)
  <2>1. PICK e, e2 : e = list[i] /\ e2 = L[i]
    OBVIOUS
  <2>2. EntryOk(e, size, ds, c)
    BY <1>2, <1>4, <2>1 DEF EntriesOk
  <2>3. GoodHasher(e2.fh) /\ e2.fh.name = e.fh.name /\ e2.group = e.group
    BY <1>6, <1>9, <2>1
  <2>4. PICK name : name = e.fh.name
    OBVIOUS
  <2>5. name < c /\ name \in NonEmpty
    BY <2>2, <2>4 DEF EntryOk
  <2>6. Leaders[c] # e.fh.name
    BY <1>1, <1>3, <2>4, <2>5, NonEmptyIs
  <2>7. EntryOk(e2, size, ds, c + 1)
    <3>1. ~ (c \in NonEmpty /\ Leaders[c] = e.fh.name)
      BY <2>6
    <3>2. Len(ds) >= Len(ds) /\ (e.group # NotInGroup => ds[e.group] = ds[e.group])
      BY <1>2
    <3> QED
      BY ONLY FilesOk, <1>1, <1>2, <2>2, <2>3, <3>1, <3>2, EntryKept
  <2> QED
    BY <2>1, <2>7
<1>11. EntryOk(entry, size, ds, c + 1)
  <2>1. GroupAt(c, c) = {}
    <3> SUFFICES ASSUME NEW f \in NonEmpty, f < c, Leaders[f] = c PROVE FALSE
      BY DEF GroupAt
    <3>1. Leaders[f] <= f /\ f \in Nat
      BY NonEmptyIs, LeaderIs
    <3> QED
      BY <1>1, <3>1
  <2>2. GroupAt(c, c + 1) = {c}
    BY <1>1, <1>3, <2>1, GroupAtGrows
  <2>3. c < c + 1
    BY <1>1
  <2>4. entry.fh.name = c /\ GoodHasher(entry.fh)
    BY <1>3, <1>8
  <2> QED
    BY <1>3, <1>8, <2>2, <2>3, <2>4 DEF EntryOk
<1>12. ASSUME NEW i \in 1 .. Len(L) PROVE EntryOk(L[i], size, ds, c + 1)
  <2>1. CASE i = N + 1
    BY <1>9, <1>11, <2>1
  <2>2. CASE i # N + 1
    <3>1. i \in 1 .. N
      BY <1>9, <2>2
    <3> QED
      BY <1>10, <3>1
  <2> QED
    BY <2>1, <2>2
<1>13. ByName(L)
  <2> SUFFICES ASSUME NEW i \in 1 .. N + 1, NEW j \in 1 .. N + 1, i < j PROVE L[i].fh.name < L[j].fh.name
    BY <1>9 DEF ByName
  <2>1. i \in 1 .. N
    OBVIOUS
  <2>2. L[i].fh.name = list[i].fh.name
    BY <1>6, <1>9, <2>1
  <2>3. CASE j = N + 1
    <3>1. EntryOk(list[i], size, ds, c)
      BY <1>2, <1>4, <2>1 DEF EntriesOk
    <3>2. list[i].fh.name < c
      BY <3>1 DEF EntryOk
    <3> QED
      BY <1>3, <1>8, <1>9, <2>2, <2>3, <3>2
  <2>4. CASE j # N + 1
    <3>1. j \in 1 .. N
      BY <2>4
    <3>2. L[j].fh.name = list[j].fh.name
      BY <1>6, <1>9, <3>1
    <3> QED
      BY <1>2, <1>4, <2>1, <2>2, <3>1, <3>2 DEF EntriesOk, ByName
  <2> QED
    BY <2>3, <2>4
<1>14. AllListed(L, size, c + 1)
  <2> SUFFICES ASSUME NEW f \in NonEmpty, f < c + 1, Leaders[f] = f, Len(files[f].bytes) = size
               PROVE  \E i \in 1 .. Len(L) : L[i].fh.name = f
    BY DEF AllListed
  <2>1. CASE f = c
    <3>1. N + 1 \in 1 .. Len(L) /\ L[N + 1].fh.name = c
      BY <1>3, <1>8, <1>9
    <3> QED
      BY <2>1, <3>1
  <2>2. CASE f # c
    <3>1. f < c
      BY <1>1, <2>2, NonEmptyIs
    <3>2. PICK i \in 1 .. N : list[i].fh.name = f
      BY <1>2, <1>4, <3>1 DEF EntriesOk, AllListed
    <3>3. i \in 1 .. Len(L) /\ L[i].fh.name = f
      BY <1>6, <1>9, <3>2
    <3> QED
      BY <3>3
  <2> QED
    BY <2>1, <2>2
<1>15. EntriesOk(L, size, ds, c + 1)
  BY <1>9, <1>12, <1>13, <1>14 DEF EntriesOk
<1>16. ASSUME NEW z \in Nat \ {0} PROVE EntriesOk(EntriesAt(hs2, z), z, ds, c + 1)
  <2>1. CASE z = size
    BY <1>15, <1>21, <2>1
  <2>2. CASE z # size
    <3>1. PICK other : other = EntriesAt(hs, z)
      OBVIOUS
    <3>2. EntriesOk(other, z, ds, c)
      BY <3>1 DEF Midway
    <3>3. EntriesOk(other, z, ds, c + 1)
      BY <1>1, <1>2, <1>3, <2>2, <3>2, EntriesKept
    <3> QED
      BY <1>21, <2>2, <3>1, <3>3
  <2> QED
    BY <2>1, <2>2
<1>17. GroupsOk(ds, c + 1)
  <2>1. ~ (Leaders[c] < c)
    BY <1>1, <1>3
  <2> QED
    BY <1>1, <2>1, GroupsKept DEF Midway
<1>18. es = {f \in DOMAIN files \ NonEmpty : f < c + 1}
  BY <1>1, EmptyOnesGrow DEF Midway
<1>19. c + 1 \in 1 .. Len(files) + 1 /\ Len(files) >= 2
  BY <1>1 DEF Midway
<1> QED
  BY <1>16, <1>17, <1>18, <1>19 DEF Midway

\* c goes to the entry at; only that entry's group may become another, and its group gets c.
GoesAt(c, list, at) == at \in 1 .. Len(list) /\ Leaders[c] = list[at].fh.name

SameBut(L, list, at) ==
  /\ L \in Seq(EntryRecords) /\ Len(L) = Len(list)
  /\ \A i \in 1 .. Len(list) : /\ GoodHasher(L[i].fh) /\ L[i].fh.name = list[i].fh.name
                               /\ i # at => L[i].group = list[i].group

Regrouped(ds2, ds, c) ==
  /\ Len(ds) \in Nat /\ Len(ds2) \in Nat /\ Len(ds2) >= Len(ds)
  /\ \A i \in 1 .. Len(ds) : ds2[i] = ds[i] \/ ds[i] = GroupAt(Leaders[c], c)

LEMMA Relisted ==
  ASSUME FilesOk, NEW c \in NonEmpty, NEW size, size = Len(files[c].bytes), NEW list, NEW ds,
         EntriesOk(list, size, ds, c), NEW at, GoesAt(c, list, at), NEW L, SameBut(L, list, at),
         NEW ds2, Regrouped(ds2, ds, c), EntryOk(L[at], size, ds2, c + 1)
  PROVE  EntriesOk(L, size, ds2, c + 1)
<1> USE DEF GoesAt, SameBut, Regrouped
<1>1. c \in Nat /\ c \in DOMAIN files
  BY NonEmptyIs
<1>2. PICK N \in Nat : N = Len(list)
  BY DEF EntriesOk
<1>3. ByName(list) /\ AllListed(list, size, c)
  BY DEF EntriesOk
<1>4. ASSUME NEW i \in 1 .. N, i # at PROVE EntryOk(L[i], size, ds2, c + 1)
  <2>1. PICK e, e2 : e = list[i] /\ e2 = L[i]
    OBVIOUS
  <2>2. PICK name : name = e.fh.name
    OBVIOUS
  <2>3. EntryOk(e, size, ds, c)
    BY <1>2, <2>1 DEF EntriesOk
  <2>4. /\ name \in NonEmpty /\ name < c /\ Leaders[name] = name
        /\ e.group # NotInGroup => e.group \in 1 .. Len(ds) /\ ds[e.group] = GroupAt(name, c)
    BY <2>2, <2>3 DEF EntryOk
  <2>5. GoodHasher(e2.fh) /\ e2.fh.name = e.fh.name /\ e2.group = e.group
    BY <1>2, <1>4, <2>1
  <2>6. name # list[at].fh.name
    <3>1. name \in Nat
      BY <2>4, NonEmptyIs
    <3>2. i < at \/ at < i
      BY <1>2, <1>4
    <3>3. i < at => name < list[at].fh.name
      BY <1>2, <1>3, <2>1, <2>2 DEF ByName
    <3>4. at < i => list[at].fh.name < name
      BY <1>2, <1>3, <2>1, <2>2 DEF ByName
    <3> QED
      BY <3>1, <3>2, <3>3, <3>4
  <2>7. ASSUME e.group # NotInGroup PROVE ds2[e.group] = ds[e.group]
    <3>1. ASSUME ds[e.group] = GroupAt(Leaders[c], c) PROVE FALSE
      <4>1. name \in GroupAt(name, c)
        BY <2>4 DEF GroupAt
      <4>2. name \in GroupAt(Leaders[c], c)
        BY <2>4, <2>7, <3>1, <4>1
      <4> QED
        BY <2>4, <2>6, <4>2 DEF GroupAt
    <3> QED
      BY <2>4, <2>7, <3>1
  <2>8. ~ (c \in NonEmpty /\ Leaders[c] = e.fh.name)
    BY <2>2, <2>6
  <2>9. EntryOk(e2, size, ds2, c + 1)
    <3>1. Len(ds) \in Nat /\ Len(ds2) \in Nat /\ Len(ds2) >= Len(ds)
      OBVIOUS
    <3> QED
      BY ONLY FilesOk, <1>1, <3>1, <2>3, <2>5, <2>7, <2>8, EntryKept
  <2> QED
    BY <2>1, <2>9
<1>5. \A i \in 1 .. Len(L) : EntryOk(L[i], size, ds2, c + 1)
  BY <1>2, <1>4
<1>6. ByName(L)
  BY <1>2, <1>3 DEF ByName
<1>7. AllListed(L, size, c + 1)
  <2> SUFFICES ASSUME NEW f \in NonEmpty, f < c + 1, Leaders[f] = f, Len(files[f].bytes) = size
               PROVE  \E i \in 1 .. Len(L) : L[i].fh.name = f
    BY DEF AllListed
  <2>1. f # c
    <3>1. EntryOk(list[at], size, ds, c)
      BY DEF EntriesOk
    <3>2. Leaders[c] \in NonEmpty /\ Leaders[c] < c
      BY <3>1 DEF EntryOk
    <3> QED
      BY <1>1, <3>2
  <2>4. f \in Nat
    BY NonEmptyIs
  <2>2. f < c
    BY <1>1, <2>1, <2>4
  <2>3. PICK i \in 1 .. N : list[i].fh.name = f
    BY <1>2, <1>3, <2>2 DEF AllListed
  <2> QED
    BY <1>2, <2>3
<1> QED
  BY <1>5, <1>6, <1>7 DEF EntriesOk

\* Everything else when c goes to a file that is listed.
LEMMA JoinStep ==
  ASSUME FilesOk, NEW hs, NEW es, NEW ds, NEW c \in NonEmpty, Midway(hs, es, ds, c),
         NEW size, size = Len(files[c].bytes), NEW at, GoesAt(c, EntriesAt(hs, size), at), NEW L,
         NEW hs2, Relists(hs2, hs, size, L), NEW ds2, Regrouped(ds2, ds, c),
         EntriesOk(L, size, ds2, c + 1), GroupsOk(ds2, c + 1)
  PROVE  Midway(hs2, es, ds2, c + 1)
<1> USE DEF GoesAt, Regrouped, Relists
<1>8. PICK list : list = EntriesAt(hs, size)
  OBVIOUS
<1>1. c \in DOMAIN files /\ c \in Nat /\ c \in 1 .. Len(files) /\ size \in Nat \ {0} /\ Len(files) \in Nat
  BY NonEmptyIs DEF FilesOk
<1>2. EntriesOk(list, size, ds, c) /\ Len(ds) \in Nat
  BY <1>1, <1>8 DEF Midway, GroupsOk
<1>3. PICK g : g = Leaders[c]
  OBVIOUS
<1>4. g \in NonEmpty /\ g < c /\ Len(files[g].bytes) = size
  <2>1. EntryOk(list[at], size, ds, c)
    BY <1>2, <1>8 DEF EntriesOk
  <2> QED
    BY <1>3, <1>8, <2>1 DEF EntryOk
<1>5. ASSUME NEW z \in Nat \ {0} PROVE EntriesOk(EntriesAt(hs2, z), z, ds2, c + 1)
  <2>1. CASE z = size
    BY <2>1
  <2>2. CASE z # size
    <3>1. PICK other : other = EntriesAt(hs, z)
      OBVIOUS
    <3>2. EntriesOk(other, z, ds, c)
      BY <3>1 DEF Midway
    <3>3. c \in NonEmpty => Leaders[c] \in NonEmpty /\ Len(files[Leaders[c]].bytes) # z
      BY <1>3, <1>4, <2>2
    <3>4. c \in NonEmpty /\ Leaders[c] = c => Len(files[c].bytes) # z
      BY <2>2
    <3>5. EntriesOk(other, z, ds2, c + 1)
      BY <1>1, <1>2, <3>2, <3>3, <3>4, EntriesKept
    <3> QED
      BY <2>2, <3>1, <3>5
  <2> QED
    BY <2>1, <2>2
<1>6. es = {f \in DOMAIN files \ NonEmpty : f < c + 1}
  BY <1>1, EmptyOnesGrow DEF Midway
<1>7. c + 1 \in 1 .. Len(files) + 1 /\ Len(files) >= 2
  BY <1>1 DEF Midway
<1> QED
  BY <1>5, <1>6, <1>7 DEF Midway

\* The groups, c having gone to g: g's is new, or is the one g has.
GroupMade(ds2, ds, g, c) ==
  /\ GroupsOk(ds2, c + 1) /\ Len(ds2) = Len(ds) + 1 /\ ds2[Len(ds) + 1] = GroupAt(g, c + 1)
  /\ \A i \in 1 .. Len(ds) : ds2[i] = ds[i]

GroupGrown(ds2, ds, k, g, c) ==
  /\ GroupsOk(ds2, c + 1) /\ Len(ds2) = Len(ds) /\ ds2[k] = GroupAt(g, c + 1)
  /\ \A i \in 1 .. Len(ds) : i # k => ds2[i] = ds[i]

LEMMA GroupsWithNew ==
  ASSUME FilesOk, NEW c \in NonEmpty, NEW ds, GroupsOk(ds, c), NEW g, g = Leaders[c], g < c, GroupAt(g, c) = {g}
  PROVE  GroupMade(Append(ds, {g, c}), ds, g, c)
<1>11. PICK ds2 : ds2 = Append(ds, {g, c})
  OBVIOUS
<1>1. c \in Nat /\ c \in DOMAIN files /\ g \in NonEmpty /\ g \in Nat /\ Leaders[g] = g
  BY NonEmptyIs, LeaderIs
<1>2. PICK N \in Nat : N = Len(ds)
  BY DEF GroupsOk
<1>3. ds \in Seq(SUBSET Nat) /\ {g, c} \in SUBSET Nat
  BY <1>1 DEF GroupsOk
<1>4. /\ ds2 \in Seq(SUBSET Nat) /\ Len(ds2) = N + 1 /\ ds2[N + 1] = {g, c}
      /\ \A i \in 1 .. N : ds2[i] = ds[i]
  BY <1>2, <1>3, <1>11
<1>5. GroupAt(g, c + 1) = {g, c}
  <2>1. GroupAt(g, c + 1) = GroupAt(g, c) \cup {c}
    BY <1>1, GroupAtGrows
  <2> QED
    BY <2>1
<1>6. BigGroup({g, c}, g, c + 1)
  <2>1. g < c + 1 /\ c # g /\ c \in {g, c}
    BY <1>1
  <2> QED
    BY <1>1, <1>5, <2>1 DEF BigGroup
<1>7. ASSUME NEW i \in 1 .. N PROVE c \notin ds[i] /\ \E h : BigGroup(ds[i], h, c + 1)
  <2>1. PICK h : BigGroup(ds[i], h, c)
    BY <1>2 DEF GroupsOk
  <2>2. h # g
    BY <2>1 DEF BigGroup
  <2>3. BigGroup(ds[i], h, c + 1)
    BY <1>1, <2>1, <2>2, BigGroupKept
  <2>4. c \notin ds[i]
    BY <1>1, <2>1, GroupAtGrows DEF BigGroup
  <2> QED
    BY <2>3, <2>4
<1>8. ASSUME NEW i \in 1 .. N + 1 PROVE \E h : BigGroup(ds2[i], h, c + 1)
  <2>1. CASE i = N + 1
    BY <1>4, <1>6, <2>1
  <2>2. CASE i # N + 1
    <3>1. i \in 1 .. N
      BY <2>2
    <3> QED
      BY <1>4, <1>7, <3>1
  <2> QED
    BY <2>1, <2>2
<1>9. ASSUME NEW i \in 1 .. N + 1, NEW j \in 1 .. N + 1, ds2[i] = ds2[j] PROVE i = j
  <2>1. \A k \in 1 .. N + 1 : k # N + 1 => k \in 1 .. N
    OBVIOUS
  <2>2. \A k \in 1 .. N + 1 : c \in ds2[k] <=> k = N + 1
    BY <1>4, <1>7, <2>1
  <2>3. CASE i = N + 1
    BY <1>9, <2>2, <2>3
  <2>4. CASE i # N + 1
    <3>1. j # N + 1
      BY <1>9, <2>2, <2>4
    <3>2. i \in 1 .. N /\ j \in 1 .. N /\ ds[i] = ds[j]
      BY <1>4, <1>9, <2>1, <2>4, <3>1
    <3> QED
      BY <1>2, <3>2 DEF GroupsOk
  <2> QED
    BY <2>3, <2>4
<1>10. GroupsOk(ds2, c + 1)
  BY <1>4, <1>8, <1>9 DEF GroupsOk
<1> QED
  BY <1>2, <1>4, <1>5, <1>10, <1>11 DEF GroupMade

LEMMA GroupsWithMore ==
  ASSUME FilesOk, NEW c \in NonEmpty, NEW ds, GroupsOk(ds, c), NEW g, g = Leaders[c], g < c,
         NEW k \in 1 .. Len(ds), ds[k] = GroupAt(g, c)
  PROVE  GroupGrown([ds EXCEPT ![k] = @ \cup {c}], ds, k, g, c)
<1>13. PICK ds2 : ds2 = [ds EXCEPT ![k] = @ \cup {c}]
  OBVIOUS
<1>1. c \in Nat /\ c \in DOMAIN files /\ g \in NonEmpty /\ g \in Nat /\ Leaders[g] = g
  BY NonEmptyIs, LeaderIs
<1>2. PICK N \in Nat : N = Len(ds)
  BY DEF GroupsOk
<1>3. PICK S : S = ds[k] \cup {c}
  OBVIOUS
<1>4. ds \in Seq(SUBSET Nat) /\ S \in SUBSET Nat
  BY <1>1, <1>3 DEF GroupsOk
<1>5. ds2 = [i \in 1 .. N |-> IF i = k THEN S ELSE ds[i]]
  <2>1. DOMAIN ds = 1 .. N /\ k \in 1 .. N /\ ds = [i \in 1 .. N |-> ds[i]]
    BY <1>2, <1>4
  <2>2. ds2 = [ds EXCEPT ![k] = S]
    BY <1>3, <1>13
  <2> QED
    BY <2>1, <2>2
<1>6. /\ ds2 \in Seq(SUBSET Nat) /\ Len(ds2) = N /\ ds2[k] = S
      /\ \A i \in 1 .. N : i # k => ds2[i] = ds[i]
  <2>1. \A i \in 1 .. N : ds[i] \in SUBSET Nat
    BY <1>2, <1>4
  <2>2. ds2 \in [1 .. N -> SUBSET Nat]
    BY <1>4, <1>5, <2>1
  <2>3. ds2 \in Seq(SUBSET Nat) /\ Len(ds2) = N
    BY <2>2, SeqDef
  <2> QED
    BY <1>2, <1>5, <2>3
<1>7. S = GroupAt(g, c + 1)
  BY <1>1, <1>3, GroupAtGrows
<1>8. BigGroup(S, g, c + 1)
  <2>1. g < c + 1 /\ c # g /\ c \in S
    BY <1>1, <1>3
  <2> QED
    BY <1>1, <1>7, <2>1 DEF BigGroup
<1>9. ASSUME NEW i \in 1 .. N, i # k PROVE c \notin ds[i] /\ \E h : BigGroup(ds[i], h, c + 1)
  <2>1. PICK h : BigGroup(ds[i], h, c)
    BY <1>2 DEF GroupsOk
  <2>2. h # g
    <3> SUFFICES ASSUME h = g PROVE FALSE
      OBVIOUS
    <3>1. ds[i] = ds[k]
      BY <2>1 DEF BigGroup
    <3> QED
      BY <1>2, <1>9, <3>1 DEF GroupsOk
  <2>3. BigGroup(ds[i], h, c + 1)
    BY <1>1, <2>1, <2>2, BigGroupKept
  <2>4. c \notin ds[i]
    BY <1>1, <2>1, GroupAtGrows DEF BigGroup
  <2> QED
    BY <2>3, <2>4
<1>10. ASSUME NEW i \in 1 .. N PROVE \E h : BigGroup(ds2[i], h, c + 1)
  BY <1>6, <1>8, <1>9
<1>11. ASSUME NEW i \in 1 .. N, NEW j \in 1 .. N, ds2[i] = ds2[j] PROVE i = j
  <2>1. \A m \in 1 .. N : c \in ds2[m] <=> m = k
    BY <1>3, <1>6, <1>9
  <2>2. CASE i = k
    BY <1>11, <2>1, <2>2
  <2>3. CASE i # k
    <3>1. j # k
      BY <1>11, <2>1, <2>3
    <3>2. ds[i] = ds[j]
      BY <1>6, <1>11, <2>3, <3>1
    <3> QED
      BY <1>2, <3>2 DEF GroupsOk
  <2> QED
    BY <2>2, <2>3
<1>12. GroupsOk(ds2, c + 1)
  BY <1>6, <1>10, <1>11 DEF GroupsOk
<1> QED
  BY <1>2, <1>6, <1>7, <1>12, <1>13 DEF GroupGrown

\* The list of c's size and the groups, after c.
LEMMA JoinAgain ==
  ASSUME FilesOk, NEW hs, NEW es, NEW ds, NEW c \in NonEmpty, Midway(hs, es, ds, c),
         NEW size, size = Len(files[c].bytes), NEW list, list = EntriesAt(hs, size),
         NEW at, GoesAt(c, list, at), NEW L, SameEntries(L, list),
         NEW group, group = L[at].group, group # NotInGroup, NEW hs2, Relists(hs2, hs, size, L)
  PROVE  Midway(hs2, es, [ds EXCEPT ![group] = @ \cup {c}], c + 1)
<1>11. PICK ds2 : ds2 = [ds EXCEPT ![group] = @ \cup {c}]
  OBVIOUS
<1>1. c \in DOMAIN files /\ c \in Nat /\ size \in Nat \ {0}
  BY NonEmptyIs
<1>2. EntriesOk(list, size, ds, c) /\ GroupsOk(ds, c) /\ Len(ds) \in Nat
  BY <1>1 DEF Midway, GroupsOk
<1>3. PICK g : g = Leaders[c]
  OBVIOUS
<1>4. /\ g \in NonEmpty /\ g < c /\ Leaders[g] = g /\ Len(files[g].bytes) = size
      /\ group = list[at].group /\ group \in 1 .. Len(ds) /\ ds[group] = GroupAt(g, c)
  <2>1. EntryOk(list[at], size, ds, c)
    BY <1>2 DEF EntriesOk, GoesAt
  <2>2. group = list[at].group /\ list[at].fh.name = g
    BY <1>3 DEF SameEntries, GoesAt
  <2> QED
    BY <2>1, <2>2 DEF EntryOk
<1>5. /\ GroupsOk(ds2, c + 1) /\ Len(ds2) = Len(ds) /\ ds2[group] = GroupAt(g, c + 1)
      /\ \A i \in 1 .. Len(ds) : i # group => ds2[i] = ds[i]
  <2>1. GroupGrown([ds EXCEPT ![group] = @ \cup {c}], ds, group, g, c)
    BY <1>2, <1>3, <1>4, GroupsWithMore
  <2> QED
    BY <1>11, <2>1 DEF GroupGrown
<1>6. /\ L \in Seq(EntryRecords) /\ Len(L) = Len(list)
      /\ \A i \in 1 .. Len(list) : /\ GoodHasher(L[i].fh)
                                   /\ L[i].fh.name = list[i].fh.name /\ L[i].group = list[i].group
  BY DEF SameEntries
<1>7. EntryOk(L[at], size, ds2, c + 1)
  <2>1. PICK e : e = L[at]
    OBVIOUS
  <2>2. GoodHasher(e.fh) /\ e.fh.name = g /\ e.group = group
    BY <1>3, <1>6, <2>1 DEF GoesAt
  <2>3. g < c + 1 /\ group \in 1 .. Len(ds2) /\ ds2[group] = GroupAt(g, c + 1)
    BY <1>1, <1>4, <1>5, NonEmptyIs
  <2>4. EntryOk(e, size, ds2, c + 1)
    BY ONLY <1>4, <2>2, <2>3, group # NotInGroup DEF EntryOk
  <2> QED
    BY <2>1, <2>4
<1>8. \A i \in 1 .. Len(ds) : ds2[i] = ds[i] \/ ds[i] = GroupAt(Leaders[c], c)
  BY <1>3, <1>4, <1>5
<1>9. Len(ds2) \in Nat /\ Len(ds2) >= Len(ds)
  BY <1>2, <1>5
<1>12. Regrouped(ds2, ds, c)
  BY <1>2, <1>8, <1>9 DEF Regrouped
<1>10. EntriesOk(L, size, ds2, c + 1)
  <2>1. SameBut(L, list, at)
    BY <1>6 DEF SameBut
  <2> QED
    BY <1>2, <1>7, <1>12, <2>1, Relisted
<1>13. Midway(hs2, es, ds2, c + 1)
  BY <1>5, <1>10, <1>12, JoinStep
<1> QED
  BY <1>11, <1>13

LEMMA JoinFirst ==
  ASSUME FilesOk, NEW hs, NEW es, NEW ds, NEW c \in NonEmpty, Midway(hs, es, ds, c),
         NEW size, size = Len(files[c].bytes), NEW list, list = EntriesAt(hs, size),
         NEW at, GoesAt(c, list, at), NEW before, SameEntries(before, list), before[at].group = NotInGroup,
         NEW hs2, Relists(hs2, hs, size, [before EXCEPT ![at].group = Len(ds) + 1])
  PROVE  Midway(hs2, es, Append(ds, {before[at].fh.name, c}), c + 1)
<1>17. PICK L, ds2 : L = [before EXCEPT ![at].group = Len(ds) + 1] /\ ds2 = Append(ds, {before[at].fh.name, c})
  OBVIOUS
<1>18. at \in 1 .. Len(list) /\ Leaders[c] = list[at].fh.name
  BY DEF GoesAt
<1>1. c \in DOMAIN files /\ c \in Nat /\ size \in Nat \ {0}
  BY NonEmptyIs
<1>2. EntriesOk(list, size, ds, c) /\ GroupsOk(ds, c) /\ Len(ds) \in Nat
  BY <1>1 DEF Midway, GroupsOk
<1>3. PICK g : g = Leaders[c]
  OBVIOUS
<1>4. /\ before \in Seq(EntryRecords) /\ Len(before) = Len(list)
      /\ \A i \in 1 .. Len(list) : /\ GoodHasher(before[i].fh)
                                   /\ before[i].fh.name = list[i].fh.name /\ before[i].group = list[i].group
  BY DEF SameEntries
<1>5. /\ g \in NonEmpty /\ g < c /\ Leaders[g] = g /\ Len(files[g].bytes) = size
      /\ GroupAt(g, c) = {g} /\ before[at].fh.name = g
  <2>1. EntryOk(list[at], size, ds, c)
    BY <1>2, <1>18 DEF EntriesOk
  <2>2. list[at].group = NotInGroup /\ before[at].fh.name = g /\ list[at].fh.name = g
    BY <1>3, <1>4, <1>18
  <2> QED
    BY <2>1, <2>2 DEF EntryOk
<1>6. PICK N \in Nat, group \in Nat : N = Len(list) /\ group = Len(ds) + 1 /\ group # NotInGroup
  BY <1>2 DEF EntriesOk, NotInGroup
<1>7. /\ GroupsOk(ds2, c + 1) /\ Len(ds2) = group /\ ds2[group] = GroupAt(g, c + 1)
      /\ \A i \in 1 .. Len(ds) : ds2[i] = ds[i]
  <2>1. ds2 = Append(ds, {g, c})
    BY <1>5, <1>17
  <2>2. GroupMade(Append(ds, {g, c}), ds, g, c)
    BY <1>2, <1>3, <1>5, GroupsWithNew
  <2> QED
    BY <1>6, <2>1, <2>2 DEF GroupMade
<1>8. PICK entry : entry = [before[at] EXCEPT !.group = group]
  OBVIOUS
<1>9. entry \in EntryRecords /\ entry.group = group /\ entry.fh = before[at].fh
  <2>1. before[at] \in EntryRecords
    BY <1>4, <1>18
  <2> QED
    BY <1>6, <1>8, <2>1 DEF EntryRecords
<1>10. L = [i \in 1 .. N |-> IF i = at THEN entry ELSE before[i]]
  <2>1. DOMAIN before = 1 .. N /\ at \in 1 .. N /\ before = [i \in 1 .. N |-> before[i]]
    BY <1>4, <1>6, <1>18
  <2> QED
    BY <1>6, <1>8, <1>17, <2>1
<1>11. L \in Seq(EntryRecords) /\ Len(L) = N
  <2>1. \A i \in 1 .. N : before[i] \in EntryRecords
    BY <1>4, <1>6
  <2>2. L \in [1 .. N -> EntryRecords]
    BY <1>9, <1>10, <2>1
  <2>3. L \in Seq(EntryRecords)
    BY <1>6, <2>2, SeqDef
  <2> QED
    BY <1>6, <1>10, <2>3
<1>12. \A i \in 1 .. N : /\ GoodHasher(L[i].fh) /\ L[i].fh.name = list[i].fh.name
                         /\ i # at => L[i].group = list[i].group
  BY <1>4, <1>6, <1>9, <1>10
<1>13. EntryOk(L[at], size, ds2, c + 1)
  <2>1. PICK e : e = L[at]
    OBVIOUS
  <2>2. GoodHasher(e.fh) /\ e.fh.name = g /\ e.group = group
    BY <1>4, <1>5, <1>6, <1>9, <1>10, <1>18, <2>1
  <2>3. g < c + 1 /\ group \in 1 .. Len(ds2) /\ ds2[group] = GroupAt(g, c + 1)
    BY <1>1, <1>2, <1>5, <1>6, <1>7, NonEmptyIs
  <2>4. EntryOk(e, size, ds2, c + 1)
    BY ONLY <1>5, <1>6, <2>2, <2>3 DEF EntryOk
  <2> QED
    BY <2>1, <2>4
<1>14. \A i \in 1 .. Len(ds) : ds2[i] = ds[i] \/ ds[i] = GroupAt(Leaders[c], c)
  BY <1>7
<1>15. Len(ds2) \in Nat /\ Len(ds2) >= Len(ds)
  BY <1>2, <1>6, <1>7
<1>19. Regrouped(ds2, ds, c)
  BY <1>2, <1>14, <1>15 DEF Regrouped
<1>16. EntriesOk(L, size, ds2, c + 1)
  <2>1. SameBut(L, list, at)
    BY <1>6, <1>11, <1>12 DEF SameBut
  <2> QED
    BY <1>2, <1>13, <1>19, <2>1, Relisted
<1>20. Midway(hs2, es, ds2, c + 1)
  <2>1. Relists(hs2, hs, size, L)
    BY <1>17
  <2> QED
    BY <1>7, <1>16, <1>19, <2>1, JoinStep
<1> QED
  BY <1>17, <1>20

LEMMA NewHasherIs ==
  ASSUME FilesOk, NEW c \in DOMAIN files
  PROVE  /\ GoodHasher(NewHasher(c)) /\ NewHasher(c).name = c /\ SizeOf(NewHasher(c)) = Len(files[c].bytes)
<1>1. PICK fh : fh = NewHasher(c)
  OBVIOUS
<1>2. /\ fh.name = c /\ fh.cache = <<>> /\ fh.open = FALSE /\ fh.valid = TRUE /\ fh.at = 0 /\ fh.readed = 0
      /\ fh \in HasherRecords
  <2>1. <<>> \in Seq(HashValues) /\ c \in Nat
    BY FileFields, EmptySeq
  <2> QED
    BY <1>1, <2>1 DEF NewHasher, HasherRecords
<1>3. Cached(files[c], fh.cache)
  <2>1. 0 .. Len(fh.cache) - 1 = {}
    BY <1>2
  <2> QED
    BY <2>1 DEF Cached
<1>4. Reads(files[c], fh)
  BY <1>2, <1>3 DEF Reads
<1> QED
  BY <1>1, <1>2, <1>4 DEF GoodHasher, SizeOf

\* The body of the loop over the files.
LEMMA FileStep ==
  ASSUME FilesOk, Midway(hashers, empty_files, duplicates, cmpAt), CompareFile
  PROVE  Midway(hashers', empty_files', duplicates', cmpAt')
<1>1. PICK c \in DOMAIN files : c = cmpAt
  BY DEF CompareFile
<1>2. PICK fh, size : fh = NewHasher(c) /\ size = SizeOf(fh)
  OBVIOUS
<1>3. GoodHasher(fh) /\ fh.name = c /\ size = Len(files[c].bytes) /\ size \in Nat
  BY <1>2, NewHasherIs, FileFields
<1>4. PICK list : list = HashersOf(size)
  OBVIOUS
<1>5. list = EntriesAt(hashers, size)
  BY <1>4 DEF HashersOf, EntriesAt
<1>6. PICK s : s = Search(fh, list)
  OBVIOUS
<1>7. PICK group : group = s.list[s.at].group
  OBVIOUS
<1>8. /\ cmpAt' = c + 1
      /\ size = 0 => empty_files' = empty_files \cup {c} /\ hashers' = hashers /\ duplicates' = duplicates
      /\ size # 0 =>
           /\ empty_files' = empty_files
           /\ hashers' = WithHashers(size,
                IF ~s.found THEN Append(s.list, [group |-> NotInGroup, fh |-> s.cur])
                ELSE IF group = NotInGroup THEN [s.list EXCEPT ![s.at].group = Len(duplicates) + 1]
                ELSE s.list)
           /\ duplicates' =
                IF ~s.found THEN duplicates
                ELSE IF group = NotInGroup
                  THEN Append(duplicates, {s.list[s.at].fh.name, c})
                  ELSE [duplicates EXCEPT ![group] = @ \cup {c}]
  BY <1>1, <1>2, <1>4, <1>6, <1>7, Zenon DEF CompareFile
<1>9. CASE size = 0
  <2>1. c \notin NonEmpty
    BY <1>3, <1>9, NonEmptyIs
  <2>2. Midway(hashers, empty_files \cup {c}, duplicates, c + 1)
    BY <1>1, <2>1, EmptyStep
  <2> QED
    BY <1>8, <1>9, <2>2
<1>10. CASE size # 0
  <2>1. c \in NonEmpty
    <3>1. PICK b : b = files[c].bytes
      OBVIOUS
    <3>2. b \in Seq(Int) /\ Len(b) # 0
      BY <1>3, <1>10, <3>1, FileFields
    <3> QED
      BY <3>1, <3>2 DEF NonEmpty
  <2>2. EntriesOk(list, size, duplicates, c)
    BY <1>1, <1>3, <1>5, <1>10 DEF Midway
  <2>3. s \in SearchedTo(c, list, Len(list))
    <3>1. list \in Seq(EntryRecords) /\ \A i \in 1 .. Len(list) : GoodHasher(list[i].fh)
      BY <2>2 DEF EntriesOk, EntryOk
    <3> QED
      BY <1>3, <1>6, <3>1, SearchIs
  <2>4. /\ SameEntries(s.list, list) /\ s.found \in BOOLEAN
        /\ s.found => s.at \in 1 .. Len(list) /\ Leaders[c] = list[s.at].fh.name
    <3>1. s.found \in BOOLEAN
      BY <2>3 DEF SearchedTo, SearchRecords
    <3> QED
      BY <1>3, <2>1, <2>2, <2>3, <3>1, SearchedWell
  <2>5. ASSUME NEW L, hashers' = WithHashers(size, L) PROVE Relists(hashers', hashers, size, L)
    BY <2>5 DEF WithHashers, EntriesAt, Relists
  <2>6. PICK hs2, ds2 : hs2 = hashers' /\ ds2 = duplicates'
    OBVIOUS
  <2>7. CASE ~ s.found
    <3>1. PICK L : L = Append(s.list, NewEntry(s))
      OBVIOUS
    <3>2. hashers' = WithHashers(size, L) /\ ds2 = duplicates
      BY <1>8, <1>10, <2>6, <2>7, <3>1 DEF NewEntry
    <3>3. Relists(hs2, hashers, size, Append(s.list, NewEntry(s)))
      BY <2>5, <2>6, <3>1, <3>2
    <3>4. Midway(hs2, empty_files, duplicates, c + 1)
      BY <1>1, <1>3, <1>5, <2>1, <2>3, <2>7, <3>3, NewStep
    <3> QED
      BY <1>8, <1>10, <2>6, <3>2, <3>4
  <2>8. CASE s.found /\ group = NotInGroup
    <3>1. PICK L, before, at : L = [s.list EXCEPT ![s.at].group = Len(duplicates) + 1] /\ before = s.list /\ at = s.at
      OBVIOUS
    <3>2. /\ hashers' = WithHashers(size, L) /\ ds2 = Append(duplicates, {before[at].fh.name, c})
          /\ L = [before EXCEPT ![at].group = Len(duplicates) + 1]
      BY <1>8, <1>10, <2>6, <2>8, <3>1
    <3>3. Relists(hs2, hashers, size, [before EXCEPT ![at].group = Len(duplicates) + 1])
      BY <2>5, <2>6, <3>2
    <3>4. GoesAt(c, list, at) /\ SameEntries(before, list) /\ before[at].group = NotInGroup
      BY <1>7, <2>4, <2>8, <3>1 DEF GoesAt
    <3>5. Midway(hs2, empty_files, Append(duplicates, {before[at].fh.name, c}), c + 1)
      BY <1>1, <1>3, <1>5, <2>1, <3>3, <3>4, JoinFirst
    <3> QED
      BY <1>8, <1>10, <2>6, <3>2, <3>5
  <2>9. CASE s.found /\ group # NotInGroup
    <3>1. PICK L, at : L = s.list /\ at = s.at
      OBVIOUS
    <3>2. /\ hashers' = WithHashers(size, L) /\ ds2 = [duplicates EXCEPT ![group] = @ \cup {c}]
      BY <1>8, <1>10, <2>6, <2>9, <3>1
    <3>3. Relists(hs2, hashers, size, L)
      BY <2>5, <2>6, <3>2
    <3>4. GoesAt(c, list, at) /\ SameEntries(L, list) /\ group = L[at].group
      BY <1>7, <2>4, <2>9, <3>1 DEF GoesAt
    <3>5. Midway(hs2, empty_files, [duplicates EXCEPT ![group] = @ \cup {c}], c + 1)
      BY <1>1, <1>3, <1>5, <2>1, <2>9, <3>3, <3>4, JoinAgain
    <3> QED
      BY <1>8, <1>10, <2>6, <3>2, <3>5
  <2> QED
    BY <2>4, <2>7, <2>8, <2>9
<1> QED
  BY <1>9, <1>10

-----------------------------------------------------------------------------
\* The groups when all files are done.

LEMMA TwoMembers ==
  ASSUME NEW S, IsFiniteSet(S), NEW g \in S
  PROVE  Cardinality(S) > 1 <=> \E f \in S : f # g
<1>1. Cardinality(S) \in Nat
  BY FS_CardinalityType
<1>2. Cardinality(S) # 0
  BY FS_EmptySet
<1>3. Cardinality(S) = 1 <=> \E x : S = {x}
  BY FS_Singleton
<1>4. (\E x : S = {x}) <=> ~ \E f \in S : f # g
  <2>1. ASSUME ~ \E f \in S : f # g PROVE S = {g}
    BY <2>1
  <2>2. ASSUME NEW x, S = {x} PROVE ~ \E f \in S : f # g
    BY <2>2
  <2> QED
    BY <2>1, <2>2
<1>5. Cardinality(S) > 1 <=> Cardinality(S) # 1
  BY <1>1, <1>2
<1> QED
  BY <1>3, <1>4, <1>5, Zenon

LEMMA GroupsAtEnd ==
  ASSUME FilesOk, NEW S
  PROVE  (\E g : BigGroup(S, g, Len(files) + 1)) <=>
           S \in {T \in {GroupOf(g) : g \in NonEmpty} : Cardinality(T) > 1}
<1>1. PICK n \in Nat : n = Len(files) /\ \A f \in NonEmpty : f \in 1 .. n /\ f < n + 1
  <2>1. Len(files) \in Nat
    BY DEF FilesOk
  <2> QED
    BY <2>1, NonEmptyIs
<1>2. ASSUME NEW g PROVE GroupAt(g, n + 1) = GroupOf(g) /\ IsFiniteSet(GroupOf(g))
  <2>1. GroupAt(g, n + 1) = GroupOf(g)
    BY <1>1 DEF GroupAt, GroupOf
  <2>2. GroupOf(g) \in SUBSET (1 .. n)
    BY <1>1 DEF GroupOf
  <2>3. IsFiniteSet(1 .. n)
    BY FS_Interval
  <2> QED
    BY <2>1, <2>2, <2>3, FS_Subset
<1>3. ASSUME NEW g \in NonEmpty, Leaders[g] = g
      PROVE  g \in GroupOf(g) /\ (Cardinality(GroupOf(g)) > 1 <=> \E f \in GroupOf(g) : f # g)
  <2>1. g \in GroupOf(g)
    BY <1>3 DEF GroupOf
  <2> QED
    BY <1>2, <2>1, TwoMembers
<1>4. ASSUME NEW g, BigGroup(S, g, n + 1)
      PROVE  S \in {T \in {GroupOf(x) : x \in NonEmpty} : Cardinality(T) > 1}
  <2>1. g \in NonEmpty /\ Leaders[g] = g /\ S = GroupOf(g) /\ \E f \in S : f # g
    BY <1>2, <1>4 DEF BigGroup
  <2>2. Cardinality(S) > 1
    BY <1>3, <2>1
  <2> QED
    BY <2>1, <2>2
<1>5. ASSUME NEW g \in NonEmpty, S = GroupOf(g), Cardinality(S) > 1
      PROVE  BigGroup(S, g, n + 1)
  <2>1. S # {}
    BY <1>5, FS_EmptySet
  <2>2. Leaders[g] = g
    <3>1. PICK f : f \in NonEmpty /\ Leaders[f] = g
      BY <1>5, <2>1 DEF GroupOf
    <3> QED
      BY <3>1, NonEmptyIs, LeaderIs
  <2>3. S = GroupAt(g, n + 1) /\ \E f \in S : f # g
    BY <1>2, <1>3, <1>5, <2>2
  <2> QED
    BY <1>1, <2>2, <2>3 DEF BigGroup
<1> QED
  BY <1>1, <1>4, <1>5

LEMMA AllGrouped ==
  ASSUME FilesOk, NEW hs, NEW es, NEW ds, Midway(hs, es, ds, Len(files) + 1),
         NEW S, NEW g, BigGroup(S, g, Len(files) + 1)
  PROVE  \E i \in 1 .. Len(ds) : ds[i] = S
<1>1. PICK c : c = Len(files) + 1
  OBVIOUS
<1>2. g \in NonEmpty /\ g < c /\ Leaders[g] = g /\ S = GroupAt(g, c) /\ \E f \in S : f # g
  BY <1>1 DEF BigGroup
<1>3. PICK size \in Nat \ {0} : size = Len(files[g].bytes)
  BY <1>2, NonEmptyIs
<1>4. PICK list : list = EntriesAt(hs, size)
  OBVIOUS
<1>5. EntriesOk(list, size, ds, c)
  BY <1>1, <1>4 DEF Midway
<1>6. PICK i \in 1 .. Len(list) : list[i].fh.name = g
  BY <1>2, <1>3, <1>5 DEF EntriesOk, AllListed
<1>7. PICK e : e = list[i]
  OBVIOUS
<1>8. EntryOk(e, size, ds, c) /\ e.fh.name = g
  BY <1>5, <1>6, <1>7 DEF EntriesOk
<1>9. e.group # NotInGroup
  BY <1>2, <1>8 DEF EntryOk
<1> QED
  BY <1>2, <1>8, <1>9 DEF EntryOk

Book(ds, none) ==
  /\ {ds[i] : i \in DOMAIN ds} =
       {g \in {GroupOf(f) : f \in NonEmpty} : Cardinality(g) > 1} \cup (IF none = {} THEN {} ELSE {none})
  /\ none # {} => ds[Len(ds)] = none
  /\ \A i, j \in DOMAIN ds : ds[i] = ds[j] => i = j

LEMMA EndSays ==
  ASSUME FilesOk, NEW hs, NEW es, NEW ds, Midway(hs, es, ds, Len(files) + 1)
  PROVE  Book(IF es = {} THEN ds ELSE Append(ds, es), DOMAIN files \ NonEmpty)
<1>1. PICK m \in Nat : m = Len(ds) /\ DOMAIN ds = 1 .. m
  BY DEF Midway, GroupsOk
<1>2. PICK Big : Big = {g \in {GroupOf(f) : f \in NonEmpty} : Cardinality(g) > 1}
  OBVIOUS
<1>3. {ds[i] : i \in 1 .. m} = Big
  <2>1. ASSUME NEW i \in 1 .. m PROVE ds[i] \in Big
    BY <1>1, <1>2, GroupsAtEnd DEF Midway, GroupsOk
  <2>2. ASSUME NEW S \in Big PROVE \E i \in 1 .. m : ds[i] = S
    <3>1. PICK g : BigGroup(S, g, Len(files) + 1)
      BY <1>2, GroupsAtEnd
    <3> QED
      BY <1>1, <3>1, AllGrouped
  <2> QED
    BY <2>1, <2>2
<1>4. es = DOMAIN files \ NonEmpty
  <2>1. \A f \in DOMAIN files : f < Len(files) + 1
    BY DEF FilesOk
  <2> QED
    BY <2>1 DEF Midway
<1>5. \A i, j \in 1 .. m : ds[i] = ds[j] => i = j
  BY <1>1 DEF Midway, GroupsOk
<1>6. CASE es = {}
  <2>1. PICK none : none = DOMAIN files \ NonEmpty
    OBVIOUS
  <2>2. none = {} /\ {ds[i] : i \in DOMAIN ds} = Big
    BY <1>1, <1>3, <1>4, <1>6, <2>1
  <2>3. Book(ds, none)
    BY ONLY <1>1, <1>2, <1>5, <2>2 DEF Book
  <2> QED
    BY <1>6, <2>1, <2>3
<1>7. CASE es # {}
  <2>1. PICK ds2 : ds2 = Append(ds, es)
    OBVIOUS
  <2>2. /\ Len(ds2) = m + 1 /\ DOMAIN ds2 = 1 .. m + 1 /\ ds2[m + 1] = es
        /\ \A i \in 1 .. m : ds2[i] = ds[i]
    <3>1. ds \in Seq(SUBSET Nat) /\ es \in SUBSET Nat
      BY <1>4, FileFields DEF Midway, GroupsOk
    <3> QED
      BY <1>1, <2>1, <3>1
  <2>3. {ds2[i] : i \in 1 .. m + 1} = Big \cup {es}
    <3>1. 1 .. m + 1 = 1 .. m \cup {m + 1}
      OBVIOUS
    <3>2. \A S \in Big : \E i \in 1 .. m : S = ds2[i]
      BY <1>3, <2>2
    <3>3. \A i \in 1 .. m : ds2[i] \in Big
      BY <1>3, <2>2
    <3> QED
      BY <2>2, <3>1, <3>2, <3>3
  <2>4. es \notin Big
    <3> SUFFICES ASSUME es \in Big PROVE FALSE
      OBVIOUS
    <3>1. PICK g : BigGroup(es, g, Len(files) + 1)
      BY <1>2, GroupsAtEnd
    <3>2. es \subseteq NonEmpty
      BY <3>1 DEF BigGroup, GroupAt
    <3> QED
      BY <1>4, <1>7, <3>2
  <2>5. \A i, j \in 1 .. m + 1 : ds2[i] = ds2[j] => i = j
    <3>1. \A i \in 1 .. m : ds2[i] \in Big
      BY <1>3, <2>2
    <3>2. \A i \in 1 .. m + 1 : i = m + 1 \/ i \in 1 .. m
      OBVIOUS
    <3> QED
      BY <1>5, <2>2, <2>4, <3>1, <3>2
  <2>6. Book(ds2, es)
    BY <1>2, <1>7, <2>2, <2>3, <2>5 DEF Book
  <2> QED
    BY <1>4, <1>7, <2>1, <2>6
<1> QED
  BY <1>6, <1>7

-----------------------------------------------------------------------------
\* The invariant of compare().

CompareInv ==
  /\ FilesOk /\ cmpAt \in 0 .. Len(files) + 2
  /\ cmpAt = 0 => hashers = [size \in {} |-> <<>>] /\ empty_files = {} /\ duplicates = <<>>
  /\ cmpAt \in 1 .. Len(files) + 1 => Midway(hashers, empty_files, duplicates, cmpAt)
  /\ cmpAt = Len(files) + 2 =>
       IF Len(files) < 2 THEN duplicates = <<>> ELSE Book(duplicates, DOMAIN files \ NonEmpty)

\* What reads only the files and the hasher.
LEMMA LeadersStay ==
  UNCHANGED <<files, hash>> => Leaders' = Leaders /\ NonEmpty' = NonEmpty
BY DEF Leaders, NonEmpty, LooksSame, HashOf, BlockOf

LEMMA GoodHasherStays ==
  ASSUME UNCHANGED <<files, hash>>, NEW fh
  PROVE  GoodHasher(fh)' <=> GoodHasher(fh)
BY DEF GoodHasher, HasherRecords, HashValues, Blocks, Reads, Cached, Reached, HashOf, BlockOf

LEMMA MidwayStays ==
  ASSUME UNCHANGED <<files, hash>>, NEW hs, NEW es, NEW ds, NEW c, Midway(hs, es, ds, c)
  PROVE  Midway(hs, es, ds, c)'
<1>1. Leaders' = Leaders /\ NonEmpty' = NonEmpty /\ files' = files
  BY LeadersStay
<1>2. ASSUME NEW g PROVE GroupAt(g, c)' = GroupAt(g, c)
  BY <1>1 DEF GroupAt
<1>3. EntryRecords' = EntryRecords
  BY DEF EntryRecords, HasherRecords, HashValues, Blocks
<1>4. ASSUME NEW e, NEW size, EntryOk(e, size, ds, c) PROVE EntryOk(e, size, ds, c)'
  BY <1>1, <1>2, <1>4, GoodHasherStays DEF EntryOk
<1>5. ASSUME NEW list, NEW size, EntriesOk(list, size, ds, c) PROVE EntriesOk(list, size, ds, c)'
  BY <1>1, <1>3, <1>4, <1>5 DEF EntriesOk, AllListed
<1>6. GroupsOk(ds, c)'
  BY <1>1, <1>2 DEF Midway, GroupsOk, BigGroup
<1> QED
  BY <1>1, <1>5, <1>6 DEF Midway

\* compare() is called.
LEMMA StartOk ==
  ASSUME CompareInv, NEW n \in 0 .. MaxFiles, NEW h,
         NEW list \in [1 .. n -> [bytes : Contents, readable : BOOLEAN]], StartCompare(list, h)
  PROVE  CompareInv'
<1>1. /\ files' = list /\ hashers' = [size \in {} |-> <<>>] /\ empty_files' = {} /\ duplicates' = <<>>
      /\ cmpAt' = IF Len(list) < 2 THEN Len(list) + 2 ELSE 1
  BY DEF StartCompare, CompareInv
<1>2. PICK m \in Nat : m = Len(list) /\ list \in Seq(FileRecords)
  <2>1. n \in Nat
    BY FileCompareAssumption
  <2>2. \A i \in 1 .. n : list[i] \in FileRecords
    BY FileCompareAssumption DEF FileRecords
  <2>3. list \in [1 .. n -> FileRecords]
    BY <2>2
  <2>4. list \in Seq(FileRecords)
    BY <2>1, <2>3, SeqDef
  <2> QED
    BY <2>4
<1>3. FilesOk'
  BY <1>1, <1>2 DEF FilesOk, FileRecords
<1>4. CASE m < 2
  BY <1>1, <1>2, <1>3, <1>4 DEF CompareInv
<1>5. CASE ~ (m < 2)
  <2>1. PICK hs, es, ds : hs = hashers' /\ es = empty_files' /\ ds = duplicates'
    OBVIOUS
  <2>2. \A z : EntriesAt(hs, z) = <<>>
    BY <1>1, <2>1 DEF EntriesAt
  <2>3. DOMAIN files' = 1 .. m /\ Len(files') = m
    BY <1>1, <1>2
  <2>4. \A f \in DOMAIN files' : ~ (f < 1)
    BY <2>3
  <2>5. \A size : EntriesOk(<<>>, size, ds, 1)'
    BY <2>4 DEF EntriesOk, ByName, AllListed, NonEmpty
  <2>6. GroupsOk(ds, 1)'
    BY <1>1, <2>1 DEF GroupsOk
  <2>7. Midway(hs, es, ds, 1)'
    BY <1>1, <1>2, <1>5, <2>1, <2>2, <2>3, <2>4, <2>5, <2>6 DEF Midway
  <2> QED
    BY <1>1, <1>2, <1>3, <1>5, <2>1, <2>7 DEF CompareInv
<1> QED
  BY <1>2, <1>4, <1>5

LEMMA FileOk ==
  ASSUME CompareInv, CompareFile
  PROVE  CompareInv'
<1>1. PICK c, n \in Nat : /\ c = cmpAt /\ n = Len(files) /\ DOMAIN files = 1 .. n /\ c \in 1 .. n
                          /\ cmpAt' = c + 1 /\ UNCHANGED <<files, hash>>
  <2>1. PICK n \in Nat : n = Len(files) /\ DOMAIN files = 1 .. n
    BY DEF CompareInv, FilesOk
  <2>2. cmpAt \in DOMAIN files /\ cmpAt' = cmpAt + 1 /\ UNCHANGED <<files, hash>>
    BY DEF CompareFile
  <2>3. cmpAt \in 1 .. n /\ cmpAt \in Nat
    BY <2>1, <2>2
  <2> QED
    BY <2>1, <2>2, <2>3
<1>2. PICK hs, es, ds : hs = hashers' /\ es = empty_files' /\ ds = duplicates'
  OBVIOUS
<1>3. Midway(hs, es, ds, c + 1)
  <2>1. Midway(hashers, empty_files, duplicates, cmpAt)
    BY <1>1 DEF CompareInv
  <2> QED
    BY <1>1, <1>2, <2>1, FileStep DEF CompareInv
<1>4. Midway(hs, es, ds, c + 1)'
  BY <1>1, <1>3, MidwayStays
<1>5. FilesOk'
  BY <1>1 DEF CompareInv, FilesOk, FileRecords
<1> QED
  BY <1>1, <1>2, <1>4, <1>5 DEF CompareInv

LEMMA EndOk ==
  ASSUME CompareInv, CompareEnd
  PROVE  CompareInv'
<1>1. PICK n \in Nat : /\ n = Len(files) /\ n >= 2 /\ cmpAt = n + 1 /\ cmpAt' = n + 2
                       /\ UNCHANGED <<files, hash>> /\ FilesOk
                       /\ Midway(hashers, empty_files, duplicates, n + 1)
                       /\ duplicates' = IF empty_files = {} THEN duplicates ELSE Append(duplicates, empty_files)
  <2>1. FilesOk /\ Len(files) \in Nat /\ cmpAt = Len(files) + 1
    BY DEF CompareInv, FilesOk, CompareEnd
  <2>2. Midway(hashers, empty_files, duplicates, cmpAt)
    BY <2>1 DEF CompareInv
  <2>3. Len(files) >= 2
    BY <2>2 DEF Midway
  <2> QED
    BY <2>1, <2>2, <2>3 DEF CompareEnd
<1>2. PICK ds, none : ds = duplicates' /\ none = DOMAIN files \ NonEmpty
  OBVIOUS
<1>3. Book(ds, none)
  BY <1>1, <1>2, EndSays
<1>4. Leaders' = Leaders /\ NonEmpty' = NonEmpty
  BY <1>1, LeadersStay
<1>5. Book(ds, none)'
  BY <1>3, <1>4 DEF Book, GroupOf
<1>6. FilesOk'
  BY <1>1 DEF FilesOk, FileRecords
<1> QED
  BY <1>1, <1>2, <1>4, <1>5, <1>6 DEF CompareInv

LEMMA ComparingStays ==
  ASSUME CompareInv, UNCHANGED cmpVars
  PROVE  CompareInv'
<1>1. UNCHANGED <<files, hash, hashers, empty_files, duplicates, cmpAt>>
  BY DEF cmpVars
<1>2. PICK hs, es, ds, c : hs = hashers /\ es = empty_files /\ ds = duplicates /\ c = cmpAt
  OBVIOUS
<1>3. Midway(hs, es, ds, c) => Midway(hs, es, ds, c)'
  BY <1>1, MidwayStays
<1>4. Leaders' = Leaders /\ NonEmpty' = NonEmpty
  BY <1>1, LeadersStay
<1>5. PICK none : none = DOMAIN files \ NonEmpty
  OBVIOUS
<1>6. Book(ds, none) => Book(ds, none)'
  BY <1>4 DEF Book, GroupOf
<1>7. FilesOk'
  BY <1>1 DEF CompareInv, FilesOk, FileRecords
<1> QED
  BY <1>1, <1>2, <1>3, <1>4, <1>5, <1>6, <1>7 DEF CompareInv

\* At every file the lists hold the leaders so far with their groups and good
\* hashers; at the end the groups are those of the book (file_cmp.cpp:27-71).
THEOREM CompareInvariant == CompareSpec => []CompareInv
<1>1. CompareInit => CompareInv
  <2> SUFFICES ASSUME CompareInit PROVE CompareInv
    OBVIOUS
  <2>1. files = <<>> /\ files \in Seq(FileRecords) /\ Len(files) = 0
    BY EmptySeq DEF CompareInit
  <2> QED
    BY <2>1 DEF CompareInit, CompareInv, FilesOk
<1>2. CompareInv /\ [CompareNext]_cmpVars => CompareInv'
  BY StartOk, FileOk, EndOk, ComparingStays DEF CompareNext
<1> QED
  BY <1>1, <1>2, PTL DEF CompareSpec

-----------------------------------------------------------------------------
\* What the groups of the book have of those that the task asks for.

LEMMA SameLooks ==
  ASSUME NEW f \in DOMAIN files, NEW g \in DOMAIN files, SameHashes(files[f], files[g])
  PROVE  LooksSame(files[f], files[g])
BY DEF SameHashes, LooksSame

LEMMA LeaderFirst ==
  ASSUME FilesOk, NEW f \in DOMAIN files
  PROVE  /\ Leaders[f] = f \/ Leads(Leaders[f], f)
         /\ \A x : Leads(x, f) => Leaders[f] <= x
<1>1. PICK S : S = {x \in NonEmpty : Leads(x, f)}
  OBVIOUS
<1>2. \A x : x \in S <=> Leads(x, f)
  BY <1>1 DEF Leads
<1>3. S \in SUBSET Nat
  BY <1>1, NonEmptyIs
<1>4. CASE S = {}
  BY <1>2, <1>4, LeaderIs
<1>5. CASE S # {}
  <2>1. PICK m \in S : \A x \in S : ~ (x < m)
    BY <1>3, <1>5, LeastNumber
  <2>2. \A x \in S : m <= x
    BY <1>3, <2>1
  <2>3. Leaders[f] = m
    BY <1>2, <2>2, LeaderIs
  <2> QED
    BY <1>2, <2>2, <2>3
<1> QED
  BY <1>4, <1>5

\* Of two files that can be read and are identical none is led by a file that does not lead the other.
LEMMA SameLeaders ==
  ASSUME FilesOk, NEW f \in NonEmpty, NEW g \in NonEmpty, f < g,
         files[f].readable, files[g].readable, SameHashes(files[f], files[g])
  PROVE  Leaders[f] = Leaders[g]
<1>1. /\ f \in DOMAIN files /\ g \in DOMAIN files /\ f \in Nat /\ g \in Nat
  BY NonEmptyIs
<1>2. ASSUME NEW x, x \in DOMAIN files PROVE LooksSame(files[f], files[x]) <=> LooksSame(files[g], files[x])
  <2>1. PICK a, b, c : a = files[f] /\ b = files[g] /\ c = files[x]
    OBVIOUS
  <2>2. Len(a.bytes) = Len(b.bytes) /\ a.readable /\ b.readable
    BY <2>1 DEF SameHashes
  <2>3. \A k \in 0 .. Len(a.bytes) : k * BlockSize < Len(a.bytes) => HashOf(a, k) = HashOf(b, k)
    BY <2>1 DEF SameHashes
  <2> HIDE <2>1
  <2>4. LooksSame(a, c) <=> LooksSame(b, c)
    BY <2>2, <2>3 DEF LooksSame
  <2> QED
    BY <2>1, <2>4
<1>3. PICK h : h = Leaders[f]
  OBVIOUS
<1>4. h \in NonEmpty /\ h <= f /\ Leaders[h] = h /\ h \in DOMAIN files /\ h \in Nat
  BY <1>1, <1>3, LeaderIs, NonEmptyIs
<1>5. h = f \/ Leads(h, f)
  <2>1. (\A x : ~ Leads(x, f)) \/ \E x : Leads(x, f)
    OBVIOUS
  <2> QED
    BY <1>1, <1>3, <1>4, LeaderFirst
<1>6. Leads(h, g)
  <2>1. CASE h = f
    <3>1. LooksSame(files[f], files[g])
      BY <1>1, SameLooks
    <3>2. LooksSame(files[g], files[f])
      BY <3>1 DEF LooksSame
    <3> QED
      BY <1>4, <2>1, <3>2 DEF Leads
  <2>2. CASE Leads(h, f)
    BY <1>1, <1>2, <1>4, <2>2 DEF Leads
  <2> QED
    BY <1>5, <2>1, <2>2
<1>7. ASSUME NEW x, Leads(x, g) PROVE h <= x
  <2>1. x \in NonEmpty /\ Leaders[x] = x /\ x \in Nat /\ x \in DOMAIN files /\ LooksSame(files[g], files[x])
    BY <1>7, NonEmptyIs DEF Leads
  <2>2. CASE x < f
    <3>1. Leads(x, f)
      BY <1>2, <2>1, <2>2 DEF Leads
    <3> QED
      BY <1>1, <1>3, <3>1, LeaderFirst
  <2>3. CASE ~ (x < f)
    BY <1>1, <1>4, <2>1, <2>3
  <2> QED
    BY <2>2, <2>3
<1> QED
  BY <1>1, <1>3, <1>6, <1>7, LeaderIs

Serves(ds) ==
  /\ \A f, g \in DOMAIN files :
       files[f].readable /\ files[g].readable /\ f # g /\ SameHashes(files[f], files[g]) =>
         \E i \in DOMAIN ds : {f, g} \subseteq ds[i]
  /\ \A i \in DOMAIN ds :
       /\ \A f, g \in ds[i] : Len(files[f].bytes) = Len(files[g].bytes)
       /\ (\A f \in ds[i] : files[f].readable) => \A f, g \in ds[i] : SameHashes(files[f], files[g])
       /\ \A f \in ds[i] \cap NonEmpty : \E g \in ds[i] : g # f
       /\ \A j \in DOMAIN ds : i # j => ds[i] \cap ds[j] = {}

\* What is led by one file.
LEMMA GroupIs ==
  ASSUME FilesOk, NEW S, NEW h, BigGroup(S, h, Len(files) + 1)
  PROVE  /\ h \in S /\ S \subseteq NonEmpty /\ \A f \in S : Leaders[f] = h /\ \E g \in S : g # f
         /\ \A f \in S : LooksSame(files[f], files[h])
<1>1. /\ h \in NonEmpty /\ Leaders[h] = h /\ S = GroupAt(h, Len(files) + 1) /\ \E f \in S : f # h
      /\ h < Len(files) + 1
  BY DEF BigGroup
<1>2. h \in S /\ S \subseteq NonEmpty /\ \A f \in S : Leaders[f] = h /\ \E g \in S : g # f
  BY <1>1 DEF GroupAt
<1>3. ASSUME NEW f \in S PROVE LooksSame(files[f], files[h])
  <2>1. f \in DOMAIN files /\ Leaders[f] = h
    BY <1>2, NonEmptyIs
  <2>2. CASE f = h
    BY <2>2 DEF LooksSame
  <2>3. CASE f # h
    BY <2>1, <2>3, LeaderFirst DEF Leads
  <2> QED
    BY <2>2, <2>3
<1> QED
  BY <1>2, <1>3

LEMMA EmptyAreSame ==
  ASSUME FilesOk, NEW f \in DOMAIN files, NEW g \in DOMAIN files, f \notin NonEmpty, g \notin NonEmpty
  PROVE  SameHashes(files[f], files[g]) /\ Len(files[f].bytes) = 0 /\ Len(files[g].bytes) = 0
<1>1. PICK a, b : a = files[f] /\ b = files[g]
  OBVIOUS
<1>2. a.bytes = <<>> /\ b.bytes = <<>>
  BY <1>1 DEF NonEmpty
<1>3. Len(a.bytes) = 0 /\ Len(b.bytes) = 0
  BY <1>2
<1>4. BlockSize \in Nat
  BY FileCompareAssumption
<1>5. \A k \in 0 .. 0 : ~ (k * BlockSize < 0)
  BY <1>4
<1> QED
  BY <1>1, <1>3, <1>5 DEF SameHashes

LEMMA BookServes ==
  ASSUME FilesOk, NEW ds, Book(ds, DOMAIN files \ NonEmpty)
  PROVE  Serves(ds)
<1>1. PICK none : none = DOMAIN files \ NonEmpty
  OBVIOUS
<1>2. ASSUME NEW S
      PROVE  (\E i \in DOMAIN ds : ds[i] = S) <=>
               (\E h : BigGroup(S, h, Len(files) + 1)) \/ (none # {} /\ S = none)
  <2>1. (\E h : BigGroup(S, h, Len(files) + 1)) <=> S \in {g \in {GroupOf(f) : f \in NonEmpty} : Cardinality(g) > 1}
    BY GroupsAtEnd
  <2>2. {ds[i] : i \in DOMAIN ds} =
          {g \in {GroupOf(f) : f \in NonEmpty} : Cardinality(g) > 1} \cup (IF none = {} THEN {} ELSE {none})
    BY <1>1 DEF Book
  <2>3. (\E i \in DOMAIN ds : ds[i] = S) <=> S \in {ds[i] : i \in DOMAIN ds}
    OBVIOUS
  <2> QED
    BY <2>1, <2>2, <2>3
<1>3. \A i, j \in DOMAIN ds : ds[i] = ds[j] => i = j
  BY DEF Book
<1>4. ASSUME NEW f \in DOMAIN files, NEW g \in DOMAIN files, f < g,
             files[f].readable, files[g].readable, SameHashes(files[f], files[g])
      PROVE  \E i \in DOMAIN ds : {f, g} \subseteq ds[i]
  <2>1. f \in Nat /\ g \in Nat /\ f < Len(files) + 1 /\ g < Len(files) + 1
    BY DEF FilesOk
  <2>2. f \in NonEmpty <=> g \in NonEmpty
    <3>1. Len(files[f].bytes) = Len(files[g].bytes)
      BY <1>4 DEF SameHashes
    <3>2. ASSUME NEW x \in DOMAIN files PROVE x \in NonEmpty <=> Len(files[x].bytes) # 0
      <4>1. PICK b : b = files[x].bytes
        OBVIOUS
      <4>2. b \in Seq(Int)
        BY <4>1, FileFields
      <4>3. b = <<>> <=> Len(b) = 0
        BY <4>2
      <4> QED
        BY <4>1, <4>3 DEF NonEmpty
    <3> QED
      BY <3>1, <3>2
  <2>3. CASE f \in NonEmpty
    <3>1. Leaders[f] = Leaders[g]
      BY <1>4, <2>2, <2>3, SameLeaders
    <3>2. PICK h : h = Leaders[f]
      OBVIOUS
    <3>3. h \in NonEmpty /\ Leaders[h] = h /\ h <= f /\ h \in Nat
      BY <2>3, <3>2, LeaderIs, NonEmptyIs
    <3>4. f \in GroupAt(h, Len(files) + 1) /\ g \in GroupAt(h, Len(files) + 1)
      BY <2>1, <2>2, <2>3, <3>1, <3>2 DEF GroupAt
    <3>5. h < Len(files) + 1 /\ g # h
      BY <1>4, <2>1, <3>3, FileFields DEF FilesOk
    <3>6. BigGroup(GroupAt(h, Len(files) + 1), h, Len(files) + 1)
      BY <3>3, <3>4, <3>5 DEF BigGroup
    <3> QED
      BY <1>2, <3>4, <3>6
  <2>4. CASE f \notin NonEmpty
    <3>1. f \in none /\ g \in none /\ none # {}
      BY <1>1, <2>2, <2>4
    <3>2. \E i \in DOMAIN ds : ds[i] = none
      BY <1>2, <3>1
    <3> QED
      BY <3>1, <3>2
  <2> QED
    BY <2>3, <2>4
<1>5. ASSUME NEW f \in DOMAIN files, NEW g \in DOMAIN files, f # g,
             files[f].readable, files[g].readable, SameHashes(files[f], files[g])
      PROVE  \E i \in DOMAIN ds : {f, g} \subseteq ds[i]
  <2>1. f \in Nat /\ g \in Nat
    BY FileFields
  <2>2. SameHashes(files[g], files[f])
    BY <1>5 DEF SameHashes
  <2>3. CASE f < g
    BY <1>4, <1>5, <2>3
  <2>4. CASE g < f
    <3>1. \E i \in DOMAIN ds : {g, f} \subseteq ds[i]
      BY <1>4, <1>5, <2>2, <2>4
    <3> QED
      BY <3>1
  <2> QED
    BY <1>5, <2>1, <2>3, <2>4
<1>6. ASSUME NEW i \in DOMAIN ds
      PROVE  /\ \A f, g \in ds[i] : Len(files[f].bytes) = Len(files[g].bytes)
             /\ (\A f \in ds[i] : files[f].readable) => \A f, g \in ds[i] : SameHashes(files[f], files[g])
             /\ \A f \in ds[i] \cap NonEmpty : \E g \in ds[i] : g # f
  <2>1. PICK S : S = ds[i]
    OBVIOUS
  <2>2. CASE S = none
    BY <1>1, <2>1, <2>2, EmptyAreSame
  <2>3. ASSUME NEW h, BigGroup(S, h, Len(files) + 1)
        PROVE  /\ \A f, g \in S : Len(files[f].bytes) = Len(files[g].bytes)
               /\ (\A f \in S : files[f].readable) => \A f, g \in S : SameHashes(files[f], files[g])
               /\ \A f \in S \cap NonEmpty : \E g \in S : g # f
    <3>1. h \in S /\ \A f \in S : LooksSame(files[f], files[h]) /\ \E g \in S : g # f
      BY <2>3, GroupIs
    <3>2. \A f \in S : Len(files[f].bytes) = Len(files[h].bytes)
      BY <3>1 DEF LooksSame
    <3>3. ASSUME \A f \in S : files[f].readable, NEW f \in S, NEW g \in S
          PROVE  SameHashes(files[f], files[g])
      BY <3>1, <3>2, <3>3 DEF LooksSame, SameHashes
    <3> QED
      BY <3>1, <3>2, <3>3
  <2> QED
    BY <1>2, <2>1, <2>2, <2>3
<1>7. ASSUME NEW i \in DOMAIN ds, NEW j \in DOMAIN ds, NEW f, f \in ds[i], f \in ds[j]
      PROVE  ds[i] = ds[j]
  <2>1. PICK S, T : S = ds[i] /\ T = ds[j]
    OBVIOUS
  <2>2. S = none \/ \E h : BigGroup(S, h, Len(files) + 1)
    BY <1>2, <2>1
  <2>3. T = none \/ \E h : BigGroup(T, h, Len(files) + 1)
    BY <1>2, <2>1
  <2>4. ASSUME NEW V, NEW h, BigGroup(V, h, Len(files) + 1), f \in V
        PROVE  f \notin none /\ Leaders[f] = h /\ V = GroupAt(h, Len(files) + 1)
    BY <1>1, <2>4, GroupIs DEF BigGroup
  <2> QED
    BY <1>7, <2>1, <2>2, <2>3, <2>4
<1> QED
  BY <1>3, <1>5, <1>6, <1>7 DEF Serves

\* No two identical files that can be read are missed, no group of such files has
\* files that differ, whatever the caches held and wherever the streams were
\* (file_hasher.cpp:47-67, 77-99; file_cmp.cpp:14-64).
THEOREM DuplicatesSound == CompareSpec => []DuplicatesByTheBook
<1>1. CompareInv => DuplicatesByTheBook
  <2> SUFFICES ASSUME CompareInv, cmpAt = Len(files) + 2 PROVE Serves(duplicates)
    BY Zenon DEF DuplicatesByTheBook, Serves
  <2>1. CASE Len(files) < 2
    <3>1. \A f, g \in DOMAIN files : f = g
      BY <2>1 DEF CompareInv, FilesOk
    <3>2. duplicates = <<>>
      BY <2>1 DEF CompareInv
    <3> QED
      BY <3>1, <3>2 DEF Serves
  <2>2. CASE ~ (Len(files) < 2)
    BY <2>2, BookServes DEF CompareInv
  <2> QED
    BY <2>1, <2>2
<1> QED
  BY <1>1, CompareInvariant, PTL
=============================================================================
