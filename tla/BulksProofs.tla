------------------------------ MODULE BulksProofs ------------------------------
(***************************************************************************)
(* The BulkCmdManager makes the bulks the READMEs tell of: what the state  *)
(* machine of BulkManager.tla has sent after a line is what Bulks.tla      *)
(* says of the input up to there, and at the end of the input, for every   *)
(* input and every size of a bulk.                                         *)
(*                                                                         *)
(* Depth is a recursive function and InOrder counts, so both need          *)
(* induction: it is the least element of a set of numbers.                 *)
(***************************************************************************)
EXTENDS BulkManager, Bulks, SequenceTheorems, FiniteSetTheorems, TLAPS

-----------------------------------------------------------------------------
\* Every set of numbers that is not empty has a least element.
LEMMA LeastNumber ==
  ASSUME NEW T \in SUBSET Nat, T # {}
  PROVE  \E x \in T : \A y \in T : ~ (y < x)
<1> DEFINE R == OpToRel(<, Nat)
<1>1. IsWellFoundedOn(R, Nat)
  BY NatLessThanWellFounded
<1>2. \A a, b \in Nat : a < b => <<a, b>> \in R
  BY DEF OpToRel
<1> HIDE DEF R
<1>3. PICK x \in T : \A y \in T : ~ (<<y, x>> \in R)
  BY <1>1, WFMin
<1>4. ASSUME NEW y \in T PROVE ~ (y < x)
  <2>1. y \in Nat /\ x \in Nat
    OBVIOUS
  <2> QED
    BY <1>2, <1>3, <2>1
<1> QED
  BY <1>4

\* Induction up to n; D holds the numbers for which the claim is true.
LEMMA Upwards ==
  ASSUME NEW n \in Nat, NEW D, 0 \in D,
         \A k \in Nat : k < n /\ k \in D => k + 1 \in D
  PROVE  \A k \in 0 .. n : k \in D
<1> DEFINE T == {k \in 0 .. n : k \notin D}
<1> SUFFICES ASSUME T # {} PROVE FALSE
  OBVIOUS
<1>1. PICK x \in T : \A y \in T : ~ (y < x)
  <2>1. T \in SUBSET Nat
    OBVIOUS
  <2> HIDE DEF T
  <2> QED
    BY <2>1, LeastNumber
<1>2. x \in Nat /\ x # 0 /\ x <= n /\ x \notin D
  OBVIOUS
<1>3. x - 1 \in 0 .. n /\ x - 1 < x /\ x - 1 < n
  BY <1>2
<1>4. x - 1 \in D
  BY <1>1, <1>3
<1>5. (x - 1) + 1 \in D
  BY <1>3, <1>4
<1> QED
  BY <1>2, <1>5

-----------------------------------------------------------------------------
\* What a line does to the number of open {.
DepthStep(before, text) ==
  CASE text = "{" -> before + 1
    [] text = "}" /\ before > 0 -> before - 1
    [] OTHER -> before

IsDepth(s, d) ==
  d = [i \in 0 .. Len(s) |-> IF i = 0 THEN 0 ELSE DepthStep(d[i - 1], s[i])]

LEMMA StepType ==
  ASSUME NEW b \in Nat, NEW x PROVE DepthStep(b, x) \in Nat
<1>1. b + 1 \in Nat /\ (b > 0 => b - 1 \in Nat)
  OBVIOUS
<1> QED
  BY <1>1, Zenon DEF DepthStep

LEMMA DepthExists ==
  ASSUME NEW s, Len(s) \in Nat
  PROVE  \E d : IsDepth(s, d)
<1> DEFINE n == Len(s)
           Good(d, k) == d = [i \in 0 .. k |-> IF i = 0 THEN 0 ELSE DepthStep(d[i - 1], s[i])]
           D == {k \in 0 .. n : \E d : Good(d, k)}
<1>1. 0 \in D
  <2>1. \E d : Good(d, 0)
    <3>1. Good([i \in 0 .. 0 |-> 0], 0)
      OBVIOUS
    <3> QED
      BY <3>1, Zenon
  <2> QED
    BY <2>1
<1>2. ASSUME NEW k \in Nat, k < n, k \in D
      PROVE  k + 1 \in D
  <2>1. PICK d : Good(d, k)
    BY <1>2
  <2> DEFINE e == [i \in 0 .. k + 1 |-> IF i = k + 1 THEN DepthStep(d[k], s[k + 1]) ELSE d[i]]
  <2>2. ASSUME NEW i \in 0 .. k + 1
        PROVE  e[i] = IF i = 0 THEN 0 ELSE DepthStep(e[i - 1], s[i])
    <3>1. CASE i = k + 1
      <4>1. i # 0 /\ i - 1 = k /\ k \in 0 .. k + 1 /\ k # k + 1
        BY <3>1
      <4>2. e[k] = d[k]
        BY <4>1
      <4> QED
        BY <3>1, <4>1, <4>2
    <3>2. CASE i # k + 1
      <4>1. i \in 0 .. k /\ e[i] = d[i]
        BY <3>2
      <4>2. d[i] = IF i = 0 THEN 0 ELSE DepthStep(d[i - 1], s[i])
        BY <2>1, <4>1
      <4>3. i # 0 => i - 1 \in 0 .. k + 1 /\ i - 1 # k + 1
        BY <4>1
      <4>4. i # 0 => e[i - 1] = d[i - 1]
        BY <4>3
      <4> QED
        BY <4>1, <4>2, <4>4
    <3> QED
      BY <3>1, <3>2
  <2>3. e = [i \in 0 .. k + 1 |-> e[i]]
    OBVIOUS
  <2>4. Good(e, k + 1)
    <3> HIDE DEF e
    <3> QED
      BY <2>2, <2>3
  <2>5. \E h : Good(h, k + 1)
    BY <2>4, Zenon
  <2> HIDE DEF Good
  <2> QED
    BY <1>2, <2>5
<1> HIDE DEF D
<1>3. \A k \in 0 .. n : k \in D
  BY <1>1, <1>2, Upwards
<1> QED
  BY <1>3 DEF D, IsDepth

\* The recursive function is what its equation says.
LEMMA DepthIs ==
  ASSUME NEW s, Len(s) \in Nat
  PROVE  IsDepth(s, Depth(s))
BY DepthExists, Zenon DEF Depth, IsDepth, DepthStep

LEMMA DepthParts ==
  ASSUME NEW s, Len(s) \in Nat
  PROVE  /\ DOMAIN Depth(s) = 0 .. Len(s)
         /\ Depth(s)[0] = 0
         /\ \A i \in 1 .. Len(s) : Depth(s)[i] = DepthStep(Depth(s)[i - 1], s[i])
         /\ \A i \in 0 .. Len(s) : Depth(s)[i] \in Nat
<1> DEFINE d == Depth(s)
           n == Len(s)
<1>1. IsDepth(s, d)
  BY DepthIs
<1> HIDE DEF d
<1>2. /\ DOMAIN d = 0 .. n /\ d[0] = 0
      /\ \A i \in 1 .. n : d[i] = DepthStep(d[i - 1], s[i])
  BY <1>1 DEF IsDepth
<1> DEFINE D == {i \in 0 .. n : d[i] \in Nat}
<1>3. \A k \in Nat : k < n /\ k \in D => k + 1 \in D
  <2> SUFFICES ASSUME NEW k \in Nat, k < n, k \in D PROVE k + 1 \in D
    OBVIOUS
  <2>1. k + 1 \in 1 .. n /\ (k + 1) - 1 = k
    OBVIOUS
  <2>2. d[k + 1] = DepthStep(d[k], s[k + 1])
    BY <1>2, <2>1
  <2> QED
    BY <2>1, <2>2, StepType
<1>4. 0 \in D
  BY <1>2
<1> HIDE DEF D
<1>5. \A k \in 0 .. n : k \in D
  BY <1>3, <1>4, Upwards
<1> QED
  BY <1>2, <1>5 DEF D, d

-----------------------------------------------------------------------------
\* The input grows by a line: the depth before it stays.
LEMMA DepthGrows ==
  ASSUME NEW s \in Seq(Text), NEW x \in Text
  PROVE  /\ \A i \in 0 .. Len(s) : Depth(Append(s, x))[i] = Depth(s)[i]
         /\ Depth(Append(s, x))[Len(s) + 1] = DepthStep(Depth(s)[Len(s)], x)
<1> DEFINE n == Len(s)
           t == Append(s, x)
           d == Depth(s)
           e == Depth(t)
<1>1. n \in Nat /\ Len(t) = n + 1 /\ t[n + 1] = x /\ \A i \in 1 .. n : t[i] = s[i]
  BY LenProperties, AppendProperties
<1>2. d[0] = 0 /\ \A i \in 1 .. n : d[i] = DepthStep(d[i - 1], s[i])
  BY <1>1, DepthParts
<1>3. e[0] = 0 /\ \A i \in 1 .. n + 1 : e[i] = DepthStep(e[i - 1], t[i])
  <2> HIDE DEF t, n
  <2>1. Len(t) \in Nat
    BY <1>1
  <2> QED
    BY <1>1, <2>1, DepthParts
<1> DEFINE D == {i \in 0 .. n : e[i] = d[i]}
<1> HIDE DEF t, d, e, n
<1>4. 0 \in D
  BY <1>1, <1>2, <1>3
<1>5. ASSUME NEW k \in Nat, k < n, k \in D
      PROVE  k + 1 \in D
  <2>1. k + 1 \in 1 .. n /\ k + 1 \in 1 .. n + 1 /\ (k + 1) - 1 = k
    BY <1>1, <1>5
  <2>2. e[k + 1] = DepthStep(e[k], t[k + 1]) /\ d[k + 1] = DepthStep(d[k], s[k + 1])
    BY <1>2, <1>3, <2>1
  <2>3. t[k + 1] = s[k + 1] /\ e[k] = d[k]
    BY <1>1, <1>5, <2>1
  <2> QED
    BY <2>1, <2>2, <2>3
<1> HIDE DEF D
<1>6. \A k \in 0 .. n : k \in D
  BY <1>1, <1>4, <1>5, Upwards
<1>7. e[n] = d[n]
  BY <1>1, <1>6 DEF D
<1>8. n + 1 \in 1 .. n + 1 /\ (n + 1) - 1 = n
  BY <1>1
<1>9. e[n + 1] = DepthStep(d[n], x)
  BY <1>1, <1>3, <1>7, <1>8
<1> QED
  BY <1>6, <1>9 DEF D, t, d, e, n

-----------------------------------------------------------------------------
(***************************************************************************)
(* A sequence in which nothing comes twice is InOrder of its elements, if  *)
(* lt is the order of its indices.                                         *)
(***************************************************************************)
LEMMA FirstOnes ==
  ASSUME NEW A, NEW q \in Seq(A), IsInjective(q), NEW k \in 0 .. Len(q)
  PROVE  Cardinality({q[i] : i \in 1 .. k}) = k
<1> DEFINE S == 1 .. k
           T == {q[i] : i \in 1 .. k}
           f == [i \in S |-> q[i]]
<1>1. k \in Nat /\ Len(q) \in Nat /\ DOMAIN q = 1 .. Len(q)
  BY LenProperties
<1>2. IsFiniteSet(S) /\ Cardinality(S) = IF 1 > k THEN 0 ELSE k - 1 + 1
  BY <1>1, FS_Interval
<1>3. S \subseteq DOMAIN q
  BY <1>1
<1>4. f \in Bijection(S, T)
  BY <1>3 DEF Bijection, Injection, Surjection, IsInjective
<1> HIDE DEF S, T, f
<1>5. Cardinality(T) = Cardinality(S)
  BY <1>2, <1>4, FS_Bijection DEF ExistsBijection
<1>6. Cardinality(T) = k
  BY <1>1, <1>2, <1>5
<1> QED
  BY <1>6 DEF T

LEMMA PlaceIsUnique ==
  ASSUME NEW A, NEW q \in Seq(A), IsInjective(q),
         NEW c, \A i \in 1 .. Len(q) : c[q[i]] = i - 1
  PROVE  /\ Cardinality(Range(q)) = Len(q)
         /\ \A k \in 1 .. Len(q) : q[k] \in Range(q) /\ c[q[k]] = k - 1
         /\ \A k \in 1 .. Len(q) : \A x \in Range(q) : c[x] = k - 1 => x = q[k]
<1> DEFINE n == Len(q)
<1>1. n \in Nat /\ n \in 0 .. n /\ DOMAIN q = 1 .. n
  BY LenProperties
<1>2. Range(q) = {q[i] : i \in 1 .. n}
  BY <1>1 DEF Range
<1>3. Cardinality(Range(q)) = n
  BY <1>1, <1>2, FirstOnes
<1>4. ASSUME NEW k \in 1 .. n, NEW x \in Range(q), c[x] = k - 1
      PROVE  x = q[k]
  <2>1. PICK i \in 1 .. n : x = q[i]
    BY <1>2
  <2>2. i - 1 = k - 1
    BY <1>4, <2>1
  <2>3. i = k
    BY <1>1, <2>2
  <2> QED
    BY <2>1, <2>3
<1> QED
  BY <1>2, <1>3, <1>4

CountBelow(q, v, x) == Cardinality({y \in Range(q) : v[y] < v[x]})

LEMMA PlaceByValue ==
  ASSUME NEW A, NEW q \in Seq(A), NEW v \in [A -> Nat],
         \A i, j \in DOMAIN q : i < j => v[q[i]] < v[q[j]]
  PROVE  /\ Cardinality(Range(q)) = Len(q)
         /\ \A k \in 1 .. Len(q) : q[k] \in Range(q) /\ CountBelow(q, v, q[k]) = k - 1
         /\ \A k \in 1 .. Len(q) : \A x \in Range(q) :
              CountBelow(q, v, x) = k - 1 => x = q[k]
<1> DEFINE n == Len(q)
           c == [x \in Range(q) |-> CountBelow(q, v, x)]
<1>1. n \in Nat /\ DOMAIN q = 1 .. n /\ \A i \in 1 .. n : q[i] \in A /\ v[q[i]] \in Nat
  BY LenProperties, ElementOfSeq
<1>2. Range(q) = {q[i] : i \in 1 .. n}
  BY <1>1 DEF Range
<1>3. \A i, j \in 1 .. n : v[q[i]] < v[q[j]] <=> i < j
  <2> SUFFICES ASSUME NEW i \in 1 .. n, NEW j \in 1 .. n
               PROVE  v[q[i]] < v[q[j]] <=> i < j
    OBVIOUS
  <2>1. i < j \/ i = j \/ j < i
    BY <1>1
  <2>2. i < j => v[q[i]] < v[q[j]]
    BY <1>1
  <2>3. j < i => v[q[j]] < v[q[i]]
    BY <1>1
  <2>4. v[q[i]] \in Nat /\ v[q[j]] \in Nat /\ i \in Nat /\ j \in Nat
    BY <1>1
  <2> QED
    BY <2>1, <2>2, <2>3, <2>4
<1>4. IsInjective(q)
  <2> SUFFICES ASSUME NEW i \in 1 .. n, NEW j \in 1 .. n, q[i] = q[j]
               PROVE  i = j
    BY <1>1 DEF IsInjective
  <2>1. ~ (v[q[i]] < v[q[j]]) /\ ~ (v[q[j]] < v[q[i]])
    BY <1>1
  <2>2. ~ (i < j) /\ ~ (j < i)
    BY <1>3, <2>1
  <2> QED
    BY <1>1, <2>2
<1>5. ASSUME NEW i \in 1 .. n
      PROVE  c[q[i]] = i - 1
  <2>1. i - 1 \in 0 .. n /\ \A j \in 1 .. n : j \in 1 .. i - 1 <=> j < i
    BY <1>1
  <2>2. {y \in Range(q) : v[y] < v[q[i]]} = {q[j] : j \in 1 .. i - 1}
    <3>1. \A j \in 1 .. i - 1 : j \in 1 .. n /\ v[q[j]] < v[q[i]]
      BY <1>1, <1>3, <2>1
    <3>2. \A j \in 1 .. n : v[q[j]] < v[q[i]] => j \in 1 .. i - 1
      BY <1>3, <2>1
    <3> QED
      BY <1>2, <3>1, <3>2
  <2>3. Cardinality({q[j] : j \in 1 .. i - 1}) = i - 1
    BY <1>4, <2>1, FirstOnes
  <2>4. q[i] \in Range(q)
    BY <1>2
  <2> QED
    BY <2>2, <2>3, <2>4 DEF CountBelow
<1>6. \A x \in Range(q) : c[x] = CountBelow(q, v, x)
  OBVIOUS
<1> HIDE DEF c
<1>7. /\ Cardinality(Range(q)) = n
      /\ \A k \in 1 .. n : q[k] \in Range(q) /\ c[q[k]] = k - 1
      /\ \A k \in 1 .. n : \A x \in Range(q) : c[x] = k - 1 => x = q[k]
  BY <1>4, <1>5, PlaceIsUnique
<1> QED
  BY <1>6, <1>7

Increasing(q) == \A i, j \in DOMAIN q : i < j => q[i] < q[j]

\* Numbers.
LEMMA InOrderOfNumbers ==
  ASSUME NEW q \in Seq(Nat), Increasing(q)
  PROVE  InOrder(Range(q), <) = q
<1> DEFINE n == Len(q)
           v == [x \in Nat |-> x]
           c(x) == Cardinality({y \in Range(q) : y < x})
           P(k, x) == x \in Range(q) /\ c(x) = k - 1
<1>1. n \in Nat /\ DOMAIN q = 1 .. n /\ Range(q) \subseteq Nat
      /\ \A i \in 1 .. n : q[i] \in Nat
  BY LenProperties, ElementOfSeq DEF Range
<1>2. v \in [Nat -> Nat] /\ \A x \in Nat : v[x] = x
  OBVIOUS
<1>3. \A x \in Range(q) : CountBelow(q, v, x) = c(x)
  <2> SUFFICES ASSUME NEW x \in Range(q)
               PROVE  {y \in Range(q) : v[y] < v[x]} = {y \in Range(q) : y < x}
    BY DEF CountBelow
  <2> QED
    BY <1>1, <1>2
<1>4. /\ Cardinality(Range(q)) = n
      /\ \A k \in 1 .. n : q[k] \in Range(q) /\ c(q[k]) = k - 1
      /\ \A k \in 1 .. n : \A x \in Range(q) : c(x) = k - 1 => x = q[k]
  <2> HIDE DEF v
  <2>1. \A i, j \in DOMAIN q : i < j => v[q[i]] < v[q[j]]
    BY <1>1, <1>2 DEF Increasing
  <2>2. /\ Cardinality(Range(q)) = Len(q)
        /\ \A k \in 1 .. Len(q) : q[k] \in Range(q) /\ CountBelow(q, v, q[k]) = k - 1
        /\ \A k \in 1 .. Len(q) : \A x \in Range(q) : CountBelow(q, v, x) = k - 1 => x = q[k]
    BY ONLY q \in Seq(Nat), <1>2, <2>1, PlaceByValue
  <2> HIDE DEF c
  <2> QED
    BY <1>3, <2>2
<1>5. ASSUME NEW k \in 1 .. n
      PROVE  (CHOOSE x : P(k, x)) = q[k]
  <2>1. P(k, q[k]) /\ \A x : P(k, x) => x = q[k]
    BY <1>4
  <2> HIDE DEF P
  <2>2. P(k, CHOOSE x : P(k, x))
    BY <2>1, Zenon
  <2> QED
    BY <2>1, <2>2
<1>6. InOrder(Range(q), <) = [k \in 1 .. n |-> CHOOSE x : P(k, x)]
  BY <1>4 DEF InOrder
<1>7. q = [k \in 1 .. n |-> q[k]]
  BY <1>1, SeqDef
<1> QED
  BY <1>5, <1>6, <1>7

\* Bulks.
LEMMA InOrderOfBulks ==
  ASSUME NEW q \in Seq(Seq(Nat) \ {<<>>}),
         \A i, j \in DOMAIN q : i < j => Head(q[i]) < Head(q[j])
  PROVE  InOrder(Range(q), LAMBDA a, b : Head(a) < Head(b)) = q
<1> DEFINE A == Seq(Nat) \ {<<>>}
           n == Len(q)
           v == [x \in A |-> Head(x)]
           c(x) == Cardinality({y \in Range(q) : Head(y) < Head(x)})
           P(k, x) == x \in Range(q) /\ c(x) = k - 1
<1>1. n \in Nat /\ DOMAIN q = 1 .. n /\ Range(q) \subseteq A
      /\ \A i \in 1 .. n : q[i] \in A
  BY LenProperties, ElementOfSeq DEF Range
<1>2. v \in [A -> Nat] /\ \A x \in A : v[x] = Head(x)
  BY HeadTailProperties
<1>3. \A x \in Range(q) : CountBelow(q, v, x) = c(x)
  <2> SUFFICES ASSUME NEW x \in Range(q)
               PROVE  {y \in Range(q) : v[y] < v[x]} = {y \in Range(q) : Head(y) < Head(x)}
    BY DEF CountBelow
  <2> HIDE DEF v, A
  <2> QED
    BY <1>1, <1>2
<1>4. /\ Cardinality(Range(q)) = n
      /\ \A k \in 1 .. n : q[k] \in Range(q) /\ c(q[k]) = k - 1
      /\ \A k \in 1 .. n : \A x \in Range(q) : c(x) = k - 1 => x = q[k]
  <2> HIDE DEF v
  <2>1. \A i, j \in DOMAIN q : i < j => v[q[i]] < v[q[j]]
    BY <1>1, <1>2
  <2>2. q \in Seq(A)
    OBVIOUS
  <2> HIDE DEF A
  <2>3. /\ Cardinality(Range(q)) = n
        /\ \A k \in 1 .. n : q[k] \in Range(q) /\ CountBelow(q, v, q[k]) = k - 1
        /\ \A k \in 1 .. n : \A x \in Range(q) : CountBelow(q, v, x) = k - 1 => x = q[k]
    BY <1>2, <2>1, <2>2, PlaceByValue
  <2> HIDE DEF c
  <2> QED
    BY <1>3, <2>3
<1>5. ASSUME NEW k \in 1 .. n
      PROVE  (CHOOSE x : P(k, x)) = q[k]
  <2>1. P(k, q[k]) /\ \A x : P(k, x) => x = q[k]
    BY <1>4
  <2> HIDE DEF P
  <2>2. P(k, CHOOSE x : P(k, x))
    BY <2>1, Zenon
  <2> QED
    BY <2>1, <2>2
<1>6. InOrder(Range(q), LAMBDA a, b : Head(a) < Head(b)) = [k \in 1 .. n |-> CHOOSE x : P(k, x)]
  BY <1>4 DEF InOrder
<1>7. q = [k \in 1 .. n |-> q[k]]
  BY <1>1, SeqDef
<1> QED
  BY <1>5, <1>6, <1>7

-----------------------------------------------------------------------------
\* The parts of BulksOf.  A command is the number of its line.

Base(s) == {i \in 1 .. Len(s) : s[i] = "base"}

BlockOf(s) == Block(s, Depth(s))

\* The commands outside of all blocks after block b.
Outside(s, b) == {j \in Base(s) : Depth(s)[j] = 0 /\ BlockOf(s)[j] = b}

Rank(s, i) ==
  Cardinality({j \in Base(s) : j < i /\ Depth(s)[j] = 0 /\ BlockOf(s)[j] = BlockOf(s)[i]})

KeyOf(s, size) ==
  [i \in Base(s) |-> [block |-> BlockOf(s)[i],
                      part |-> IF Depth(s)[i] > 0 THEN 0 ELSE 1 + Rank(s, i) \div size]]

Keys(s, size) == Range(KeyOf(s, size))

Group(s, size, k) == {i \in Base(s) : KeyOf(s, size)[i] = k}

IsFinished(s, size, ended, k) ==
  \/ BlockOf(s)[Len(s)] > k.block
  \/ k.part = 0 /\ Depth(s)[Len(s)] = 0
  \/ k.part > 0 /\ (Depth(s)[Len(s)] > 0 \/ ended \/ Cardinality(Group(s, size, k)) = size)

LEMMA BulksAre ==
  ASSUME NEW s, NEW size, NEW ended
  PROVE  BulksOf(s, size, ended) =
           InOrder({InOrder(Group(s, size, k), <) :
                      k \in {l \in Keys(s, size) : IsFinished(s, size, ended, l)}},
                   LAMBDA a, b : Head(a) < Head(b))
BY DEF BulksOf, Group, Keys, KeyOf, Rank, Base, BlockOf, IsFinished

LEMMA DivisionIs ==
  ASSUME NEW size \in Nat \ {0}, NEW q \in Nat, NEW r \in 0 .. size - 1
  PROVE  (size * q + r) \div size = q
OBVIOUS

-----------------------------------------------------------------------------
\* sent is the list, in order, of the bulks whose sets of commands are in F.
Covers(sent, F) ==
  /\ sent \in Seq(Seq(Nat) \ {<<>>})
  /\ \A j \in DOMAIN sent : Increasing(sent[j])
  /\ \A i, j \in DOMAIN sent : i < j => \A e \in Range(sent[i]), f \in Range(sent[j]) : e < f
  /\ {Range(sent[j]) : j \in DOMAIN sent} = F

\* All commands of T come after those that were sent.
After(sent, T) == \A j \in DOMAIN sent : \A e \in Range(sent[j]), f \in T : e < f

LEMMA CoversMore ==
  ASSUME NEW sent, NEW F, Covers(sent, F),
         NEW cur \in Seq(Nat), cur # <<>>, Increasing(cur), After(sent, Range(cur))
  PROVE  Covers(Append(sent, cur), F \cup {Range(cur)})
<1> DEFINE A == Seq(Nat) \ {<<>>}
           n == Len(sent)
           more == Append(sent, cur)
<1>1. /\ sent \in Seq(A) /\ cur \in A /\ n \in Nat /\ DOMAIN sent = 1 .. n
      /\ more \in Seq(A) /\ DOMAIN more = 1 .. n + 1
      /\ more[n + 1] = cur /\ \A i \in 1 .. n : more[i] = sent[i]
  <2>1. sent \in Seq(A) /\ cur \in A
    BY DEF Covers
  <2> HIDE DEF A
  <2>2. n \in Nat /\ DOMAIN sent = 1 .. n
    BY <2>1, LenProperties
  <2>3. /\ more \in Seq(A) /\ Len(more) = n + 1
        /\ more[n + 1] = cur /\ \A i \in 1 .. n : more[i] = sent[i]
    BY <2>1, AppendProperties
  <2>4. DOMAIN more = 1 .. n + 1
    BY <2>3, LenProperties
  <2> HIDE DEF n, more
  <2> QED
    BY <2>1, <2>2, <2>3, <2>4
<1>2. \A i \in 1 .. n + 1 : i \in 1 .. n \/ i = n + 1
  BY <1>1, SMTT(30)
<1> HIDE DEF more
<1>3. \A j \in 1 .. n + 1 : Increasing(more[j])
  BY <1>1, <1>2 DEF Covers
<1>4. ASSUME NEW i \in 1 .. n + 1, NEW j \in 1 .. n + 1, i < j
      PROVE  \A e \in Range(more[i]), f \in Range(more[j]) : e < f
  <2>1. i \in 1 .. n
    BY <1>1, <1>4
  <2>2. CASE j \in 1 .. n
    BY <1>1, <1>4, <2>1, <2>2 DEF Covers
  <2>3. CASE j = n + 1
    BY <1>1, <2>1, <2>3 DEF After
  <2> QED
    BY <1>2, <2>2, <2>3
<1>5. {Range(more[j]) : j \in 1 .. n + 1} = F \cup {Range(cur)}
  <2>1. F = {Range(sent[j]) : j \in 1 .. n}
    BY <1>1 DEF Covers
  <2>2. \A j \in 1 .. n : j \in 1 .. n + 1
    BY <1>1
  <2>3. n + 1 \in 1 .. n + 1
    BY <1>1
  <2> QED
    BY <1>1, <1>2, <2>1, <2>2, <2>3
<1>6. more \in Seq(A)
  BY <1>1
<1> QED
  BY <1>1, <1>3, <1>4, <1>5, <1>6 DEF Covers, more

\* Such a list is what BulksOf puts in order.
LEMMA CoversInOrder ==
  ASSUME NEW sent, NEW F, Covers(sent, F)
  PROVE  sent = InOrder({InOrder(g, <) : g \in F}, LAMBDA a, b : Head(a) < Head(b))
<1> DEFINE n == Len(sent)
<1>1. sent \in Seq(Seq(Nat) \ {<<>>}) /\ n \in Nat /\ DOMAIN sent = 1 .. n
  BY LenProperties DEF Covers
<1>2. \A j \in 1 .. n : sent[j] \in Seq(Nat) /\ sent[j] # <<>>
  BY <1>1, ElementOfSeq
<1>3. \A j \in 1 .. n : InOrder(Range(sent[j]), <) = sent[j]
  BY <1>1, <1>2, InOrderOfNumbers DEF Covers
<1>4. {InOrder(g, <) : g \in F} = Range(sent)
  <2>1. F = {Range(sent[j]) : j \in 1 .. n}
    BY <1>1 DEF Covers
  <2>2. Range(sent) = {sent[j] : j \in 1 .. n}
    BY <1>1 DEF Range
  <2> QED
    BY <1>3, <2>1, <2>2
<1>5. ASSUME NEW i \in DOMAIN sent, NEW j \in DOMAIN sent, i < j
      PROVE  Head(sent[i]) < Head(sent[j])
  <2>1. ASSUME NEW b \in Seq(Nat), b # <<>>
        PROVE  Head(b) \in Range(b)
    <3>1. Len(b) \in Nat /\ Len(b) > 0 /\ Head(b) = b[1] /\ DOMAIN b = 1 .. Len(b)
      BY <2>1, EmptySeq, LenProperties, HeadTailProperties
    <3>2. 1 \in DOMAIN b
      BY <3>1
    <3> QED
      BY <3>1, <3>2 DEF Range
  <2>2. Head(sent[i]) \in Range(sent[i]) /\ Head(sent[j]) \in Range(sent[j])
    BY <1>1, <1>2, <2>1
  <2> QED
    BY <1>5, <2>2 DEF Covers
<1>6. InOrder(Range(sent), LAMBDA a, b : Head(a) < Head(b)) = sent
  BY <1>1, <1>5, InOrderOfBulks
<1> QED
  BY <1>4, <1>6

-----------------------------------------------------------------------------
\* A line more: what was there keeps its block, its place and its bulk.

Opens(s, i) == s[i] = "{" /\ Depth(s)[i - 1] = 0

LEMMA BlockParts ==
  ASSUME NEW s, Len(s) \in Nat
  PROVE  \A m \in 0 .. Len(s) :
           /\ BlockOf(s)[m] = Cardinality({i \in 1 .. m : Opens(s, i)})
           /\ BlockOf(s)[m] \in Nat
           /\ IsFiniteSet({i \in 1 .. m : Opens(s, i)})
<1> SUFFICES ASSUME NEW m \in 0 .. Len(s)
             PROVE  /\ BlockOf(s)[m] = Cardinality({i \in 1 .. m : Opens(s, i)})
                    /\ BlockOf(s)[m] \in Nat
                    /\ IsFiniteSet({i \in 1 .. m : Opens(s, i)})
  OBVIOUS
<1>1. BlockOf(s)[m] = Cardinality({i \in 1 .. m : Opens(s, i)})
  BY DEF BlockOf, Block, Opens
<1>2. IsFiniteSet(1 .. m)
  BY FS_Interval
<1>3. IsFiniteSet({i \in 1 .. m : Opens(s, i)})
  BY <1>2, FS_Subset
<1> QED
  BY <1>1, <1>3, FS_CardinalityType

LEMMA BlockGrows ==
  ASSUME NEW s \in Seq(Text), NEW x \in Text
  PROVE  LET n == Len(s)
             t == Append(s, x)
         IN  /\ \A i \in 0 .. n : BlockOf(t)[i] = BlockOf(s)[i]
             /\ BlockOf(t)[n + 1] = IF x = "{" /\ Depth(s)[n] = 0
                                      THEN BlockOf(s)[n] + 1 ELSE BlockOf(s)[n]
<1> DEFINE n == Len(s)
           t == Append(s, x)
           O(u, m) == {i \in 1 .. m : Opens(u, i)}
<1>1. n \in Nat /\ Len(t) = n + 1 /\ t[n + 1] = x /\ \A i \in 1 .. n : t[i] = s[i]
  BY LenProperties, AppendProperties
<1>2. \A i \in 0 .. n : Depth(t)[i] = Depth(s)[i]
  BY DepthGrows
<1> HIDE DEF t, n
<1>3. \A i \in 1 .. n : Opens(t, i) <=> Opens(s, i)
  <2>1. \A i \in 1 .. n : i - 1 \in 0 .. n
    BY <1>1
  <2> QED
    BY <1>1, <1>2, <2>1 DEF Opens
<1>4. ASSUME NEW m \in 0 .. n
      PROVE  O(t, m) = O(s, m)
  <2>1. \A i \in 1 .. m : i \in 1 .. n
    BY <1>1
  <2> QED
    BY <1>3, <2>1
<1>5. /\ \A m \in 0 .. n : BlockOf(s)[m] = Cardinality(O(s, m)) /\ IsFiniteSet(O(s, m))
      /\ \A m \in 0 .. n + 1 : BlockOf(t)[m] = Cardinality(O(t, m))
  <2>1. Len(s) \in Nat /\ Len(t) \in Nat
    BY <1>1 DEF n
  <2> QED
    BY <1>1, <2>1, BlockParts DEF n
<1>6. \A m \in 0 .. n : BlockOf(t)[m] = BlockOf(s)[m]
  <2>1. \A m \in 0 .. n : m \in 0 .. n + 1
    BY <1>1
  <2> HIDE DEF O
  <2> QED
    BY <1>4, <1>5, <2>1
<1>7. Opens(t, n + 1) <=> x = "{" /\ Depth(s)[n] = 0
  <2>1. (n + 1) - 1 = n /\ n \in 0 .. n
    BY <1>1
  <2> QED
    BY <1>1, <1>2, <2>1 DEF Opens
<1>8. O(t, n + 1) = IF x = "{" /\ Depth(s)[n] = 0 THEN O(s, n) \cup {n + 1} ELSE O(s, n)
  <2>1. \A i \in 1 .. n + 1 : i \in 1 .. n \/ i = n + 1
    BY <1>1
  <2>2. n + 1 \in 1 .. n + 1 /\ \A i \in 1 .. n : i \in 1 .. n + 1
    BY <1>1
  <2>3. CASE x = "{" /\ Depth(s)[n] = 0
    BY <1>3, <1>7, <2>1, <2>2, <2>3
  <2>4. CASE ~ (x = "{" /\ Depth(s)[n] = 0)
    BY <1>3, <1>7, <2>1, <2>2, <2>4
  <2> QED
    BY <2>3, <2>4
<1>9. n + 1 \notin O(s, n)
  BY <1>1
<1>10. Cardinality(O(s, n) \cup {n + 1}) = Cardinality(O(s, n)) + 1
  <2>1. IsFiniteSet(O(s, n))
    <3>1. n \in 0 .. n
      BY <1>1
    <3> HIDE DEF O
    <3> QED
      BY <1>5, <3>1
  <2> HIDE DEF O
  <2> QED
    BY <1>9, <2>1, FS_AddElement
<1>11. BlockOf(t)[n + 1] = Cardinality(O(t, n + 1)) /\ BlockOf(s)[n] = Cardinality(O(s, n))
  <2>1. n + 1 \in 0 .. n + 1 /\ n \in 0 .. n
    BY <1>1
  <2> QED
    BY <1>5, <2>1
<1> HIDE DEF O
<1>12. BlockOf(t)[n + 1] = IF x = "{" /\ Depth(s)[n] = 0
                             THEN BlockOf(s)[n] + 1 ELSE BlockOf(s)[n]
  BY <1>8, <1>10, <1>11
<1> QED
  BY <1>6, <1>12 DEF t, n

LEMMA BaseGrows ==
  ASSUME NEW s \in Seq(Text), NEW x \in Text
  PROVE  /\ Base(Append(s, x)) = IF x = "base" THEN Base(s) \cup {Len(s) + 1} ELSE Base(s)
         /\ Len(s) + 1 \notin Base(s)
         /\ Base(s) \subseteq 1 .. Len(s)
         /\ IsFiniteSet(Base(s))
<1> DEFINE n == Len(s)
           t == Append(s, x)
<1>1. n \in Nat /\ Len(t) = n + 1 /\ t[n + 1] = x /\ \A i \in 1 .. n : t[i] = s[i]
  BY LenProperties, AppendProperties
<1>2. /\ \A i \in 1 .. n + 1 : i \in 1 .. n \/ i = n + 1
      /\ n + 1 \in 1 .. n + 1 /\ n + 1 \notin 1 .. n /\ \A i \in 1 .. n : i \in 1 .. n + 1
  BY <1>1
<1> HIDE DEF t
<1>3. Base(t) = {i \in 1 .. n + 1 : t[i] = "base"} /\ Base(s) = {i \in 1 .. n : s[i] = "base"}
  BY <1>1 DEF Base
<1> HIDE DEF n
<1>4. Base(t) = IF x = "base" THEN Base(s) \cup {n + 1} ELSE Base(s)
  <2>1. CASE x = "base"
    BY <1>1, <1>2, <1>3, <2>1
  <2>2. CASE x # "base"
    BY <1>1, <1>2, <1>3, <2>2
  <2> QED
    BY <2>1, <2>2
<1>5. IsFiniteSet(Base(s))
  <2>1. IsFiniteSet(1 .. n)
    BY <1>1, FS_Interval
  <2> QED
    BY <1>3, <2>1, FS_Subset
<1> QED
  BY <1>2, <1>3, <1>4, <1>5 DEF t, n

\* The block and the part of the next command.
NextKey(s, size) ==
  LET n == Len(s) IN
  [block |-> BlockOf(s)[n],
   part |-> IF Depth(s)[n] > 0 THEN 0
            ELSE 1 + Cardinality(Outside(s, BlockOf(s)[n])) \div size]

LEMMA KeyGrows ==
  ASSUME NEW s \in Seq(Text), NEW x \in Text, NEW size
  PROVE  LET t == Append(s, x) IN
         /\ DOMAIN KeyOf(s, size) = Base(s) /\ DOMAIN KeyOf(t, size) = Base(t)
         /\ \A i \in Base(s) : KeyOf(t, size)[i] = KeyOf(s, size)[i]
         /\ x = "base" => KeyOf(t, size)[Len(s) + 1] = NextKey(s, size)
<1> DEFINE n == Len(s)
           t == Append(s, x)
           B(u) == BlockOf(u)
           D(u) == Depth(u)
<1>1. n \in Nat
  BY LenProperties
<1>2. /\ \A i \in 0 .. n : D(t)[i] = D(s)[i] /\ B(t)[i] = B(s)[i]
      /\ D(t)[n + 1] = DepthStep(D(s)[n], x)
      /\ x # "{" => B(t)[n + 1] = B(s)[n]
  BY DepthGrows, BlockGrows
<1>3. /\ Base(s) \subseteq 1 .. n
      /\ x = "base" => n + 1 \in Base(t) /\ Base(t) = Base(s) \cup {n + 1}
      /\ \A i \in Base(t) : i \in Base(s) \/ i = n + 1
      /\ Base(s) \subseteq Base(t)
  BY BaseGrows
<1> HIDE DEF t, n, B, D
<1>4. \A i \in 1 .. n : i \in 0 .. n
  BY <1>1
<1>5. ASSUME NEW i \in Base(s)
      PROVE  KeyOf(t, size)[i] = KeyOf(s, size)[i]
  <2>1. i \in 1 .. n /\ i \in Base(t)
    BY <1>3
  <2>2. D(t)[i] = D(s)[i] /\ B(t)[i] = B(s)[i]
    BY <1>2, <1>4, <2>1
  <2>3. {j \in Base(t) : j < i /\ D(t)[j] = 0 /\ B(t)[j] = B(t)[i]}
          = {j \in Base(s) : j < i /\ D(s)[j] = 0 /\ B(s)[j] = B(s)[i]}
    <3>1. ASSUME NEW j \in Base(t), j < i
          PROVE  j \in Base(s)
      <4>1. j # n + 1
        BY <1>1, <2>1, <3>1
      <4> QED
        BY <1>3, <4>1
    <3>2. \A j \in Base(s) : j \in Base(t) /\ D(t)[j] = D(s)[j] /\ B(t)[j] = B(s)[j]
      BY <1>2, <1>3, <1>4
    <3> QED
      BY <2>2, <3>1, <3>2
  <2>4. Rank(t, i) = Rank(s, i)
    BY <2>3 DEF Rank, B, D
  <2>5. KeyOf(t, size)[i] = [block |-> B(t)[i], part |-> IF D(t)[i] > 0 THEN 0 ELSE 1 + Rank(t, i) \div size]
    BY <2>1 DEF KeyOf, B, D
  <2>6. KeyOf(s, size)[i] = [block |-> B(s)[i], part |-> IF D(s)[i] > 0 THEN 0 ELSE 1 + Rank(s, i) \div size]
    BY DEF KeyOf, B, D
  <2> QED
    BY <2>2, <2>4, <2>5, <2>6
<1>6. ASSUME x = "base"
      PROVE  KeyOf(t, size)[n + 1] = NextKey(s, size)
  <2>1. D(t)[n + 1] = D(s)[n] /\ B(t)[n + 1] = B(s)[n]
    BY <1>2, <1>6 DEF DepthStep
  <2>2. {j \in Base(t) : j < n + 1 /\ D(t)[j] = 0 /\ B(t)[j] = B(t)[n + 1]} = Outside(s, B(s)[n])
    <3>1. ASSUME NEW j \in Base(s)
          PROVE  j < n + 1 /\ D(t)[j] = D(s)[j] /\ B(t)[j] = B(s)[j]
      <4>1. j \in 1 .. n /\ j \in 0 .. n
        BY <1>3, <1>4
      <4>2. j < n + 1
        BY <1>1, <4>1
      <4>3. D(t)[j] = D(s)[j] /\ B(t)[j] = B(s)[j]
        BY <1>2, <4>1, Zenon
      <4> QED
        BY <4>2, <4>3
    <3>2. ~ (n + 1 < n + 1)
      BY <1>1
    <3>3. Outside(s, B(s)[n]) = {j \in Base(s) : D(s)[j] = 0 /\ B(s)[j] = B(s)[n]}
      BY DEF Outside, B, D
    <3> QED
      BY <1>3, <2>1, <3>1, <3>2, <3>3
  <2>3. Rank(t, n + 1) = Cardinality(Outside(s, B(s)[n]))
    BY <2>2 DEF Rank, B, D
  <2>4. KeyOf(t, size)[n + 1]
          = [block |-> B(t)[n + 1], part |-> IF D(t)[n + 1] > 0 THEN 0 ELSE 1 + Rank(t, n + 1) \div size]
    BY <1>3, <1>6 DEF KeyOf, B, D
  <2>5. NextKey(s, size) = [block |-> B(s)[n], part |-> IF D(s)[n] > 0 THEN 0
                              ELSE 1 + Cardinality(Outside(s, B(s)[n])) \div size]
    BY DEF NextKey, B, D, n
  <2> QED
    BY <2>1, <2>3, <2>4, <2>5
<1>7. DOMAIN KeyOf(s, size) = Base(s) /\ DOMAIN KeyOf(t, size) = Base(t)
  BY DEF KeyOf
<1> QED
  BY <1>5, <1>6, <1>7 DEF t, n

LEMMA OutsideGrows ==
  ASSUME NEW s \in Seq(Text), NEW x \in Text, NEW b
  PROVE  LET n == Len(s) IN
         /\ Outside(Append(s, x), b)
              = IF x = "base" /\ Depth(s)[n] = 0 /\ b = BlockOf(s)[n]
                  THEN Outside(s, b) \cup {n + 1} ELSE Outside(s, b)
         /\ n + 1 \notin Outside(s, b)
         /\ IsFiniteSet(Outside(s, b)) /\ Cardinality(Outside(s, b)) \in Nat
<1> DEFINE n == Len(s)
           t == Append(s, x)
           here == x = "base" /\ Depth(s)[n] = 0 /\ b = BlockOf(s)[n]
<1>1. n \in Nat
  BY LenProperties
<1>2. /\ \A i \in 0 .. n : Depth(t)[i] = Depth(s)[i] /\ BlockOf(t)[i] = BlockOf(s)[i]
      /\ Depth(t)[n + 1] = DepthStep(Depth(s)[n], x)
      /\ x # "{" => BlockOf(t)[n + 1] = BlockOf(s)[n]
  BY DepthGrows, BlockGrows
<1>3. /\ Base(s) \subseteq 1 .. n /\ IsFiniteSet(Base(s)) /\ n + 1 \notin Base(s)
      /\ Base(t) = IF x = "base" THEN Base(s) \cup {n + 1} ELSE Base(s)
  BY BaseGrows
<1> HIDE DEF t, n
<1>4. \A i \in 1 .. n : i \in 0 .. n
  BY <1>1
<1>5. \A j \in Base(s) : Depth(t)[j] = Depth(s)[j] /\ BlockOf(t)[j] = BlockOf(s)[j]
  BY <1>2, <1>3, <1>4
<1>6. x = "base" => Depth(t)[n + 1] = Depth(s)[n] /\ BlockOf(t)[n + 1] = BlockOf(s)[n]
  BY <1>2 DEF DepthStep
<1>7. Outside(t, b) = IF here THEN Outside(s, b) \cup {n + 1} ELSE Outside(s, b)
  <2>1. here => Outside(t, b) = Outside(s, b) \cup {n + 1}
    BY <1>3, <1>5, <1>6 DEF Outside
  <2>2. ~ here => Outside(t, b) = Outside(s, b)
    BY <1>3, <1>5, <1>6 DEF Outside
  <2> QED
    BY <2>1, <2>2
<1>8. n + 1 \notin Outside(s, b) /\ IsFiniteSet(Outside(s, b))
  BY <1>3, FS_Subset DEF Outside
<1>9. Cardinality(Outside(s, b)) \in Nat
  BY <1>8, FS_CardinalityType
<1> QED
  BY <1>7, <1>8, <1>9 DEF n, t

LEMMA GroupsStay ==
  ASSUME NEW s \in Seq(Text), NEW x \in Text, NEW size, x # "base"
  PROVE  /\ Keys(Append(s, x), size) = Keys(s, size)
         /\ \A k : Group(Append(s, x), size, k) = Group(s, size, k)
<1> DEFINE t == Append(s, x)
           K(u) == KeyOf(u, size)
<1>1. Base(t) = Base(s)
  BY BaseGrows
<1>2. DOMAIN K(s) = Base(s) /\ DOMAIN K(t) = Base(t) /\ \A i \in Base(s) : K(t)[i] = K(s)[i]
  BY KeyGrows
<1> HIDE DEF t, K
<1>3. /\ Keys(s, size) = {K(s)[i] : i \in Base(s)} /\ Keys(t, size) = {K(t)[i] : i \in Base(t)}
      /\ \A k : Group(s, size, k) = {i \in Base(s) : K(s)[i] = k}
      /\ \A k : Group(t, size, k) = {i \in Base(t) : K(t)[i] = k}
  BY <1>2 DEF Keys, Group, Range, K
<1>4. {K(t)[i] : i \in Base(t)} = {K(s)[i] : i \in Base(s)}
  BY <1>1, <1>2
<1>5. ASSUME NEW k PROVE {i \in Base(t) : K(t)[i] = k} = {i \in Base(s) : K(s)[i] = k}
  BY <1>1, <1>2
<1> QED
  BY <1>3, <1>4, <1>5 DEF t

LEMMA GroupsGrow ==
  ASSUME NEW s \in Seq(Text), NEW size
  PROVE  LET t == Append(s, "base")
             next == NextKey(s, size)
         IN  /\ Keys(t, size) = Keys(s, size) \cup {next}
             /\ Group(t, size, next) = Group(s, size, next) \cup {Len(s) + 1}
             /\ \A k : k # next => Group(t, size, k) = Group(s, size, k)
<1> DEFINE n == Len(s)
           t == Append(s, "base")
           next == NextKey(s, size)
           K(u) == KeyOf(u, size)
<1>1. "base" \in Text
  BY DEF Text
<1>2. /\ Base(t) = Base(s) \cup {n + 1} /\ n + 1 \notin Base(s)
      /\ DOMAIN K(s) = Base(s) /\ DOMAIN K(t) = Base(t)
      /\ \A i \in Base(s) : K(t)[i] = K(s)[i]
      /\ K(t)[n + 1] = next
  BY <1>1, BaseGrows, KeyGrows
<1> HIDE DEF n, t, next, K
<1>3. /\ Keys(s, size) = {K(s)[i] : i \in Base(s)} /\ Keys(t, size) = {K(t)[i] : i \in Base(t)}
      /\ \A k : Group(s, size, k) = {i \in Base(s) : K(s)[i] = k}
      /\ \A k : Group(t, size, k) = {i \in Base(t) : K(t)[i] = k}
  BY <1>2 DEF Keys, Group, Range, K
<1>4. {K(t)[i] : i \in Base(t)} = {K(s)[i] : i \in Base(s)} \cup {next}
  BY <1>2
<1>5. ASSUME NEW k
      PROVE  {i \in Base(t) : K(t)[i] = k}
               = {i \in Base(s) : K(s)[i] = k} \cup IF k = next THEN {n + 1} ELSE {}
  BY <1>2
<1>6. \A k : k # next => {i \in Base(t) : K(t)[i] = k} = {i \in Base(s) : K(s)[i] = k}
  BY <1>5
<1>7. {i \in Base(t) : K(t)[i] = next} = {i \in Base(s) : K(s)[i] = next} \cup {n + 1}
  BY <1>5
<1> QED
  BY <1>3, <1>4, <1>6, <1>7 DEF n, t, next

\* A bulk has a command, and its commands are lines.
LEMMA GroupParts ==
  ASSUME NEW s \in Seq(Text), NEW size, NEW k
  PROVE  /\ k \in Keys(s, size) <=> Group(s, size, k) # {}
         /\ Group(s, size, k) \subseteq 1 .. Len(s)
         /\ IsFiniteSet(Group(s, size, k))
<1>1. Keys(s, size) = {KeyOf(s, size)[i] : i \in Base(s)}
  BY DEF Keys, Range, KeyOf
<1>2. Base(s) \subseteq 1 .. Len(s) /\ IsFiniteSet(Base(s))
  <2>1. "base" \in Text
    BY DEF Text
  <2> QED
    BY <2>1, BaseGrows
<1> QED
  BY <1>1, <1>2, FS_Subset DEF Group

-----------------------------------------------------------------------------
\* Where the input ends: the open {, the block, and the commands outside since it.
Deep(s) == Depth(s)[Len(s)]
At(s) == BlockOf(s)[Len(s)]
Out(s) == Cardinality(Outside(s, At(s)))

\* The bulk the next command would join, and the bulks before it.
Open(s, size) == Group(s, size, NextKey(s, size))
Closed(s, size) == {Group(s, size, k) : k \in Keys(s, size) \ {NextKey(s, size)}}

LEMMA EndGrows ==
  ASSUME NEW s \in Seq(Text), NEW x \in Text
  PROVE  LET t == Append(s, x) IN
         /\ Deep(s) \in Nat /\ At(s) \in Nat /\ Out(s) \in Nat
         /\ Deep(t) = DepthStep(Deep(s), x)
         /\ At(t) = IF x = "{" /\ Deep(s) = 0 THEN At(s) + 1 ELSE At(s)
         /\ x # "base" => \A b : Outside(t, b) = Outside(s, b)
         /\ x = "base" /\ Deep(s) > 0 => Outside(t, At(s)) = Outside(s, At(s))
         /\ x = "base" /\ Deep(s) = 0 => Cardinality(Outside(t, At(s))) = Out(s) + 1
<1> DEFINE n == Len(s)
           t == Append(s, x)
<1>1. n \in Nat /\ Len(t) = n + 1 /\ n \in 0 .. n
  BY LenProperties, AppendProperties
<1>2. Deep(s) \in Nat /\ At(s) \in Nat
  BY <1>1, DepthParts, BlockParts DEF Deep, At
<1>3. Deep(t) = DepthStep(Deep(s), x)
  BY <1>1, DepthGrows DEF Deep
<1>4. At(t) = IF x = "{" /\ Deep(s) = 0 THEN At(s) + 1 ELSE At(s)
  BY <1>1, BlockGrows DEF Deep, At
<1>5. \A b : /\ Outside(t, b) = IF x = "base" /\ Deep(s) = 0 /\ b = At(s)
                                  THEN Outside(s, b) \cup {n + 1} ELSE Outside(s, b)
             /\ n + 1 \notin Outside(s, b)
             /\ IsFiniteSet(Outside(s, b)) /\ Cardinality(Outside(s, b)) \in Nat
  BY OutsideGrows DEF Deep, At
<1>6. Out(s) \in Nat
  BY <1>5 DEF Out
<1>7. x # "base" => \A b : Outside(t, b) = Outside(s, b)
  BY <1>5
<1> HIDE DEF t, n
<1>8. ASSUME x = "base", Deep(s) > 0
      PROVE  Outside(t, At(s)) = Outside(s, At(s))
  <2>1. ~ (Deep(s) = 0)
    BY <1>2, <1>8
  <2> QED
    BY <1>5, <2>1
<1>9. ASSUME x = "base", Deep(s) = 0
      PROVE  Cardinality(Outside(t, At(s))) = Out(s) + 1
  <2>1. Outside(t, At(s)) = Outside(s, At(s)) \cup {n + 1}
    BY <1>5, <1>9
  <2> QED
    BY <1>5, <2>1, FS_AddElement DEF Out
<1> QED
  BY <1>2, <1>3, <1>4, <1>6, <1>7, <1>8, <1>9 DEF t

-----------------------------------------------------------------------------
KeySet == [block : Nat, part : Nat]

\* The order in which bulks are begun.
Before(k, l) == k.block < l.block \/ (k.block = l.block /\ k.part <= l.part)

LEMMA KeysDiffer ==
  ASSUME NEW k \in KeySet, NEW l \in KeySet, k.block = l.block, k.part = l.part
  PROVE  k = l
BY DEF KeySet

LEMMA BeforeOrders ==
  ASSUME NEW k \in KeySet, NEW l \in KeySet, NEW m \in KeySet, Before(k, l), Before(l, m)
  PROVE  Before(k, m) /\ (l # m => k # m)
<1>1. /\ k.block \in Nat /\ l.block \in Nat /\ m.block \in Nat
      /\ k.part \in Nat /\ l.part \in Nat /\ m.part \in Nat
  BY DEF KeySet
<1>2. Before(k, m)
  BY <1>1 DEF Before
<1>3. ASSUME k = m PROVE l = m
  <2>1. l.block = m.block /\ l.part = m.part
    BY <1>1, <1>3 DEF Before
  <2> QED
    BY <2>1, KeysDiffer
<1> QED
  BY <1>2, <1>3

\* Where the input ends it is in the last bulk or after it; the commands outside
\* of blocks fill bulks of size commands, the last of which may be open.
Cut(s, size) ==
  LET next == NextKey(s, size) IN
  /\ \A k \in Keys(s, size) : k \in KeySet /\ Before(k, next)
  /\ Deep(s) = 0 => \E q, c \in Nat : /\ c = Cardinality(Open(s, size)) /\ c < size
                                      /\ Out(s) = size * q + c
  /\ Deep(s) > 0 => Outside(s, At(s)) = {}
  /\ \A k \in Keys(s, size) \ {next} :
       Deep(s) = 0 /\ k.block = At(s) /\ k.part > 0 => Cardinality(Group(s, size, k)) = size

LEMMA NextParts ==
  ASSUME NEW s \in Seq(Text), NEW size \in Nat \ {0}
  PROVE  /\ NextKey(s, size) = [block |-> At(s), part |-> IF Deep(s) > 0 THEN 0 ELSE 1 + Out(s) \div size]
         /\ NextKey(s, size) \in KeySet
         /\ NextKey(s, size).block = At(s)
         /\ Deep(s) > 0 => NextKey(s, size).part = 0
         /\ Deep(s) = 0 => NextKey(s, size).part = 1 + Out(s) \div size
<1> DEFINE p == IF Deep(s) > 0 THEN 0 ELSE 1 + Out(s) \div size
<1>1. Deep(s) \in Nat /\ At(s) \in Nat /\ Out(s) \in Nat
  <2>1. "base" \in Text
    BY DEF Text
  <2> QED
    BY <2>1, EndGrows
<1>2. p \in Nat
  BY <1>1
<1>3. Deep(s) = 0 => p = 1 + Out(s) \div size
  BY <1>1
<1>4. Deep(s) > 0 => p = 0
  OBVIOUS
<1>5. NextKey(s, size) = [block |-> At(s), part |-> p]
  BY DEF NextKey, At, Deep, Out
<1> HIDE DEF p
<1>6. NextKey(s, size).block = At(s) /\ NextKey(s, size).part = p /\ NextKey(s, size) \in KeySet
  BY <1>1, <1>2, <1>5 DEF KeySet
<1> QED
  BY <1>3, <1>4, <1>5, <1>6 DEF p

\* The input stays in the same bulk.
LEMMA StaysOpen ==
  ASSUME NEW s, NEW t, NEW size, NextKey(t, size) = NextKey(s, size),
         Keys(t, size) = Keys(s, size), \A k : Group(t, size, k) = Group(s, size, k)
  PROVE  Open(t, size) = Open(s, size) /\ Closed(t, size) = Closed(s, size)
BY DEF Open, Closed

\* The input leaves the bulk it is in.
LEMMA Leaves ==
  ASSUME NEW t \in Seq(Text), NEW size \in Nat \ {0}, NEW old \in KeySet,
         \A k \in Keys(t, size) : k \in KeySet /\ Before(k, old),
         Before(old, NextKey(t, size)), old # NextKey(t, size)
  PROVE  /\ \A k \in Keys(t, size) : k \in KeySet /\ Before(k, NextKey(t, size))
         /\ Open(t, size) = {}
         /\ Closed(t, size) = {Group(t, size, k) : k \in Keys(t, size)}
         /\ Closed(t, size) = {Group(t, size, k) : k \in Keys(t, size) \ {old}}
                                \cup ({Group(t, size, old)} \ {{}})
<1> DEFINE next == NextKey(t, size)
<1>1. next \in KeySet
  BY NextParts
<1>2. \A k \in Keys(t, size) : Before(k, next) /\ k # next
  BY <1>1, BeforeOrders
<1>3. Open(t, size) = {}
  BY <1>2, GroupParts DEF Open
<1>4. Closed(t, size) = {Group(t, size, k) : k \in Keys(t, size)}
  <2>1. Keys(t, size) \ {next} = Keys(t, size)
    BY <1>2
  <2> QED
    BY <2>1 DEF Closed
<1>5. \A k : k \in Keys(t, size) <=> Group(t, size, k) # {}
  BY GroupParts
<1>6. {Group(t, size, k) : k \in Keys(t, size)}
        = {Group(t, size, k) : k \in Keys(t, size) \ {old}} \cup ({Group(t, size, old)} \ {{}})
  BY <1>5
<1> QED
  BY <1>2, <1>3, <1>4, <1>6

-----------------------------------------------------------------------------
\* A command in a block.
LEMMA CommandInBlock ==
  ASSUME NEW s \in Seq(Text), NEW size \in Nat \ {0}, Cut(s, size), Deep(s) > 0
  PROVE  LET t == Append(s, "base") IN
         /\ Cut(t, size)
         /\ Open(t, size) = Open(s, size) \cup {Len(s) + 1}
         /\ Closed(t, size) = Closed(s, size)
<1> DEFINE t == Append(s, "base")
           next == NextKey(s, size)
<1>1. "base" \in Text /\ t \in Seq(Text)
  BY AppendProperties DEF Text
<1>2. /\ Deep(t) = Deep(s) /\ At(t) = At(s) /\ Deep(s) \in Nat
      /\ Outside(t, At(t)) = Outside(s, At(s))
  <2>1. /\ Deep(s) \in Nat /\ Deep(t) = DepthStep(Deep(s), "base")
        /\ At(t) = IF "base" = "{" /\ Deep(s) = 0 THEN At(s) + 1 ELSE At(s)
        /\ Outside(t, At(s)) = Outside(s, At(s))
    BY <1>1, EndGrows
  <2> QED
    BY <2>1, Zenon DEF DepthStep
<1>3. NextKey(t, size) = next
  <2>1. Out(t) = Out(s)
    BY <1>2 DEF Out
  <2> QED
    BY <1>1, <1>2, <2>1, NextParts
<1>4. /\ Keys(t, size) = Keys(s, size) \cup {next}
      /\ Group(t, size, next) = Group(s, size, next) \cup {Len(s) + 1}
      /\ \A k : k # next => Group(t, size, k) = Group(s, size, k)
  BY <1>1, GroupsGrow
<1> HIDE DEF t, next
<1>5. Open(t, size) = Open(s, size) \cup {Len(s) + 1} /\ Closed(t, size) = Closed(s, size)
  BY <1>3, <1>4 DEF Open, Closed, next
<1>6. next \in KeySet /\ Before(next, next)
  <2>1. next \in KeySet
    BY NextParts DEF next
  <2> QED
    BY <2>1 DEF Before, KeySet
<1>7. Cut(t, size)
  <2>1. \A k \in Keys(t, size) : k \in KeySet /\ Before(k, NextKey(t, size))
    BY <1>3, <1>4, <1>6 DEF Cut, next
  <2>2. Deep(t) > 0 /\ ~ (Deep(t) = 0)
    BY <1>2
  <2>3. Outside(t, At(t)) = {}
    BY <1>2 DEF Cut
  <2> QED
    BY <2>1, <2>2, <2>3 DEF Cut
<1> QED
  BY <1>5, <1>7 DEF t

\* A command outside that does not fill its bulk, and one that does.
LEMMA CommandOutside ==
  ASSUME NEW s \in Seq(Text), NEW size \in Nat \ {0}, Cut(s, size), Deep(s) = 0
  PROVE  LET t == Append(s, "base")
             open == Open(s, size) \cup {Len(s) + 1}
         IN  /\ Cut(t, size)
             /\ Cardinality(open) # size => Open(t, size) = open /\ Closed(t, size) = Closed(s, size)
             /\ Cardinality(open) = size => Open(t, size) = {} /\ Closed(t, size) = Closed(s, size) \cup {open}
<1> DEFINE t == Append(s, "base")
           next == NextKey(s, size)
           open == Open(s, size) \cup {Len(s) + 1}
           new == NextKey(t, size)
<1>1. "base" \in Text /\ t \in Seq(Text) /\ Len(s) \in Nat
  BY AppendProperties, LenProperties DEF Text
<1>2. /\ Deep(t) = 0 /\ At(t) = At(s) /\ Out(t) = Out(s) + 1
      /\ Out(s) \in Nat /\ At(s) \in Nat
  <2>1. /\ Deep(t) = DepthStep(Deep(s), "base")
        /\ At(t) = IF "base" = "{" /\ Deep(s) = 0 THEN At(s) + 1 ELSE At(s)
        /\ Cardinality(Outside(t, At(s))) = Out(s) + 1
        /\ Out(s) \in Nat /\ At(s) \in Nat
    BY <1>1, EndGrows
  <2>2. Deep(t) = Deep(s) /\ At(t) = At(s)
    BY <2>1, Zenon DEF DepthStep
  <2> QED
    BY <2>1, <2>2 DEF Out
<1>3. PICK q \in Nat, c \in Nat : /\ c = Cardinality(Open(s, size)) /\ c < size
                                  /\ Out(s) = size * q + c
  BY DEF Cut
<1>4. Cardinality(open) = c + 1
  <2>1. Open(s, size) \subseteq 1 .. Len(s) /\ IsFiniteSet(Open(s, size))
    BY GroupParts DEF Open
  <2>2. Len(s) + 1 \notin Open(s, size)
    BY <1>1, <2>1
  <2> QED
    BY <1>3, <2>1, <2>2, FS_AddElement
<1>5. /\ next \in KeySet /\ next.block = At(s) /\ next.part = 1 + Out(s) \div size
      /\ new \in KeySet /\ new.block = At(s) /\ new.part = 1 + Out(t) \div size
  BY <1>1, <1>2, NextParts
<1>6. next.part = 1 + q
  <2>1. c \in 0 .. size - 1
    BY <1>3
  <2>2. (size * q + c) \div size = q
    BY <2>1, DivisionIs
  <2> QED
    BY <1>3, <1>5, <2>2
<1>7. /\ Keys(t, size) = Keys(s, size) \cup {next}
      /\ Group(t, size, next) = open
      /\ \A k : k # next => Group(t, size, k) = Group(s, size, k)
  BY <1>1, GroupsGrow DEF Open
<1>8. Before(next, next)
  BY <1>5 DEF Before, KeySet
<1> HIDE DEF t, next, new, open
<1> PICK p : p = size * q
  OBVIOUS
<1>out. Out(t) = p + (c + 1)
  <2>1. p \in Nat
    OBVIOUS
  <2>2. Out(s) = p + c /\ Out(t) = Out(s) + 1
    BY <1>2, <1>3
  <2> QED
    BY ONLY <2>1, <2>2, c \in Nat
<1>9. \A k \in Keys(t, size) : k \in KeySet /\ Before(k, next)
  BY <1>5, <1>7, <1>8 DEF Cut, next
<1>10. \A k \in Keys(s, size) \ {next} :
         k.block = At(s) /\ k.part > 0 => Cardinality(Group(t, size, k)) = size
  BY <1>7 DEF Cut, next
<1>11. CASE c + 1 # size
  <2>1. new.part = 1 + q
    <3>1. c + 1 \in 0 .. size - 1
      BY <1>3, <1>11
    <3>2. (size * q + (c + 1)) \div size = q
      BY <3>1, DivisionIs
    <3>3. Out(t) = size * q + (c + 1)
      BY ONLY <1>out, p = size * q
    <3> QED
      BY <1>5, <3>2, <3>3
  <2>2. new = next
    BY <1>5, <1>6, <2>1, KeysDiffer
  <2>3. Open(t, size) = open /\ Closed(t, size) = Closed(s, size)
    BY <1>7, <2>2 DEF Open, Closed, next, new
  <2>4. Cut(t, size)
    <3>1. \E r, e \in Nat : e = Cardinality(Open(t, size)) /\ e < size /\ Out(t) = size * r + e
      <4>1. c + 1 \in Nat /\ c + 1 < size /\ Out(t) = size * q + (c + 1)
        BY ONLY <1>3, <1>11, <1>out, p = size * q, c \in Nat, size \in Nat
      <4>2. Cardinality(Open(t, size)) = c + 1
        BY <1>4, <2>3
      <4>3. c + 1 = Cardinality(Open(t, size)) /\ c + 1 < size /\ Out(t) = size * q + (c + 1)
        BY <4>1, <4>2
      <4> QED
        BY ONLY q \in Nat, <4>1, <4>3, Zenon
    <3>2. ~ (Deep(t) > 0)
      BY <1>2
    <3>3. \A k \in Keys(t, size) \ {new} :
            k.block = At(t) /\ k.part > 0 => Cardinality(Group(t, size, k)) = size
      BY <1>2, <1>7, <1>10, <2>2
    <3> QED
      BY <1>9, <2>2, <3>1, <3>2, <3>3 DEF Cut, new
  <2> QED
    BY <1>4, <1>11, <2>3, <2>4 DEF t, open
<1>12. CASE c + 1 = size
  <2>1. new.part = 2 + q /\ Out(t) = size * (q + 1) + 0
    <3>1. 0 \in 0 .. size - 1 /\ q + 1 \in Nat
      OBVIOUS
    <3>2. (size * (q + 1) + 0) \div size = q + 1
      BY <3>1, DivisionIs
    <3>3. Out(t) = size * q + size
      BY ONLY <1>12, <1>out, p = size * q
    <3>4. size * q + size = size * (q + 1) + 0
      OBVIOUS
    <3>5. Out(t) \div size = q + 1
      BY <3>2, <3>3, <3>4
    <3> QED
      BY <1>5, <3>3, <3>4, <3>5
  <2>2. Before(next, new) /\ next # new
    BY <1>5, <1>6, <2>1 DEF Before, KeySet
  <2>3. /\ \A k \in Keys(t, size) : k \in KeySet /\ Before(k, new)
        /\ Open(t, size) = {}
        /\ Closed(t, size) = {Group(t, size, k) : k \in Keys(t, size)}
    <3>1. Before(next, NextKey(t, size)) /\ next # NextKey(t, size)
      BY <2>2 DEF new
    <3>2. t \in Seq(Text) /\ next \in KeySet
      BY <1>1, <1>5 DEF t
    <3>3. /\ \A k \in Keys(t, size) : k \in KeySet /\ Before(k, NextKey(t, size))
          /\ Open(t, size) = {}
          /\ Closed(t, size) = {Group(t, size, k) : k \in Keys(t, size)}
      BY <1>9, <3>1, <3>2, Leaves
    <3> QED
      BY <3>3 DEF new
  <2>4. Closed(t, size) = Closed(s, size) \cup {open}
    <3>1. {Group(t, size, k) : k \in Keys(s, size) \ {next}}
            = {Group(s, size, k) : k \in Keys(s, size) \ {next}}
      BY ONLY <1>7
    <3>2. {Group(t, size, k) : k \in Keys(t, size)}
            = {Group(t, size, k) : k \in Keys(s, size) \ {next}} \cup {Group(t, size, next)}
      BY ONLY <1>7
    <3> QED
      BY ONLY <1>7, <2>3, <3>1, <3>2 DEF Closed, next
  <2>5. Cut(t, size)
    <3>1. \E r, e \in Nat : e = Cardinality(Open(t, size)) /\ e < size /\ Out(t) = size * r + e
      <4>1. Cardinality(Open(t, size)) = 0
        BY <2>3, FS_EmptySet
      <4>2. q + 1 \in Nat /\ 0 \in Nat /\ 0 < size
        OBVIOUS
      <4> QED
        BY ONLY <2>1, <4>1, <4>2
    <3>2. ~ (Deep(t) > 0)
      BY <1>2
    <3>3. \A k \in Keys(t, size) \ {new} :
            k.block = At(t) /\ k.part > 0 => Cardinality(Group(t, size, k)) = size
      BY <1>2, <1>4, <1>7, <1>10, <1>12
    <3> QED
      BY <2>3, <3>1, <3>2, <3>3 DEF Cut, new
  <2> QED
    BY <1>4, <1>12, <2>3, <2>4, <2>5 DEF t, open
<1> QED
  BY <1>11, <1>12

\* A brace is in no bulk.
SameBulks(s, t, size) ==
  /\ \A b : Outside(t, b) = Outside(s, b)
  /\ Keys(t, size) = Keys(s, size)
  /\ \A k : Group(t, size, k) = Group(s, size, k)

LEMMA BraceGrows ==
  ASSUME NEW s \in Seq(Text), NEW size, NEW x \in {"{", "}"}
  PROVE  LET t == Append(s, x) IN
         /\ t \in Seq(Text) /\ SameBulks(s, t, size)
         /\ Deep(s) \in Nat /\ At(s) \in Nat
         /\ Deep(t) = DepthStep(Deep(s), x)
         /\ At(t) = IF x = "{" /\ Deep(s) = 0 THEN At(s) + 1 ELSE At(s)
<1>1. x \in Text /\ x # "base"
  BY DEF Text
<1>2. Append(s, x) \in Seq(Text)
  BY <1>1, AppendProperties
<1>3. SameBulks(s, Append(s, x), size)
  <2>1. \A b : Outside(Append(s, x), b) = Outside(s, b)
    BY <1>1, EndGrows, Zenon
  <2>2. /\ Keys(Append(s, x), size) = Keys(s, size)
        /\ \A k : Group(Append(s, x), size, k) = Group(s, size, k)
    BY <1>1, GroupsStay, Zenon
  <2> QED
    BY <2>1, <2>2 DEF SameBulks
<1> QED
  BY <1>1, <1>2, <1>3, EndGrows, Zenon

LEMMA OpeningBrace ==
  ASSUME NEW s \in Seq(Text), NEW size
  PROVE  LET t == Append(s, "{") IN
         /\ t \in Seq(Text) /\ SameBulks(s, t, size) /\ Deep(s) \in Nat /\ At(s) \in Nat
         /\ Deep(t) = Deep(s) + 1
         /\ At(t) = IF Deep(s) = 0 THEN At(s) + 1 ELSE At(s)
BY BraceGrows, Zenon DEF DepthStep

LEMMA ClosingBrace ==
  ASSUME NEW s \in Seq(Text), NEW size
  PROVE  LET t == Append(s, "}") IN
         /\ t \in Seq(Text) /\ SameBulks(s, t, size) /\ Deep(s) \in Nat /\ At(s) \in Nat
         /\ Deep(t) = IF Deep(s) > 0 THEN Deep(s) - 1 ELSE Deep(s)
         /\ At(t) = At(s)
<1>1. /\ Append(s, "}") \in Seq(Text) /\ SameBulks(s, Append(s, "}"), size)
      /\ Deep(s) \in Nat /\ At(s) \in Nat
      /\ Deep(Append(s, "}")) = DepthStep(Deep(s), "}")
      /\ At(Append(s, "}")) = IF "}" = "{" /\ Deep(s) = 0 THEN At(s) + 1 ELSE At(s)
  BY BraceGrows, Zenon
<1>2. DepthStep(Deep(s), "}") = IF Deep(s) > 0 THEN Deep(s) - 1 ELSE Deep(s)
  <2>1. CASE Deep(s) > 0
    BY <2>1, Zenon DEF DepthStep
  <2>2. CASE ~ (Deep(s) > 0)
    BY <2>2, Zenon DEF DepthStep
  <2> QED
    BY <2>1, <2>2
<1>3. At(Append(s, "}")) = At(s)
  BY <1>1, Zenon
<1> QED
  BY <1>1, <1>2, <1>3

\* An outermost { or }: what was open is closed.
LEMMA BlockEnds ==
  ASSUME NEW s \in Seq(Text), NEW t \in Seq(Text), NEW size \in Nat \ {0},
         Cut(s, size), SameBulks(s, t, size), At(s) \in Nat,
         \/ Deep(s) = 0 /\ Deep(t) = 1 /\ At(t) = At(s) + 1
         \/ Deep(s) = 1 /\ Deep(t) = 0 /\ At(t) = At(s)
  PROVE  /\ Cut(t, size)
         /\ Open(t, size) = {}
         /\ Closed(t, size) = Closed(s, size) \cup ({Open(s, size)} \ {{}})
<1> DEFINE next == NextKey(s, size)
           new == NextKey(t, size)
<1>1. /\ next \in KeySet /\ next.block = At(s)
      /\ Deep(s) > 0 => next.part = 0
      /\ new \in KeySet /\ new.block = At(t)
      /\ Deep(t) > 0 => new.part = 0
      /\ Deep(t) = 0 => new.part = 1 + Out(t) \div size
  BY NextParts
<1>2. Outside(t, At(t)) = {}
  <2>1. CASE Deep(s) = 0 /\ At(t) = At(s) + 1
    <3>1. ASSUME NEW j \in Outside(s, At(t)) PROVE FALSE
      <4>1. j \in Base(s) /\ BlockOf(s)[j] = At(t)
        BY <3>1 DEF Outside
      <4> DEFINE k == KeyOf(s, size)[j]
      <4>2. k \in Keys(s, size) /\ k.block = BlockOf(s)[j]
        BY <4>1 DEF Keys, Range, KeyOf
      <4>3. k \in KeySet /\ Before(k, next) /\ k.block = At(t)
        BY <4>1, <4>2 DEF Cut
      <4> HIDE DEF k, next
      <4>4. k.block = At(s) + 1 /\ next.block = At(s)
        BY <1>1, <2>1, <4>3
      <4> QED
        BY <4>3, <4>4 DEF Before
    <3> QED
      BY <3>1 DEF SameBulks
  <2>2. CASE Deep(s) = 1 /\ At(t) = At(s)
    <3>1. Deep(s) > 0
      BY <2>2
    <3> QED
      BY <2>2, <3>1 DEF Cut, SameBulks
  <2> QED
    BY <2>1, <2>2
<1>3. Out(t) = 0
  BY <1>2, FS_EmptySet DEF Out
<1>4. \/ new.block = next.block + 1
      \/ new.block = next.block /\ next.part = 0 /\ new.part = 1 /\ Deep(t) = 0
  <2>1. CASE Deep(t) = 1 /\ At(t) = At(s) + 1
    BY <1>1, <2>1
  <2>2. CASE Deep(s) = 1 /\ Deep(t) = 0 /\ At(t) = At(s)
    <3>1. Out(t) \div size = 0
      BY <1>3
    <3>2. next.part = 0 /\ new.part = 1 + Out(t) \div size
      BY <1>1, <2>2
    <3>3. new.part = 1
      BY <3>1, <3>2
    <3> QED
      BY <1>1, <2>2, <3>2, <3>3
  <2> QED
    BY <2>1, <2>2
<1> HIDE DEF next, new
<1>5. Before(next, new) /\ next # new
  <2>1. next.block \in Nat /\ next.part \in Nat
    BY <1>1 DEF KeySet
  <2> QED
    BY <1>4, <2>1 DEF Before
<1>6. \A k \in Keys(t, size) : k \in KeySet /\ Before(k, next)
  BY DEF Cut, SameBulks, next
<1>7. /\ \A k \in Keys(t, size) : k \in KeySet /\ Before(k, new)
      /\ Open(t, size) = {}
      /\ Closed(t, size) = {Group(t, size, k) : k \in Keys(t, size) \ {next}}
                             \cup ({Group(t, size, next)} \ {{}})
  BY <1>1, <1>5, <1>6, Leaves DEF new
<1>8. Closed(t, size) = Closed(s, size) \cup ({Open(s, size)} \ {{}})
  <2>1. {Group(t, size, k) : k \in Keys(t, size) \ {next}}
          = {Group(s, size, k) : k \in Keys(s, size) \ {next}}
    BY DEF SameBulks
  <2>2. Group(t, size, next) = Group(s, size, next)
    BY DEF SameBulks
  <2> QED
    BY <1>7, <2>1, <2>2 DEF Closed, Open, next
<1>9. \E q, c \in Nat : c = Cardinality(Open(t, size)) /\ c < size /\ Out(t) = size * q + c
  <2>1. Cardinality(Open(t, size)) = 0
    BY <1>7, FS_EmptySet
  <2>2. 0 \in Nat /\ 0 < size /\ 0 = size * 0 + 0
    OBVIOUS
  <2> QED
    BY <1>3, <2>1, <2>2
<1>10. ASSUME NEW k \in Keys(t, size) \ {new}, Deep(t) = 0, k.block = At(t), k.part > 0
       PROVE  FALSE
  <2>1. Deep(s) = 1 /\ At(t) = At(s)
    BY <1>10
  <2>2. next.block = At(t) /\ next.part = 0
    BY <1>1, <2>1
  <2>3. k \in KeySet /\ Before(k, next)
    BY <1>6
  <2>4. k.part \in Nat /\ k.block \in Nat
    BY <2>3 DEF KeySet
  <2> QED
    BY <1>10, <2>2, <2>3, <2>4 DEF Before
<1>11. Cut(t, size)
  BY <1>2, <1>7, <1>9, <1>10 DEF Cut, new
<1> QED
  BY <1>7, <1>8, <1>11

\* A { or } within a block, or a } too many.
LEMMA BraceInside ==
  ASSUME NEW s \in Seq(Text), NEW t \in Seq(Text), NEW size \in Nat \ {0},
         Cut(s, size), SameBulks(s, t, size), At(t) = At(s),
         (Deep(t) = 0 /\ Deep(s) = 0) \/ (Deep(t) > 0 /\ Deep(s) > 0)
  PROVE  /\ Cut(t, size)
         /\ Open(t, size) = Open(s, size)
         /\ Closed(t, size) = Closed(s, size)
<1>1. Out(t) = Out(s)
  BY DEF Out, SameBulks
<1>2. (Deep(t) = 0 <=> Deep(s) = 0) /\ (Deep(t) > 0 <=> Deep(s) > 0)
  OBVIOUS
<1>3. NextKey(t, size) = NextKey(s, size)
  BY <1>1, <1>2, NextParts
<1>4. Open(t, size) = Open(s, size) /\ Closed(t, size) = Closed(s, size)
  BY <1>3, StaysOpen DEF SameBulks
<1>5. Cut(t, size)
  BY <1>1, <1>2, <1>3, <1>4 DEF Cut, SameBulks
<1> QED
  BY <1>4, <1>5

\* No input: nothing is open and nothing closed.
LEMMA CutEmpty ==
  ASSUME NEW size \in Nat \ {0}
  PROVE  /\ Cut(<<>>, size) /\ Open(<<>>, size) = {} /\ Closed(<<>>, size) = {}
         /\ Deep(<<>>) = 0
<1> DEFINE s == <<>>
<1>1. s \in Seq(Text) /\ Len(s) = 0
  OBVIOUS
<1>2. Base(s) = {}
  BY <1>1 DEF Base
<1>3. Deep(s) = 0
  BY <1>1, DepthParts DEF Deep
<1> HIDE DEF s
<1>4. Keys(s, size) = {}
  BY <1>2 DEF Keys, KeyOf, Range
<1>5. Open(s, size) = {} /\ Closed(s, size) = {}
  BY <1>2, <1>4 DEF Open, Closed, Group
<1>6. Out(s) = 0
  <2>1. Outside(s, At(s)) = {}
    BY <1>2 DEF Outside
  <2> QED
    BY <2>1, FS_EmptySet DEF Out
<1>7. \E q, c \in Nat : c = Cardinality(Open(s, size)) /\ c < size /\ Out(s) = size * q + c
  <2>1. Cardinality(Open(s, size)) = 0
    BY <1>5, FS_EmptySet
  <2>2. 0 \in Nat /\ 0 < size /\ 0 = size * 0 + 0
    OBVIOUS
  <2> QED
    BY <1>6, <2>1, <2>2
<1>8. Cut(s, size)
  BY <1>3, <1>4, <1>7 DEF Cut
<1> QED
  BY <1>3, <1>5, <1>8 DEF s

-----------------------------------------------------------------------------
\* The manager has sent the bulks of F and collects the commands of T.

ManagerStates ==
  [handler : {"general", "custom"}, nesting : Nat, cur_bulk : Seq(Nat),
   sent : Seq(Seq(Nat) \ {<<>>})]

Makes(m, F, T) ==
  /\ Increasing(m.cur_bulk) /\ Range(m.cur_bulk) = T
  /\ Covers(m.sent, F) /\ After(m.sent, T)

LEMMA EmptyBulk == Increasing(<<>>) /\ Range(<<>>) = {} /\ <<>> \in Seq(Nat)
BY DEF Increasing, Range

LEMMA BulkElements ==
  ASSUME NEW c \in Seq(Nat)
  PROVE  /\ Len(c) \in Nat /\ DOMAIN c = 1 .. Len(c) /\ Range(c) = {c[i] : i \in 1 .. Len(c)}
         /\ c = <<>> <=> Range(c) = {}
<1>1. Len(c) \in Nat /\ DOMAIN c = 1 .. Len(c) /\ (c = <<>> <=> Len(c) = 0)
  BY LenProperties, EmptySeq
<1>2. Range(c) = {c[i] : i \in 1 .. Len(c)}
  BY <1>1 DEF Range
<1>3. ASSUME Len(c) # 0 PROVE c[1] \in Range(c)
  <2>1. 1 \in 1 .. Len(c)
    BY <1>1, <1>3
  <2> QED
    BY <1>2, <2>1
<1>4. c = <<>> => Range(c) = {}
  BY EmptyBulk
<1> QED
  BY <1>1, <1>2, <1>3, <1>4

LEMMA BulkLength ==
  ASSUME NEW c \in Seq(Nat), Increasing(c)
  PROVE  Cardinality(Range(c)) = Len(c)
<1> DEFINE v == [x \in Nat |-> x]
<1>1. v \in [Nat -> Nat] /\ \A i \in DOMAIN c : v[c[i]] = c[i]
  BY BulkElements, ElementOfSeq
<1> HIDE DEF v
<1>2. \A i, j \in DOMAIN c : i < j => v[c[i]] < v[c[j]]
  BY <1>1 DEF Increasing
<1> QED
  BY <1>1, <1>2, PlaceByValue

\* flush_data
LEMMA Sends ==
  ASSUME NEW m \in ManagerStates, NEW F, NEW T, Makes(m, F, T)
  PROVE  /\ Flushed(m) \in ManagerStates
         /\ Flushed(m).handler = m.handler /\ Flushed(m).nesting = m.nesting
         /\ Makes(Flushed(m), F \cup ({T} \ {{}}), {})
<1> DEFINE f == Flushed(m)
           A == Seq(Nat) \ {<<>>}
<1>1. m.cur_bulk \in Seq(Nat) /\ m.sent \in Seq(A)
  BY DEF ManagerStates
<1>2. CASE m.cur_bulk = <<>>
  <2>1. T = {} /\ f = m
    BY <1>2, EmptyBulk DEF Makes, Flushed
  <2>2. F \cup ({T} \ {{}}) = F
    BY <2>1
  <2> QED
    BY <2>1, <2>2
<1>3. CASE m.cur_bulk # <<>>
  <2>1. Append(m.sent, m.cur_bulk) \in Seq(A)
    <3>1. m.cur_bulk \in A
      BY <1>1, <1>3
    <3> HIDE DEF A
    <3> QED
      BY <1>1, <3>1, AppendProperties
  <2>2. /\ f \in ManagerStates /\ f.handler = m.handler /\ f.nesting = m.nesting
        /\ f.cur_bulk = <<>> /\ f.sent = Append(m.sent, m.cur_bulk)
    BY <1>3, <2>1, EmptyBulk DEF Flushed, ManagerStates
  <2>3. T # {} /\ F \cup ({T} \ {{}}) = F \cup {T}
    BY <1>1, <1>3, BulkElements DEF Makes
  <2>4. Covers(Append(m.sent, m.cur_bulk), F \cup {T})
    BY <1>1, <1>3, CoversMore DEF Makes
  <2> HIDE DEF f
  <2>5. Makes(f, F \cup {T}, {})
    BY <2>2, <2>4, EmptyBulk DEF Makes, After
  <2> QED
    BY <2>2, <2>3, <2>5 DEF f
<1> QED
  BY <1>2, <1>3

LEMMA OneMoreNumber ==
  ASSUME NEW c \in Seq(Nat), Increasing(c), NEW d \in Nat, \A e \in Range(c) : e < d
  PROVE  /\ Append(c, d) \in Seq(Nat) /\ Increasing(Append(c, d))
         /\ Range(Append(c, d)) = Range(c) \cup {d}
<1> DEFINE more == Append(c, d)
           n == Len(c)
<1>1. /\ n \in Nat /\ DOMAIN c = 1 .. n /\ Range(c) = {c[i] : i \in 1 .. n}
      /\ \A i \in 1 .. n : c[i] \in Nat
  BY BulkElements, ElementOfSeq
<1>2. /\ more \in Seq(Nat) /\ Len(more) = n + 1 /\ more[n + 1] = d
      /\ \A i \in 1 .. n : more[i] = c[i]
  BY <1>1, AppendProperties
<1> HIDE DEF more
<1>3. DOMAIN more = 1 .. n + 1 /\ \A i \in 1 .. n + 1 : i \in 1 .. n \/ i = n + 1
  BY <1>1, <1>2, LenProperties
<1>4. Increasing(more)
  <2> SUFFICES ASSUME NEW i \in 1 .. n + 1, NEW j \in 1 .. n + 1, i < j
               PROVE  more[i] < more[j]
    BY <1>3 DEF Increasing
  <2>1. i \in 1 .. n
    BY <1>1
  <2>2. CASE j \in 1 .. n
    BY <1>1, <1>2, <2>1, <2>2 DEF Increasing
  <2>3. CASE j = n + 1
    BY <1>1, <1>2, <2>1, <2>3
  <2> QED
    BY <1>3, <2>2, <2>3
<1>5. Range(more) = Range(c) \cup {d}
  <2>1. Range(more) = {more[i] : i \in 1 .. n + 1}
    BY <1>2, BulkElements
  <2>2. n + 1 \in 1 .. n + 1 /\ \A i \in 1 .. n : i \in 1 .. n + 1
    BY <1>1
  <2> QED
    BY <1>1, <1>2, <1>3, <2>1, <2>2
<1> QED
  BY <1>2, <1>4, <1>5 DEF more

\* push_cmd
LEMMA Collects ==
  ASSUME NEW m \in ManagerStates, NEW F, NEW T, Makes(m, F, T),
         NEW d \in Nat, \A e \in T : e < d, After(m.sent, {d}),
         NEW cmd, cmd.data = d
  PROVE  /\ Pushed(m, cmd) \in ManagerStates
         /\ Pushed(m, cmd).handler = m.handler /\ Pushed(m, cmd).nesting = m.nesting
         /\ Makes(Pushed(m, cmd), F, T \cup {d})
<1> DEFINE p == Pushed(m, cmd)
           more == Append(m.cur_bulk, d)
<1>1. more \in Seq(Nat) /\ Increasing(more) /\ Range(more) = T \cup {d}
  BY OneMoreNumber DEF ManagerStates, Makes
<1>2. /\ p \in ManagerStates /\ p.handler = m.handler /\ p.nesting = m.nesting
      /\ p.sent = m.sent /\ p.cur_bulk = more
  BY <1>1 DEF Pushed, ManagerStates
<1> HIDE DEF p, more
<1>3. Makes(p, F, T \cup {d})
  BY <1>1, <1>2 DEF Makes, After
<1> QED
  BY <1>2, <1>3 DEF p

-----------------------------------------------------------------------------
\* The manager m has read the input s.
Book(m, s, size) ==
  /\ m \in ManagerStates
  /\ m.nesting = Deep(s)
  /\ m.handler = IF Deep(s) = 0 THEN "general" ELSE "custom"
  /\ Cut(s, size)
  /\ Makes(m, Closed(s, size), Open(s, size))

LEMMA BookEmpty ==
  ASSUME NEW size \in Nat \ {0}
  PROVE  Book(NewManager, <<>>, size)
<1> DEFINE m == NewManager
<1>1. /\ m \in ManagerStates /\ m.nesting = 0 /\ m.handler = "general"
      /\ m.cur_bulk = <<>> /\ m.sent = <<>>
  BY EmptyBulk DEF NewManager, ManagerStates
<1>2. Covers(<<>>, {}) /\ After(<<>>, {})
  BY DEF Covers, After
<1> HIDE DEF m
<1>3. Makes(m, {}, {})
  BY <1>1, <1>2, EmptyBulk DEF Makes
<1> QED
  BY <1>1, <1>3, CutEmpty DEF Book, m

\* The next line comes after all that was read.
LEMMA NextIsLast ==
  ASSUME NEW m, NEW s \in Seq(Text), NEW size, Makes(m, Closed(s, size), Open(s, size)),
         m \in ManagerStates
  PROVE  /\ Len(s) + 1 \in Nat
         /\ \A e \in Open(s, size) : e < Len(s) + 1
         /\ After(m.sent, {Len(s) + 1})
<1>1. Len(s) \in Nat
  BY LenProperties
<1>2. \A k : Group(s, size, k) \subseteq 1 .. Len(s)
  BY GroupParts
<1>3. \A e \in 1 .. Len(s) : e < Len(s) + 1
  BY <1>1
<1>4. \A j \in DOMAIN m.sent : Range(m.sent[j]) \in Closed(s, size)
  BY DEF Makes, Covers
<1>5. \A g \in Closed(s, size) : g \subseteq 1 .. Len(s)
  BY <1>2 DEF Closed
<1>6. After(m.sent, {Len(s) + 1})
  BY <1>3, <1>4, <1>5 DEF After
<1> QED
  BY <1>1, <1>2, <1>3, <1>6 DEF Open

LEMMA BookCommand ==
  ASSUME NEW m, NEW s \in Seq(Text), NEW size \in Nat \ {0}, Book(m, s, size)
  PROVE  Book(AddCmd(m, ToCommand("base", Len(s) + 1), size), Append(s, "base"), size)
<1> DEFINE cmd == ToCommand("base", Len(s) + 1)
           t == Append(s, "base")
           p == Pushed(m, cmd)
           r == AddCmd(m, cmd, size)
           open == Open(s, size) \cup {Len(s) + 1}
<1>1. Deep(t) = Deep(s) /\ Deep(s) \in Nat
  <2>1. "base" \in Text
    BY DEF Text
  <2>2. Deep(t) = DepthStep(Deep(s), "base") /\ Deep(s) \in Nat
    BY <2>1, EndGrows
  <2> QED
    BY <2>2, Zenon DEF DepthStep
<1>2. cmd.type = "Base" /\ cmd.data = Len(s) + 1
  BY DEF ToCommand, CommandType
<1> HIDE DEF cmd
<1>3. /\ p \in ManagerStates /\ p.nesting = Deep(t)
      /\ p.handler = IF Deep(t) = 0 THEN "general" ELSE "custom"
      /\ Len(p.cur_bulk) = Cardinality(open)
      /\ Makes(p, Closed(s, size), open)
  <2>1. /\ m \in ManagerStates /\ Makes(m, Closed(s, size), Open(s, size))
        /\ m.nesting = Deep(s) /\ m.handler = IF Deep(s) = 0 THEN "general" ELSE "custom"
    BY DEF Book
  <2>2. /\ Len(s) + 1 \in Nat /\ \A e \in Open(s, size) : e < Len(s) + 1
        /\ After(m.sent, {Len(s) + 1})
    BY <2>1, NextIsLast
  <2>3. /\ p \in ManagerStates /\ p.handler = m.handler /\ p.nesting = m.nesting
        /\ Len(p.cur_bulk) = Cardinality(open)
        /\ Makes(p, Closed(s, size), open)
    <3> DEFINE d == Len(s) + 1
               T == Open(s, size)
               F == Closed(s, size)
    <3>1. /\ m \in ManagerStates /\ Makes(m, F, T) /\ d \in Nat /\ cmd.data = d
          /\ \A e \in T : e < d
          /\ After(m.sent, {d})
      BY <1>2, <2>1, <2>2
    <3> HIDE DEF d, T, F
    <3>2. p \in ManagerStates
      BY <3>1, Collects, Zenon
    <3>3. p.handler = m.handler /\ p.nesting = m.nesting
      BY <3>1 DEF Pushed, ManagerStates
    <3>4. Makes(p, F, T \cup {d})
      BY <3>1, Collects
    <3>5. Len(p.cur_bulk) = Cardinality(T \cup {d})
      BY <3>2, <3>4, BulkLength DEF Makes, ManagerStates
    <3> QED
      BY <3>2, <3>3, <3>4, <3>5 DEF d, T, F
  <2> QED
    BY <1>1, <2>1, <2>3, Zenon
<1>4. /\ m.handler = "general" => r = IF Len(p.cur_bulk) = size THEN Flushed(p) ELSE p
      /\ m.handler # "general" => r = p
  BY <1>2, Zenon DEF AddCmd, GeneralHandle, CustomHandle
<1>5. CASE Deep(s) = 0
  <2>1. /\ Cut(t, size)
        /\ Cardinality(open) # size => Open(t, size) = open /\ Closed(t, size) = Closed(s, size)
        /\ Cardinality(open) = size => Open(t, size) = {} /\ Closed(t, size) = Closed(s, size) \cup {open}
    BY <1>5, CommandOutside DEF Book
  <2>2. m.handler = "general"
    BY <1>5 DEF Book
  <2>3. open # {}
    OBVIOUS
  <2> HIDE DEF t, p, r, open, cmd
  <2>4. ASSUME Cardinality(open) = size PROVE Book(r, t, size)
    <3>1. r = Flushed(p)
      BY <1>3, <1>4, <2>2, <2>4
    <3>2. /\ r \in ManagerStates /\ r.handler = p.handler /\ r.nesting = p.nesting
          /\ Makes(r, Closed(s, size) \cup ({open} \ {{}}), {})
      BY <1>3, <3>1, Sends
    <3>3. Closed(s, size) \cup ({open} \ {{}}) = Closed(t, size)
      BY <2>1, <2>3, <2>4
    <3>4. Makes(r, Closed(t, size), Open(t, size))
      BY <2>1, <2>4, <3>2, <3>3
    <3>5. r.nesting = Deep(t) /\ r.handler = IF Deep(t) = 0 THEN "general" ELSE "custom"
      BY <1>3, <3>2, Zenon
    <3> QED
      BY <2>1, <3>2, <3>4, <3>5, Zenon DEF Book
  <2>5. ASSUME Cardinality(open) # size PROVE Book(r, t, size)
    <3>1. r = p
      BY <1>3, <1>4, <2>2, <2>5
    <3>2. Makes(p, Closed(t, size), Open(t, size))
      BY <1>3, <2>1, <2>5
    <3>3. Book(p, t, size)
      BY <1>3, <2>1, <3>2, Zenon DEF Book
    <3> QED
      BY <3>1, <3>3
  <2> QED
    BY <2>4, <2>5 DEF t, r, cmd
<1>6. CASE Deep(s) # 0
  <2>1. Deep(s) > 0
    BY <1>1, <1>6
  <2>2. Cut(t, size) /\ Open(t, size) = open /\ Closed(t, size) = Closed(s, size)
    BY <2>1, CommandInBlock DEF Book
  <2>3. r = p
    <3>1. m.handler = "custom"
      BY <1>6 DEF Book
    <3> QED
      BY <1>4, <3>1
  <2> HIDE DEF t, p, r, open, cmd
  <2>4. Book(r, t, size)
    BY <1>3, <2>2, <2>3, Zenon DEF Book
  <2> QED
    BY <2>4 DEF t, r, cmd
<1> QED
  BY <1>5, <1>6

LEMMA BookOpening ==
  ASSUME NEW m, NEW s \in Seq(Text), NEW size \in Nat \ {0}, NEW no, Book(m, s, size)
  PROVE  Book(AddCmd(m, ToCommand("{", no), size), Append(s, "{"), size)
<1> DEFINE cmd == ToCommand("{", no)
           t == Append(s, "{")
           f == Flushed(m)
           r == AddCmd(m, cmd, size)
<1>1. /\ t \in Seq(Text) /\ SameBulks(s, t, size) /\ Deep(s) \in Nat /\ At(s) \in Nat
      /\ Deep(t) = Deep(s) + 1
      /\ At(t) = IF Deep(s) = 0 THEN At(s) + 1 ELSE At(s)
  BY OpeningBrace
<1>2. cmd.type = "StartCustomBulk"
  BY DEF ToCommand, CommandType
<1>3. /\ m.handler = "general" => r = [f EXCEPT !.handler = "custom", !.nesting = @ + 1]
      /\ m.handler # "general" => r = [m EXCEPT !.nesting = @ + 1]
  BY <1>2, Zenon DEF AddCmd, GeneralHandle, CustomHandle
<1> HIDE DEF t, f, r, cmd
<1>4. Deep(t) \in Nat /\ Deep(t) > 0 /\ Deep(t) # 0
  BY <1>1
<1>5. m \in ManagerStates /\ m.nesting = Deep(s) /\ Makes(m, Closed(s, size), Open(s, size))
  BY DEF Book
<1>6. CASE Deep(s) = 0
  <2>1. Deep(t) = 1 /\ At(t) = At(s) + 1
    BY <1>1, <1>6
  <2>2. /\ Cut(t, size) /\ Open(t, size) = {}
        /\ Closed(t, size) = Closed(s, size) \cup ({Open(s, size)} \ {{}})
    BY <1>1, <1>6, <2>1, BlockEnds DEF Book
  <2>3. /\ f \in ManagerStates /\ f.nesting = m.nesting
        /\ Makes(f, Closed(t, size), Open(t, size))
    <3>1. /\ f \in ManagerStates /\ f.nesting = m.nesting
          /\ Makes(f, Closed(s, size) \cup ({Open(s, size)} \ {{}}), {})
      BY <1>5, Sends, Zenon DEF f
    <3> QED
      BY <2>2, <3>1
  <2>4. r = [f EXCEPT !.handler = "custom", !.nesting = @ + 1]
    <3>1. m.handler = "general"
      BY <1>6 DEF Book
    <3> QED
      BY <1>3, <3>1
  <2>5. f.nesting + 1 = Deep(t)
    BY <1>1, <1>5, <2>3
  <2>6. r = [[f EXCEPT !.handler = "custom"] EXCEPT !.nesting = Deep(t)]
    <3>1. f = [x \in {"handler", "nesting", "cur_bulk", "sent"} |-> f[x]]
      BY <2>3 DEF ManagerStates
    <3> QED
      BY <2>4, <2>5, <3>1
  <2>7. /\ r \in ManagerStates /\ r.handler = "custom" /\ r.nesting = Deep(t)
        /\ r.cur_bulk = f.cur_bulk /\ r.sent = f.sent
    BY <1>4, <2>3, <2>6 DEF ManagerStates
  <2>8. Book(r, t, size)
    BY <1>4, <2>2, <2>3, <2>7 DEF Book, Makes
  <2> QED
    BY <2>8 DEF t, r, cmd
<1>7. CASE Deep(s) # 0
  <2>1. Deep(s) > 0 /\ At(t) = At(s)
    BY <1>1, <1>7
  <2>2. Cut(t, size) /\ Open(t, size) = Open(s, size) /\ Closed(t, size) = Closed(s, size)
    BY <1>1, <1>4, <2>1, BraceInside DEF Book
  <2>3. m.handler = "custom"
    BY <1>7 DEF Book
  <2>4. r = [m EXCEPT !.nesting = @ + 1]
    BY <1>3, <2>3
  <2>5. m.nesting + 1 = Deep(t)
    BY <1>1, <1>5
  <2>6. /\ r \in ManagerStates /\ r.handler = "custom" /\ r.nesting = Deep(t)
        /\ r.cur_bulk = m.cur_bulk /\ r.sent = m.sent
    BY <1>4, <1>5, <2>3, <2>4, <2>5 DEF ManagerStates
  <2>7. Book(r, t, size)
    BY <1>4, <1>5, <2>2, <2>6 DEF Book, Makes
  <2> QED
    BY <2>7 DEF t, r, cmd
<1> QED
  BY <1>6, <1>7

LEMMA BookClosing ==
  ASSUME NEW m, NEW s \in Seq(Text), NEW size \in Nat \ {0}, NEW no, Book(m, s, size)
  PROVE  Book(AddCmd(m, ToCommand("}", no), size), Append(s, "}"), size)
<1> DEFINE cmd == ToCommand("}", no)
           t == Append(s, "}")
           p == [m EXCEPT !.nesting = @ - 1]
           f == Flushed(p)
           r == AddCmd(m, cmd, size)
<1>1. /\ t \in Seq(Text) /\ SameBulks(s, t, size) /\ Deep(s) \in Nat /\ At(s) \in Nat
      /\ Deep(t) = IF Deep(s) > 0 THEN Deep(s) - 1 ELSE Deep(s)
      /\ At(t) = At(s)
  BY ClosingBrace
<1>2. cmd.type = "StopCustomBulk"
  BY DEF ToCommand, CommandType
<1>3. /\ m.handler = "general" => r = m
      /\ m.handler # "general" => r = IF Outermost(m) THEN [f EXCEPT !.handler = "general"] ELSE p
  BY <1>2, Zenon DEF AddCmd, GeneralHandle, CustomHandle
<1>7. p = [m EXCEPT !.nesting = m.nesting - 1]
  OBVIOUS
<1> HIDE DEF t, p, f, r, cmd
<1>4. m \in ManagerStates /\ m.nesting = Deep(s) /\ Makes(m, Closed(s, size), Open(s, size))
  BY DEF Book
<1>5. CASE Deep(s) = 0
  <2>1. Deep(t) = 0
    BY <1>1, <1>5
  <2>2. Cut(t, size) /\ Open(t, size) = Open(s, size) /\ Closed(t, size) = Closed(s, size)
    BY <1>1, <1>5, <2>1, BraceInside DEF Book
  <2>3. m.handler = "general"
    BY <1>5 DEF Book
  <2>4. r = m
    BY <1>3, <2>3
  <2>5. Book(r, t, size)
    BY <1>4, <1>5, <2>1, <2>2, <2>3, <2>4 DEF Book
  <2> QED
    BY <2>5 DEF t, r, cmd
<1>6. CASE Deep(s) # 0
  <2>1. Deep(s) > 0 /\ Deep(t) = Deep(s) - 1 /\ Deep(t) \in Nat
    BY <1>1, <1>6
  <2>2. m.handler = "custom"
    BY <1>6 DEF Book
  <2>3. m.nesting - 1 = Deep(t)
    BY <1>4, <2>1
  <2>4. p = [m EXCEPT !.nesting = Deep(t)]
    BY <1>7, <2>3
  <2>5. r = IF Outermost(m) THEN [f EXCEPT !.handler = "general"] ELSE p
    BY <1>3, <2>2
  <2>6. /\ p \in ManagerStates /\ p.handler = "custom" /\ p.nesting = Deep(t)
        /\ p.cur_bulk = m.cur_bulk /\ p.sent = m.sent
    BY <1>4, <2>1, <2>2, <2>4 DEF ManagerStates
  <2>7. Makes(p, Closed(s, size), Open(s, size))
    BY <1>4, <2>6 DEF Makes
  <2>8. CASE Deep(s) = 1
    <3>1. Deep(t) = 0
      BY <2>1, <2>8
    <3>2. /\ Cut(t, size) /\ Open(t, size) = {}
          /\ Closed(t, size) = Closed(s, size) \cup ({Open(s, size)} \ {{}})
      BY <1>1, <2>8, <3>1, BlockEnds DEF Book
    <3>3. /\ f \in ManagerStates /\ f.nesting = Deep(t)
          /\ Makes(f, Closed(t, size), Open(t, size))
      <4>1. /\ f \in ManagerStates /\ f.nesting = p.nesting
            /\ Makes(f, Closed(s, size) \cup ({Open(s, size)} \ {{}}), {})
        BY <2>6, <2>7, Sends, Zenon DEF f
      <4> QED
        BY <2>6, <3>2, <4>1
    <3>4. r = [f EXCEPT !.handler = "general"]
      BY <1>4, <2>5, <2>8 DEF Outermost
    <3>5. /\ r \in ManagerStates /\ r.handler = "general" /\ r.nesting = Deep(t)
          /\ r.cur_bulk = f.cur_bulk /\ r.sent = f.sent
      BY <3>3, <3>4 DEF ManagerStates
    <3> QED
      BY <3>1, <3>2, <3>3, <3>5 DEF Book, Makes, t, r, cmd
  <2>9. CASE Deep(s) # 1
    <3>1. Deep(t) > 0 /\ Deep(t) # 0
      BY <1>1, <2>1, <2>9
    <3>2. Cut(t, size) /\ Open(t, size) = Open(s, size) /\ Closed(t, size) = Closed(s, size)
      BY <1>1, <2>1, <3>1, BraceInside DEF Book
    <3>3. r = p
      BY <1>4, <2>5, <2>9 DEF Outermost
    <3> QED
      BY <2>6, <2>7, <3>1, <3>2, <3>3 DEF Book, t, r, cmd
  <2> QED
    BY <2>8, <2>9
<1> QED
  BY <1>5, <1>6

\* A line more.
LEMMA BookGrows ==
  ASSUME NEW m, NEW s \in Seq(Text), NEW size \in Nat \ {0}, NEW x \in Text, Book(m, s, size)
  PROVE  Book(AddCmd(m, ToCommand(x, Len(s) + 1), size), Append(s, x), size)
<1>1. x = "base" \/ x = "{" \/ x = "}"
  BY DEF Text
<1> QED
  BY <1>1, BookCommand, BookOpening, BookClosing

-----------------------------------------------------------------------------
\* What was sent is what the README says, before the end of the input and at it.
LEMMA BookSays ==
  ASSUME NEW m, NEW s \in Seq(Text), NEW size \in Nat \ {0}, Book(m, s, size)
  PROVE  /\ m.sent = BulksOf(s, size, FALSE)
         /\ AddCmd(m, Terminator, size).sent = BulksOf(s, size, TRUE)
<1> DEFINE next == NextKey(s, size)
           K == Keys(s, size)
           Done(ended) == {k \in K : IsFinished(s, size, ended, k)}
           G(S) == {Group(s, size, k) : k \in S}
           r == AddCmd(m, Terminator, size)
<1>1. /\ next \in KeySet /\ next.block = At(s)
      /\ Deep(s) > 0 => next.part = 0
      /\ Deep(s) = 0 => next.part = 1 + Out(s) \div size
  BY NextParts
<1>2. Deep(s) \in Nat /\ At(s) \in Nat /\ Out(s) \in Nat
  <2>1. "base" \in Text
    BY DEF Text
  <2> QED
    BY <2>1, EndGrows
<1>3. \A k \in K : /\ k \in KeySet /\ Before(k, next)
                   /\ k.block \in Nat /\ k.part \in Nat
  BY DEF Book, Cut, KeySet
<1>4. \A ended : \A k \in K : IsFinished(s, size, ended, k) <=>
        \/ At(s) > k.block
        \/ k.part = 0 /\ Deep(s) = 0
        \/ k.part > 0 /\ (Deep(s) > 0 \/ ended \/ Cardinality(Group(s, size, k)) = size)
  BY DEF IsFinished, At, Deep
<1>5. \A S, ended : S = Done(ended)
        => BulksOf(s, size, ended) = InOrder({InOrder(g, <) : g \in G(S)},
                                              LAMBDA a, b : Head(a) < Head(b))
  <2> SUFFICES ASSUME NEW ended
               PROVE  {InOrder(Group(s, size, k), <) : k \in Done(ended)}
                        = {InOrder(g, <) : g \in G(Done(ended))}
    BY BulksAre
  <2> HIDE DEF Done
  <2> QED
    OBVIOUS
<1>6. /\ Covers(m.sent, G(K \ {next}))
      /\ m \in ManagerStates
      /\ Makes(m, G(K \ {next}), Open(s, size))
  BY DEF Book, Makes, Closed
<1>7. \A k \in K : k.block = At(s) \/ At(s) > k.block
  BY <1>1, <1>2, <1>3 DEF Before
<1>8. ASSUME NEW k \in K \ {next}
      PROVE  \A ended : IsFinished(s, size, ended, k)
  <2>1. CASE Deep(s) = 0
    <3>1. k.block = At(s) /\ k.part > 0 => Cardinality(Group(s, size, k)) = size
      BY <2>1 DEF Book, Cut
    <3>2. k.part = 0 \/ k.part > 0
      BY <1>3
    <3> QED
      BY <1>4, <1>7, <2>1, <3>1, <3>2
  <2>2. CASE Deep(s) # 0
    <3>1. Deep(s) > 0
      BY <1>2, <2>2
    <3>2. k.block = At(s) => k.part = 0
      BY <1>1, <1>3, <3>1 DEF Before
    <3>3. k.block # At(s)
      BY <1>1, <1>3, <3>1, <3>2, KeysDiffer
    <3> QED
      BY <1>4, <1>7, <3>3
  <2> QED
    BY <2>1, <2>2
<1>9. ASSUME NEW ended, next \in K, Deep(s) > 0 \/ ended = FALSE
      PROVE  ~ IsFinished(s, size, ended, next)
  <2>1. ~ (At(s) > next.block)
    BY <1>1, <1>2
  <2>2. CASE Deep(s) > 0
    <3>1. ~ (Deep(s) = 0) /\ ~ (next.part > 0)
      BY <1>1, <1>2, <2>2
    <3> QED
      BY <1>4, <1>9, <2>1, <3>1
  <2>3. CASE ~ (Deep(s) > 0)
    <3>1. Deep(s) = 0 /\ ended = FALSE
      BY <1>2, <1>9, <2>3
    <3>2. next.part # 0
      BY <1>1, <1>2, <3>1
    <3>3. Cardinality(Group(s, size, next)) # size
      BY <3>1 DEF Book, Cut, Open
    <3> QED
      BY <1>4, <1>9, <2>1, <2>3, <3>1, <3>2, <3>3
  <2> QED
    BY <2>2, <2>3
<1>10. ASSUME NEW ended, Deep(s) > 0 \/ ended = FALSE
       PROVE  K \ {next} = Done(ended)
  BY <1>8, <1>9, <1>10
<1>11. ASSUME Deep(s) = 0 PROVE K = Done(TRUE)
  <2>1. ASSUME next \in K PROVE IsFinished(s, size, TRUE, next)
    <3>1. next.part > 0
      BY <1>1, <1>2, <1>11
    <3> QED
      BY <1>4, <2>1, <3>1
  <2> QED
    BY <1>8, <2>1
<1> HIDE DEF Done
<1>12. m.sent = BulksOf(s, size, FALSE)
  BY <1>5, <1>6, <1>10, CoversInOrder
<1>13. CASE Deep(s) = 0
  <2>1. m.handler = "general"
    BY <1>13 DEF Book
  <2>2. r = Flushed(m)
    BY <2>1, Zenon DEF AddCmd, GeneralHandle, Terminator
  <2>3. Covers(r.sent, G(K \ {next}) \cup ({Open(s, size)} \ {{}}))
    BY <1>6, <2>2, Sends DEF Makes
  <2>4. G(K \ {next}) \cup ({Open(s, size)} \ {{}}) = G(K)
    <3>1. \A k : k \in K <=> Group(s, size, k) # {}
      BY GroupParts
    <3> QED
      BY <3>1 DEF Open
  <2>5. r.sent = BulksOf(s, size, TRUE)
    BY <1>5, <1>11, <1>13, <2>3, <2>4, CoversInOrder
  <2> QED
    BY <1>12, <2>5
<1>14. CASE Deep(s) # 0
  <2>1. Deep(s) > 0 /\ m.handler = "custom"
    BY <1>2, <1>14 DEF Book
  <2>2. r = [m EXCEPT !.cur_bulk = <<>>]
    BY <2>1, Zenon DEF AddCmd, CustomHandle, Terminator
  <2>3. r.sent = m.sent
    BY <1>6, <2>2 DEF ManagerStates
  <2>4. m.sent = BulksOf(s, size, TRUE)
    BY <1>5, <1>6, <1>10, <2>1, CoversInOrder
  <2> QED
    BY <1>12, <2>3, <2>4
<1> QED
  BY <1>13, <1>14
=============================================================================
