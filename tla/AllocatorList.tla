----------------------------- MODULE AllocatorList -----------------------------
(***************************************************************************)
(* MyList of OTUSLesson07 over its three allocators: std::allocator (each  *)
(* node a malloc of its own), FlatAllocator (one block of N nodes) and     *)
(* ChunkAllocator (blocks of N nodes, chained).  A node is a place in a    *)
(* block; blocks are numbered as malloc returns them.                      *)
(*                                                                         *)
(* A list that has been moved from is used like any other; its allocator   *)
(* keeps cp_, idx_ and cur_data_, which point into what is now another's.  *)
(***************************************************************************)
EXTENDS Integers, Sequences, FiniteSets

CONSTANTS
  Lists,       \* the list objects
  BlockNodes,  \* N of both allocators
  MaxNodes,    \* bound: the length of a list
  MaxBlocks,   \* bound: the calls of malloc
  NodeValues

\* A template's argument, and 0 would be a block without nodes.
ASSUME AllocatorListAssumption == BlockNodes \in Nat \ {0}

Kinds == {"std", "flat", "chunk"}

VARIABLES
  lists,    \* lists[l]: is it alive, or moved from when its allocator had a block; its
            \* allocator's kind, its nodes from head_ on, the allocator
  memory,  \* what has been constructed, by node
  frees,   \* frees[b]: how often block b has been freed, for every malloc so far
  content, \* history: the values a list should hold
  misused  \* history: an allocator has given out memory that is another's

listVars == <<lists, memory, frees, content, misused>>

Nothing == [b \in {} |-> 0]

\* owned: the blocks from head_ on; cur, used: where cp_ points, idx_.
NewAllocator == [owned |-> <<>>, cur |-> 0, used |-> 0]

NoList == [alive |-> "no", kind |-> "std", nodes |-> <<>>, allocator |-> NewAllocator]

ListInit ==
  /\ lists = [l \in Lists |-> NoList]
  /\ memory = Nothing /\ frees = Nothing
  /\ content = [l \in Lists |-> <<>>]
  /\ misused = FALSE

Override(f, g) == [x \in DOMAIN f \cup DOMAIN g |-> IF x \in DOMAIN g THEN g[x] ELSE f[x]]

-----------------------------------------------------------------------------
\* Allocators.  The state of an allocation: the allocator, the number of blocks
\* malloc has returned, and whether bad_alloc was thrown.

NextBlock(s) == [s EXCEPT !.blocks = @ + 1,
                          !.allocator = [owned |-> Append(@.owned, s.blocks + 1), cur |-> s.blocks + 1, used |-> 0]]

Take(s) == [s EXCEPT !.allocator.used = @ + 1,
                     !.nodes = Append(@, <<s.allocator.cur, s.allocator.used + 1>>)]

\* (cp_ - head_) + 1 <= N; from a head_ that is nullptr no block is that near.
FlatFits(allocator) == allocator.owned # <<>> /\ allocator.used + 1 <= BlockNodes

\* FlatAllocator::allocate(1)
FlatAllocate(s) ==
  LET t == IF s.allocator.cur = 0 THEN NextBlock(s) ELSE s
  IN  IF FlatFits(t.allocator) THEN Take(t) ELSE [t EXCEPT !.thrown = TRUE]

\* idx_ is 0, or 1 more does not fit.
NeedsChunk(allocator) == allocator.used = 0 \/ allocator.used + 1 > BlockNodes

\* ChunkAllocator::allocate(1).  After a move the node is in the chunk at cp_, or in
\* a new one chained behind cur_data_: both are of the allocator moved to.
ChunkAllocate(s) == Take(IF NeedsChunk(s.allocator) THEN NextBlock(s) ELSE s)

\* std::allocator's
StdAllocate(s) ==
  [s EXCEPT !.blocks = @ + 1, !.nodes = Append(@, <<s.blocks + 1, 1>>)]

Allocate(kind, s) ==
  CASE kind = "std" -> StdAllocate(s)
    [] kind = "flat" -> FlatAllocate(s)
    [] kind = "chunk" -> ChunkAllocate(s)

\* n nodes one after the other, until bad_alloc.
AllocateNodes(kind, allocator, n) ==
  LET after[k \in 0 .. n] ==
        IF k = 0 THEN [allocator |-> allocator, blocks |-> Cardinality(DOMAIN frees), nodes |-> <<>>, thrown |-> FALSE]
        ELSE LET before == after[k - 1] IN IF before.thrown THEN before ELSE Allocate(kind, before)
  IN  after[n]

\* The blocks of an allocation, counted; those in freed are freed again at once.
Malloced(s, freed) ==
  frees' = [b \in 1 .. s.blocks |-> IF b \in DOMAIN frees THEN frees[b] ELSE IF b \in freed THEN 1 ELSE 0]

MallocBound(s) == s.blocks <= MaxBlocks

-----------------------------------------------------------------------------
\* MyList.

Construct(l, kind) ==
  /\ lists[l].alive = "no"
  /\ lists' = [lists EXCEPT ![l] = [NoList EXCEPT !.alive = "yes", !.kind = kind]]
  /\ content' = [content EXCEPT ![l] = <<>>]
  /\ UNCHANGED <<memory, frees, misused>>

\* emplace_front: when allocate throws the list stays as it is.
EmplaceFront(l, v) ==
  /\ lists[l].alive # "no"
  /\ Len(lists[l].nodes) < MaxNodes
  /\ LET s == AllocateNodes(lists[l].kind, lists[l].allocator, 1)
         \* A chunk that is chained behind another's does not become head_.
         allocator == IF lists[l].alive = "moved" THEN [s.allocator EXCEPT !.owned = <<>>] ELSE s.allocator
     IN
       /\ MallocBound(s)
       /\ misused' = (lists[l].alive = "moved" /\ ~s.thrown)
       /\ Malloced(s, {})
       /\ lists' = [lists EXCEPT ![l].allocator = allocator, ![l].nodes = s.nodes \o @]
       /\ memory' = IF s.thrown THEN memory ELSE Override(memory, [n \in {s.nodes[1]} |-> v])
       /\ content' = IF s.thrown THEN content ELSE [content EXCEPT ![l] = <<v>> \o @]

\* A copy, node by node in the order of the other list; when the allocator
\* throws, the constructor's object never lives and its allocator's block is
\* freed.
CopyNodes(l, other, kind) ==
  /\ lists[l].alive = "no" /\ lists[other].alive # "no"
  /\ UNCHANGED misused
  /\ LET from == lists[other].nodes
         s == AllocateNodes(kind, NewAllocator, Len(from))
     IN  /\ MallocBound(s)
         /\ IF s.thrown
           THEN /\ Malloced(s, {s.allocator.cur})
                /\ UNCHANGED <<lists, memory, content>>
           ELSE /\ Malloced(s, {})
                /\ lists' = [lists EXCEPT ![l] = [alive |-> "yes", kind |-> kind, nodes |-> s.nodes, allocator |-> s.allocator]]
                /\ memory' = Override(memory, [n \in {s.nodes[k] : k \in DOMAIN from} |->
                                                 memory[from[CHOOSE k \in DOMAIN from : s.nodes[k] = n]]])
                /\ content' = [content EXCEPT ![l] = content[other]]

\* The copy constructor, and the constructors from a list with another
\* allocator: a moved value of this program, two ints, is a copied one.
CopyList(l, other) == CopyNodes(l, other, lists[other].kind)
ConvertCopy(l, other, kind) == kind # lists[other].kind /\ CopyNodes(l, other, kind)
ConvertMove(l, other, kind) == kind # lists[other].kind /\ CopyNodes(l, other, kind)

\* Mutant of MovedFrom: head_ of the allocator is kept.
MovedFromKept(allocator) == allocator

\* The allocator a move leaves behind: head_ is nullptr, the rest is kept.
MovedFrom(allocator) == [allocator EXCEPT !.owned = <<>>]

MoveList(l, other) ==
  /\ lists[l].alive = "no" /\ lists[other].alive # "no"
  /\ lists' = [lists EXCEPT ![l] = lists[other],
                          ![other].alive = IF lists[other].allocator.cur = 0 THEN "yes" ELSE "moved",
                          ![other].nodes = <<>>, ![other].allocator = MovedFrom(@)]
  /\ content' = [content EXCEPT ![l] = content[other], ![other] = <<>>]
  /\ UNCHANGED <<memory, frees, misused>>

\* ~MyList deallocates the nodes, which only std::allocator's frees, then the
\* allocator frees its blocks.
DestroyList(l) ==
  /\ lists[l].alive # "no"
  /\ LET nodes == {lists[l].nodes[k][1] : k \in DOMAIN lists[l].nodes}
         owned == lists[l].allocator.owned
         gone == IF lists[l].kind = "std" THEN nodes ELSE {owned[k] : k \in DOMAIN owned}
     IN  frees' = [b \in DOMAIN frees |-> IF b \in gone THEN frees[b] + 1 ELSE frees[b]]
  /\ lists' = [lists EXCEPT ![l] = NoList]
  /\ content' = [content EXCEPT ![l] = <<>>]
  /\ UNCHANGED <<memory, misused>>

\* What two owners of the same memory do to each other is not followed.
ListNext ==
  ~misused /\ \E l \in Lists :
    \/ \E kind \in Kinds : Construct(l, kind)
    \/ \E v \in NodeValues : EmplaceFront(l, v)
    \/ \E other \in Lists \ {l} :
         \/ CopyList(l, other) \/ MoveList(l, other)
         \/ \E kind \in Kinds : ConvertCopy(l, other, kind) \/ ConvertMove(l, other, kind)
    \/ DestroyList(l)

ListSpec == ListInit /\ [][ListNext]_listVars

\* Each list holds the values put there, in nodes of its own that lie in blocks
\* not yet freed; no block is freed twice, and none is lost: what is not freed
\* belongs to a list.  A list that has been moved from is copied, moved and
\* appended to like another; with chunks, the first node it is given is another
\* list's, and what follows that is not asked about
\* (chunk_allocator.h:29-63, flat_allocator.h:19-54, simple_list.h:28-100).
ListsAreSound ==
  ~misused =>
    LET live == {l \in Lists : lists[l].alive # "no"}
        nodes(l) == lists[l].nodes
        blocks(l) == IF lists[l].kind = "std" THEN {nodes(l)[k][1] : k \in DOMAIN nodes(l)}
                     ELSE {lists[l].allocator.owned[k] : k \in DOMAIN lists[l].allocator.owned}
    IN
    /\ \A l \in live :
         /\ content[l] = [k \in DOMAIN nodes(l) |-> memory[nodes(l)[k]]]
         /\ \A k \in DOMAIN nodes(l) : /\ frees[nodes(l)[k][1]] = 0
                                       /\ nodes(l)[k][2] \in 1 .. BlockNodes
                                       /\ \A m \in live : \A j \in DOMAIN nodes(m) :
                                            nodes(l)[k] = nodes(m)[j] => l = m /\ k = j
    /\ \A b \in DOMAIN frees : frees[b] <= 1 /\ (frees[b] = 0 => \E l \in live : b \in blocks(l))
=============================================================================
