------------------------------- MODULE RadixTree -------------------------------
(***************************************************************************)
(* The RadixTree of OTUSLesson15 and the program around it: words are      *)
(* inserted, then for each the shortest beginning that tells it apart is   *)
(* found by find().  A word is a sequence of letters, a node its label,    *)
(* whether a word ends there, and its children by their first letter.      *)
(***************************************************************************)
EXTENDS Integers, Sequences, FiniteSets, SequencesExt

CONSTANTS
  Words,     \* the words, none empty: operator>> reads no such
  MaxWords   \* bound: how many words are inserted

VARIABLES
  root,  \* root_, <<>> for none
  words  \* history: the words inserted

treeVars == <<root, words>>

TreeInit == root = <<>> /\ words = {}

Node(label, end, childs) == [label |-> label, end |-> end, childs |-> childs]

NoChilds == [x \in {} |-> <<>>]

CommonPrefix(s, t) ==
  LET n == CHOOSE n \in 0 .. Len(s) :
             /\ n <= Len(t) /\ SubSeq(s, 1, n) = SubSeq(t, 1, n)
             /\ n < Len(s) /\ n < Len(t) => s[n + 1] # t[n + 1]
  IN  SubSeq(s, 1, n)

Suffix(s, prefix) == SubSeq(s, Len(prefix) + 1, Len(s))

\* emplace, or assignment to childs[key].
WithChild(childs, key, node) == [x \in DOMAIN childs \cup {key} |-> IF x = key THEN node ELSE childs[x]]

\* Mutant of SplitEnd: the new node above the split is always the end of a word.
AlwaysEnd(rest) == TRUE

\* The node above a split is the end of the new word when nothing of it is left.
SplitEnd(rest) == rest = <<>>

RECURSIVE Inserted(_, _)

\* insert_recursive: the node that replaces node once str is in.
Inserted(node, str) ==
  IF node = <<>> THEN Node(str, TRUE, NoChilds)
  ELSE LET prefix == CommonPrefix(str, node.label)
           rest == Suffix(str, prefix)
           old == Node(Suffix(node.label, prefix), node.end, node.childs)
           above == WithChild(NoChilds, old.label[1], old)
       IN  CASE prefix = node.label /\ rest = <<>> -> [node EXCEPT !.end = TRUE]
             [] prefix = node.label /\ rest # <<>> ->
                  LET child == IF rest[1] \in DOMAIN node.childs THEN node.childs[rest[1]] ELSE <<>>
                  IN  [node EXCEPT !.childs = WithChild(@, rest[1], Inserted(child, rest))]
             [] prefix # node.label ->
                  Node(prefix, SplitEnd(rest),
                       IF rest = <<>> THEN above ELSE WithChild(above, rest[1], Node(rest, TRUE, NoChilds)))

Insert(w) ==
  /\ Cardinality(words \cup {w}) <= MaxWords
  /\ root' = Inserted(root, w)
  /\ words' = words \cup {w}

TreeNext == \E w \in Words : Insert(w)

-----------------------------------------------------------------------------

RECURSIVE FindBelow(_, _)

\* find_recursive; childs[str[0]] puts an empty pointer where there is no child,
\* which is found as no node.
FindBelow(node, str) ==
  IF node = <<>> \/ str = <<>> THEN 0
  ELSE LET prefix == CommonPrefix(str, node.label)
           rest == Suffix(str, prefix)
       IN  IF rest = <<>> THEN 0
           ELSE Len(prefix) + FindBelow(IF rest[1] \in DOMAIN node.childs THEN node.childs[rest[1]] ELSE <<>>, rest)

\* find: the index of the last letter that is needed.
Find(str) ==
  IF root # <<>> /\ str # <<>> /\ str = root.label THEN Len(str) - 1 ELSE FindBelow(root, str)

\* The orders in which each node's children may be iterated: an unordered_map's,
\* given for the nodes where it matters.
KeyOrders ==
  LET below(s) == {w[Len(s) + 1] : w \in {w \in words : Len(w) > Len(s) /\ SubSeq(w, 1, Len(s)) = s}}
      prefixes == UNION {{SubSeq(w, 1, n) : n \in 0 .. Len(w)} : w \in words}
  IN  [{s \in prefixes : Cardinality(below(s)) > 1} -> SetToSeqs(UNION {Range(w) : w \in words})]

RECURSIVE Values(_, _, _, _)

\* getAllValues: a stack, so the child that is pushed first is printed last.
Values(node, above, isLast, order) ==
  LET path == Append(above, node.label)
      keys == LET s == FlattenSeq(path) IN
              IF s \in DOMAIN order THEN SelectSeq(order[s], LAMBDA x : x \in DOMAIN node.childs)
              ELSE SetToSeq(DOMAIN node.childs)
      here == [path |-> path, lvl |-> Len(above), end |-> node.end, last |-> isLast]
  IN  <<here>> \o FlattenSeq([n \in DOMAIN keys |->
                   Values(node.childs[keys[Len(keys) + 1 - n]], path, n = Len(keys), order)])

\* is_continued once a row has set its level; levels count from 0.
Continued(cont, row) ==
  [i \in 1 .. Max({Len(cont), row.lvl + 1}) |->
     CASE i = row.lvl + 1 -> ~row.last
       [] i # row.lvl + 1 /\ i <= Len(cont) -> cont[i]
       [] OTHER -> FALSE]

\* utf8_formater: the columns that have a bar, and whether the row hangs from a corner.
Formatted(row, cont) == [bars |-> {i \in 0 .. row.lvl - 1 : cont[i + 1]}, corner |-> ~Last(cont)]

\* getTreeStructure: all rows but the first, which has neither bars nor corner.
TreeStructure(values) ==
  LET cont[k \in 1 .. Len(values)] == IF k = 1 THEN <<>> ELSE Continued(cont[k - 1], values[k])
  IN  [k \in 2 .. Len(values) |-> Formatted(values[k], cont[k])]

StartsWith(w, prefix) == Len(prefix) <= Len(w) /\ SubSeq(w, 1, Len(prefix)) = prefix

\* The picture of the tree: below every node with children one is flagged the
\* last; a bar runs down from every node to its next sibling, but not from one at
\* the root's level; the last child hangs from a corner, and no other does
\* (README.md:55-83 by print_rt.cpp:41-75), except that the formatter, which asks
\* back() and not the row's own level, may draw one where a deeper row came before.
PictureByTheBook(values) ==
  LET rows == DOMAIN values
      picture == TreeStructure(values)
      sibling(k, m) == Front(values[k].path) = Front(values[m].path)
      followed(k, i) == \E m \in k + 1 .. Len(values) :
                          values[m].lvl = i /\ SubSeq(values[m].path, 1, i) = SubSeq(values[k].path, 1, i)
  IN  \A k \in rows \ {1} :
        /\ values[k].last <=> \A m \in k + 1 .. Len(values) : ~sibling(k, m)
        /\ picture[k].bars = {i \in 1 .. values[k].lvl - 1 : followed(k, i)}
        /\ values[k].last => picture[k].corner
        /\ picture[k].corner /\ (\A m \in 1 .. k - 1 : values[m].lvl <= values[k].lvl) => values[k].last

\* The tree holds exactly the words inserted, whatever the order, each once, and
\* below no node with a single continuation unless a word ends there; its
\* picture shows which node hangs from which, in whatever order the children of
\* a node are iterated.  For an inserted word find() gives the shortest
\* beginning that no word has but the word and its extensions; a word all
\* others extend is found as a whole (radix_tree.cpp:15-57, 64-82).
NicknamesByTheBook ==
  root # <<>> =>
    /\ \A order \in KeyOrders :
         LET values == Values(root, <<>>, TRUE, order)
             ends == SelectSeq(values, LAMBDA v : v.end)
         IN
         /\ {FlattenSeq(ends[k].path) : k \in DOMAIN ends} = words
         /\ \A k, m \in DOMAIN values : k # m => FlattenSeq(values[k].path) # FlattenSeq(values[m].path)
         /\ \A k \in DOMAIN values :
              LET childs == {m \in DOMAIN values : values[m].lvl = values[k].lvl + 1
                                                     /\ Front(values[m].path) = values[k].path} IN
              /\ values[k].end \/ Cardinality(childs) > 1
              /\ \A m, n \in childs : Last(values[m].path)[1] = Last(values[n].path)[1] => m = n
         /\ PictureByTheBook(values)
    /\ \A w \in words :
         LET tells(n) == \A u \in words : StartsWith(u, SubSeq(w, 1, n)) => StartsWith(u, w)
             shortest == CHOOSE n \in 1 .. Len(w) : tells(n) /\ \A m \in 1 .. n - 1 : ~tells(m)
         IN  Find(w) + 1 = IF \A u \in words : StartsWith(u, w) THEN Len(w) ELSE shortest
=============================================================================
