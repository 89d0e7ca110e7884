--------------------------------- MODULE Bulks ---------------------------------
(***************************************************************************)
(* The bulks an input makes, as the READMEs of lessons 13, 19 and 21 tell  *)
(* it and without the state machine that computes them: what lies in an    *)
(* outermost { } is one bulk if the } comes, what lies outside is cut      *)
(* every size commands, at the next { and at the end of the input.         *)
(*                                                                         *)
(* An input is a sequence of lines "base", "{" and "}"; a command stands   *)
(* for itself as the number of its line.                                   *)
(***************************************************************************)
EXTENDS Naturals, Sequences, FiniteSets, SequencesExt

Text == {"base", "{", "}"}

\* The elements of S in the order of lt.
InOrder(S, lt(_, _)) ==
  [k \in 1 .. Cardinality(S) |-> CHOOSE x \in S : Cardinality({y \in S : lt(y, x)}) = k - 1]

\* The open { after each line; a } too many changes nothing.
Depth(input) ==
  LET depth[i \in 0 .. Len(input)] ==
        IF i = 0 THEN 0
        ELSE LET before == depth[i - 1] IN
             CASE input[i] = "{" -> before + 1
               [] input[i] = "}" /\ before > 0 -> before - 1
               [] OTHER -> before
  IN  depth

\* How many outermost blocks have been opened, after each line.
Block(input, depth) ==
  LET opens(i) == input[i] = "{" /\ depth[i - 1] = 0
  IN  [n \in 0 .. Len(input) |-> Cardinality({i \in 1 .. n : opens(i)})]

\* The finished bulks, in the order of the input; ended: the input is over.
BulksOf(input, size, ended) ==
  LET n == Len(input)
      depth == Depth(input)
      block == Block(input, depth)
      base == {i \in 1 .. n : input[i] = "base"}
      rank(i) == Cardinality({j \in base : j < i /\ depth[j] = 0 /\ block[j] = block[i]})
      \* Part 0 of a block number is the block, the others are cut after it.
      key == [i \in base |-> [block |-> block[i],
                              part |-> IF depth[i] > 0 THEN 0 ELSE 1 + rank(i) \div size]]
      group(k) == {i \in base : key[i] = k}
      finished(k) == \/ block[n] > k.block
                     \/ k.part = 0 /\ depth[n] = 0
                     \/ k.part > 0 /\ (depth[n] > 0 \/ ended \/ Cardinality(group(k)) = size)
      bulks == {InOrder(group(k), <) : k \in {l \in Range(key) : finished(l)}}
  IN  InOrder(bulks, LAMBDA a, b : Head(a) < Head(b))
=============================================================================
