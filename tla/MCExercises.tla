------------------------------ MODULE MCExercises ------------------------------
(***************************************************************************)
(* Small inputs for each program.                                          *)
(***************************************************************************)
EXTENDS Exercises

\* Words that are others' beginnings, that part at each place, and three ways.
MCWords ==
  {<<1>>, <<2>>, <<3>>, <<1, 1>>, <<1, 2>>, <<1, 3>>, <<2, 1>>, <<1, 1, 1>>, <<1, 1, 2>>, <<1, 2, 1>>, <<1, 2, 2>>, <<2, 1, 3>>}

\* Files of less than a block, of one and of two; two pairs that differ in the
\* last byte only.
MCContents == {<<>>, <<1>>, <<1, 1, 1>>, <<1, 1, 2>>, <<1, 2, 2>>, <<2, 1, 2>>}

\* One hash tells all blocks apart, one gives the same for some.
MCBlocks == [1 .. 2 -> 0 .. 2]
MCHashes == {[b \in MCBlocks |-> 3 * b[1] + b[2]], [b \in MCBlocks |-> b[1] + b[2]]}

IpLine(tokens) == [tokens |-> tokens, numeric |-> TRUE]

\* Each of the three filters meets, and misses, addresses; 302, 257 and -210
\* are stored as 46, 1 and 46; the last three lines throw.
MCIpLines ==
  {IpLine(<<1, 46, 70, 1>>), IpLine(<<46, 70, 1, 1>>), IpLine(<<46, 70, 2, 1>>), IpLine(<<46, 1, 70, 1>>),
   IpLine(<<46, 71, 1, 1>>), IpLine(<<302, 70, 1, 1>>), IpLine(<<257, 2, 2, 2>>), IpLine(<<-210, 70, 0, 0>>),
   IpLine(<<46, 70, 2>>), IpLine(<<46, 70, 2, 1, 1>>), [tokens |-> <<46, 70, 2, 1>>, numeric |-> FALSE]}

\* Three offers that printing moves together, one of a first floor, one it moves away, one with fields
\* left out, one whose last field is, one too short, a blank line, a price that
\* is no number.
MCOfferLines ==
  {<<861, 553, 2, 432, 54, 7, 5, 5>>, <<861, 552, 2, 9, 30, 5, 1, 5>>, <<864, 553, 1, 9, 30, 5, 2, 10>>, <<868, 549, 2, 9, -1, 6, -1, 3>>,
   <<85, 55, 2, 80, -1, 6, 1, -1>>, <<86, 55, 1>>, <<>>, <<86, 55, 2, -2, 54, 7, 1, 3>>}

\* A near and a far place, half a line, and lines that end rclss.
MCQueryLines == {<<862, 550, 2, 432, 54, 7, 1>>, <<900, 500, 2, 432, 54, 7, 0>>, <<870>>, <<-1, 550>>, <<>>}

-----------------------------------------------------------------------------
(***************************************************************************)
(* Where the code departs from what its documents ask.  What they ask      *)
(* otherwise is the programs' properties.                                  *)
(***************************************************************************)

\* simple_list.h of OTUSLesson07 lets a list be used that has been moved from; its
\* ChunkAllocator then gives out the node that the list it was moved to gets next
\* (chunk_allocator.h:29-32, 50-63).
ASSUME NodeGivenTwice ==
  LET moved == [owned |-> <<1>>, cur |-> 1, used |-> 1]
      node(allocator) ==
        Allocate("chunk", [allocator |-> allocator, blocks |-> 1, nodes |-> <<>>, thrown |-> FALSE]).nodes
  IN  node(MovedFrom(moved)) = node(moved)

\* The tree that README.md:75-83 of OTUSLesson15 draws: the levels of its rows,
\* and which are the last of their siblings.
ReadmeTree ==
  LET drawn(lvl, last) == [lvl |-> lvl, last |-> last]
  IN  <<drawn(0, TRUE), drawn(1, FALSE), drawn(2, FALSE), drawn(3, TRUE), drawn(4, TRUE), drawn(2, TRUE),
        drawn(1, FALSE), drawn(1, TRUE)>>

\* "maksim" is drawn there with an open branch: the code draws a corner (print_rt.cpp:50).
ASSUME CornerBeforeTheLast == ~ReadmeTree[7].last /\ TreeStructure(ReadmeTree)[7].corner

\* README.md:9 of OTUSLesson27: a section starts with the start of a line and ends
\* with a whole one.  A line met twice leaves an empty section, or, when the
\* stream has failed at the end of the file, one that starts inside it (file_utils.cpp:56-64).
ASSUME EmptySection == Split(<<1, 1, 1, 0, 1>>, 3)[2] = [start |-> 4, end |-> 4]
ASSUME SectionInsideALine == Split(<<1, 1, 1, 1, 1>>, 3)[3] = [start |-> 2, end |-> 5]

\* README.md:16, 32 of OTUSLesson27: lines 11 and 12 are told apart by two
\* letters.  Two reducers both say 1 if the hash parts 1, 1 from 11, 12.
ASSUME OneTooSmall ==
  /\ LastResult(<<<<1>>, <<1>>>>) = <<1>> /\ LastResult(<<<<1, 1>>, <<1, 2>>>>) = <<1>>
  /\ LastResult(<<<<1>>, <<1>>, <<1, 1>>, <<1, 2>>>>) = <<2>>

\* README.md:45-55 of OTUSLesson25: what is in exactly one table.  What is left
\* of the left table when the right one ends is not there (database.cpp:71).
ASSUME RestOfTheLeft == SymmetricDifference({[id |-> 1, name |-> 1]}, {}) = <<>>

\* README.md:16 of OTUSLesson31: the flag is 0 on the first floor too (input_parser.cpp:31).
ASSUME FirstFloor == ParseLine(<<861, 552, 2, 9, 30, 5, 1, 5>>, 0)[Num] = 1

\* README.md:36 of OTUSLesson31: the nearest first.  Sorting sees the offers as
\* they were printed, 869 as 870 and 864 as 860 (input_parser.cpp:62-71).
ASSUME NearestNotFirst ==
  LET far == <<869, 553, 2, 9, 30, 5, 1>>
      near == <<864, 553, 2, 9, 30, 5, 1>>
      query == <<866, 550, 2, 9, 30, 5, 1>>
  IN  /\ Distance(near, query) < Distance(far, query)
      /\ Distance(SerializeSample(far), query) < Distance(SerializeSample(near), query)
=============================================================================
