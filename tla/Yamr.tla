---------------------------------- MODULE Yamr ----------------------------------
(***************************************************************************)
(* yamr of OTUSLesson27: a file is split into sections, a mapper task for  *)
(* each lists the prefixes of its lines, the lists are merged, shared out  *)
(* by hash to the reducer tasks, and each of these prints the least prefix *)
(* length that tells its strings apart.  Tasks of a stage run in any order *)
(* (std::async).  A character is a number, 0 the end of line; positions in *)
(* the file count from 0.                                                  *)
(***************************************************************************)
EXTENDS Integers, Sequences, FiniteSets, SequencesExt

CONSTANTS
  Chars,     \* the characters beside the end of line
  MaxFile,   \* bound: the length of the file
  MaxTasks,  \* bound: mnum
  MaxRnum    \* bound: rnum

VARIABLES
  file,       \* the file
  split_info, \* the sections: start, end
  mapped,     \* what each mapper task has returned: its lines, their prefixes
  to_reduce,  \* splitted_lists_
  reduced,    \* what the reducer tasks that are done have returned: no or one number
  stage       \* split, map, reduce, or thrown

yamrVars == <<file, split_info, mapped, to_reduce, reduced, stage>>

Eol == 0

Pending == [pending |-> TRUE]

YamrInit ==
  /\ file = <<>> /\ split_info = <<>> /\ mapped = <<>>
  /\ to_reduce = <<>> /\ reduced = <<>>
  /\ stage = "split"

-----------------------------------------------------------------------------
\* The split.

\* Where the line at pos ends: at its end of line, or at the end of the file.
LineEnd(text, pos) ==
  LET ends == {p \in pos .. Len(text) - 1 : text[p + 1] = Eol}
  IN  IF ends = {} THEN Len(text) ELSE Min(ends)

\* findEol goes past the end of line.  A stream that has met the end of the
\* file stays failed: seekg does nothing and start_pos comes back as it is.
FindEol(text, start, failed) ==
  LET eol == LineEnd(text, start)
  IN  CASE failed \/ start > Len(text) -> [pos |-> start, failed |-> TRUE]
        [] ~failed /\ eol < Len(text) -> [pos |-> eol + 1, failed |-> FALSE]
        [] OTHER -> [pos |-> Len(text), failed |-> TRUE]

Split(text, tasks) ==
  LET chunk_size == Max({Len(text) \div tasks, 1})
      found[i \in 0 .. tasks] ==
        CASE i = 0 -> [pos |-> 0, failed |-> FALSE]
          [] i = tasks -> [pos |-> Len(text), failed |-> TRUE]
          [] OTHER -> FindEol(text, i * chunk_size, found[i - 1].failed)
  IN  [i \in 1 .. tasks |-> [start |-> found[i - 1].pos, end |-> found[i].pos]]

\* The Mapper's constructor, with mnum tasks.
SplitFile(text, mnum) ==
  /\ stage = "split"
  /\ IF text = <<>> \/ mnum = 0
       THEN stage' = "thrown" /\ UNCHANGED <<file, split_info, mapped>>
       ELSE /\ stage' = "map"
            /\ file' = text
            /\ split_info' = Split(text, mnum)
            /\ mapped' = [i \in 1 .. mnum |-> Pending]
  /\ UNCHANGED <<to_reduce, reduced>>

-----------------------------------------------------------------------------
\* A mapper task.

\* Mutant of SectionRead: the section's end is passed before the task stops.
ReadPast(pos, end) == pos > end

SectionRead(pos, end) == pos >= end

RECURSIVE SectionLines(_, _)

\* The lines from pos on.  A line is read before the end is looked at; after
\* one that the end of the file cuts off tellg fails, and so does getline.
SectionLines(pos, end) ==
  LET eol == LineEnd(file, pos)
      line == SubSeq(file, pos + 1, eol)
  IN  CASE pos >= Len(file) -> <<>>
        [] pos < Len(file) /\ (eol = Len(file) \/ SectionRead(eol + 1, end)) -> <<line>>
        [] OTHER -> <<line>> \o SectionLines(eol + 1, end)

\* all_prefixes
AllPrefixes(line) == [n \in 1 .. Len(line) |-> SubSeq(line, 1, n)]

\* std::string's operator<
Less(s, t) ==
  \E n \in 0 .. Len(s) : /\ n < Len(t) /\ SubSeq(s, 1, n) = SubSeq(t, 1, n)
                         /\ n < Len(s) => s[n + 1] < t[n + 1]

\* thread_work, with all_prefixes
MapSection(i) ==
  /\ stage = "map" /\ mapped[i] = Pending
  /\ LET lines == SectionLines(split_info[i].start, split_info[i].end)
     IN  mapped' = [mapped EXCEPT ![i] = [lines |-> lines,
                      prefixes |-> SortSeq(FlattenSeq([k \in DOMAIN lines |-> AllPrefixes(lines[k])]), Less)]]
  /\ UNCHANGED <<file, split_info, to_reduce, reduced, stage>>

-----------------------------------------------------------------------------
\* Merge and reduce.

\* Mutant of MergeLists: the lists one after the other.
JoinedLists(lists) == FlattenSeq(lists)

\* mergeLists: the least of the heads, the first list's of equal ones.
MergeLists(lists) ==
  LET total == Len(FlattenSeq(lists))
      merge[n \in 0 .. total] ==
        IF n = 0 THEN [out |-> <<>>, rest |-> lists]
        ELSE LET rest == merge[n - 1].rest
                 full == {i \in DOMAIN rest : rest[i] # <<>>}
                 least == Min({i \in full : \A j \in full : ~Less(rest[j][1], rest[i][1])})
             IN  [out |-> Append(merge[n - 1].out, rest[least][1]), rest |-> [rest EXCEPT ![least] = Tail(@)]]
  IN  merge[total].out

\* All mapper tasks have been waited for; the lists are merged, written, read
\* again and split by a hash, of which nothing is assumed.  rnum = 0 throws.
MergeAndSplit(rnum) ==
  /\ stage = "map"
  /\ \A i \in DOMAIN mapped : mapped[i] # Pending
  /\ LET merged == MergeLists([i \in DOMAIN mapped |-> mapped[i].prefixes]) IN
     IF rnum = 0 THEN stage' = "thrown" /\ UNCHANGED to_reduce
     ELSE /\ stage' = "reduce"
          /\ \E idx \in [{merged[k] : k \in DOMAIN merged} -> 1 .. rnum] :
               to_reduce' = [r \in 1 .. rnum |-> SelectSeq(merged, LAMBDA s : idx[s] = r)]
  /\ UNCHANGED <<file, split_info, mapped, reduced>>

\* The reducers, on their own state, which starts as this.
NoLines == [prev |-> <<>>, counter |-> 0, max_size |-> 0, max_duplicate |-> 0, max_prefix |-> <<>>, res |-> <<>>]

Counted(state, line) == [state EXCEPT !.prev = line, !.counter = IF line = state.prev THEN @ + 1 ELSE 1]

\* GetMinUniquePrefixSize::operator(); its result is Min({max_duplicate + 1, max_size}).
MinUniquePrefixSize(state, line) ==
  LET next == Counted(state, line) IN
  [next EXCEPT !.max_size = Max({@, Len(line)}),
               !.max_duplicate = IF next.counter # 1 THEN Max({@, Len(line)}) ELSE @]

\* GetMinVirtualUniquePrefixSize::operator(); max_duplicate + 1.
MinVirtualUniquePrefixSize(state, line) ==
  LET next == Counted(state, line) IN
  IF next.counter # 1 /\ Len(line) > next.max_duplicate THEN [next EXCEPT !.max_duplicate = Len(line)] ELSE next

\* GetMaxDuplicatePrefix::operator(); max_duplicate and max_prefix.
MaxDuplicatePrefix(state, line) ==
  LET next == MinUniquePrefixSize(state, line) IN
  IF next.max_duplicate > state.max_duplicate THEN [next EXCEPT !.max_prefix = line] ELSE next

\* CalcDuplicates::operator(); res and, for the line that is being counted, counter and prev.
CalcDuplicates(state, line) ==
  [Counted(state, line) EXCEPT !.res = IF line # state.prev /\ state.prev # <<>>
                                         THEN Append(@, <<state.counter, state.prev>>) ELSE @]

\* The last result only, none for an empty list.
LastResult(list) ==
  LET last == FoldLeft(MinUniquePrefixSize, NoLines, list)
  IN  IF list = <<>> THEN <<>> ELSE <<Min({last.max_duplicate + 1, last.max_size})>>

\* thread_work
ReduceList(r) ==
  /\ stage = "reduce" /\ r \notin DOMAIN reduced
  /\ reduced' = reduced @@ (r :> LastResult(to_reduce[r]))
  /\ UNCHANGED <<file, split_info, mapped, to_reduce, stage>>

YamrNext ==
  \/ \E n \in 0 .. MaxFile, mnum \in 0 .. MaxTasks :
       \E text \in [1 .. n -> Chars \cup {Eol}] : SplitFile(text, mnum)
  \/ \E i \in DOMAIN mapped : MapSection(i)
  \/ \E rnum \in 0 .. MaxRnum : MergeAndSplit(rnum)
  \/ \E r \in DOMAIN to_reduce : ReduceList(r)

-----------------------------------------------------------------------------

\* The lines of the file.
FileLines ==
  LET starts == {p \in 0 .. Len(file) - 1 : p = 0 \/ file[p] = Eol}
  IN  [p \in starts |-> SubSeq(file, p + 1, LineEnd(file, p))]

\* A line that split() meets twice when it looks for the ends of sections, unless
\* there is nothing behind it.
CutTwice ==
  LET chunk_size == Max({Len(file) \div Len(split_info), 1})
      cuts(p) == {i \in 1 .. Len(split_info) - 1 : p <= i * chunk_size /\ i * chunk_size <= LineEnd(file, p)}
  IN  \E p \in DOMAIN FileLines :
        /\ LineEnd(file, p) + 1 # Len(file)
        /\ Cardinality({i \in cuts(p) : i * chunk_size < Len(file)}) > 1

\* Whatever the order of the tasks, no line of the file is lost; and where no line
\* is cut twice every section is of whole lines and each line is mapped once, in
\* its place (README.md:9, 12 by file_utils.cpp:56-64; mapper.h:91-106).  For a line cut twice
\* split() makes sections that are empty or start inside it, which are read all
\* the same.
EveryLineMapped ==
  stage = "reduce" =>
    LET lines == FlattenSeq([i \in DOMAIN mapped |-> mapped[i].lines])
        starts == SetToSortSeq(DOMAIN FileLines, <)
    IN
    /\ \A p \in DOMAIN FileLines :
         Cardinality({k \in DOMAIN lines : lines[k] = FileLines[p]})
           >= Cardinality({q \in DOMAIN FileLines : FileLines[q] = FileLines[p]})
    /\ ~CutTwice =>
         /\ lines = [k \in DOMAIN starts |-> FileLines[starts[k]]]
         /\ \A i \in DOMAIN split_info :
              /\ split_info[i].start < Len(file) => split_info[i].start \in DOMAIN FileLines
              /\ i > 1 => split_info[i].start = split_info[i - 1].end

\* What the four reducers of min_prefix.cpp say of one list: the strings with
\* how often each is there, in order, and the longest and the first such that
\* is there twice.
ListByTheBook(list) ==
  LET strings == {list[k] : k \in DOMAIN list}
      times(s) == Cardinality({k \in DOMAIN list : list[k] = s})
      twice == {s \in strings : times(s) > 1}
      most == Max({0} \cup {Len(s) : s \in twice})
      counts == FoldLeft(CalcDuplicates, NoLines, list)
      duplicate == FoldLeft(MaxDuplicatePrefix, NoLines, list)
  IN  /\ Append(counts.res, <<counts.counter, counts.prev>>)
           = [n \in 1 .. Cardinality(strings) |->
                LET s == CHOOSE s \in strings : Cardinality({t \in strings : Less(t, s)}) = n - 1 IN <<times(s), s>>]
      /\ FoldLeft(MinVirtualUniquePrefixSize, NoLines, list).max_duplicate = most
      /\ duplicate.max_duplicate = most
      /\ IF twice = {} THEN duplicate.max_prefix = <<>>
         ELSE /\ duplicate.max_prefix \in twice
              /\ \A s \in twice : Len(s) = most => ~Less(s, duplicate.max_prefix)

\* Where no line is cut twice, one reducer prints the least length of prefixes
\* that tells the lines apart: that of the longest beginning two of them share
\* plus one, at most that of the longest line.  Of several reducers none prints
\* more, and one prints it if its list has a longer string than a longest shared
\* beginning; otherwise the greatest number may be one too small.  The
\* reducers that count duplicates agree with the lists they are given, which
\* only lists merged in order allow (README.md:16, 32; min_prefix.h:42-80 by
\* min_prefix.cpp:50-114; reducer.cpp:42-51).
PrefixSizeByTheBook ==
  LET lines == FileLines
      shared == {0} \cup {n \in 1 .. Len(file) : \E p, q \in DOMAIN lines :
                            p # q /\ n <= Len(lines[p]) /\ n <= Len(lines[q])
                              /\ SubSeq(lines[p], 1, n) = SubSeq(lines[q], 1, n)}
      longest == Max({0} \cup {Len(lines[p]) : p \in DOMAIN lines})
      size == Min({Max(shared) + 1, longest})
      out == {reduced[r][1] : r \in {r \in DOMAIN reduced : reduced[r] # <<>>}}
      shares(list) == Max(shared) = 0 \/ \E k, m \in DOMAIN list :
                                           k # m /\ list[k] = list[m] /\ Len(list[k]) = Max(shared)
      decides(list) == shares(list) /\ \E k \in DOMAIN list : Len(list[k]) > Max(shared)
  IN  stage = "reduce" /\ DOMAIN reduced = DOMAIN to_reduce =>
        /\ \A r \in DOMAIN to_reduce : to_reduce[r] # <<>> => ListByTheBook(to_reduce[r])
        /\ ~CutTwice =>
             /\ \A n \in out : n <= size
             /\ longest > 0 /\ (Len(to_reduce) = 1 \/ \E r \in DOMAIN to_reduce : decides(to_reduce[r])) =>
                  size \in out
=============================================================================
