------------------------------- MODULE IpFilter -------------------------------
(***************************************************************************)
(* The ip filters of OTUSLesson3 and OTUSLesson5, which read the same      *)
(* input side by side.  Lesson 3 narrows a range of the sorted pool by     *)
(* binary searches, one for each leading part; lesson 5 filters the pool   *)
(* as a view.  A line is what stands before its tab: the tokens between    *)
(* its dots, and whether each begins with a number.                        *)
(***************************************************************************)
EXTENDS Integers, Sequences, FiniteSets, TLC

CONSTANTS
  IpLines,   \* the lines that may come: [tokens, numeric]
  MaxLines   \* bound: how many of them

VARIABLES
  ip_pool,   \* the addresses read
  reading,   \* yes, no, or thrown: a line was no address
  printed    \* what the two programs have printed: pools, in order

ipVars == <<ip_pool, reading, printed>>

IP_SIZE == 4

IpInit == ip_pool = <<>> /\ reading = "yes" /\ printed = [lesson3 |-> <<>>, lesson5 |-> <<>>]

\* static_cast<unsigned char>
IPPart(n) == n % 256

\* parse_ip takes four numbers; one dot after the last is not noticed.
IsIp(line) == Len(line.tokens) = IP_SIZE /\ line.numeric

ParseIp(line) == [p \in 1 .. IP_SIZE |-> IPPart(line.tokens[p])]

\* read_ips
ReadIp(line) ==
  /\ reading = "yes" /\ Len(ip_pool) < MaxLines
  /\ IF IsIp(line) THEN ip_pool' = Append(ip_pool, ParseIp(line)) /\ UNCHANGED reading
     ELSE reading' = "thrown" /\ UNCHANGED ip_pool
  /\ UNCHANGED printed

-----------------------------------------------------------------------------

\* The order of std::array, on two addresses that are not equal.
Greater(ip1, ip2) ==
  \E p \in 1 .. IP_SIZE : ip1[p] > ip2[p] /\ \A q \in 1 .. p - 1 : ip1[q] = ip2[q]

Descending(pool) == SortSeq(pool, Greater)

\* equal_range, of a range sorted by the part, greatest first.
EqualRange(range, part, value) ==
  SubSeq(range, 1 + Cardinality({i \in DOMAIN range : range[i][part] > value}),
                Len(range) - Cardinality({i \in DOMAIN range : range[i][part] < value}))

\* Mutant of PartAfter: every value is searched for in the same part.
SamePart(part) == part

PartAfter(part) == part + 1

RECURSIVE FilterInternal(_, _, _)

\* ip_filter_internal: the rest of the values is looked for in the range found.
FilterInternal(range, part, values) ==
  IF values = <<>> THEN range
  ELSE FilterInternal(EqualRange(range, part, values[1]), PartAfter(part), Tail(values))

\* ip_filter(range, values...)
FilterRange(pool, values) == FilterInternal(pool, 1, values)

\* ip_filter_copy_any
FilterAny(pool, value) == SelectSeq(pool, LAMBDA ip : \E p \in 1 .. IP_SIZE : ip[p] = value)

\* main of lesson 3
Main3(pool) ==
  LET sorted == Descending(pool)
  IN  <<sorted, FilterRange(sorted, <<1>>), FilterRange(sorted, <<46, 70>>), FilterAny(sorted, 46)>>

\* view::filter
View(pool, part, value) == SelectSeq(pool, LAMBDA ip : ip[part] = value)

\* is_any_part, in a filter
ViewAny(pool, value) == SelectSeq(pool, LAMBDA ip : value \in {ip[p] : p \in 1 .. IP_SIZE})

\* main of lesson 5
Main5(pool) ==
  LET sorted == Descending(pool)
  IN  <<sorted, View(sorted, 1, 1), View(View(sorted, 1, 46), 2, 70), ViewAny(sorted, 46)>>

\* The end of the input: both sort and print; nothing is printed after a throw.
PrintPools ==
  /\ reading = "yes"
  /\ reading' = "no"
  /\ printed' = [lesson3 |-> Main3(ip_pool), lesson5 |-> Main5(ip_pool)]
  /\ UNCHANGED ip_pool

IpNext == (\E line \in IpLines : ReadIp(line)) \/ PrintPools

\* Both programs print the same four pools, and they are: all addresses, as
\* often as they were read, greatest first; and of these, in the same order,
\* exactly those that begin with 1, that begin with 46.70, that have a 46
\* anywhere.  The binary searches find whole ranges although each looks at one
\* part only (ip_filter.h:63-79).
FiltersByTheBook ==
  reading = "no" =>
    LET pools == printed.lesson3
        all == pools[1]
        picked(pool, Test(_)) ==
          LET at == {i \in DOMAIN all : Test(all[i])} IN
          /\ Len(pool) = Cardinality(at)
          /\ \A i \in at : pool[Cardinality({j \in at : j <= i})] = all[i]
    IN  /\ printed.lesson5 = pools
        /\ Len(all) = Len(ip_pool)
        /\ \A ip \in {ip_pool[i] : i \in DOMAIN ip_pool} :
             Cardinality({i \in DOMAIN all : all[i] = ip}) = Cardinality({i \in DOMAIN ip_pool : ip_pool[i] = ip})
        /\ \A i, j \in DOMAIN all : i < j => all[i] = all[j] \/ Greater(all[i], all[j])
        /\ picked(pools[2], LAMBDA ip : ip[1] = 1)
        /\ picked(pools[3], LAMBDA ip : ip[1] = 46 /\ ip[2] = 70)
        /\ picked(pools[4], LAMBDA ip : \E p \in 1 .. IP_SIZE : ip[p] = 46)
=============================================================================
