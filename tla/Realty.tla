--------------------------------- MODULE Realty ---------------------------------
(***************************************************************************)
(* rclst, rclss and rcl_test of OTUSLesson31.  rclst clusters offers and   *)
(* saves two files, what the classifier has learned and the offers with    *)
(* their clusters; rclss answers a query with the saved offers of the      *)
(* cluster the classifier predicts.  The clustering and the classifier are *)
(* dlib's: any.  A line is a sequence of fields, a field a number or one   *)
(* of the negative numbers below; a file is <<>> or <<what it holds>>.     *)
(***************************************************************************)
EXTENDS Integers, Sequences, FiniteSets, SequencesExt

CONSTANTS
  OfferLines,   \* the lines rclst reads
  QueryLines,   \* the lines rclss reads
  Digits,       \* the significant digits a stream prints of a double, 6
  MaxOffers,    \* bound: the lines of an input and those already in .smp
  MaxClusters   \* bound: cluster_num

VARIABLES
  trn,   \* the file .trn: the clusters the classifier knows
  smp,   \* the file .smp: its lines, a cluster and seven fields each
  saved  \* history: the offers of .smp as they were read, whether .trn is of the same run

realtyVars == <<trn, smp, saved>>

Empty == -1
NotANumber == -2    \* a word that is no number
Pointer == -3 \* what a pointer left on the stack looks like as a double: stod finds it out of range

RealtyInit == trn = <<>> /\ smp = <<>> /\ saved = [offers |-> <<>>, current |-> FALSE]

Num == 7

\* Mutant of FieldsOf: empty fields are passed over.
NonEmptyFields(line) == SelectSeq(line, LAMBDA word : word # Empty)

\* read_token until the line is empty: an empty last field is not seen.
FieldsOf(line) == IF line # <<>> /\ Last(line) = Empty THEN Front(line) ELSE line

\* What an entry of a sample_type that is never assigned may hold; the same in
\* all such entries of one sample.
Leftovers == {0, Pointer}

\* convertToIntDef(word, 0)
IntOrZero(word) == IF word < 0 THEN 0 ELSE word

ParseFails(line) == \E i \in DOMAIN FieldsOf(line) : i < Num /\ FieldsOf(line)[i] = NotANumber

\* parseLine: the last two fields become a flag.
ParseLine(line, left) ==
  LET words == FieldsOf(line) IN
  [i \in 1 .. Num |->
     CASE i < Num /\ i <= Len(words) -> IF words[i] = Empty THEN 0 ELSE words[i]
       [] i = Num /\ Num < Len(words) ->
            IF IntOrZero(words[Num]) \in {0, IntOrZero(words[Num + 1])} THEN 0 ELSE 1
       [] OTHER -> left]

\* A double as it is printed.
Rounded(x) ==
  LET unit == Min({u \in {10 ^ n : n \in 0 .. Digits} : x \div u < 10 ^ Digits})
  IN  IF x < 0 THEN x ELSE ((x + unit \div 2) \div unit) * unit

SerializeSample(sample) == [i \in 1 .. Num |-> Rounded(sample[i])]

\* stod and convertToInt throw; the latter takes the first digits of a pointer's.
DeserializeFails(line) ==
  \E i \in DOMAIN FieldsOf(line) : \/ i < Num /\ FieldsOf(line)[i] < 0
                                   \/ i = Num /\ FieldsOf(line)[i] \in {Empty, NotANumber}

DeserializeSample(line, left) ==
  LET words == FieldsOf(line) IN
  [i \in 1 .. Num |->
     CASE i > Len(words) -> left
       [] i <= Len(words) /\ i < Num -> words[i]
       [] i <= Len(words) /\ i = Num -> IF words[i] = 0 THEN 0 ELSE 1]

SamplesSerialize(samples, labels) ==
  [k \in DOMAIN samples |-> [label |-> labels[k], fields |-> SerializeSample(samples[k])]]

\* RealtyTrainer::cluster; dlib's choice.
Clusterings(samples, cluster_num) == [DOMAIN samples -> 0 .. cluster_num - 1]

\* rclst.  An argument or a field that is no number ends it, 0 standing for such a
\* cluster_num, and so may dlib.  .trn is written before .smp; a run that is
\* killed between the two, or that cannot open .smp, which it does not notice,
\* leaves what rclss also reads while a run is there.
Rclst(lines, cluster_num) ==
  LET offers == SelectSeq(lines, LAMBDA line : line # <<>>) IN
  \/ UNCHANGED realtyVars
  \/ /\ cluster_num > 0 /\ Len(offers) >= cluster_num
     /\ \A k \in DOMAIN offers : ~ParseFails(offers[k])
     /\ \E left \in [DOMAIN offers -> Leftovers], labels \in Clusterings(offers, cluster_num) :
          LET samples == [k \in DOMAIN offers |-> ParseLine(offers[k], left[k])] IN
          /\ trn' = <<Range(labels)>>
          /\ \/ /\ smp' = <<SamplesSerialize(samples, labels)>>
                /\ saved' = [offers |-> [k \in DOMAIN offers |-> [line |-> offers[k], label |-> labels[k]]],
                             current |-> TRUE]
             \/ smp' = smp /\ saved' = [saved EXCEPT !.current = FALSE]

RealtyNext ==
  \E n \in 0 .. MaxOffers - Len(saved.offers), cluster_num \in 0 .. MaxClusters :
    \E lines \in [1 .. n -> OfferLines] : Rclst(lines, cluster_num)

-----------------------------------------------------------------------------
\* rclss and rcl_test read the files only.

Loads == smp # <<>> /\ \A k \in DOMAIN smp[1] : ~DeserializeFails(smp[1][k].fields)

\* The lines of .smp are whole: nothing is left unassigned.
Sample(saved_line) == DeserializeSample(saved_line.fields, 0)

\* samplesDeserializeToDb
SampleDb ==
  [c \in {smp[1][k].label : k \in DOMAIN smp[1]} |->
     LET lines == SelectSeq(smp[1], LAMBDA line : line.label = c) IN [k \in DOMAIN lines |-> Sample(lines[k])]]

\* samplesDeserializeToVector
SampleVector == [k \in DOMAIN smp[1] |-> <<smp[1][k].label, Sample(smp[1][k])>>]

\* Predictor: the constructor throws without the file; one of the clusters it knows.
Predictions == IF trn = <<>> THEN {} ELSE trn[1]

\* The square of the distance; the pointer is next to 0.
Distance(a, b) == (a[1] - IntOrZero(b[1])) ^ 2 + (a[2] - IntOrZero(b[2])) ^ 2

\* getResForCluster: any order std::sort may leave.
ResForCluster(sample, pred_cluster) ==
  LET group == IF pred_cluster \in DOMAIN SampleDb THEN SampleDb[pred_cluster] ELSE <<>>
  IN  {[j \in DOMAIN group |-> SerializeSample(group[order[j]])] :
         order \in {p \in SetToSeqs(DOMAIN group) :
                      \A i, j \in DOMAIN p : i < j => Distance(group[p[i]], sample) <= Distance(group[p[j]], sample)}}

\* rcl_test, with the cluster predicted for each sample.
RclTest(predicted) ==
  LET all == UNION {{c} \X DOMAIN SampleDb[c] : c \in DOMAIN SampleDb}
  IN  [all_cnt |-> Cardinality(all), pos_cnt |-> Cardinality({x \in all : predicted[SampleDb[x[1]][x[2]]] = x[1]})]

-----------------------------------------------------------------------------

\* An offer as it should be answered: as printed, the flag 0 for the first floor
\* and the last (README.md:16 and the comment at input_parser.cpp:16).
Offer(line) ==
  [i \in 1 .. Num |->
     IF i < Num THEN Rounded(IntOrZero(line[i])) ELSE IF line[Num] \in {1, line[Num + 1]} THEN 0 ELSE 1]

\* No floor is given, or it is the first of several.
DoubtfulFloor(line) == line[Num] = Empty \/ (line[Num] = 1 /\ line[Num + 1] # 1)

Whole(line) == Len(line) > Num /\ line[Num + 1] # Empty

Short(line) == Len(line) < Num - 1 \/ (Len(line) = Num - 1 /\ Last(line) = Empty)

\* Printing has moved the offer.
Moved(line) == \E i \in {1, 2} : Rounded(line[i]) # line[i]

\* Whatever runs of rclst ended between their two files, only an offer of fewer
\* than six fields can keep rclss from starting.  A query is answered with the
\* offers of the predicted cluster, each once, none of another, nearest first
\* as far as printing has not moved them, and each field of a whole offer is the
\* one that was read but for the digits printing drops; so is the flag, unless
\* the floor is not given or the first of several.  Only when
\* .trn is of another run than .smp is there no answer.  rcl_test counts every
\* offer (input_parser.cpp:14-155, predictor.cpp:26-42, rclst_main.cpp:22-29).
OffersByTheBook ==
  smp # <<>> =>
    LET offers == saved.offers IN
    /\ Loads \/ \E k \in DOMAIN offers : Short(offers[k].line)
    /\ Loads =>
         /\ \A c \in DOMAIN SampleDb : SampleDb[c] = LET of_c == SelectSeq(SampleVector, LAMBDA x : x[1] = c)
                                                     IN  [k \in DOMAIN of_c |-> of_c[k][2]]
         /\ \A c \in Predictions :
              LET counted == RclTest([sample \in UNION {Range(SampleDb[d]) : d \in DOMAIN SampleDb} |-> c]) IN
              /\ counted.all_cnt = Len(offers)
              /\ counted.pos_cnt = Cardinality({k \in DOMAIN offers : offers[k].label = c})
         /\ \A query \in {q \in QueryLines : ~DeserializeFails(q)}, left \in Leftovers, c \in Predictions :
              \A answer \in ResForCluster(DeserializeSample(query, left), c) :
                /\ saved.current => answer # <<>>
                /\ \E order \in SetToSeqs({k \in DOMAIN offers : offers[k].label = c}) :
                     LET line(j) == offers[order[j]].line IN
                     /\ Len(answer) = Len(order)
                     /\ \A j \in DOMAIN order, i \in 1 .. Num :
                          Whole(line(j)) /\ (i < Num \/ ~DoubtfulFloor(line(j))) => answer[j][i] = Offer(line(j))[i]
                     /\ \A i, j \in DOMAIN order :
                          /\ i < j /\ Whole(line(i)) /\ Whole(line(j)) /\ Len(query) > 2
                          /\ ~Moved(line(i)) /\ ~Moved(line(j))
                          => Distance(line(i), query) <= Distance(line(j), query)
=============================================================================
