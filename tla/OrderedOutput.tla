----------------------------- MODULE OrderedOutput -----------------------------
(***************************************************************************)
(* What the matrix savers of OTUSCppCourseWork promise: lines are handed   *)
(* over in any order, and written in the order of their numbers, each once *)
(* and none before it was handed over.                                     *)
(***************************************************************************)
EXTENDS Naturals, Sequences

CONSTANT N           \* the number of lines; they are numbered from 0

VARIABLES delivered, \* the lines handed over so far
          written    \* the numbers of the lines in the file

ooVars == <<delivered, written>>

OOInit == delivered = {} /\ written = <<>>

Deliver(l) ==
  /\ l \notin delivered
  /\ delivered' = delivered \cup {l}
  /\ UNCHANGED written

\* The next line of the file is the one whose number is the count of those
\* written before it.
Write ==
  /\ Len(written) \in delivered
  /\ written' = Append(written, Len(written))
  /\ UNCHANGED delivered

OONext == Write \/ \E l \in 0 .. N - 1 : Deliver(l)

OOSafety == OOInit /\ [][OONext]_ooVars
=============================================================================
