----------------------------- MODULE MCThreadPool -----------------------------
(***************************************************************************)
(* A pool of two workers, two threads that add up to three tasks of        *)
(* different sizes.                                                        *)
(***************************************************************************)
EXTENDS ThreadPool

CONSTANTS t1, t2, t3

MCTasks == {t1, t2, t3}
MCSize == [t \in MCTasks |-> IF t = t1 THEN 0 ELSE IF t = t2 THEN 1 ELSE 3]
=============================================================================
