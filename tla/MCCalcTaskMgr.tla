---------------------------- MODULE MCCalcTaskMgr ----------------------------
(***************************************************************************)
(* A matrix of N lines calculated by two workers.  Tasks are numbers, so   *)
(* they are a definition here and not model values.                        *)
(***************************************************************************)
EXTENDS CalcTaskMgr

MCTasks == 0 .. threads_count - 1
=============================================================================
