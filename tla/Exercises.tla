------------------------------- MODULE Exercises -------------------------------
(***************************************************************************)
(* The programs and libraries that share nothing: one of them is chosen    *)
(* first, then it alone runs.                                              *)
(***************************************************************************)
EXTENDS SparseMatrix, AllocatorList, RadixTree, FileCompare, IpFilter, Yamr, DatabaseBySteps, Realty,
        BulkMt

VARIABLE exercise  \* the one that runs

exercisesVars ==
  <<matrixVars, listVars, treeVars, cmpVars, ipVars, yamrVars, db, realtyVars, mtVars, exercise>>

ExercisesInit ==
  /\ MatrixInit /\ ListInit /\ TreeInit /\ CompareInit /\ IpInit /\ YamrInit /\ DatabaseInit /\ RealtyInit
  /\ MtInit
  /\ exercise \in {"matrix", "list", "radix tree", "bayan", "ip_filter", "yamr", "database", "realty",
                  "bulkmt"}

RunMatrix ==
  /\ exercise = "matrix" /\ MatrixNext
  /\ UNCHANGED <<listVars, treeVars, cmpVars, ipVars, yamrVars, db, realtyVars, mtVars, exercise>>

RunList ==
  /\ exercise = "list" /\ ListNext
  /\ UNCHANGED <<matrixVars, treeVars, cmpVars, ipVars, yamrVars, db, realtyVars, mtVars, exercise>>

RunTree ==
  /\ exercise = "radix tree" /\ TreeNext
  /\ UNCHANGED <<matrixVars, listVars, cmpVars, ipVars, yamrVars, db, realtyVars, mtVars, exercise>>

RunBayan ==
  /\ exercise = "bayan" /\ CompareNext
  /\ UNCHANGED <<matrixVars, listVars, treeVars, ipVars, yamrVars, db, realtyVars, mtVars, exercise>>

RunIpFilter ==
  /\ exercise = "ip_filter" /\ IpNext
  /\ UNCHANGED <<matrixVars, listVars, treeVars, cmpVars, yamrVars, db, realtyVars, mtVars, exercise>>

RunYamr ==
  /\ exercise = "yamr" /\ YamrNext
  /\ UNCHANGED <<matrixVars, listVars, treeVars, cmpVars, ipVars, db, realtyVars, mtVars, exercise>>

RunDatabase ==
  /\ exercise = "database" /\ DatabaseNext
  /\ UNCHANGED <<matrixVars, listVars, treeVars, cmpVars, ipVars, yamrVars, realtyVars, mtVars, exercise>>

RunRealty ==
  /\ exercise = "realty" /\ RealtyNext
  /\ UNCHANGED <<matrixVars, listVars, treeVars, cmpVars, ipVars, yamrVars, db, mtVars, exercise>>

RunBulkMt ==
  /\ exercise = "bulkmt" /\ MtNext
  /\ UNCHANGED <<matrixVars, listVars, treeVars, cmpVars, ipVars, yamrVars, db, realtyVars, exercise>>

ExercisesNext ==
  \/ RunMatrix \/ RunList \/ RunTree \/ RunBayan \/ RunIpFilter \/ RunYamr \/ RunDatabase \/ RunRealty
  \/ RunBulkMt

ExercisesSpec == ExercisesInit /\ [][ExercisesNext]_exercisesVars
=============================================================================
