----------------------------- MODULE MCGSuiteSync -----------------------------
(* Documents on two pages, tasks in two lists.                               *)
EXTENDS GSuiteSync, TLC

CONSTANTS docs, tasks, i1, i2

MCApps == <<docs, tasks>>
MCPages ==
  (docs :> << [list |-> 1, ids |-> {i1}], [list |-> 1, ids |-> {i2}] >>)
  @@ (tasks :> << [list |-> 1, ids |-> {i1}], [list |-> 2, ids |-> {i2}] >>)
=============================================================================
