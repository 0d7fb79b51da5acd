-------------------------- MODULE MCExecutionStore -------------------------
(***************************************************************************)
(* A small instance of ExecutionStore: one task with one step, two runs    *)
(* (two attempts of the step) and two processes on the same database.      *)
(***************************************************************************)
EXTENDS ExecutionStore, TLC

CONSTANTS t1, x1, r1, r2, p1, p2

MCTaskOf  == x1 :> t1
MCStepOf  == r1 :> x1 @@ r2 :> x1
MCCreated == {"starting", "running"}

(* A session is written and never read, by an operation or by a property of *)
(* this run: states that differ in nothing else go on alike.                *)
View == <<status, plans, started, completed, nextTask, nextRun, events, pending>>

Alike == Permutations({r1, r2}) \cup Permutations({p1, p2})
=============================================================================
