----------------------------- MODULE EventLogs -----------------------------
(***************************************************************************)
(* What the event table promises its readers, without counters, rows or    *)
(* transactions: every task has one log, and every run one, to which       *)
(* events are appended and in which nothing is ever changed.  An entry of  *)
(* a run's log is the place of the event in the log of the run's task.     *)
(***************************************************************************)
EXTENDS Naturals, Sequences

CONSTANTS Task, Run, Entity, TaskFor(_)

VARIABLES
  taskLog,   \* task -> the entities its events are about, oldest first
  runLog     \* run -> the places of its events in its task's log, oldest first

vars == <<taskLog, runLog>>

Init ==
  /\ taskLog = [t \in Task |-> <<>>]
  /\ runLog  = [r \in Run |-> <<>>]

Commit(e) ==
  LET t == TaskFor(e) IN
    /\ taskLog' = [taskLog EXCEPT ![t] = Append(@, e)]
    /\ runLog'  = IF e \in Run
                  THEN [runLog EXCEPT ![e] = Append(@, Len(taskLog[t]) + 1)]
                  ELSE runLog

Next == \E e \in Entity : Commit(e)

Spec == Init /\ [][Next]_vars
=============================================================================
