--------------------------- MODULE StateMachines ---------------------------
(***************************************************************************)
(* The three lifecycles of Orion Console: tasks, plan steps and provider   *)
(* runs.  The code states each of them twice.  packages/orchestration      *)
(* keeps a TypeScript table per lifecycle, which the repository consults   *)
(* before it writes, and migration 0001_core.sql installs a trigger per    *)
(* table, which SQLite consults when a row's status is updated.  Both are  *)
(* translated here, from their own text: the tables as functions from a    *)
(* status to the set of its successors, the triggers as predicates on the  *)
(* old and the new status.                                                 *)
(***************************************************************************)

taskTransitionTable ==
  [ draft            |-> {"planning", "cancelled"},
    planning         |-> {"queued", "failed", "cancelled"},
    queued           |-> {"running", "cancelled", "limit_reached"},
    running          |-> {"waiting_approval", "succeeded", "failed",
                          "cancelled", "limit_reached"},
    waiting_approval |-> {"queued", "cancelled", "failed", "limit_reached"},
    succeeded        |-> {},
    failed           |-> {},
    cancelled        |-> {},
    limit_reached    |-> {} ]

stepTransitionTable ==
  [ waiting          |-> {"ready", "skipped", "cancelled"},
    ready            |-> {"running", "cancelled", "skipped"},
    running          |-> {"retry_wait", "waiting_approval", "succeeded",
                          "failed", "cancelled", "interrupted"},
    retry_wait       |-> {"ready", "failed", "cancelled"},
    waiting_approval |-> {"ready", "cancelled", "failed"},
    interrupted      |-> {"ready", "failed", "cancelled"},
    succeeded        |-> {},
    failed           |-> {},
    skipped          |-> {},
    cancelled        |-> {} ]

runTransitionTable ==
  [ starting    |-> {"running", "failed", "cancelled", "interrupted"},
    running     |-> {"stalled", "succeeded", "failed", "timed_out",
                     "cancelled", "interrupted"},
    stalled     |-> {"running", "succeeded", "failed", "timed_out",
                     "cancelled", "interrupted"},
    succeeded   |-> {},
    failed      |-> {},
    timed_out   |-> {},
    cancelled   |-> {},
    interrupted |-> {} ]

TaskStatus == {"draft", "planning", "queued", "running", "waiting_approval",
               "succeeded", "failed", "cancelled", "limit_reached"}

StepStatus == {"waiting", "ready", "running", "retry_wait", "waiting_approval",
               "succeeded", "failed", "skipped", "cancelled", "interrupted"}

RunStatus == {"starting", "running", "stalled", "succeeded", "failed",
              "timed_out", "cancelled", "interrupted"}

\* isAllowedTransition: the tables are consulted with a status of their own.
isAllowedTransition(table, from, to) == to \in table[from]

(***************************************************************************)
(* The SQL triggers.  Each lets an update through when the status is       *)
(* unchanged or the pair of statuses is listed.                            *)
(***************************************************************************)
tasks_transition_guard(old, new) ==
  \/ new = old
  \/ old = "draft"            /\ new \in {"planning", "cancelled"}
  \/ old = "planning"         /\ new \in {"queued", "failed", "cancelled"}
  \/ old = "queued"           /\ new \in {"running", "cancelled", "limit_reached"}
  \/ old = "running"          /\ new \in {"waiting_approval", "succeeded",
                                          "failed", "cancelled", "limit_reached"}
  \/ old = "waiting_approval" /\ new \in {"queued", "cancelled", "failed",
                                          "limit_reached"}

task_steps_transition_guard(old, new) ==
  \/ new = old
  \/ old = "waiting"          /\ new \in {"ready", "skipped", "cancelled"}
  \/ old = "ready"            /\ new \in {"running", "cancelled", "skipped"}
  \/ old = "running"          /\ new \in {"retry_wait", "waiting_approval",
                                          "succeeded", "failed", "cancelled",
                                          "interrupted"}
  \/ old = "retry_wait"       /\ new \in {"ready", "failed", "cancelled"}
  \/ old = "waiting_approval" /\ new \in {"ready", "cancelled", "failed"}
  \/ old = "interrupted"      /\ new \in {"ready", "failed", "cancelled"}

\* Mutant: a timed-out run may be resumed in place.
runs_transition_guard_resumable(old, new) ==
  \/ old = "timed_out" /\ new \in {"timed_out", "running"}
  \/ old \in {"starting", "running", "stalled"}

runs_transition_guard(old, new) ==
  \/ new = old
  \/ old = "starting" /\ new \in {"running", "failed", "cancelled",
                                  "interrupted"}
  \/ old = "running"  /\ new \in {"stalled", "succeeded", "failed",
                                  "timed_out", "cancelled", "interrupted"}
  \/ old = "stalled"  /\ new \in {"running", "succeeded", "failed",
                                  "timed_out", "cancelled", "interrupted"}

(***************************************************************************)
(* The statuses the contract schemas call terminal: an entity in one of    *)
(* them must carry a completion timestamp, one in no other may.            *)
(***************************************************************************)
TerminalTask == {"succeeded", "failed", "cancelled", "limit_reached"}
TerminalStep == {"succeeded", "failed", "skipped", "cancelled"}
TerminalRun  == {"succeeded", "failed", "timed_out", "cancelled", "interrupted"}
=============================================================================
