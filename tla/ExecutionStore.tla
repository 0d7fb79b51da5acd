--------------------------- MODULE ExecutionStore --------------------------
(***************************************************************************)
(* The execution tables of orion.db and the operations of                  *)
(* ExecutionRepository on them: tasks, plans, steps and runs with their    *)
(* statuses, the append-only event log, and the two counters that number   *)
(* an event within its task and within its run.                            *)
(*                                                                         *)
(* Several server processes may share the file (each takes the next free   *)
(* port), so every operation is performed by a process.  A process is      *)
(* single-threaded and SQLite access is synchronous: the only place where  *)
(* another process can come between is the pre-check of                    *)
(* transitionWithEvent, which reads the status before BEGIN IMMEDIATE.     *)
(* Everything inside an immediate transaction is one step, and a           *)
(* constraint that fails inside it rolls all of it back: the step does not *)
(* happen.                                                                 *)
(***************************************************************************)
EXTENDS Naturals, FiniteSets, StateMachines

CONSTANTS
  Task, Step, Run,     \* the rows that may come to exist, by table
  TaskOf,              \* task_steps.task_id
  StepOf,              \* runs.step_id
  Process,             \* server processes that have the database open
  NULL,                \* no pending command
  Created,             \* the statuses a row may be inserted with
  MaxEvents            \* bound: events the log may grow to

Entity    == Task \cup Step \cup Run
AnyStatus == TaskStatus \cup StepStatus \cup RunStatus
Command   == [entity : Entity, to : AnyStatus]

ASSUME StoreAssumption ==
  /\ Task \cap Step = {} /\ Task \cap Run = {} /\ Step \cap Run = {}
  /\ TaskOf \in [Step -> Task]
  /\ StepOf \in [Run -> Step]
  /\ Created \subseteq AnyStatus
  /\ NULL \notin Command
  /\ MaxEvents \in Nat

VARIABLES
  status,     \* status column of each row; "absent" before it is inserted
  plans,      \* tasks that have a row in task_plans
  session,    \* runs whose session_id is not NULL
  started,    \* runs whose started_at is not NULL
  completed,  \* rows whose completed_at is not NULL
  nextTask,   \* task_event_sequences.next_sequence (1 while there is no row)
  nextRun,    \* run_event_sequences.next_sequence (1 while there is no row)
  events,     \* rows of the events table
  pending     \* the transition a process has pre-checked and not yet begun

vars == <<status, plans, session, started, completed,
          nextTask, nextRun, events, pending>>

(***************************************************************************)
(* transitionContext: the table, and the task, an entity belongs to.       *)
(***************************************************************************)
TaskFor(e) == IF e \in Task THEN e
              ELSE IF e \in Step THEN TaskOf[e]
              ELSE TaskOf[StepOf[e]]

StatusesOf(e) == IF e \in Task THEN TaskStatus
                 ELSE IF e \in Step THEN StepStatus ELSE RunStatus

TerminalOf(e) == IF e \in Task THEN TerminalTask
                 ELSE IF e \in Step THEN TerminalStep ELSE TerminalRun

assertTransition(e, from, to) ==
  IF e \in Task THEN isAllowedTransition(taskTransitionTable, from, to)
  ELSE IF e \in Step THEN isAllowedTransition(stepTransitionTable, from, to)
  ELSE isAllowedTransition(runTransitionTable, from, to)

TriggerAdmits(e, old, new) ==
  IF e \in Task THEN tasks_transition_guard(old, new)
  ELSE IF e \in Step THEN task_steps_transition_guard(old, new)
  ELSE runs_transition_guard(old, new)

\* Mutant: a migration without the index.
runs_one_running_per_step_missing(e, new) == TRUE

\* The partial unique index runs_one_running_per_step.
runs_one_running_per_step(e, new) ==
  e \in Run /\ new = "running" =>
    \A r \in Run \ {e} : StepOf[r] = StepOf[e] => status[r] # "running"

\* An UPDATE of the status column that no trigger and no index rejects.
CanUpdateStatus(e, new) ==
  /\ new \in StatusesOf(e)
  /\ TriggerAdmits(e, status[e], new)
  /\ runs_one_running_per_step(e, new)

Event == [ task         : Task,
           subject      : Entity,   \* the row step_id / run_id point to
           taskSequence : Nat \ {0},
           runSequence  : Nat ]     \* 0 stands for NULL

TypeOK ==
  /\ status    \in [Entity -> AnyStatus \cup {"absent"}]
  /\ plans     \subseteq Task
  /\ session   \subseteq Run
  /\ started   \subseteq Run
  /\ completed \subseteq Entity
  /\ nextTask  \in [Task -> Nat \ {0}]
  /\ nextRun   \in [Run -> Nat \ {0}]
  /\ events    \subseteq Event
  /\ pending   \in [Process -> Command \cup {NULL}]

Init ==
  /\ status    = [e \in Entity |-> "absent"]
  /\ plans     = {}
  /\ session   = {}
  /\ started   = {}
  /\ completed = {}
  /\ nextTask  = [t \in Task |-> 1]
  /\ nextRun   = [r \in Run |-> 1]
  /\ events    = {}
  /\ pending   = [p \in Process |-> NULL]

(***************************************************************************)
(* allocateSequence and the INSERT that uses what it returned.  The upsert *)
(* returns the old counter and leaves it one higher.                       *)
(***************************************************************************)
NewRow(e) ==
  [ task         |-> TaskFor(e),
    subject      |-> e,
    taskSequence |-> nextTask[TaskFor(e)],
    runSequence  |-> IF e \in Run THEN nextRun[e] ELSE 0 ]

UniqueRow(row) ==
  \A ev \in events :
    /\ ~(ev.task = row.task /\ ev.taskSequence = row.taskSequence)
    /\ ~(row.subject \in Run /\ ev.subject = row.subject
                             /\ ev.runSequence = row.runSequence)

\* Mutants of InsertEvent: the counter of every run of the task advances; the oldest event makes room for the new one.
InsertEvent_shared(e) ==
  /\ Cardinality(events) < MaxEvents
  /\ events'   = events \cup {NewRow(e)}
  /\ nextTask' = [nextTask EXCEPT ![TaskFor(e)] = @ + 1]
  /\ nextRun'  = [r \in Run |-> nextRun[r] + 1]

InsertEvent_prune(e) ==
  /\ nextTask[TaskFor(e)] <= MaxEvents
  /\ events'   = { ev \in events : ev.taskSequence > 1 } \cup {NewRow(e)}
  /\ nextTask' = [nextTask EXCEPT ![TaskFor(e)] = @ + 1]
  /\ nextRun'  = IF e \in Run THEN [nextRun EXCEPT ![e] = @ + 1] ELSE nextRun

InsertEvent(e) ==
  /\ Cardinality(events) < MaxEvents
  /\ UniqueRow(NewRow(e))
  /\ events'   = events \cup {NewRow(e)}
  /\ nextTask' = [nextTask EXCEPT ![TaskFor(e)] = @ + 1]
  /\ nextRun'  = IF e \in Run THEN [nextRun EXCEPT ![e] = @ + 1] ELSE nextRun

-----------------------------------------------------------------------------
(***************************************************************************)
(* Creation.  The contract schema ties completed_at to the status a row is *)
(* inserted with; foreign keys want the parent row first.  The session and *)
(* the start of a run are the caller's, whatever status it names.          *)
(***************************************************************************)
Insert(e, s) ==
  /\ status[e] = "absent"
  /\ s \in Created \cap StatusesOf(e)
  /\ runs_one_running_per_step(e, s)
  /\ status' = [status EXCEPT ![e] = s]
  /\ completed' = IF s \in TerminalOf(e) THEN completed \cup {e} ELSE completed
  /\ UNCHANGED <<plans, nextTask, nextRun, events, pending>>

createTask(t, s) == Insert(t, s) /\ UNCHANGED <<session, started>>

createPlan(t) ==
  /\ status[t] # "absent"
  /\ t \notin plans
  /\ plans' = plans \cup {t}
  /\ UNCHANGED <<status, session, started, completed,
                 nextTask, nextRun, events, pending>>

createStep(x, s) ==
  /\ TaskOf[x] \in plans
  /\ Insert(x, s)
  /\ UNCHANGED <<session, started>>

createRun(r, s, hasSession, hasStart) ==
  /\ status[StepOf[r]] # "absent"
  /\ Insert(r, s)
  /\ session' = IF hasSession THEN session \cup {r} ELSE session
  /\ started' = IF hasStart THEN started \cup {r} ELSE started

-----------------------------------------------------------------------------
(***************************************************************************)
(* transitionWithEvent: the pre-check on a status read outside any         *)
(* transaction, then the transaction that reads it again.  It writes the   *)
(* status column only.  The transaction may also end in an error (the      *)
(* second check fails, a constraint fails, the file stays locked): nothing *)
(* is written and the caller sees the error.                               *)
(***************************************************************************)
BeginTransition(p, e, to) ==
  /\ pending[p] = NULL
  /\ status[e] # "absent"
  /\ assertTransition(e, status[e], to)
  /\ pending' = [pending EXCEPT ![p] = [entity |-> e, to |-> to]]
  /\ UNCHANGED <<status, plans, session, started, completed,
                 nextTask, nextRun, events>>

CommitTransition(p) ==
  /\ pending[p] # NULL
  /\ LET e == pending[p].entity  to == pending[p].to IN
       /\ assertTransition(e, status[e], to)
       /\ CanUpdateStatus(e, to)
       /\ status' = [status EXCEPT ![e] = to]
       /\ InsertEvent(e)
  /\ pending' = [pending EXCEPT ![p] = NULL]
  /\ UNCHANGED <<plans, session, started, completed>>

AbortTransition(p) ==
  /\ pending[p] # NULL
  /\ pending' = [pending EXCEPT ![p] = NULL]
  /\ UNCHANGED <<status, plans, session, started, completed,
                 nextTask, nextRun, events>>

\* appendRunEvent: an event of a run in whatever status the run is.
appendRunEvent(p, r) ==
  /\ pending[p] = NULL
  /\ status[r] # "absent"
  /\ InsertEvent(r)
  /\ UNCHANGED <<status, plans, session, started, completed, pending>>

\* Mutant: whatever is not running is completed.
persistProviderRunEvent_completes(p, r, nextStatus, hasSession) ==
  /\ pending[p] = NULL
  /\ status[r] # "absent"
  /\ CanUpdateStatus(r, nextStatus)
  /\ status'    = [status EXCEPT ![r] = nextStatus]
  /\ session'   = IF hasSession THEN session \cup {r} ELSE session
  /\ started'   = IF nextStatus = "running" THEN started \cup {r} ELSE started
  /\ completed' = IF nextStatus # "running" THEN completed \cup {r} ELSE completed
  /\ InsertEvent(r)
  /\ UNCHANGED <<plans, pending>>

(***************************************************************************)
(* persistProviderRunEvent: the status to write is the command's, or the   *)
(* current one when the command has none.  The result of                   *)
(* assertRunTransition is not looked at, so what refuses an illegal change *)
(* here is the trigger alone.                                              *)
(***************************************************************************)
persistProviderRunEvent(p, r, nextStatus, hasSession) ==
  /\ pending[p] = NULL
  /\ status[r] # "absent"
  /\ CanUpdateStatus(r, nextStatus)
  /\ status'    = [status EXCEPT ![r] = nextStatus]
  /\ session'   = IF hasSession THEN session \cup {r} ELSE session
  /\ started'   = IF nextStatus = "running" THEN started \cup {r} ELSE started
  /\ completed' = IF nextStatus \in TerminalRun THEN completed \cup {r}
                  ELSE completed
  /\ InsertEvent(r)
  /\ UNCHANGED <<plans, pending>>

\* persistRunSession: one UPDATE, outside any explicit transaction.
persistRunSession(p, r) ==
  /\ pending[p] = NULL
  /\ status[r] \in {"starting", "running", "stalled"}
  /\ session' = session \cup {r}
  /\ UNCHANGED <<status, plans, started, completed,
                 nextTask, nextRun, events, pending>>

-----------------------------------------------------------------------------
Next ==
  \/ \E t \in Task, s \in TaskStatus : createTask(t, s)
  \/ \E t \in Task : createPlan(t)
  \/ \E x \in Step, s \in StepStatus : createStep(x, s)
  \/ \E r \in Run, s \in RunStatus, b, c \in BOOLEAN : createRun(r, s, b, c)
  \/ \E p \in Process, e \in Entity, to \in AnyStatus : BeginTransition(p, e, to)
  \/ \E p \in Process : CommitTransition(p)
  \/ \E p \in Process : AbortTransition(p)
  \/ \E p \in Process, r \in Run : appendRunEvent(p, r)
  \/ \E p \in Process, r \in Run, s \in RunStatus, b \in BOOLEAN :
        persistProviderRunEvent(p, r, s, b)
  \/ \E p \in Process, r \in Run : persistRunSession(p, r)

Spec == Init /\ [][Next]_vars

-----------------------------------------------------------------------------
(***************************************************************************)
(* The event log.                                                          *)
(***************************************************************************)

\* No gap and no repetition: the sequence numbers of a task's events are
\* exactly the numbers below the task's counter, each used once, whatever
\* transactions failed in between.  A reader that has seen n can ask for
\* n + 1 and know that it exists or that nothing newer does.
DenseTaskLog ==
  /\ \A ev \in events : ev.taskSequence < nextTask[ev.task]
  /\ \A t \in Task : \A n \in 1 .. nextTask[t] - 1 :
       \E ev \in events : ev.task = t /\ ev.taskSequence = n
  /\ \A a, b \in events :
       a.task = b.task /\ a.taskSequence = b.taskSequence => a = b

\* The same for the numbering of a run's events by its own counter; an event
\* of a task or a step has no run sequence.
DenseRunLog ==
  /\ \A ev \in events : ev.subject \in Run =>
       ev.runSequence \in 1 .. nextRun[ev.subject] - 1
  /\ \A ev \in events : ev.subject \notin Run => ev.runSequence = 0
  /\ \A r \in Run : \A n \in 1 .. nextRun[r] - 1 :
       \E ev \in events : ev.subject = r /\ ev.runSequence = n

\* The two numberings never contradict each other: two events of one run are
\* in the same order by run sequence as by task sequence, so the timeline of
\* a run read through either is the same (isEventSequenceMonotonic).
NumberingsAgree ==
  \A a, b \in events :
    a.subject \in Run /\ a.subject = b.subject =>
      (a.taskSequence < b.taskSequence <=> a.runSequence < b.runSequence)

\* An event belongs to the task its subject belongs to.
EventsBelongToTheirTask == \A ev \in events : ev.task = TaskFor(ev.subject)

\* The log and its counters at once: what a reader of a task's or a run's
\* timeline relies on after any interleaving of commands and events, and after
\* any of them failed (execution-repository.ts:155-320, 400).
StoreConsistent == TypeOK /\ DenseTaskLog /\ DenseRunLog /\ NumberingsAgree

\* At most one run of a step is running, whichever process started it and
\* however its status was written.
OneRunningPerStep ==
  \A r, q \in Run :
    StepOf[r] = StepOf[q] /\ status[r] = "running" /\ status[q] = "running"
      => r = q

\* A completion timestamp is only ever on a row that is in a terminal status
\* (the contract schemas: "Nonterminal runs cannot have a completion
\* timestamp"), although one operation writes both and three write a status
\* alone: nothing moves a completed row on (execution-repository.ts:155-320).
\* (Of a start timestamp nothing of the kind holds: createRun takes it from its
\* caller for a run in any status, and transitionWithEvent leaves it unset.)
CompletionFollowsStatus == \A e \in completed : status[e] \in TerminalOf(e)

\* A terminal status is final: no transition pre-checked earlier by another
\* process, and no provider event persisted late, moves a row out of it.
TerminalIsFinal ==
  [][\A e \in Entity :
       status[e] \in TerminalOf(e) => status'[e] = status[e]]_vars

\* Every change of a status is an arc of its transition table, and no row goes
\* away: also where the result of the check is not looked at
\* (execution-repository.ts:228-320), and where it was made on an older status.
ChangesFollowTables ==
  [][\A e \in Entity : status[e] # "absent" /\ status'[e] # status[e] =>
       assertTransition(e, status[e], status'[e])]_vars

\* The statuses of a row are a path through its table that stops where it ends.
StatusesAreAPath == TerminalIsFinal /\ ChangesFollowTables

\* Events are never changed or removed, and one that becomes visible is
\* numbered above every event of its task that was already visible: a reader
\* that has read up to a high-water mark never misses one committed later.
CommitsAboveHighWater ==
  [][/\ events \subseteq events'
     /\ \A new \in events' \ events : \A old \in events :
          old.task = new.task => old.taskSequence < new.taskSequence]_vars
-----------------------------------------------------------------------------
(***************************************************************************)
(* The table and its counters as an implementation of EventLogs: a log is  *)
(* what a reader finds who asks for the numbers below the counter in turn. *)
(***************************************************************************)
SubjectAt(t, n) ==
  (CHOOSE ev \in events : ev.task = t /\ ev.taskSequence = n).subject

PlaceAt(r, n) ==
  (CHOOSE ev \in events : ev.subject = r /\ ev.runSequence = n).taskSequence

taskLogs == [t \in Task |-> [n \in 1 .. nextTask[t] - 1 |-> SubjectAt(t, n)]]
runLogs  == [r \in Run |-> [n \in 1 .. nextRun[r] - 1 |-> PlaceAt(r, n)]]

Logs == INSTANCE EventLogs WITH taskLog <- taskLogs, runLog <- runLogs

\* Read in the order of its numbers, the table is one append-only log for each
\* task and each run: a step appends one event to both or changes neither, under
\* two processes, stale pre-checks and failed transactions alike
\* (execution-repository.ts:155-320).
ImplementsEventLogs == Logs!Spec
=============================================================================
