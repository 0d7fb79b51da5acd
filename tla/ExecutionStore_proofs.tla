----------------------- MODULE ExecutionStore_proofs -----------------------
(***************************************************************************)
(* Theorems about ExecutionStore, for every set of tasks, steps, runs and  *)
(* processes and every bound on the log.                                   *)
(***************************************************************************)
EXTENDS ExecutionStore, SequenceTheorems, TLAPS

USE DEF Entity, Event, Command

\* The trigger of every table lets a terminal status change into nothing else.
LEMMA TerminalSticks ==
  ASSUME NEW e, NEW old \in TerminalOf(e), NEW new, TriggerAdmits(e, old, new)
  PROVE  new = old
BY DEF TerminalOf, TriggerAdmits, TerminalTask, TerminalStep, TerminalRun,
       tasks_transition_guard, task_steps_transition_guard, runs_transition_guard

\* transitionContext resolves every entity to a task.
LEMMA TaskForType ==
  ASSUME StoreAssumption, NEW e \in Entity
  PROVE  TaskFor(e) \in Task
BY DEF StoreAssumption, TaskFor

LEMMA StatusTypes ==
  ASSUME NEW e
  PROVE  StatusesOf(e) \subseteq AnyStatus
BY DEF StatusesOf, AnyStatus

-----------------------------------------------------------------------------
(***************************************************************************)
(* Type correctness.                                                       *)
(***************************************************************************)
LEMMA InsertEventType ==
  ASSUME StoreAssumption, TypeOK, NEW e \in Entity, InsertEvent(e)
  PROVE  /\ NewRow(e) \in Event
         /\ events' \subseteq Event
         /\ nextTask' \in [Task -> Nat \ {0}]
         /\ nextRun' \in [Run -> Nat \ {0}]
<1>1. TaskFor(e) \in Task
  BY TaskForType
<1>2. NewRow(e) \in Event
  BY <1>1 DEF NewRow, TypeOK
<1>3. nextTask' \in [Task -> Nat \ {0}]
  BY <1>1 DEF InsertEvent, TypeOK
<1>4. nextRun' \in [Run -> Nat \ {0}]
  BY DEF InsertEvent, TypeOK
<1> QED BY <1>2, <1>3, <1>4 DEF InsertEvent, TypeOK

LEMMA InsertType ==
  ASSUME StoreAssumption, TypeOK, NEW e \in Entity, NEW s, Insert(e, s),
         session' \subseteq Run, started' \subseteq Run
  PROVE  TypeOK'
<1>1. s \in AnyStatus
  BY StatusTypes DEF Insert
<1> QED BY <1>1 DEF Insert, TypeOK

LEMMA NextType == ASSUME StoreAssumption, TypeOK, [Next]_vars PROVE TypeOK'
<1>1. ASSUME NEW t \in Task, NEW s, createTask(t, s) PROVE TypeOK'
  BY <1>1, InsertType DEF createTask, TypeOK
<1>2. ASSUME NEW t \in Task, createPlan(t) PROVE TypeOK'
  BY <1>2 DEF createPlan, TypeOK
<1>3. ASSUME NEW x \in Step, NEW s, createStep(x, s) PROVE TypeOK'
  BY <1>3, InsertType DEF createStep, TypeOK
<1>4. ASSUME NEW r \in Run, NEW s, NEW b, NEW c, createRun(r, s, b, c)
      PROVE  TypeOK'
  BY <1>4, InsertType DEF createRun, TypeOK
<1>5. ASSUME NEW p \in Process, NEW e \in Entity, NEW to \in AnyStatus,
             BeginTransition(p, e, to)
      PROVE  TypeOK'
  BY <1>5 DEF BeginTransition, TypeOK
<1>6. ASSUME NEW p \in Process, CommitTransition(p) PROVE TypeOK'
  <2>1. pending[p] \in Command
    BY <1>6 DEF CommitTransition, TypeOK
  <2> DEFINE e == pending[p].entity
             to == pending[p].to
  <2>2. e \in Entity /\ to \in AnyStatus
    BY <2>1
  <2>3. InsertEvent(e) /\ status' = [status EXCEPT ![e] = to]
    BY <1>6 DEF CommitTransition
  <2> HIDE DEF e, to
  <2>4. /\ events' \subseteq Event
        /\ nextTask' \in [Task -> Nat \ {0}]
        /\ nextRun' \in [Run -> Nat \ {0}]
    BY <2>2, <2>3, InsertEventType
  <2>5. status' \in [Entity -> AnyStatus \cup {"absent"}]
    BY <2>2, <2>3 DEF TypeOK
  <2> QED BY <1>6, <2>4, <2>5 DEF CommitTransition, TypeOK
<1>7. ASSUME NEW p \in Process, AbortTransition(p) PROVE TypeOK'
  BY <1>7 DEF AbortTransition, TypeOK
<1>8. ASSUME NEW p \in Process, NEW r \in Run, appendRunEvent(p, r) PROVE TypeOK'
  BY <1>8, InsertEventType DEF appendRunEvent, TypeOK
<1>9. ASSUME NEW p \in Process, NEW r \in Run, NEW s \in RunStatus,
             NEW b \in BOOLEAN, persistProviderRunEvent(p, r, s, b)
      PROVE  TypeOK'
  <2>1. /\ events' \subseteq Event
        /\ nextTask' \in [Task -> Nat \ {0}]
        /\ nextRun' \in [Run -> Nat \ {0}]
    BY <1>9, InsertEventType DEF persistProviderRunEvent
  <2>2. /\ status' = [status EXCEPT ![r] = s]
        /\ session' \in {session, session \cup {r}}
        /\ started' \in {started, started \cup {r}}
        /\ completed' \in {completed, completed \cup {r}}
        /\ UNCHANGED <<plans, pending>>
    BY <1>9 DEF persistProviderRunEvent
  <2>3. s \in AnyStatus
    BY DEF AnyStatus
  <2> QED BY <2>1, <2>2, <2>3 DEF TypeOK
<1>10. ASSUME NEW p \in Process, NEW r \in Run, persistRunSession(p, r)
       PROVE  TypeOK'
  BY <1>10 DEF persistRunSession, TypeOK
<1>11. CASE UNCHANGED vars
  BY <1>11 DEF vars, TypeOK
<1> QED
  BY <1>1, <1>2, <1>3, <1>4, <1>5, <1>6, <1>7, <1>8, <1>9, <1>10, <1>11
     DEF Next

\* Every reachable state of the execution tables is well formed: statuses come
\* from the columns' domains, counters are positive, event rows well typed.
THEOREM TypeCorrect == Spec => []TypeOK
<1>1. Init => TypeOK
  BY DEF Init, TypeOK
<1>2. TypeOK /\ [Next]_vars => TypeOK'
  BY StoreAssumption, NextType
<1> QED BY <1>1, <1>2, PTL DEF Spec

-----------------------------------------------------------------------------
(***************************************************************************)
(* What a step may do to the log and to a status, whichever operation it   *)
(* is: the two lemmas through which the invariants below look at Next.     *)
(***************************************************************************)

\* A step leaves the log and its counters alone or inserts one event.
LEMMA LogStep ==
  ASSUME StoreAssumption, TypeOK, [Next]_vars
  PROVE  \/ UNCHANGED <<events, nextTask, nextRun>>
         \/ \E e \in Entity : InsertEvent(e)
<1>1. ASSUME NEW p \in Process, CommitTransition(p)
      PROVE  \E e \in Entity : InsertEvent(e)
  <2>1. pending[p].entity \in Entity
    BY <1>1 DEF CommitTransition, TypeOK
  <2> QED BY <1>1, <2>1 DEF CommitTransition
<1>2. CASE UNCHANGED vars
  BY <1>2 DEF vars
<1> QED
  BY <1>1, <1>2
     DEF Next, createTask, createPlan, createStep, createRun, Insert,
         BeginTransition, AbortTransition, appendRunEvent,
         persistProviderRunEvent, persistRunSession

\* A status the row may be given: by an INSERT, or by an UPDATE that the
\* trigger and the index let through.
Admitted(e, s) ==
  /\ s \in StatusesOf(e)
  /\ status[e] = "absent" \/ TriggerAdmits(e, status[e], s)
  /\ runs_one_running_per_step(e, s)

\* A step leaves every status alone or writes an admitted one to one row.
LEMMA StatusStep ==
  ASSUME StoreAssumption, TypeOK, [Next]_vars
  PROVE  \/ UNCHANGED status
         \/ \E e \in Entity, s \in AnyStatus :
              Admitted(e, s) /\ status' = [status EXCEPT ![e] = s]
<1>1. ASSUME NEW e \in Entity, NEW s, Insert(e, s)
      PROVE  s \in AnyStatus /\ Admitted(e, s) /\ status' = [status EXCEPT ![e] = s]
  BY <1>1, StatusTypes DEF Insert, Admitted
<1>2. ASSUME NEW p \in Process, CommitTransition(p)
      PROVE  \E e \in Entity, s \in AnyStatus :
               Admitted(e, s) /\ status' = [status EXCEPT ![e] = s]
  <2>1. pending[p] \in Command
    BY <1>2 DEF CommitTransition, TypeOK
  <2>2. pending[p].entity \in Entity /\ pending[p].to \in AnyStatus
    BY <2>1
  <2> QED BY <1>2, <2>2 DEF CommitTransition, CanUpdateStatus, Admitted
<1>3. ASSUME NEW p \in Process, NEW r \in Run, NEW s \in RunStatus,
             NEW b \in BOOLEAN, persistProviderRunEvent(p, r, s, b)
      PROVE  s \in AnyStatus /\ Admitted(r, s) /\ status' = [status EXCEPT ![r] = s]
  BY <1>3 DEF persistProviderRunEvent, CanUpdateStatus, Admitted, AnyStatus
<1>4. CASE UNCHANGED vars
  BY <1>4 DEF vars
<1>5. ASSUME NEW t \in Task, createPlan(t) PROVE UNCHANGED status
  BY <1>5 DEF createPlan
<1> QED
  BY <1>1, <1>2, <1>3, <1>4, <1>5
     DEF Next, createTask, createStep, createRun,
         BeginTransition, AbortTransition, appendRunEvent, persistRunSession

-----------------------------------------------------------------------------
(***************************************************************************)
(* The log.  That a run's two numberings agree is inductive only together  *)
(* with the bounds the counters give and with the fact that the events of  *)
(* one run are in one task.                                                *)
(***************************************************************************)
LogInv == DenseTaskLog /\ DenseRunLog /\ NumberingsAgree /\ EventsBelongToTheirTask

LEMMA InsertKeepsLog ==
  ASSUME StoreAssumption, TypeOK, LogInv, NEW e \in Entity, InsertEvent(e)
  PROVE  LogInv'
<1> DEFINE t == TaskFor(e)
           row == NewRow(e)
<1>1. t \in Task
  BY TaskForType
<1>2. /\ row.task = t /\ row.subject = e /\ row.taskSequence = nextTask[t]
      /\ row.runSequence = IF e \in Run THEN nextRun[e] ELSE 0
      /\ row \in Event
  BY InsertEventType DEF NewRow
<1>3. /\ events' = events \cup {row}
      /\ nextTask' = [nextTask EXCEPT ![t] = @ + 1]
      /\ nextRun' = IF e \in Run THEN [nextRun EXCEPT ![e] = @ + 1] ELSE nextRun
  BY DEF InsertEvent
<1>4. \A u \in Task : nextTask[u] \in Nat \ {0}
  BY DEF TypeOK
<1>5. \A r \in Run : nextRun[r] \in Nat \ {0}
  BY DEF TypeOK
<1>6. \A ev \in events : ev \in Event
  BY DEF TypeOK
<1>7. \A u \in Task : nextTask'[u] = IF u = t THEN nextTask[t] + 1 ELSE nextTask[u]
  BY <1>1, <1>3 DEF TypeOK
<1>8. \A r \in Run : nextRun'[r] = IF r = e THEN nextRun[e] + 1 ELSE nextRun[r]
  BY <1>3 DEF TypeOK
<1> HIDE DEF t, row
<1>9. DenseTaskLog'
  <2>1. ASSUME NEW ev \in events' PROVE ev.taskSequence < nextTask'[ev.task]
    BY <1>1, <1>2, <1>3, <1>4, <1>6, <1>7 DEF LogInv, DenseTaskLog
  <2>2. ASSUME NEW u \in Task, NEW n \in 1 .. nextTask'[u] - 1
        PROVE  \E ev \in events' : ev.task = u /\ ev.taskSequence = n
    <3>1. CASE u = t /\ n = nextTask[t]
      BY <1>2, <1>3, <3>1
    <3>2. CASE ~(u = t /\ n = nextTask[t])
      <4>1. n \in 1 .. nextTask[u] - 1
        BY <1>1, <1>4, <1>7, <3>2
      <4> QED BY <4>1, <1>3 DEF LogInv, DenseTaskLog
    <3> QED BY <3>1, <3>2
  <2>3. ASSUME NEW a \in events', NEW b \in events',
               a.task = b.task, a.taskSequence = b.taskSequence
        PROVE  a = b
    <3>1. \A ev \in events : ev.task = t => ev.taskSequence # row.taskSequence
      BY <1>1, <1>2, <1>4, <1>6 DEF LogInv, DenseTaskLog
    <3> QED BY <1>2, <1>3, <2>3, <3>1 DEF LogInv, DenseTaskLog
  <2> QED BY <2>1, <2>2, <2>3 DEF DenseTaskLog
<1>10. DenseRunLog'
  <2>1. ASSUME NEW ev \in events', ev.subject \in Run
        PROVE  ev.runSequence \in 1 .. nextRun'[ev.subject] - 1
    BY <1>2, <1>3, <1>5, <1>6, <1>8, <2>1 DEF LogInv, DenseRunLog
  <2>2. ASSUME NEW ev \in events', ev.subject \notin Run
        PROVE  ev.runSequence = 0
    BY <1>2, <1>3, <2>2 DEF LogInv, DenseRunLog
  <2>3. ASSUME NEW r \in Run, NEW n \in 1 .. nextRun'[r] - 1
        PROVE  \E ev \in events' : ev.subject = r /\ ev.runSequence = n
    <3>1. CASE r = e /\ n = nextRun[e]
      BY <1>2, <1>3, <3>1
    <3>2. CASE ~(r = e /\ n = nextRun[e])
      <4>1. n \in 1 .. nextRun[r] - 1
        BY <1>5, <1>8, <3>2
      <4> QED BY <4>1, <1>3 DEF LogInv, DenseRunLog
    <3> QED BY <3>1, <3>2
  <2> QED BY <2>1, <2>2, <2>3 DEF DenseRunLog
<1>11. EventsBelongToTheirTask'
  BY <1>2, <1>3 DEF LogInv, EventsBelongToTheirTask, TaskFor, t
<1>12. NumberingsAgree'
  <2>1. SUFFICES ASSUME NEW a \in events', NEW b \in events',
                        a.subject \in Run, a.subject = b.subject
                 PROVE  a.taskSequence < b.taskSequence <=>
                          a.runSequence < b.runSequence
    BY DEF NumberingsAgree
  <2>2. \A ev \in events : ev.subject = e /\ e \in Run =>
          ev.taskSequence < row.taskSequence /\ ev.runSequence < row.runSequence
    BY <1>1, <1>2, <1>4, <1>5, <1>6
       DEF LogInv, DenseTaskLog, DenseRunLog, EventsBelongToTheirTask, t
  <2>3. \A ev \in events \cup {row} :
          ev.taskSequence \in Nat /\ ev.runSequence \in Nat
    BY <1>2, <1>6
  <2> QED BY <1>2, <1>3, <2>1, <2>2, <2>3 DEF LogInv, NumberingsAgree
<1> QED BY <1>9, <1>10, <1>11, <1>12 DEF LogInv

LEMMA NextLog ==
  ASSUME StoreAssumption, TypeOK, LogInv, [Next]_vars
  PROVE  LogInv'
<1>1. CASE UNCHANGED <<events, nextTask, nextRun>>
  BY <1>1 DEF LogInv, DenseTaskLog, DenseRunLog, NumberingsAgree,
              EventsBelongToTheirTask
<1>2. CASE \E e \in Entity : InsertEvent(e)
  BY <1>2, InsertKeepsLog
<1> QED BY <1>1, <1>2, LogStep

\* The log of every task and of every run is gap-free and numbered once, and
\* the two numberings agree, in every reachable state.
THEOREM LogCorrect == Spec => []LogInv
<1>1. Init => LogInv
  BY DEF Init, LogInv, DenseTaskLog, DenseRunLog, NumberingsAgree,
         EventsBelongToTheirTask
<1>2. TypeOK /\ LogInv /\ [Next]_vars => LogInv'
  BY StoreAssumption, NextLog
<1> QED BY <1>1, <1>2, TypeCorrect, PTL DEF Spec

\* Task sequences are dense whatever transactions fail (see DenseTaskLog).
THEOREM TaskLogDense == Spec => []DenseTaskLog
<1>1. LogInv => DenseTaskLog
  BY DEF LogInv
<1> QED BY <1>1, LogCorrect, PTL

\* Run sequences are dense (see DenseRunLog).
THEOREM RunLogDense == Spec => []DenseRunLog
<1>1. LogInv => DenseRunLog
  BY DEF LogInv
<1> QED BY <1>1, LogCorrect, PTL

\* Reading a run's events by run sequence or by task sequence gives the same
\* order (see NumberingsAgree).
THEOREM NumberingsAlwaysAgree == Spec => []NumberingsAgree
<1>1. LogInv => NumberingsAgree
  BY DEF LogInv
<1> QED BY <1>1, LogCorrect, PTL

\* A committed event is numbered above everything already visible in its task,
\* and nothing visible is ever changed (see CommitsAboveHighWater).
THEOREM HighWaterIsStable == Spec => CommitsAboveHighWater
<1> DEFINE Step_ ==
      /\ events \subseteq events'
      /\ \A new \in events' \ events : \A old \in events :
           old.task = new.task => old.taskSequence < new.taskSequence
<1>1. TypeOK /\ LogInv /\ [Next]_vars => [Step_]_vars
  <2> SUFFICES ASSUME TypeOK, LogInv, [Next]_vars PROVE Step_
    OBVIOUS
  <2>1. CASE UNCHANGED <<events, nextTask, nextRun>>
    BY <2>1
  <2>2. ASSUME NEW e \in Entity, InsertEvent(e) PROVE Step_
    <3>1. events' = events \cup {NewRow(e)}
      BY <2>2 DEF InsertEvent
    <3>2. \A old \in events : old.task = NewRow(e).task =>
            old.taskSequence < NewRow(e).taskSequence
      BY DEF LogInv, DenseTaskLog, NewRow
    <3> QED BY <3>1, <3>2
  <2> QED BY StoreAssumption, LogStep, <2>1, <2>2
<1> QED BY <1>1, TypeCorrect, LogCorrect, PTL DEF Spec, CommitsAboveHighWater

-----------------------------------------------------------------------------
(***************************************************************************)
(* Statuses.                                                               *)
(***************************************************************************)

LEMMA TerminalStays ==
  ASSUME StoreAssumption, TypeOK, [Next]_vars, NEW e \in Entity,
         status[e] \in TerminalOf(e)
  PROVE  status'[e] = status[e]
<1>1. ASSUME NEW f \in Entity, NEW s \in AnyStatus, Admitted(f, s),
             status' = [status EXCEPT ![f] = s]
      PROVE  status'[e] = status[e]
  <2>1. CASE f = e
    <3>1. status[e] # "absent"
      BY DEF TerminalOf, TerminalTask, TerminalStep, TerminalRun
    <3>2. s = status[e]
      BY <1>1, <2>1, <3>1, TerminalSticks DEF Admitted
    <3> QED BY <1>1, <2>1, <3>2 DEF TypeOK
  <2>2. CASE f # e
    BY <1>1, <2>2 DEF TypeOK
  <2> QED BY <2>1, <2>2
<1> QED BY StatusStep, <1>1

\* A terminal status never changes again: not by a transition another process
\* pre-checked before the row became terminal, and not by a provider event
\* whose transition the code does not check (see TerminalIsFinal).
THEOREM TerminalStatusIsFinal == Spec => TerminalIsFinal
<1> DEFINE Step_ ==
      \A e \in Entity : status[e] \in TerminalOf(e) => status'[e] = status[e]
<1>1. TypeOK /\ [Next]_vars => [Step_]_vars
  BY StoreAssumption, TerminalStays
<1> QED BY <1>1, TypeCorrect, PTL DEF Spec, TerminalIsFinal

\* A step that sets a completion timestamp leaves its row in a terminal status.
LEMMA CompletionStep ==
  ASSUME StoreAssumption, TypeOK, [Next]_vars, NEW e \in completed'
  PROVE  e \in completed \/ status'[e] \in TerminalOf(e)
<1>1. ASSUME NEW f \in Entity, NEW s, Insert(f, s)
      PROVE  e \in completed \/ status'[e] \in TerminalOf(e)
  BY <1>1 DEF Insert, TypeOK
<1>2. ASSUME NEW p \in Process, NEW r \in Run, NEW s \in RunStatus,
             NEW b \in BOOLEAN, persistProviderRunEvent(p, r, s, b)
      PROVE  e \in completed \/ status'[e] \in TerminalOf(e)
  <2>1. r \notin Task /\ r \notin Step /\ TerminalOf(r) = TerminalRun
    BY DEF StoreAssumption, TerminalOf
  <2>2. status'[r] = s
    BY <1>2 DEF persistProviderRunEvent, TypeOK
  <2> QED BY <1>2, <2>1, <2>2 DEF persistProviderRunEvent
<1>3. CASE UNCHANGED completed
  BY <1>3
<1> QED
  BY <1>1, <1>2, <1>3
     DEF Next, vars, createTask, createPlan, createStep, createRun, BeginTransition,
         CommitTransition, AbortTransition, appendRunEvent, persistRunSession

\* A completion timestamp is only on a row in a terminal status, although status
\* and timestamp are written by different operations, of several processes (see
\* CompletionFollowsStatus).
THEOREM CompletionsAreTrue == Spec => []CompletionFollowsStatus
<1>1. Init => CompletionFollowsStatus
  BY DEF Init, CompletionFollowsStatus
<1>2. TypeOK /\ CompletionFollowsStatus /\ [Next]_vars => CompletionFollowsStatus'
  <2> SUFFICES ASSUME TypeOK, CompletionFollowsStatus, [Next]_vars,
                      NEW e \in completed'
               PROVE  status'[e] \in TerminalOf(e)
    BY DEF CompletionFollowsStatus
  <2>1. CASE e \in completed
    <3>1. e \in Entity /\ status[e] \in TerminalOf(e)
      BY <2>1 DEF TypeOK, CompletionFollowsStatus
    <3> QED BY <3>1, StoreAssumption, TerminalStays
  <2>2. CASE e \notin completed
    BY <2>2, StoreAssumption, CompletionStep
  <2> QED BY <2>1, <2>2
<1> QED BY <1>1, <1>2, TypeCorrect, PTL DEF Spec

\* Two runs of one step are never running together (see OneRunningPerStep).
THEOREM AtMostOneRunningPerStep == Spec => []OneRunningPerStep
<1>1. Init => OneRunningPerStep
  BY DEF Init, OneRunningPerStep
<1>2. TypeOK /\ OneRunningPerStep /\ [Next]_vars => OneRunningPerStep'
  <2> SUFFICES ASSUME TypeOK, OneRunningPerStep, [Next]_vars
               PROVE  OneRunningPerStep'
    OBVIOUS
  <2>1. CASE UNCHANGED status
    BY <2>1 DEF OneRunningPerStep
  <2>2. ASSUME NEW e \in Entity, NEW s \in AnyStatus, Admitted(e, s),
               status' = [status EXCEPT ![e] = s]
        PROVE  OneRunningPerStep'
    BY <2>2 DEF OneRunningPerStep, Admitted, runs_one_running_per_step, TypeOK
  <2> QED BY StoreAssumption, StatusStep, <2>1, <2>2
<1> QED BY <1>1, <1>2, TypeCorrect, PTL DEF Spec

\* The numberings, the counters and the rows are consistent, for any number of
\* tasks, steps, runs and processes (see StoreConsistent).
THEOREM StoreIsConsistent == Spec => []StoreConsistent
<1>1. TypeOK /\ DenseTaskLog /\ DenseRunLog /\ NumberingsAgree => StoreConsistent
  BY DEF StoreConsistent
<1> QED
  BY <1>1, TypeCorrect, TaskLogDense, RunLogDense, NumberingsAlwaysAgree, PTL

-----------------------------------------------------------------------------
(***************************************************************************)
(* The statuses and their two guards.                                      *)
(***************************************************************************)

\* state-machines.ts and 0001_core.sql: what a table of transitions allows is
\* what the trigger lets through, for every two different statuses of a task, of
\* a step and of a run; so neither refuses an update that the other is made for.
THEOREM TablesMatchTriggers ==
  /\ \A from, to \in TaskStatus : from # to =>
       (isAllowedTransition(taskTransitionTable, from, to)
          <=> tasks_transition_guard(from, to))
  /\ \A from, to \in StepStatus : from # to =>
       (isAllowedTransition(stepTransitionTable, from, to)
          <=> task_steps_transition_guard(from, to))
  /\ \A from, to \in RunStatus : from # to =>
       (isAllowedTransition(runTransitionTable, from, to)
          <=> runs_transition_guard(from, to))
<1>1. \A from, to \in TaskStatus : from # to =>
        (isAllowedTransition(taskTransitionTable, from, to)
           <=> tasks_transition_guard(from, to))
  BY DEF TaskStatus, isAllowedTransition, taskTransitionTable, tasks_transition_guard
<1>2. \A from, to \in StepStatus : from # to =>
        (isAllowedTransition(stepTransitionTable, from, to)
           <=> task_steps_transition_guard(from, to))
  BY DEF StepStatus, isAllowedTransition, stepTransitionTable,
         task_steps_transition_guard
<1>3. \A from, to \in RunStatus : from # to =>
        (isAllowedTransition(runTransitionTable, from, to)
           <=> runs_transition_guard(from, to))
  BY DEF RunStatus, isAllowedTransition, runTransitionTable, runs_transition_guard
<1> QED BY <1>1, <1>2, <1>3
\* A row has a status of its own table.
StatusesInTheirTable ==
  \A e \in Entity : status[e] \in StatusesOf(e) \cup {"absent"}

\* For a status of the entity's own table, trigger and table agree.
LEMMA TriggerIsTable ==
  ASSUME NEW e, NEW from \in StatusesOf(e), NEW to \in StatusesOf(e),
         from # to, TriggerAdmits(e, from, to)
  PROVE  assertTransition(e, from, to)
BY TablesMatchTriggers DEF StatusesOf, TriggerAdmits, assertTransition

\* No step writes a status of another table, or one that is not an arc.
LEMMA StatusMoves ==
  ASSUME StoreAssumption, TypeOK, StatusesInTheirTable, [Next]_vars,
         NEW e \in Entity
  PROVE  /\ status'[e] \in StatusesOf(e) \cup {"absent"}
         /\ status[e] # "absent" /\ status'[e] # status[e] =>
              assertTransition(e, status[e], status'[e])
<1>1. status[e] \in StatusesOf(e) \cup {"absent"}
  BY DEF StatusesInTheirTable
<1>2. CASE UNCHANGED status
  BY <1>1, <1>2
<1>3. ASSUME NEW f \in Entity, NEW s \in AnyStatus, Admitted(f, s),
             status' = [status EXCEPT ![f] = s]
      PROVE  /\ status'[e] \in StatusesOf(e) \cup {"absent"}
             /\ status[e] # "absent" /\ status'[e] # status[e] =>
                  assertTransition(e, status[e], status'[e])
  <2>1. CASE f # e
    BY <1>1, <1>3, <2>1 DEF TypeOK
  <2>2. CASE f = e
    <3>1. status'[e] = s /\ s \in StatusesOf(e)
      BY <1>3, <2>2 DEF TypeOK, Admitted
    <3>2. status[e] # "absent" => TriggerAdmits(e, status[e], s)
      BY <1>3, <2>2 DEF Admitted
    <3> QED BY <1>1, <3>1, <3>2, TriggerIsTable
  <2> QED BY <2>1, <2>2
<1> QED BY <1>2, <1>3, StatusStep

\* Every status of a row is reached from the one before by an arc of its table,
\* whichever operation writes it, of whichever process (see StatusesAreAPath).
THEOREM StatusesAlwaysFollowTables == Spec => StatusesAreAPath
<1>1. Init => StatusesInTheirTable
  BY DEF Init, StatusesInTheirTable
<1>2. TypeOK /\ StatusesInTheirTable /\ [Next]_vars => StatusesInTheirTable'
  BY StoreAssumption, StatusMoves DEF StatusesInTheirTable
<1>3. TypeOK /\ StatusesInTheirTable /\ [Next]_vars =>
        [\A e \in Entity : status[e] # "absent" /\ status'[e] # status[e] =>
           assertTransition(e, status[e], status'[e])]_vars
  BY StoreAssumption, StatusMoves
<1> QED
  BY <1>1, <1>2, <1>3, TypeCorrect, TerminalStatusIsFinal, PTL
     DEF Spec, ChangesFollowTables, StatusesAreAPath

-----------------------------------------------------------------------------
(***************************************************************************)
(* The refinement of EventLogs.                                            *)
(***************************************************************************)

\* A sequence given by its entries, and the one with another entry at its end.
LEMMA AppendedEntry ==
  ASSUME NEW k \in Nat, NEW S, NEW f \in [1 .. k -> S], NEW g \in [1 .. k + 1 -> S],
         \A n \in 1 .. k : g[n] = f[n]
  PROVE  g = Append(f, g[k + 1]) /\ Len(f) = k
<1>1. f \in Seq(S)
  BY SeqDef
<1>2. Len(f) = k
  BY <1>1, LenProperties
<1>3. Append(f, g[k + 1]) = [n \in 1 .. k + 1 |-> IF n = k + 1 THEN g[k + 1] ELSE f[n]]
  BY <1>1, <1>2
<1>4. \A n \in 1 .. k + 1 : g[n] = IF n = k + 1 THEN g[k + 1] ELSE f[n]
  OBVIOUS
<1> QED BY <1>2, <1>3, <1>4

\* The counters tell which event a number finds.
LEMMA NumberFindsOne ==
  ASSUME StoreAssumption, TypeOK, LogInv, NEW ev \in events
  PROVE  /\ SubjectAt(ev.task, ev.taskSequence) = ev.subject
         /\ ev.subject \in Run =>
              PlaceAt(ev.subject, ev.runSequence) = ev.taskSequence
<1>1. SubjectAt(ev.task, ev.taskSequence) = ev.subject
  <2> DEFINE c == CHOOSE a \in events : a.task = ev.task /\ a.taskSequence = ev.taskSequence
  <2>1. c \in events /\ c.task = ev.task /\ c.taskSequence = ev.taskSequence
    OBVIOUS
  <2>2. c = ev
    BY <2>1 DEF LogInv, DenseTaskLog
  <2> QED BY <2>2 DEF SubjectAt
<1>2. ASSUME ev.subject \in Run
      PROVE  PlaceAt(ev.subject, ev.runSequence) = ev.taskSequence
  <2> DEFINE c == CHOOSE a \in events : a.subject = ev.subject /\ a.runSequence = ev.runSequence
  <2>1. c \in events /\ c.subject = ev.subject /\ c.runSequence = ev.runSequence
    OBVIOUS
  <2>2. c.taskSequence = ev.taskSequence
    <3>1. /\ ~(c.taskSequence < ev.taskSequence) /\ ~(ev.taskSequence < c.taskSequence)
      <4>1. ev.runSequence \in Nat
        BY DEF TypeOK
      <4> QED BY <1>2, <2>1, <4>1 DEF LogInv, NumberingsAgree
    <3>2. c.taskSequence \in Nat /\ ev.taskSequence \in Nat
      BY <2>1 DEF TypeOK
    <3> QED BY <3>1, <3>2
  <2> QED BY <2>2 DEF PlaceAt
<1> QED BY <1>1, <1>2

\* An insertion leaves every earlier number with the event it had.
LEMMA InsertAppends ==
  ASSUME StoreAssumption, TypeOK, LogInv, NEW e \in Entity, InsertEvent(e),
         TypeOK', LogInv'
  PROVE  Logs!Commit(e)
<1> DEFINE t == TaskFor(e)
           row == NewRow(e)
<1>1. t \in Task
  BY TaskForType
<1>2. /\ row.task = t /\ row.subject = e /\ row.taskSequence = nextTask[t]
      /\ row.runSequence = IF e \in Run THEN nextRun[e] ELSE 0
  BY InsertEventType DEF NewRow
<1>3. /\ events' = events \cup {row}
      /\ nextTask' = [nextTask EXCEPT ![t] = @ + 1]
      /\ nextRun' = IF e \in Run THEN [nextRun EXCEPT ![e] = @ + 1] ELSE nextRun
  BY DEF InsertEvent
<1>4. /\ nextTask \in [Task -> Nat \ {0}] /\ nextRun \in [Run -> Nat \ {0}]
  BY DEF TypeOK
<1> HIDE DEF t, row
<1>5. ASSUME NEW u \in Task, NEW n \in 1 .. nextTask[u] - 1
      PROVE  SubjectAt(u, n)' = SubjectAt(u, n) /\ SubjectAt(u, n) \in Entity
  <2>1. PICK ev \in events : ev.task = u /\ ev.taskSequence = n
    BY DEF LogInv, DenseTaskLog
  <2>2. SubjectAt(u, n) = ev.subject
    BY <2>1, NumberFindsOne
  <2>3. SubjectAt(u, n)' = ev.subject
    <3>1. \A a \in events' : a.task = u /\ a.taskSequence = n => a = ev
      BY <1>3, <2>1 DEF LogInv, DenseTaskLog
    <3>2. ev \in events'
      BY <1>3
    <3> QED BY <2>1, <3>1, <3>2 DEF SubjectAt
  <2> QED BY <2>1, <2>2, <2>3 DEF TypeOK
<1>6. ASSUME NEW n, n = nextTask[t]
      PROVE  SubjectAt(t, n)' = e
  <2>1. row \in events' /\ \A a \in events' :
          a.task = t /\ a.taskSequence = n => a = row
    BY <1>2, <1>3, <1>6 DEF LogInv, DenseTaskLog
  <2>2. (CHOOSE a \in events' : a.task = t /\ a.taskSequence = n) = row
    BY <1>2, <1>6, <2>1
  <2> QED BY <1>2, <2>2 DEF SubjectAt
<1>7. ASSUME NEW r \in Run, NEW n \in 1 .. nextRun[r] - 1
      PROVE  PlaceAt(r, n)' = PlaceAt(r, n) /\ PlaceAt(r, n) \in Nat
  <2>1. PICK ev \in events : ev.subject = r /\ ev.runSequence = n
    BY DEF LogInv, DenseRunLog
  <2>2. PlaceAt(r, n) = ev.taskSequence
    BY <2>1, NumberFindsOne
  <2>3. PlaceAt(r, n)' = ev.taskSequence
    <3>1. ev \in events' /\ ev.runSequence \in Nat
      BY <1>3 DEF TypeOK
    <3>2. ASSUME NEW a \in events', a.subject = r, a.runSequence = n
          PROVE  a.taskSequence = ev.taskSequence
      <4>1. ~(a.taskSequence < ev.taskSequence) /\ ~(ev.taskSequence < a.taskSequence)
        BY <2>1, <3>1, <3>2 DEF LogInv, NumberingsAgree
      <4>2. a.taskSequence \in Nat /\ ev.taskSequence \in Nat
        BY <3>1, <3>2 DEF TypeOK
      <4> QED BY <4>1, <4>2
    <3> QED BY <2>1, <3>1, <3>2 DEF PlaceAt
  <2> QED BY <2>1, <2>2, <2>3 DEF TypeOK
<1>8. ASSUME NEW n, e \in Run, n = nextRun[e]
      PROVE  PlaceAt(e, n)' = nextTask[t]
  <2>1. row \in events' /\ row.subject = e /\ row.runSequence = n
    BY <1>2, <1>3, <1>8
  <2>2. ASSUME NEW a \in events', a.subject = e, a.runSequence = n
        PROVE  a = row
    BY <1>3, <1>4, <1>8, <2>2 DEF LogInv, DenseRunLog, TypeOK
  <2> QED BY <1>2, <2>1, <2>2 DEF PlaceAt
<1>9. /\ taskLogs' = [taskLogs EXCEPT ![t] = Append(@, e)]
      /\ Len(taskLogs[t]) + 1 = nextTask[t]
  <2>0. PICK k \in Nat : k = nextTask[t] - 1
    BY <1>1, <1>4
  <2>1. nextTask'[t] - 1 = k + 1 /\ k + 1 = nextTask[t]
    BY <1>1, <1>3, <1>4, <2>0
  <2>2. taskLogs[t] = [n \in 1 .. k |-> SubjectAt(t, n)]
    BY <1>1, <2>0 DEF taskLogs
  <2>3. taskLogs'[t] = [n \in 1 .. k + 1 |-> SubjectAt(t, n)']
    BY <1>1, <2>1 DEF taskLogs
  <2>4. taskLogs[t] \in [1 .. k -> Entity]
    BY <1>1, <1>5, <2>1, <2>2
  <2>5. taskLogs'[t] \in [1 .. k + 1 -> Entity] /\ taskLogs'[t][k + 1] = e
    <3>1. \A n \in 1 .. k + 1 : n \in 1 .. k \/ n = k + 1
      BY <2>1
    <3>2. \A n \in 1 .. k + 1 : SubjectAt(t, n)' \in Entity
      BY <1>1, <1>5, <1>6, <2>1, <3>1
    <3>3. SubjectAt(t, k + 1)' = e /\ k + 1 \in 1 .. k + 1
      BY <1>6, <2>1
    <3> QED BY <2>3, <3>2, <3>3
  <2>6. \A n \in 1 .. k : taskLogs'[t][n] = taskLogs[t][n]
    BY <1>1, <1>5, <2>1, <2>2, <2>3
  <2>7. taskLogs'[t] = Append(taskLogs[t], e) /\ Len(taskLogs[t]) = k
    BY <2>1, <2>4, <2>5, <2>6, AppendedEntry
  <2>8. ASSUME NEW u \in Task, u # t
        PROVE  taskLogs'[u] = taskLogs[u]
    BY <1>3, <1>4, <1>5, <2>8 DEF taskLogs
  <2>9. taskLogs' = [u \in Task |-> taskLogs'[u]] /\ taskLogs = [u \in Task |-> taskLogs[u]]
    BY DEF taskLogs
  <2> QED BY <1>1, <2>1, <2>7, <2>8, <2>9
<1>10. ASSUME e \in Run
       PROVE  runLogs' = [runLogs EXCEPT ![e] = Append(@, nextTask[t])]
  <2>0. PICK k \in Nat : k = nextRun[e] - 1
    BY <1>4, <1>10
  <2>1. nextRun'[e] - 1 = k + 1 /\ k + 1 = nextRun[e]
    BY <1>3, <1>4, <1>10, <2>0
  <2>2. runLogs[e] = [n \in 1 .. k |-> PlaceAt(e, n)]
    BY <1>10, <2>0 DEF runLogs
  <2>3. runLogs'[e] = [n \in 1 .. k + 1 |-> PlaceAt(e, n)']
    BY <1>10, <2>1 DEF runLogs
  <2>4. runLogs[e] \in [1 .. k -> Nat]
    BY <1>7, <1>10, <2>1, <2>2
  <2>5. runLogs'[e] \in [1 .. k + 1 -> Nat] /\ runLogs'[e][k + 1] = nextTask[t]
    <3>1. \A n \in 1 .. k + 1 : n \in 1 .. k \/ n = k + 1
      BY <2>1
    <3>2. \A n \in 1 .. k + 1 : PlaceAt(e, n)' \in Nat
      BY <1>1, <1>4, <1>7, <1>8, <1>10, <2>1, <3>1
    <3>3. PlaceAt(e, k + 1)' = nextTask[t] /\ k + 1 \in 1 .. k + 1
      BY <1>8, <1>10, <2>1
    <3> QED BY <2>3, <3>2, <3>3
  <2>6. \A n \in 1 .. k : runLogs'[e][n] = runLogs[e][n]
    BY <1>7, <1>10, <2>1, <2>2, <2>3
  <2>7. runLogs'[e] = Append(runLogs[e], nextTask[t])
    BY <2>1, <2>4, <2>5, <2>6, AppendedEntry, SMTT(40)
  <2>8. ASSUME NEW r \in Run, r # e
        PROVE  runLogs'[r] = runLogs[r]
    BY <1>3, <1>4, <1>7, <1>10, <2>8 DEF runLogs
  <2>9. runLogs' = [r \in Run |-> runLogs'[r]] /\ runLogs = [r \in Run |-> runLogs[r]]
    BY DEF runLogs
  <2> QED BY <1>10, <2>7, <2>8, <2>9
<1>11. ASSUME e \notin Run
       PROVE  runLogs' = runLogs
  BY <1>3, <1>4, <1>7, <1>11 DEF runLogs
<1> QED BY <1>9, <1>10, <1>11 DEF Logs!Commit, t

LEMMA StepAppends ==
  ASSUME StoreAssumption, TypeOK, LogInv, [Next]_vars
  PROVE  [Logs!Next]_(Logs!vars)
<1>1. TypeOK' /\ LogInv'
  BY NextType, NextLog
<1>2. CASE UNCHANGED <<events, nextTask, nextRun>>
  BY <1>2 DEF Logs!vars, taskLogs, runLogs, SubjectAt, PlaceAt
<1>3. CASE \E e \in Entity : InsertEvent(e)
  BY <1>1, <1>3, InsertAppends DEF Logs!Next
<1> QED BY <1>2, <1>3, LogStep

\* The event table and its two counters implement an append-only log for every
\* task and every run, whatever processes write and whichever of their
\* transactions fail: an inserted event is appended to both logs it belongs to,
\* and every other step changes neither (see ImplementsEventLogs).
THEOREM TableImplementsLogs == Spec => ImplementsEventLogs
<1>1. StoreAssumption /\ Init => Logs!Init
  <2> SUFFICES ASSUME StoreAssumption, Init PROVE Logs!Init
    OBVIOUS
  <2>1. taskLogs = [t \in Task |-> <<>>]
    BY DEF Init, taskLogs
  <2>2. runLogs = [r \in Run |-> <<>>]
    BY DEF Init, runLogs
  <2> QED BY <2>1, <2>2 DEF Logs!Init
<1>2. TypeOK /\ LogInv /\ [Next]_vars => [Logs!Next]_(Logs!vars)
  BY StoreAssumption, StepAppends
<1> QED
  BY <1>1, <1>2, StoreAssumption, TypeCorrect, LogCorrect, PTL
     DEF Spec, Logs!Spec, ImplementsEventLogs
=============================================================================
