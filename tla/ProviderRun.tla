---------------------------- MODULE ProviderRun ----------------------------
(***************************************************************************)
(* How one server process executes provider runs: ProviderRunService       *)
(* drives the async generator BaseProviderAdapter.execute, which owns a    *)
(* child process through ChildProcessOwnershipRegistry and yields events   *)
(* that the service writes to the run's row and to the event log.          *)
(*                                                                         *)
(* JavaScript runs one callback at a time, so an action is what happens    *)
(* between two awaits: of inspect, of spawn, of the prompt's delivery, of  *)
(* a chunk of output, of the child's exit, of the descendant query.  What  *)
(* comes between two actions is another run, a cancellation, the deadline  *)
(* timer, the force timer, or the child itself.                            *)
(*                                                                         *)
(* A run's row exists when its execution starts, and a run is started or   *)
(* resumed once (the two differ in the command line only).                 *)
(***************************************************************************)
EXTENDS Naturals, Sequences, FiniteSets, StateMachines

CONSTANTS
  Run, Step,     \* runs, and the plan steps they are attempts of
  Ours,          \* the runs this server executes; other processes run the rest
  StepOf,        \* runs.step_id
  MaxEvents,     \* bound: events the log holds before output stops adding to it
  MaxFaults      \* bound: writes that fail for reasons of the database's own

ASSUME RunAssumption ==
  /\ StepOf \in [Run -> Step]
  /\ Ours \subseteq Run
  /\ MaxEvents \in Nat
  /\ MaxFaults \in Nat

VARIABLES
  pc,         \* where the generator of a run is
  inbox,      \* events the generator has ready to yield, oldest first
  terminal,   \* `terminal` of ProviderRunService.execute
  parsed,     \* what the line parser, or the failure of its stream, has found
  child,      \* the owned child process and how it exited
  stopping,   \* how the ownership registry has asked the child to stop
  mark,       \* which of cancelledAt and timedOutAt is set
  timer,      \* the deadline timer
  cancelling, \* the call of cancel(runId), and membership of `cancelled`
  status,     \* runs.status
  session,    \* runs whose session_id is not NULL
  log,        \* the task's events in task_sequence order
  faults      \* writes that have failed so far

generatorVars == <<pc, inbox, terminal, parsed>>
childVars     == <<child, stopping, mark, timer>>
storeVars     == <<status, session, log, faults>>
vars == <<generatorVars, childVars, cancelling, storeVars>>

-----------------------------------------------------------------------------
EventType    == {"started", "delta", "completed", "failed", "timed_out", "cancelled"}
TerminalType == {"completed", "failed", "timed_out", "cancelled"}
Running      == {"starting", "running", "stalled"}   \* what cancel and sessions accept

\* statusFor: "timed_out" is run.failed with the error code RUN_TIMED_OUT,
\* "delta" is any event that does not concern the status.
statusFor(type, current) ==
  CASE type = "started"   -> "running"
    [] type = "completed" -> "succeeded"
    [] type = "delta"     -> current
    [] OTHER              -> type

TypeOK ==
  /\ pc \in [Run -> {"idle", "preparing", "spawning", "prompting", "reading",
                     "verifying", "closing", "finished"}]
  /\ inbox \in [Run -> Seq(EventType \cup {"session"})]
  /\ terminal \in [Run -> BOOLEAN]
  /\ parsed \in [Run -> {"nothing", "success", "failure", "error", "crashed"}]
  /\ child \in [Run -> {"none", "live", "exited", "crashed"}]
  /\ stopping \in [Run -> {"no", "graceful", "forced"}]
  /\ mark \in [Run -> {"none", "cancelled", "timed_out"}]
  /\ timer \in [Run -> {"off", "armed"}]
  /\ cancelling \in [Run -> {"no", "waiting", "returned", "rejected"}]
  /\ status \in [Run -> RunStatus]
  /\ session \subseteq Run
  /\ log \in Seq([run : Run, type : EventType])
  /\ faults \in 0 .. MaxFaults

Init ==
  /\ pc         = [r \in Run |-> "idle"]
  /\ inbox      = [r \in Run |-> <<>>]
  /\ terminal   = [r \in Run |-> FALSE]
  /\ parsed     = [r \in Run |-> "nothing"]
  /\ child      = [r \in Run |-> "none"]
  /\ stopping   = [r \in Run |-> "no"]
  /\ mark       = [r \in Run |-> "none"]
  /\ timer      = [r \in Run |-> "off"]
  /\ cancelling = [r \in Run |-> "no"]
  /\ status     = [r \in Run |-> "starting"]
  /\ session    = {}
  /\ log        = <<>>
  /\ faults     = 0

-----------------------------------------------------------------------------
(***************************************************************************)
(* Writing.  persistProviderRunEvent is one transaction: the trigger and   *)
(* the one-running-run-per-step index may refuse the status, and any write *)
(* may fail because the file is locked or the disk is full.                *)
(***************************************************************************)
\* Mutant: the trigger alone, without the index.
Writable_noIndex(r, type) ==
  runs_transition_guard(status[r], statusFor(type, status[r]))

Writable(r, type) ==
  LET new == statusFor(type, status[r]) IN
    /\ runs_transition_guard(status[r], new)
    /\ new = "running" => \A q \in Run \ {r} :
         StepOf[q] = StepOf[r] => status[q] # "running"

persist(r, type) ==
  /\ Writable(r, type)
  /\ status' = [status EXCEPT ![r] = statusFor(type, @)]
  /\ log'    = Append(log, [run |-> r, type |-> type])
  /\ UNCHANGED <<session, faults>>

Fault ==
  /\ faults < MaxFaults
  /\ faults' = faults + 1
  /\ UNCHANGED <<status, session, log>>

\* Mutant: only a run that has started can fail.
persistFailure_started(r) ==
  IF status[r] = "running" THEN persist(r, "failed") \/ Fault
  ELSE UNCHANGED storeVars

\* persistFailure, whose own error is swallowed.
persistFailure(r) ==
  IF status[r] \in {"starting", "running"}
  THEN persist(r, "failed") \/ Fault
  ELSE UNCHANGED storeVars

\* Mutant: the failure is recorded whether or not the run was cancelled.
Unfinished_cancelled(r) ==
  IF ~terminal[r] THEN persistFailure(r) ELSE UNCHANGED storeVars

\* What execute does when the loop is left without a terminal event.
Unfinished(r) ==
  IF ~terminal[r] /\ cancelling[r] = "no" THEN persistFailure(r)
  ELSE UNCHANGED storeVars

\* Leaving the generator runs its finally block (the timer is cleared, the
\* handle forgotten) and then the service's (the run is no longer active).
\* Neither touches the child.
Leave(r) ==
  /\ pc'    = [pc EXCEPT ![r] = "finished"]
  /\ inbox' = [inbox EXCEPT ![r] = <<>>]
  /\ timer' = [timer EXCEPT ![r] = "off"]
  /\ UNCHANGED <<terminal, parsed, cancelling>>

\* An error thrown in the generator, or by the service between two events.
Throw(r) == Leave(r) /\ Unfinished(r)

\* ChildProcessOwnershipRegistry.stop, for a record that is not closed: ask
\* the child to terminate and start the force timer.
Stopped(r) == [stopping EXCEPT ![r] = IF @ = "no" THEN "graceful" ELSE @]

\* runtimeHandleForRun: the handle is known from register to the finally block.
HasHandle(r) == child[r] # "none" /\ pc[r] # "finished"

-----------------------------------------------------------------------------
(***************************************************************************)
(* ProviderRunService.execute and BaseProviderAdapter.execute.             *)
(***************************************************************************)

\* The transfer policy refuses the run, or no adapter serves its provider.
Reject(r) ==
  /\ pc[r] = "idle"
  /\ pc' = [pc EXCEPT ![r] = "finished"]
  /\ persist(r, "failed") \/ Fault
  /\ UNCHANGED <<inbox, terminal, parsed, childVars, cancelling>>

Start(r) ==
  /\ pc[r] = "idle"
  /\ pc' = [pc EXCEPT ![r] = "preparing"]
  /\ UNCHANGED <<inbox, terminal, parsed, childVars, cancelling, storeVars>>

\* inspect() has answered; the request, directory, executable and output
\* schema are checked, and spawn is called.
Prepare(r) ==
  /\ pc[r] = "preparing"
  /\ pc' = [pc EXCEPT ![r] = "spawning"]
  /\ UNCHANGED <<inbox, terminal, parsed, childVars, cancelling, storeVars>>

\* The provider is not installed, not authenticated, or lacks the model.
InspectionFailure(r) ==
  /\ pc[r] = "preparing"
  /\ pc'    = [pc EXCEPT ![r] = "closing"]
  /\ inbox' = [inbox EXCEPT ![r] = <<"failed">>]
  /\ UNCHANGED <<terminal, parsed, childVars, cancelling, storeVars>>

\* A check throws, or spawn or register does.
CannotSpawn(r) ==
  /\ pc[r] \in {"preparing", "spawning"}
  /\ Throw(r)
  /\ UNCHANGED <<child, stopping, mark>>

Spawn(r) ==
  /\ pc[r] = "spawning"
  /\ pc'    = [pc EXCEPT ![r] = "prompting"]
  /\ child' = [child EXCEPT ![r] = "live"]
  /\ UNCHANGED <<inbox, terminal, parsed, stopping, mark, timer, cancelling, storeVars>>

\* The prompt is written and armTimeout runs: it arms the timer, or finds the
\* deadline already past.
PromptDelivered(r) ==
  /\ pc[r] = "prompting"
  /\ pc' = [pc EXCEPT ![r] = "reading"]
  /\ timer' = [timer EXCEPT ![r] = "armed"]
  /\ UNCHANGED <<inbox, terminal, parsed, child, stopping, mark, cancelling, storeVars>>

PromptRejected(r) ==
  /\ pc[r] = "prompting"
  /\ stopping' = IF child[r] = "live" THEN Stopped(r) ELSE stopping
  /\ Throw(r)
  /\ UNCHANGED <<child, mark>>

(***************************************************************************)
(* A chunk of output, parsed to events and to what the parser remembers.   *)
(* The generator asks for the next chunk when the service has consumed     *)
(* every event of the one before; a parser in error ignores its input.     *)
(***************************************************************************)
CanRead(r) ==
  /\ pc[r] = "reading"
  /\ child[r] = "live"
  /\ inbox[r] = <<>>
  /\ parsed[r] \notin {"error", "crashed"}

SessionFrame(r) ==
  /\ CanRead(r)
  /\ Len(log) < MaxEvents
  /\ inbox' = [inbox EXCEPT ![r] = <<"session", "started">>]
  /\ UNCHANGED <<pc, terminal, parsed, childVars, cancelling, storeVars>>

OutputFrame(r) ==
  /\ CanRead(r)
  /\ Len(log) < MaxEvents
  /\ inbox' = [inbox EXCEPT ![r] = <<"delta">>]
  /\ UNCHANGED <<pc, terminal, parsed, childVars, cancelling, storeVars>>

ResultFrame(r, verdict) ==
  /\ CanRead(r)
  /\ parsed[r] = "nothing"
  /\ parsed' = [parsed EXCEPT ![r] = verdict]
  /\ UNCHANGED <<pc, inbox, terminal, childVars, cancelling, storeVars>>

\* A second result, a final result that fails its schema, the fifth invalid
\* frame in a row, an oversized line: the parser stops and so must the child.
ProtocolError(r) ==
  /\ CanRead(r)
  /\ parsed'   = [parsed EXCEPT ![r] = "error"]
  /\ stopping' = Stopped(r)
  /\ UNCHANGED <<pc, inbox, terminal, child, mark, timer, cancelling, storeVars>>

\* The output stream, or the conversion of a frame, throws: streamFailure.
StreamFailure(r) ==
  /\ CanRead(r)
  /\ parsed' = [parsed EXCEPT ![r] = "crashed"]
  /\ UNCHANGED <<pc, inbox, terminal, childVars, cancelling, storeVars>>

(***************************************************************************)
(* The service takes the next event.  Once the run is cancelled it only    *)
(* drains the stream.                                                      *)
(***************************************************************************)
Drop(r) ==
  /\ inbox[r] # <<>>
  /\ cancelling[r] # "no"
  /\ inbox' = [inbox EXCEPT ![r] = Tail(@)]
  /\ UNCHANGED <<pc, terminal, parsed, childVars, cancelling, storeVars>>

TakeSession(r) ==
  /\ inbox[r] # <<>> /\ Head(inbox[r]) = "session"
  /\ cancelling[r] = "no"
  /\ status[r] \in Running
  /\ session' = session \cup {r}
  /\ inbox' = [inbox EXCEPT ![r] = Tail(@)]
  /\ UNCHANGED <<pc, terminal, parsed, childVars, cancelling, status, log, faults>>

\* Mutant: `cancelled` is not consulted.
TakeEvent_afterCancel(r) ==
  /\ inbox[r] # <<>> /\ Head(inbox[r]) # "session"
  /\ persist(r, Head(inbox[r]))
  /\ terminal' = [terminal EXCEPT ![r] = @ \/ Head(inbox[r]) \in TerminalType]
  /\ inbox'    = [inbox EXCEPT ![r] = Tail(@)]
  /\ UNCHANGED <<pc, parsed, childVars, cancelling>>

TakeEvent(r) ==
  /\ inbox[r] # <<>> /\ Head(inbox[r]) # "session"
  /\ cancelling[r] = "no"
  /\ persist(r, Head(inbox[r]))
  /\ terminal' = [terminal EXCEPT ![r] = @ \/ Head(inbox[r]) \in TerminalType]
  /\ inbox'    = [inbox EXCEPT ![r] = Tail(@)]
  /\ UNCHANGED <<pc, parsed, childVars, cancelling>>

\* The write is refused by the trigger or the index: the error leaves the
\* loop, and is itself recorded as the failure of the run.
WriteRefused(r) ==
  /\ inbox[r] # <<>> /\ Head(inbox[r]) # "session"
  /\ cancelling[r] = "no"
  /\ ~Writable(r, Head(inbox[r]))
  /\ Throw(r)
  /\ UNCHANGED <<child, stopping, mark>>

\* The write fails for another reason; recording the failure may fail too.
WriteFails(r) ==
  /\ inbox[r] # <<>>
  /\ cancelling[r] = "no"
  /\ Leave(r)
  /\ \/ /\ faults < MaxFaults
        /\ ~terminal[r] /\ status[r] \in {"starting", "running"}
        /\ status' = [status EXCEPT ![r] = "failed"]
        /\ log'    = Append(log, [run |-> r, type |-> "failed"])
        /\ faults' = faults + 1
        /\ UNCHANGED session
     \/ /\ faults + 1 < MaxFaults
        /\ faults' = faults + 2
        /\ UNCHANGED <<status, session, log>>
  /\ UNCHANGED <<child, stopping, mark>>

\* The output has ended, and the child has exited: its record is closed, the
\* timer cleared, and the descendant query is under way.
StreamEnd(r) ==
  /\ pc[r] = "reading"
  /\ inbox[r] = <<>>
  /\ child[r] \in {"exited", "crashed"}
  /\ pc'    = [pc EXCEPT ![r] = "verifying"]
  /\ timer' = [timer EXCEPT ![r] = "off"]
  /\ UNCHANGED <<inbox, terminal, parsed, child, stopping, mark, cancelling, storeVars>>

\* Mutant: a late success wins over the mark.
classifyTerminal_late(r) ==
  IF parsed[r] = "success" /\ child[r] = "exited" THEN "completed"
  ELSE IF mark[r] = "none" THEN "failed" ELSE mark[r]

\* classifyTerminal, and what the generator yields for each class.
classifyTerminal(r) ==
  IF mark[r] = "cancelled" THEN "cancelled"
  ELSE IF mark[r] = "timed_out" THEN "timed_out"
  ELSE IF parsed[r] = "success" /\ child[r] = "exited" THEN "completed"
  ELSE "failed"

Verify(r) ==
  /\ pc[r] = "verifying"
  /\ pc'    = [pc EXCEPT ![r] = "closing"]
  /\ inbox' = [inbox EXCEPT ![r] = <<classifyTerminal(r)>>]
  /\ UNCHANGED <<terminal, parsed, childVars, cancelling, storeVars>>

\* verifyNoDescendants: the query fails, or a child of the child is left.
VerifyFails(r) ==
  /\ pc[r] = "verifying"
  /\ Throw(r)
  /\ UNCHANGED <<child, stopping, mark>>

\* The generator is done and the loop ends.
Finish(r) ==
  /\ pc[r] = "closing"
  /\ inbox[r] = <<>>
  /\ Leave(r)
  /\ Unfinished(r)
  /\ UNCHANGED <<child, stopping, mark>>

-----------------------------------------------------------------------------
(***************************************************************************)
(* The child, and the two timers.                                          *)
(***************************************************************************)
ChildExit(r, how) ==
  /\ child[r] = "live"
  /\ stopping[r] = "forced" => how = "crashed"
  /\ child' = [child EXCEPT ![r] = how]
  /\ UNCHANGED <<generatorVars, stopping, mark, timer, cancelling, storeVars>>

\* Mutant: the run is marked and its child not stopped.
TimerFires_markOnly(r) ==
  /\ timer[r] = "armed"
  /\ timer' = [timer EXCEPT ![r] = "off"]
  /\ mark'  = [mark EXCEPT ![r] = IF child[r] = "live" /\ @ = "none" THEN "timed_out" ELSE @]
  /\ UNCHANGED <<generatorVars, child, stopping, cancelling, storeVars>>

\* markTimedOut, called by the deadline timer (or by armTimeout at once).
TimerFires(r) ==
  /\ timer[r] = "armed"
  /\ timer' = [timer EXCEPT ![r] = "off"]
  /\ IF child[r] = "live" /\ mark[r] = "none"
     THEN /\ mark'     = [mark EXCEPT ![r] = "timed_out"]
          /\ stopping' = Stopped(r)
     ELSE UNCHANGED <<mark, stopping>>
  /\ UNCHANGED <<generatorVars, child, cancelling, storeVars>>

ForceTimerFires(r) ==
  /\ stopping[r] = "graceful"
  /\ child[r] = "live"
  /\ stopping' = [stopping EXCEPT ![r] = "forced"]
  /\ UNCHANGED <<generatorVars, child, mark, timer, cancelling, storeVars>>

-----------------------------------------------------------------------------
(***************************************************************************)
(* ProviderRunService.cancel.  A run that is not active, or was cancelled  *)
(* before, is left alone.                                                  *)
(***************************************************************************)
\* What cancel does last: write the cancellation unless the run is over.
RecordCancellation(r) ==
  IF status[r] \in Running
  THEN \/ persist(r, "cancelled") /\ cancelling' = [cancelling EXCEPT ![r] = "returned"]
       \/ Fault /\ cancelling' = [cancelling EXCEPT ![r] = "rejected"]
  ELSE /\ cancelling' = [cancelling EXCEPT ![r] = "returned"]
       /\ UNCHANGED storeVars

Active(r) == pc[r] \notin {"idle", "finished"}

\* No child is registered yet, or it is being stopped for its deadline: there
\* is nothing to wait for.
CancelAtOnce(r) ==
  /\ Active(r) /\ cancelling[r] = "no"
  /\ ~HasHandle(r) \/ (child[r] = "live" /\ mark[r] = "timed_out")
  /\ RecordCancellation(r)
  /\ UNCHANGED <<generatorVars, childVars>>

\* The child is live: mark it, ask it to stop, and wait for its exit.
Cancel(r) ==
  /\ Active(r) /\ cancelling[r] = "no"
  /\ HasHandle(r) /\ child[r] = "live" /\ mark[r] = "none"
  /\ mark'       = [mark EXCEPT ![r] = "cancelled"]
  /\ stopping'   = Stopped(r)
  /\ cancelling' = [cancelling EXCEPT ![r] = "waiting"]
  /\ UNCHANGED <<generatorVars, child, timer, storeVars>>

\* The record is closed: requireLive throws, after `cancelled` has the run.
CancelRejected(r) ==
  /\ Active(r) /\ cancelling[r] = "no"
  /\ HasHandle(r) /\ child[r] # "live"
  /\ cancelling' = [cancelling EXCEPT ![r] = "rejected"]
  /\ UNCHANGED <<generatorVars, childVars, storeVars>>

\* The child has exited and the descendant query finds nothing.
CancelFinishes(r) ==
  /\ cancelling[r] = "waiting"
  /\ child[r] # "live"
  /\ RecordCancellation(r)
  /\ UNCHANGED <<generatorVars, childVars>>

\* The descendant query fails or finds a process.
CancelFails(r) ==
  /\ cancelling[r] = "waiting"
  /\ child[r] # "live"
  /\ cancelling' = [cancelling EXCEPT ![r] = "rejected"]
  /\ UNCHANGED <<generatorVars, childVars, storeVars>>

-----------------------------------------------------------------------------
Execute(r) ==
  \/ Reject(r) \/ Start(r)
  \/ Prepare(r) \/ InspectionFailure(r) \/ CannotSpawn(r) \/ Spawn(r)
  \/ PromptDelivered(r) \/ PromptRejected(r)
  \/ SessionFrame(r) \/ OutputFrame(r) \/ ProtocolError(r) \/ StreamFailure(r)
  \/ \E verdict \in {"success", "failure"} : ResultFrame(r, verdict)
  \/ Drop(r) \/ TakeSession(r) \/ TakeEvent(r) \/ WriteRefused(r) \/ WriteFails(r)
  \/ StreamEnd(r) \/ Verify(r) \/ VerifyFails(r) \/ Finish(r)

CancelRun(r) ==
  CancelAtOnce(r) \/ Cancel(r) \/ CancelRejected(r) \/ CancelFinishes(r) \/ CancelFails(r)

ChildSteps(r) ==
  TimerFires(r) \/ ForceTimerFires(r) \/ \E how \in {"exited", "crashed"} : ChildExit(r, how)

\* A run executed by another server process on the same database.
Elsewhere(r) ==
  /\ \/ status[r] = "starting" /\ persist(r, "started")
     \/ status[r] = "running" /\ \E type \in {"completed", "failed"} : persist(r, type)
  /\ UNCHANGED <<generatorVars, childVars, cancelling>>

Next ==
  \/ \E r \in Ours : Execute(r) \/ CancelRun(r) \/ ChildSteps(r)
  \/ \E r \in Run \ Ours : Elsewhere(r)

Spec == Init /\ [][Next]_vars

(***************************************************************************)
(* What is sure to happen.  A callback that is due runs; the probes, spawn *)
(* and the descendant query answer (the query gives up after 10 s); timers *)
(* fire; taskkill /T /F ends a process.  Nothing says that a child reads   *)
(* its prompt, writes output, or exits of its own accord or when asked     *)
(* politely; a prompt does settle once the child is gone.                  *)
(***************************************************************************)
Settles(r) ==
  \/ Prepare(r) \/ InspectionFailure(r) \/ CannotSpawn(r) \/ Spawn(r)
  \/ child[r] # "live" /\ (PromptDelivered(r) \/ PromptRejected(r))
  \/ Drop(r) \/ TakeSession(r) \/ TakeEvent(r) \/ WriteRefused(r)
  \/ StreamEnd(r) \/ Verify(r) \/ VerifyFails(r) \/ Finish(r)

Fairness ==
  \A r \in Ours :
    /\ WF_vars(Settles(r))
    /\ WF_vars(TimerFires(r))
    /\ WF_vars(ForceTimerFires(r))
    /\ WF_vars(stopping[r] = "forced" /\ ChildExit(r, "crashed"))
    /\ WF_vars(CancelFinishes(r) \/ CancelFails(r))

FairSpec == Spec /\ Fairness

-----------------------------------------------------------------------------
(***************************************************************************)
(* What the log says of a run.                                             *)
(***************************************************************************)
EventsOf(r) == { i \in 1 .. Len(log) : log[i].run = r }

\* A run's terminal event is its last: neither a late result, nor the failure
\* recorded for an error, nor a cancellation that crosses either of them adds
\* a second one or lets output follow it.
NothingFollowsTheTerminalEvent ==
  \A r \in Run : \A i, j \in EventsOf(r) :
    i < j => log[i].type \notin TerminalType

\* The status column can be recomputed from the log: it is what the last event
\* that concerns the status says, or starting if there is none.
StatusIsTheLogs ==
  \A r \in Run :
    LET said == { i \in EventsOf(r) : log[i].type # "delta" } IN
      IF said = {} THEN status[r] = "starting"
      ELSE \E i \in said : /\ \A j \in said : j <= i
                          /\ status[r] = statusFor(log[i].type, "")

\* The row of a run and its part of the log tell one history, with one end
\* (provider-run-service.ts:144-210, 231-253).
RunConsistent == TypeOK /\ NothingFollowsTheTerminalEvent /\ StatusIsTheLogs

\* A run is recorded as succeeded only if its child has exited with code 0, its
\* output held one result, a successful one, and nothing broken, and it was
\* neither cancelled nor out of time before it exited (contract 7.2: exit 0
\* without a RunResult, or with a malformed one, is a failure).
SuccessIsEarned ==
  \A r \in Ours : status[r] = "succeeded" =>
    child[r] = "exited" /\ parsed[r] = "success" /\ mark[r] = "none"

\* A run whose deadline passed is reported so only when its child is gone.
TimeoutIsReportedAfterExit ==
  \A r \in Ours : status[r] = "timed_out" =>
    child[r] \in {"exited", "crashed"} /\ mark[r] = "timed_out"

\* A run that is left while its child works on, unasked to stop, is left by one
\* thing only, as long as no write fails: the index refused its event, because
\* another attempt of the same step had started.  It is recorded as failed, its
\* child notwithstanding.
OrphansAreExplained ==
  \A r \in Run :
    pc[r] = "finished" /\ child[r] = "live" /\ stopping[r] = "no" /\ faults = 0 =>
      /\ status[r] = "failed" /\ cancelling[r] = "no"
      /\ \E q \in Run \ {r} : /\ StepOf[q] = StepOf[r]
                             /\ \E i \in EventsOf(q) : log[i].type = "started"

\* What is recorded as the outcome is what became of the child, however its
\* last output, its exit, the deadline and a cancellation crossed
\* (adapter.ts:848-884), but for the one race that leaves a failed run's child
\* at work (provider-run-service.ts:160-176).
VerdictsAreEarned ==
  SuccessIsEarned /\ TimeoutIsReportedAfterExit /\ OrphansAreExplained

\* When execute has returned for a run that nobody cancelled, the run has a
\* terminal status, whichever of its steps failed, unless writing to the
\* database did: a run is not left running with nobody to end it.
FinishedRunIsTerminal ==
  \A r \in Run :
    pc[r] = "finished" /\ cancelling[r] = "no" /\ faults = 0
      => status[r] \in TerminalRun

\* A call of cancel that returns leaves a run that is over.
ReturnedIsOver ==
  \A r \in Run : cancelling[r] = "returned" => status[r] \in TerminalRun

\* A run that execute has left is open, as long as no write fails, only while
\* the call of cancel is still waiting, or for ever after that call was refused
\* because the child had gone: nobody else ends it (adapter.ts:848-884,
\* provider-run-service.ts:231-253).
OpenRunsAreExplained ==
  /\ ReturnedIsOver
  /\ \A r \in Run :
       pc[r] = "finished" /\ faults = 0 /\ status[r] \notin TerminalRun =>
         \/ cancelling[r] = "waiting"
         \/ cancelling[r] = "rejected" /\ child[r] \in {"exited", "crashed"}

\* From the moment a cancellation is accepted the run can only become
\* cancelled: no output, success, failure or timeout that is still on its way
\* is recorded (contract 7.2: cancelled wins over a later success).
CancellationWins ==
  [][\A r \in Run : cancelling[r] # "no" =>
       /\ status'[r] \in {status[r], "cancelled"}
       /\ \A i \in Len(log) + 1 .. Len(log') :
            log'[i].run = r => log'[i].type = "cancelled"]_vars

\* A run that is reading output ends: the deadline stops the child and the
\* force timer kills it if it will not stop.
ReadingEnds == \A r \in Run : pc[r] = "reading" ~> pc[r] = "finished"

\* The call of cancel returns or rejects, and a child that was told to stop is
\* gone in the end, even one whose run was left by an error in between.
CancelSettles == \A r \in Run : cancelling[r] = "waiting" ~> cancelling[r] # "waiting"
StoppedChildDies == \A r \in Run : stopping[r] # "no" ~> child[r] # "live"

\* Nothing of a run is waited for in vain: neither its output, nor the call of
\* cancel, nor the death of a child that was told to stop.
EveryWaitEnds == ReadingEnds /\ CancelSettles /\ StoppedChildDies

(***************************************************************************)
(* What the documents promise and the code does not keep.                  *)
(***************************************************************************)

\* A cancelled call of cancel leaves a run that is over: "the step and the run
\* become cancelled after the exit".
CancelledRunIsOver ==
  \A r \in Run :
    pc[r] = "finished" /\ cancelling[r] \in {"returned", "rejected"} /\ faults = 0
      => status[r] \in TerminalRun

\* A run whose execution was left, for an error or at its end, has no child at
\* work that nobody has told to stop.
NoOrphan ==
  \A r \in Run : pc[r] = "finished" /\ child[r] = "live" => stopping[r] # "no"

-----------------------------------------------------------------------------
(***************************************************************************)
(* The service as a user of the execution tables: its rows and its log are *)
(* those of ExecutionStore, where every run here belongs to one task, has  *)
(* its row, and no other command is under way.                             *)
(***************************************************************************)
TheTask   == "task"
NoCommand == [entity |-> TheTask, to |-> "none"]

\* A row's identifier names its table, and there are finitely many runs.
ASSUME RowsAssumption ==
  /\ TheTask \notin Step \cup Run
  /\ Step \cap Run = {}
  /\ IsFiniteSet(Run)

RowOf(i) ==
  [ task         |-> TheTask,
    subject      |-> log[i].run,
    taskSequence |-> i,
    runSequence  |-> Cardinality({ j \in EventsOf(log[i].run) : j <= i }) ]

rowStatus == [e \in {TheTask} \cup Step \cup Run |->
                IF e \in Run THEN status[e] ELSE "running"]
startedRuns   == { r \in Run : \E i \in EventsOf(r) : log[i].type = "started" }
completedRuns == { r \in Run : status[r] \in TerminalRun }
taskSequences == [t \in {TheTask} |-> Len(log) + 1]
runSequences  == [r \in Run |-> Cardinality(EventsOf(r)) + 1]
rows          == { RowOf(i) : i \in 1 .. Len(log) }

Store == INSTANCE ExecutionStore WITH
  Task      <- {TheTask},
  TaskOf    <- [x \in Step |-> TheTask],
  Process   <- {"server"},
  NULL      <- NoCommand,
  Created   <- {},
  MaxEvents <- MaxEvents + 2 * Cardinality(Run),
  status    <- rowStatus,
  plans     <- {TheTask},
  started   <- startedRuns,
  completed <- completedRuns,
  nextTask  <- taskSequences,
  nextRun   <- runSequences,
  events    <- rows,
  pending   <- [p \in {"server"} |-> NoCommand]

\* Every step of the service is one operation of the execution tables, or
\* leaves them alone: in particular no write bypasses the transition trigger
\* or the index that keeps one running run per step.
StoreSteps == [][Store!Next]_(Store!vars)
=============================================================================
