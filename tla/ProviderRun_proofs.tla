------------------------- MODULE ProviderRun_proofs ------------------------
(***************************************************************************)
(* Theorems about ProviderRun, for any set of runs, of which this server   *)
(* executes any part: what a run's row and its events may say, whichever   *)
(* of its callbacks, timers and failing writes come in between.            *)
(***************************************************************************)
EXTENDS ProviderRun, FiniteSetTheorems, TLAPS

-----------------------------------------------------------------------------
(***************************************************************************)
(* The inductive invariant.                                                *)
(***************************************************************************)
Earned(r)   == child[r] = "exited" /\ parsed[r] = "success" /\ mark[r] = "none"
TimedOut(r) == child[r] \in {"exited", "crashed"} /\ mark[r] = "timed_out"
Over(r)     == pc[r] \in {"closing", "finished"}

\* A verdict is given once the generator reads no more, and is then a fact
\* about a child that is gone: nothing can take it back.
Deserved(r, type) ==
  /\ type = "completed" => Over(r) /\ Earned(r)
  /\ type = "timed_out" => Over(r) /\ TimedOut(r)

\* A run that does not execute here, or not yet, has no events and no
\* cancellation.
NotBegun(r) ==
  /\ r \notin Ours => pc[r] = "idle"
  /\ pc[r] = "idle" => cancelling[r] = "no"

\* What the generator has ready: the events of one chunk, or one verdict.
InboxShape(r) ==
  \/ inbox[r] = <<>>
  \/ pc[r] = "reading" /\ inbox[r] \in {<<"session", "started">>, <<"started">>, <<"delta">>}
  \/ pc[r] = "closing" /\ \E type \in TerminalType :
       inbox[r] = <<type>> /\ Deserved(r, type)

VerifiedIsGone(r) == pc[r] = "verifying" => child[r] \in {"exited", "crashed"}

\* The only statuses that are ever written.
WrittenStatus(r) ==
  status[r] \in {"starting", "running", "succeeded", "failed", "timed_out", "cancelled"}

StatusIsDeserved(r) ==
  r \in Ours => /\ status[r] = "succeeded" => Deserved(r, "completed")
                /\ status[r] = "timed_out" => Deserved(r, "timed_out")

\* A run here has a terminal status only when its generator has no more to
\* say, or is not listened to.
TerminalIsQuiet(r) ==
  r \in Ours /\ status[r] \in TerminalRun =>
    pc[r] = "finished" \/ (pc[r] = "closing" /\ inbox[r] = <<>>) \/ cancelling[r] # "no"

\* `terminal` is set only when a terminal event has been written.
TerminalIsWritten(r) == terminal[r] => status[r] \in TerminalRun

LeftIsTerminal(r) ==
  pc[r] = "finished" /\ cancelling[r] = "no" /\ faults = 0 => status[r] \in TerminalRun

Local(r) ==
  /\ NotBegun(r)
  /\ InboxShape(r)
  /\ VerifiedIsGone(r)
  /\ WrittenStatus(r)
  /\ StatusIsDeserved(r)
  /\ TerminalIsQuiet(r)
  /\ TerminalIsWritten(r)
  /\ LeftIsTerminal(r)

GeneratorInv == \A r \in Run : Local(r)

LogInv ==
  /\ NothingFollowsTheTerminalEvent
  /\ StatusIsTheLogs

IInv == TypeOK /\ GeneratorInv /\ LogInv

-----------------------------------------------------------------------------
(***************************************************************************)
(* Type correctness: first what a write leaves of the store, then one case *)
(* per action.                                                             *)
(***************************************************************************)
StoreTyped ==
  /\ status \in [Run -> RunStatus]
  /\ session \subseteq Run
  /\ log \in Seq([run : Run, type : EventType])
  /\ faults \in 0 .. MaxFaults

GeneratorTyped ==
  /\ pc \in [Run -> {"idle", "preparing", "spawning", "prompting", "reading",
                     "verifying", "closing", "finished"}]
  /\ inbox \in [Run -> Seq(EventType \cup {"session"})]
  /\ terminal \in [Run -> BOOLEAN]
  /\ parsed \in [Run -> {"nothing", "success", "failure", "error", "crashed"}]

ChildTyped ==
  /\ child \in [Run -> {"none", "live", "exited", "crashed"}]
  /\ stopping \in [Run -> {"no", "graceful", "forced"}]
  /\ mark \in [Run -> {"none", "cancelled", "timed_out"}]
  /\ timer \in [Run -> {"off", "armed"}]

CancelTyped == cancelling \in [Run -> {"no", "waiting", "returned", "rejected"}]

LEMMA TypeParts ==
  /\ TypeOK <=> StoreTyped /\ GeneratorTyped /\ ChildTyped /\ CancelTyped
  /\ TypeOK' <=> StoreTyped' /\ GeneratorTyped' /\ ChildTyped' /\ CancelTyped'
  BY DEF TypeOK, StoreTyped, GeneratorTyped, ChildTyped, CancelTyped

LEMMA StatusForType ==
  ASSUME NEW type \in EventType, NEW current \in RunStatus
  PROVE  statusFor(type, current) \in RunStatus
  BY DEF EventType, RunStatus, statusFor

LEMMA PersistTyped ==
  ASSUME StoreTyped, NEW r \in Run, NEW type \in EventType, persist(r, type)
  PROVE  StoreTyped'
  <1>1. statusFor(type, status[r]) \in RunStatus
    BY StatusForType DEF StoreTyped
  <1>2. status' \in [Run -> RunStatus]
    BY <1>1 DEF persist, StoreTyped
  <1>3. log' \in Seq([run : Run, type : EventType])
    <2>1. [run |-> r, type |-> type] \in [run : Run, type : EventType]
      OBVIOUS
    <2> QED
      BY <2>1 DEF persist, StoreTyped
  <1> QED
    BY <1>2, <1>3 DEF persist, StoreTyped

LEMMA FaultTyped ==
  ASSUME StoreTyped, Fault
  PROVE  StoreTyped'
  BY RunAssumption DEF StoreTyped, Fault, RunAssumption

LEMMA UnchangedStoreTyped ==
  ASSUME StoreTyped, UNCHANGED storeVars
  PROVE  StoreTyped'
  BY DEF StoreTyped, storeVars

LEMMA UnfinishedTyped ==
  ASSUME StoreTyped, NEW r \in Run, Unfinished(r)
  PROVE  StoreTyped'
  <1>1. "failed" \in EventType
    BY DEF EventType
  <1>2. persist(r, "failed") \/ Fault \/ UNCHANGED storeVars
    BY DEF Unfinished, persistFailure
  <1> QED
    BY <1>1, <1>2, PersistTyped, FaultTyped, UnchangedStoreTyped

LEMMA RecordTyped ==
  ASSUME StoreTyped, CancelTyped, NEW r \in Run, RecordCancellation(r)
  PROVE  StoreTyped' /\ CancelTyped'
  <1>1. "cancelled" \in EventType
    BY DEF EventType
  <1>2. persist(r, "cancelled") \/ Fault \/ UNCHANGED storeVars
    BY DEF RecordCancellation
  <1>3. StoreTyped'
    BY <1>1, <1>2, PersistTyped, FaultTyped, UnchangedStoreTyped
  <1>4. CancelTyped'
    BY DEF RecordCancellation, CancelTyped
  <1> QED
    BY <1>3, <1>4

LEMMA LeaveTyped ==
  ASSUME GeneratorTyped, ChildTyped, CancelTyped, NEW r \in Run, Leave(r),
         UNCHANGED <<child, stopping, mark>>
  PROVE  GeneratorTyped' /\ ChildTyped' /\ CancelTyped'
  <1>1. <<>> \in Seq(EventType \cup {"session"})
    OBVIOUS
  <1> QED
    BY <1>1 DEF GeneratorTyped, ChildTyped, CancelTyped, Leave

LEMMA StoppedTyped ==
  ASSUME ChildTyped, NEW r \in Run
  PROVE  Stopped(r) \in [Run -> {"no", "graceful", "forced"}]
  BY DEF ChildTyped, Stopped

LEMMA ExecuteTyped ==
  ASSUME TypeOK, NEW r \in Ours, Execute(r)
  PROVE  TypeOK'
  <1>1. r \in Run
    BY RunAssumption DEF RunAssumption
  <1>2. StoreTyped /\ GeneratorTyped /\ ChildTyped /\ CancelTyped
    BY TypeParts
  <1>3. "failed" \in EventType /\ TerminalType \subseteq EventType
    BY DEF EventType, TerminalType
  <1> USE <1>1, <1>2
  <1>4. ASSUME UNCHANGED storeVars, UNCHANGED cancelling, GeneratorTyped', ChildTyped'
        PROVE  TypeOK'
    BY <1>4, UnchangedStoreTyped, TypeParts DEF CancelTyped
  <1>5. ASSUME Leave(r), StoreTyped', UNCHANGED <<child, stopping, mark>>
        PROVE  TypeOK'
    BY <1>5, LeaveTyped, TypeParts
  <1>6. ASSUME NEW s \in Seq(EventType \cup {"session"}),
               inbox' = [inbox EXCEPT ![r] = s]
        PROVE  inbox' \in [Run -> Seq(EventType \cup {"session"})]
    BY <1>6 DEF GeneratorTyped
  <1>7. inbox[r] # <<>> => /\ Head(inbox[r]) \in EventType \cup {"session"}
                           /\ Tail(inbox[r]) \in Seq(EventType \cup {"session"})
    BY DEF GeneratorTyped
  <1>8. CASE Reject(r)
    <2>1. StoreTyped'
      BY <1>3, <1>8, PersistTyped, FaultTyped DEF Reject
    <2>2. GeneratorTyped' /\ ChildTyped' /\ CancelTyped'
      BY <1>8 DEF Reject, GeneratorTyped, ChildTyped, CancelTyped, childVars
    <2> QED
      BY <2>1, <2>2, TypeParts
  <1>9. CASE Start(r) \/ Prepare(r) \/ Spawn(r) \/ PromptDelivered(r)
    <2>1. GeneratorTyped' /\ ChildTyped'
      BY <1>9, ZenonT(40)
         DEF Start, Prepare, Spawn, PromptDelivered, GeneratorTyped, ChildTyped, childVars
    <2>2. UNCHANGED storeVars /\ UNCHANGED cancelling
      BY <1>9 DEF Start, Prepare, Spawn, PromptDelivered
    <2> QED
      BY <1>4, <2>1, <2>2
  <1>10. CASE InspectionFailure(r) \/ Verify(r)
    <2>1. classifyTerminal(r) \in {"cancelled", "timed_out", "completed", "failed"}
      BY DEF classifyTerminal
    <2>2. <<"failed">> \in Seq(EventType \cup {"session"})
          /\ <<classifyTerminal(r)>> \in Seq(EventType \cup {"session"})
      BY <2>1 DEF EventType
    <2>3. inbox' \in [Run -> Seq(EventType \cup {"session"})]
      BY <1>6, <1>10, <2>2 DEF InspectionFailure, Verify
    <2>4. GeneratorTyped' /\ ChildTyped'
      BY <1>10, <2>3 DEF InspectionFailure, Verify, GeneratorTyped, ChildTyped, childVars
    <2> QED
      BY <1>4, <1>10, <2>4 DEF InspectionFailure, Verify
  <1>11. CASE CannotSpawn(r) \/ WriteRefused(r) \/ VerifyFails(r) \/ Finish(r)
    <2>1. Leave(r) /\ Unfinished(r) /\ UNCHANGED <<child, stopping, mark>>
      BY <1>11 DEF CannotSpawn, WriteRefused, VerifyFails, Finish, Throw
    <2> QED
      BY <1>5, <2>1, UnfinishedTyped
  <1>12. CASE PromptRejected(r)
    <2>1. GeneratorTyped' /\ CancelTyped'
      BY <1>12 DEF PromptRejected, Throw, Leave, GeneratorTyped, CancelTyped
    <2>2. ChildTyped'
      BY <1>12, StoppedTyped DEF PromptRejected, Throw, Leave, ChildTyped
    <2>3. StoreTyped'
      BY <1>12, UnfinishedTyped DEF PromptRejected, Throw
    <2> QED
      BY <2>1, <2>2, <2>3, TypeParts
  <1>13. CASE SessionFrame(r) \/ OutputFrame(r)
    <2>1. <<"session", "started">> \in Seq(EventType \cup {"session"})
          /\ <<"delta">> \in Seq(EventType \cup {"session"})
      BY DEF EventType
    <2>2. inbox' \in [Run -> Seq(EventType \cup {"session"})]
      BY <1>6, <1>13, <2>1 DEF SessionFrame, OutputFrame
    <2>3. GeneratorTyped' /\ ChildTyped'
      BY <1>13, <2>2 DEF SessionFrame, OutputFrame, GeneratorTyped, ChildTyped, childVars
    <2> QED
      BY <1>4, <1>13, <2>3 DEF SessionFrame, OutputFrame
  <1>14. CASE ProtocolError(r) \/ StreamFailure(r)
              \/ \E verdict \in {"success", "failure"} : ResultFrame(r, verdict)
    <2>1. GeneratorTyped'
      BY <1>14 DEF ProtocolError, StreamFailure, ResultFrame, GeneratorTyped
    <2>2. ChildTyped'
      BY <1>14, StoppedTyped DEF ProtocolError, StreamFailure, ResultFrame, ChildTyped, childVars
    <2> QED
      BY <1>4, <1>14, <2>1, <2>2 DEF ProtocolError, StreamFailure, ResultFrame
  <1>15. CASE Drop(r)
    <2>1. inbox' \in [Run -> Seq(EventType \cup {"session"})]
      BY <1>6, <1>7, <1>15 DEF Drop
    <2>2. GeneratorTyped' /\ ChildTyped'
      BY <1>15, <2>1 DEF Drop, GeneratorTyped, ChildTyped, childVars
    <2> QED
      BY <1>4, <1>15, <2>2 DEF Drop
  <1>16. CASE TakeSession(r)
    <2>1. inbox' \in [Run -> Seq(EventType \cup {"session"})]
      BY <1>6, <1>7, <1>16 DEF TakeSession
    <2>2. GeneratorTyped' /\ ChildTyped' /\ CancelTyped'
      BY <1>16, <2>1 DEF TakeSession, GeneratorTyped, ChildTyped, CancelTyped, childVars
    <2>3. StoreTyped'
      BY <1>16 DEF TakeSession, StoreTyped
    <2> QED
      BY <2>2, <2>3, TypeParts
  <1>17. CASE TakeEvent(r)
    <2>1. Head(inbox[r]) \in EventType
      BY <1>7, <1>17 DEF TakeEvent
    <2>2. StoreTyped'
      BY <1>17, <2>1, PersistTyped DEF TakeEvent
    <2>3. inbox' \in [Run -> Seq(EventType \cup {"session"})]
      BY <1>6, <1>7, <1>17 DEF TakeEvent
    <2>4. terminal' \in [Run -> BOOLEAN]
      BY <1>17 DEF TakeEvent, GeneratorTyped
    <2>5. GeneratorTyped' /\ ChildTyped' /\ CancelTyped'
      BY <1>17, <2>3, <2>4 DEF TakeEvent, GeneratorTyped, ChildTyped, CancelTyped, childVars
    <2> QED
      BY <2>2, <2>5, TypeParts
  <1>18. CASE WriteFails(r)
    <2>1. CASE /\ status' = [status EXCEPT ![r] = "failed"]
               /\ log' = Append(log, [run |-> r, type |-> "failed"])
               /\ faults < MaxFaults
               /\ faults' = faults + 1
               /\ UNCHANGED session
      <3>1. [run |-> r, type |-> "failed"] \in [run : Run, type : EventType]
        BY <1>3
      <3>2. log' \in Seq([run : Run, type : EventType])
        BY <2>1, <3>1 DEF StoreTyped
      <3>3. "failed" \in RunStatus
        BY DEF RunStatus
      <3>4. status' \in [Run -> RunStatus] /\ faults' \in 0 .. MaxFaults
        BY <2>1, <3>3, RunAssumption DEF StoreTyped, RunAssumption
      <3>5. StoreTyped'
        BY <2>1, <3>2, <3>4 DEF StoreTyped
      <3> QED
        BY <1>5, <1>18, <3>5 DEF WriteFails
    <2>2. CASE /\ faults + 1 < MaxFaults
               /\ faults' = faults + 2
               /\ UNCHANGED <<status, session, log>>
      <3>1. StoreTyped'
        BY <2>2, RunAssumption DEF StoreTyped, RunAssumption
      <3> QED
        BY <1>5, <1>18, <3>1 DEF WriteFails
    <2> QED
      BY <1>18, <2>1, <2>2 DEF WriteFails
  <1>19. CASE StreamEnd(r)
    <2>1. GeneratorTyped' /\ ChildTyped'
      BY <1>19 DEF StreamEnd, GeneratorTyped, ChildTyped
    <2> QED
      BY <1>4, <1>19, <2>1 DEF StreamEnd
  <1> QED
    BY <1>8, <1>9, <1>10, <1>11, <1>12, <1>13, <1>14, <1>15, <1>16, <1>17, <1>18, <1>19
       DEF Execute

LEMMA TypeStep ==
  ASSUME TypeOK, [Next]_vars
  PROVE  TypeOK'
  <1>1. StoreTyped /\ GeneratorTyped /\ ChildTyped /\ CancelTyped
    BY TypeParts
  <1>2. Ours \subseteq Run
    BY RunAssumption DEF RunAssumption
  <1> USE <1>1
  <1>3. ASSUME NEW r \in Ours, CancelRun(r)
        PROVE  TypeOK'
    <2>1. r \in Run
      BY <1>2
    <2>2. GeneratorTyped'
      BY <1>3 DEF CancelRun, CancelAtOnce, Cancel, CancelRejected, CancelFinishes, CancelFails,
                  generatorVars, GeneratorTyped
    <2>3. ChildTyped'
      BY <1>3, <2>1, StoppedTyped
         DEF CancelRun, CancelAtOnce, Cancel, CancelRejected, CancelFinishes, CancelFails,
             childVars, ChildTyped
    <2>4. CASE RecordCancellation(r)
      BY <2>1, <2>2, <2>3, <2>4, RecordTyped, TypeParts
    <2>5. CASE Cancel(r) \/ CancelRejected(r) \/ CancelFails(r)
      <3>1. CancelTyped'
        BY <2>5 DEF Cancel, CancelRejected, CancelFails, CancelTyped
      <3>2. StoreTyped'
        BY <2>5, UnchangedStoreTyped DEF Cancel, CancelRejected, CancelFails
      <3> QED
        BY <2>2, <2>3, <3>1, <3>2, TypeParts
    <2> QED
      BY <1>3, <2>4, <2>5 DEF CancelRun, CancelAtOnce, CancelFinishes
  <1>4. ASSUME NEW r \in Ours, ChildSteps(r)
        PROVE  TypeOK'
    <2>1. GeneratorTyped' /\ CancelTyped'
      BY <1>4 DEF ChildSteps, TimerFires, ForceTimerFires, ChildExit, generatorVars,
                  GeneratorTyped, CancelTyped
    <2>2. StoreTyped'
      BY <1>4, UnchangedStoreTyped DEF ChildSteps, TimerFires, ForceTimerFires, ChildExit
    <2>3. CASE TimerFires(r)
      <3>1. stopping' \in [Run -> {"no", "graceful", "forced"}]
        BY <1>2, <2>3, StoppedTyped DEF TimerFires, ChildTyped
      <3> QED
        BY <2>1, <2>2, <2>3, <3>1, TypeParts DEF TimerFires, ChildTyped
    <2>4. CASE ForceTimerFires(r) \/ \E how \in {"exited", "crashed"} : ChildExit(r, how)
      <3>1. ChildTyped'
        BY <2>4 DEF ForceTimerFires, ChildExit, ChildTyped
      <3> QED
        BY <2>1, <2>2, <3>1, TypeParts
    <2> QED
      BY <1>4, <2>3, <2>4 DEF ChildSteps
  <1>5. ASSUME NEW r \in Run \ Ours, Elsewhere(r)
        PROVE  TypeOK'
    <2>1. {"started", "completed", "failed"} \subseteq EventType
      BY DEF EventType
    <2>2. StoreTyped'
      BY <1>5, <2>1, PersistTyped DEF Elsewhere
    <2>3. GeneratorTyped' /\ ChildTyped' /\ CancelTyped'
      BY <1>5 DEF Elsewhere, generatorVars, childVars, GeneratorTyped, ChildTyped, CancelTyped
    <2> QED
      BY <2>2, <2>3, TypeParts
  <1>6. CASE UNCHANGED vars
    BY <1>6 DEF vars, generatorVars, childVars, storeVars, TypeOK
  <1> QED
    BY <1>3, <1>4, <1>5, <1>6, ExecuteTyped DEF Next

LEMMA TypeInit == Init => TypeOK
  <1>1. <<>> \in Seq([run : Run, type : EventType]) /\ <<>> \in Seq(EventType \cup {"session"})
    OBVIOUS
  <1>2. "starting" \in RunStatus
    BY DEF RunStatus
  <1> QED
    BY <1>1, <1>2, RunAssumption DEF Init, TypeOK, RunAssumption

(***************************************************************************)
(* The state of the service is always of its type.                         *)
(***************************************************************************)
THEOREM TypeCorrect == Spec => []TypeOK
  BY TypeInit, TypeStep, PTL DEF Spec

-----------------------------------------------------------------------------
(***************************************************************************)
(* A step concerns one run: it leaves every other as it is, and a write    *)
(* that has failed stays counted.                                          *)
(***************************************************************************)
Frame(r) ==
  /\ \A q \in Run \ {r} :
       /\ pc'[q] = pc[q] /\ inbox'[q] = inbox[q] /\ terminal'[q] = terminal[q]
       /\ parsed'[q] = parsed[q] /\ child'[q] = child[q] /\ mark'[q] = mark[q]
       /\ cancelling'[q] = cancelling[q] /\ status'[q] = status[q]
  /\ faults' = 0 => faults = 0

LEMMA FrameSuffices ==
  ASSUME GeneratorInv, NEW r \in Run, Frame(r), Local(r)'
  PROVE  GeneratorInv'
  <1> SUFFICES ASSUME NEW q \in Run \ {r}
               PROVE  Local(q)'
    BY DEF GeneratorInv
  <1>1. Local(q)
    BY DEF GeneratorInv
  <1>2. NotBegun(q)' /\ VerifiedIsGone(q)' /\ WrittenStatus(q)' /\ TerminalIsQuiet(q)'
        /\ TerminalIsWritten(q)' /\ LeftIsTerminal(q)'
    BY <1>1 DEF Local, Frame, NotBegun, VerifiedIsGone, WrittenStatus, TerminalIsQuiet,
                TerminalIsWritten, LeftIsTerminal
  <1>3. \A type : Deserved(q, type) => Deserved(q, type)'
    BY DEF Frame, Deserved, Over, Earned, TimedOut
  <1>4. InboxShape(q)'
    BY <1>1, <1>3 DEF Local, Frame, InboxShape
  <1>5. StatusIsDeserved(q)'
    BY <1>1, <1>3 DEF Local, Frame, StatusIsDeserved
  <1> QED
    BY <1>2, <1>4, <1>5 DEF Local

LEMMA StoreFrame ==
  ASSUME TypeOK, NEW r \in Run
  PROVE  /\ \A type \in EventType : persist(r, type) \/ Fault =>
              (\A q \in Run \ {r} : status'[q] = status[q]) /\ (faults' = 0 => faults = 0)
         /\ Unfinished(r) \/ RecordCancellation(r) =>
              (\A q \in Run \ {r} : status'[q] = status[q]) /\ (faults' = 0 => faults = 0)
  BY DEF TypeOK, persist, Fault, Unfinished, persistFailure, RecordCancellation, storeVars

LEMMA ExecuteFrame ==
  ASSUME TypeOK, NEW r \in Ours, Execute(r)
  PROVE  Frame(r)
  <1>1. r \in Run
    BY RunAssumption DEF RunAssumption
  <1>2. "failed" \in EventType
    BY DEF EventType
  <1> USE <1>1
  <1>3. CASE Reject(r)
    BY <1>2, <1>3, StoreFrame DEF Reject, Frame, TypeOK, childVars
  <1>4. CASE Start(r) \/ Prepare(r) \/ InspectionFailure(r) \/ Spawn(r) \/ PromptDelivered(r)
    BY <1>4 DEF Start, Prepare, InspectionFailure, Spawn, PromptDelivered, Frame, TypeOK,
                childVars, storeVars
  <1>5. CASE CannotSpawn(r) \/ WriteRefused(r) \/ VerifyFails(r) \/ Finish(r) \/ PromptRejected(r)
    <2>1. Leave(r) /\ Unfinished(r) /\ UNCHANGED <<child, mark>>
      BY <1>5 DEF CannotSpawn, WriteRefused, VerifyFails, Finish, PromptRejected, Throw
    <2> QED
      BY <2>1, StoreFrame DEF Leave, Frame, TypeOK
  <1>6. CASE SessionFrame(r) \/ OutputFrame(r) \/ ProtocolError(r) \/ StreamFailure(r)
             \/ \E verdict \in {"success", "failure"} : ResultFrame(r, verdict)
    BY <1>6 DEF SessionFrame, OutputFrame, ProtocolError, StreamFailure, ResultFrame, Frame,
                TypeOK, childVars, storeVars
  <1>7. CASE Drop(r) \/ TakeSession(r)
    BY <1>7 DEF Drop, TakeSession, Frame, TypeOK, childVars, storeVars
  <1>8. CASE TakeEvent(r)
    <2>1. \A q \in Run \ {r} : status'[q] = status[q]
      BY <1>8 DEF TakeEvent, persist, TypeOK
    <2> QED
      BY <1>8, <2>1 DEF TakeEvent, persist, Frame, TypeOK, childVars
  <1>9. CASE WriteFails(r)
    <2>1. (\A q \in Run \ {r} : status'[q] = status[q]) /\ (faults' = 0 => faults = 0)
      BY <1>9 DEF WriteFails, TypeOK
    <2> QED
      BY <1>9, <2>1 DEF WriteFails, Leave, Frame, TypeOK
  <1>10. CASE StreamEnd(r) \/ Verify(r)
    BY <1>10 DEF StreamEnd, Verify, Frame, TypeOK, childVars, storeVars
  <1> QED
    BY <1>3, <1>4, <1>5, <1>6, <1>7, <1>8, <1>9, <1>10 DEF Execute

LEMMA CancelFrame ==
  ASSUME TypeOK, NEW r \in Ours, CancelRun(r)
  PROVE  Frame(r)
  <1>1. r \in Run
    BY RunAssumption DEF RunAssumption
  <1>2. \A q \in Run \ {r} : cancelling'[q] = cancelling[q]
    BY DEF CancelRun, CancelAtOnce, Cancel, CancelRejected, CancelFinishes, CancelFails,
           RecordCancellation, TypeOK
  <1>3. (\A q \in Run \ {r} : status'[q] = status[q]) /\ (faults' = 0 => faults = 0)
    BY <1>1, StoreFrame DEF CancelRun, CancelAtOnce, Cancel, CancelRejected, CancelFinishes,
           CancelFails, storeVars
  <1> QED
    BY <1>2, <1>3 DEF CancelRun, CancelAtOnce, Cancel, CancelRejected, CancelFinishes,
           CancelFails, generatorVars, childVars, Frame, TypeOK

LEMMA ChildFrame ==
  ASSUME TypeOK, NEW r \in Ours, ChildSteps(r)
  PROVE  Frame(r)
  BY DEF ChildSteps, TimerFires, ForceTimerFires, ChildExit, generatorVars, storeVars, Frame, TypeOK

LEMMA ElsewhereFrame ==
  ASSUME TypeOK, NEW r \in Run \ Ours, Elsewhere(r)
  PROVE  Frame(r)
  <1>1. {"started", "completed", "failed"} \subseteq EventType
    BY DEF EventType
  <1> QED
    BY <1>1, StoreFrame DEF Elsewhere, generatorVars, childVars, Frame

-----------------------------------------------------------------------------
(***************************************************************************)
(* What is ever written, and what it takes to write it: the run is not     *)
(* over, the trigger and the index let it through, a success or a timeout  *)
(* is deserved, and a run whose cancellation was accepted gets nothing but *)
(* the cancellation.                                                       *)
(***************************************************************************)
Write(r, type) ==
  /\ status[r] \notin TerminalRun
  /\ Writable(r, type)
  /\ cancelling[r] # "no" => type = "cancelled"
  /\ r \in Ours => Deserved(r, type)
  /\ status' = [status EXCEPT ![r] = statusFor(type, @)]
  /\ log' = Append(log, [run |-> r, type |-> type])

Writes(r) ==
  \/ UNCHANGED <<status, log>>
  \/ \E type \in EventType : Write(r, type)

LEMMA NothingDeserved ==
  ASSUME NEW r
  PROVE  \A type : type \notin {"completed", "timed_out"} => Deserved(r, type)
  BY DEF Deserved

LEMMA StatusOfType ==
  ASSUME NEW current, NEW type \in EventType
  PROVE  /\ statusFor(type, current) \in TerminalRun <=>
              type \in TerminalType \/ (type = "delta" /\ current \in TerminalRun)
         /\ statusFor(type, current) = "succeeded" =>
              type = "completed" \/ (type = "delta" /\ current = "succeeded")
         /\ statusFor(type, current) = "timed_out" =>
              type = "timed_out" \/ (type = "delta" /\ current = "timed_out")
         /\ type = "delta" => statusFor(type, current) = current
         /\ type # "delta" => statusFor(type, current) \in
              {"running", "succeeded", "failed", "timed_out", "cancelled"}
         /\ type # "delta" => statusFor(type, current) = statusFor(type, "")
  BY DEF EventType, TerminalType, TerminalRun, statusFor

LEMMA UnfinishedWrites ==
  ASSUME NEW r \in Run, Unfinished(r)
  PROVE  Writes(r)
  <1>1. CASE ~terminal[r] /\ cancelling[r] = "no" /\ status[r] \in {"starting", "running"}
    <2>1. CASE persist(r, "failed")
      <3>1. status[r] \notin TerminalRun
        BY <1>1 DEF TerminalRun
      <3>2. Write(r, "failed")
        BY <1>1, <2>1, <3>1, NothingDeserved DEF Write, persist
      <3> QED
        BY <3>2 DEF Writes, EventType
    <2> QED
      BY <1>1, <2>1 DEF Unfinished, persistFailure, Fault, Writes
  <1>2. CASE UNCHANGED storeVars
    BY <1>2 DEF Writes, storeVars
  <1> QED
    BY <1>1, <1>2 DEF Unfinished, persistFailure

LEMMA RecordWrites ==
  ASSUME NEW r \in Run, RecordCancellation(r)
  PROVE  Writes(r)
  <1>1. CASE status[r] \in Running /\ persist(r, "cancelled")
    <2>1. status[r] \notin TerminalRun
      BY <1>1 DEF Running, TerminalRun
    <2>2. Write(r, "cancelled")
      BY <1>1, <2>1, NothingDeserved DEF Write, persist
    <2> QED
      BY <2>2 DEF Writes, EventType
  <1> QED
    BY <1>1 DEF RecordCancellation, Fault, Writes, storeVars

\* The event at the head of what the generator has ready, and the rest.
LEMMA NextEvent ==
  ASSUME TypeOK, NEW r \in Run, InboxShape(r), inbox[r] # <<>>
  PROVE  \/ /\ pc[r] = "reading"
            /\ Head(inbox[r]) \in {"session", "started", "delta"}
            /\ Tail(inbox[r]) \in {<<>>, <<"started">>}
         \/ /\ pc[r] = "closing"
            /\ Head(inbox[r]) \in TerminalType
            /\ Tail(inbox[r]) = <<>>
            /\ Deserved(r, Head(inbox[r]))
  <1>1. \A type : Head(<<type>>) = type /\ Tail(<<type>>) = <<>>
    OBVIOUS
  <1>2. Head(<<"session", "started">>) = "session" /\ Tail(<<"session", "started">>) = <<"started">>
    OBVIOUS
  <1> QED
    BY <1>1, <1>2 DEF InboxShape

LEMMA ExecuteWrites ==
  ASSUME TypeOK, NEW r \in Ours, Local(r), Execute(r)
  PROVE  Writes(r)
  <1>1. r \in Run
    BY RunAssumption DEF RunAssumption
  <1> USE <1>1 DEF Local
  <1>2. CASE Reject(r) /\ persist(r, "failed")
    <2>1. status[r] \notin TerminalRun /\ cancelling[r] = "no"
      BY <1>2 DEF Reject, NotBegun, TerminalIsQuiet
    <2>2. Write(r, "failed")
      BY <1>2, <2>1, NothingDeserved DEF Write, persist
    <2> QED
      BY <2>2 DEF Writes, EventType
  <1>3. CASE CannotSpawn(r) \/ PromptRejected(r) \/ WriteRefused(r) \/ VerifyFails(r) \/ Finish(r)
    BY <1>3, UnfinishedWrites
       DEF CannotSpawn, PromptRejected, WriteRefused, VerifyFails, Finish, Throw
  <1>4. CASE TakeEvent(r)
    <2>1. inbox[r] # <<>> /\ Head(inbox[r]) # "session" /\ cancelling[r] = "no"
      BY <1>4 DEF TakeEvent
    <2>2. Head(inbox[r]) \in EventType /\ Deserved(r, Head(inbox[r]))
          /\ pc[r] \in {"reading", "closing"}
      BY <2>1, NextEvent, NothingDeserved DEF EventType, TerminalType
    <2>3. status[r] \notin TerminalRun
      BY <2>1, <2>2 DEF TerminalIsQuiet
    <2>4. Write(r, Head(inbox[r]))
      BY <1>4, <2>1, <2>2, <2>3 DEF TakeEvent, Write, persist
    <2> QED
      BY <2>2, <2>4 DEF Writes
  <1>5. CASE WriteFails(r)
    <2>1. CASE /\ status[r] \in {"starting", "running"}
               /\ status' = [status EXCEPT ![r] = "failed"]
               /\ log' = Append(log, [run |-> r, type |-> "failed"])
      <3>1. status[r] \notin TerminalRun /\ cancelling[r] = "no"
        BY <1>5, <2>1 DEF WriteFails, TerminalRun
      <3>2. statusFor("failed", status[r]) = "failed"
        BY DEF statusFor
      <3>3. Writable(r, "failed")
        BY <2>1, <3>2 DEF Writable, runs_transition_guard
      <3>4. Write(r, "failed")
        BY <2>1, <3>1, <3>2, <3>3, NothingDeserved DEF Write
      <3> QED
        BY <3>4 DEF Writes, EventType
    <2> QED
      BY <1>5, <2>1 DEF WriteFails, Writes
  <1> QED
    BY <1>2, <1>3, <1>4, <1>5
       DEF Execute, Reject, Fault, Start, Prepare, InspectionFailure, Spawn, PromptDelivered,
           SessionFrame, OutputFrame, ProtocolError, StreamFailure, ResultFrame, Drop,
           TakeSession, StreamEnd, Verify, storeVars, Writes

LEMMA CancelWrites ==
  ASSUME NEW r \in Ours, CancelRun(r)
  PROVE  Writes(r)
  <1>1. r \in Run
    BY RunAssumption DEF RunAssumption
  <1> QED
    BY <1>1, RecordWrites
       DEF CancelRun, CancelAtOnce, Cancel, CancelRejected, CancelFinishes, CancelFails,
           storeVars, Writes

LEMMA ChildWrites ==
  ASSUME NEW r \in Ours, ChildSteps(r)
  PROVE  Writes(r)
  BY DEF ChildSteps, TimerFires, ForceTimerFires, ChildExit, storeVars, Writes

LEMMA ElsewhereWrites ==
  ASSUME NEW r \in Run \ Ours, Local(r), Elsewhere(r)
  PROVE  Writes(r)
  <1>1. cancelling[r] = "no"
    BY DEF Local, NotBegun
  <1>2. PICK type \in {"started", "completed", "failed"} :
          status[r] \in {"starting", "running"} /\ persist(r, type)
    BY DEF Elsewhere
  <1>3. status[r] \notin TerminalRun
    BY <1>2 DEF TerminalRun
  <1>4. Write(r, type)
    BY <1>1, <1>2, <1>3 DEF Write, persist
  <1> QED
    BY <1>2, <1>4 DEF Writes, EventType

-----------------------------------------------------------------------------
(***************************************************************************)
(* A verdict stands: once the generator reads no more and the child is     *)
(* gone, no callback changes what they are.                                *)
(***************************************************************************)
LEMMA VerdictStands ==
  ASSUME TypeOK, NEW r \in Ours, Execute(r) \/ CancelRun(r) \/ ChildSteps(r)
  PROVE  \A type : Deserved(r, type) => Deserved(r, type)'
  <1>1. r \in Run
    BY RunAssumption DEF RunAssumption
  <1>2. SUFFICES ASSUME Over(r), child[r] \in {"exited", "crashed"}
                 PROVE  Over(r)' /\ child'[r] = child[r] /\ parsed'[r] = parsed[r]
                        /\ mark'[r] = mark[r]
    BY DEF Deserved, Earned, TimedOut
  <1> USE <1>1, <1>2 DEF Over
  <1>3. CASE Execute(r)
    <2>1. CASE TakeEvent(r) \/ Drop(r) \/ TakeSession(r)
      BY <2>1 DEF TakeEvent, Drop, TakeSession, childVars
    <2>2. CASE WriteRefused(r) \/ WriteFails(r) \/ Finish(r)
      BY <2>2 DEF WriteRefused, WriteFails, Finish, Throw, Leave, TypeOK
    <2>3. ~(\/ Reject(r) \/ Start(r) \/ Prepare(r) \/ InspectionFailure(r) \/ CannotSpawn(r)
            \/ Spawn(r) \/ PromptDelivered(r) \/ PromptRejected(r) \/ SessionFrame(r)
            \/ OutputFrame(r) \/ ProtocolError(r) \/ StreamFailure(r)
            \/ (\E verdict \in {"success", "failure"} : ResultFrame(r, verdict))
            \/ StreamEnd(r) \/ Verify(r) \/ VerifyFails(r))
      BY DEF Reject, Start, Prepare, InspectionFailure, CannotSpawn, Spawn, PromptDelivered,
             PromptRejected, SessionFrame, OutputFrame, ProtocolError, StreamFailure, ResultFrame,
             CanRead, StreamEnd, Verify, VerifyFails
    <2> QED
      BY <1>3, <2>1, <2>2, <2>3 DEF Execute
  <1>4. CASE CancelRun(r)
    BY <1>4 DEF CancelRun, CancelAtOnce, Cancel, CancelRejected, CancelFinishes, CancelFails,
                generatorVars, childVars
  <1>5. CASE ChildSteps(r)
    BY <1>5 DEF ChildSteps, TimerFires, ForceTimerFires, ChildExit, generatorVars
  <1> QED
    BY <1>3, <1>4, <1>5

LEMMA StatusWritten ==
  ASSUME TypeOK, NEW r \in Run, Local(r), Writes(r)
  PROVE  /\ WrittenStatus(r)'
         /\ status[r] \in TerminalRun => status'[r] = status[r]
         /\ r \in Ours /\ status'[r] = "succeeded" => Deserved(r, "completed")
         /\ r \in Ours /\ status'[r] = "timed_out" => Deserved(r, "timed_out")
  <1>1. CASE UNCHANGED <<status, log>>
    BY <1>1 DEF Local, WrittenStatus, StatusIsDeserved
  <1>2. ASSUME NEW type \in EventType, Write(r, type)
        PROVE  /\ WrittenStatus(r)'
               /\ status[r] \notin TerminalRun
               /\ r \in Ours /\ status'[r] = "succeeded" => Deserved(r, "completed")
               /\ r \in Ours /\ status'[r] = "timed_out" => Deserved(r, "timed_out")
    <2>1. status'[r] = statusFor(type, status[r]) /\ status[r] \notin TerminalRun
          /\ (r \in Ours => Deserved(r, type))
      BY <1>2 DEF Write, TypeOK
    <2>2. status'[r] = "succeeded" => type = "completed"
      BY <2>1 DEF TerminalRun, EventType, statusFor
    <2>3. status'[r] = "timed_out" => type = "timed_out"
      BY <2>1 DEF TerminalRun, EventType, statusFor
    <2>4. WrittenStatus(r)'
      BY <2>1, StatusOfType DEF Local, WrittenStatus
    <2> QED
      BY <2>1, <2>2, <2>3, <2>4
  <1> QED
    BY <1>1, <1>2 DEF Writes

LEMMA UnfinishedEnds ==
  ASSUME TypeOK, NEW r \in Run, Local(r), Unfinished(r)
  PROVE  cancelling[r] = "no" /\ faults' = 0 => status'[r] \in TerminalRun
  <1>1. SUFFICES ASSUME cancelling[r] = "no", faults' = 0
                 PROVE  status'[r] \in TerminalRun
    OBVIOUS
  <1>2. CASE terminal[r]
    BY <1>1, <1>2 DEF Local, TerminalIsWritten, Unfinished, storeVars
  <1>3. CASE ~terminal[r] /\ status[r] \in {"starting", "running"}
    <2>1. ~Fault
      BY <1>1 DEF Fault, TypeOK
    <2>2. persist(r, "failed")
      BY <1>1, <1>3, <2>1 DEF Unfinished, persistFailure
    <2>3. status'[r] = "failed"
      BY <2>2 DEF persist, statusFor, TypeOK
    <2> QED
      BY <2>3 DEF TerminalRun
  <1>4. CASE ~terminal[r] /\ status[r] \notin {"starting", "running"}
    BY <1>1, <1>4 DEF Unfinished, persistFailure, storeVars, Local, WrittenStatus, TerminalRun
  <1> QED
    BY <1>2, <1>3, <1>4

\* Leaving the generator, having ended the run if it could be.
LEMMA LeaveLocal ==
  ASSUME TypeOK, NEW r \in Ours, r \in Run, Local(r), Leave(r), Writes(r),
         UNCHANGED <<child, mark>>,
         cancelling[r] = "no" /\ faults' = 0 => status'[r] \in TerminalRun,
         \A type : Deserved(r, type) => Deserved(r, type)'
  PROVE  Local(r)'
  <1>1. pc'[r] = "finished" /\ inbox'[r] = <<>> /\ UNCHANGED <<terminal, cancelling>>
    BY DEF Leave, TypeOK
  <1>2. StatusIsDeserved(r)' /\ WrittenStatus(r)'
    BY StatusWritten DEF StatusIsDeserved
  <1>3. TerminalIsWritten(r)'
    BY <1>1, StatusWritten DEF Local, TerminalIsWritten
  <1> QED
    BY <1>1, <1>2, <1>3
       DEF Local, NotBegun, InboxShape, VerifiedIsGone, TerminalIsQuiet, LeftIsTerminal

-----------------------------------------------------------------------------
(***************************************************************************)
(* Every action keeps the invariant of its run.                            *)
(***************************************************************************)

\* Steps that write nothing and cancel nothing.
LEMMA QuietLocal ==
  ASSUME TypeOK, NEW r \in Ours, r \in Run, Local(r), UNCHANGED <<terminal, cancelling, storeVars>>,
         \A type : Deserved(r, type) => Deserved(r, type)',
         pc[r] # "finished", pc'[r] # "finished", pc'[r] = "idle" => pc[r] = "idle",
         pc[r] = "closing" => pc'[r] = "closing" /\ (inbox[r] = <<>> => inbox'[r] = <<>>),
         VerifiedIsGone(r)', InboxShape(r)'
  PROVE  Local(r)'
  <1>1. status'[r] = status[r]
    BY DEF storeVars
  <1>2. StatusIsDeserved(r)'
    BY <1>1 DEF Local, StatusIsDeserved
  <1>3. NotBegun(r)'
    BY DEF Local, NotBegun
  <1>4. TerminalIsQuiet(r)'
    BY <1>1 DEF Local, TerminalIsQuiet
  <1> QED
    BY <1>1, <1>2, <1>3, <1>4
       DEF Local, WrittenStatus, TerminalIsWritten, LeftIsTerminal

LEMMA ExecuteLocal ==
  ASSUME TypeOK, NEW r \in Ours, Local(r), Execute(r)
  PROVE  Local(r)'
  <1>1. r \in Run
    BY RunAssumption DEF RunAssumption
  <1>2. Writes(r) /\ \A type : Deserved(r, type) => Deserved(r, type)'
    BY ExecuteWrites, VerdictStands
  <1> USE <1>1, <1>2
  <1>3. CASE Reject(r)
    <2>1. pc[r] = "idle" /\ pc'[r] = "finished" /\ inbox[r] = <<>> /\ inbox'[r] = <<>>
          /\ UNCHANGED <<terminal, cancelling>>
      BY <1>3 DEF Reject, Local, InboxShape, TypeOK
    <2>2. faults' = 0 => status'[r] \in TerminalRun
      <3>1. CASE persist(r, "failed")
        BY <3>1 DEF persist, statusFor, TerminalRun, TypeOK
      <3> QED
        BY <1>3, <3>1 DEF Reject, Fault, TypeOK
    <2>3. StatusIsDeserved(r)' /\ WrittenStatus(r)'
      BY StatusWritten DEF StatusIsDeserved
    <2>4. TerminalIsWritten(r)'
      BY <2>1, StatusWritten DEF Local, TerminalIsWritten
    <2> QED
      BY <2>1, <2>2, <2>3, <2>4
         DEF Local, NotBegun, InboxShape, VerifiedIsGone, TerminalIsQuiet, LeftIsTerminal
  <1>4. CASE Start(r) \/ Prepare(r) \/ Spawn(r) \/ PromptDelivered(r)
    <2>1. /\ UNCHANGED <<terminal, cancelling, storeVars, inbox>>
          /\ pc[r] \in {"idle", "preparing", "spawning", "prompting"}
          /\ pc'[r] \in {"preparing", "spawning", "prompting", "reading"}
      BY <1>4 DEF Start, Prepare, Spawn, PromptDelivered, TypeOK
    <2>2. InboxShape(r)' /\ VerifiedIsGone(r)'
      BY <2>1 DEF Local, InboxShape, VerifiedIsGone
    <2> QED
      BY <2>1, <2>2, QuietLocal
  <1>5. CASE InspectionFailure(r)
    <2>1. /\ UNCHANGED <<terminal, cancelling, storeVars>> /\ pc[r] = "preparing"
          /\ pc'[r] = "closing" /\ inbox'[r] = <<"failed">>
      BY <1>5 DEF InspectionFailure, TypeOK
    <2>2. Deserved(r, "failed")' /\ "failed" \in TerminalType
      BY DEF Deserved, TerminalType
    <2>3. InboxShape(r)' /\ VerifiedIsGone(r)'
      BY <2>1, <2>2 DEF InboxShape, VerifiedIsGone
    <2> QED
      BY <2>1, <2>3, QuietLocal
  <1>6. CASE CannotSpawn(r) \/ WriteRefused(r) \/ VerifyFails(r) \/ Finish(r) \/ PromptRejected(r)
    <2>1. Leave(r) /\ Unfinished(r) /\ UNCHANGED <<child, mark>>
      BY <1>6 DEF CannotSpawn, WriteRefused, VerifyFails, Finish, PromptRejected, Throw
    <2> QED
      BY <2>1, UnfinishedEnds, LeaveLocal
  <1>7. CASE SessionFrame(r) \/ OutputFrame(r)
    <2>1. /\ UNCHANGED <<terminal, cancelling, storeVars>> /\ pc[r] = "reading" /\ pc'[r] = "reading"
          /\ inbox'[r] \in {<<"session", "started">>, <<"delta">>}
      BY <1>7 DEF SessionFrame, OutputFrame, CanRead, TypeOK
    <2>2. InboxShape(r)' /\ VerifiedIsGone(r)'
      BY <2>1 DEF InboxShape, VerifiedIsGone
    <2> QED
      BY <2>1, <2>2, QuietLocal
  <1>8. CASE ProtocolError(r) \/ StreamFailure(r)
             \/ \E verdict \in {"success", "failure"} : ResultFrame(r, verdict)
    <2>1. UNCHANGED <<terminal, cancelling, storeVars, pc, inbox>> /\ pc[r] = "reading"
      BY <1>8 DEF ProtocolError, StreamFailure, ResultFrame, CanRead
    <2>2. InboxShape(r)' /\ VerifiedIsGone(r)'
      BY <2>1 DEF Local, InboxShape, VerifiedIsGone
    <2> QED
      BY <2>1, <2>2, QuietLocal
  <1>9. CASE Drop(r)
    <2>1. /\ UNCHANGED <<terminal, cancelling, storeVars, pc, child>> /\ inbox[r] # <<>>
          /\ inbox'[r] = Tail(inbox[r])
      BY <1>9 DEF Drop, TypeOK, childVars
    <2>2. /\ pc[r] \in {"reading", "closing"}
          /\ pc[r] = "reading" => inbox'[r] \in {<<>>, <<"started">>}
          /\ pc[r] = "closing" => inbox'[r] = <<>>
      BY <2>1, NextEvent DEF Local
    <2>3. InboxShape(r)' /\ VerifiedIsGone(r)'
      BY <2>1, <2>2 DEF InboxShape, VerifiedIsGone
    <2> QED
      BY <2>1, <2>2, <2>3, QuietLocal
  <1>10. CASE TakeSession(r)
    <2>1. /\ UNCHANGED <<terminal, cancelling, status, faults, pc, child>> /\ inbox[r] # <<>>
          /\ inbox'[r] = Tail(inbox[r])
      BY <1>10 DEF TakeSession, TypeOK, childVars
    <2>2. /\ pc[r] \in {"reading", "closing"}
          /\ pc[r] = "reading" => inbox'[r] \in {<<>>, <<"started">>}
          /\ pc[r] = "closing" => inbox'[r] = <<>>
      BY <2>1, NextEvent DEF Local
    <2>3. InboxShape(r)' /\ VerifiedIsGone(r)'
      BY <2>1, <2>2 DEF InboxShape, VerifiedIsGone
    <2>4. StatusIsDeserved(r)'
      BY <2>1 DEF Local, StatusIsDeserved
    <2> QED
      BY <2>1, <2>2, <2>3, <2>4
         DEF Local, NotBegun, WrittenStatus, TerminalIsQuiet, TerminalIsWritten, LeftIsTerminal
  <1>11. CASE TakeEvent(r)
    <2>1. /\ UNCHANGED <<cancelling, faults, pc, child>> /\ inbox[r] # <<>>
          /\ cancelling[r] = "no" /\ Head(inbox[r]) # "session"
          /\ inbox'[r] = Tail(inbox[r])
          /\ terminal'[r] = (terminal[r] \/ Head(inbox[r]) \in TerminalType)
          /\ status'[r] = statusFor(Head(inbox[r]), status[r])
      BY <1>11 DEF TakeEvent, persist, TypeOK, childVars
    <2>2. \/ /\ pc[r] = "reading" /\ inbox'[r] \in {<<>>, <<"started">>}
             /\ Head(inbox[r]) \in {"started", "delta"}
          \/ pc[r] = "closing" /\ inbox'[r] = <<>> /\ Head(inbox[r]) \in TerminalType
      BY <2>1, NextEvent DEF Local
    <2>3. Head(inbox[r]) \in EventType
      BY <2>2 DEF EventType, TerminalType
    <2>4. InboxShape(r)' /\ VerifiedIsGone(r)'
      BY <2>1, <2>2 DEF InboxShape, VerifiedIsGone
    <2>5. StatusIsDeserved(r)' /\ WrittenStatus(r)'
      BY StatusWritten DEF StatusIsDeserved
    <2>6. status[r] \notin TerminalRun
      BY <2>1, <2>2 DEF Local, TerminalIsQuiet
    <2>7. status'[r] \in TerminalRun <=> Head(inbox[r]) \in TerminalType
      BY <2>1, <2>3, <2>6 DEF statusFor, EventType, TerminalType, TerminalRun
    <2>8. TerminalIsQuiet(r)'
      BY <2>1, <2>2, <2>7 DEF TerminalIsQuiet, TerminalType
    <2>9. TerminalIsWritten(r)'
      BY <2>1, <2>6, <2>7 DEF Local, TerminalIsWritten
    <2> QED
      BY <2>1, <2>2, <2>4, <2>5, <2>8, <2>9 DEF Local, NotBegun, LeftIsTerminal
  <1>12. CASE WriteFails(r)
    <2>1. Leave(r) /\ UNCHANGED <<child, mark>> /\ faults' # 0
      BY <1>12 DEF WriteFails, TypeOK
    <2> QED
      BY <2>1, LeaveLocal
  <1>13. CASE StreamEnd(r)
    <2>1. /\ UNCHANGED <<terminal, cancelling, storeVars, inbox, child>> /\ pc[r] = "reading"
          /\ pc'[r] = "verifying" /\ inbox[r] = <<>> /\ child[r] \in {"exited", "crashed"}
      BY <1>13 DEF StreamEnd, TypeOK
    <2>2. InboxShape(r)' /\ VerifiedIsGone(r)'
      BY <2>1 DEF InboxShape, VerifiedIsGone
    <2> QED
      BY <2>1, <2>2, QuietLocal
  <1>14. CASE Verify(r)
    <2>1. /\ UNCHANGED <<terminal, cancelling, storeVars, parsed, child, mark>>
          /\ pc[r] = "verifying" /\ pc'[r] = "closing" /\ inbox'[r] = <<classifyTerminal(r)>>
      BY <1>14 DEF Verify, TypeOK, childVars
    <2>2. child[r] \in {"exited", "crashed"}
      BY <2>1 DEF Local, VerifiedIsGone
    <2>3. PICK type \in TerminalType : type = classifyTerminal(r)
      BY DEF classifyTerminal, TerminalType
    <2>4. mark[r] \in {"none", "cancelled", "timed_out"}
      BY DEF TypeOK
    <2>5. Deserved(r, type)'
      BY <2>1, <2>2, <2>3, <2>4 DEF classifyTerminal, Deserved, Over, Earned, TimedOut
    <2>6. InboxShape(r)' /\ VerifiedIsGone(r)'
      BY <2>1, <2>3, <2>5 DEF InboxShape, VerifiedIsGone
    <2> QED
      BY <2>1, <2>6, QuietLocal
  <1> QED
    BY <1>3, <1>4, <1>5, <1>6, <1>7, <1>8, <1>9, <1>10, <1>11, <1>12, <1>13, <1>14 DEF Execute, Local

LEMMA CancelLocal ==
  ASSUME TypeOK, NEW r \in Ours, Local(r), CancelRun(r)
  PROVE  Local(r)'
  <1>1. r \in Run
    BY RunAssumption DEF RunAssumption
  <1>2. Writes(r) /\ \A type : Deserved(r, type) => Deserved(r, type)'
    BY CancelWrites, VerdictStands
  <1>3. /\ UNCHANGED generatorVars /\ cancelling'[r] # "no" /\ pc[r] # "idle"
        /\ child'[r] = child[r]
    BY <1>1 DEF CancelRun, CancelAtOnce, Cancel, CancelRejected, CancelFinishes, CancelFails,
                RecordCancellation, Active, childVars, Local, NotBegun, TypeOK
  <1>4. StatusIsDeserved(r)' /\ WrittenStatus(r)'
    BY <1>1, <1>2, StatusWritten DEF StatusIsDeserved
  <1>5. TerminalIsWritten(r)'
    BY <1>1, <1>2, <1>3, StatusWritten DEF Local, TerminalIsWritten, generatorVars
  <1>6. InboxShape(r)'
    BY <1>2, <1>3 DEF Local, InboxShape, generatorVars
  <1>7. NotBegun(r)' /\ VerifiedIsGone(r)' /\ TerminalIsQuiet(r)' /\ LeftIsTerminal(r)'
    BY <1>3 DEF Local, NotBegun, VerifiedIsGone, TerminalIsQuiet, LeftIsTerminal, generatorVars
  <1> QED
    BY <1>4, <1>5, <1>6, <1>7 DEF Local

LEMMA ChildLocal ==
  ASSUME TypeOK, NEW r \in Ours, Local(r), ChildSteps(r)
  PROVE  Local(r)'
  <1>1. r \in Run
    BY RunAssumption DEF RunAssumption
  <1>2. \A type : Deserved(r, type) => Deserved(r, type)'
    BY VerdictStands
  <1>3. UNCHANGED <<pc, inbox, terminal, cancelling, status, faults>>
    BY DEF ChildSteps, TimerFires, ForceTimerFires, ChildExit, generatorVars, storeVars
  <1>4. child[r] \in {"exited", "crashed"} => child'[r] \in {"exited", "crashed"}
    BY DEF ChildSteps, TimerFires, ForceTimerFires, ChildExit
  <1>5. InboxShape(r)' /\ StatusIsDeserved(r)'
    BY <1>2, <1>3 DEF Local, InboxShape, StatusIsDeserved
  <1> QED
    BY <1>3, <1>4, <1>5
       DEF Local, NotBegun, VerifiedIsGone, WrittenStatus, TerminalIsQuiet, TerminalIsWritten,
           LeftIsTerminal

LEMMA ElsewhereLocal ==
  ASSUME TypeOK, NEW r \in Run \ Ours, Local(r), Elsewhere(r)
  PROVE  Local(r)'
  <1>1. UNCHANGED <<pc, inbox, terminal, cancelling, child>> /\ pc[r] = "idle"
    BY DEF Elsewhere, generatorVars, childVars, Local, NotBegun
  <1>2. WrittenStatus(r)' /\ TerminalIsWritten(r)'
    BY <1>1, ElsewhereWrites, StatusWritten DEF Local, TerminalIsWritten
  <1> QED
    BY <1>1, <1>2 DEF Local, NotBegun, InboxShape, VerifiedIsGone, StatusIsDeserved,
                      TerminalIsQuiet, LeftIsTerminal

LEMMA GeneratorStep ==
  ASSUME TypeOK, GeneratorInv, [Next]_vars
  PROVE  GeneratorInv'
  <1>1. Ours \subseteq Run /\ \A r \in Run : Local(r)
    BY RunAssumption DEF RunAssumption, GeneratorInv
  <1>2. ASSUME NEW r \in Ours, Execute(r) \/ CancelRun(r) \/ ChildSteps(r)
        PROVE  GeneratorInv'
    <2>1. Frame(r)
      BY <1>2, ExecuteFrame, CancelFrame, ChildFrame
    <2>2. Local(r)'
      BY <1>1, <1>2, ExecuteLocal, CancelLocal, ChildLocal
    <2> QED
      BY <1>1, <2>1, <2>2, FrameSuffices
  <1>3. ASSUME NEW r \in Run \ Ours, Elsewhere(r)
        PROVE  GeneratorInv'
    BY <1>1, <1>3, ElsewhereFrame, ElsewhereLocal, FrameSuffices
  <1>4. CASE UNCHANGED vars
    BY <1>4 DEF vars, generatorVars, childVars, storeVars, GeneratorInv, Local, NotBegun,
                InboxShape, VerifiedIsGone, WrittenStatus, StatusIsDeserved, TerminalIsQuiet,
                TerminalIsWritten, LeftIsTerminal, Deserved, Over, Earned, TimedOut
  <1> QED
    BY <1>2, <1>3, <1>4 DEF Next

\* Some run makes the step's write, if it makes one.
LEMMA EveryWrite ==
  ASSUME TypeOK, GeneratorInv, [Next]_vars
  PROVE  UNCHANGED <<status, log>> \/ \E r \in Run, type \in EventType : Write(r, type)
  <1>1. Ours \subseteq Run /\ \A r \in Run : Local(r)
    BY RunAssumption DEF RunAssumption, GeneratorInv
  <1>2. ASSUME NEW r \in Ours, Execute(r) \/ CancelRun(r) \/ ChildSteps(r)
        PROVE  Writes(r)
    BY <1>1, <1>2, ExecuteWrites, CancelWrites, ChildWrites
  <1>3. ASSUME NEW r \in Run \ Ours, Elsewhere(r)
        PROVE  Writes(r)
    BY <1>1, <1>3, ElsewhereWrites
  <1>4. CASE UNCHANGED vars
    BY <1>4 DEF vars, storeVars
  <1> QED
    BY <1>1, <1>2, <1>3, <1>4 DEF Next, Writes

-----------------------------------------------------------------------------
(***************************************************************************)
(* The log: a write appends one event of one run.                          *)
(***************************************************************************)
LEMMA EventsStep ==
  ASSUME TypeOK, NEW q \in Run, NEW type \in EventType, Write(q, type)
  PROVE  /\ Len(log) \in Nat
         /\ Len(log') = Len(log) + 1
         /\ \A i \in 1 .. Len(log) : log'[i] = log[i]
         /\ log'[Len(log) + 1] = [run |-> q, type |-> type]
         /\ \A r \in Run : EventsOf(r) \subseteq 1 .. Len(log)
         /\ \A r \in Run : EventsOf(r)' =
              IF r = q THEN EventsOf(r) \cup {Len(log) + 1} ELSE EventsOf(r)
  <1>1. log' = Append(log, [run |-> q, type |-> type])
    BY DEF Write
  <1>2. /\ Len(log) \in Nat
        /\ Len(log') = Len(log) + 1
        /\ \A i \in 1 .. Len(log) : log'[i] = log[i]
        /\ log'[Len(log) + 1] = [run |-> q, type |-> type]
    BY <1>1 DEF TypeOK
  <1>3. \A i \in 1 .. Len(log') : i \in 1 .. Len(log) \/ i = Len(log) + 1
    BY <1>2
  <1>4. \A r \in Run : EventsOf(r) \subseteq 1 .. Len(log)
    BY DEF EventsOf
  <1>5. ASSUME NEW r \in Run
        PROVE  EventsOf(r)' = IF r = q THEN EventsOf(r) \cup {Len(log) + 1} ELSE EventsOf(r)
    BY <1>2, <1>3 DEF EventsOf
  <1> QED
    BY <1>2, <1>4, <1>5

\* A terminal event is the last of its run, so the status is its own.
LEMMA TerminalEventIsTheStatus ==
  ASSUME TypeOK, LogInv, NEW r \in Run, NEW i \in EventsOf(r), log[i].type \in TerminalType
  PROVE  status[r] \in TerminalRun
  <1>1. "delta" \notin TerminalType /\ \A j \in EventsOf(r) : j <= i
    BY DEF LogInv, NothingFollowsTheTerminalEvent, TerminalType, EventsOf, TypeOK
  <1>2. PICK j \in EventsOf(r) :
          /\ log[j].type # "delta"
          /\ \A k \in EventsOf(r) : log[k].type # "delta" => k <= j
          /\ status[r] = statusFor(log[j].type, "")
    BY <1>1 DEF LogInv, StatusIsTheLogs
  <1>3. i <= j /\ j <= i
    BY <1>1, <1>2
  <1>4. i \in Nat /\ j \in Nat
    BY DEF EventsOf
  <1>5. i = j
    BY <1>3, <1>4
  <1> QED
    BY <1>2, <1>5 DEF TerminalType, TerminalRun, statusFor

LEMMA LogWrite ==
  ASSUME TypeOK, LogInv, NEW q \in Run, NEW type \in EventType, Write(q, type)
  PROVE  LogInv'
  <1> DEFINE n == Len(log) + 1
  <1>1. Len(log) \in Nat /\ log'[n] = [run |-> q, type |-> type]
    BY EventsStep
  <1>2. /\ \A i \in 1 .. Len(log) : log'[i] = log[i] /\ i < n
        /\ log'[n].run = q /\ log'[n].type = type
        /\ \A r \in Run : EventsOf(r) \subseteq 1 .. Len(log)
        /\ \A r \in Run \ {q} : EventsOf(r)' = EventsOf(r)
        /\ EventsOf(q)' = EventsOf(q) \cup {n}
    <2>1. \A i \in 1 .. Len(log) : log'[i] = log[i] /\ i < n
      BY <1>1, EventsStep
    <2>2. \A r \in Run : EventsOf(r) \subseteq 1 .. Len(log)
      BY EventsStep
    <2>3. \A r \in Run : EventsOf(r)' = IF r = q THEN EventsOf(r) \cup {n} ELSE EventsOf(r)
      BY EventsStep
    <2> QED
      BY <1>1, <2>1, <2>2, <2>3
  <1>3. /\ status[q] \notin TerminalRun
        /\ status'[q] = statusFor(type, status[q])
        /\ \A r \in Run \ {q} : status'[r] = status[r]
    BY DEF Write, TypeOK
  <1> HIDE DEF n
  <1>4. ASSUME NEW r \in Run, NEW i \in EventsOf(r)', NEW j \in EventsOf(r)', i < j
        PROVE  log'[i].type \notin TerminalType
    <2>1. CASE i \in EventsOf(r) /\ j \in EventsOf(r)
      BY <1>2, <1>4, <2>1 DEF LogInv, NothingFollowsTheTerminalEvent
    <2>2. CASE r = q /\ i \in EventsOf(r) /\ j = n
      <3>1. log[i].type \notin TerminalType
        BY <1>3, <2>2, TerminalEventIsTheStatus
      <3> QED
        BY <1>2, <2>2, <3>1
    <2>3. CASE r = q /\ i = n
      BY <1>2, <1>4, <2>3 DEF n
    <2> QED
      BY <1>2, <1>4, <2>1, <2>2, <2>3
  <1>5. ASSUME NEW r \in Run
        PROVE  LET said == { i \in EventsOf(r)' : log'[i].type # "delta" } IN
                 IF said = {} THEN status'[r] = "starting"
                 ELSE \E i \in said : /\ \A j \in said : j <= i
                                      /\ status'[r] = statusFor(log'[i].type, "")
    <2>1. CASE r # q \/ type = "delta"
      <3>1. { i \in EventsOf(r)' : log'[i].type # "delta" }
              = { i \in EventsOf(r) : log[i].type # "delta" }
        BY <1>2, <2>1
      <3>2. status'[r] = status[r]
        BY <1>3, <2>1 DEF statusFor
      <3>3. \A i \in EventsOf(r) : log'[i] = log[i]
        BY <1>2
      <3> QED
        BY <3>1, <3>2, <3>3 DEF LogInv, StatusIsTheLogs
    <2>2. CASE r = q /\ type # "delta"
      <3>1. n \in { i \in EventsOf(r)' : log'[i].type # "delta" }
        BY <1>2, <2>2
      <3>2. \A j \in EventsOf(r)' : j <= n
        BY <1>2, <2>2 DEF n
      <3>3. status'[r] = statusFor(log'[n].type, "")
        BY <1>2, <1>3, <2>2 DEF statusFor, EventType
      <3> QED
        BY <3>1, <3>2, <3>3
    <2> QED
      BY <2>1, <2>2
  <1>6. NothingFollowsTheTerminalEvent'
    BY <1>4 DEF NothingFollowsTheTerminalEvent
  <1>7. StatusIsTheLogs'
    BY <1>5 DEF StatusIsTheLogs
  <1> QED
    BY <1>6, <1>7 DEF LogInv

LEMMA InvStep == IInv /\ [Next]_vars => IInv'
  <1> SUFFICES ASSUME IInv, [Next]_vars
               PROVE  IInv'
    OBVIOUS
  <1>1. TypeOK' /\ GeneratorInv'
    BY TypeStep, GeneratorStep DEF IInv
  <1>2. ASSUME UNCHANGED <<status, log>>
        PROVE  LogInv'
    <2>1. log' = log /\ status' = status /\ \A r \in Run : EventsOf(r)' = EventsOf(r)
      BY <1>2 DEF EventsOf
    <2>2. NothingFollowsTheTerminalEvent'
      BY <2>1 DEF IInv, LogInv, NothingFollowsTheTerminalEvent
    <2>3. \A r \in Run : { i \in EventsOf(r)' : log'[i].type # "delta" }
                           = { i \in EventsOf(r) : log[i].type # "delta" }
      BY <2>1
    <2>4. StatusIsTheLogs'
      BY <2>1, <2>3 DEF IInv, LogInv, StatusIsTheLogs
    <2> QED
      BY <2>2, <2>4 DEF LogInv
  <1>3. ASSUME NEW r \in Run, NEW type \in EventType, Write(r, type)
        PROVE  LogInv'
    BY <1>3, LogWrite DEF IInv
  <1>4. LogInv'
    BY <1>2, <1>3, EveryWrite DEF IInv
  <1> QED
    BY <1>1, <1>4 DEF IInv

LEMMA InvInit == Init => IInv
  <1> SUFFICES ASSUME Init
               PROVE  IInv
    OBVIOUS
  <1>1. GeneratorInv
    BY DEF Init, GeneratorInv, Local, NotBegun, InboxShape, VerifiedIsGone, WrittenStatus,
           StatusIsDeserved, TerminalIsQuiet, TerminalIsWritten, LeftIsTerminal, TerminalRun
  <1>2. log = <<>> /\ \A r \in Run : EventsOf(r) = {} /\ status[r] = "starting"
    BY DEF Init, EventsOf
  <1>3. LogInv
    BY <1>2 DEF LogInv, NothingFollowsTheTerminalEvent, StatusIsTheLogs
  <1> QED
    BY <1>1, <1>3, TypeInit DEF IInv

(***************************************************************************)
(* The inductive invariant of the provider runs: every run's generator,    *)
(* verdict and status belong together, and the log tells the status.       *)
(***************************************************************************)
THEOREM InvariantHolds == Spec => []IInv
  BY InvInit, InvStep, PTL DEF Spec

(***************************************************************************)
(* A run's terminal event is its last, whichever of a result, a recorded   *)
(* failure and a cancellation come at once.                                *)
(***************************************************************************)
THEOREM TerminalEventIsLast == Spec => []NothingFollowsTheTerminalEvent
  <1>1. IInv => NothingFollowsTheTerminalEvent
    BY DEF IInv, LogInv
  <1> QED
    BY <1>1, InvariantHolds, PTL

(***************************************************************************)
(* The status column is what the last event that concerns it says.         *)
(***************************************************************************)
THEOREM StatusFollowsTheLog == Spec => []StatusIsTheLogs
  <1>1. IInv => StatusIsTheLogs
    BY DEF IInv, LogInv
  <1> QED
    BY <1>1, InvariantHolds, PTL

(***************************************************************************)
(* A run is recorded as succeeded only if its child exited with code 0,    *)
(* after one successful result and nothing broken, unmarked.               *)
(***************************************************************************)
THEOREM SuccessIsAlwaysEarned == Spec => []SuccessIsEarned
  <1>1. IInv => SuccessIsEarned
    BY RunAssumption DEF IInv, GeneratorInv, Local, StatusIsDeserved, Deserved, Earned,
       SuccessIsEarned, RunAssumption
  <1> QED
    BY <1>1, InvariantHolds, PTL

(***************************************************************************)
(* A run is recorded as timed out only when its child is gone.             *)
(***************************************************************************)
THEOREM TimeoutsFollowExits == Spec => []TimeoutIsReportedAfterExit
  <1>1. IInv => TimeoutIsReportedAfterExit
    BY RunAssumption DEF IInv, GeneratorInv, Local, StatusIsDeserved, Deserved, TimedOut,
       TimeoutIsReportedAfterExit, RunAssumption
  <1> QED
    BY <1>1, InvariantHolds, PTL

(***************************************************************************)
(* Without failing writes, a run that execute has left and nobody          *)
(* cancelled has a terminal status, whichever of its steps failed.         *)
(***************************************************************************)
THEOREM NoRunIsLeftOpen == Spec => []FinishedRunIsTerminal
  <1>1. IInv => FinishedRunIsTerminal
    BY DEF IInv, GeneratorInv, Local, LeftIsTerminal, FinishedRunIsTerminal
  <1> QED
    BY <1>1, InvariantHolds, PTL

LEMMA CancellationStep ==
  ASSUME IInv, [Next]_vars, NEW r \in Run, cancelling[r] # "no"
  PROVE  /\ status'[r] \in {status[r], "cancelled"}
         /\ \A i \in Len(log) + 1 .. Len(log') :
              log'[i].run = r => log'[i].type = "cancelled"
  <1>1. Len(log) \in Nat
    BY DEF IInv, TypeOK
  <1>2. CASE UNCHANGED <<status, log>>
    BY <1>1, <1>2
  <1>3. ASSUME NEW q \in Run, NEW type \in EventType, Write(q, type)
        PROVE  /\ status'[r] \in {status[r], "cancelled"}
               /\ \A i \in Len(log) + 1 .. Len(log') :
                    log'[i].run = r => log'[i].type = "cancelled"
    <2>1. Len(log') = Len(log) + 1 /\ log'[Len(log) + 1] = [run |-> q, type |-> type]
      BY <1>3, EventsStep DEF IInv
    <2>2. r = q => type = "cancelled"
      BY <1>3 DEF Write
    <2>3. status'[r] \in {status[r], "cancelled"}
      BY <1>3, <2>2 DEF Write, IInv, TypeOK, statusFor
    <2>4. \A i \in Len(log) + 1 .. Len(log') : i = Len(log) + 1
      BY <1>1, <2>1
    <2> QED
      BY <2>1, <2>2, <2>3, <2>4
  <1> QED
    BY <1>2, <1>3, EveryWrite DEF IInv

(***************************************************************************)
(* From the moment a cancellation is accepted, nothing but the             *)
(* cancellation is recorded of the run.                                    *)
(***************************************************************************)
THEOREM CancellationAlwaysWins == Spec => CancellationWins
  <1>1. IInv /\ [Next]_vars =>
          [\A r \in Run : cancelling[r] # "no" =>
             /\ status'[r] \in {status[r], "cancelled"}
             /\ \A i \in Len(log) + 1 .. Len(log') :
                  log'[i].run = r => log'[i].type = "cancelled"]_vars
    BY CancellationStep
  <1> QED
    BY <1>1, InvariantHolds, PTL DEF Spec, CancellationWins

\* The row of a run and its part of the log agree (see RunConsistent).
THEOREM RunIsConsistent == Spec => []RunConsistent
<1>1. TypeOK /\ NothingFollowsTheTerminalEvent /\ StatusIsTheLogs => RunConsistent
  BY DEF RunConsistent
<1> QED
  BY <1>1, TypeCorrect, TerminalEventIsLast, StatusFollowsTheLog, PTL

-----------------------------------------------------------------------------
(***************************************************************************)
(* How a run may be left.  The child exists from spawn on and is gone when *)
(* the generator verifies it; a call of cancel waits for a child, and is   *)
(* refused because the child is gone; and the only error that leaves a     *)
(* child at work is the index's refusal of an event of the run.            *)
(***************************************************************************)
Rival(r) ==
  \E q \in Run \ {r} : /\ StepOf[q] = StepOf[r]
                       /\ \E i \in EventsOf(q) : log[i].type = "started"

NotSpawned(r) == pc[r] \in {"idle", "preparing", "spawning"} => child[r] = "none"

ReadIsGone(r) == pc[r] \in {"verifying", "closing"} => child[r] # "live"

WaitsForChild(r) == cancelling[r] = "waiting" => child[r] # "none"

RefusedIsGone(r) ==
  cancelling[r] = "rejected" /\ faults = 0 => child[r] \in {"exited", "crashed"}

ReturnedIsDone(r) == cancelling[r] = "returned" => status[r] \in TerminalRun

OrphanIsRefused(r) ==
  pc[r] = "finished" /\ child[r] = "live" /\ stopping[r] = "no" /\ faults = 0 =>
    status[r] = "failed" /\ cancelling[r] = "no" /\ Rival(r)

Ends(r) ==
  /\ NotSpawned(r)
  /\ ReadIsGone(r)
  /\ WaitsForChild(r)
  /\ RefusedIsGone(r)
  /\ ReturnedIsDone(r)
  /\ OrphanIsRefused(r)

EndsInv == IInv /\ \A r \in Run : Ends(r)

\* Whatever has started stays started.
LEMMA RivalStands ==
  ASSUME IInv, [Next]_vars, NEW r \in Run, Rival(r)
  PROVE  Rival(r)'
  <1>1. PICK q \in Run \ {r} : /\ StepOf[q] = StepOf[r]
                               /\ \E i \in EventsOf(q) : log[i].type = "started"
    BY DEF Rival
  <1>2. PICK i \in EventsOf(q) : log[i].type = "started"
    BY <1>1
  <1>3. CASE UNCHANGED <<status, log>>
    BY <1>1, <1>2, <1>3 DEF Rival, EventsOf
  <1>4. ASSUME NEW p \in Run, NEW type \in EventType, Write(p, type)
        PROVE  Rival(r)'
    <2>1. i \in EventsOf(q)' /\ log'[i] = log[i]
      <3>1. q \in Run /\ TypeOK
        BY DEF IInv
      <3> QED
        BY <1>4, <3>1, EventsStep
    <2> QED
      BY <1>1, <1>2, <2>1 DEF Rival
  <1> QED
    BY <1>3, <1>4, EveryWrite DEF IInv

\* What the log holds are events of runs.
LEMMA Entries ==
  ASSUME TypeOK
  PROVE  /\ Len(log) \in Nat
         /\ \A i \in 1 .. Len(log) : log[i].run \in Run /\ log[i].type \in EventType
  <1> DEFINE Entry == [run : Run, type : EventType]
  <1>1. log \in Seq(Entry)
    BY DEF TypeOK
  <1>2. \A entry \in Entry : entry.run \in Run /\ entry.type \in EventType
    OBVIOUS
  <1> HIDE DEF Entry
  <1>3. Len(log) \in Nat /\ \A i \in 1 .. Len(log) : log[i] \in Entry
    BY <1>1
  <1> QED
    BY <1>2, <1>3

\* A running attempt has a start in the log.
LEMMA RunningHasStarted ==
  ASSUME IInv, NEW q \in Run, status[q] = "running"
  PROVE  \E i \in EventsOf(q) : log[i].type = "started"
  <1>1. PICK i \in EventsOf(q) : log[i].type # "delta" /\ statusFor(log[i].type, "") = "running"
    BY DEF IInv, LogInv, StatusIsTheLogs
  <1>2. log[i].type \in EventType
    BY Entries DEF IInv, EventsOf
  <1>3. log[i].type = "started"
    BY <1>1, <1>2 DEF statusFor, EventType
  <1> QED
    BY <1>3

\* The stop requests of the other runs stay as they are.
LEMMA StopFrame ==
  ASSUME TypeOK, NEW r \in Run,
         \/ r \in Ours /\ (Execute(r) \/ CancelRun(r) \/ ChildSteps(r))
         \/ Elsewhere(r)
  PROVE  \A q \in Run \ {r} : stopping'[q] = stopping[q]
  <1>1. stopping' = stopping \/ stopping' = Stopped(r)
        \/ stopping' = [stopping EXCEPT ![r] = "forced"]
    <2>1. CASE Execute(r)
      BY <2>1
         DEF Execute, Reject, Start, Prepare, InspectionFailure, CannotSpawn, Spawn,
             PromptDelivered, PromptRejected, SessionFrame, OutputFrame, ProtocolError,
             StreamFailure, ResultFrame, Drop, TakeSession, TakeEvent, WriteRefused, WriteFails,
             StreamEnd, Verify, VerifyFails, Finish, childVars
    <2>2. CASE CancelRun(r) \/ ChildSteps(r)
      BY <2>2
         DEF CancelRun, CancelAtOnce, Cancel, CancelRejected, CancelFinishes, CancelFails,
             ChildSteps, TimerFires, ForceTimerFires, ChildExit, childVars
    <2>3. CASE Elsewhere(r)
      BY <2>3 DEF Elsewhere, childVars
    <2> QED
      BY <2>1, <2>2, <2>3
  <1> QED
    BY <1>1 DEF Stopped, TypeOK

\* What keeps Ends of a run whose child and cancellation a step leaves alone.
LEMMA SameEnds ==
  ASSUME NEW r \in Run, Ends(r),
         child'[r] = child[r], cancelling'[r] = cancelling[r],
         faults' = 0 => faults = 0,
         status[r] \in TerminalRun => status'[r] = status[r],
         pc'[r] \in {"idle", "preparing", "spawning"} =>
           pc[r] \in {"idle", "preparing", "spawning"},
         pc'[r] \in {"verifying", "closing"} => child[r] # "live",
         OrphanIsRefused(r)'
  PROVE  Ends(r)'
  <1>1. NotSpawned(r)' /\ ReadIsGone(r)' /\ WaitsForChild(r)'
    BY DEF Ends, NotSpawned, ReadIsGone, WaitsForChild
  <1>2. RefusedIsGone(r)' /\ ReturnedIsDone(r)'
    BY DEF Ends, RefusedIsGone, ReturnedIsDone
  <1> QED
    BY <1>1, <1>2 DEF Ends

\* A refused event is a start, or output, of a run whose step another attempt
\* is already running; the refusal is recorded as the run's failure.
LEMMA RefusalHasRival ==
  ASSUME IInv, IInv', [Next]_vars, NEW r \in Ours, r \in Run, WriteRefused(r),
         pc[r] # "closing", faults' = 0
  PROVE  status'[r] = "failed" /\ cancelling'[r] = "no" /\ Rival(r)'
  <1>1. TypeOK /\ Local(r)
    BY DEF IInv, GeneratorInv
  <1>2. /\ inbox[r] # <<>> /\ Head(inbox[r]) # "session" /\ cancelling[r] = "no"
        /\ ~Writable(r, Head(inbox[r])) /\ Leave(r) /\ Unfinished(r)
    BY DEF WriteRefused, Throw
  <1>3. pc[r] = "reading" /\ Head(inbox[r]) \in {"started", "delta"}
    BY <1>1, <1>2, NextEvent DEF Local
  <1>4. status[r] \in {"starting", "running"} /\ ~terminal[r]
    BY <1>1, <1>2, <1>3
       DEF Local, WrittenStatus, TerminalIsQuiet, TerminalIsWritten, TerminalRun
  <1>5. PICK q \in Run \ {r} : StepOf[q] = StepOf[r] /\ status[q] = "running"
    <2>1. statusFor(Head(inbox[r]), status[r]) \in {"running", status[r]}
      BY <1>3 DEF statusFor
    <2>2. runs_transition_guard(status[r], statusFor(Head(inbox[r]), status[r]))
      BY <1>3, <1>4 DEF runs_transition_guard, statusFor
    <2> QED
      BY <1>2, <2>2 DEF Writable
  <1>6. Rival(r)
    BY <1>5, RunningHasStarted DEF Rival
  <1>7. status'[r] = "failed"
    <2>1. ~Fault
      BY <1>1 DEF Fault, TypeOK
    <2>2. persist(r, "failed")
      BY <1>2, <1>4, <2>1 DEF Unfinished, persistFailure
    <2> QED
      BY <1>1, <2>2 DEF persist, statusFor, TypeOK
  <1>8. cancelling'[r] = "no"
    BY <1>2 DEF Leave
  <1> QED
    BY <1>6, <1>7, <1>8, RivalStands

LEMMA ExecuteEnds ==
  ASSUME EndsInv, IInv', [Next]_vars, NEW r \in Ours, Execute(r)
  PROVE  Ends(r)'
  <1>1. r \in Run /\ TypeOK /\ Local(r) /\ Ends(r) /\ IInv
    BY RunAssumption DEF EndsInv, IInv, GeneratorInv, RunAssumption
  <1> USE <1>1
  <1>2. /\ faults' = 0 => faults = 0
        /\ status[r] \in TerminalRun => status'[r] = status[r]
    BY ExecuteFrame, ExecuteWrites, StatusWritten DEF Frame
  <1>3. CASE Reject(r)
    <2>1. /\ pc[r] = "idle" /\ pc'[r] = "finished"
          /\ child'[r] = child[r] /\ cancelling'[r] = cancelling[r]
      BY <1>3 DEF Reject, childVars, TypeOK
    <2>2. child[r] = "none"
      BY <2>1 DEF Ends, NotSpawned
    <2> QED
      BY <1>2, <2>1, <2>2, SameEnds DEF OrphanIsRefused
  <1>4. CASE Start(r) \/ Prepare(r) \/ InspectionFailure(r)
    <2>1. /\ pc[r] \in {"idle", "preparing"} /\ pc'[r] \in {"preparing", "spawning", "closing"}
          /\ child'[r] = child[r] /\ cancelling'[r] = cancelling[r]
      BY <1>4 DEF Start, Prepare, InspectionFailure, childVars, TypeOK
    <2>2. child[r] = "none"
      BY <2>1 DEF Ends, NotSpawned
    <2> QED
      BY <1>2, <2>1, <2>2, SameEnds DEF OrphanIsRefused
  <1>5. CASE Spawn(r)
    <2>1. /\ pc[r] = "spawning" /\ pc'[r] = "prompting" /\ child'[r] = "live"
          /\ UNCHANGED <<cancelling, storeVars>>
      BY <1>5 DEF Spawn, TypeOK
    <2>2. cancelling[r] # "waiting" /\ ~(cancelling[r] = "rejected" /\ faults = 0)
      BY <2>1 DEF Ends, NotSpawned, WaitsForChild, RefusedIsGone
    <2> QED
      BY <2>1, <2>2 DEF Ends, NotSpawned, ReadIsGone, WaitsForChild, RefusedIsGone,
                        ReturnedIsDone, OrphanIsRefused, storeVars
  <1>6. CASE CannotSpawn(r) \/ VerifyFails(r) \/ Finish(r)
    <2>1. /\ pc[r] \in {"preparing", "spawning", "verifying", "closing"} /\ pc'[r] = "finished"
          /\ child'[r] = child[r] /\ cancelling'[r] = cancelling[r]
      BY <1>6 DEF CannotSpawn, VerifyFails, Finish, Throw, Leave, TypeOK
    <2>2. child[r] # "live"
      BY <2>1 DEF Ends, NotSpawned, ReadIsGone
    <2> QED
      BY <1>2, <2>1, <2>2, SameEnds DEF OrphanIsRefused
  <1>7. CASE PromptRejected(r)
    <2>1. /\ pc'[r] = "finished" /\ child'[r] = child[r] /\ cancelling'[r] = cancelling[r]
          /\ child[r] = "live" => stopping'[r] # "no"
      BY <1>7 DEF PromptRejected, Throw, Leave, Stopped, TypeOK
    <2> QED
      BY <1>2, <2>1, SameEnds DEF OrphanIsRefused
  <1>8. CASE PromptDelivered(r) \/ SessionFrame(r) \/ OutputFrame(r) \/ ProtocolError(r)
             \/ StreamFailure(r) \/ \E verdict \in {"success", "failure"} : ResultFrame(r, verdict)
    <2>1. pc'[r] = "reading" /\ child'[r] = child[r] /\ cancelling'[r] = cancelling[r]
      BY <1>8 DEF PromptDelivered, SessionFrame, OutputFrame, ProtocolError, StreamFailure,
                  ResultFrame, CanRead, childVars, TypeOK
    <2> QED
      BY <1>2, <2>1, SameEnds DEF OrphanIsRefused
  <1>9. CASE Drop(r) \/ TakeSession(r) \/ TakeEvent(r)
    <2>1. UNCHANGED <<pc, child, cancelling>> /\ inbox[r] # <<>>
      BY <1>9 DEF Drop, TakeSession, TakeEvent, childVars
    <2>2. pc[r] \in {"reading", "closing"}
      BY <2>1, NextEvent DEF Local
    <2>3. pc[r] = "closing" => child[r] # "live"
      BY DEF Ends, ReadIsGone
    <2> QED
      BY <1>2, <2>1, <2>2, <2>3, SameEnds DEF OrphanIsRefused
  <1>10. CASE WriteRefused(r)
    <2>1. /\ pc'[r] = "finished" /\ child'[r] = child[r] /\ cancelling'[r] = cancelling[r]
      BY <1>10 DEF WriteRefused, Throw, Leave, TypeOK
    <2>2. pc[r] = "closing" => child[r] # "live"
      BY DEF Ends, ReadIsGone
    <2>3. OrphanIsRefused(r)'
      BY <1>10, <2>1, <2>2, RefusalHasRival DEF OrphanIsRefused
    <2> QED
      BY <1>2, <2>1, <2>3, SameEnds
  <1>11. CASE WriteFails(r)
    <2>1. /\ pc'[r] = "finished" /\ child'[r] = child[r] /\ cancelling'[r] = cancelling[r]
          /\ faults' # 0
      BY <1>11 DEF WriteFails, Leave, TypeOK
    <2> QED
      BY <1>2, <2>1, SameEnds DEF OrphanIsRefused
  <1>12. CASE StreamEnd(r) \/ Verify(r)
    <2>1. /\ pc'[r] \in {"verifying", "closing"} /\ child[r] # "live"
          /\ child'[r] = child[r] /\ cancelling'[r] = cancelling[r]
      BY <1>12 DEF StreamEnd, Verify, Ends, ReadIsGone, childVars, TypeOK
    <2> QED
      BY <1>2, <2>1, SameEnds DEF OrphanIsRefused
  <1> QED
    BY <1>3, <1>4, <1>5, <1>6, <1>7, <1>8, <1>9, <1>10, <1>11, <1>12 DEF Execute

LEMMA CancelEnds ==
  ASSUME EndsInv, NEW r \in Ours, CancelRun(r)
  PROVE  Ends(r)'
  <1>1. r \in Run /\ TypeOK /\ Local(r) /\ Ends(r)
    BY RunAssumption DEF EndsInv, IInv, GeneratorInv, RunAssumption
  <1> USE <1>1
  <1>2. UNCHANGED <<pc, child>>
    BY DEF CancelRun, CancelAtOnce, Cancel, CancelRejected, CancelFinishes, CancelFails,
           generatorVars, childVars
  <1>3. NotSpawned(r)' /\ ReadIsGone(r)'
    BY <1>2 DEF Ends, NotSpawned, ReadIsGone
  <1>4. OrphanIsRefused(r)'
    <2>1. pc[r] # "finished" \/ child[r] # "live"
      BY DEF CancelRun, CancelAtOnce, Cancel, CancelRejected, CancelFinishes, CancelFails, Active
    <2> QED
      BY <1>2, <2>1 DEF OrphanIsRefused
  <1>5. CASE RecordCancellation(r)
    <2>1. \/ cancelling'[r] = "returned" /\ status'[r] \in TerminalRun
          \/ cancelling'[r] = "rejected" /\ faults' # 0
      <3>1. CASE status[r] \in Running
        BY <1>5, <3>1
           DEF RecordCancellation, persist, Fault, statusFor, TerminalRun, TypeOK
      <3>2. CASE status[r] \notin Running
        BY <1>5, <3>2
           DEF RecordCancellation, storeVars, Running, TerminalRun, TypeOK, Local, WrittenStatus
      <3> QED
        BY <3>1, <3>2
    <2> QED
      BY <1>3, <1>4, <2>1 DEF Ends, WaitsForChild, RefusedIsGone, ReturnedIsDone
  <1>6. CASE Cancel(r)
    <2>1. cancelling'[r] = "waiting" /\ child'[r] = "live"
      BY <1>2, <1>6 DEF Cancel, TypeOK
    <2> QED
      BY <1>3, <1>4, <2>1 DEF Ends, WaitsForChild, RefusedIsGone, ReturnedIsDone
  <1>7. CASE CancelRejected(r) \/ CancelFails(r)
    <2>1. cancelling'[r] = "rejected" /\ child[r] # "live"
      BY <1>7 DEF CancelRejected, CancelFails, TypeOK
    <2>2. child[r] # "none"
      BY <1>7 DEF CancelRejected, CancelFails, HasHandle, Ends, WaitsForChild
    <2>3. child'[r] \in {"exited", "crashed"}
      BY <1>2, <2>1, <2>2 DEF TypeOK
    <2> QED
      BY <1>3, <1>4, <2>1, <2>3 DEF Ends, WaitsForChild, RefusedIsGone, ReturnedIsDone
  <1> QED
    BY <1>5, <1>6, <1>7 DEF CancelRun, CancelAtOnce, CancelFinishes

LEMMA ChildEnds ==
  ASSUME EndsInv, [Next]_vars, NEW r \in Ours, ChildSteps(r)
  PROVE  Ends(r)'
  <1>1. r \in Run /\ TypeOK /\ Ends(r) /\ IInv
    BY RunAssumption DEF EndsInv, IInv, RunAssumption
  <1> USE <1>1
  <1>2. UNCHANGED <<pc, cancelling, status, faults>>
    BY DEF ChildSteps, TimerFires, ForceTimerFires, ChildExit, generatorVars, storeVars
  <1>3. CASE \E how \in {"exited", "crashed"} : ChildExit(r, how)
    <2>1. child[r] = "live" /\ child'[r] \in {"exited", "crashed"}
      BY <1>3 DEF ChildExit, TypeOK
    <2> QED
      BY <1>2, <2>1 DEF Ends, NotSpawned, ReadIsGone, WaitsForChild, RefusedIsGone,
                        ReturnedIsDone, OrphanIsRefused
  <1>4. CASE TimerFires(r) \/ ForceTimerFires(r)
    <2>1. child'[r] = child[r] /\ (stopping'[r] = "no" => stopping[r] = "no")
      BY <1>4 DEF TimerFires, ForceTimerFires, Stopped, TypeOK
    <2>2. OrphanIsRefused(r)'
      BY <1>2, <2>1, RivalStands DEF Ends, OrphanIsRefused
    <2>3. pc[r] \in {"verifying", "closing"} => child[r] # "live"
      BY DEF Ends, ReadIsGone
    <2> QED
      BY <1>2, <2>1, <2>2, <2>3, SameEnds
  <1> QED
    BY <1>3, <1>4 DEF ChildSteps

LEMMA ElsewhereEnds ==
  ASSUME EndsInv, NEW r \in Run \ Ours, Elsewhere(r)
  PROVE  Ends(r)'
  <1>1. TypeOK /\ Local(r) /\ Ends(r)
    BY DEF EndsInv, IInv, GeneratorInv
  <1>2. UNCHANGED <<pc, child, cancelling>> /\ pc[r] = "idle"
    BY <1>1 DEF Elsewhere, generatorVars, childVars, Local, NotBegun
  <1>3. (faults' = 0 => faults = 0) /\ (status[r] \in TerminalRun => status'[r] = status[r])
    BY <1>1, ElsewhereFrame, ElsewhereWrites, StatusWritten DEF Frame
  <1> QED
    BY <1>1, <1>2, <1>3, SameEnds DEF OrphanIsRefused

LEMMA EndsStep ==
  ASSUME EndsInv, [Next]_vars
  PROVE  EndsInv'
  <1>1. IInv /\ IInv' /\ TypeOK /\ Ours \subseteq Run
    BY InvStep, RunAssumption DEF EndsInv, IInv, RunAssumption
  <1>2. ASSUME NEW r \in Run, Frame(r), Ends(r)',
               \A q \in Run \ {r} : stopping'[q] = stopping[q]
        PROVE  \A q \in Run : Ends(q)'
    <2> SUFFICES ASSUME NEW q \in Run \ {r}
                 PROVE  Ends(q)'
      BY <1>2
    <2>1. Ends(q)
      BY DEF EndsInv
    <2>2. /\ pc'[q] = pc[q] /\ child'[q] = child[q] /\ cancelling'[q] = cancelling[q]
          /\ status'[q] = status[q] /\ stopping'[q] = stopping[q] /\ (faults' = 0 => faults = 0)
      BY <1>2 DEF Frame
    <2>3. OrphanIsRefused(q)'
      BY <1>1, <2>1, <2>2, RivalStands DEF Ends, OrphanIsRefused
    <2>4. pc[q] \in {"verifying", "closing"} => child[q] # "live"
      BY <2>1 DEF Ends, ReadIsGone
    <2> QED
      BY <2>1, <2>2, <2>3, <2>4, SameEnds
  <1>3. ASSUME NEW r \in Ours, Execute(r) \/ CancelRun(r) \/ ChildSteps(r)
        PROVE  EndsInv'
    <2>1. Frame(r) /\ Ends(r)' /\ r \in Run
      BY <1>1, <1>3, ExecuteFrame, CancelFrame, ChildFrame, ExecuteEnds, CancelEnds, ChildEnds
    <2>2. \A q \in Run \ {r} : stopping'[q] = stopping[q]
      BY <1>1, <1>3, <2>1, StopFrame
    <2> QED
      BY <1>1, <1>2, <2>1, <2>2 DEF EndsInv
  <1>4. ASSUME NEW r \in Run \ Ours, Elsewhere(r)
        PROVE  EndsInv'
    <2>1. Frame(r) /\ Ends(r)'
      BY <1>1, <1>4, ElsewhereFrame, ElsewhereEnds
    <2>2. \A q \in Run \ {r} : stopping'[q] = stopping[q]
      BY <1>1, <1>4, StopFrame
    <2> QED
      BY <1>1, <1>2, <2>1, <2>2 DEF EndsInv
  <1>5. CASE UNCHANGED vars
    <2>1. UNCHANGED <<pc, child, stopping, cancelling, status, log, faults>>
      BY <1>5 DEF vars, generatorVars, childVars, storeVars
    <2>2. \A r \in Run : Rival(r)' = Rival(r)
      BY <2>1 DEF Rival, EventsOf
    <2>3. ASSUME NEW r \in Run PROVE Ends(r)'
      <3>1. Ends(r)
        BY DEF EndsInv
      <3>2. Rival(r)' = Rival(r)
        BY <2>2
      <3> QED
        BY <2>1, <3>1, <3>2 DEF Ends, NotSpawned, ReadIsGone, WaitsForChild, RefusedIsGone,
                                ReturnedIsDone, OrphanIsRefused
    <2> QED
      BY <1>1, <2>3 DEF EndsInv
  <1> QED
    BY <1>3, <1>4, <1>5 DEF Next

LEMMA EndsHold == Spec => []EndsInv
  <1>1. Init => EndsInv
    BY InvInit DEF Init, EndsInv, Ends, NotSpawned, ReadIsGone, WaitsForChild, RefusedIsGone,
                   ReturnedIsDone, OrphanIsRefused
  <1>2. EndsInv /\ [Next]_vars => EndsInv'
    BY EndsStep
  <1> QED
    BY <1>1, <1>2, PTL DEF Spec

(***************************************************************************)
(* Without failing writes, a run whose child is left at work was refused   *)
(* its event by the index, and nothing else leaves one.                    *)
(***************************************************************************)
THEOREM OrphansHaveRivals == Spec => []OrphansAreExplained
  <1>1. EndsInv => OrphansAreExplained
    BY DEF EndsInv, Ends, OrphanIsRefused, Rival, OrphansAreExplained
  <1> QED
    BY <1>1, EndsHold, PTL

(***************************************************************************)
(* A call of cancel that returns leaves a run that is over; a run that is  *)
(* left open waits for its cancellation, or has had it refused because its *)
(* child was gone.                                                         *)
(***************************************************************************)
THEOREM OpenRunsAreAlwaysExplained == Spec => []OpenRunsAreExplained
  <1>1. EndsInv => OpenRunsAreExplained
    <2> SUFFICES ASSUME EndsInv, NEW r \in Run
                 PROVE  /\ cancelling[r] = "returned" => status[r] \in TerminalRun
                        /\ pc[r] = "finished" /\ faults = 0 /\ status[r] \notin TerminalRun =>
                             \/ cancelling[r] = "waiting"
                             \/ cancelling[r] = "rejected" /\ child[r] \in {"exited", "crashed"}
      BY DEF OpenRunsAreExplained, ReturnedIsOver
    <2>1. LeftIsTerminal(r) /\ RefusedIsGone(r) /\ ReturnedIsDone(r)
      BY DEF EndsInv, IInv, GeneratorInv, Local, Ends
    <2>2. cancelling[r] \in {"no", "waiting", "returned", "rejected"}
      BY DEF EndsInv, IInv, TypeOK
    <2> QED
      BY <2>1, <2>2 DEF LeftIsTerminal, RefusedIsGone, ReturnedIsDone
  <1> QED
    BY <1>1, EndsHold, PTL

\* What is recorded as the outcome is what became of the child, but for the one
\* race that leaves a failed run's child at work (see VerdictsAreEarned).
THEOREM VerdictsAreAlwaysEarned == Spec => []VerdictsAreEarned
<1>1. SuccessIsEarned /\ TimeoutIsReportedAfterExit /\ OrphansAreExplained => VerdictsAreEarned
  BY DEF VerdictsAreEarned
<1> QED
  BY <1>1, SuccessIsAlwaysEarned, TimeoutsFollowExits, OrphansHaveRivals, PTL

-----------------------------------------------------------------------------
(***************************************************************************)
(* Room in the log.  Output stops when the log holds MaxEvents events;     *)
(* what comes after that is, of each run, one event that was on its way    *)
(* and one terminal event.                                                 *)
(***************************************************************************)
Late(r) == { i \in EventsOf(r) : i > MaxEvents }

\* An event that is not terminal is on its way.
Expecting(r) ==
  \/ r \in Ours /\ cancelling[r] = "no" /\ pc[r] = "reading" /\ inbox[r] # <<>>
  \/ r \notin Ours /\ status[r] = "starting"

RoomInv ==
  /\ \A r \in Run : \A i, j \in Late(r) : i < j => log[j].type \in TerminalType
  /\ \A r \in Run : Expecting(r) => Late(r) = {}

\* What a step of a run means for the room it has.
Waits(r) == log' = log /\ (Expecting(r)' => Expecting(r) \/ Len(log) < MaxEvents)

Settled(r, type) ==
  /\ log' = Append(log, [run |-> r, type |-> type])
  /\ ~Expecting(r)'
  /\ type \in TerminalType \/ Expecting(r)

UsesRoom(r) == Waits(r) \/ \E type \in EventType : Settled(r, type)

LEMMA UnfinishedRoom ==
  ASSUME NEW r \in Ours, Unfinished(r), ~Expecting(r)'
  PROVE  UsesRoom(r)
  <1>1. persist(r, "failed") \/ log' = log
    BY DEF Unfinished, persistFailure, Fault, storeVars
  <1>2. CASE persist(r, "failed")
    <2>1. Settled(r, "failed")
      BY <1>2 DEF persist, Settled, TerminalType
    <2> QED
      BY <2>1 DEF UsesRoom, EventType
  <1> QED
    BY <1>1, <1>2 DEF UsesRoom, Waits

LEMMA ExecuteRoom ==
  ASSUME TypeOK, NEW r \in Ours, Local(r), Execute(r)
  PROVE  UsesRoom(r)
  <1>1. r \in Run
    BY RunAssumption DEF RunAssumption
  <1> USE <1>1 DEF Local
  <1>2. ASSUME pc'[r] # "reading"
        PROVE  ~Expecting(r)'
    BY <1>2 DEF Expecting
  <1>3. CASE CannotSpawn(r) \/ PromptRejected(r) \/ WriteRefused(r) \/ VerifyFails(r) \/ Finish(r)
    <2>1. pc'[r] = "finished" /\ Unfinished(r)
      BY <1>3 DEF CannotSpawn, PromptRejected, WriteRefused, VerifyFails, Finish, Throw, Leave,
                  TypeOK
    <2> QED
      BY <1>2, <2>1, UnfinishedRoom
  <1>4. CASE Reject(r) \/ WriteFails(r)
    <2>1. pc'[r] = "finished"
      BY <1>4 DEF Reject, WriteFails, Leave, TypeOK
    <2>2. log' = log \/ log' = Append(log, [run |-> r, type |-> "failed"])
      BY <1>4 DEF Reject, WriteFails, persist, Fault
    <2> QED
      BY <1>2, <2>1, <2>2 DEF UsesRoom, Waits, Settled, EventType, TerminalType
  <1>5. CASE TakeEvent(r)
    <2>1. inbox[r] # <<>> /\ Head(inbox[r]) # "session" /\ cancelling[r] = "no"
      BY <1>5 DEF TakeEvent
    <2>2. log' = Append(log, [run |-> r, type |-> Head(inbox[r])])
          /\ pc' = pc /\ inbox'[r] = Tail(inbox[r])
      BY <1>5 DEF TakeEvent, persist, TypeOK
    <2>3. CASE pc[r] = "reading"
      <3>1. inbox[r] \in {<<"started">>, <<"delta">>}
        <4>1. inbox[r] \in {<<"session", "started">>, <<"started">>, <<"delta">>}
          BY <2>1, <2>3 DEF InboxShape
        <4> QED
          BY <2>1, <4>1
      <3>2. inbox'[r] = <<>> /\ Head(inbox[r]) \in EventType
        <4>1. \A type : Head(<<type>>) = type /\ Tail(<<type>>) = <<>>
          OBVIOUS
        <4> QED
          BY <2>2, <3>1, <4>1 DEF EventType
      <3>3. Settled(r, Head(inbox[r]))
        BY <2>1, <2>2, <2>3, <3>2 DEF Settled, Expecting
      <3> QED
        BY <3>2, <3>3 DEF UsesRoom
    <2>4. CASE pc[r] = "closing"
      <3>1. Head(inbox[r]) \in TerminalType
        BY <2>1, <2>4, NextEvent
      <3>2. Settled(r, Head(inbox[r]))
        BY <1>2, <2>2, <2>4, <3>1 DEF Settled
      <3> QED
        BY <3>1, <3>2 DEF UsesRoom, TerminalType, EventType
    <2> QED
      BY <2>1, <2>3, <2>4 DEF InboxShape
  <1>6. CASE SessionFrame(r) \/ OutputFrame(r)
    BY <1>6 DEF SessionFrame, OutputFrame, storeVars, UsesRoom, Waits
  <1>7. CASE Drop(r) \/ TakeSession(r)
    <2>1. log' = log /\ pc' = pc /\ cancelling' = cancelling /\ inbox[r] # <<>>
      BY <1>7 DEF Drop, TakeSession, storeVars
    <2> QED
      BY <2>1 DEF Expecting, UsesRoom, Waits
  <1>8. CASE ProtocolError(r) \/ StreamFailure(r)
             \/ \E verdict \in {"success", "failure"} : ResultFrame(r, verdict)
    BY <1>8 DEF ProtocolError, StreamFailure, ResultFrame, storeVars, Expecting, UsesRoom, Waits
  <1>9. CASE PromptDelivered(r)
    <2>1. inbox'[r] = <<>> /\ log' = log
      BY <1>9 DEF PromptDelivered, InboxShape, storeVars
    <2> QED
      BY <2>1 DEF Expecting, UsesRoom, Waits
  <1>10. CASE Start(r) \/ Prepare(r) \/ InspectionFailure(r) \/ Spawn(r) \/ StreamEnd(r) \/ Verify(r)
    <2>1. pc'[r] # "reading" /\ log' = log
      BY <1>10 DEF Start, Prepare, InspectionFailure, Spawn, StreamEnd, Verify, storeVars, TypeOK
    <2> QED
      BY <1>2, <2>1 DEF UsesRoom, Waits
  <1> QED
    BY <1>3, <1>4, <1>5, <1>6, <1>7, <1>8, <1>9, <1>10 DEF Execute

LEMMA CancelRoom ==
  ASSUME TypeOK, NEW r \in Ours, Local(r), CancelRun(r)
  PROVE  UsesRoom(r)
  <1>1. r \in Run
    BY RunAssumption DEF RunAssumption
  <1>2. cancelling'[r] # "no"
    BY <1>1 DEF CancelRun, CancelAtOnce, Cancel, CancelRejected, CancelFinishes, CancelFails,
                RecordCancellation, TypeOK
  <1>3. ~Expecting(r)'
    BY <1>2 DEF Expecting
  <1>4. log' = log \/ log' = Append(log, [run |-> r, type |-> "cancelled"])
    BY DEF CancelRun, CancelAtOnce, Cancel, CancelRejected, CancelFinishes, CancelFails,
           RecordCancellation, persist, Fault, storeVars
  <1> QED
    BY <1>3, <1>4 DEF UsesRoom, Waits, Settled, EventType, TerminalType

LEMMA ElsewhereRoom ==
  ASSUME TypeOK, NEW r \in Run \ Ours, Elsewhere(r)
  PROVE  UsesRoom(r)
  <1>1. PICK type \in {"started", "completed", "failed"} :
          /\ persist(r, type)
          /\ type = "started" => status[r] = "starting"
    BY DEF Elsewhere
  <1>2. status'[r] # "starting"
    BY <1>1 DEF persist, statusFor, TypeOK
  <1>3. Settled(r, type)
    BY <1>1, <1>2 DEF persist, Settled, Expecting, TerminalType
  <1> QED
    BY <1>1, <1>3 DEF UsesRoom, EventType

LEMMA SomeRunUsesRoom ==
  ASSUME TypeOK, GeneratorInv, [Next]_vars
  PROVE  \/ UNCHANGED vars
         \/ \E r \in Run : Frame(r) /\ UsesRoom(r)
  <1>1. Ours \subseteq Run /\ \A r \in Run : Local(r)
    BY RunAssumption DEF RunAssumption, GeneratorInv
  <1>2. ASSUME NEW r \in Ours, Execute(r) \/ CancelRun(r) \/ ChildSteps(r)
        PROVE  Frame(r) /\ UsesRoom(r)
    <2>1. ChildSteps(r) => UsesRoom(r)
      BY DEF ChildSteps, TimerFires, ForceTimerFires, ChildExit, generatorVars, storeVars,
             Expecting, UsesRoom, Waits
    <2> QED
      BY <1>1, <1>2, <2>1, ExecuteFrame, CancelFrame, ChildFrame, ExecuteRoom, CancelRoom
  <1>3. ASSUME NEW r \in Run \ Ours, Elsewhere(r)
        PROVE  Frame(r) /\ UsesRoom(r)
    BY <1>1, <1>3, ElsewhereFrame, ElsewhereRoom
  <1> QED
    BY <1>1, <1>2, <1>3 DEF Next

LEMMA RoomStep ==
  ASSUME TypeOK, GeneratorInv, RoomInv, [Next]_vars
  PROVE  RoomInv'
  <1>1. CASE UNCHANGED vars
    BY <1>1 DEF vars, generatorVars, storeVars, RoomInv, Late, EventsOf, Expecting
  <1>2. ASSUME NEW r \in Run, Frame(r), Waits(r)
        PROVE  RoomInv'
    <2>1. log' = log /\ \A q \in Run : Late(q)' = Late(q)
      BY <1>2 DEF Waits, Late, EventsOf
    <2>2. ASSUME NEW q \in Run, Expecting(q)'
          PROVE  Late(q)' = {}
      <3>1. Expecting(q) \/ Len(log) < MaxEvents
        BY <1>2, <2>2 DEF Frame, Waits, Expecting
      <3>2. Len(log) < MaxEvents => Late(q) = {}
        BY RunAssumption DEF Late, EventsOf, TypeOK
      <3> QED
        BY <2>1, <3>1, <3>2 DEF RoomInv
    <2> QED
      BY <2>1, <2>2 DEF RoomInv
  <1>3. ASSUME NEW r \in Run, NEW type \in EventType, Frame(r), Settled(r, type)
        PROVE  RoomInv'
    <2> DEFINE n == Len(log) + 1
    <2>1. /\ Len(log) \in Nat /\ MaxEvents \in Nat
          /\ \A i \in 1 .. Len(log) : log'[i] = log[i] /\ i < n
          /\ log'[n] = [run |-> r, type |-> type]
          /\ 1 .. Len(log') = 1 .. Len(log) \cup {n}
      BY <1>3, RunAssumption DEF Settled, TypeOK
    <2>2. \A q \in Run : EventsOf(q) \subseteq 1 .. Len(log)
      BY DEF EventsOf
    <2>3. \A q \in Run : EventsOf(q)' = IF q = r THEN EventsOf(q) \cup {n} ELSE EventsOf(q)
      BY <2>1 DEF EventsOf
    <2> HIDE DEF n
    <2>4. /\ \A q \in Run \ {r} : Late(q)' = Late(q)
          /\ Late(r)' \subseteq Late(r) \cup {n}
          /\ \A q \in Run : Late(q) \subseteq 1 .. Len(log)
      BY <2>2, <2>3 DEF Late
    <2>5. ASSUME NEW q \in Run, NEW i \in Late(q)', NEW j \in Late(q)', i < j
          PROVE  log'[j].type \in TerminalType
      <3>1. CASE i \in Late(q) /\ j \in Late(q)
        BY <2>1, <2>4, <2>5, <3>1 DEF RoomInv
      <3>2. CASE i \in Late(q) /\ q = r /\ j = n
        <4>1. ~Expecting(r)
          BY <3>2 DEF RoomInv
        <4> QED
          BY <1>3, <2>1, <3>2, <4>1 DEF Settled
      <3>3. CASE i = n
        BY <2>1, <2>4, <2>5, <3>3 DEF n
      <3> QED
        BY <2>4, <3>1, <3>2, <3>3
    <2>6. ASSUME NEW q \in Run, Expecting(q)'
          PROVE  Late(q)' = {}
      BY <1>3, <2>4, <2>6 DEF Frame, Settled, Expecting, RoomInv
    <2> QED
      BY <2>5, <2>6 DEF RoomInv
  <1> QED
    BY <1>1, <1>2, <1>3, SomeRunUsesRoom DEF UsesRoom

StoreInv == IInv /\ RoomInv

LEMMA Numbers ==
  ASSUME NEW m \in Nat, NEW n \in Nat
  PROVE  /\ IsFiniteSet(m .. n)
         /\ Cardinality(m .. n) = IF m > n THEN 0 ELSE n - m + 1
  BY FS_Interval

LEMMA StoreInvariant == Spec => []StoreInv
  <1>1. Init => RoomInv
    BY DEF Init, RoomInv, Late, EventsOf
  <1>2. StoreInv /\ [Next]_vars => StoreInv'
    BY InvStep, RoomStep DEF StoreInv, IInv
  <1> QED
    BY InvInit, <1>1, <1>2, PTL DEF Spec, StoreInv

\* The log never outgrows the bound under which the store is instantiated.
LogIsBounded == Len(log) <= MaxEvents + 2 * Cardinality(Run)

LEMMA LogFits ==
  ASSUME StoreInv
  PROVE  LogIsBounded
  <1> DEFINE late  == MaxEvents + 1 .. Len(log)
             kinds == Run \X (0 .. 1)
             f     == [i \in late |->
                         <<log[i].run, IF log[i].type \in TerminalType THEN 1 ELSE 0>>]
  <1>1. /\ Len(log) \in Nat /\ MaxEvents \in Nat
        /\ \A i \in 1 .. Len(log) : log[i].run \in Run
    BY RunAssumption, Entries DEF StoreInv, IInv, RunAssumption
  <1>2. IsFiniteSet(kinds) /\ Cardinality(kinds) = 2 * Cardinality(Run)
    <2>1. IsFiniteSet(0 .. 1) /\ Cardinality(0 .. 1) = 2
      <3>1. 0 \in Nat /\ 1 \in Nat
        OBVIOUS
      <3>2. IsFiniteSet(0 .. 1) /\ Cardinality(0 .. 1) = IF 0 > 1 THEN 0 ELSE 1 - 0 + 1
        BY <3>1, Numbers
      <3> QED
        BY <3>2
    <2>2. IsFiniteSet(Run) /\ Cardinality(Run) \in Nat
      BY RowsAssumption, FS_CardinalityType
    <2>3. /\ IsFiniteSet(Run \X (0 .. 1))
          /\ Cardinality(Run \X (0 .. 1)) = Cardinality(Run) * Cardinality(0 .. 1)
      BY <2>1, <2>2, FS_Product
    <2> QED
      BY <2>1, <2>2, <2>3
  <1>3. \A i \in late : i \in 1 .. Len(log) /\ i \in Late(log[i].run)
    BY <1>1 DEF Late, EventsOf
  <1>4. f \in [late -> kinds]
    BY <1>1, <1>3
  <1>5. \A i, j \in late : i < j => f[i] # f[j]
    <2> SUFFICES ASSUME NEW i \in late, NEW j \in late, i < j, log[i].run = log[j].run
                 PROVE  f[i][2] # f[j][2]
      OBVIOUS
    <2>1. log[j].type \in TerminalType
      BY <1>1, <1>3 DEF StoreInv, RoomInv
    <2>2. log[i].type \notin TerminalType
      BY <1>1, <1>3 DEF StoreInv, IInv, LogInv, NothingFollowsTheTerminalEvent, Late
    <2> QED
      BY <2>1, <2>2
  <1>6. f \in Injection(late, kinds)
    <2>1. \A i, j \in late : i # j => i < j \/ j < i
      BY <1>1
    <2> HIDE DEF f, kinds
    <2> QED
      BY <1>4, <1>5, <2>1 DEF Injection, IsInjective
  <1>7. Cardinality(late) <= 2 * Cardinality(Run)
    <2> HIDE DEF f, kinds, late
    <2> QED
      BY <1>2, <1>6, FS_Injection
  <1>8. Cardinality(late) = IF MaxEvents + 1 > Len(log) THEN 0 ELSE Len(log) - MaxEvents
    <2>1. MaxEvents + 1 \in Nat
      BY <1>1
    <2>2. Cardinality(late) = IF MaxEvents + 1 > Len(log) THEN 0 ELSE Len(log) - (MaxEvents + 1) + 1
      BY <1>1, <2>1, Numbers
    <2> HIDE DEF late
    <2> QED
      BY <1>1, <2>2
  <1>9. Cardinality(Run) \in Nat
    BY RowsAssumption, FS_CardinalityType
  <1> HIDE DEF late
  <1> QED
    BY <1>1, <1>7, <1>8, <1>9 DEF LogIsBounded

LEMMA StoreIsBounded == Spec => [](StoreInv /\ LogIsBounded)
  <1>1. StoreInv => LogIsBounded
    BY LogFits
  <1> QED
    BY <1>1, StoreInvariant, PTL

-----------------------------------------------------------------------------
(***************************************************************************)
(* A write is one row of the events table, numbered by both counters.      *)
(***************************************************************************)
LEMMA EventsAreFinite ==
  ASSUME TypeOK, NEW r
  PROVE  /\ IsFiniteSet(EventsOf(r)) /\ Cardinality(EventsOf(r)) \in Nat
         /\ \A i : LET seen == { j \in EventsOf(r) : j <= i } IN
              /\ IsFiniteSet(seen) /\ Cardinality(seen) \in Nat
              /\ Cardinality(seen) <= Cardinality(EventsOf(r))
  <1>1. Len(log) \in Nat /\ EventsOf(r) \in SUBSET (1 .. Len(log))
    BY DEF TypeOK, EventsOf
  <1>2. IsFiniteSet(1 .. Len(log))
    BY <1>1, Numbers
  <1>3. IsFiniteSet(EventsOf(r)) /\ Cardinality(EventsOf(r)) \in Nat
    BY <1>1, <1>2, FS_Subset, FS_CardinalityType
  <1>4. ASSUME NEW i
        PROVE  LET seen == { j \in EventsOf(r) : j <= i } IN
                 /\ IsFiniteSet(seen) /\ Cardinality(seen) \in Nat
                 /\ Cardinality(seen) <= Cardinality(EventsOf(r))
    <2>1. { j \in EventsOf(r) : j <= i } \in SUBSET EventsOf(r)
      OBVIOUS
    <2> QED
      BY <1>3, <2>1, FS_Subset, FS_CardinalityType
  <1> QED
    BY <1>3, <1>4

LEMMA RowsAreCounted ==
  ASSUME TypeOK
  PROVE  IsFiniteSet(rows) /\ Cardinality(rows) = Len(log)
  <1> DEFINE f == [i \in 1 .. Len(log) |-> RowOf(i)]
  <1>1. Len(log) \in Nat
    BY DEF TypeOK
  <1>2. IsFiniteSet(1 .. Len(log)) /\ Cardinality(1 .. Len(log)) = Len(log)
    BY <1>1, Numbers, SMTT(40)
  <1>3. f \in Bijection(1 .. Len(log), rows)
    <2>1. f \in [1 .. Len(log) -> rows] /\ \A row \in rows : \E i \in 1 .. Len(log) : f[i] = row
      BY DEF rows
    <2>2. \A i, j \in 1 .. Len(log) : f[i] = f[j] => i = j
      BY DEF RowOf
    <2> HIDE DEF f
    <2> QED
      BY <2>1, <2>2 DEF Bijection, Injection, Surjection, IsInjective
  <1> HIDE DEF f
  <1> QED
    BY <1>2, <1>3, FS_Bijection DEF ExistsBijection

\* A row as a function of the log alone.
Row(l, i) ==
  [ task |-> TheTask, subject |-> l[i].run, taskSequence |-> i,
    runSequence |-> Cardinality({ j \in 1 .. Len(l) : l[j].run = l[i].run /\ j <= i }) ]

LEMMA RowsOfLog == /\ rows = { Row(log, i) : i \in 1 .. Len(log) }
                   /\ rows' = { Row(log', i) : i \in 1 .. Len(log') }
  <1>1. \A i : { j \in EventsOf(log[i].run) : j <= i }
                 = { j \in 1 .. Len(log) : log[j].run = log[i].run /\ j <= i }
    BY DEF EventsOf
  <1>2. \A i : RowOf(i) = Row(log, i)
    BY <1>1 DEF RowOf, Row
  <1>3. rows = { Row(log, i) : i \in 1 .. Len(log) }
    BY <1>2 DEF rows
  <1>4. \A i : { j \in EventsOf(log[i].run) : j <= i }'
                 = { j \in 1 .. Len(log') : log'[j].run = log'[i].run /\ j <= i }
    BY DEF EventsOf
  <1>5. \A i : RowOf(i)' = Row(log', i)
    BY <1>4 DEF RowOf, Row
  <1>6. rows' = { Row(log', i) : i \in 1 .. Len(log') }
    BY <1>5 DEF rows
  <1> QED
    BY <1>3, <1>6

LEMMA RowsStep ==
  ASSUME StoreInv, NEW q \in Run, NEW type \in EventType, Write(q, type)
  PROVE  /\ rows' = rows \cup {Store!NewRow(q)}
         /\ taskSequences' = [taskSequences EXCEPT ![TheTask] = @ + 1]
         /\ runSequences' = [runSequences EXCEPT ![q] = @ + 1]
         /\ Store!UniqueRow(Store!NewRow(q))
  <1> DEFINE n == Len(log) + 1
             row == [task |-> TheTask, subject |-> q, taskSequence |-> n,
                     runSequence |-> Cardinality(EventsOf(q)) + 1]
  <1>0. TypeOK
    BY DEF StoreInv, IInv
  <1>1. /\ Len(log) \in Nat /\ Len(log') = n
        /\ \A i \in 1 .. Len(log) : log'[i] = log[i] /\ i < n /\ log[i].run \in Run
        /\ log'[n] = [run |-> q, type |-> type]
        /\ \A r \in Run : EventsOf(r) \subseteq 1 .. Len(log)
        /\ \A r \in Run : EventsOf(r)' = IF r = q THEN EventsOf(r) \cup {n} ELSE EventsOf(r)
        /\ 1 .. Len(log') = 1 .. Len(log) \cup {n}
    BY <1>0, Entries, EventsStep
  <1>2. Store!NewRow(q) = row
    <2>1. q # TheTask /\ q \notin Step
      BY RowsAssumption
    <2>2. Store!TaskFor(q) = TheTask
      BY <2>1, RunAssumption DEF Store!TaskFor
    <2> QED
      BY <2>2 DEF Store!NewRow, taskSequences, runSequences
  <1> HIDE DEF n
  <1>3. ASSUME NEW i \in 1 .. Len(log)
        PROVE  Row(log', i) = Row(log, i)
    <2>1. { j \in 1 .. Len(log') : log'[j].run = log'[i].run /\ j <= i }
            = { j \in 1 .. Len(log) : log[j].run = log[i].run /\ j <= i }
      BY <1>1 DEF n
    <2>2. log'[i] = log[i]
      BY <1>1
    <2> QED
      BY <2>1, <2>2 DEF Row
  <1>4. Cardinality({ j \in EventsOf(q)' : j <= n }) = Cardinality(EventsOf(q)) + 1
    <2>1. \A j \in EventsOf(q)' : j <= n
      BY <1>1 DEF n
    <2>2. { j \in EventsOf(q)' : j <= n } = EventsOf(q) \cup {n} /\ n \notin EventsOf(q)
      BY <1>1, <2>1
    <2> QED
      BY <1>0, <2>2, EventsAreFinite, FS_AddElement
  <1>5. rows' = rows \cup {row}
    <2>1. rows = { Row(log, i) : i \in 1 .. Len(log) }
          /\ rows' = { Row(log', i) : i \in 1 .. Len(log') }
      BY RowsOfLog
    <2>2. log'[n].run = q
      BY <1>1
    <2>3. Row(log', n) = row
      <3>1. { j \in 1 .. Len(log') : log'[j].run = log'[n].run /\ j <= n }
              = { j \in EventsOf(q)' : j <= n }
        BY <2>2 DEF EventsOf
      <3> QED
        BY <1>4, <2>2, <3>1 DEF Row
    <2> HIDE DEF row
    <2> QED
      BY <1>1, <1>3, <2>1, <2>3
  <1>6. taskSequences' = [taskSequences EXCEPT ![TheTask] = @ + 1]
    BY <1>1 DEF taskSequences, n
  <1>7. runSequences' = [runSequences EXCEPT ![q] = @ + 1]
    <2>1. n \notin EventsOf(q)
      BY <1>1
    <2>2. Cardinality(EventsOf(q)') = Cardinality(EventsOf(q)) + 1
      BY <1>0, <1>1, <2>1, EventsAreFinite, FS_AddElement
    <2>3. \A r \in Run \ {q} : EventsOf(r)' = EventsOf(r)
      BY <1>1
    <2> QED
      BY <2>2, <2>3 DEF runSequences
  <1>8. Store!UniqueRow(row)
    <2> SUFFICES ASSUME NEW i \in 1 .. Len(log)
                 PROVE  /\ RowOf(i).taskSequence # n
                        /\ RowOf(i).subject = q =>
                             RowOf(i).runSequence # Cardinality(EventsOf(q)) + 1
      BY DEF Store!UniqueRow, rows
    <2>1. RowOf(i).taskSequence # n
      BY <1>1 DEF RowOf
    <2>2. RowOf(i).subject = q => RowOf(i).runSequence <= Cardinality(EventsOf(q))
      BY <1>0, EventsAreFinite DEF RowOf
    <2>3. RowOf(i).subject = q => RowOf(i).runSequence \in Nat
      BY <1>0, EventsAreFinite DEF RowOf
    <2> QED
      BY <1>0, <2>1, <2>2, <2>3, EventsAreFinite
  <1> QED
    BY <1>2, <1>5, <1>6, <1>7, <1>8

-----------------------------------------------------------------------------
(***************************************************************************)
(* The service as a user of the execution tables.                          *)
(***************************************************************************)
\* Only an event "started" makes a run running, and it stays recorded.
LEMMA StartedStep ==
  ASSUME StoreInv, NEW q \in Run, NEW type \in EventType, Write(q, type)
  PROVE  startedRuns' = IF statusFor(type, status[q]) = "running"
                        THEN startedRuns \cup {q} ELSE startedRuns
  <1> DEFINE n == Len(log) + 1
  <1>0. TypeOK /\ StatusIsTheLogs
    BY DEF StoreInv, IInv, LogInv
  <1>1. /\ \A i \in 1 .. Len(log) : log'[i] = log[i]
        /\ log'[n] = [run |-> q, type |-> type]
        /\ \A r \in Run : EventsOf(r) \subseteq 1 .. Len(log)
        /\ \A r \in Run : EventsOf(r)' = IF r = q THEN EventsOf(r) \cup {n} ELSE EventsOf(r)
    BY <1>0, EventsStep
  <1> HIDE DEF n
  <1>2. startedRuns' = IF type = "started" THEN startedRuns \cup {q} ELSE startedRuns
    BY <1>1 DEF startedRuns
  <1>3. type = "started" => statusFor(type, status[q]) = "running"
    BY DEF statusFor
  <1>4. CASE type # "started" /\ statusFor(type, status[q]) = "running"
    <2>1. status[q] = "running"
      BY <1>4 DEF statusFor, EventType
    <2>2. PICK i \in EventsOf(q) : log[i].type # "delta" /\ statusFor(log[i].type, "") = "running"
      BY <1>0, <2>1 DEF StatusIsTheLogs
    <2>3. log[i].type \in EventType
      BY <1>0, Entries DEF EventsOf
    <2>4. log[i].type = "started"
      BY <2>2, <2>3 DEF statusFor, EventType
    <2> QED
      BY <1>2, <1>4, <2>4 DEF startedRuns
  <1> QED
    BY <1>2, <1>3, <1>4

\* The write of an event is one call of persistProviderRunEvent, which neither
\* the trigger, nor the index, nor the uniqueness of the numbers refuses.
LEMMA WriteIsAStoreStep ==
  ASSUME StoreInv, StoreInv', LogIsBounded', NEW q \in Run, NEW type \in EventType,
         Write(q, type), session' = session
  PROVE  Store!persistProviderRunEvent("server", q, statusFor(type, status[q]), FALSE)
  <1> DEFINE new == statusFor(type, status[q])
             entities == {TheTask} \cup Step \cup Run
  <1>1. TypeOK /\ TypeOK' /\ status[q] \in RunStatus
    BY DEF StoreInv, IInv, TypeOK
  <1>2. q \in entities /\ q # TheTask /\ q \notin Step
    BY RowsAssumption
  <1>3. rowStatus[q] = status[q]
    BY <1>2 DEF rowStatus
  <1>4. status' = [status EXCEPT ![q] = new] /\ new \in RunStatus
    <2>1. status' = [status EXCEPT ![q] = new]
      BY DEF Write
    <2> QED
      BY <1>1, <2>1 DEF TypeOK
  <1> HIDE DEF new
  <1>5. rowStatus' = [rowStatus EXCEPT ![q] = new]
    <2>1. rowStatus' = [e \in entities |-> IF e \in Run THEN status'[e] ELSE "running"]
      BY DEF rowStatus
    <2>2. \A e \in Run : status'[e] = IF e = q THEN new ELSE status[e]
      BY <1>1, <1>4 DEF TypeOK
    <2> HIDE DEF entities
    <2> QED
      BY <1>2, <2>1, <2>2 DEF rowStatus, entities
  <1>6. Store!CanUpdateStatus(q, new)
    <2>1. runs_transition_guard(status[q], new)
          /\ (new = "running" => \A r \in Run \ {q} :
                StepOf[r] = StepOf[q] => status[r] # "running")
      BY DEF Write, Writable, new
    <2>2. Store!TriggerAdmits(q, rowStatus[q], new)
      BY <1>2, <1>3, <2>1
         DEF Store!TriggerAdmits, Store!runs_transition_guard, runs_transition_guard
    <2>3. Store!runs_one_running_per_step(q, new)
      BY <2>1 DEF Store!runs_one_running_per_step, rowStatus
    <2>4. new \in Store!StatusesOf(q)
      BY <1>2, <1>4 DEF Store!StatusesOf, Store!RunStatus, RunStatus
    <2> QED
      BY <2>2, <2>3, <2>4 DEF Store!CanUpdateStatus
  <1>7. startedRuns' = IF new = "running" THEN startedRuns \cup {q} ELSE startedRuns
    BY StartedStep DEF new
  <1>8. completedRuns' = IF new \in Store!TerminalRun THEN completedRuns \cup {q} ELSE completedRuns
    <2>1. status[q] \notin TerminalRun
      BY DEF Write
    <2>2. \A e \in Run : status'[e] = IF e = q THEN new ELSE status[e]
      BY <1>1, <1>4 DEF TypeOK
    <2> QED
      BY <2>1, <2>2 DEF completedRuns, Store!TerminalRun, TerminalRun
  <1>9. Store!InsertEvent(q)
    <2>1. /\ rows' = rows \cup {Store!NewRow(q)}
          /\ taskSequences' = [taskSequences EXCEPT ![TheTask] = @ + 1]
          /\ runSequences' = [runSequences EXCEPT ![q] = @ + 1]
          /\ Store!UniqueRow(Store!NewRow(q))
      BY RowsStep
    <2>2. Store!TaskFor(q) = TheTask
      BY <1>2, RunAssumption DEF Store!TaskFor, RunAssumption
    <2>3. Cardinality(rows) < MaxEvents + 2 * Cardinality(Run)
      <3>1. Len(log') <= MaxEvents + 2 * Cardinality(Run)
        BY DEF LogIsBounded
      <3>2. Len(log') = Len(log) + 1 /\ Len(log) \in Nat
        BY <1>1, EventsStep
      <3>3. MaxEvents \in Nat /\ Cardinality(Run) \in Nat
        BY RunAssumption, RowsAssumption, FS_CardinalityType DEF RunAssumption, RowsAssumption
      <3> QED
        BY <1>1, <3>1, <3>2, <3>3, RowsAreCounted
    <2>4. [taskSequences EXCEPT ![TheTask] = @ + 1]
            = [taskSequences EXCEPT ![Store!TaskFor(q)] = @ + 1]
      BY <2>2
    <2>5. taskSequences' = [taskSequences EXCEPT ![Store!TaskFor(q)] = @ + 1]
      BY <2>1, <2>4
    <2>6. runSequences' = IF q \in Run THEN [runSequences EXCEPT ![q] = @ + 1] ELSE runSequences
      BY <2>1
    <2>7. rows' = rows \cup {Store!NewRow(q)} /\ Store!UniqueRow(Store!NewRow(q))
      BY <2>1
    <2>8. Store!Cardinality(rows) = Cardinality(rows)
      BY DEF Store!Cardinality, Cardinality
    <2> QED
      BY <2>3, <2>5, <2>6, <2>7, <2>8 DEF Store!InsertEvent
  <1>10. rowStatus[q] # "absent"
    BY <1>1, <1>3 DEF RunStatus
  <1> QED
    BY <1>4, <1>5, <1>6, <1>7, <1>8, <1>9, <1>10 DEF Store!persistProviderRunEvent, new

LEMMA SessionIsAStoreStep ==
  ASSUME NEW r \in Run, TakeSession(r)
  PROVE  Store!persistRunSession("server", r)
  <1>1. /\ status[r] \in Running /\ session' = session \cup {r}
        /\ status' = status /\ log' = log
    BY DEF TakeSession
  <1>2. rowStatus[r] = status[r]
    BY DEF rowStatus
  <1>3. UNCHANGED <<rowStatus, startedRuns, completedRuns, taskSequences, runSequences, rows>>
    BY <1>1 DEF rowStatus, startedRuns, completedRuns, taskSequences, runSequences, rows,
                RowOf, EventsOf
  <1> QED
    BY <1>1, <1>2, <1>3 DEF Store!persistRunSession, Running

\* Whatever else a step does, the session is written by TakeSession alone.
LEMMA SessionStep ==
  ASSUME [Next]_vars
  PROVE  session' = session \/ \E r \in Ours : TakeSession(r)
  <1>1. ASSUME NEW r \in Run, NEW type, persist(r, type) PROVE session' = session
    BY <1>1 DEF persist
  <1>2. ASSUME NEW r \in Ours, Execute(r), ~TakeSession(r) PROVE session' = session
    BY <1>2
       DEF Execute, Reject, Start, Prepare, InspectionFailure, CannotSpawn, Spawn,
           PromptDelivered, PromptRejected, SessionFrame, OutputFrame, ProtocolError,
           StreamFailure, ResultFrame, Drop, TakeEvent, WriteRefused, WriteFails,
           StreamEnd, Verify, VerifyFails, Finish, Throw, Unfinished, persistFailure,
           persist, Fault, storeVars
  <1>3. ASSUME NEW r \in Ours, CancelRun(r) \/ ChildSteps(r) PROVE session' = session
    BY <1>3
       DEF CancelRun, CancelAtOnce, Cancel, CancelRejected, CancelFinishes, CancelFails,
           RecordCancellation, ChildSteps, TimerFires, ForceTimerFires, ChildExit,
           persist, Fault, storeVars
  <1>4. ASSUME NEW r \in Run, Elsewhere(r) PROVE session' = session
    BY <1>4 DEF Elsewhere, persist
  <1> QED
    BY <1>2, <1>3, <1>4 DEF Next, vars, storeVars

LEMMA StoreStep ==
  ASSUME StoreInv, StoreInv', LogIsBounded', [Next]_vars
  PROVE  [Store!Next]_(Store!vars)
  <1>1. TypeOK /\ GeneratorInv
    BY DEF StoreInv, IInv
  <1>2. CASE session' = session /\ UNCHANGED <<status, log>>
    BY <1>2 DEF Store!vars, rowStatus, startedRuns, completedRuns, taskSequences,
                runSequences, rows, RowOf, EventsOf
  <1>3. ASSUME session' = session, NEW q \in Run, NEW type \in EventType, Write(q, type)
        PROVE  Store!Next
    <2>1. Store!persistProviderRunEvent("server", q, statusFor(type, status[q]), FALSE)
      BY <1>3, WriteIsAStoreStep
    <2>2. statusFor(type, status[q]) \in Store!RunStatus
      BY <1>1, <1>3 DEF Store!RunStatus, TypeOK, statusFor, EventType, RunStatus
    <2> QED
      BY <2>1, <2>2 DEF Store!Next
  <1>4. ASSUME NEW r \in Ours, TakeSession(r)
        PROVE  Store!Next
    <2>1. r \in Run
      BY RunAssumption DEF RunAssumption
    <2>2. Store!persistRunSession("server", r)
      BY <1>4, <2>1, SessionIsAStoreStep
    <2> QED
      BY <2>1, <2>2 DEF Store!Next
  <1> QED
    BY <1>1, <1>2, <1>3, <1>4, EveryWrite, SessionStep

\* Every step of the service, of any of its runs, is one operation of the
\* execution tables or leaves them alone: no write gets round the transition
\* trigger, the index or the counters (provider-run-service.ts:144-253,
\* execution-repository.ts:280-400).
THEOREM ServiceStepsAreStoreSteps == Spec => StoreSteps
<1>1. StoreInv /\ (StoreInv /\ LogIsBounded)' /\ [Next]_vars => [Store!Next]_(Store!vars)
  BY StoreStep
<1> QED
  BY <1>1, StoreIsBounded, PTL DEF Spec, StoreSteps
=============================================================================
