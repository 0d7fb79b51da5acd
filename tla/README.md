# Orion Console in TLA+

A verification development for the server of Orion Console: a local, single-user
web console (TypeScript, Fastify, `node:sqlite`) that records tasks, plans and
runs in `orion.db`, executes runs by starting the Codex or Claude command-line
program as a child process, and shows their progress over Server-Sent Events.
Paths below are relative to the repository, with `server/` for `apps/server/src/`.

## The system

| Component | State | Operations | Interacts with |
|---|---|---|---|
| Lifecycles (`packages/orchestration`, `migrations/0001_core.sql`) | none | transition tables; SQL triggers | consulted by the repository, enforced by SQLite |
| Execution store (`server/repositories/execution-repository.ts`) | `tasks`, `task_plans`, `task_steps`, `runs`, `events`, two sequence tables | create rows, `transitionWithEvent`, `appendRunEvent`, `persistProviderRunEvent`, `persistRunSession`, reads | every process on the file |
| Provider run service (`server/provider-run-service.ts`) | `active`, `cancelled`, results | `execute` (start, resume), `cancel` | adapter (async generator), store, broker |
| Adapter and child ownership (`server/providers/adapter.ts`, `child-process-ownership.ts`, `provider-process.ts`, `incremental-line-parser.ts`) | handle per run, ownership records, two timers, parser | `execute`, `cancel`, stop, verify | operating system |
| Frame normalization and the two adapters (`server/providers/provider-frame-normalization.ts`, `codex-adapter.ts`, `claude-adapter.ts`) | buffer, identities seen, counters of the parser | `push`, `finish`, mapping of a frame | the child's output; `scripts/provider-smoke.ts` reads the same frames by code of its own |
| Task event stream (`server/task-event-sse.ts`) | broker listeners; per connection `lastSequence`, `blocked`, queue | subscribe, replay, publish, drain, heartbeat, reset | store (replay), browser |
| Idempotency (`server/idempotency.ts`, `repositories/idempotency-repository.ts`) | `idempotency_records` | `execute`, `executeAtomic` | every mutating route |
| Arca registry and archive approvals (`server/repositories/arca-registry-repository.ts`, `arca-archive-approval-consumer.ts`) | source cards, requests, audit, approvals | register, search, request, resolve, transition, archive | routes; every process on the file |
| Projects and policy confirmations (`server/project-*.ts`, `repositories/project-repository.ts`, `provider-policy-confirmation-repository.ts`) | projects, single-use confirmations | register, update, unregister, confirm | idempotency, git, tasks, worktrees, policy services |
| Provider health (`server/provider-health-service.ts`) | last health collection | refresh, list | adapters |
| Provider smoke gate (`scripts/provider-authorization-ledger.ts`, `provider-smoke.ts`) | write-once files; per run a timer, counts, evidence | grant, claim, reserve, mark, spawn, compare, envelope | providers, temporary repositories |
| Development coordinator (`scripts/coordinator.ts`) | two child processes | start, wait for readiness, stop | operating system |
| Sessions, startup, ports, migrations, runtime metadata (`server/session.ts`, `main.ts`, `port.ts`, `migrations.ts`, `runtime.ts`) | token, sessions, schema, file | bootstrap, bind, migrate | operating system |
| Pure or static: contracts, agent catalog, frame normalization, redaction, path policy, git runner, web shell | | | |

What is hard about it: JavaScript callbacks of a run (output, exit, timers, the
descendant query, `cancel`) come in any order between awaits; two servers may
have one database open (a second server takes the next port); a transition is
checked before its transaction begins; an error in the middle of a generator
leaves a child process behind or does not; a slow browser fills a socket; a
request is retried while, or after, its first attempt works, fails or is cut
off; a smoke run may crash between two files that are written once for ever; an
approval or a confirmation is given for a version of a row that others go on
changing; output arrives in chunks cut anywhere. `PROJECT.json` lists these
hazards at their lines, with the properties that cover them.

As the repository stands, `ProviderRunService` and the `create*`,
`transitionWithEvent` and `appendRunEvent` operations are called by tests only;
they are modelled with the callers their contracts allow. The same holds of the
registry's operations and of the writers of tasks and worktrees in `Projects`.

## Modules

| Module | Models |
|---|---|
| `StateMachines` | the three transition tables and, separately, the three triggers |
| `ExecutionStore` | the execution tables and the operations of `ExecutionRepository`, by any number of processes |
| `EventLogs` | what the events table promises, abstractly: append-only logs |
| `ExecutionStore_proofs` | the theorems of the store; it implements `EventLogs` |
| `ProviderRun`, `ProviderRun_proofs` | one server's provider runs: service, adapter, ownership, timers, child; refines `ExecutionStore`; its theorems |
| `TaskEventFeed` | what the event stream promises, abstractly |
| `TaskEventStream`, `TaskEventStream_proofs` | broker, connection, queue and browser; implements `TaskEventFeed`; its theorems |
| `IdempotentCalls` | what idempotent mutations promise, abstractly |
| `Idempotency`, `Idempotency_proofs` | reservations and responses of retried requests; implements `IdempotentCalls`; its theorems |
| `ProviderFrames` | what a line of Codex or Claude output means, to the adapter and to the smoke gate |
| `LineParser` | the incremental parser: bytes, chunks, lines, duplicates, limits |
| `OutputReading`, `LineParser_proofs` | what the same bytes say when read at once, and that parser and smoke gate agree with it; the parser's theorems |
| `ProviderFixtures` | the scripted provider children and what each fixture expects |
| `OneTimeAuthorization` | what one authorization of the smoke gate promises, abstractly |
| `AuthorizationLedger` | the write-once files and the issuers of the grant |
| `ProviderSmoke`, `ProviderSmoke_proofs` | the runs of the smoke gate over the ledger; implements `OneTimeAuthorization`; the theorems of both |
| `SingleUse` | what a permission that is given once and may be used once promises, abstractly |
| `SourceRegistry`, `SourceRegistry_proofs` | Arca's cards, requests, audit log and archive approvals; implements `SingleUse`; its theorems |
| `Projects`, `Projects_proofs` | projects, confirmations, the two policy services, with tasks and worktrees around them; implements `SingleUse`; its theorems |
| `MC*` | small instances for TLC |

### ExecutionStore

`status` is the status column of every row, `absent` before the insert;
`completed`, `started` and `session` are the rows whose nullable columns are set;
`events` is the event table and `nextTask`, `nextRun` the counters of
`allocateSequence`. Everything in a `BEGIN IMMEDIATE` transaction is one action.
`transitionWithEvent` is two: the check on a status read outside
(`BeginTransition`, remembered in `pending`), and the transaction
(`CommitTransition`) or its failure (`AbortTransition`). The operations check
what the code checks and no more: `persistProviderRunEvent` ignores the result of
its own transition check, so there only the trigger refuses. Columns without
control (titles, payloads, timestamps' values) are left out. `createRun` inserts the
session and the start time its caller gives, whatever the status: the schema of a run
ties neither to it, so a run that is `starting` may have a start time, and no property
speaks of start times.

`EventLogs` has no rows, counters or transactions: a log of subjects for each task and
one of places in it for each run, to which a commit appends. `Logs` reads the logs off
the rows by their numbers (`SubjectAt`, `PlaceAt`), whatever order they were inserted in.

### ProviderRun

`pc` follows the generator: `preparing` (inspect), `spawning`, `prompting`
(`writeStdin`), `reading`, `verifying` (descendant query), `closing`. `inbox` holds
the events the generator has ready; the service takes one at a time. `child`,
`stopping`, `mark` and `timer` are the ownership record and its timers,
`cancelling` the call of `cancel` and the membership of `cancelled`, `log` and
`status` what has been written. A write may be refused by the trigger or the
index (`Writable`), or fail for the database's own reasons (`Fault`). Runs outside
`Ours` are executed by another process and only write. Assumptions: a run is
started or resumed once; its row is `starting` when it begins; `stalled` is
written by no code; the parser is represented by the verdicts it reaches; a
child's output is a nondeterministic sequence of session, other and result
frames. The order of microtasks is over-approximated: any two enabled callbacks
may come in either order.

`Store` instantiates `ExecutionStore` with this state (the log as rows, counters
as lengths), and `StoreSteps` says every step is one of its operations or none.

### TaskEventStream

The route handler runs without an await from subscription to going live, so
`Connect` is one action, and the queueing before going live that the code
provides for cannot happen. Any write may report a full socket, and `drain` may
come at any time after: more than a socket does. `received` is the sequence of what
the browser has been handed, over all its connections. The byte limit of the queue is
a refusal at any length. Events of `transitionWithEvent`, `appendRunEvent` and of
other processes are committed and never published here (`unpublished`). `dropped`
is a history variable: what `flushQueue` took from the queue and did not write.
The browser's `EventSource` (`Deliver`, and the cursor) is external.

`TaskEventFeed` has no connections: a step receives one event, newer than every
event received before, and passes only over declared losses. `ImplementsFeed` is
the refinement, with `lost` the dropped and the unpublished events.

### Idempotency

A record's key stands for scope, operation and `Idempotency-Key`. `reserve` is one
transaction that purges every expired record first (and rolls that back with a
conflict). `complete` and `discard` act on whatever record is in progress under
the key, as their SQL does. A handler that rejects is taken to have had no effect: what
it does before it rejects is its own affair. `executeAtomic` is `Mutate`, one transaction;
`execute` is `Work` then `Complete`. Each request has a process of its own, which
may crash. `done` is a history variable: the requests whose work is in effect.

`IdempotentCalls` knows neither records nor waiting: work and response are steps of a
request, one step under an atomic key, and a key may be forgotten. `Calls` takes the
records as its responses, `renewed` as the forgotten keys, and a refused statement as
its declared fault.

### ProviderFrames, LineParser, OutputReading, ProviderFixtures

A wire frame is its type, subtype, identity and what its body carries;
`normalizeCodexFrame` and `normalizeClaudeFrame` classify it (recognized, unknown,
invalid), and the adapters turn the classification into events while
`inspectProviderFrame` of the smoke gate counts them. `LineParser` reads bytes: one
`Push` brings a chunk, `ConsumeLine` takes one line of it and `EndPush` checks what is
left; `Finish` and `EndFinish` end the reading. A byte is a symbol, a line a frame's
name with its closing brace, a character of two bytes stands for what
`StringDecoder` is for. `classifyTerminal`
is the adapter's verdict (no fixture breaks off its stream, so `streamFailure` is false
there; `ProviderRun` has it). Contents of items and their redaction are left out.

The reference, `OutputReading`, reads the delivered bytes at once: it cuts the text at
newlines, names a line by the place where it ends, gives every line its meaning, and
says by set comprehensions which lines are accepted, which is fatal, and what is
left. It has no buffer and no counters. `SmokeReads` is the gate's way of cutting the
same text.

### AuthorizationLedger and ProviderSmoke

`grantFile` is `grant.json`: absent, torn (made and not yet written, or half
written), or whole. `files` are the claim and the markers, each made by an exclusive
open, which one process wins. An issuer looks, creates, writes, and on a collision
reads what stands (`issuers`). `OneTimeAuthorization` promises that the terms are
fixed once, and that each provider is launched once under them.

A runner of `ProviderSmoke` is one `provider-smoke run`; `pc` follows `runSmoke`. It
reads the grant, claims the run, reserves a slot per provider, makes its repository,
and for each provider probes, compares the build with the grant's, writes the spawn
marker, spawns, prompts, reads under one timer, and compares the repository. Every
file operation may fail, a crash may come between any two steps and leaves the
children alive. `evidence` is what the envelope will say. `timedOut` says of each
provider whether its timer fired before its invocation ended. A child may write to the
repository, and exits as it likes (`Reports`). The refinement maps a launch to the
runner and the grant it holds.

### SourceRegistry

One action per operation; each is an immediate transaction and a refused one is no
step, except `createRequest`, whose two statements are two actions
(`createRequest`, then `auditRequest` or `loseAudit`), so a request may stay unaudited. `fts` is the
status column that the search index keeps of its own, `auditLog` counts records by
kind, source and request. A caller names the version it has read, however old.
Approvals carry the version and the card they were given for, and an approved one may
be inserted with its `consumedAt` set, as the schema allows: `insertedConsumed`, a
history field, remembers which were, `Spent` leaves them out, and they back no
archiving. `transitionCard` may
archive a card without any, as the code allows; that is another record in the log
than an archiving with an approval.

### SingleUse

A token is given for a purpose until some time, and is spent at most once, before
that time, in the step that does what it permits; `done` counts what was done, and
nothing else does it. `SourceRegistry!Permission` takes the approvals inserted as
approved and not consumed as the granted tokens, a version of a card as the purpose, and the archivings of the audit log as
`done`; `Projects!Permission` the confirmations, a session with a project key, and the
changes to a policy with Fable. A confirmation for an update names a project and not a
key: `KeyOf` finds the key, which stays the project's for ever.

### Projects

A registration is three actions: the first snapshot and the policy (`register`), the
second snapshot (`prepare`), and the third snapshot with all writes (`persist`); it
holds the write lock throughout, so nothing but the repository (`editRepository`) and
the clock moves. It may be rolled back at any point. The contents of a repository are
abstracted to whether it looks as in the first snapshot. `consume` is the `WHERE`
clause of the single-use confirmation. Registration and update are modelled as the
routes call them, inside an immediate transaction; their default without one, which
no route uses, reads outside the transaction and is not modelled. Both lists of Arca's
candidates are there: `arcaCandidates` of `project-policy.ts` and
`transferCandidates`, the list `provider-transfer-policy.ts` has of its own. `bounds` of a task, what its project allowed
when it was created, and `fableChanges` are history variables. Tasks are created and
moved by the transition table, from any status; `git_worktrees` has no writer in the repository yet: a
worktree is taken to be made for a running task and kept or released at any time
(external). One tick of the clock is the five minutes a confirmation lives.

## Runs

| Run | Shows | Bounds |
|---|---|---|
| `store` | both numberings, the append-only log, one running run per step, completion timestamps, final terminal statuses, with two processes and stale pre-checks | two runs of a step, two processes, 2 events; states that differ in `session` alone are one (`VIEW`): no guard and no property but the types reads it |
| `run` | what the row and the log say of a run under cancellation, deadline, errors and failing writes; what alone leaves it open, or its child at work; every write is a store operation; reading ends, `cancel` settles, a stopped child dies | a run beside one of another process, 2 output events, 2 failing writes |
| `stream` | order, losses only where accounted for, arrival, the refinement | 5 events, queue of 2, 2 closes |
| `idempotent` | once per key, one answer per key, no leaked reservation, every request settles; the refinement | 3 requests of a key by `execute` (two bodies), 2 of a key by `executeAtomic`; 1 expiry, 1 fault |
| `frames` | the parser reads, in chunks, what the bytes say at once, in bounded memory; every fixture ends as it expects; gate and adapter agree | every fixture of both providers; every stream of up to 3 lines over 14 kinds, up to 6 over 3 kinds; chunks of 1, 3, 5 bytes; lines of 4, buffer of 8, 5 identities |
| `ledger` | one grant stands, and whoever succeeds is told it | 3 issuers, 2 policies, an ill-formed model, an upgrade |
| `smoke` | one recorded launch per provider under one grant; nothing after a changed repository; a pass is earned; an envelope in the end | 1 issuer, 2 runners, 2 providers, an upgrade |
| `registry` | index, lineage, versions against the audit log, approvals, some inserted as consumed, spent once, cards that only move on; the refinement | 3 cards of 2 projects, 1 request, 2 approvals; 4 changes in all (`MaxChanges`), versions up to 3, 1 denied lookup, 1 tick |
| `projects` | one registration per key, confirmations spent one for one, tasks within their bounds, where the policy services agree and where not | 2 projects that want one path, 2 sessions, 2 confirmations, a task, a worktree; 5 changes and rows in all, 1 tick |

Several properties are conjunctions of named parts, one per question:

| Property | Says |
|---|---|
| `StoreConsistent` | types, the two dense numberings, and their agreement |
| `RunConsistent` | types, nothing after the terminal event, the status is the log's |
| `StatusesAreAPath` | every change of a row is an arc of its table; none leaves a terminal status |
| `VerdictsAreEarned` | a success and a timeout were; a child left at work was left by a refusal of the index |
| `OpenRunsAreExplained` | a `cancel` that returns ends the run; a run left open waits for `cancel`, or had it refused |
| `EveryWaitEnds` | reading ends, `cancel` settles, a stopped child dies |
| `StreamConsistent` | types, the pipeline is ordered, so is what is received |
| `LossesAreKnown` | nothing is lost but what was dropped or unpublished |
| `RecordsConsistent`, `WorkIsOnce` | types and no leaked reservation; once per key, atomic or not |
| `ResponsesAreKept` | a response stands until it expires; `IdempotentCalls` is implemented |
| `ParserConsistent` | types, and buffer and identities within their limits |
| `SmokeConsistent` | types, a launch is recorded, counts never understate |
| `RegistryConsistent`, `AuditTellsTheHistory` | types and index; versions and requests follow from the log |
| `NothingIsTakenBack` | cards only move on; `SingleUse` is implemented |

The bounds suffice for the cases that differ. Two events of two runs give every
order of two insertions by either numbering, and the theorems of
`ExecutionStore_proofs` cover longer logs; two attempts of a step are the least
that the index is about; one process pre-checks while the other writes, and a
third would do the same. In `ProviderRun` each kind of frame may come again and
everything after the terminal event is dropped, so longer output repeats states;
a second failing write is needed where the first one already ended the run and
`cancel` writes after it. Five events with a queue of two let a queue fill, be
flushed in part, and a later event pass over the rest, then a reconnection
replay. Two requests of one body and one of another, each of which may also play
the retry, are what a replay, a conflict and a takeover need. Six lines are one more
than the rule of five invalid frames, a chunk of five bytes spans two lines, and the
limits are small enough that every one of them is met. Three issuers let one write,
one collide, and one look at the torn file between; two runners let one claim and the
other be refused at every later step. Three cards allow a fork and a chain of
supersessions, four changes an approval that meets another version. Two projects
are what the unique indexes and a confirmation made for another project need. What
the constraints `FewChanges` cut off, longer histories, the theorems cover.
All runs set `CHECK_DEADLOCK FALSE`: every model stops when its bounds are spent
or its runs are over.

### Disagreements with the documents

Each of these is a run with one property that TLC refutes (`findings` has the
lines):

- `run_cancel_stuck`: cancelling just after the exit rejects, and the run stays open.
  `OpenRunsAreExplained` says that nothing but a refused cancellation does this.
- `run_orphan`: a refused write leaves a live child that nothing will stop.
  `OrphansAreExplained` says that it takes a second attempt of the step.
- `stream_missed`: a flush that blocks again throws away the rest of the queue.

Others were read in the code while modelling and have no run; unless said
otherwise they are part of the models' behaviour. `TS` is
`docs/orion/orion-console-technical-specification.md`, `contract` is
`docs/orion/orion-console-api-event-adapter-contract.md`.

- Cancelling before the child is registered records `cancelled`, and the child is
  spawned and works (`provider-run-service.ts:84`, TS:1072).
- `transitionWithEvent` ends a run without a completion time
  (`execution-repository.ts:163`); a timeout before the first frame is recorded as
  `failed`, since no table has an arc from `starting` to `timed_out`
  (`state-machines.ts:41`); one while the prompt is written as `spawn_failed`
  (smoke gate); the deadline is armed only after the prompt (`adapter.ts:363`).
- A waiting request never compares its body with the one whose response it gets
  (`idempotency.ts:108`, TS:412); a response that cannot be recorded after the work
  lets a retry repeat the work (`idempotency.ts:44`).
- `transitionCard` archives without an approval
  (`arca-registry-repository.ts:305`, against LC-004, TS:775), and the record of a
  lookup it denies is rolled back with it; `createRequest` may leave a request
  without a record (`:160`).
- A classification may be raised, and a provider policy widened to Fable, while tasks
  of the project are active (`project-policy.ts:74`; contract:148 and section
  5.1 of `orion-console-security-permission-model.md` want neither).
- `ProviderTransferPolicy.arcaCandidates` does not look at whether a profile is valid,
  and lists models where `ProjectPolicyService` lists none
  (`provider-transfer-policy.ts:72`, `project-policy.ts:136`); `PolicyServicesAgree`
  says that nothing else separates them.
- `assertAllowed` lets data that is not confidential go to a provider the project's
  policy disables (`provider-transfer-policy.ts:48`).
- A final result that violates its schema ends as `OUTPUT_SCHEMA_INVALID`, not
  `ADAPTER_PROTOCOL_ERROR` (contract:342); the fixtures `unsupported` and
  `unauthenticated` expect answers of the inspection that `adapter.ts:266` does not
  give (not modelled: inspection).

### Fairness

`ProviderRun!Fairness`: a callback that is due runs; probes, `spawn` and the
descendant query answer (the query is given 10 s); timers fire; `taskkill /T /F`
ends a process. Nothing obliges a child to read, write or exit by itself, so the
liveness properties rest on the deadline and the force timer. `EveryWaitEnds` begins
with the reading: before the prompt is delivered no deadline is armed, and the child of
a run that was cancelled before its spawn is stopped by the deadline alone, if by any.
`TaskEventStream!Fairness`: a disconnected browser reconnects, reads what arrives,
sees the end of a reply, and a socket that is read drains. `Idempotency!FairSpec`:
a handler settles and a timer fires; a process may crash at any time.
`ProviderSmoke!SmokeSpec`: a runner that can go on does, its timer fires, and a child
whose tree was terminated exits; a provider owes nothing, so that the envelope comes
back (`EnvelopeReturned`) rests on the timer. The registry, projects and the ledger
have no fairness: every mutation is a caller's choice.

## Proofs

`ExecutionStore_proofs` proves for all sets of tasks, steps, runs and processes,
from `StoreAssumption` alone:

- `TypeCorrect`: the type invariant.
- `StoreIsConsistent`, from `LogCorrect`, with `TaskLogDense`, `RunLogDense`, `NumberingsAlwaysAgree`: the
  inductive invariant is the conjunction of both densities, the agreement of the
  two numberings and that an event belongs to its subject's task. Agreement needs
  the density: a new row is above every old one by either counter only because
  every old one is below the counter. All operations but one leave the log alone
  or insert one row, so the proof is one lemma on `InsertEvent` and one case per action.
- `HighWaterIsStable` from the same invariant.
- `TerminalStatusIsFinal`: no table and no trigger leads out of a terminal status,
  and every write of a status passes a trigger (`TerminalSticks`).
- `AtMostOneRunningPerStep`: by the index, for every operation that writes a status.
- `CompletionsAreTrue`: a completion time is written with a terminal status, and no
  trigger leads back out of one.
- `StatusesAlwaysFollowTables`: the code consults the tables before some writes and
  SQLite the triggers before all, and `persistProviderRunEvent` ignores what the table
  says; a trigger lets nothing else through (`TriggerIsTable`), so every change of any
  row, by any process, is an arc of its table.
- `TableImplementsLogs`: a row that is inserted is the next entry of both its logs.
  Density says that its numbers are the next ones, and agreement that no earlier entry
  changes (`NumberFindsOne`, `InsertAppends`); every other operation is a stutter.
- `TablesMatchTriggers`: what a transition table allows the trigger lets through, and
  the other way round, for every two different statuses.

`Idempotency_proofs` proves, for all requests, keys and bodies:

- `TypeCorrect`, with the agreement of the columns of a row.
- `AtomicOnce`: the records and `done` change together in `Mutate` and in the
  purge, so for an atomic key what is done is what is recorded, whatever other
  requests do.
- `RecordedResponsesStand`, the action property.
- `CallsAreImplemented`: a completion maps to a report because a request that completes
  has worked and holds its key's record, unless the key was forgotten; a purge maps to
  forgetting, and a crash, a wait and a reservation to stutters. An answer after a wait is
  the response on record (`AnsweredHaveAnswers`). `ResponsesAreAlwaysKept` joins the two.
- `AnswersAlwaysAgree`, from `Agreement`: a request at work owns its key's record, no
  two of a key are at work, a response is that of finished work, and an answer is the
  recorded response. Keys `renewed` by an expiry under a working request are exempt.
- `OncePerKey`, from `Once`: what is in effect under a key was done by the request at
  work, by the one recorded, or by one cut off, and there is one of these.
- `ReservationsAreHeld`: a record in progress has a `Holder`. With the type
  invariant it is `RecordsAreConsistent`; both forms of once are `WorkIsDoneOnce`.

`TaskEventStream_proofs` proves, for any number of events and any queue limit:

- `TypeCorrect`, and `InvariantHolds`: `IInv` has two halves. One is order: what
  is queued is newer than what is in flight, which is newer than what was
  received, and `lastSequence` is the newest of all. The other is an account: every
  event of the log up to `lastSequence` was received, is in flight or queued, or
  is a known loss. `PipelineIsOrdered` alone is not inductive, because a
  reconnection starts from the cursor and a replay is ordered only because the
  log is; and the account needs the order to know that a delivery passes over
  nothing that is still on its way.
- `PipelineStaysOrdered`, `ClientReceivesInOrder`, `NoUnknownLoss` and
  `NothingElseIsLost` are consequences of it, and `StreamIsConsistent` and
  `EveryLossIsKnown` put them together.
- `StreamImplementsFeed`: a delivery maps to the feed's step because the account
  says that what it passes over is lost; a commit maps to a commit, a flush that
  drops to a declared loss, and every other action to a stutter.

`ProviderRun_proofs` proves, for any runs, any of them executed here:

- `TypeCorrect`, and `InvariantHolds`. `IInv` says of each run (`Local`) what its
  generator may have ready, that a success or a timeout is `Deserved` (the
  generator reads no more, the child is gone, and the marks agree), and that a run
  with a terminal status is `TerminalIsQuiet`: left, drained or cancelled. None of
  the listed properties is inductive alone: that a success is earned when written
  has to be known when the verdict is put into the inbox, and stays true because
  no callback changes the verdict of a child that is gone (`VerdictStands`); that
  nothing follows a terminal event needs that what could write it is quiet.
- The argument then has two halves: an action concerns one run (`Frame`), and what
  it writes, if anything, is a `Write`: an event for a run that is not over, which
  is deserved, and is the cancellation if one was accepted.
- `ServiceStepsAreStoreSteps`: every step is one operation of `ExecutionStore` or
  none of them. It assumes `RowsAssumption` besides: the task, the steps and the runs
  are different rows, and there are finitely many runs. The store's counters are
  cardinalities of `rows`, which `RowsOfLog` ties to the log's length. The store
  caps its rows; `RoomInv` counts two events at most that a run may still write
  above `MaxEvents`, so the cap is never what stops a step. Then every
  event is a `persistProviderRunEvent` of the store and a session a `persistRunSession`,
  and what the trigger and the index require of the store's action is what `Writable`
  requires here.
- `OpenRunsAreAlwaysExplained` and `OrphansHaveRivals` bound the two disagreements
  that the runs `run_cancel_stuck` and `run_orphan` show. They need more of each run
  (`Ends`): the child exists from `spawn` on and is gone when the generator verifies it, a
  call of `cancel` waits for a child, and is refused for want of one. The trigger lets
  through whatever the generator has ready while it reads, so a refusal is the index's,
  so another attempt is running (`RefusalHasRival`), and the log has its start.
- `CancellationAlwaysWins`, `SuccessIsAlwaysEarned`, `TimeoutsFollowExits`,
  `TerminalEventIsLast`, `StatusFollowsTheLog`, `NoRunIsLeftOpen` are consequences;
  so are `RunIsConsistent` and `VerdictsAreAlwaysEarned`, which join them.

`LineParser_proofs` proves, for any frames, bytes, chunks and limits:

- `ParserInvariant`, and from it `ParserIsConsistent`: what the parser keeps is
  bounded. `ParserConsistent` is not inductive as it stands: that only an error ends
  the reading needs that nothing is consumed after one (`NoErrorYet`). The rest is
  `OneMore`: a line adds at most one identity and one session marker, and each only
  below the limit; a text is kept only if it fits.
- `ReadingInvariant`: while the reading goes on (`Told`), and when it has ended
  (`Settled`), the lines consumed so far, read at once, leave exactly the parser's
  state (`Account`: its identities, sessions, counts, events in their places, and
  result), and none of them is fatal. It needs to know where the parser stands: what
  is consumed, then the buffer, then the half character that the decoder holds back
  follow each other in the output. A line's meaning, and whether it is accepted or
  fatal, depend only on lines before it (`OneMoreLine`), so one line changes the
  account as it changes the parser (`LineAccounted`); and what is delivered later
  does not move the lines that have ended (`LinesAgree`).
- `ChunksNeverMatter`: at the end either all lines were consumed, or the last one
  broke the reading and is the first fatal line of the whole output (`FirstFatal`).
  The exception is the one that `SplitAtCR` states.
- `SmokeAlwaysAgrees` follows: in an output that nothing ends, what is a frame to the
  gate means the same to the parser, and what is not is never recognized (`ReadAlike`).

`ProviderSmoke_proofs` proves, for any providers, their order, runners, issuers,
builds and numbers of invocations:

- `GrantStandsForEver` and `GrantedAlwaysStands`, from `OneWriter`: whoever has the
  half-written `grant.json` open is alone in that, because the exclusive open lets one
  process in and a torn file never becomes absent again; so the file changes from
  torn to whole once, and an answer is read from it after that.
- `SmokeInvariant`: one runner has the claim (`OneClaim`), and of each runner: the
  grant it holds is the standing one, its slots and markers are in the ledger in
  the order of `PROVIDER_ORDER`, what it has recorded is what its children did, and
  its evidence follows from both. No listed property is inductive: that a launch is
  recorded needs to be known one step earlier, between marker and spawn, and that a
  pass is earned needs the evidence of every provider already passed.
- `SmokeIsConsistent`, `SecurityHaltHolds`, `PassIsAlwaysEarned` are consequences; a
  pass is earned in time because a success was classified while the timer had not
  fired, and the timer is cleared from then on.
- `SmokeImplementsOneTime`: writing the grant maps to `Issue`, `spawn` to `LaunchOnce`
  (the claim says that nobody else has launched, the position in the order that this
  provider has not been), and every other step to a stutter.

`SourceRegistry_proofs` proves, for any cards, requests, approvals, callers:

- `RegistryInvariant`, in two halves that share only the types: the shelf (index,
  lineage, version counts, no history before a card) and the desk (requests, their
  records, and the owners of pending ones), with the approvals between. They hold
  each other up: an approval finds its card unarchived by the log; the counting of
  the log needs that a card is superseded once; and that is the lineage.
- `RegistryIsConsistent`, `LineageNeverForks`, `AuditAlwaysTells`,
  `ApprovalsAreSpentOnce`, and the action property `CardsAlwaysMoveOn`.
- `ApprovalsAreUsedOnce`, the refinement (with the last, `NothingIsEverTakenBack`): `consume` maps to `Spend` and the insertion of an
  approved approval that is not consumed to `Grant`; one that is consumed already is
  granted nothing. The rest are stutters because no other operation
  writes an archiving into the log (`OnlyConsumed`), and because an archived card
  keeps its version (`ArchivedKept`), so that what was done for a version stays done.

`Projects_proofs` proves, for any projects, sessions, tasks and worktrees, and
finitely many confirmations:

- `ProjectsInvariant`. Two strengthenings carry it: `PolicyHolds` (the policy of every
  project, and of every registration under way, was checked), and `Addressed` with
  `Unchanged` (a confirmation is for a key or for an identifier, never both, and a
  project that is not registered has no changes).
- `FableIsAlwaysConfirmed`: confirmations are counted against changes by cardinality.
  `WarnedChanged` says that a change adds one element to one set: what was consumed
  before belongs to another project, which needs that no key is ever used again.
- `LiveTasksAlwaysKeepTheirBounds`, of classification, agents and commands, not of the
  provider policy: one guard stands in `update`, another in
  `unregister`, and both see the task because a terminal task stays terminal; a
  worktree is housed because its task was live. Series of updates follow by
  transitivity (`Narrowed`).
- `ProjectsAreConsistent`, and `PolicyServicesAlwaysAgree` from `PolicyHolds`: the two
  lists differ by the validity of the profile alone, and a controlled project has none.
- `ConfirmationsAreUsedOnce`, the refinement, with one more invariant, `Known` (a
  confirmation for an update is for a project that is there), or its key could change.
  Every step gives a project a policy, makes a confirmation or concerns neither
  (`WhatStepsDo`). The first is `Spend` if the policy has Fable (`GivingSpends`), and
  counts for one key only because one project has it (`EnabledGiven`); the second is
  `Grant`.

Two refinements are proved and not among the runs' properties, `TableImplementsLogs` and
`ConfirmationsAreUsedOnce`: TLC agrees with both on the runs' own instances, in about
four minutes for the store (too slow to keep there) and two for projects.

The assumptions are the named `ASSUME`s of the modules: the types of the
constants and of the maps between them, and what tells a missing value from a
value. Only model-checked: `FixturesHold`, which is about the recorded outputs, their
bytes and their expected events, one by one; and all liveness (`EveryWaitEnds`,
`EveryEventArrives`, `RequestsSettle`, `EnvelopeReturned`), which with `ENABLED` is
beyond the prover.

## Plan

1. Built: the modules above, with the abstract specifications `TaskEventFeed`,
   `EventLogs`, `IdempotentCalls`, `OneTimeAuthorization` and `SingleUse` and their
   refinements.
2. Next: `Projects` composed with `Idempotency`; the coordinator; sessions and provider
   health.

## Not modelled

- The coordinator (a development convenience), provider health (a cache with one
  assignment after one await), sessions and request security (one synchronous check
  and deletion per call, in memory), startup, port and migrations (sequential, run
  once), the agent catalog and the contracts (data and its validation), the git runner
  and path policy, the web shell. `PROJECT.json` gives the reason of each.
- Of the modelled components: the contents of prompts, items and payloads and their
  redaction; HTTP; argument building of the adapters; the containment of ledger paths
  and the advisory `.outcome.json` files, which nothing reads; what the fixtures say
  of the standard error and of spawning; what a search finds and its limit of 100
  rows; the guard of `registry-transfer.ts`, which changes nothing; path inspection
  and status reads of projects; the expiry of sessions.
- A crash of the server is not an action of `ProviderRun`: nothing at startup looks at
  old runs (the specification wants `interrupted`), so there is no recovery to check.
