---------------------------- MODULE ProviderSmoke ----------------------------
(***************************************************************************)
(* The opt-in smoke of the real providers (scripts/provider-smoke.ts).     *)
(* Runners are processes of "provider-smoke run", all under one            *)
(* authorization id and one ledger.  Each reads the grant, claims the run, *)
(* reserves a slot for every provider, prepares a throw-away repository,   *)
(* and then, provider by provider, probes the executable, records the      *)
(* attempt, spawns it and compares the repository with its baseline.  A    *)
(* runner may crash between any two steps; its children live on.           *)
(***************************************************************************)
EXTENDS AuthorizationLedger, Sequences

CONSTANTS
  Runners,
  PROVIDER_ORDER,      \* the order in which a runner visits the providers
  RunnerEnvironments,  \* [models, policy] of the runs, None for unset
  Reports              \* [exit, strict]: how a child may end, and whether it gave
                       \* a strict result that no failure frame contradicts

ASSUME SmokeAssumption ==
  /\ PROVIDER_ORDER \in Seq(SmokeProviderKey)
  /\ \A p \in SmokeProviderKey :
       \E k \in 1 .. Len(PROVIDER_ORDER) : PROVIDER_ORDER[k] = p
  /\ \A j, k \in 1 .. Len(PROVIDER_ORDER) :
       PROVIDER_ORDER[j] = PROVIDER_ORDER[k] => j = k
  /\ RunnerEnvironments \subseteq
       [models : [SmokeProviderKey -> Models \cup {None}], policy : Policies]
  /\ Reports \subseteq [exit : {"zero", "nonzero", "signal"}, strict : BOOLEAN]
  /\ None \notin Reports /\ None # 0
  /\ SmokeProviderKey # {}

VARIABLES
  pc,         \* where each runner stands
  held,       \* the grant it read
  turn,       \* its place in PROVIDER_ORDER
  slot,       \* provider -> the ordinal it reserved, 0 for none
  attempted,  \* provider -> this run recorded a spawn attempt
  probed,     \* provider -> the build its last probe saw
  timedOut,   \* provider -> the timer of its invocation has fired
  invoked,    \* the [stage, exit] of the invocation that has just ended
  halted,     \* a provider changed the repository
  dirs,       \* temporary directories it made and tracks
  evidence,   \* provider -> what the envelope says of it
  exitCode,   \* of the command line, None while it runs
  child,      \* provider -> its process
  report,     \* provider -> what the process said and how it ended
  changed     \* the runner's repository differs from its baseline

runVars == <<pc, held, turn, slot, attempted, probed, timedOut, invoked, halted,
             dirs, evidence, exitCode, child, report, changed>>
vars == <<ledgerVars, runVars>>

PerProvider(x) == [p \in SmokeProviderKey |-> x]

SmokeInit ==
  /\ LedgerInit
  /\ pc = [r \in Runners |-> "idle"]
  /\ held = [r \in Runners |-> None]
  /\ turn = [r \in Runners |-> 1]
  /\ slot = [r \in Runners |-> PerProvider(0)]
  /\ attempted = [r \in Runners |-> PerProvider(FALSE)]
  /\ probed = [r \in Runners |-> PerProvider(None)]
  /\ timedOut = [r \in Runners |-> PerProvider(FALSE)]
  /\ invoked = [r \in Runners |-> None]
  /\ halted = [r \in Runners |-> FALSE]
  /\ dirs = [r \in Runners |-> {}]
  /\ evidence = [r \in Runners |-> PerProvider(None)]
  /\ exitCode = [r \in Runners |-> None]
  /\ child = [r \in Runners |-> PerProvider("none")]
  /\ report = [r \in Runners |-> PerProvider(None)]
  /\ changed = [r \in Runners |-> FALSE]

-----------------------------------------------------------------------------
(* What an envelope says.                                                  *)

AtLeast(m, n) == IF m >= n THEN m ELSE n
One(b) == IF b THEN 1 ELSE 0

(* The larger of what the ledger shows and what this run remembers.        *)
\* Mutant: the run's own memory does not raise the counts.
counts_ledgerOnly(u, r, p) == u
counts(u, r, p) ==
  [reserved |-> AtLeast(u.reserved, One(slot[r][p] # 0)),
   spawnAttempts |-> AtLeast(u.spawnAttempts, One(attempted[r][p]))]

NoUsage == [reserved |-> 0, spawnAttempts |-> 0]

(* safeUsage: a directory that cannot be read counts nothing.              *)
safeUsage(p, readable) == IF readable THEN usage(p) ELSE NoUsage

Stages == {"authorization_missing", "grant_missing", "grant_corrupt", "ledger_unsafe",
           "policy_binding_mismatch", "model_binding_conflict", "run_claim_denied",
           "authorization_exhausted", "preflight_unavailable",
           "executable_binding_mismatch", "security_halt", "invocation_reserved",
           "invocation_spawned", "invocation_completed"}
Exits == {"succeeded", "nonzero_exit", "signal", "timed_out", "spawn_failed",
          "result_schema_invalid", "repository_changed"}
Usage == [reserved : Nat, spawnAttempts : Nat]
Said == [stage : Stages, counts : Usage, exit : Exits \cup {None}, strict : BOOLEAN,
         unchanged : BOOLEAN]

ASSUME SaidAssumption == None \notin Said

Evidence(stage, c, exit, strict, unchanged) ==
  [stage |-> stage, counts |-> c, exit |-> exit, strict |-> strict,
   unchanged |-> unchanged]

pendingEvidence(stage, c) == Evidence(stage, c, None, FALSE, TRUE)

\* Mutant: a result that came is a result, whether or not the timer had fired.
classifyExit_untimed(exit, late, strict) ==
  IF exit = "signal" THEN "signal"
  ELSE IF exit = "nonzero" THEN "nonzero_exit"
  ELSE IF strict THEN "succeeded" ELSE "result_schema_invalid"

classifyExit(exit, late, strict) ==
  IF late THEN "timed_out"
  ELSE IF exit = "signal" THEN "signal"
  ELSE IF exit = "nonzero" THEN "nonzero_exit"
  ELSE IF strict THEN "succeeded" ELSE "result_schema_invalid"

(* A change of the repository turns a success into repository_changed and  *)
(* leaves every other classification as it is.                             *)
withRepositoryStatus(exit, unchanged) ==
  IF ~unchanged /\ exit = "succeeded" THEN "repository_changed" ELSE exit

isSmokePass(ev, cleanup) ==
  /\ cleanup = "complete"
  /\ \A p \in SmokeProviderKey :
       /\ ev[p].stage = "invocation_completed"
       /\ ev[p].exit = "succeeded"
       /\ ev[p].strict
       /\ ev[p].unchanged

-----------------------------------------------------------------------------
(* One run.                                                                *)

Current(r) == PROVIDER_ORDER[turn[r]]
OnTurn(r) == turn[r] <= Len(PROVIDER_ORDER)

(* uniform: the same stage for every provider.  Without a ledger, or with  *)
(* one that cannot be read, only what the run remembers is counted.        *)
uniform(r, stage, readable) ==
  [p \in SmokeProviderKey |-> pendingEvidence(stage, counts(safeUsage(p, readable), r, p))]

Unread == {FALSE}
boundLedger == BOOLEAN

ExitCode(ev, cleanup) == IF isSmokePass(ev, cleanup) THEN 0 ELSE 1

(* A refusal: there is nothing to clean up, the envelope is printed and the*)
(* process ends.                                                           *)
refuse(r, stage, ledger) ==
  /\ \E readable \in ledger :
       exitCode' = [exitCode EXCEPT ![r] = ExitCode(uniform(r, stage, readable), "complete")]
  /\ pc' = [pc EXCEPT ![r] = "finished"]

(* A failure of a run that holds the claim goes on to the cleanup.         *)
preflightUnavailable(r, ledger) ==
  /\ \E readable \in ledger :
       evidence' = [evidence EXCEPT ![r] = uniform(r, "preflight_unavailable", readable)]
  /\ pc' = [pc EXCEPT ![r] = "cleaning"]

(* Without the opt-in the command says nothing and fails.                  *)
NotOptedIn(r) ==
  /\ pc[r] = "idle"
  /\ pc' = [pc EXCEPT ![r] = "finished"]
  /\ exitCode' = [exitCode EXCEPT ![r] = 1]
  /\ UNCHANGED <<ledgerVars, held, turn, slot, attempted, probed, timedOut, invoked,
                 halted, dirs, evidence, child, report, changed>>

(* The runtime cannot be loaded, no authorization id is named, or the path *)
(* of the ledger is refused.                                               *)
RefuseEarly(r) ==
  /\ pc[r] = "idle"
  /\ \E stage \in {"preflight_unavailable", "authorization_missing", "ledger_unsafe"} :
       refuse(r, stage, Unread)
  /\ UNCHANGED <<ledgerVars, held, turn, slot, attempted, probed, timedOut, invoked,
                 halted, dirs, evidence, child, report, changed>>

detectModelConflict(models, g) ==
  \E p \in SmokeProviderKey : models[p] # None /\ models[p] # g.model[p]

policyMatches(live, g) == live = g.policy

readGrant(r, models, livePolicy) ==
  /\ pc[r] = "idle"
  /\ \/ grantFile = Absent /\ refuse(r, "grant_missing", Unread) /\ UNCHANGED held
     \/ grantFile = Torn /\ refuse(r, "grant_corrupt", boundLedger) /\ UNCHANGED held
     \/ /\ Whole
        /\ ~policyMatches(livePolicy, grantFile)
        /\ refuse(r, "policy_binding_mismatch", boundLedger)
        /\ UNCHANGED held
     \/ /\ Whole
        /\ policyMatches(livePolicy, grantFile)
        /\ detectModelConflict(models, grantFile)
        /\ refuse(r, "model_binding_conflict", boundLedger)
        /\ UNCHANGED held
     \/ /\ Whole
        /\ policyMatches(livePolicy, grantFile)
        /\ ~detectModelConflict(models, grantFile)
        /\ held' = [held EXCEPT ![r] = grantFile]
        /\ pc' = [pc EXCEPT ![r] = "claiming"]
        /\ UNCHANGED exitCode
  /\ UNCHANGED <<ledgerVars, turn, slot, attempted, probed, timedOut, invoked, halted,
                 dirs, evidence, child, report, changed>>

(* The gate: run.claim is made once.  (A run that is denied forgets the    *)
(* grant it read.)                                                         *)
claimRun(r) ==
  /\ pc[r] = "claiming"
  /\ \/ /\ Created(ClaimFile)
        /\ pc' = [pc EXCEPT ![r] = "reserving"]
        /\ UNCHANGED <<held, exitCode, evidence>>
     \/ /\ AlreadyExists(ClaimFile)
        /\ refuse(r, "run_claim_denied", boundLedger)
        /\ held' = [held EXCEPT ![r] = None]
        /\ UNCHANGED evidence
     \/ /\ WriteFailed(ClaimFile)
        /\ preflightUnavailable(r, Unread)
        /\ UNCHANGED <<held, exitCode>>
  /\ UNCHANGED <<grantFile, installed, issuers, turn, slot, attempted, probed,
                 timedOut, invoked, halted, dirs, child, report, changed>>

(* The ordinals are tried in turn, until one is made; none is when every   *)
(* slot is taken.                                                          *)
Taken(p, n) == \A k \in 1 .. n : Marker("slot", p, k) \in files

AfterReserve(r) ==
  IF turn[r] < Len(PROVIDER_ORDER)
  THEN turn' = [turn EXCEPT ![r] = @ + 1] /\ UNCHANGED pc
  ELSE turn' = [turn EXCEPT ![r] = 1] /\ pc' = [pc EXCEPT ![r] = "preparing"]

reserve(r) ==
  /\ pc[r] = "reserving"
  /\ LET p == Current(r) IN
     \/ \E n \in Ordinals :
          /\ Taken(p, n - 1)
          /\ Created(Marker("slot", p, n))
          /\ slot' = [slot EXCEPT ![r][p] = n]
          /\ AfterReserve(r)
          /\ UNCHANGED evidence
     \/ /\ Taken(p, SMOKE_MAX_INVOCATIONS)
        /\ AfterReserve(r)
        /\ UNCHANGED <<files, slot, evidence>>
     \/ \E n \in Ordinals :
          /\ Taken(p, n - 1)
          /\ WriteFailed(Marker("slot", p, n))
          /\ preflightUnavailable(r, Unread)
          /\ UNCHANGED <<slot, turn>>
  /\ UNCHANGED <<grantFile, installed, issuers, held, attempted, probed, timedOut,
                 invoked, halted, dirs, exitCode, child, report, changed>>

(* prepareRealRepository: the directory of the schema, then the repository.*)
(* Each is tracked as soon as it exists; any command may fail.             *)
prepareRepository(r) ==
  /\ pc[r] = "preparing"
  /\ \/ /\ dirs' = [dirs EXCEPT ![r] = @ \cup {"runtime"}]
        /\ pc' = [pc EXCEPT ![r] = "populating"]
        /\ UNCHANGED evidence
     \/ preflightUnavailable(r, boundLedger) /\ UNCHANGED dirs
  /\ UNCHANGED <<ledgerVars, held, turn, slot, attempted, probed, timedOut, invoked,
                 halted, exitCode, child, report, changed>>

createSyntheticPublicRepository(r) ==
  /\ pc[r] = "populating"
  /\ \/ /\ dirs' = [dirs EXCEPT ![r] = @ \cup {"repository"}]
        /\ pc' = [pc EXCEPT ![r] = "turning"]
        /\ UNCHANGED evidence
     \/ /\ preflightUnavailable(r, boundLedger)
        /\ dirs' \in {dirs, [dirs EXCEPT ![r] = @ \cup {"repository"}]}
  /\ UNCHANGED <<ledgerVars, held, turn, slot, attempted, probed, timedOut, invoked,
                 halted, exitCode, child, report, changed>>

(* A provider's evidence is complete: on to the next.                      *)
Push(r, ev) ==
  /\ evidence' = [evidence EXCEPT ![r][Current(r)] = ev]
  /\ turn' = [turn EXCEPT ![r] = @ + 1]
  /\ pc' = [pc EXCEPT ![r] = "turning"]

PushPending(r, stage) ==
  \E readable \in BOOLEAN :
    Push(r, pendingEvidence(stage, counts(safeUsage(Current(r), readable), r, Current(r))))

bindingMatches(build, g, p) == build = g.binding[p]

visitProvider(r) ==
  /\ pc[r] = "turning" /\ OnTurn(r)
  /\ LET p == Current(r) IN
     \/ halted[r] /\ PushPending(r, "security_halt") /\ UNCHANGED probed
     \/ /\ ~halted[r] /\ slot[r][p] = 0
        /\ PushPending(r, "authorization_exhausted") /\ UNCHANGED probed
     \/ /\ ~halted[r] /\ slot[r][p] # 0
        /\ \/ PushPending(r, "preflight_unavailable") /\ UNCHANGED probed
           \/ /\ ~bindingMatches(installed[p], held[r], p)
              /\ probed' = [probed EXCEPT ![r][p] = installed[p]]
              /\ PushPending(r, "executable_binding_mismatch")
           \/ /\ bindingMatches(installed[p], held[r], p)
              /\ probed' = [probed EXCEPT ![r][p] = installed[p]]
              /\ pc' = [pc EXCEPT ![r] = "marking"]
              /\ UNCHANGED <<evidence, turn>>
  /\ UNCHANGED <<ledgerVars, held, slot, attempted, timedOut, invoked, halted, dirs,
                 exitCode, child, report, changed>>

(* A marker that is there already is as good as a new one.                 *)
markSpawnAttempt(r) ==
  /\ pc[r] = "marking"
  /\ LET p == Current(r)
         f == Marker("spawn", p, slot[r][p])
     IN \/ /\ Created(f) \/ AlreadyExists(f)
           /\ attempted' = [attempted EXCEPT ![r][p] = TRUE]
           /\ pc' = [pc EXCEPT ![r] = "spawning"]
           /\ UNCHANGED <<evidence, turn>>
        \/ /\ WriteFailed(f)
           /\ PushPending(r, "preflight_unavailable")
           /\ UNCHANGED attempted
  /\ UNCHANGED <<grantFile, installed, issuers, held, slot, probed, timedOut, invoked,
                 halted, dirs, exitCode, child, report, changed>>

Invoked(r, stage, exit) ==
  /\ invoked' = [invoked EXCEPT ![r] = [stage |-> stage, exit |-> exit]]
  /\ pc' = [pc EXCEPT ![r] = "checking"]

(* invokeSmokeProvider, await by await.                                    *)
spawn(r) ==
  /\ pc[r] = "spawning"
  /\ \/ /\ child' = [child EXCEPT ![r][Current(r)] = "alive"]
        /\ pc' = [pc EXCEPT ![r] = "prompting"]
        /\ UNCHANGED invoked
     \/ /\ Invoked(r, "invocation_reserved", "spawn_failed")
        /\ UNCHANGED child
  /\ UNCHANGED <<ledgerVars, held, turn, slot, attempted, probed, timedOut, halted, dirs,
                 evidence, exitCode, report, changed>>

writePrompt(r) ==
  /\ pc[r] = "prompting"
  /\ pc' = [pc EXCEPT ![r] = "reading"]
  /\ UNCHANGED <<ledgerVars, held, turn, slot, attempted, probed, timedOut, invoked,
                 halted, dirs, evidence, exitCode, child, report, changed>>

(* The prompt is refused, a stream breaks, or the descendants cannot be    *)
(* counted: spawn_failed.  The timer is cleared and the child, if it still *)
(* lives, is left to itself.                                               *)
abandon(r) ==
  /\ pc[r] \in {"prompting", "reading", "counting"}
  /\ Invoked(r, "invocation_spawned", "spawn_failed")
  /\ UNCHANGED <<ledgerVars, held, turn, slot, attempted, probed, timedOut, halted,
                 dirs, evidence, exitCode, child, report, changed>>

readToEnd(r) ==
  /\ pc[r] = "reading"
  /\ child[r][Current(r)] = "exited"
  /\ pc' = [pc EXCEPT ![r] = "counting"]
  /\ UNCHANGED <<ledgerVars, held, turn, slot, attempted, probed, timedOut, invoked,
                 halted, dirs, evidence, exitCode, child, report, changed>>

complete(r) ==
  /\ pc[r] = "counting"
  /\ LET p == Current(r) IN
       Invoked(r, "invocation_completed",
               classifyExit(report[r][p].exit, timedOut[r][p], report[r][p].strict))
  /\ UNCHANGED <<ledgerVars, held, turn, slot, attempted, probed, timedOut, halted,
                 dirs, evidence, exitCode, child, report, changed>>

(* The timer runs from the spawn until the invocation ends.                *)
\* Mutant: the timer is cleared once the prompt is delivered.
TimerArmed_prompting(r) == pc[r] = "prompting"
TimerArmed(r) == pc[r] \in {"prompting", "reading", "counting"}

timeout(r) ==
  /\ TimerArmed(r)
  /\ ~timedOut[r][Current(r)]
  /\ timedOut' = [timedOut EXCEPT ![r][Current(r)] = TRUE]
  /\ child' = [child EXCEPT ![r][Current(r)] = IF @ = "alive" THEN "doomed" ELSE @]
  /\ UNCHANGED <<ledgerVars, pc, held, turn, slot, attempted, probed, invoked, halted,
                 dirs, evidence, exitCode, report, changed>>

(* Of an abandoned child the result may or may not have been heard.        *)
Heard(r, p) ==
  CASE invoked[r].stage = "invocation_completed" -> {report[r][p].strict}
    [] invoked[r].stage = "invocation_spawned" -> BOOLEAN
    [] invoked[r].stage = "invocation_reserved" -> {FALSE}

(* An unknown snapshot, and any change, ends the visits.                   *)
\* Mutant: only a success that changed the repository halts.
Halts_successOnly(unchanged, exit) ==
  withRepositoryStatus(exit, unchanged) = "repository_changed"
Halts(unchanged, exit) ==
  ~unchanged \/ withRepositoryStatus(exit, unchanged) = "repository_changed"

checkRepository(r) ==
  /\ pc[r] = "checking"
  /\ LET p == Current(r)
         exit == invoked[r].exit
     IN \E unchanged \in {~changed[r], FALSE}, readable \in BOOLEAN,
          strict \in Heard(r, p) :
          /\ Push(r, Evidence(invoked[r].stage, counts(safeUsage(p, readable), r, p),
                              withRepositoryStatus(exit, unchanged), strict, unchanged))
          /\ halted' = [halted EXCEPT ![r] = @ \/ Halts(unchanged, exit)]
          /\ invoked' = [invoked EXCEPT ![r] = None]
  /\ UNCHANGED <<ledgerVars, held, slot, attempted, probed, timedOut,
                 dirs, exitCode, child, report, changed>>

(* A process ends, and what it remembered with it.  (Of a run that launched*)
(* something held, slot and probed stay, to record under what, and of one  *)
(* that passed timedOut, to record how.)                                   *)
Forget(r) ==
  /\ IF \A p \in SmokeProviderKey : child[r][p] = "none"
     THEN /\ held' = [held EXCEPT ![r] = None]
          /\ slot' = [slot EXCEPT ![r] = PerProvider(0)]
          /\ probed' = [probed EXCEPT ![r] = PerProvider(None)]
     ELSE UNCHANGED <<held, slot, probed>>
  /\ turn' = [turn EXCEPT ![r] = 1]
  /\ attempted' = [attempted EXCEPT ![r] = PerProvider(FALSE)]
  /\ timedOut' = IF exitCode'[r] = 0 THEN timedOut
                 ELSE [timedOut EXCEPT ![r] = PerProvider(FALSE)]
  /\ invoked' = [invoked EXCEPT ![r] = None]
  /\ halted' = [halted EXCEPT ![r] = FALSE]
  /\ evidence' = [evidence EXCEPT ![r] = PerProvider(None)]

(* ResourceTracker: every tracked directory is removed, with retries, or   *)
(* the cleanup is incomplete.                                              *)
cleanupStatus(left) == IF left = {} THEN "complete" ELSE "incomplete"

(* The cleanup, the envelope, and the exit code it decides.                *)
finish(r) ==
  /\ pc[r] = "cleaning" \/ (pc[r] = "turning" /\ ~OnTurn(r))
  /\ \E left \in SUBSET dirs[r] :
       /\ dirs' = [dirs EXCEPT ![r] = left]
       /\ exitCode' = [exitCode EXCEPT ![r] =
            ExitCode(evidence[r], cleanupStatus(left))]
  /\ pc' = [pc EXCEPT ![r] = "finished"]
  /\ Forget(r)
  /\ UNCHANGED <<ledgerVars, child, report, changed>>

crash(r) ==
  /\ pc[r] \notin {"idle", "finished", "crashed"}
  /\ pc' = [pc EXCEPT ![r] = "crashed"]
  /\ UNCHANGED <<ledgerVars, dirs, exitCode, child, report, changed>>
  /\ Forget(r)

-----------------------------------------------------------------------------
(* The children.                                                           *)

Living == {"alive", "doomed"}

(* What it says reaches its runner while the runner is reading, or nobody. *)
childExits(r, p) ==
  /\ child[r][p] \in Living
  /\ child' = [child EXCEPT ![r][p] = "exited"]
  /\ IF pc[r] \in {"prompting", "reading"} /\ Current(r) = p
     THEN \E rep \in Reports : report' = [report EXCEPT ![r][p] = rep]
     ELSE UNCHANGED report
  /\ UNCHANGED <<ledgerVars, pc, held, turn, slot, attempted, probed, timedOut, invoked,
                 halted, dirs, evidence, exitCode, changed>>

(* A provider does what it was told not to.  (After the run nobody looks.) *)
childWrites(r, p) ==
  /\ child[r][p] \in Living
  /\ ~changed[r] /\ pc[r] \notin {"finished", "crashed"}
  /\ changed' = [changed EXCEPT ![r] = TRUE]
  /\ UNCHANGED <<ledgerVars, pc, held, turn, slot, attempted, probed, timedOut, invoked,
                 halted, dirs, evidence, exitCode, child, report>>

Advance(r) ==
  \/ claimRun(r) \/ reserve(r) \/ prepareRepository(r)
  \/ createSyntheticPublicRepository(r) \/ visitProvider(r)
  \/ markSpawnAttempt(r) \/ spawn(r) \/ writePrompt(r) \/ readToEnd(r) \/ complete(r)
  \/ checkRepository(r) \/ finish(r)

Start(r) ==
  \/ NotOptedIn(r) \/ RefuseEarly(r)
  \/ \E env \in RunnerEnvironments : readGrant(r, env.models, env.policy)

SmokeNext ==
  \/ LedgerNext /\ UNCHANGED runVars
  \/ \E r \in Runners : 
       Start(r) \/ Advance(r) \/ abandon(r) \/ timeout(r) \/ crash(r)
  \/ \E r \in Runners, p \in SmokeProviderKey : childExits(r, p) \/ childWrites(r, p)

(* The loop of the runner goes on while it has something to do, the timer  *)
(* fires, and a child whose tree was terminated exits.                     *)
SmokeSpec ==
  /\ SmokeInit /\ [][SmokeNext]_vars
  /\ \A r \in Runners :
       /\ WF_vars(Advance(r)) /\ WF_vars(timeout(r))
       /\ \A p \in SmokeProviderKey : WF_vars(child[r][p] = "doomed" /\ childExits(r, p))

-----------------------------------------------------------------------------
(* Correctness.                                                            *)

(* TypeOK: the type invariant.                                             *)
TypeOK ==
  /\ LedgerTypeOK
  /\ pc \in [Runners -> {"idle", "claiming", "reserving", "preparing", "populating",
                         "turning", "marking", "spawning", "prompting", "reading",
                         "counting", "checking", "cleaning", "finished", "crashed"}]
  /\ held \in [Runners -> Grants \cup {None}]
  /\ turn \in [Runners -> 1 .. Len(PROVIDER_ORDER) + 1]
  /\ slot \in [Runners -> [SmokeProviderKey -> 0 .. SMOKE_MAX_INVOCATIONS]]
  /\ attempted \in [Runners -> [SmokeProviderKey -> BOOLEAN]]
  /\ probed \in [Runners -> [SmokeProviderKey -> Builds \cup {None}]]
  /\ timedOut \in [Runners -> [SmokeProviderKey -> BOOLEAN]]
  /\ invoked \in [Runners -> {None} \cup [stage : Stages, exit : Exits]]
  /\ halted \in [Runners -> BOOLEAN]
  /\ dirs \in [Runners -> SUBSET {"runtime", "repository"}]
  /\ evidence \in [Runners -> [SmokeProviderKey -> {None} \cup Said]]
  /\ exitCode \in [Runners -> {None, 0, 1}]
  /\ child \in [Runners -> [SmokeProviderKey -> {"none", "alive", "doomed", "exited"}]]
  /\ report \in [Runners -> [SmokeProviderKey -> Reports \cup {None}]]
  /\ changed \in [Runners -> BOOLEAN]

Launched(r, p) == child[r][p] # "none"

(* One grant, and one launch of each provider under it, whoever wins the   *)
(* races for the files and wherever processes crash                        *)
(* (provider-authorization-ledger.ts:12-24).                               *)
OneTime == INSTANCE OneTimeAuthorization WITH
  terms <- IF Whole THEN grantFile ELSE None,
  launches <- [p \in SmokeProviderKey |->
    {[by |-> r, under |-> held[r]] : r \in {q \in Runners : Launched(q, p)}}]

ImplementsOneTimeAuthorization == OneTime!Spec

(* A launched provider left a durable trail: the claim, its slot and its   *)
(* spawn marker are in the ledger, and the build that was probed for it is *)
(* the one of the standing grant, so that no crash hides a launch and no   *)
(* upgraded executable is launched under the old grant.                    *)
LaunchIsRecorded ==
  \A r \in Runners, p \in SmokeProviderKey :
    Launched(r, p) =>
      /\ {ClaimFile, Marker("slot", p, slot[r][p]), Marker("spawn", p, slot[r][p])}
           \subseteq files
      /\ Whole /\ held[r] = grantFile
      /\ probed[r][p] = grantFile.binding[p]

(* An envelope never says fewer attempts than the run made, even when the  *)
(* ledger cannot be read or the run failed half-way.                       *)
CountsNeverUnderstate ==
  \A r \in Runners, p \in SmokeProviderKey :
    evidence[r][p] # None /\ Launched(r, p) =>
      /\ evidence[r][p].counts.reserved >= 1
      /\ evidence[r][p].counts.spawnAttempts >= 1

(* What the files, the envelopes and the children say of a launch agrees,  *)
(* through crashes and failing writes (provider-smoke.ts:1040-1130).       *)
SmokeConsistent == TypeOK /\ LaunchIsRecorded /\ CountsNeverUnderstate

(* Once a provider is seen to have changed the repository, none that comes *)
(* after it is launched.                                                   *)
SecurityHalt ==
  \A r \in Runners : \A j, k \in 1 .. Len(PROVIDER_ORDER) :
    LET first == evidence[r][PROVIDER_ORDER[j]] IN
      j < k /\ first # None /\ ~first.unchanged =>
        ~Launched(r, PROVIDER_ORDER[k])

(* A command that exits with 0 launched every provider; each of them ended *)
(* by itself, with a strict result and no failure, and the timer of its    *)
(* invocation did not fire, not even between the exit and the verdict; the *)
(* directories are gone, and no other run under this authorization passed  *)
(* (provider-smoke.ts:425-452).                                            *)
PassIsEarned ==
  \A r \in Runners :
    exitCode[r] = 0 =>
      /\ \A p \in SmokeProviderKey :
           /\ child[r][p] = "exited"
           /\ report[r][p].exit = "zero"
           /\ report[r][p].strict
           /\ ~timedOut[r][p]
      /\ dirs[r] = {}
      /\ \A q \in Runners \ {r} : exitCode[q] # 0

(* A run that got its claim ends with an envelope unless it crashes: a     *)
(* provider that never answers is ended by the timer.                      *)
EnvelopeReturned ==
  \A r \in Runners : pc[r] = "reserving" ~> pc[r] \in {"finished", "crashed"}
=============================================================================
