------------------------------- MODULE Projects -------------------------------
(***************************************************************************)
(* Projects, their provider policies and the confirmations that let a      *)
(* policy enable Fable (project-registration.ts, project-policy.ts,        *)
(* project-routes.ts, provider-transfer-policy.ts and the repositories of  *)
(* projects and of confirmations), with the tasks and worktrees that the   *)
(* other components and processes give a project meanwhile.                *)
(*                                                                         *)
(* A mutation is one immediate transaction, so a refused one is no step.   *)
(* A registration looks at the repository three times inside its own:      *)
(* the repository may change in between, and the process may end, but no   *)
(* other process can write to the database.                                *)
(***************************************************************************)
EXTENDS StateMachines, Integers, FiniteSets

CONSTANTS
  Processes, Sessions,
  ProjectIds, ConfirmationIds, TaskIds, WorktreeIds,   \* identifiers not used twice
  ProjectKeys, Paths,
  Agents, Commands,
  RegistrationInputs,  \* what callers register
  Patches,             \* the updates they send
  ProposedPolicies,    \* the policies they ask to confirm
  Profiles,            \* agent profiles: [valid, default, fallbackModels]
  FableModels,         \* models whose name says Fable
  MaxUpdates, MaxTime, \* bounds: updates of a project, and the clock
  None

Classifications == {"public", "internal", "confidential", "controlled"}
classificationRank ==
  [public |-> 0, internal |-> 1, confidential |-> 2, controlled |-> 3]
Providers == {"openai", "anthropic"}
ProviderPolicy == [openai : BOOLEAN, anthropic : BOOLEAN, allowFable : BOOLEAN]

ProjectRegistrationInput ==
  [projectKey : ProjectKeys, repositoryPath : Paths,
   classification : Classifications, providerPolicy : ProviderPolicy,
   allowedAgentIds : SUBSET Agents, allowedCommands : SUBSET Commands]

\* A field that is None is not in the patch.
ProjectUpdateInput ==
  [classification : Classifications \cup {None},
   providerPolicy : ProviderPolicy \cup {None},
   allowedAgentIds : (SUBSET Agents) \cup {None},
   allowedCommands : (SUBSET Commands) \cup {None}]

ASSUME ProjectsAssumption ==
  /\ RegistrationInputs \subseteq ProjectRegistrationInput
  /\ Patches \subseteq ProjectUpdateInput
  /\ ProposedPolicies \subseteq ProviderPolicy
  /\ MaxUpdates \in Nat /\ MaxTime \in Nat
  /\ IsFiniteSet(ConfirmationIds)
  /\ None \notin Processes \cup ConfirmationIds \cup ProjectKeys \cup ProjectIds
  /\ None \notin Int

VARIABLES
  projects,       \* projects
  confirmations,  \* provider_policy_confirmations
  tasks,          \* tasks, each with what its project allowed when it was created
  worktrees,      \* git_worktrees
  auditLog,       \* audit_log: how many records there are of an action and a project
  fableChanges,   \* history: how often a session gave a project a policy with Fable
  registering,    \* process -> the registration it is in
  writer,         \* the process that holds the database's write lock
  now

store == <<projects, confirmations, tasks, worktrees, auditLog, fableChanges>>
vars == <<store, registering, writer, now>>

NoRow == [status |-> "none"]
IsRow(row) == row # NoRow

-----------------------------------------------------------------------------
(* Rows.                                                                   *)

Bounds == [classification : Classifications,
           allowedAgentIds : SUBSET Agents, allowedCommands : SUBSET Commands]

Project == [projectKey : ProjectKeys, repositoryPath : Paths,
            classification : Classifications, providerPolicy : ProviderPolicy,
            allowedAgentIds : SUBSET Agents, allowedCommands : SUBSET Commands,
            unregistered : BOOLEAN]

\* policy stands for its hash: canonicalJson gives equal policies, whatever the
\* order of their members, equal hashes.
ProviderPolicyConfirmation ==
  [session : Sessions, scope : {"project-create", "project-update"},
   projectKey : ProjectKeys \cup {None}, projectId : ProjectIds \cup {None},
   policy : ProviderPolicy, expiresAt : Int, consumedAt : Int \cup {None}]

AuditActions == {"project.registered", "project.updated", "project.unregistered"}

\* changed: the repository does not look as it did in the first snapshot.
Registration ==
  [input : ProjectRegistrationInput, session : Sessions,
   confirmation : ConfirmationIds \cup {None}, changed : BOOLEAN,
   phase : {"validated", "prepared"}]

TypeOK ==
  /\ projects \in [ProjectIds -> Project \cup {NoRow}]
  /\ confirmations \in [ConfirmationIds -> ProviderPolicyConfirmation \cup {NoRow}]
  /\ tasks \in [TaskIds -> [project : ProjectIds, status : TaskStatus,
                            bounds : Bounds] \cup {NoRow}]
  /\ worktrees \in [WorktreeIds -> [project : ProjectIds,
                      status : {"active", "preserved", "released"}] \cup {NoRow}]
  /\ auditLog \in [AuditActions -> [ProjectIds -> Nat]]
  /\ fableChanges \in [ProjectIds -> [Sessions -> Nat]]
  /\ registering \in [Processes -> Registration \cup {NoRow}]
  /\ writer \in Processes \cup {None}
  /\ \A p \in Processes : IsRow(registering[p]) <=> writer = p
  /\ now \in 0 .. MaxTime

Init ==
  /\ projects = [i \in ProjectIds |-> NoRow]
  /\ confirmations = [c \in ConfirmationIds |-> NoRow]
  /\ tasks = [t \in TaskIds |-> NoRow]
  /\ worktrees = [w \in WorktreeIds |-> NoRow]
  /\ auditLog = [a \in AuditActions |-> [i \in ProjectIds |-> 0]]
  /\ fableChanges = [i \in ProjectIds |-> [s \in Sessions |-> 0]]
  /\ registering = [p \in Processes |-> NoRow]
  /\ writer = None
  /\ now = 0

-----------------------------------------------------------------------------
(* Reads.                                                                  *)

findActiveById(i) == IsRow(projects[i]) /\ ~projects[i].unregistered
findActiveByPath(path) ==
  { i \in ProjectIds : findActiveById(i) /\ projects[i].repositoryPath = path }

Nonterminal == {"draft", "planning", "queued", "running", "waiting_approval"}

\* Mutant: a task that waits for an approval is not counted as active.
hasNonterminalTasks_working(i) ==
  \E t \in TaskIds : /\ IsRow(tasks[t]) /\ tasks[t].project = i
                     /\ tasks[t].status \in Nonterminal \ {"waiting_approval"}
hasNonterminalTasks(i) ==
  \E t \in TaskIds : /\ IsRow(tasks[t]) /\ tasks[t].project = i
                     /\ tasks[t].status \in Nonterminal

\* Mutant: the worktrees are not looked at.
hasRetainedWorktrees_unread(i) == FALSE
hasRetainedWorktrees(i) ==
  \E w \in WorktreeIds : /\ IsRow(worktrees[w]) /\ worktrees[w].project = i
                         /\ worktrees[w].status \in {"active", "preserved"}

-----------------------------------------------------------------------------
(* Policy.                                                                 *)

assertRegistrationPolicy(classification, policy) ==
  /\ classification = "confidential" => policy.openai \/ policy.anthropic
  /\ classification = "controlled" =>
       ~(policy.openai \/ policy.anthropic \/ policy.allowFable)

assertUpdatePolicy(current, next, active) ==
  /\ assertRegistrationPolicy(next.classification, next.providerPolicy)
  /\ classificationRank[next.classification] >= classificationRank[current.classification]
  /\ active => /\ next.allowedAgentIds \subseteq current.allowedAgentIds
               /\ next.allowedCommands \subseteq current.allowedCommands

assertCanPlanOrStart(project) == project.classification # "controlled"

Permits(policy, provider) ==
  IF provider = "openai" THEN policy.openai ELSE policy.anthropic
isFable(model) == model \in FableModels

Candidates(profile) == {profile.default} \cup profile.fallbackModels

\* What ProjectPolicyService lets a profile run with, for any and for Arca.
effectiveModels(project, profile) ==
  { m \in Candidates(profile) :
      /\ profile.valid /\ Permits(project.providerPolicy, m.provider)
      /\ project.providerPolicy.allowFable \/ ~isFable(m.model) }

\* Mutant: Arca's candidates are those of any profile.
arcaCandidates_any(project, profile) == effectiveModels(project, profile)
arcaCandidates(project, profile) ==
  { m \in Candidates(profile) :
      /\ profile.valid /\ Permits(project.providerPolicy, m.provider)
      /\ ~isFable(m.model) }

\* ProviderTransferPolicy has a list of Arca's candidates of its own: it does not
\* look at whether the profile is valid.
transferCandidates(project, profile) ==
  { m \in Candidates(profile) :
      Permits(project.providerPolicy, m.provider) /\ ~isFable(m.model) }

\* ProviderTransferPolicy, asked before every run with the project its caller read.
assertAllowed(project, m, payloadClassification, selection, fableConfirmationValid) ==
  /\ project.classification # "controlled"
  /\ payloadClassification \notin {"controlled", "restricted"}
  /\ payloadClassification = "confidential" => Permits(project.providerPolicy, m.provider)
  /\ selection \in {"arca-default", "arca-fallback"} => ~isFable(m.model)
  /\ isFable(m.model) => /\ selection = "direct"
                         /\ project.providerPolicy.allowFable
                         /\ fableConfirmationValid
                         /\ Permits(project.providerPolicy, m.provider)

-----------------------------------------------------------------------------
(* Confirmations.                                                          *)

ConfirmationLifetime == 1

\* The route: only a policy that enables Fable is confirmed.
createConfirmation(c, session, scope, key, id, policy) ==
  /\ writer = None
  /\ confirmations[c] = NoRow
  /\ policy.allowFable
  /\ id # None => IsRow(projects[id])
  /\ confirmations' = [confirmations EXCEPT ![c] =
       [session |-> session, scope |-> scope, projectKey |-> key, projectId |-> id,
        policy |-> policy, expiresAt |-> now + ConfirmationLifetime,
        consumedAt |-> None]]
  /\ UNCHANGED <<projects, tasks, worktrees, auditLog, fableChanges, registering, writer,
                 now>>

\* The WHERE clause of consume.
Consumable(c, session, scope, key, id, policy) ==
  /\ c # None /\ IsRow(confirmations[c])
  /\ confirmations[c].session = session /\ confirmations[c].scope = scope
  /\ confirmations[c].projectKey = key /\ confirmations[c].projectId = id
  /\ confirmations[c].policy = policy
  /\ confirmations[c].expiresAt > now /\ confirmations[c].consumedAt = None

\* A change of project id to this policy: what consume and writeAudit leave behind.
consume(c, session, scope, key, id, policy) ==
  IF policy.allowFable
  THEN /\ Consumable(c, session, scope, key, id, policy)
       /\ confirmations' = [confirmations EXCEPT ![c].consumedAt = now]
  ELSE UNCHANGED confirmations

writeAudit(action, id) == auditLog' = [auditLog EXCEPT ![action][id] = @ + 1]
FableChange(id, session, policy) ==
  fableChanges' = [fableChanges EXCEPT ![id][session] = @ + IF policy.allowFable THEN 1 ELSE 0]

-----------------------------------------------------------------------------
(* register.                                                               *)

\* The first snapshot is taken, and then the policy and the path are checked.
register(p, input, session, c) ==
  /\ writer = None
  /\ input.providerPolicy.allowFable <=> c # None
  /\ assertRegistrationPolicy(input.classification, input.providerPolicy)
  /\ findActiveByPath(input.repositoryPath) = {}
  /\ registering' = [registering EXCEPT ![p] =
       [input |-> input, session |-> session, confirmation |-> c,
        changed |-> FALSE, phase |-> "validated"]]
  /\ writer' = p
  /\ UNCHANGED <<store, now>>

assertUnchanged(r) == ~r.changed

\* The second snapshot.
prepare(p) ==
  /\ IsRow(registering[p]) /\ registering[p].phase = "validated"
  /\ assertUnchanged(registering[p])
  /\ registering' = [registering EXCEPT ![p].phase = "prepared"]
  /\ UNCHANGED <<store, writer, now>>

\* The two unique indexes: a key is never used again, a path by one active project.
Insertable(id, input) ==
  /\ projects[id] = NoRow
  /\ findActiveByPath(input.repositoryPath) = {}
  /\ \A i \in ProjectIds : IsRow(projects[i]) => projects[i].projectKey # input.projectKey

ClosedTransaction(p) ==
  /\ registering' = [registering EXCEPT ![p] = NoRow]
  /\ writer' = None

\* The third, and everything a registration writes.
persist(p, id) ==
  /\ IsRow(registering[p]) /\ registering[p].phase = "prepared"
  /\ LET r == registering[p]  input == r.input IN
       /\ assertUnchanged(r)
       /\ Insertable(id, input)
       /\ projects' = [projects EXCEPT ![id] =
            [projectKey |-> input.projectKey, repositoryPath |-> input.repositoryPath,
             classification |-> input.classification,
             providerPolicy |-> input.providerPolicy,
             allowedAgentIds |-> input.allowedAgentIds,
             allowedCommands |-> input.allowedCommands, unregistered |-> FALSE]]
       /\ consume(r.confirmation, r.session, "project-create", input.projectKey, None,
                  input.providerPolicy)
       /\ writeAudit("project.registered", id)
       /\ FableChange(id, r.session, input.providerPolicy)
  /\ ClosedTransaction(p)
  /\ UNCHANGED <<tasks, worktrees, now>>

\* Mutant: the confirmation is consumed before the transaction that may fail.
rollBack_consumed(p) ==
  /\ IsRow(registering[p])
  /\ LET c == registering[p].confirmation IN
       confirmations' = IF c # None /\ IsRow(confirmations[c])
                        THEN [confirmations EXCEPT ![c].consumedAt = now]
                        ELSE confirmations
  /\ ClosedTransaction(p)
  /\ UNCHANGED <<projects, tasks, worktrees, auditLog, fableChanges, now>>

\* A snapshot differs, a statement is refused, or the process ends.
rollBack(p) ==
  /\ IsRow(registering[p])
  /\ ClosedTransaction(p)
  /\ UNCHANGED <<store, now>>

-----------------------------------------------------------------------------
(* update and unregister.                                                  *)

Given(field, current) == IF field = None THEN current ELSE field
Patched(project, patch) ==
  [project EXCEPT !.classification = Given(patch.classification, @),
                  !.providerPolicy = Given(patch.providerPolicy, @),
                  !.allowedAgentIds = Given(patch.allowedAgentIds, @),
                  !.allowedCommands = Given(patch.allowedCommands, @)]

\* A patch without a policy keeps the policy and confirms nothing.
update(id, patch, session, c) ==
  /\ writer = None
  /\ findActiveById(id) /\ auditLog["project.updated"][id] < MaxUpdates
  /\ LET next == Patched(projects[id], patch) IN
       /\ assertUpdatePolicy(projects[id], next, hasNonterminalTasks(id))
       /\ projects' = [projects EXCEPT ![id] = next]
       /\ IF patch.providerPolicy = None
          THEN UNCHANGED <<confirmations, fableChanges>>
          ELSE /\ consume(c, session, "project-update", None, id, next.providerPolicy)
               /\ FableChange(id, session, next.providerPolicy)
  /\ writeAudit("project.updated", id)
  /\ UNCHANGED <<tasks, worktrees, registering, writer, now>>

\* With a task or a worktree in the way the answer names them and nothing changes.
unregister(id) ==
  /\ writer = None
  /\ findActiveById(id)
  /\ ~hasNonterminalTasks(id) /\ ~hasRetainedWorktrees(id)
  /\ projects' = [projects EXCEPT ![id].unregistered = TRUE]
  /\ writeAudit("project.unregistered", id)
  /\ UNCHANGED <<confirmations, tasks, worktrees, fableChanges, registering, writer,
                 now>>

-----------------------------------------------------------------------------
(* The other components, in this process or in another.                    *)

\* The trigger tasks_project_registered stands against a task of a project that
\* is unregistered; the row is inserted with the status its caller gives it.
createTask(t, id, status) ==
  /\ writer = None
  /\ tasks[t] = NoRow /\ findActiveById(id)
  /\ tasks' = [tasks EXCEPT ![t] =
       [project |-> id, status |-> status,
        bounds |-> [classification |-> projects[id].classification,
                    allowedAgentIds |-> projects[id].allowedAgentIds,
                    allowedCommands |-> projects[id].allowedCommands]]]
  /\ UNCHANGED <<projects, confirmations, worktrees, auditLog, fableChanges,
                 registering, writer, now>>

transitionTask(t, status) ==
  /\ writer = None
  /\ IsRow(tasks[t])
  /\ isAllowedTransition(taskTransitionTable, tasks[t].status, status)
  /\ tasks' = [tasks EXCEPT ![t].status = status]
  /\ UNCHANGED <<projects, confirmations, worktrees, auditLog, fableChanges,
                 registering, writer, now>>

\* Nothing in the repository writes git_worktrees yet: a worktree is taken to be
\* made for a task that runs, and to be kept or released at any time.
createWorktree(w, t) ==
  /\ writer = None
  /\ worktrees[w] = NoRow
  /\ IsRow(tasks[t]) /\ tasks[t].status = "running"
  /\ worktrees' = [worktrees EXCEPT ![w] =
       [project |-> tasks[t].project, status |-> "active"]]
  /\ UNCHANGED <<projects, confirmations, tasks, auditLog, fableChanges,
                 registering, writer, now>>

leaveWorktree(w, status) ==
  /\ writer = None
  /\ IsRow(worktrees[w]) /\ worktrees[w].status \in {"active", "preserved"}
  /\ worktrees' = [worktrees EXCEPT ![w].status = status]
  /\ UNCHANGED <<projects, confirmations, tasks, auditLog, fableChanges,
                 registering, writer, now>>

\* Somebody works in the repository that is being registered, and may put back
\* what was there.
editRepository(p) ==
  /\ IsRow(registering[p])
  /\ registering' = [registering EXCEPT ![p].changed = ~@]
  /\ UNCHANGED <<store, writer, now>>

Tick ==
  /\ now < MaxTime /\ now' = now + 1
  /\ UNCHANGED <<store, registering, writer>>

Confirm(c, session) ==
  \E policy \in ProposedPolicies :
    \/ \E k \in ProjectKeys :
         createConfirmation(c, session, "project-create", k, None, policy)
    \/ \E id \in ProjectIds :
         createConfirmation(c, session, "project-update", None, id, policy)

Next ==
  \/ \E session \in Sessions :
       \/ \E c \in ConfirmationIds : Confirm(c, session)
       \/ \E c \in ConfirmationIds \cup {None} :
            \/ \E p \in Processes, input \in RegistrationInputs :
                 register(p, input, session, c)
            \/ \E id \in ProjectIds, patch \in Patches : update(id, patch, session, c)
  \/ \E p \in Processes :
       \/ prepare(p) \/ rollBack(p) \/ editRepository(p)
       \/ \E id \in ProjectIds : persist(p, id)
  \/ \E id \in ProjectIds :
       \/ unregister(id)
       \/ \E t \in TaskIds, status \in TaskStatus : createTask(t, id, status)
  \/ \E t \in TaskIds : \E status \in TaskStatus : transitionTask(t, status)
  \/ \E w \in WorktreeIds :
       \/ \E t \in TaskIds : createWorktree(w, t)
       \/ \E status \in {"preserved", "released"} : leaveWorktree(w, status)
  \/ Tick

Spec == Init /\ [][Next]_vars

-----------------------------------------------------------------------------
\* What confirmations back: the changes of a project, from its registration on.
ConsumedFor(id) ==
  { c \in ConfirmationIds :
      /\ IsRow(confirmations[c]) /\ confirmations[c].consumedAt # None
      /\ \/ confirmations[c].projectId = id
         \/ confirmations[c].projectKey = projects[id].projectKey }

\* Fable is never enabled without its warning: each change of a project to a
\* policy with Fable has consumed a confirmation of its own, made for that
\* project in the session that made the change, nothing else has consumed one,
\* and the policy a project has now was among those confirmed; whatever is
\* refused, rolled back, expired or tried again with a confirmation made for
\* another project or policy.
FableIsConfirmed ==
  /\ \A id \in ProjectIds : IsRow(projects[id]) =>
       /\ \A s \in Sessions :
            Cardinality({ c \in ConsumedFor(id) : confirmations[c].session = s })
              = fableChanges[id][s]
       /\ projects[id].providerPolicy.allowFable =>
            \E c \in ConsumedFor(id) :
              confirmations[c].policy = projects[id].providerPolicy
  /\ \A c \in ConfirmationIds :
       IsRow(confirmations[c]) /\ confirmations[c].consumedAt # None =>
         \E id \in ProjectIds : IsRow(projects[id]) /\ c \in ConsumedFor(id)

\* As long as a task is not terminal, its project stays registered, does not
\* become less classified, and allows no agent and no command that it did not
\* when the task was created (its provider policy is another matter: that may be
\* widened while tasks live); through any series of updates, each of which was
\* compared with the one before only.
LiveTasksKeepTheirBounds ==
  \A t \in TaskIds : IsRow(tasks[t]) /\ tasks[t].status \notin TerminalTask =>
    LET project == projects[tasks[t].project]  bounds == tasks[t].bounds IN
      /\ findActiveById(tasks[t].project)
      /\ classificationRank[project.classification]
           >= classificationRank[bounds.classification]
      /\ project.allowedAgentIds \subseteq bounds.allowedAgentIds
      /\ project.allowedCommands \subseteq bounds.allowedCommands

\* Where the two policy services agree and where they do not, for every project
\* there can be.  For a valid profile they list the same candidates for Arca; for
\* one that is not valid, ProjectPolicyService lists no model and
\* ProviderTransferPolicy still lists those its policy permits, and nothing else
\* separates them.  ProviderTransferPolicy's own check lets each candidate of
\* either list be sent anything that is not controlled, and a model a run is
\* offered be used for the project's own data.  A controlled project has no
\* candidate in any of the lists.
PolicyServicesAgree ==
  \A id \in ProjectIds, profile \in Profiles : IsRow(projects[id]) =>
    LET project == projects[id]
        arca == arcaCandidates(project, profile)
        transfer == transferCandidates(project, profile)
        effective == effectiveModels(project, profile)
    IN /\ arca = IF profile.valid THEN transfer ELSE {}
       /\ arca \subseteq effective
       /\ ~profile.valid => effective = {}
       /\ assertCanPlanOrStart(project) =>
            /\ \A m \in transfer,
                  payload \in {"public", "internal", "confidential"},
                  selection \in {"arca-default", "arca-fallback", "direct"} :
                 assertAllowed(project, m, payload, selection, FALSE)
            /\ \A m \in effective :
                 assertAllowed(project, m, project.classification, "direct", TRUE)
       /\ ~assertCanPlanOrStart(project) => effective = {} /\ transfer = {}

\* The rows, the log and the indexes tell one story: a project was registered
\* once, and unregistered once if it is; no key is used twice and no path by two
\* active projects; a project without registration has no live worktree.
ProjectsConsistent ==
  /\ TypeOK
  /\ \A id \in ProjectIds :
       /\ auditLog["project.registered"][id] = IF IsRow(projects[id]) THEN 1 ELSE 0
       /\ auditLog["project.unregistered"][id] =
            IF IsRow(projects[id]) /\ projects[id].unregistered THEN 1 ELSE 0
  /\ \A w \in WorktreeIds :
       IsRow(worktrees[w]) /\ worktrees[w].status # "released" =>
         ~projects[worktrees[w].project].unregistered
  /\ \A i, j \in ProjectIds : i # j /\ IsRow(projects[i]) /\ IsRow(projects[j]) =>
       /\ projects[i].projectKey # projects[j].projectKey
       /\ projects[i].repositoryPath = projects[j].repositoryPath =>
            projects[i].unregistered \/ projects[j].unregistered

-----------------------------------------------------------------------------
\* A confirmation as a permission that is used once: given to a session for a
\* project key, directly or by the project that has it, until it expires.  What
\* it permits is a change to a policy with Fable.
KeyOf(c) ==
  IF confirmations[c].projectId = None THEN confirmations[c].projectKey
  ELSE projects[confirmations[c].projectId].projectKey

confirmationTerms ==
  [c \in ConfirmationIds |->
     IF IsRow(confirmations[c])
     THEN [purpose |-> <<confirmations[c].session, KeyOf(c)>>,
           until |-> confirmations[c].expiresAt]
     ELSE NoRow]

Having(key) == { id \in ProjectIds : IsRow(projects[id]) /\ projects[id].projectKey = key }

EnabledIn(session, key) ==
  IF Having(key) = {} THEN 0
  ELSE fableChanges[CHOOSE id \in Having(key) : TRUE][session]
enabled == [x \in Sessions \X ProjectKeys |-> EnabledIn(x[1], x[2])]

Permission == INSTANCE SingleUse WITH
  Tokens <- ConfirmationIds, Purposes <- Sessions \X ProjectKeys,
  None <- NoRow,
  granted <- confirmationTerms,
  spent <- { c \in ConfirmationIds : IsRow(confirmations[c])
                                     /\ confirmations[c].consumedAt # None },
  done <- enabled

\* The changes of policy with Fable are those that a confirmation was spent on, in
\* the same step and in time, each by a confirmation of its own that the session
\* was given for that project, and its terms never change
\* (provider-policy-confirmation-repository.ts).
ConfirmationsAreSingleUse == Permission!Spec
=============================================================================
