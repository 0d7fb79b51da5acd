--------------------------- MODULE Projects_proofs ---------------------------
(***************************************************************************)
(* Proofs about projects, for any projects, sessions, confirmations,       *)
(* policies, tasks and worktrees.  A task is kept within its bounds by two *)
(* different guards, one in update and one in unregister, and both rely on *)
(* a terminal task staying terminal; confirmations and changes are counted *)
(* against each other, which needs that no key is ever used again.         *)
(***************************************************************************)
EXTENDS Projects, FiniteSetTheorems, TLAPS

(* The audit log has one registration of every project.                    *)
Counted ==
  \A id \in ProjectIds :
    /\ auditLog["project.registered"][id] = IF IsRow(projects[id]) THEN 1 ELSE 0
    /\ auditLog["project.unregistered"][id] =
         IF IsRow(projects[id]) /\ projects[id].unregistered THEN 1 ELSE 0

(* A live worktree has a registered project.                               *)
Housed ==
  \A w \in WorktreeIds :
    IsRow(worktrees[w]) /\ worktrees[w].status # "released" =>
      findActiveById(worktrees[w].project)

(* Keys are never used again, and paths by one registered project.         *)
Distinct ==
  \A i, j \in ProjectIds : i # j /\ IsRow(projects[i]) /\ IsRow(projects[j]) =>
    /\ projects[i].projectKey # projects[j].projectKey
    /\ projects[i].repositoryPath = projects[j].repositoryPath =>
         projects[i].unregistered \/ projects[j].unregistered

(* Every policy that is in force, or about to be, was checked.             *)
PolicyHolds ==
  /\ \A id \in ProjectIds : IsRow(projects[id]) =>
       assertRegistrationPolicy(projects[id].classification, projects[id].providerPolicy)
  /\ \A p \in Processes : IsRow(registering[p]) =>
       assertRegistrationPolicy(registering[p].input.classification,
                                registering[p].input.providerPolicy)

(* A confirmation is for a project to be or for one that is.               *)
Addressed ==
  \A c \in ConfirmationIds : IsRow(confirmations[c]) =>
    \/ confirmations[c].projectId = None /\ confirmations[c].projectKey \in ProjectKeys
    \/ confirmations[c].projectId \in ProjectIds /\ confirmations[c].projectKey = None

(* What is not registered has not been changed.                            *)
Unchanged ==
  \A id \in ProjectIds : ~IsRow(projects[id]) =>
    \A s \in Sessions : fableChanges[id][s] = 0

Warned == FableIsConfirmed /\ Addressed /\ Unchanged

IInv ==
  /\ TypeOK
  /\ Counted
  /\ Housed
  /\ Distinct
  /\ LiveTasksKeepTheirBounds
  /\ PolicyHolds
  /\ Warned

-----------------------------------------------------------------------------
(* Rows.                                                                   *)

LEMMA NotRows == ~IsRow(NoRow)
  BY DEF IsRow, NoRow

LEMMA ProjectRow ==
  ASSUME NEW row \in Project \cup {NoRow}
  PROVE  IsRow(row) <=> row \in Project
  <1>1. NoRow \notin Project
    <2>1. DOMAIN NoRow = {"status"}
      BY DEF NoRow
    <2>2. \A x \in Project : "projectKey" \in DOMAIN x
      BY DEF Project
    <2> QED BY <2>1, <2>2
  <1> QED BY <1>1 DEF IsRow

LEMMA ConfirmationRow ==
  ASSUME NEW row \in ProviderPolicyConfirmation \cup {NoRow}
  PROVE  IsRow(row) <=> row \in ProviderPolicyConfirmation
  <1>1. NoRow \notin ProviderPolicyConfirmation
    <2>1. DOMAIN NoRow = {"status"}
      BY DEF NoRow
    <2>2. \A x \in ProviderPolicyConfirmation : "session" \in DOMAIN x
      BY DEF ProviderPolicyConfirmation
    <2> QED BY <2>1, <2>2
  <1> QED BY <1>1 DEF IsRow

LEMMA RegistrationRow ==
  ASSUME NEW row \in Registration \cup {NoRow}
  PROVE  IsRow(row) <=> row \in Registration
  <1>1. NoRow \notin Registration
    <2>1. DOMAIN NoRow = {"status"}
      BY DEF NoRow
    <2>2. \A x \in Registration : "session" \in DOMAIN x
      BY DEF Registration
    <2> QED BY <2>1, <2>2
  <1> QED BY <1>1 DEF IsRow

Task == [project : ProjectIds, status : TaskStatus, bounds : Bounds]
Worktree == [project : ProjectIds, status : {"active", "preserved", "released"}]

LEMMA TaskRow ==
  ASSUME NEW row \in Task \cup {NoRow}
  PROVE  IsRow(row) <=> row \in Task
  BY DEF Task, TaskStatus, NoRow, IsRow

LEMMA WorktreeRow ==
  ASSUME NEW row \in Worktree \cup {NoRow}
  PROVE  IsRow(row) <=> row \in Worktree
  BY DEF Worktree, NoRow, IsRow

LEMMA PatchedRow ==
  ASSUME NEW project \in Project, NEW patch \in Patches
  PROVE  /\ Patched(project, patch) \in Project
         /\ Patched(project, patch).projectKey = project.projectKey
         /\ Patched(project, patch).repositoryPath = project.repositoryPath
         /\ Patched(project, patch).unregistered = project.unregistered
         /\ patch.providerPolicy = None =>
              Patched(project, patch).providerPolicy = project.providerPolicy
  <1>1. patch \in ProjectUpdateInput
    BY ProjectsAssumption
  <1>2. /\ Given(patch.classification, project.classification) \in Classifications
        /\ Given(patch.providerPolicy, project.providerPolicy) \in ProviderPolicy
        /\ Given(patch.allowedAgentIds, project.allowedAgentIds) \in SUBSET Agents
        /\ Given(patch.allowedCommands, project.allowedCommands) \in SUBSET Commands
    BY <1>1 DEF ProjectUpdateInput, Project, Given
  <1>3. Patched(project, patch) \in Project
    BY <1>2 DEF Patched, Project
  <1>4. /\ Patched(project, patch).projectKey = project.projectKey
        /\ Patched(project, patch).repositoryPath = project.repositoryPath
        /\ Patched(project, patch).unregistered = project.unregistered
    BY DEF Patched, Project
  <1>5. Patched(project, patch).providerPolicy =
          Given(patch.providerPolicy, project.providerPolicy)
    BY DEF Patched, Project
  <1> QED BY <1>3, <1>4, <1>5 DEF Given

(* A new row, or a field of one, in a log of logs.                         *)
LEMMA NestedCount ==
  ASSUME NEW A, NEW B, NEW f \in [A -> [B -> Nat]], NEW a \in A, NEW b \in B, NEW n \in Nat
  PROVE  /\ [f EXCEPT ![a][b] = @ + n] \in [A -> [B -> Nat]]
         /\ \A x \in A : \A y \in B :
              [f EXCEPT ![a][b] = @ + n][x][y] =
                IF x = a /\ y = b THEN f[x][y] + n ELSE f[x][y]
  <1>1. f[a] \in [B -> Nat] /\ f[a][b] + n \in Nat
    OBVIOUS
  <1>2. [f[a] EXCEPT ![b] = f[a][b] + n] \in [B -> Nat]
    BY <1>1
  <1>3. [f EXCEPT ![a] = [f[a] EXCEPT ![b] = f[a][b] + n]] \in [A -> [B -> Nat]]
    BY <1>2
  <1>4. [f EXCEPT ![a][b] = @ + n] = [f EXCEPT ![a] = [f[a] EXCEPT ![b] = f[a][b] + n]]
    OBVIOUS
  <1> QED BY <1>1, <1>3, <1>4

-----------------------------------------------------------------------------
(* Confirmations and changes.                                              *)

Consumed(c) == IsRow(confirmations[c]) /\ confirmations[c].consumedAt # None
BySession(id, s) == { c \in ConsumedFor(id) : confirmations[c].session = s }

LEMMA WarnedKept ==
  ASSUME Warned, UNCHANGED fableChanges,
         \A id \in ProjectIds :
           /\ IsRow(projects'[id]) <=> IsRow(projects[id])
           /\ IsRow(projects[id]) =>
                /\ projects'[id].projectKey = projects[id].projectKey
                /\ projects'[id].providerPolicy = projects[id].providerPolicy,
         \A c \in ConfirmationIds :
           /\ Consumed(c)' <=> Consumed(c)
           /\ Consumed(c) => confirmations'[c] = confirmations[c],
         Addressed'
  PROVE  Warned'
  <1>1. Unchanged'
    BY DEF Warned, Unchanged
  <1>2. ASSUME NEW id \in ProjectIds, IsRow(projects[id])
        PROVE  /\ ConsumedFor(id)' = ConsumedFor(id)
               /\ \A s \in Sessions : BySession(id, s)' = BySession(id, s)
    <2>1. ConsumedFor(id)' = ConsumedFor(id)
      BY <1>2 DEF ConsumedFor, Consumed
    <2>2. \A c \in ConsumedFor(id) : confirmations'[c] = confirmations[c]
      BY <1>2 DEF ConsumedFor, Consumed
    <2> QED BY <2>1, <2>2 DEF BySession
  <1>3. ASSUME NEW id \in ProjectIds, IsRow(projects'[id])
        PROVE  /\ \A s \in Sessions : Cardinality(BySession(id, s)') = fableChanges'[id][s]
               /\ projects'[id].providerPolicy.allowFable =>
                    \E c \in ConsumedFor(id)' :
                      confirmations'[c].policy = projects'[id].providerPolicy
    <2>1. IsRow(projects[id])
      BY <1>3
    <2>2. \A s \in Sessions : Cardinality(BySession(id, s)) = fableChanges[id][s]
      BY <2>1 DEF Warned, FableIsConfirmed, BySession
    <2>3. projects[id].providerPolicy.allowFable =>
            \E c \in ConsumedFor(id) : confirmations[c].policy = projects[id].providerPolicy
      BY <2>1 DEF Warned, FableIsConfirmed
    <2>4. \A c \in ConsumedFor(id) : confirmations'[c] = confirmations[c]
      BY <2>1 DEF ConsumedFor, Consumed
    <2> QED BY <2>1, <2>2, <2>3, <2>4, <1>2
  <1>4. ASSUME NEW c \in ConfirmationIds, Consumed(c)'
        PROVE  \E id \in ProjectIds : IsRow(projects'[id]) /\ c \in ConsumedFor(id)'
    <2>1. Consumed(c)
      BY <1>4
    <2>2. PICK id \in ProjectIds : IsRow(projects[id]) /\ c \in ConsumedFor(id)
      BY <2>1 DEF Warned, FableIsConfirmed, Consumed
    <2> QED BY <2>2, <1>2
  <1>5. FableIsConfirmed'
    BY <1>3, <1>4 DEF FableIsConfirmed, BySession, Consumed
  <1> QED BY <1>1, <1>5 DEF Warned

(* A session gives project id a policy: with Fable it consumes c, made for *)
(* that project in that session and in time, and without it nothing.       *)
PolicyGiven(id, session, c) ==
  /\ IsRow(projects'[id])
  /\ \A i \in ProjectIds \ {id} : projects'[i] = projects[i]
  /\ IF IsRow(projects[id])
     THEN projects'[id].projectKey = projects[id].projectKey
     ELSE \A i \in ProjectIds :
            IsRow(projects[i]) => projects[i].projectKey # projects'[id].projectKey
  /\ LET policy == projects'[id].providerPolicy IN
     IF policy.allowFable
     THEN /\ c \in ConfirmationIds
          /\ IsRow(confirmations[c]) /\ ~Consumed(c) /\ Consumed(c)'
          /\ confirmations[c].session = session /\ confirmations[c].policy = policy
          /\ \/ confirmations[c].projectId = id /\ confirmations[c].projectKey = None
             \/ /\ confirmations[c].projectId = None
                /\ confirmations[c].projectKey = projects'[id].projectKey
          /\ confirmations'[c].session = session /\ confirmations'[c].policy = policy
          /\ confirmations'[c].projectId = confirmations[c].projectId
          /\ confirmations'[c].projectKey = confirmations[c].projectKey
          /\ now < confirmations[c].expiresAt
          /\ confirmations'[c].expiresAt = confirmations[c].expiresAt
          /\ \A d \in ConfirmationIds \ {c} : confirmations'[d] = confirmations[d]
          /\ fableChanges' = [fableChanges EXCEPT ![id][session] = @ + 1]
     ELSE /\ UNCHANGED confirmations
          /\ fableChanges' = [fableChanges EXCEPT ![id][session] = @ + 0]

LEMMA FinitelyMany ==
  ASSUME NEW id, NEW s
  PROVE  IsFiniteSet(BySession(id, s)) /\ BySession(id, s) \subseteq ConfirmationIds
  <1>1. BySession(id, s) \subseteq ConfirmationIds
    BY DEF BySession, ConsumedFor
  <1> QED BY <1>1, FS_Subset, ProjectsAssumption

LEMMA WarnedChanged ==
  ASSUME TypeOK, Warned, Distinct, NEW id \in ProjectIds, NEW session \in Sessions,
         NEW c,
         PolicyGiven(id, session, c),
         projects' \in [ProjectIds -> Project \cup {NoRow}]
  PROVE  Warned'
  <1> DEFINE fable == projects'[id].providerPolicy.allowFable
  <1>1. /\ IsRow(projects'[id]) /\ projects'[id].projectKey \in ProjectKeys
        /\ projects'[id].providerPolicy \in ProviderPolicy
        /\ \A i \in ProjectIds \ {id} : projects'[i] = projects[i]
        /\ fable \in BOOLEAN
    BY ProjectRow DEF PolicyGiven, Project, ProviderPolicy
  <1>2. None \notin ProjectIds /\ None \notin ProjectKeys
    BY ProjectsAssumption
  <1>3. ASSUME fable
        PROVE  /\ c \in ConfirmationIds /\ IsRow(confirmations[c])
               /\ ~Consumed(c) /\ Consumed(c)'
               /\ confirmations'[c].session = session
               /\ confirmations'[c].policy = projects'[id].providerPolicy
               /\ confirmations'[c].projectId = confirmations[c].projectId
               /\ confirmations'[c].projectKey = confirmations[c].projectKey
               /\ \/ confirmations[c].projectId = id /\ confirmations[c].projectKey = None
                  \/ /\ confirmations[c].projectId = None
                     /\ confirmations[c].projectKey = projects'[id].projectKey
               /\ \A d \in ConfirmationIds \ {c} : confirmations'[d] = confirmations[d]
               /\ fableChanges' = [fableChanges EXCEPT ![id][session] = @ + 1]
    BY <1>3 DEF PolicyGiven
  <1>4. ASSUME ~fable
        PROVE  /\ confirmations' = confirmations
               /\ fableChanges' = [fableChanges EXCEPT ![id][session] = @ + 0]
    BY <1>4 DEF PolicyGiven
  <1> HIDE DEF fable
  <1>5. /\ \A i \in ProjectIds : \A s \in Sessions :
             fableChanges'[i][s] =
               IF i = id /\ s = session /\ fable THEN fableChanges[i][s] + 1
               ELSE fableChanges[i][s]
        /\ \A i \in ProjectIds : \A s \in Sessions : fableChanges[i][s] \in Nat
    <2>1. fableChanges \in [ProjectIds -> [Sessions -> Nat]]
      BY DEF TypeOK
    <2>2. CASE fable
      BY <2>1, <2>2, <1>3, NestedCount
    <2>3. CASE ~fable
      BY <2>1, <2>3, <1>4, NestedCount
    <2> QED BY <2>1, <2>2, <2>3
  (* What was consumed before has its project, by its id or by its key.     *)
  <1>6. ASSUME NEW d \in ConfirmationIds, Consumed(d)
        PROVE  \E i \in ProjectIds :
                 /\ IsRow(projects[i])
                 /\ \/ confirmations[d].projectId = i
                    \/ confirmations[d].projectKey = projects[i].projectKey
    BY <1>6 DEF Warned, FableIsConfirmed, ConsumedFor, Consumed
  <1>7. ASSUME ~IsRow(projects[id])
        PROVE  /\ \A d \in ConfirmationIds : Consumed(d) =>
                    /\ confirmations[d].projectId # id
                    /\ confirmations[d].projectKey # projects'[id].projectKey
               /\ \A s \in Sessions : fableChanges[id][s] = 0
    <2>1. \A i \in ProjectIds :
            IsRow(projects[i]) => projects[i].projectKey # projects'[id].projectKey
      BY <1>7 DEF PolicyGiven
    <2>2. ASSUME NEW d \in ConfirmationIds, Consumed(d)
          PROVE  /\ confirmations[d].projectId # id
                 /\ confirmations[d].projectKey # projects'[id].projectKey
      <3>1. PICK i \in ProjectIds :
              /\ IsRow(projects[i])
              /\ \/ confirmations[d].projectId = i
                 \/ confirmations[d].projectKey = projects[i].projectKey
        BY <2>2, <1>6
      <3>2. projects[i].projectKey \in ProjectKeys
        BY <3>1, ProjectRow DEF TypeOK, Project
      <3>3. \/ confirmations[d].projectId = None /\ confirmations[d].projectKey \in ProjectKeys
            \/ confirmations[d].projectId \in ProjectIds /\ confirmations[d].projectKey = None
        BY <2>2 DEF Warned, Addressed, Consumed
      <3> QED BY <3>1, <3>2, <3>3, <2>1, <1>1, <1>2, <1>7
    <2> QED BY <2>2, <1>7 DEF Warned, Unchanged
  <1>8. IsRow(projects[id]) => projects'[id].projectKey = projects[id].projectKey
    BY DEF PolicyGiven
  <1>9. \A d \in ConfirmationIds :
          /\ Consumed(d)' <=> Consumed(d) \/ (fable /\ d = c)
          /\ Consumed(d) => confirmations'[d] = confirmations[d]
    BY <1>3, <1>4 DEF Consumed
  (* The other projects have what they had.                                 *)
  <1>10. ASSUME NEW i \in ProjectIds \ {id}, IsRow(projects[i])
         PROVE  /\ ConsumedFor(i)' = ConsumedFor(i)
                /\ \A d \in ConsumedFor(i) : confirmations'[d] = confirmations[d]
                /\ \A s \in Sessions : BySession(i, s)' = BySession(i, s)
    <2>1. projects'[i] = projects[i] /\ projects[i].projectKey \in ProjectKeys
      BY <1>1, <1>10, ProjectRow DEF TypeOK, Project
    <2>2. projects[i].projectKey # projects'[id].projectKey
      BY <1>8, <1>10 DEF PolicyGiven, Distinct
    <2>3. fable => c \notin ConsumedFor(i)' /\ c \notin ConsumedFor(i)
      BY <2>1, <2>2, <1>2, <1>3 DEF ConsumedFor, Consumed
    <2>4. ConsumedFor(i)' = ConsumedFor(i)
      BY <2>1, <2>3, <1>9 DEF ConsumedFor, Consumed
    <2>5. \A d \in ConsumedFor(i) : confirmations'[d] = confirmations[d]
      BY <1>9 DEF ConsumedFor, Consumed
    <2> QED BY <2>4, <2>5 DEF BySession
  (* And this one has c besides, if it is given Fable.                      *)
  <1>11. ASSUME NEW d \in ConfirmationIds
         PROVE  d \in ConsumedFor(id)' <=>
                  \/ IsRow(projects[id]) /\ d \in ConsumedFor(id)
                  \/ fable /\ d = c
    <2>1. CASE fable /\ d = c
      BY <2>1, <1>3 DEF ConsumedFor, Consumed
    <2>2. CASE ~(fable /\ d = c) /\ IsRow(projects[id])
      BY <2>2, <1>8, <1>9 DEF ConsumedFor, Consumed
    <2>3. CASE ~(fable /\ d = c) /\ ~IsRow(projects[id])
      BY <2>3, <1>7, <1>9 DEF ConsumedFor, Consumed
    <2> QED BY <2>1, <2>2, <2>3
  <1>12. ASSUME NEW s \in Sessions
         PROVE  Cardinality(BySession(id, s)') = fableChanges'[id][s]
    <2> DEFINE before == IF IsRow(projects[id]) THEN BySession(id, s) ELSE {}
    <2>1. Cardinality(before) = fableChanges[id][s] /\ IsFiniteSet(before)
      <3>1. CASE IsRow(projects[id])
        BY <3>1, FinitelyMany DEF Warned, FableIsConfirmed, BySession
      <3>2. CASE ~IsRow(projects[id])
        BY <3>2, <1>7, FS_EmptySet
      <3> QED BY <3>1, <3>2
    <2>2. \A d \in ConfirmationIds :
            d \in BySession(id, s)' <=> d \in before \/ (fable /\ d = c /\ s = session)
      BY <1>3, <1>9, <1>11 DEF BySession, ConsumedFor, Consumed
    <2>3. BySession(id, s)' \subseteq ConfirmationIds /\ before \subseteq ConfirmationIds
      BY DEF BySession, ConsumedFor
    <2>4. fable => c \notin before
      BY <1>3 DEF BySession, ConsumedFor, Consumed
    <2> HIDE DEF before
    <2>5. CASE fable /\ s = session
      <3>1. BySession(id, s)' = before \cup {c}
        BY <2>2, <2>3, <2>5, <1>3
      <3>2. Cardinality(before \cup {c}) = Cardinality(before) + 1
        BY <2>1, <2>4, <2>5, FS_AddElement
      <3>3. fableChanges'[id][s] = fableChanges[id][s] + 1
        BY <2>5, <1>5
      <3>4. Cardinality(BySession(id, s)') = Cardinality(before) + 1
        BY <3>1, <3>2
      <3> QED BY <3>3, <3>4, <2>1
    <2>6. CASE ~(fable /\ s = session)
      <3>1. BySession(id, s)' = before
        BY <2>2, <2>3, <2>6
      <3> QED BY <3>1, <2>1, <2>6, <1>5
    <2> QED BY <2>5, <2>6
  <1>13. ASSUME NEW i \in ProjectIds, IsRow(projects'[i])
         PROVE  /\ \A s \in Sessions : Cardinality(BySession(i, s)') = fableChanges'[i][s]
                /\ projects'[i].providerPolicy.allowFable =>
                     \E d \in ConsumedFor(i)' :
                       confirmations'[d].policy = projects'[i].providerPolicy
    <2>1. CASE i = id
      BY <2>1, <1>3, <1>11, <1>12 DEF fable
    <2>2. CASE i # id
      <3>1. projects'[i] = projects[i]
        BY <2>2, <1>1
      <3>2. /\ \A s \in Sessions : Cardinality(BySession(i, s)) = fableChanges[i][s]
            /\ projects[i].providerPolicy.allowFable =>
                 \E d \in ConsumedFor(i) : confirmations[d].policy = projects[i].providerPolicy
        BY <3>1, <1>13 DEF Warned, FableIsConfirmed, BySession
      <3> QED BY <2>2, <3>1, <3>2, <1>5, <1>10, <1>13
    <2> QED BY <2>1, <2>2
  <1>14. ASSUME NEW d \in ConfirmationIds, Consumed(d)'
         PROVE  \E i \in ProjectIds : IsRow(projects'[i]) /\ d \in ConsumedFor(i)'
    <2>1. CASE fable /\ d = c
      BY <2>1, <1>1, <1>11
    <2>2. CASE ~(fable /\ d = c)
      <3>1. Consumed(d)
        BY <2>2, <1>9, <1>14
      <3>2. PICK i \in ProjectIds : IsRow(projects[i]) /\ d \in ConsumedFor(i)
        BY <3>1 DEF Warned, FableIsConfirmed, Consumed
      <3> QED BY <3>2, <1>1, <1>10, <1>11
    <2> QED BY <2>1, <2>2
  <1>15. FableIsConfirmed'
    BY <1>13, <1>14 DEF FableIsConfirmed, BySession, Consumed
  <1>16. Addressed'
    <2>1. CASE fable
      BY <2>1, <1>3 DEF Warned, Addressed
    <2>2. CASE ~fable
      BY <2>2, <1>4 DEF Warned, Addressed
    <2> QED BY <2>1, <2>2
  <1>17. Unchanged'
    BY <1>1, <1>5 DEF Warned, Unchanged
  <1> QED BY <1>15, <1>16, <1>17 DEF Warned

(* consume and the record of the change, as both mutations make them.      *)
LEMMA GivePolicy ==
  ASSUME TypeOK, NEW id \in ProjectIds, NEW session \in Sessions,
         NEW c \in ConfirmationIds \cup {None}, NEW scope, NEW key, NEW target,
         NEW policy \in ProviderPolicy,
         consume(c, session, scope, key, target, policy), FableChange(id, session, policy),
         IsRow(projects'[id]), policy = projects'[id].providerPolicy,
         \A i \in ProjectIds \ {id} : projects'[i] = projects[i],
         IF IsRow(projects[id])
           THEN projects'[id].projectKey = projects[id].projectKey
           ELSE \A i \in ProjectIds :
                  IsRow(projects[i]) => projects[i].projectKey # projects'[id].projectKey,
         \/ target = id /\ key = None
         \/ target = None /\ key = projects'[id].projectKey
  PROVE  /\ PolicyGiven(id, session, c)
         /\ confirmations' \in [ConfirmationIds -> ProviderPolicyConfirmation \cup {NoRow}]
         /\ fableChanges' \in [ProjectIds -> [Sessions -> Nat]]
  <1>1. fableChanges \in [ProjectIds -> [Sessions -> Nat]] /\ policy.allowFable \in BOOLEAN
    BY DEF TypeOK, ProviderPolicy
  <1>2. CASE policy.allowFable
    <2>1. /\ c \in ConfirmationIds /\ IsRow(confirmations[c])
          /\ confirmations[c].session = session /\ confirmations[c].policy = policy
          /\ confirmations[c].projectKey = key /\ confirmations[c].projectId = target
          /\ confirmations[c].consumedAt = None /\ confirmations[c].expiresAt > now
          /\ confirmations' = [confirmations EXCEPT ![c].consumedAt = now]
      BY <1>2 DEF consume, Consumable
    <2>2. confirmations[c] \in ProviderPolicyConfirmation /\ confirmations[c].expiresAt \in Int
      BY <2>1, ConfirmationRow DEF TypeOK, ProviderPolicyConfirmation
    <2> DEFINE row == [confirmations[c] EXCEPT !.consumedAt = now]
    <2>3. now \in Int /\ now # None
      BY ProjectsAssumption DEF TypeOK
    <2>4. row \in ProviderPolicyConfirmation
      BY <2>2, <2>3 DEF ProviderPolicyConfirmation
    <2>5. /\ row.session = session /\ row.policy = policy /\ row.projectKey = key
          /\ row.projectId = target /\ row.consumedAt = now
          /\ row.expiresAt = confirmations[c].expiresAt
      BY <2>1, <2>2 DEF ProviderPolicyConfirmation
    <2>6. IsRow(row)
      BY <2>4, ConfirmationRow
    <2>7. confirmations' = [confirmations EXCEPT ![c] = row]
      BY <2>1 DEF TypeOK
    <2> HIDE DEF row
    <2>8. /\ confirmations' \in [ConfirmationIds -> ProviderPolicyConfirmation \cup {NoRow}]
          /\ confirmations'[c] = row
          /\ \A d \in ConfirmationIds \ {c} : confirmations'[d] = confirmations[d]
      BY <2>1, <2>4, <2>7 DEF TypeOK
    <2>9. fableChanges' = [fableChanges EXCEPT ![id][session] = @ + 1]
      BY <1>2 DEF FableChange
    <2>10. fableChanges' \in [ProjectIds -> [Sessions -> Nat]]
      BY <1>1, <2>9, NestedCount
    <2>11. ~Consumed(c) /\ Consumed(c)'
      BY <2>1, <2>3, <2>5, <2>6, <2>8 DEF Consumed
    <2>12. now < confirmations[c].expiresAt
      BY <2>1, <2>2, <2>3
    <2> QED BY <1>2, <2>1, <2>5, <2>8, <2>9, <2>10, <2>11, <2>12 DEF PolicyGiven
  <1>3. CASE ~policy.allowFable
    <2>1. UNCHANGED confirmations
      BY <1>3 DEF consume
    <2>2. fableChanges' = [fableChanges EXCEPT ![id][session] = @ + 0]
      BY <1>3 DEF FableChange
    <2>3. fableChanges' \in [ProjectIds -> [Sessions -> Nat]]
      BY <1>1, <2>2, NestedCount
    <2> QED BY <1>3, <2>1, <2>2, <2>3 DEF PolicyGiven, TypeOK
  <1> QED BY <1>1, <1>2, <1>3

-----------------------------------------------------------------------------
(* The operations.                                                         *)

LEMMA Initially == Init => IInv
  <1> SUFFICES ASSUME Init PROVE IInv
    OBVIOUS
  <1>1. TypeOK
    <2>1. \A p \in Processes : ~IsRow(registering[p]) /\ writer # p
      BY NotRows, ProjectsAssumption DEF Init
    <2>2. auditLog \in [AuditActions -> [ProjectIds -> Nat]]
      BY DEF Init
    <2>3. fableChanges \in [ProjectIds -> [Sessions -> Nat]]
      BY DEF Init
    <2>4. now \in 0 .. MaxTime
      BY ProjectsAssumption DEF Init
    <2> QED BY <2>1, <2>2, <2>3, <2>4 DEF Init, TypeOK
  <1>2. /\ \A id \in ProjectIds : ~IsRow(projects[id])
        /\ \A c \in ConfirmationIds : ~IsRow(confirmations[c])
        /\ \A t \in TaskIds : ~IsRow(tasks[t])
        /\ \A w \in WorktreeIds : ~IsRow(worktrees[w])
        /\ \A p \in Processes : ~IsRow(registering[p])
    BY NotRows DEF Init
  <1>3. Counted
    BY <1>2 DEF Init, Counted, AuditActions
  <1>4. Housed /\ Distinct /\ LiveTasksKeepTheirBounds /\ PolicyHolds
    BY <1>2 DEF Housed, Distinct, LiveTasksKeepTheirBounds, PolicyHolds
  <1>5. FableIsConfirmed /\ Addressed
    BY <1>2 DEF FableIsConfirmed, Addressed
  <1>6. Unchanged
    BY DEF Init, Unchanged
  <1> QED BY <1>1, <1>3, <1>4, <1>5, <1>6 DEF IInv, Warned

LEMMA ConfirmStep ==
  ASSUME IInv, NEW session \in Sessions, NEW c \in ConfirmationIds, Confirm(c, session)
  PROVE  IInv'
  <1>1. PICK policy \in ProviderPolicy, scope \in {"project-create", "project-update"},
             key \in ProjectKeys \cup {None}, id \in ProjectIds \cup {None} :
          /\ createConfirmation(c, session, scope, key, id, policy)
          /\ \/ key \in ProjectKeys /\ id = None
             \/ key = None /\ id \in ProjectIds
    BY ProjectsAssumption DEF Confirm
  <1> DEFINE row == [session |-> session, scope |-> scope, projectKey |-> key,
                     projectId |-> id, policy |-> policy,
                     expiresAt |-> now + ConfirmationLifetime, consumedAt |-> None]
  <1>2. /\ confirmations[c] = NoRow
        /\ confirmations' = [confirmations EXCEPT ![c] = row]
        /\ UNCHANGED <<projects, tasks, worktrees, auditLog, fableChanges, registering,
                       writer, now>>
    BY <1>1 DEF createConfirmation
  <1>3. now + ConfirmationLifetime \in Int
    BY DEF IInv, TypeOK, ConfirmationLifetime
  <1>4. /\ row \in ProviderPolicyConfirmation
        /\ row.consumedAt = None /\ row.projectKey = key /\ row.projectId = id
    BY <1>1, <1>3 DEF ProviderPolicyConfirmation
  <1> HIDE DEF row
  <1>5. /\ confirmations' \in [ConfirmationIds -> ProviderPolicyConfirmation \cup {NoRow}]
        /\ confirmations'[c] = row
        /\ \A d \in ConfirmationIds \ {c} : confirmations'[d] = confirmations[d]
    BY <1>2, <1>4 DEF IInv, TypeOK
  <1>6. TypeOK'
    BY <1>2, <1>5 DEF IInv, TypeOK
  <1>7. Addressed'
    BY <1>1, <1>4, <1>5 DEF IInv, Warned, Addressed
  <1>8. ~Consumed(c) /\ ~Consumed(c)'
    BY <1>2, <1>4, <1>5, NotRows DEF Consumed
  <1>9. Warned'
    <2>1. \A d \in ConfirmationIds :
            /\ Consumed(d)' <=> Consumed(d)
            /\ Consumed(d) => confirmations'[d] = confirmations[d]
      BY <1>5, <1>8 DEF Consumed
    <2> QED BY <1>2, <1>7, <2>1, WarnedKept DEF IInv
  <1>10. Counted' /\ Housed' /\ Distinct'
    BY <1>2 DEF IInv, Counted, Housed, Distinct, findActiveById
  <1>11. LiveTasksKeepTheirBounds' /\ PolicyHolds'
    BY <1>2 DEF IInv, LiveTasksKeepTheirBounds, PolicyHolds, findActiveById
  <1> QED BY <1>6, <1>9, <1>10, <1>11 DEF IInv

(* Nothing but the registrations under way.                                *)
LEMMA StoreKept ==
  ASSUME IInv, UNCHANGED store, TypeOK',
         \A p \in Processes : IsRow(registering'[p]) =>
           assertRegistrationPolicy(registering'[p].input.classification,
                                    registering'[p].input.providerPolicy)
  PROVE  IInv'
  <1>1. UNCHANGED <<projects, confirmations, tasks, worktrees, auditLog, fableChanges>>
    BY DEF store
  <1>2. Counted' /\ Housed' /\ Distinct'
    BY <1>1 DEF IInv, Counted, Housed, Distinct, findActiveById
  <1>3. LiveTasksKeepTheirBounds' /\ PolicyHolds'
    BY <1>1 DEF IInv, LiveTasksKeepTheirBounds, PolicyHolds, findActiveById
  <1>4. Warned'
    <2>1. Addressed'
      BY <1>1 DEF IInv, Warned, Addressed
    <2> QED BY <1>1, <2>1, WarnedKept DEF IInv, Consumed
  <1> QED BY <1>2, <1>3, <1>4 DEF IInv

(* The fields of the rows a registration is made of.                       *)
LEMMA RegistrationFields ==
  ASSUME NEW r \in Registration
  PROVE  /\ r.input \in ProjectRegistrationInput /\ r.session \in Sessions
         /\ r.confirmation \in ConfirmationIds \cup {None}
         /\ r.changed \in BOOLEAN /\ r.phase \in {"validated", "prepared"}
  BY DEF Registration

LEMMA RegisteringStep ==
  ASSUME IInv, NEW p \in Processes,
         \/ \E session \in Sessions, c \in ConfirmationIds \cup {None},
               input \in RegistrationInputs : register(p, input, session, c)
         \/ prepare(p) \/ editRepository(p) \/ rollBack(p)
  PROVE  IInv'
  <1>1. /\ registering \in [Processes -> Registration \cup {NoRow}]
        /\ writer \in Processes \cup {None}
        /\ \A o \in Processes : IsRow(registering[o]) <=> writer = o
        /\ \A o \in Processes : IsRow(registering[o]) =>
             assertRegistrationPolicy(registering[o].input.classification,
                                      registering[o].input.providerPolicy)
    BY DEF IInv, TypeOK, PolicyHolds
  <1>2. UNCHANGED <<store, now>>
    BY DEF register, prepare, editRepository, rollBack
  <1>3. ASSUME NEW session \in Sessions, NEW c \in ConfirmationIds \cup {None},
               NEW input \in RegistrationInputs, register(p, input, session, c)
        PROVE  IInv'
    <2> DEFINE row == [input |-> input, session |-> session, confirmation |-> c,
                       changed |-> FALSE, phase |-> "validated"]
    <2>1. /\ writer = None /\ writer' = p
          /\ registering' = [registering EXCEPT ![p] = row]
          /\ assertRegistrationPolicy(input.classification, input.providerPolicy)
      BY <1>3 DEF register
    <2>2. row \in Registration /\ row.input = input
      BY ProjectsAssumption DEF Registration
    <2>3. IsRow(row)
      BY <2>2, RegistrationRow
    <2> HIDE DEF row
    <2>4. /\ registering' \in [Processes -> Registration \cup {NoRow}]
          /\ registering'[p] = row
          /\ \A o \in Processes \ {p} : registering'[o] = registering[o] /\ ~IsRow(registering[o])
      BY <1>1, <2>1, <2>2, ProjectsAssumption
    <2>5. \A o \in Processes : IsRow(registering'[o]) <=> writer' = o
      BY <2>1, <2>3, <2>4
    <2>6. TypeOK'
      BY <1>2, <2>1, <2>4, <2>5 DEF IInv, TypeOK, store
    <2>7. \A o \in Processes : IsRow(registering'[o]) =>
            assertRegistrationPolicy(registering'[o].input.classification,
                                     registering'[o].input.providerPolicy)
      BY <2>1, <2>2, <2>4
    <2> QED BY <1>2, <2>6, <2>7, StoreKept
  <1>4. CASE prepare(p) \/ editRepository(p)
    <2>1. /\ IsRow(registering[p]) /\ UNCHANGED writer
          /\ \/ registering' = [registering EXCEPT ![p].phase = "prepared"]
             \/ registering' = [registering EXCEPT ![p].changed = ~@]
      BY <1>4 DEF prepare, editRepository
    <2>2. registering[p] \in Registration
      BY <1>1, <2>1, RegistrationRow
    <2>3. PICK row \in Registration :
            row.input = registering[p].input /\ registering' = [registering EXCEPT ![p] = row]
      <3>1. CASE registering' = [registering EXCEPT ![p].phase = "prepared"]
        <4> DEFINE row == [registering[p] EXCEPT !.phase = "prepared"]
        <4>1. row \in Registration /\ row.input = registering[p].input
          BY <2>2 DEF Registration
        <4>2. registering' = [registering EXCEPT ![p] = row]
          BY <1>1, <3>1
        <4> QED BY <4>1, <4>2
      <3>2. CASE registering' = [registering EXCEPT ![p].changed = ~@]
        <4> DEFINE flag == ~registering[p].changed
        <4>1. flag \in BOOLEAN
          OBVIOUS
        <4>2. registering' = [registering EXCEPT ![p] = [registering[p] EXCEPT !.changed = flag]]
          BY <1>1, <3>2
        <4> HIDE DEF flag
        <4>3. /\ [registering[p] EXCEPT !.changed = flag] \in Registration
              /\ [registering[p] EXCEPT !.changed = flag].input = registering[p].input
          BY <2>2, <4>1 DEF Registration
        <4> QED BY <4>2, <4>3
      <3> QED BY <2>1, <3>1, <3>2
    <2>4. /\ registering' \in [Processes -> Registration \cup {NoRow}]
          /\ registering'[p] = row /\ IsRow(row)
          /\ \A o \in Processes \ {p} : registering'[o] = registering[o]
      BY <1>1, <2>3, RegistrationRow
    <2>5. TypeOK'
      BY <1>1, <1>2, <2>1, <2>4 DEF IInv, TypeOK, store
    <2>6. \A o \in Processes : IsRow(registering'[o]) =>
            assertRegistrationPolicy(registering'[o].input.classification,
                                     registering'[o].input.providerPolicy)
      BY <1>1, <2>1, <2>3, <2>4
    <2> QED BY <1>2, <2>5, <2>6, StoreKept
  <1>5. CASE rollBack(p)
    <2>1. /\ IsRow(registering[p]) /\ writer' = None
          /\ registering' = [registering EXCEPT ![p] = NoRow]
      BY <1>5 DEF rollBack, ClosedTransaction
    <2>2. /\ registering' \in [Processes -> Registration \cup {NoRow}]
          /\ \A o \in Processes : ~IsRow(registering'[o]) /\ writer' # o
      BY <1>1, <2>1, NotRows, ProjectsAssumption
    <2>3. TypeOK'
      BY <1>2, <2>1, <2>2 DEF IInv, TypeOK, store
    <2> QED BY <1>2, <2>2, <2>3, StoreKept
  <1> QED BY <1>3, <1>4, <1>5

LEMMA AuditWritten ==
  ASSUME TypeOK, NEW action \in AuditActions, NEW id \in ProjectIds, writeAudit(action, id)
  PROVE  /\ auditLog' \in [AuditActions -> [ProjectIds -> Nat]]
         /\ \A a \in AuditActions : \A i \in ProjectIds :
              auditLog'[a][i] = IF a = action /\ i = id THEN auditLog[a][i] + 1
                                ELSE auditLog[a][i]
  <1>1. auditLog \in [AuditActions -> [ProjectIds -> Nat]]
    BY DEF TypeOK
  <1>2. auditLog' = [auditLog EXCEPT ![action][id] = @ + 1]
    BY DEF writeAudit
  <1> QED BY <1>1, <1>2, NestedCount

LEMMA PersistStep ==
  ASSUME IInv, NEW p \in Processes, NEW id \in ProjectIds, persist(p, id)
  PROVE  /\ IInv' /\ UNCHANGED now
         /\ \E session \in Sessions, c \in ConfirmationIds \cup {None} :
              PolicyGiven(id, session, c)
  <1> DEFINE r == registering[p]
             row == [projectKey |-> r.input.projectKey,
                     repositoryPath |-> r.input.repositoryPath,
                     classification |-> r.input.classification,
                     providerPolicy |-> r.input.providerPolicy,
                     allowedAgentIds |-> r.input.allowedAgentIds,
                     allowedCommands |-> r.input.allowedCommands, unregistered |-> FALSE]
  <1>1. r \in Registration /\ IsRow(r)
    BY RegistrationRow DEF persist, IInv, TypeOK
  <1>2. /\ Insertable(id, r.input)
        /\ projects' = [projects EXCEPT ![id] = row]
        /\ consume(r.confirmation, r.session, "project-create", r.input.projectKey, None,
                   r.input.providerPolicy)
        /\ writeAudit("project.registered", id)
        /\ FableChange(id, r.session, r.input.providerPolicy)
        /\ registering' = [registering EXCEPT ![p] = NoRow] /\ writer' = None
        /\ UNCHANGED <<tasks, worktrees, now>>
    BY DEF persist, ClosedTransaction
  <1>3. /\ r.input \in ProjectRegistrationInput /\ r.session \in Sessions
        /\ r.confirmation \in ConfirmationIds \cup {None}
    BY <1>1, RegistrationFields
  <1>4. assertRegistrationPolicy(r.input.classification, r.input.providerPolicy)
    BY <1>1 DEF IInv, PolicyHolds
  <1>5. /\ row \in Project /\ ~row.unregistered
        /\ row.projectKey = r.input.projectKey
        /\ row.repositoryPath = r.input.repositoryPath
        /\ row.classification = r.input.classification
        /\ row.providerPolicy = r.input.providerPolicy
        /\ r.input.providerPolicy \in ProviderPolicy
    BY <1>3 DEF Project, ProjectRegistrationInput
  <1> HIDE DEF row
  <1>6. IsRow(row)
    BY <1>5, ProjectRow
  <1>7. /\ projects[id] = NoRow /\ ~IsRow(projects[id])
        /\ findActiveByPath(r.input.repositoryPath) = {}
        /\ \A i \in ProjectIds : IsRow(projects[i]) =>
             projects[i].projectKey # r.input.projectKey
    BY <1>2, NotRows DEF Insertable
  <1>8. \A i \in ProjectIds : IsRow(projects[i]) /\
          projects[i].repositoryPath = r.input.repositoryPath => projects[i].unregistered
    BY <1>7 DEF findActiveByPath, findActiveById
  <1>9. /\ projects' \in [ProjectIds -> Project \cup {NoRow}]
        /\ projects'[id] = row
        /\ \A i \in ProjectIds \ {id} : projects'[i] = projects[i]
    BY <1>2, <1>5 DEF IInv, TypeOK
  <1>10. /\ PolicyGiven(id, r.session, r.confirmation)
         /\ confirmations' \in [ConfirmationIds -> ProviderPolicyConfirmation \cup {NoRow}]
         /\ fableChanges' \in [ProjectIds -> [Sessions -> Nat]]
    <2> HIDE DEF r
    <2>1. IsRow(projects'[id]) /\ r.input.providerPolicy = projects'[id].providerPolicy
      BY <1>5, <1>6, <1>9
    <2>2. /\ projects'[id].projectKey = r.input.projectKey
          /\ \A i \in ProjectIds :
               IsRow(projects[i]) => projects[i].projectKey # projects'[id].projectKey
      BY <1>5, <1>7, <1>9
    <2> QED BY <1>2, <1>3, <1>5, <1>7, <1>9, <2>1, <2>2, GivePolicy DEF IInv
  <1>11. Warned'
    BY <1>3, <1>9, <1>10, WarnedChanged DEF IInv
  <1>12. /\ auditLog' \in [AuditActions -> [ProjectIds -> Nat]]
         /\ \A a \in AuditActions : \A i \in ProjectIds :
              auditLog'[a][i] = IF a = "project.registered" /\ i = id
                                THEN auditLog[a][i] + 1 ELSE auditLog[a][i]
    BY <1>2, AuditWritten DEF IInv, AuditActions
  <1>13. Counted'
    BY <1>5, <1>6, <1>7, <1>9, <1>12 DEF IInv, Counted, AuditActions
  <1>14. /\ registering' \in [Processes -> Registration \cup {NoRow}]
         /\ \A o \in Processes : ~IsRow(registering'[o]) /\ writer' # o
    BY <1>1, <1>2, NotRows, ProjectsAssumption DEF IInv, TypeOK
  <1>15. TypeOK'
    BY <1>2, <1>9, <1>10, <1>12, <1>14 DEF IInv, TypeOK
  <1>16. Distinct'
    BY <1>5, <1>7, <1>8, <1>9 DEF IInv, Distinct
  <1>17. PolicyHolds'
    <2>1. \A i \in ProjectIds : IsRow(projects'[i]) =>
            assertRegistrationPolicy(projects'[i].classification, projects'[i].providerPolicy)
      BY <1>4, <1>5, <1>9 DEF IInv, PolicyHolds
    <2> QED BY <2>1, <1>14 DEF PolicyHolds
  <1>18. Housed'
    BY <1>2, <1>7, <1>9, WorktreeRow DEF IInv, TypeOK, Housed, findActiveById, Worktree
  <1>19. LiveTasksKeepTheirBounds'
    <2>1. ASSUME NEW t \in TaskIds, IsRow(tasks[t]), tasks[t].status \notin TerminalTask
          PROVE  projects'[tasks[t].project] = projects[tasks[t].project]
      <3>1. tasks[t].project \in ProjectIds
        BY <2>1, TaskRow DEF IInv, TypeOK, Task
      <3>2. IsRow(projects[tasks[t].project])
        BY <2>1 DEF IInv, LiveTasksKeepTheirBounds, findActiveById
      <3> QED BY <3>1, <3>2, <1>7, <1>9
    <2> QED BY <1>2, <2>1 DEF IInv, LiveTasksKeepTheirBounds, findActiveById
  <1>20. IInv'
    BY <1>11, <1>13, <1>15, <1>16, <1>17, <1>18, <1>19 DEF IInv
  <1> QED BY <1>2, <1>3, <1>10, <1>20

LEMMA UnregisterStep ==
  ASSUME IInv, NEW id \in ProjectIds, unregister(id)
  PROVE  IInv'
  <1> DEFINE row == [projects[id] EXCEPT !.unregistered = TRUE]
  <1>1. /\ IsRow(projects[id]) /\ ~projects[id].unregistered
        /\ ~hasNonterminalTasks(id) /\ ~hasRetainedWorktrees(id)
        /\ projects' = [projects EXCEPT ![id] = row]
        /\ writeAudit("project.unregistered", id)
        /\ UNCHANGED <<confirmations, tasks, worktrees, fableChanges, registering, writer, now>>
    BY DEF unregister, findActiveById, IInv, TypeOK
  <1>2. projects[id] \in Project
    BY <1>1, ProjectRow DEF IInv, TypeOK
  <1>3. /\ row \in Project /\ row.unregistered
        /\ row.projectKey = projects[id].projectKey
        /\ row.repositoryPath = projects[id].repositoryPath
        /\ row.classification = projects[id].classification
        /\ row.providerPolicy = projects[id].providerPolicy
    BY <1>2 DEF Project
  <1> HIDE DEF row
  <1>4. /\ projects' \in [ProjectIds -> Project \cup {NoRow}]
        /\ projects'[id] = row /\ IsRow(row)
        /\ \A i \in ProjectIds \ {id} : projects'[i] = projects[i]
    BY <1>1, <1>3, ProjectRow DEF IInv, TypeOK
  <1>5. /\ auditLog' \in [AuditActions -> [ProjectIds -> Nat]]
        /\ \A a \in AuditActions : \A i \in ProjectIds :
             auditLog'[a][i] = IF a = "project.unregistered" /\ i = id
                               THEN auditLog[a][i] + 1 ELSE auditLog[a][i]
    BY <1>1, AuditWritten DEF IInv, AuditActions
  <1>6. TypeOK'
    BY <1>1, <1>4, <1>5 DEF IInv, TypeOK
  <1>7. Counted'
    BY <1>1, <1>3, <1>4, <1>5 DEF IInv, Counted, AuditActions
  <1>8. Distinct'
    BY <1>1, <1>3, <1>4 DEF IInv, Distinct
  <1>9. PolicyHolds'
    BY <1>1, <1>3, <1>4 DEF IInv, PolicyHolds
  <1>10. Housed'
    <2>1. ASSUME NEW w \in WorktreeIds, IsRow(worktrees[w]), worktrees[w].status # "released"
          PROVE  findActiveById(worktrees[w].project)'
      <3>1. worktrees[w].project \in ProjectIds /\ worktrees[w].status \in {"active", "preserved"}
        BY <2>1, WorktreeRow DEF IInv, TypeOK, Worktree
      <3>2. worktrees[w].project # id
        BY <1>1, <2>1, <3>1 DEF hasRetainedWorktrees
      <3> QED BY <1>1, <1>4, <2>1, <3>1, <3>2 DEF IInv, Housed, findActiveById
    <2> QED BY <1>1, <2>1 DEF Housed
  <1>11. LiveTasksKeepTheirBounds'
    <2>1. ASSUME NEW t \in TaskIds, IsRow(tasks[t]), tasks[t].status \notin TerminalTask
          PROVE  projects'[tasks[t].project] = projects[tasks[t].project]
      <3>1. tasks[t].project \in ProjectIds /\ tasks[t].status \in Nonterminal
        BY <2>1, TaskRow DEF IInv, TypeOK, Task, TaskStatus, TerminalTask, Nonterminal
      <3>2. tasks[t].project # id
        BY <1>1, <2>1, <3>1 DEF hasNonterminalTasks
      <3> QED BY <3>1, <3>2, <1>4
    <2> QED BY <1>1, <2>1 DEF IInv, LiveTasksKeepTheirBounds, findActiveById
  <1>12. Warned'
    <2>1. Addressed'
      BY <1>1 DEF IInv, Warned, Addressed
    <2>2. \A c \in ConfirmationIds : (Consumed(c)' <=> Consumed(c))
                                     /\ (Consumed(c) => confirmations'[c] = confirmations[c])
      BY <1>1 DEF Consumed
    <2>3. \A i \in ProjectIds :
            /\ IsRow(projects'[i]) <=> IsRow(projects[i])
            /\ IsRow(projects[i]) =>
                 /\ projects'[i].projectKey = projects[i].projectKey
                 /\ projects'[i].providerPolicy = projects[i].providerPolicy
      BY <1>1, <1>3, <1>4
    <2> QED BY <1>1, <2>1, <2>2, <2>3, WarnedKept DEF IInv
  <1> QED BY <1>6, <1>7, <1>8, <1>9, <1>10, <1>11, <1>12 DEF IInv

(* Rows stay, and so do the keys of projects.                              *)
KeysKept ==
  \A i \in ProjectIds :
    /\ IsRow(projects'[i]) <=> IsRow(projects[i])
    /\ IsRow(projects[i]) => projects'[i].projectKey = projects[i].projectKey

(* What a patch leaves of a project, and what the policy allows it.        *)
LEMMA Narrowed ==
  ASSUME NEW bounds \in Bounds, NEW current \in Project, NEW next \in Project,
         NEW active \in BOOLEAN, assertUpdatePolicy(current, next, active), active,
         classificationRank[current.classification] >= classificationRank[bounds.classification],
         current.allowedAgentIds \subseteq bounds.allowedAgentIds,
         current.allowedCommands \subseteq bounds.allowedCommands
  PROVE  /\ classificationRank[next.classification]
              >= classificationRank[bounds.classification]
         /\ next.allowedAgentIds \subseteq bounds.allowedAgentIds
         /\ next.allowedCommands \subseteq bounds.allowedCommands
  <1>1. \A x \in Classifications : classificationRank[x] \in Int
    BY DEF Classifications, classificationRank
  <1>2. /\ bounds.classification \in Classifications
        /\ current.classification \in Classifications
        /\ next.classification \in Classifications
    BY DEF Bounds, Project
  <1>3. /\ classificationRank[next.classification] >= classificationRank[current.classification]
        /\ next.allowedAgentIds \subseteq current.allowedAgentIds
        /\ next.allowedCommands \subseteq current.allowedCommands
    BY DEF assertUpdatePolicy
  <1> HIDE DEF classificationRank
  <1>4. /\ classificationRank[next.classification] \in Int
        /\ classificationRank[current.classification] \in Int
        /\ classificationRank[bounds.classification] \in Int
    BY <1>1, <1>2
  <1>5. classificationRank[next.classification] >= classificationRank[bounds.classification]
    BY <1>3, <1>4
  <1> QED BY <1>3, <1>5

LEMMA UpdateStep ==
  ASSUME IInv, NEW session \in Sessions, NEW c \in ConfirmationIds \cup {None},
         NEW id \in ProjectIds, NEW patch \in Patches, update(id, patch, session, c)
  PROVE  /\ IInv' /\ UNCHANGED now
         /\ \/ PolicyGiven(id, session, c)
            \/ UNCHANGED <<confirmations, fableChanges>> /\ KeysKept
  <1> DEFINE next == Patched(projects[id], patch)
  <1>1. /\ IsRow(projects[id]) /\ ~projects[id].unregistered
        /\ assertUpdatePolicy(projects[id], next, hasNonterminalTasks(id))
        /\ projects' = [projects EXCEPT ![id] = next]
        /\ writeAudit("project.updated", id)
        /\ UNCHANGED <<tasks, worktrees, registering, writer, now>>
    BY DEF update, findActiveById
  <1>2. projects[id] \in Project
    BY <1>1, ProjectRow DEF IInv, TypeOK
  <1>3. /\ next \in Project
        /\ next.projectKey = projects[id].projectKey
        /\ next.repositoryPath = projects[id].repositoryPath
        /\ next.unregistered = projects[id].unregistered
        /\ patch.providerPolicy = None => next.providerPolicy = projects[id].providerPolicy
    BY <1>2, PatchedRow
  <1>4. \/ /\ patch.providerPolicy = None
           /\ UNCHANGED <<confirmations, fableChanges>>
        \/ /\ consume(c, session, "project-update", None, id, next.providerPolicy)
           /\ FableChange(id, session, next.providerPolicy)
    BY DEF update
  <1> HIDE DEF next
  <1>5. /\ projects' \in [ProjectIds -> Project \cup {NoRow}]
        /\ projects'[id] = next /\ IsRow(next)
        /\ \A i \in ProjectIds \ {id} : projects'[i] = projects[i]
    BY <1>1, <1>3, ProjectRow DEF IInv, TypeOK
  <1>6. /\ auditLog' \in [AuditActions -> [ProjectIds -> Nat]]
        /\ \A a \in AuditActions : \A i \in ProjectIds :
             auditLog'[a][i] = IF a = "project.updated" /\ i = id
                               THEN auditLog[a][i] + 1 ELSE auditLog[a][i]
    BY <1>1, AuditWritten DEF IInv, AuditActions
  <1>7. next.providerPolicy \in ProviderPolicy
    BY <1>3 DEF Project
  <1>8. /\ Warned'
        /\ confirmations' \in [ConfirmationIds -> ProviderPolicyConfirmation \cup {NoRow}]
        /\ fableChanges' \in [ProjectIds -> [Sessions -> Nat]]
        /\ \/ PolicyGiven(id, session, c)
           \/ UNCHANGED <<confirmations, fableChanges>> /\ KeysKept
    <2>1. CASE patch.providerPolicy = None /\ UNCHANGED <<confirmations, fableChanges>>
      <3>1. Addressed'
        BY <2>1 DEF IInv, Warned, Addressed
      <3>2. \A d \in ConfirmationIds : (Consumed(d)' <=> Consumed(d))
                                       /\ (Consumed(d) => confirmations'[d] = confirmations[d])
        BY <2>1 DEF Consumed
      <3>3. \A i \in ProjectIds :
              /\ IsRow(projects'[i]) <=> IsRow(projects[i])
              /\ IsRow(projects[i]) =>
                   /\ projects'[i].projectKey = projects[i].projectKey
                   /\ projects'[i].providerPolicy = projects[i].providerPolicy
        BY <2>1, <1>1, <1>3, <1>5
      <3>4. Warned'
        BY <2>1, <3>1, <3>2, <3>3, WarnedKept DEF IInv
      <3>5. KeysKept
        BY <3>3 DEF KeysKept
      <3> QED BY <2>1, <3>4, <3>5 DEF IInv, TypeOK
    <2>2. CASE /\ consume(c, session, "project-update", None, id, next.providerPolicy)
               /\ FableChange(id, session, next.providerPolicy)
      <3>1. /\ IsRow(projects'[id]) /\ next.providerPolicy = projects'[id].providerPolicy
            /\ projects'[id].projectKey = projects[id].projectKey
        BY <1>3, <1>5
      <3>2. /\ PolicyGiven(id, session, c)
            /\ confirmations' \in [ConfirmationIds -> ProviderPolicyConfirmation \cup {NoRow}]
            /\ fableChanges' \in [ProjectIds -> [Sessions -> Nat]]
        BY <2>2, <3>1, <1>1, <1>5, <1>7, GivePolicy DEF IInv
      <3> QED BY <1>5, <3>2, WarnedChanged DEF IInv
    <2> QED BY <1>4, <2>1, <2>2
  <1>9. TypeOK'
    BY <1>1, <1>5, <1>6, <1>8 DEF IInv, TypeOK
  <1>10. Counted'
    BY <1>1, <1>3, <1>5, <1>6 DEF IInv, Counted, AuditActions
  <1>11. Distinct'
    BY <1>1, <1>3, <1>5 DEF IInv, Distinct
  <1>12. PolicyHolds'
    <2>1. assertRegistrationPolicy(next.classification, next.providerPolicy)
      BY <1>1 DEF assertUpdatePolicy
    <2> QED BY <2>1, <1>1, <1>5 DEF IInv, PolicyHolds
  <1>13. Housed'
    BY <1>1, <1>3, <1>5, WorktreeRow DEF IInv, TypeOK, Housed, findActiveById, Worktree
  <1>14. LiveTasksKeepTheirBounds'
    <2>1. ASSUME NEW t \in TaskIds, IsRow(tasks[t]), tasks[t].status \notin TerminalTask
          PROVE  LET project == projects'[tasks[t].project]  bounds == tasks[t].bounds IN
                   /\ IsRow(project) /\ ~project.unregistered
                   /\ classificationRank[project.classification]
                        >= classificationRank[bounds.classification]
                   /\ project.allowedAgentIds \subseteq bounds.allowedAgentIds
                   /\ project.allowedCommands \subseteq bounds.allowedCommands
      <3>1. /\ tasks[t].project \in ProjectIds /\ tasks[t].status \in Nonterminal
            /\ tasks[t].bounds \in Bounds
        BY <2>1, TaskRow DEF IInv, TypeOK, Task, TaskStatus, TerminalTask, Nonterminal
      <3>2. LET project == projects[tasks[t].project]  bounds == tasks[t].bounds IN
              /\ IsRow(project) /\ ~project.unregistered
              /\ classificationRank[project.classification]
                   >= classificationRank[bounds.classification]
              /\ project.allowedAgentIds \subseteq bounds.allowedAgentIds
              /\ project.allowedCommands \subseteq bounds.allowedCommands
        BY <2>1 DEF IInv, LiveTasksKeepTheirBounds, findActiveById
      <3>3. CASE tasks[t].project # id
        BY <3>1, <3>2, <3>3, <1>5
      <3>4. CASE tasks[t].project = id
        <4>1. hasNonterminalTasks(id)
          BY <2>1, <3>1, <3>4 DEF hasNonterminalTasks
        <4>2. assertUpdatePolicy(projects[id], next, TRUE)
          BY <1>1, <4>1 DEF assertUpdatePolicy
        <4>3. /\ classificationRank[next.classification]
                   >= classificationRank[tasks[t].bounds.classification]
              /\ next.allowedAgentIds \subseteq tasks[t].bounds.allowedAgentIds
              /\ next.allowedCommands \subseteq tasks[t].bounds.allowedCommands
          BY <1>2, <1>3, <3>1, <3>2, <3>4, <4>2, Narrowed
        <4> QED BY <1>1, <1>3, <1>5, <3>4, <4>3
      <3> QED BY <3>3, <3>4
    <2> QED BY <1>1, <2>1 DEF LiveTasksKeepTheirBounds, findActiveById
  <1>15. IInv'
    BY <1>8, <1>9, <1>10, <1>11, <1>12, <1>13, <1>14 DEF IInv
  <1> QED BY <1>1, <1>8, <1>15

(* What tasks and worktrees do, and the clock, leaves the rest alone.      *)
LEMMA RestKept ==
  ASSUME IInv, UNCHANGED <<projects, confirmations, auditLog, fableChanges, registering>>
  PROVE  Counted' /\ Distinct' /\ PolicyHolds' /\ Warned'
  <1>1. Counted' /\ Distinct'
    BY DEF IInv, Counted, Distinct
  <1>2. PolicyHolds'
    BY DEF IInv, PolicyHolds
  <1>3. Addressed'
    BY DEF IInv, Warned, Addressed
  <1> QED BY <1>1, <1>2, <1>3, WarnedKept DEF IInv, Consumed

LEMMA TaskStep ==
  ASSUME IInv, NEW t \in TaskIds,
         \/ \E id \in ProjectIds, status \in TaskStatus : createTask(t, id, status)
         \/ \E status \in TaskStatus : transitionTask(t, status)
  PROVE  IInv'
  <1>1. UNCHANGED <<projects, confirmations, worktrees, auditLog, fableChanges, registering,
                    writer, now>>
    BY DEF createTask, transitionTask
  <1>2. tasks \in [TaskIds -> Task \cup {NoRow}]
    BY DEF IInv, TypeOK, Task
  <1>3. PICK row \in Task :
          /\ tasks' = [tasks EXCEPT ![t] = row]
          /\ \/ /\ findActiveById(row.project)
                /\ row.bounds.classification = projects[row.project].classification
                /\ row.bounds.allowedAgentIds = projects[row.project].allowedAgentIds
                /\ row.bounds.allowedCommands = projects[row.project].allowedCommands
             \/ /\ IsRow(tasks[t]) /\ row.project = tasks[t].project
                /\ row.bounds = tasks[t].bounds
                /\ tasks[t].status \notin TerminalTask
    <2>1. ASSUME NEW id \in ProjectIds, NEW status \in TaskStatus,
                 createTask(t, id, status)
          PROVE  \E row \in Task :
                   /\ tasks' = [tasks EXCEPT ![t] = row]
                   /\ findActiveById(row.project)
                   /\ row.bounds.classification = projects[row.project].classification
                   /\ row.bounds.allowedAgentIds = projects[row.project].allowedAgentIds
                   /\ row.bounds.allowedCommands = projects[row.project].allowedCommands
      <3> DEFINE bounds == [classification |-> projects[id].classification,
                            allowedAgentIds |-> projects[id].allowedAgentIds,
                            allowedCommands |-> projects[id].allowedCommands]
                 row == [project |-> id, status |-> status, bounds |-> bounds]
      <3>1. findActiveById(id) /\ tasks' = [tasks EXCEPT ![t] = row]
        BY <2>1 DEF createTask
      <3>2. projects[id] \in Project
        BY <3>1, ProjectRow DEF IInv, TypeOK, findActiveById
      <3>3. /\ bounds \in Bounds
            /\ bounds.classification = projects[id].classification
            /\ bounds.allowedAgentIds = projects[id].allowedAgentIds
            /\ bounds.allowedCommands = projects[id].allowedCommands
        BY <3>2 DEF Bounds, Project
      <3> HIDE DEF bounds
      <3>4. row \in Task /\ row.project = id /\ row.bounds = bounds
        BY <2>1, <3>3 DEF Task
      <3> QED BY <3>1, <3>3, <3>4
    <2>2. ASSUME NEW status \in TaskStatus, transitionTask(t, status)
          PROVE  \E row \in Task :
                   /\ tasks' = [tasks EXCEPT ![t] = row]
                   /\ IsRow(tasks[t]) /\ row.project = tasks[t].project
                   /\ row.bounds = tasks[t].bounds
                   /\ tasks[t].status \notin TerminalTask
      <3> DEFINE row == [tasks[t] EXCEPT !.status = status]
      <3>1. /\ IsRow(tasks[t]) /\ status \in taskTransitionTable[tasks[t].status]
            /\ tasks' = [tasks EXCEPT ![t] = row]
        BY <1>2, <2>2 DEF transitionTask, isAllowedTransition
      <3>2. tasks[t] \in Task
        BY <1>2, <3>1, TaskRow
      <3>3. row \in Task /\ row.project = tasks[t].project /\ row.bounds = tasks[t].bounds
        BY <3>2 DEF Task
      <3>4. tasks[t].status \notin TerminalTask
        BY <3>1 DEF taskTransitionTable, TerminalTask
      <3> QED BY <3>1, <3>3, <3>4
    <2> QED BY <2>1, <2>2
  <1>4. /\ tasks' \in [TaskIds -> Task \cup {NoRow}] /\ tasks'[t] = row
        /\ \A u \in TaskIds \ {t} : tasks'[u] = tasks[u]
    BY <1>2, <1>3
  <1>5. TypeOK'
    BY <1>1, <1>4 DEF IInv, TypeOK, Task
  <1>6. Housed'
    BY <1>1 DEF IInv, Housed, findActiveById
  <1>7. /\ findActiveById(row.project)
        /\ classificationRank[projects[row.project].classification]
             >= classificationRank[row.bounds.classification]
        /\ projects[row.project].allowedAgentIds \subseteq row.bounds.allowedAgentIds
        /\ projects[row.project].allowedCommands \subseteq row.bounds.allowedCommands
    <2>1. CASE /\ findActiveById(row.project)
               /\ row.bounds.classification = projects[row.project].classification
               /\ row.bounds.allowedAgentIds = projects[row.project].allowedAgentIds
               /\ row.bounds.allowedCommands = projects[row.project].allowedCommands
      <3>1. row.bounds.classification \in Classifications
        BY DEF Task, Bounds
      <3>2. classificationRank[row.bounds.classification] \in Int
        BY <3>1 DEF Classifications, classificationRank
      <3> QED BY <2>1, <3>2
    <2>2. CASE /\ IsRow(tasks[t]) /\ row.project = tasks[t].project
               /\ row.bounds = tasks[t].bounds
               /\ tasks[t].status \notin TerminalTask
      BY <2>2 DEF IInv, LiveTasksKeepTheirBounds
    <2> QED BY <1>3, <2>1, <2>2
  <1>8. LiveTasksKeepTheirBounds'
    BY <1>1, <1>4, <1>7 DEF IInv, LiveTasksKeepTheirBounds, findActiveById
  <1> QED BY <1>1, <1>5, <1>6, <1>8, RestKept DEF IInv

LEMMA WorktreeStep ==
  ASSUME IInv, NEW w \in WorktreeIds,
         \/ \E t \in TaskIds : createWorktree(w, t)
         \/ \E status \in {"preserved", "released"} : leaveWorktree(w, status)
  PROVE  IInv'
  <1>1. UNCHANGED <<projects, confirmations, tasks, auditLog, fableChanges, registering,
                    writer, now>>
    BY DEF createWorktree, leaveWorktree
  <1>2. worktrees \in [WorktreeIds -> Worktree \cup {NoRow}]
    BY DEF IInv, TypeOK, Worktree
  <1>3. PICK row \in Worktree :
          /\ worktrees' = [worktrees EXCEPT ![w] = row]
          /\ findActiveById(row.project)
    <2>1. ASSUME NEW t \in TaskIds, createWorktree(w, t)
          PROVE  \E row \in Worktree :
                   /\ worktrees' = [worktrees EXCEPT ![w] = row]
                   /\ findActiveById(row.project)
      <3> DEFINE row == [project |-> tasks[t].project, status |-> "active"]
      <3>1. /\ IsRow(tasks[t]) /\ tasks[t].status = "running"
            /\ worktrees' = [worktrees EXCEPT ![w] = row]
        BY <2>1 DEF createWorktree
      <3>2. tasks[t].project \in ProjectIds
        BY <3>1, TaskRow DEF IInv, TypeOK, Task
      <3>3. findActiveById(tasks[t].project)
        BY <3>1 DEF IInv, LiveTasksKeepTheirBounds, TerminalTask
      <3>4. row \in Worktree /\ row.project = tasks[t].project
        BY <3>2 DEF Worktree
      <3> QED BY <3>1, <3>3, <3>4
    <2>2. ASSUME NEW status \in {"preserved", "released"}, leaveWorktree(w, status)
          PROVE  \E row \in Worktree :
                   /\ worktrees' = [worktrees EXCEPT ![w] = row]
                   /\ findActiveById(row.project)
      <3> DEFINE row == [worktrees[w] EXCEPT !.status = status]
      <3>1. /\ IsRow(worktrees[w]) /\ worktrees[w].status # "released"
            /\ worktrees' = [worktrees EXCEPT ![w] = row]
        BY <1>2, <2>2 DEF leaveWorktree
      <3>2. worktrees[w] \in Worktree
        BY <1>2, <3>1, WorktreeRow
      <3>3. row \in Worktree /\ row.project = worktrees[w].project
        BY <3>2 DEF Worktree
      <3>4. findActiveById(worktrees[w].project)
        BY <3>1 DEF IInv, Housed
      <3> QED BY <3>1, <3>3, <3>4
    <2> QED BY <2>1, <2>2
  <1>4. /\ worktrees' \in [WorktreeIds -> Worktree \cup {NoRow}] /\ worktrees'[w] = row
        /\ \A v \in WorktreeIds \ {w} : worktrees'[v] = worktrees[v]
    BY <1>2, <1>3
  <1>5. TypeOK'
    BY <1>1, <1>4 DEF IInv, TypeOK, Worktree
  <1>6. Housed'
    BY <1>1, <1>3, <1>4 DEF IInv, Housed, findActiveById
  <1>7. LiveTasksKeepTheirBounds'
    BY <1>1 DEF IInv, LiveTasksKeepTheirBounds, findActiveById
  <1> QED BY <1>1, <1>5, <1>6, <1>7, RestKept DEF IInv

LEMMA TimePasses ==
  ASSUME IInv, Tick \/ UNCHANGED vars
  PROVE  IInv'
  <1>1. UNCHANGED <<store, registering, writer>> /\ now' \in 0 .. MaxTime
    BY ProjectsAssumption DEF Tick, vars, IInv, TypeOK
  <1>2. TypeOK'
    BY <1>1 DEF IInv, TypeOK, store
  <1> QED BY <1>1, <1>2, StoreKept DEF IInv, PolicyHolds

LEMMA Step == IInv /\ [Next]_vars => IInv'
  <1> SUFFICES ASSUME IInv, [Next]_vars PROVE IInv'
    OBVIOUS
  <1>1. ASSUME NEW session \in Sessions, NEW c \in ConfirmationIds, Confirm(c, session)
        PROVE  IInv'
    BY <1>1, ConfirmStep
  <1>2. ASSUME NEW session \in Sessions, NEW c \in ConfirmationIds \cup {None},
               NEW id \in ProjectIds, NEW patch \in Patches, update(id, patch, session, c)
        PROVE  IInv'
    BY <1>2, UpdateStep
  <1>3. ASSUME NEW p \in Processes,
               \/ \E session \in Sessions, c \in ConfirmationIds \cup {None},
                     input \in RegistrationInputs : register(p, input, session, c)
               \/ prepare(p) \/ editRepository(p) \/ rollBack(p)
        PROVE  IInv'
    BY <1>3, RegisteringStep
  <1>4. ASSUME NEW p \in Processes, NEW id \in ProjectIds, persist(p, id)
        PROVE  IInv'
    BY <1>4, PersistStep
  <1>5. ASSUME NEW id \in ProjectIds, unregister(id)
        PROVE  IInv'
    BY <1>5, UnregisterStep
  <1>6. ASSUME NEW t \in TaskIds,
               \/ \E id \in ProjectIds, status \in TaskStatus : createTask(t, id, status)
               \/ \E status \in TaskStatus : transitionTask(t, status)
        PROVE  IInv'
    BY <1>6, TaskStep
  <1>7. ASSUME NEW w \in WorktreeIds,
               \/ \E t \in TaskIds : createWorktree(w, t)
               \/ \E status \in {"preserved", "released"} : leaveWorktree(w, status)
        PROVE  IInv'
    BY <1>7, WorktreeStep
  <1>8. CASE Tick \/ UNCHANGED vars
    BY <1>8, TimePasses
  <1> QED BY <1>1, <1>2, <1>3, <1>4, <1>5, <1>6, <1>7, <1>8 DEF Next

(* The inductive invariant: the rows, the log and the confirmations agree  *)
(* in every state projects, tasks and worktrees can be in.                 *)
THEOREM ProjectsInvariant == Spec => []IInv
  BY Initially, Step, PTL DEF Spec

-----------------------------------------------------------------------------
(* What follows.                                                           *)

(* project-repository.ts: every project is registered once and unregistered *)
(* at most once in the audit log, the unique indexes of key and path are    *)
(* never in doubt, and an unregistered project has no live worktree.        *)
THEOREM ProjectsAreConsistent == Spec => []ProjectsConsistent
  <1>1. IInv => ProjectsConsistent
    BY DEF IInv, Counted, Housed, Distinct, ProjectsConsistent, findActiveById
  <1> QED BY <1>1, ProjectsInvariant, PTL

(* provider-policy-confirmation-repository.ts and project-registration.ts:  *)
(* however often registrations and updates are refused, rolled back and     *)
(* tried again, every change to a policy with Fable has consumed exactly    *)
(* one confirmation, made in its session for that project and that policy.  *)
THEOREM FableIsAlwaysConfirmed == Spec => []FableIsConfirmed
  <1>1. IInv => FableIsConfirmed
    BY DEF IInv, Warned
  <1> QED BY <1>1, ProjectsInvariant, PTL

(* project-policy.ts and project-repository.ts: while a task lives, no       *)
(* series of updates lowers its project's classification or widens the      *)
(* agents and commands it allows, and the project is not unregistered.  Of  *)
(* the provider policy, which may be widened meanwhile, nothing is said.    *)
THEOREM LiveTasksAlwaysKeepTheirBounds == Spec => []LiveTasksKeepTheirBounds
  <1>1. IInv => LiveTasksKeepTheirBounds
    BY DEF IInv
  <1> QED BY <1>1, ProjectsInvariant, PTL

(* provider-transfer-policy.ts and project-policy.ts: for every project     *)
(* that can be stored and every profile, the two lists of Arca's candidates *)
(* differ by the validity of the profile alone, and what either service     *)
(* lists, assertAllowed lets through.                                       *)
THEOREM PolicyServicesAlwaysAgree == Spec => []PolicyServicesAgree
  <1>1. ASSUME IInv, NEW id \in ProjectIds, NEW profile \in Profiles, IsRow(projects[id])
        PROVE  LET project == projects[id]
                   arca == arcaCandidates(project, profile)
                   transfer == transferCandidates(project, profile)
                   effective == effectiveModels(project, profile)
               IN /\ arca = IF profile.valid THEN transfer ELSE {}
                  /\ arca \subseteq effective
                  /\ ~profile.valid => effective = {}
                  /\ assertCanPlanOrStart(project) =>
                       /\ \A m \in transfer,
                             payload \in {"public", "internal", "confidential"},
                             selection \in {"arca-default", "arca-fallback", "direct"} :
                            assertAllowed(project, m, payload, selection, FALSE)
                       /\ \A m \in effective :
                            assertAllowed(project, m, project.classification, "direct", TRUE)
                  /\ ~assertCanPlanOrStart(project) => effective = {} /\ transfer = {}
    <2> DEFINE project == projects[id]
               arca == arcaCandidates(project, profile)
               transfer == transferCandidates(project, profile)
               effective == effectiveModels(project, profile)
    <2>1. /\ project.classification \in Classifications
          /\ project.providerPolicy.openai \in BOOLEAN
          /\ project.providerPolicy.anthropic \in BOOLEAN
          /\ project.providerPolicy.allowFable \in BOOLEAN
      BY <1>1, ProjectRow DEF IInv, TypeOK, Project, ProviderPolicy
    <2>2. assertRegistrationPolicy(project.classification, project.providerPolicy)
      BY <1>1 DEF IInv, PolicyHolds
    <2> HIDE DEF project
    <2>3. arca = IF profile.valid THEN transfer ELSE {}
      BY DEF arcaCandidates, transferCandidates
    <2>4. arca \subseteq effective /\ (~profile.valid => effective = {})
      BY DEF arcaCandidates, effectiveModels
    <2>5. ASSUME assertCanPlanOrStart(project), NEW m \in transfer,
                 NEW payload \in {"public", "internal", "confidential"},
                 NEW selection \in {"arca-default", "arca-fallback", "direct"}
          PROVE  assertAllowed(project, m, payload, selection, FALSE)
      BY <2>5 DEF transferCandidates, assertAllowed, assertCanPlanOrStart
    <2>6. ASSUME assertCanPlanOrStart(project), NEW m \in effective
          PROVE  assertAllowed(project, m, project.classification, "direct", TRUE)
      BY <2>1, <2>6 DEF effectiveModels, assertAllowed, assertCanPlanOrStart, Classifications
    <2>7. ASSUME ~assertCanPlanOrStart(project)
          PROVE  effective = {} /\ transfer = {}
      <3>1. ~project.providerPolicy.openai /\ ~project.providerPolicy.anthropic
        BY <2>2, <2>7 DEF assertRegistrationPolicy, assertCanPlanOrStart
      <3> QED BY <3>1 DEF effectiveModels, transferCandidates, Permits
    <2> HIDE DEF arca, transfer, effective
    <2>8. /\ arca = IF profile.valid THEN transfer ELSE {}
          /\ arca \subseteq effective
          /\ ~profile.valid => effective = {}
          /\ assertCanPlanOrStart(project) =>
               /\ \A m \in transfer,
                     payload \in {"public", "internal", "confidential"},
                     selection \in {"arca-default", "arca-fallback", "direct"} :
                    assertAllowed(project, m, payload, selection, FALSE)
               /\ \A m \in effective :
                    assertAllowed(project, m, project.classification, "direct", TRUE)
          /\ ~assertCanPlanOrStart(project) => effective = {} /\ transfer = {}
      BY <2>3, <2>4, <2>5, <2>6, <2>7
    <2> QED BY <2>8 DEF project, arca, transfer, effective
  <1>2. IInv => PolicyServicesAgree
    BY <1>1 DEF PolicyServicesAgree
  <1> QED BY <1>2, ProjectsInvariant, PTL

-----------------------------------------------------------------------------
(* A confirmation is used once.                                            *)

(* A confirmation for an update is for a project that is there.            *)
Known ==
  \A c \in ConfirmationIds :
    IsRow(confirmations[c]) /\ confirmations[c].projectId # None =>
      IsRow(projects[confirmations[c].projectId])

(* Every step gives a project a policy, makes a confirmation or does       *)
(* nothing that a confirmation is about.                                   *)
LEMMA WhatStepsDo ==
  ASSUME IInv, [Next]_vars
  PROVE  \/ \E id \in ProjectIds, session \in Sessions, c \in ConfirmationIds \cup {None} :
              PolicyGiven(id, session, c) /\ UNCHANGED now
         \/ \E c \in ConfirmationIds, session \in Sessions : Confirm(c, session)
         \/ /\ UNCHANGED <<confirmations, fableChanges>> /\ KeysKept
            /\ now' = now \/ now' = now + 1
  <1> DEFINE Rest == /\ UNCHANGED <<confirmations, fableChanges>> /\ KeysKept
                     /\ now' = now \/ now' = now + 1
             Gave == \E id \in ProjectIds, session \in Sessions,
                          c \in ConfirmationIds \cup {None} :
                         PolicyGiven(id, session, c) /\ UNCHANGED now
             Made == \E c \in ConfirmationIds, session \in Sessions : Confirm(c, session)
  <1>1. ASSUME UNCHANGED <<projects, confirmations, fableChanges>>,
               now' = now \/ now' = now + 1
        PROVE  Rest
    BY <1>1 DEF KeysKept
  <1>2. ASSUME NEW session \in Sessions, NEW c \in ConfirmationIds \cup {None},
               NEW id \in ProjectIds, NEW patch \in Patches, update(id, patch, session, c)
        PROVE  Gave \/ Rest
    BY <1>2, UpdateStep
  <1>3. ASSUME NEW p \in Processes, NEW id \in ProjectIds, persist(p, id)
        PROVE  Gave
    BY <1>3, PersistStep
  <1>4. ASSUME NEW p \in Processes,
               \/ \E session \in Sessions, c \in ConfirmationIds \cup {None},
                     input \in RegistrationInputs : register(p, input, session, c)
               \/ prepare(p) \/ editRepository(p) \/ rollBack(p)
        PROVE  Rest
    <2>1. UNCHANGED <<store, now>>
      BY <1>4 DEF register, prepare, editRepository, rollBack
    <2> QED BY <1>1, <2>1 DEF store
  <1>5. ASSUME NEW id \in ProjectIds, unregister(id)
        PROVE  Rest
    <2> DEFINE row == [projects[id] EXCEPT !.unregistered = TRUE]
    <2>1. /\ IsRow(projects[id]) /\ projects' = [projects EXCEPT ![id] = row]
          /\ UNCHANGED <<confirmations, fableChanges, now>>
      BY <1>5 DEF unregister, findActiveById, IInv, TypeOK
    <2>2. projects[id] \in Project
      BY <2>1, ProjectRow DEF IInv, TypeOK
    <2>3. row \in Project /\ row.projectKey = projects[id].projectKey
      BY <2>2 DEF Project
    <2> HIDE DEF row
    <2>4. /\ projects'[id] = row /\ IsRow(row)
          /\ \A i \in ProjectIds \ {id} : projects'[i] = projects[i]
      BY <2>1, <2>3, ProjectRow DEF IInv, TypeOK
    <2> QED BY <2>1, <2>3, <2>4 DEF KeysKept
  <1>6. ASSUME NEW t \in TaskIds,
               \/ \E id \in ProjectIds, status \in TaskStatus : createTask(t, id, status)
               \/ \E status \in TaskStatus : transitionTask(t, status)
        PROVE  Rest
    BY <1>1, <1>6 DEF createTask, transitionTask
  <1>7. ASSUME NEW w \in WorktreeIds,
               \/ \E t \in TaskIds : createWorktree(w, t)
               \/ \E status \in {"preserved", "released"} : leaveWorktree(w, status)
        PROVE  Rest
    BY <1>1, <1>7 DEF createWorktree, leaveWorktree
  <1>8. ASSUME Tick \/ UNCHANGED vars
        PROVE  Rest
    BY <1>1, <1>8 DEF Tick, vars, store
  <1>9. ASSUME NEW session \in Sessions, NEW c \in ConfirmationIds, Confirm(c, session)
        PROVE  Made
    BY <1>9
  <1> HIDE DEF Rest, Gave, Made
  <1>10. Gave \/ Made \/ Rest
    BY <1>2, <1>3, <1>4, <1>5, <1>6, <1>7, <1>8, <1>9 DEF Next
  <1> QED BY <1>10 DEF Rest, Gave, Made

(* The fields of a confirmation that is there.                             *)
LEMMA ConfirmationFields ==
  ASSUME IInv, NEW c \in ConfirmationIds, IsRow(confirmations[c])
  PROVE  /\ confirmations[c].session \in Sessions /\ confirmations[c].expiresAt \in Int
         /\ \/ confirmations[c].projectId = None /\ confirmations[c].projectKey \in ProjectKeys
            \/ /\ confirmations[c].projectId \in ProjectIds /\ confirmations[c].projectKey = None
               /\ confirmations[c].projectId # None
  <1>1. confirmations[c] \in ProviderPolicyConfirmation
    BY ConfirmationRow DEF IInv, TypeOK
  <1> QED BY <1>1, ProjectsAssumption DEF IInv, Warned, Addressed, ProviderPolicyConfirmation

(* The terms of confirmations that are kept with the keys.                 *)
LEMMA TermsKept ==
  ASSUME IInv, Known, NEW c \in ConfirmationIds,
         \A i \in ProjectIds : IsRow(projects[i]) =>
           projects'[i].projectKey = projects[i].projectKey,
         IsRow(confirmations'[c]) <=> IsRow(confirmations[c]),
         IsRow(confirmations[c]) =>
           /\ confirmations'[c].session = confirmations[c].session
           /\ confirmations'[c].projectId = confirmations[c].projectId
           /\ confirmations'[c].projectKey = confirmations[c].projectKey
           /\ confirmations'[c].expiresAt = confirmations[c].expiresAt
  PROVE  confirmationTerms'[c] = confirmationTerms[c]
  <1>1. CASE ~IsRow(confirmations[c])
    BY <1>1 DEF confirmationTerms
  <1>2. CASE IsRow(confirmations[c])
    <2>1. KeyOf(c)' = KeyOf(c)
      BY <1>2, ConfirmationFields DEF Known, KeyOf
    <2> QED BY <1>2, <2>1 DEF confirmationTerms
  <1> QED BY <1>1, <1>2

LEMMA EnabledKept ==
  ASSUME KeysKept, UNCHANGED fableChanges
  PROVE  enabled' = enabled
  <1>1. ASSUME NEW session, NEW key
        PROVE  EnabledIn(session, key)' = EnabledIn(session, key)
    <2>1. Having(key)' = Having(key)
      BY DEF Having, KeysKept
    <2> QED BY <2>1 DEF EnabledIn
  <1> QED BY <1>1 DEF enabled

(* One project has a key, and what was done for it is done for the key.    *)
LEMMA EnabledGiven ==
  ASSUME IInv, IInv', NEW id \in ProjectIds, NEW session \in Sessions, NEW c,
         PolicyGiven(id, session, c), NEW key, key = projects'[id].projectKey
  PROVE  enabled' = IF projects'[id].providerPolicy.allowFable
                    THEN [enabled EXCEPT ![<<session, key>>] = @ + 1] ELSE enabled
  <1> DEFINE fable == projects'[id].providerPolicy.allowFable
  <1>1. /\ IsRow(projects'[id])
        /\ \A i \in ProjectIds \ {id} : projects'[i] = projects[i]
        /\ IsRow(projects[id]) => projects[id].projectKey = key
    BY DEF PolicyGiven
  <1>2. key \in ProjectKeys /\ fable \in BOOLEAN
    BY <1>1, ProjectRow DEF IInv, TypeOK, Project, ProviderPolicy
  <1>3. /\ \A i \in ProjectIds : \A s \in Sessions :
             fableChanges'[i][s] = IF i = id /\ s = session /\ fable
                                   THEN fableChanges[i][s] + 1 ELSE fableChanges[i][s]
        /\ \A i \in ProjectIds : \A s \in Sessions : fableChanges[i][s] \in Nat
    <2>1. fableChanges \in [ProjectIds -> [Sessions -> Nat]]
      BY DEF IInv, TypeOK
    <2>2. CASE fable
      <3>1. fableChanges' = [fableChanges EXCEPT ![id][session] = @ + 1]
        BY <2>2 DEF PolicyGiven
      <3> QED BY <2>1, <2>2, <3>1, NestedCount
    <2>3. CASE ~fable
      <3>1. fableChanges' = [fableChanges EXCEPT ![id][session] = @ + 0]
        BY <2>3 DEF PolicyGiven
      <3> QED BY <2>1, <2>3, <3>1, NestedCount
    <2> QED BY <2>2, <2>3
  <1>4. Having(key)' = {id}
    BY <1>1 DEF IInv, Distinct, Having
  <1>5. Having(key) = IF IsRow(projects[id]) THEN {id} ELSE {}
    <2>1. \A i \in ProjectIds \ {id} : IsRow(projects[i]) => projects[i].projectKey # key
      BY <1>1 DEF IInv, Distinct
    <2> QED BY <1>1, <2>1 DEF Having
  <1>6. ~IsRow(projects[id]) => \A s \in Sessions : fableChanges[id][s] = 0
    BY DEF IInv, Warned, Unchanged
  <1>7. ASSUME NEW k, k # key
        PROVE  Having(k)' = Having(k) /\ id \notin Having(k)
    BY <1>1, <1>7 DEF Having
  <1> HIDE DEF fable
  <1>8. ASSUME NEW s \in Sessions, NEW k \in ProjectKeys
        PROVE  enabled'[<<s, k>>] = IF s = session /\ k = key /\ fable
                                    THEN enabled[<<s, k>>] + 1 ELSE enabled[<<s, k>>]
    <2>1. enabled[<<s, k>>] = EnabledIn(s, k) /\ enabled'[<<s, k>>] = EnabledIn(s, k)'
      BY DEF enabled
    <2>2. CASE k = key
      <3>1. EnabledIn(s, k)' = fableChanges'[id][s]
        BY <1>4, <2>2 DEF EnabledIn
      <3>2. EnabledIn(s, k) = fableChanges[id][s]
        BY <1>5, <1>6, <2>2 DEF EnabledIn
      <3> QED BY <1>3, <2>1, <2>2, <3>1, <3>2
    <2>3. CASE k # key
      <3>1. CASE Having(k) = {}
        BY <1>7, <2>1, <2>3, <3>1 DEF EnabledIn
      <3>2. CASE Having(k) # {}
        <4> DEFINE i == CHOOSE j \in Having(k) : TRUE
        <4>1. i \in ProjectIds /\ i # id
          BY <1>7, <2>3, <3>2 DEF Having
        <4>2. EnabledIn(s, k) = fableChanges[i][s] /\ EnabledIn(s, k)' = fableChanges'[i][s]
          BY <1>7, <2>3, <3>2 DEF EnabledIn
        <4> HIDE DEF i
        <4> QED BY <1>3, <2>1, <2>3, <4>1, <4>2
      <3> QED BY <3>1, <3>2
    <2> QED BY <2>2, <2>3
  <1>9. /\ enabled = [x \in Sessions \X ProjectKeys |-> enabled[x]]
        /\ enabled' = [x \in Sessions \X ProjectKeys |-> enabled'[x]]
    BY DEF enabled
  <1>10. enabled' = IF fable THEN [enabled EXCEPT ![<<session, key>>] = @ + 1] ELSE enabled
    <2>1. CASE ~fable
      BY <1>8, <1>9, <2>1
    <2>2. CASE fable
      <3>1. ASSUME NEW x \in Sessions \X ProjectKeys
            PROVE  enabled'[x] = IF x = <<session, key>> THEN enabled[x] + 1 ELSE enabled[x]
        BY <1>8, <2>2
      <3>2. enabled' = [x \in Sessions \X ProjectKeys |->
                          IF x = <<session, key>> THEN enabled[x] + 1 ELSE enabled[x]]
        BY <1>9, <3>1
      <3>3. [enabled EXCEPT ![<<session, key>>] = @ + 1]
              = [x \in Sessions \X ProjectKeys |->
                   IF x = <<session, key>> THEN enabled[x] + 1 ELSE enabled[x]]
        BY <1>9
      <3> QED BY <2>2, <3>2, <3>3
    <2> QED BY <2>1, <2>2
  <1> QED BY <1>10 DEF fable

(* A new confirmation, which no project and no other confirmation minds.   *)
LEMMA Confirmed ==
  ASSUME IInv, NEW session \in Sessions, NEW c \in ConfirmationIds, Confirm(c, session)
  PROVE  /\ UNCHANGED <<projects, fableChanges, now>>
         /\ ~IsRow(confirmations[c]) /\ confirmations[c] = NoRow
         /\ IsRow(confirmations'[c]) /\ confirmations'[c].consumedAt = None
         /\ confirmations'[c].session = session /\ confirmations'[c].expiresAt \in Int
         /\ \/ /\ confirmations'[c].projectId = None
               /\ confirmations'[c].projectKey \in ProjectKeys
            \/ /\ confirmations'[c].projectId \in ProjectIds
               /\ confirmations'[c].projectId # None
               /\ IsRow(projects[confirmations'[c].projectId])
         /\ \A d \in ConfirmationIds \ {c} : confirmations'[d] = confirmations[d]
  <1>1. PICK policy \in ProviderPolicy, scope \in {"project-create", "project-update"},
             key \in ProjectKeys \cup {None}, id \in ProjectIds \cup {None} :
          /\ createConfirmation(c, session, scope, key, id, policy)
          /\ \/ key \in ProjectKeys /\ id = None
             \/ key = None /\ id \in ProjectIds
    BY ProjectsAssumption DEF Confirm
  <1> DEFINE row == [session |-> session, scope |-> scope, projectKey |-> key,
                     projectId |-> id, policy |-> policy,
                     expiresAt |-> now + ConfirmationLifetime, consumedAt |-> None]
  <1>2. /\ confirmations[c] = NoRow /\ (id # None => IsRow(projects[id]))
        /\ confirmations' = [confirmations EXCEPT ![c] = row]
        /\ UNCHANGED <<projects, fableChanges, now>>
    BY <1>1 DEF createConfirmation
  <1>3. now + ConfirmationLifetime \in Int
    BY DEF IInv, TypeOK, ConfirmationLifetime
  <1>4. /\ row \in ProviderPolicyConfirmation /\ row.consumedAt = None
        /\ row.session = session /\ row.expiresAt \in Int
        /\ row.projectKey = key /\ row.projectId = id
    BY <1>1, <1>3 DEF ProviderPolicyConfirmation
  <1> HIDE DEF row
  <1>5. /\ confirmations'[c] = row /\ IsRow(row)
        /\ \A d \in ConfirmationIds \ {c} : confirmations'[d] = confirmations[d]
    BY <1>2, <1>4, ConfirmationRow DEF IInv, TypeOK
  <1> QED BY <1>1, <1>2, <1>4, <1>5, NotRows, ProjectsAssumption

LEMMA KnownStep ==
  ASSUME IInv, Known, [Next]_vars
  PROVE  Known'
  <1>1. ASSUME NEW id \in ProjectIds, NEW session \in Sessions,
               NEW c \in ConfirmationIds \cup {None}, PolicyGiven(id, session, c)
        PROVE  Known'
    <2>1. \A i \in ProjectIds : IsRow(projects[i]) => IsRow(projects'[i])
      BY <1>1 DEF PolicyGiven
    <2>2. \A d \in ConfirmationIds : IsRow(confirmations'[d]) =>
            /\ IsRow(confirmations[d])
            /\ confirmations'[d].projectId = confirmations[d].projectId
      BY <1>1 DEF PolicyGiven, Consumed
    <2> QED BY <2>1, <2>2, ConfirmationFields DEF Known
  <1>2. ASSUME NEW c \in ConfirmationIds, NEW session \in Sessions, Confirm(c, session)
        PROVE  Known'
    <2>1. projects' = projects
      BY <1>2, Confirmed
    <2>2. ASSUME NEW d \in ConfirmationIds, IsRow(confirmations'[d]),
                 confirmations'[d].projectId # None
          PROVE  IsRow(projects[confirmations'[d].projectId])
      <3>1. CASE d = c
        BY <1>2, <2>2, <3>1, Confirmed
      <3>2. CASE d # c
        BY <1>2, <2>2, <3>2, Confirmed DEF Known
      <3> QED BY <3>1, <3>2
    <2> QED BY <2>1, <2>2 DEF Known
  <1>3. CASE UNCHANGED confirmations /\ KeysKept
    BY <1>3, ConfirmationFields DEF Known, KeysKept
  <1> QED BY <1>1, <1>2, <1>3, WhatStepsDo

ConfirmationsSpent == { d \in ConfirmationIds : Consumed(d) }

(* Giving a project a policy with Fable is what Spend allows.              *)
LEMMA GivingSpends ==
  ASSUME IInv, IInv', Known, NEW id \in ProjectIds, NEW session \in Sessions,
         NEW c \in ConfirmationIds \cup {None}, PolicyGiven(id, session, c), UNCHANGED now
  PROVE  [Permission!Next]_(Permission!vars)
  <1> DEFINE fable == projects'[id].providerPolicy.allowFable
  <1>1. PICK key : key = projects'[id].projectKey
    OBVIOUS
  <1>2. \A i \in ProjectIds : IsRow(projects[i]) =>
          projects'[i].projectKey = projects[i].projectKey
    BY DEF PolicyGiven
  <1>3. CASE ~fable
    <2>1. UNCHANGED confirmations
      BY <1>3 DEF PolicyGiven
    <2>2. \A d \in ConfirmationIds : confirmationTerms'[d] = confirmationTerms[d]
      BY <1>2, <2>1, TermsKept
    <2>3. confirmationTerms' = confirmationTerms
      BY <2>2 DEF confirmationTerms
    <2>4. ConfirmationsSpent' = ConfirmationsSpent
      BY <2>1 DEF ConfirmationsSpent, Consumed
    <2>5. enabled' = enabled
      BY <1>1, <1>3, EnabledGiven
    <2> QED BY <2>3, <2>4, <2>5 DEF Permission!vars, ConfirmationsSpent, Consumed
  <1>4. CASE fable
    <2>1. /\ c \in ConfirmationIds /\ IsRow(confirmations[c])
          /\ ~Consumed(c) /\ Consumed(c)'
          /\ confirmations[c].session = session
          /\ \/ confirmations[c].projectId = id /\ confirmations[c].projectKey = None
             \/ confirmations[c].projectId = None /\ confirmations[c].projectKey = key
          /\ confirmations'[c].session = session
          /\ confirmations'[c].projectId = confirmations[c].projectId
          /\ confirmations'[c].projectKey = confirmations[c].projectKey
          /\ now < confirmations[c].expiresAt
          /\ confirmations'[c].expiresAt = confirmations[c].expiresAt
          /\ \A d \in ConfirmationIds \ {c} : confirmations'[d] = confirmations[d]
      BY <1>1, <1>4 DEF PolicyGiven
    <2>2. KeyOf(c) = key
      <3>1. CASE confirmations[c].projectId = None
        BY <2>1, <3>1, ProjectsAssumption DEF KeyOf
      <3>2. CASE confirmations[c].projectId # None
        <4>1. confirmations[c].projectId = id /\ IsRow(projects[id])
          BY <2>1, <3>2 DEF Known
        <4> QED BY <1>1, <1>2, <3>2, <4>1 DEF KeyOf
      <3> QED BY <3>1, <3>2
    <2>3. /\ confirmationTerms[c] = [purpose |-> <<session, key>>,
                                     until |-> confirmations[c].expiresAt]
          /\ confirmationTerms[c] # NoRow
      <3>1. confirmationTerms[c] = [purpose |-> <<session, key>>,
                                    until |-> confirmations[c].expiresAt]
        BY <2>1, <2>2 DEF confirmationTerms
      <3>2. "purpose" \in DOMAIN confirmationTerms[c] /\ "purpose" \notin DOMAIN NoRow
        BY <3>1 DEF NoRow
      <3> QED BY <3>1, <3>2
    <2>4. \A d \in ConfirmationIds : confirmationTerms'[d] = confirmationTerms[d]
      <3>1. confirmationTerms'[c] = confirmationTerms[c]
        BY <1>2, <2>1, TermsKept DEF Consumed
      <3>2. ASSUME NEW d \in ConfirmationIds \ {c}
            PROVE  confirmationTerms'[d] = confirmationTerms[d]
        BY <1>2, <2>1, <3>2, TermsKept
      <3> QED BY <3>1, <3>2
    <2>5. confirmationTerms' = confirmationTerms
      BY <2>4 DEF confirmationTerms
    <2>6. ConfirmationsSpent' = ConfirmationsSpent \cup {c} /\ c \notin ConfirmationsSpent
      BY <2>1 DEF ConfirmationsSpent, Consumed
    <2>7. enabled' = [enabled EXCEPT ![<<session, key>>] = @ + 1]
      BY <1>1, <1>4, EnabledGiven
    <2>8. Permission!Spend(c)
      BY <2>1, <2>3, <2>5, <2>6, <2>7 DEF Permission!Spend, ConfirmationsSpent, Consumed
    <2> QED BY <2>1, <2>8 DEF Permission!Next
  <1> QED BY <1>3, <1>4

(* Making a confirmation is what Grant allows.                             *)
LEMMA ConfirmingGrants ==
  ASSUME IInv, Known, NEW c \in ConfirmationIds, NEW session \in Sessions,
         Confirm(c, session)
  PROVE  Permission!Grant(c)
  <1>1. /\ UNCHANGED <<projects, fableChanges, now>>
        /\ ~IsRow(confirmations[c])
        /\ IsRow(confirmations'[c]) /\ confirmations'[c].consumedAt = None
        /\ confirmations'[c].session = session /\ confirmations'[c].expiresAt \in Int
        /\ \/ /\ confirmations'[c].projectId = None
              /\ confirmations'[c].projectKey \in ProjectKeys
           \/ /\ confirmations'[c].projectId \in ProjectIds
              /\ confirmations'[c].projectId # None
              /\ IsRow(projects[confirmations'[c].projectId])
        /\ \A d \in ConfirmationIds \ {c} : confirmations'[d] = confirmations[d]
    BY Confirmed
  <1>2. KeyOf(c)' \in ProjectKeys
    <2>1. CASE confirmations'[c].projectId = None
      BY <1>1, <2>1 DEF KeyOf
    <2>2. CASE confirmations'[c].projectId # None
      <3>1. projects[confirmations'[c].projectId] \in Project
        BY <1>1, <2>2, ProjectRow DEF IInv, TypeOK
      <3> QED BY <1>1, <2>2, <3>1 DEF KeyOf, Project
    <2> QED BY <2>1, <2>2
  <1>3. confirmationTerms'[c] = [purpose |-> <<session, KeyOf(c)'>>,
                                 until |-> confirmations'[c].expiresAt]
    BY <1>1 DEF confirmationTerms
  <1>4. confirmationTerms'[c] \in Permission!Terms
    BY <1>1, <1>2, <1>3 DEF Permission!Terms
  <1>5. confirmationTerms[c] = NoRow
    BY <1>1 DEF confirmationTerms
  <1>6. \A d \in ConfirmationIds \ {c} : confirmationTerms'[d] = confirmationTerms[d]
    BY <1>1, TermsKept
  <1>7. confirmationTerms' = [confirmationTerms EXCEPT ![c] = confirmationTerms'[c]]
    BY <1>6 DEF confirmationTerms
  <1>8. ConfirmationsSpent' = ConfirmationsSpent
    BY <1>1 DEF ConfirmationsSpent, Consumed
  <1>9. enabled' = enabled
    BY <1>1, EnabledKept DEF KeysKept
  <1> QED BY <1>1, <1>4, <1>5, <1>7, <1>8, <1>9
          DEF Permission!Grant, ConfirmationsSpent, Consumed

(* provider-policy-confirmation-repository.ts: confirmations are used once, *)
(* in time, each by the session and for the project it was given for, and   *)
(* no project gets a policy with Fable by anything else.                    *)
THEOREM ConfirmationsAreUsedOnce == Spec => ConfirmationsAreSingleUse
  <1>1. Init => Permission!Init /\ Known
    <2> SUFFICES ASSUME Init PROVE Permission!Init /\ Known
      OBVIOUS
    <2>1. /\ now = 0 /\ \A c \in ConfirmationIds : ~IsRow(confirmations[c])
          /\ \A i \in ProjectIds : ~IsRow(projects[i])
      BY NotRows DEF Init
    <2>2. \A session, key : EnabledIn(session, key) = 0
      BY <2>1 DEF EnabledIn, Having
    <2>3. confirmationTerms = [c \in ConfirmationIds |-> NoRow]
      BY <2>1 DEF confirmationTerms
    <2>4. enabled = [x \in Sessions \X ProjectKeys |-> 0]
      BY <2>2 DEF enabled
    <2> QED BY <2>1, <2>3, <2>4 DEF Permission!Init, Known
  <1>2. IInv /\ Known /\ [Next]_vars => [Permission!Next]_(Permission!vars)
    <2> SUFFICES ASSUME IInv, Known, [Next]_vars
                 PROVE  [Permission!Next]_(Permission!vars)
      OBVIOUS
    <2>1. ASSUME NEW id \in ProjectIds, NEW session \in Sessions,
                 NEW c \in ConfirmationIds \cup {None},
                 PolicyGiven(id, session, c), UNCHANGED now
          PROVE  [Permission!Next]_(Permission!vars)
      BY <2>1, Step, GivingSpends
    <2>2. ASSUME NEW c \in ConfirmationIds, NEW session \in Sessions, Confirm(c, session)
          PROVE  [Permission!Next]_(Permission!vars)
      BY <2>2, ConfirmingGrants DEF Permission!Next
    <2>3. CASE /\ UNCHANGED <<confirmations, fableChanges>> /\ KeysKept
               /\ now' = now \/ now' = now + 1
      <3>1. \A c \in ConfirmationIds : confirmationTerms'[c] = confirmationTerms[c]
        BY <2>3, TermsKept DEF KeysKept
      <3>2. confirmationTerms' = confirmationTerms
        BY <3>1 DEF confirmationTerms
      <3>3. ConfirmationsSpent' = ConfirmationsSpent
        BY <2>3 DEF ConfirmationsSpent, Consumed
      <3>4. enabled' = enabled
        BY <2>3, EnabledKept
      <3>5. now \in Int
        BY DEF IInv, TypeOK
      <3> QED BY <2>3, <3>2, <3>3, <3>4, <3>5
              DEF Permission!Next, Permission!Pass, Permission!vars, ConfirmationsSpent, Consumed
    <2> QED BY <2>1, <2>2, <2>3, WhatStepsDo
  <1>3. IInv /\ Known /\ [Next]_vars => Known'
    BY KnownStep
  <1> QED BY <1>1, <1>2, <1>3, ProjectsInvariant, PTL
          DEF Spec, ConfirmationsAreSingleUse, Permission!Spec
=============================================================================
