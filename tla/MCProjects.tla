------------------------------ MODULE MCProjects ------------------------------
(* Two projects that want one path, one of them with Fable; two sessions   *)
(* and two confirmations, a task and a worktree.                           *)
EXTENDS Projects, FiniteSetsExt, TLC

CONSTANTS k1, k2, x1, a1, a2, c1, MaxChanges

Policy(openai, anthropic, fable) ==
  [openai |-> openai, anthropic |-> anthropic, allowFable |-> fable]
Remote == Policy(FALSE, TRUE, FALSE)
Fable == Policy(FALSE, TRUE, TRUE)
OnlyFable == Policy(FALSE, FALSE, TRUE)
NoRemote == Policy(FALSE, FALSE, FALSE)

Input(k, classification, policy) ==
  [projectKey |-> k, repositoryPath |-> x1, classification |-> classification,
   providerPolicy |-> policy, allowedAgentIds |-> {a1, a2}, allowedCommands |-> {c1}]
MCRegistrationInputs == {Input(k1, "internal", Fable), Input(k2, "internal", Remote)}

Patch(classification, policy, agents, commands) ==
  [classification |-> classification, providerPolicy |-> policy,
   allowedAgentIds |-> agents, allowedCommands |-> commands]
MCPatches ==
  {Patch("confidential", None, None, None), Patch("controlled", NoRemote, None, None),
   Patch("controlled", None, None, None),
   Patch(None, Fable, None, None), Patch(None, OnlyFable, None, None),
   Patch("public", NoRemote, None, None),
   Patch(None, None, {a1}, {}), Patch(None, None, {a2}, None),
   Patch("controlled", OnlyFable, {a1, a2}, {c1})}
MCProposedPolicies == {Fable, OnlyFable}

Model(provider, model) == [provider |-> provider, model |-> model]
MCProfiles ==
  {[valid |-> TRUE, default |-> Model("anthropic", "fable"),
    fallbackModels |-> {Model("anthropic", "opus"), Model("openai", "sol")}],
   [valid |-> FALSE, default |-> Model("anthropic", "opus"), fallbackModels |-> {}]}

(* Few changes and rows in all, whatever they are.                         *)
Changes == FoldSet(LAMBDA a, n : n + FoldSet(LAMBDA i, k : k + auditLog[a][i], 0, ProjectIds),
                   0, AuditActions)
Rows(table) == Cardinality({ x \in DOMAIN table : IsRow(table[x]) })
FewChanges == Changes + Rows(confirmations) + Rows(tasks) + Rows(worktrees) <= MaxChanges

Symmetry ==
  Permutations(Sessions) \cup Permutations(ProjectIds) \cup Permutations(ConfirmationIds)
=============================================================================
