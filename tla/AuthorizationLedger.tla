------------------------ MODULE AuthorizationLedger ------------------------
(***************************************************************************)
(* The one-time authorization ledger of the provider smoke                 *)
(* (scripts/provider-authorization-ledger.ts): the files of one            *)
(* authorization id, and the processes that issue its grant.               *)
(*                                                                         *)
(* Every file is made with an exclusive open ("wx"), so making it is one   *)
(* atomic step that one process wins.  Writing its contents is another:    *)
(* grant.json is the only file whose contents are read, and a process that *)
(* looks between the two steps, or after a crash between them, finds a     *)
(* torn grant.  (The .outcome.json files are written at best effort and    *)
(* read by nobody: they are left out.)                                     *)
(***************************************************************************)
EXTENDS Naturals, FiniteSets

CONSTANTS
  SmokeProviderKey,        \* the providers
  Issuers,                 \* processes running "provider-smoke grant"
  Models,                  \* values of the model variables of the environment
  MODEL_IDENTIFIER,        \* those that are well-formed identifiers
  Builds,                  \* executables: basename, fingerprint and version
  Policies,                \* argv, schema, prompt and template versions
  IssuerEnvironments,      \* [models, policy] grants are issued under
  FirstBuild,              \* the build installed at first
  Upgradable,              \* providers whose executable may be replaced
  SMOKE_MAX_INVOCATIONS,   \* invocations granted per provider
  Absent, Torn, None       \* no grant.json, a torn one, no value

Grants == [model : [SmokeProviderKey -> MODEL_IDENTIFIER],
           binding : [SmokeProviderKey -> Builds],
           policy : Policies,
           createdAt : Issuers]    \* whose clock stamped it

ASSUME LedgerAssumption ==
  /\ SMOKE_MAX_INVOCATIONS \in Nat \ {0}
  /\ MODEL_IDENTIFIER \subseteq Models
  /\ IssuerEnvironments \subseteq [models : [SmokeProviderKey -> Models], policy : Policies]
  /\ FirstBuild \in Builds /\ Upgradable \subseteq SmokeProviderKey
  /\ Absent \notin Grants /\ Torn \notin Grants /\ None \notin Grants
  /\ Absent # Torn /\ None \notin {Absent, Torn}

VARIABLES
  grantFile,   \* grant.json
  files,       \* run.claim and the .slot and .spawn markers
  installed,   \* provider -> the build at the configured path
  issuers      \* issuer -> [pc, desired, answer]

ledgerVars == <<grantFile, files, installed, issuers>>

-----------------------------------------------------------------------------
(* The marker files.                                                       *)

ClaimFile == [kind |-> "claim", of |-> None, ordinal |-> 0]
Marker(kind, p, n) == [kind |-> kind, of |-> p, ordinal |-> n]
Ordinals == 1 .. SMOKE_MAX_INVOCATIONS
Markers == {ClaimFile}
             \cup [kind : {"slot", "spawn"}, of : SmokeProviderKey,
                   ordinal : Ordinals]

(* An exclusive open has three ends: the file is new, it was there, or the *)
(* disk refuses, before or after the directory entry is made.              *)
\* Mutant: an open without "x" takes an existing file for its own.
Created_overwrite(f) == files' = files \cup {f}
Created(f) == f \notin files /\ files' = files \cup {f}
AlreadyExists(f) == f \in files /\ UNCHANGED files
WriteFailed(f) == f \notin files /\ files' \in {files, files \cup {f}}

Whole == grantFile \notin {Absent, Torn}

(* usage: what a fresh reading of slots/ counts.                           *)
usage(p) ==
  [reserved |-> Cardinality({n \in Ordinals : Marker("slot", p, n) \in files}),
   spawnAttempts |-> Cardinality({n \in Ordinals : Marker("spawn", p, n) \in files})]

-----------------------------------------------------------------------------
LedgerInit ==
  /\ grantFile = Absent
  /\ files = {}
  /\ installed = [p \in SmokeProviderKey |-> FirstBuild]
  /\ issuers = [i \in Issuers |-> [pc |-> "idle", desired |-> None, answer |-> None]]

Answer(i, code, grant) ==
  issuers' = [issuers EXCEPT ![i].pc = "answered",
                             ![i].answer = [code |-> code, grant |-> grant]]

(* validateModel for both providers.                                       *)
validModels(models) == \A p \in SmokeProviderKey : models[p] \in MODEL_IDENTIFIER

(* issueGrant builds the terms from the environment and a probe of both    *)
(* executables.  (Each probe reads its own path, so that reading both at   *)
(* once has every outcome that reading one after the other has.)           *)
issueGrant(i) ==
  \E env \in IssuerEnvironments :
    /\ issuers[i].pc = "idle"
    /\ validModels(env.models)
    /\ issuers' = [issuers EXCEPT
         ![i].pc = "looking",
         ![i].desired = [model |-> env.models, binding |-> installed,
                         policy |-> env.policy, createdAt |-> i]]
    /\ UNCHANGED <<grantFile, files, installed>>

(* A value that is missing or malformed is refused before any file is made,*)
(* and so is an executable that cannot be resolved or does not answer.     *)
refuseGrant(i) ==
  /\ issuers[i].pc = "idle"
  /\ Answer(i, "invalid", None)
  /\ UNCHANGED <<grantFile, files, installed>>

lookForGrant(i) ==
  /\ issuers[i].pc = "looking"
  /\ issuers' = [issuers EXCEPT ![i].pc = IF grantFile = Absent THEN "creating"
                                          ELSE "reconciling"]
  /\ UNCHANGED <<grantFile, files, installed>>

(* The exclusive open of grant.json.                                       *)
\* Mutant: grant.json opened without "x".
MayCreate_truncating == TRUE
MayCreate == grantFile = Absent

createGrant(i) ==
  /\ issuers[i].pc = "creating"
  /\ \/ /\ MayCreate
        /\ grantFile' = Torn
        /\ issuers' = [issuers EXCEPT ![i].pc = "writing"]
     \/ /\ ~MayCreate
        /\ issuers' = [issuers EXCEPT ![i].pc = "reconciling"]
        /\ UNCHANGED grantFile
     \/ /\ MayCreate
        /\ Answer(i, "failed", None)
        /\ UNCHANGED grantFile
  /\ UNCHANGED <<files, installed>>

(* The contents reach the file, or the process fails or dies with the file *)
(* as it is: nothing ever repairs it.                                      *)
writeGrant(i) ==
  /\ issuers[i].pc = "writing"
  /\ \/ /\ grantFile' = issuers[i].desired
        /\ Answer(i, "granted", issuers[i].desired)
     \/ /\ Answer(i, "failed", None)
        /\ UNCHANGED grantFile
  /\ UNCHANGED <<files, installed>>

(* Grants are compared by their terms: createdAt is left out.              *)
\* Mutant: the comparison leaves the policy out.
grantProjection_anyPolicy(g) == <<g.model, g.binding>>
grantProjection(g) == <<g.model, g.binding, g.policy>>

reconcileExistingGrant(i) ==
  /\ issuers[i].pc = "reconciling"
  /\ \/ grantFile = Torn /\ Answer(i, "corrupt", None)
     \/ /\ Whole
        /\ grantProjection(grantFile) # grantProjection(issuers[i].desired)
        /\ Answer(i, "conflict", None)
     \/ /\ Whole
        /\ grantProjection(grantFile) = grantProjection(issuers[i].desired)
        /\ Answer(i, "granted", grantFile)
  /\ UNCHANGED <<grantFile, files, installed>>

(* The operator installs another build (once, in this model).              *)
Upgrade(p) ==
  /\ installed[p] = FirstBuild
  /\ \E b \in Builds \ {installed[p]} : installed' = [installed EXCEPT ![p] = b]
  /\ UNCHANGED <<grantFile, files, issuers>>

LedgerNext ==
  \/ \E i \in Issuers :
       \/ issueGrant(i) \/ refuseGrant(i) \/ lookForGrant(i) \/ createGrant(i)
       \/ writeGrant(i) \/ reconcileExistingGrant(i)
  \/ \E p \in Upgradable : Upgrade(p)

LedgerTypeOK ==
  /\ grantFile \in Grants \cup {Absent, Torn}
  /\ files \subseteq Markers
  /\ installed \in [SmokeProviderKey -> Builds]
  /\ issuers \in [Issuers ->
       [pc : {"idle", "looking", "creating", "writing", "reconciling", "answered"},
        desired : Grants \cup {None},
        answer : {None} \cup
          [code : {"granted", "invalid", "failed", "corrupt", "conflict"},
           grant : Grants \cup {None}]]]

LedgerSpec == LedgerInit /\ [][LedgerNext]_ledgerVars

-----------------------------------------------------------------------------
(* Correctness.  (LedgerTypeOK, above, is the type invariant.)             *)

(* Whoever is told "granted" is told the standing grant, with the same     *)
(* createdAt, and it has exactly the terms asked for, although issuers race*)
(* to make the file and one of them may fail half-way                      *)
(* (provider-authorization-ledger.ts:188-198).                             *)
GrantedIsStanding ==
  \A i \in Issuers :
    LET a == issuers[i].answer IN
      a # None /\ a.code = "granted" =>
        /\ a.grant = grantFile
        /\ <<a.grant.model, a.grant.binding, a.grant.policy>> =
             <<issuers[i].desired.model, issuers[i].desired.binding,
               issuers[i].desired.policy>>

(* No issuer, late or racing, ever changes the terms of a whole grant, and *)
(* what a failed one left behind is never taken for no grant.              *)
GrantIsForEver ==
  [][/\ Whole => grantFile' = grantFile
     /\ grantFile # Absent => grantFile' # Absent]_ledgerVars
=============================================================================
