------------------------ MODULE ProviderSmoke_proofs ------------------------
(***************************************************************************)
(* Proofs about the authorization ledger and the provider smoke, for any   *)
(* providers, issuers, runners, builds and numbers of invocations.  The    *)
(* run claim makes one runner the only one to launch anything; it launches *)
(* what it has recorded, in order; and what it holds is the standing       *)
(* grant.  From that invariant follow the safety properties and that the   *)
(* smoke implements the abstract one-time authorization.                   *)
(***************************************************************************)
EXTENDS ProviderSmoke, FiniteSetTheorems, TLAPS

(***************************************************************************)
(* The ledger.  Whoever holds the half-written grant.json is alone in      *)
(* doing so, and from the moment it is whole nobody writes it: that is the *)
(* inductive invariant.                                                    *)
(***************************************************************************)
Asking == {"looking", "creating", "writing", "reconciling"}

LEMMA GrantFileCases ==
  ASSUME LedgerTypeOK
  PROVE  /\ Whole <=> grantFile \in Grants
         /\ grantFile = Absent => ~Whole
         /\ grantFile = Torn => ~Whole /\ grantFile # Absent
  BY LedgerAssumption DEF LedgerTypeOK, Whole

LEMMA GrantedEnvironment ==
  ASSUME LedgerTypeOK, NEW i \in Issuers, NEW env \in IssuerEnvironments,
         validModels(env.models)
  PROVE  [model |-> env.models, binding |-> installed, policy |-> env.policy,
          createdAt |-> i] \in Grants
  <1>1. /\ env.models \in [SmokeProviderKey -> Models]
        /\ env.policy \in Policies
    BY LedgerAssumption
  <1>2. env.models \in [SmokeProviderKey -> MODEL_IDENTIFIER]
    BY <1>1 DEF validModels
  <1> QED BY <1>1, <1>2 DEF LedgerTypeOK, Grants

IssuerState ==
  [pc : {"idle", "looking", "creating", "writing", "reconciling", "answered"},
   desired : Grants \cup {None},
   answer : {None} \cup
     [code : {"granted", "invalid", "failed", "corrupt", "conflict"},
      grant : Grants \cup {None}]]

LEMMA AnswerTyped ==
  ASSUME issuers \in [Issuers -> IssuerState], NEW i \in Issuers,
         NEW code \in {"granted", "invalid", "failed", "corrupt", "conflict"},
         NEW grant \in Grants \cup {None}, Answer(i, code, grant)
  PROVE  issuers' \in [Issuers -> IssuerState]
  <1>1. [code |-> code, grant |-> grant] \in
          [code : {"granted", "invalid", "failed", "corrupt", "conflict"},
           grant : Grants \cup {None}]
    OBVIOUS
  <1> DEFINE a == [code |-> code, grant |-> grant]
  <1>2. [issuers[i] EXCEPT !.pc = "answered", !.answer = a] \in IssuerState
    <2>1. issuers[i] \in IssuerState /\ a \in {None} \cup
            [code : {"granted", "invalid", "failed", "corrupt", "conflict"},
             grant : Grants \cup {None}]
      BY <1>1
    <2> HIDE DEF a
    <2> QED BY <2>1 DEF IssuerState
  <1>3. issuers' = [issuers EXCEPT ![i] = [issuers[i] EXCEPT !.pc = "answered", !.answer = a]]
    BY DEF Answer
  <1> HIDE DEF a
  <1> QED BY <1>2, <1>3

(***************************************************************************)
(* The ledger is of its type, an issuer that has its terms has terms that  *)
(* a grant may have, and it is answered once.                              *)
(***************************************************************************)
Typed ==
  /\ LedgerTypeOK
  /\ \A i \in Issuers : issuers[i].pc \in Asking => issuers[i].desired \in Grants
  /\ \A i \in Issuers : issuers[i].pc # "answered" => issuers[i].answer = None

LEMMA LedgerTypeInit == LedgerInit => Typed
  BY LedgerAssumption DEF LedgerInit, Typed, LedgerTypeOK, Asking

LEMMA LedgerTypeStep ==
  ASSUME Typed, [LedgerNext]_ledgerVars
  PROVE  Typed'
<1> USE DEF Typed
<1>0. issuers \in [Issuers -> IssuerState]
  BY DEF LedgerTypeOK, IssuerState
<1>1. ASSUME NEW i \in Issuers, issueGrant(i)
      PROVE  Typed'
  <2>1. PICK env \in IssuerEnvironments :
          /\ validModels(env.models)
          /\ issuers' = [issuers EXCEPT
               ![i].pc = "looking",
               ![i].desired = [model |-> env.models, binding |-> installed,
                               policy |-> env.policy, createdAt |-> i]]
    BY <1>1 DEF issueGrant
  <2> DEFINE g == [model |-> env.models, binding |-> installed, policy |-> env.policy,
                   createdAt |-> i]
  <2>2. g \in Grants
    BY <2>1, GrantedEnvironment
  <2> HIDE DEF g
  <2>3. issuers' = [issuers EXCEPT ![i].pc = "looking", ![i].desired = g]
    BY <2>1 DEF g
  <2>4. issuers' \in [Issuers -> IssuerState]
    <3>1. [issuers[i] EXCEPT !.pc = "looking", !.desired = g] \in IssuerState
      <4>1. issuers[i] \in IssuerState
        BY <1>0
      <4> QED BY <2>2, <4>1 DEF IssuerState
    <3>2. issuers' = [issuers EXCEPT ![i] = [issuers[i] EXCEPT !.pc = "looking", !.desired = g]]
      BY <2>3
    <3> QED BY <1>0, <3>1, <3>2
  <2>5. UNCHANGED <<grantFile, files, installed>>
    BY <1>1 DEF issueGrant
  <2>6. \A j \in Issuers :
          /\ issuers'[j].pc \in Asking => issuers'[j].desired \in Grants
          /\ issuers'[j].pc # "answered" => issuers'[j].answer = None
    BY <1>0, <1>1, <2>2, <2>3 DEF IssuerState, issueGrant
  <2> QED BY <2>4, <2>5, <2>6 DEF LedgerTypeOK, IssuerState
<1>2. ASSUME NEW i \in Issuers, refuseGrant(i)
      PROVE  Typed'
  <2>1. issuers' \in [Issuers -> IssuerState]
    BY <1>0, <1>2, AnswerTyped DEF refuseGrant
  <2> QED BY <1>0, <1>2, <2>1 DEF refuseGrant, Answer, LedgerTypeOK, IssuerState, Asking
<1>3. ASSUME NEW i \in Issuers, lookForGrant(i)
      PROVE  Typed'
  BY <1>0, <1>3 DEF lookForGrant, LedgerTypeOK, IssuerState, Asking
<1>4. ASSUME NEW i \in Issuers, createGrant(i)
      PROVE  Typed'
  <2>1. CASE issuers' = [issuers EXCEPT ![i].pc = "writing"] /\ grantFile' = Torn
    BY <1>0, <1>4, <2>1 DEF createGrant, LedgerTypeOK, IssuerState, Asking
  <2>2. CASE issuers' = [issuers EXCEPT ![i].pc = "reconciling"] /\ UNCHANGED grantFile
    BY <1>0, <1>4, <2>2 DEF createGrant, LedgerTypeOK, IssuerState, Asking
  <2>3. CASE Answer(i, "failed", None) /\ UNCHANGED grantFile
    <3>1. issuers' \in [Issuers -> IssuerState]
      BY <1>0, <2>3, AnswerTyped
    <3> QED
      BY <1>0, <1>4, <2>3, <3>1 DEF createGrant, Answer, LedgerTypeOK, IssuerState, Asking
  <2> QED BY <1>4, <2>1, <2>2, <2>3 DEF createGrant
<1>5. ASSUME NEW i \in Issuers, writeGrant(i)
      PROVE  Typed'
  <2>1. issuers[i].desired \in Grants
    BY <1>5 DEF writeGrant, Asking
  <2>2. issuers' \in [Issuers -> IssuerState]
    BY <1>0, <1>5, <2>1, AnswerTyped DEF writeGrant
  <2>3. grantFile' \in Grants \cup {Absent, Torn}
    BY <1>5, <2>1 DEF writeGrant, LedgerTypeOK
  <2> QED
    BY <1>0, <1>5, <2>2, <2>3 DEF writeGrant, Answer, LedgerTypeOK, IssuerState, Asking
<1>6. ASSUME NEW i \in Issuers, reconcileExistingGrant(i)
      PROVE  Typed'
  <2>1. issuers' \in [Issuers -> IssuerState]
    BY <1>0, <1>6, AnswerTyped, GrantFileCases DEF reconcileExistingGrant
  <2> QED
    BY <1>0, <1>6, <2>1, SMTT(40)
       DEF reconcileExistingGrant, Answer, LedgerTypeOK, IssuerState, Asking
<1>7. ASSUME NEW p \in Upgradable, Upgrade(p)
      PROVE  Typed'
  BY <1>7, LedgerAssumption DEF Upgrade, LedgerTypeOK
<1>8. CASE UNCHANGED ledgerVars
  BY <1>8 DEF ledgerVars, LedgerTypeOK
<1> QED
  BY <1>1, <1>2, <1>3, <1>4, <1>5, <1>6, <1>7, <1>8 DEF LedgerNext

\* The ledger's type invariant, and a grant that is whole names only well-formed
\* models, as parseGrant demands of it.
THEOREM LedgerTypeCorrect == LedgerSpec => []LedgerTypeOK
<1>1. Typed => LedgerTypeOK
  BY DEF Typed
<1> QED
  BY <1>1, LedgerTypeInit, LedgerTypeStep, PTL DEF LedgerSpec

-----------------------------------------------------------------------------
(***************************************************************************)
(* One writer.  The file is torn while an issuer writes it, and nobody else*)
(* does; so no write follows the first one that succeeds.                  *)
(***************************************************************************)
OneWriter ==
  /\ \A i \in Issuers : issuers[i].pc = "writing" => grantFile = Torn
  /\ \A i, j \in Issuers :
       issuers[i].pc = "writing" /\ issuers[j].pc = "writing" => i = j

LEMMA WholeStays ==
  ASSUME Typed, OneWriter, [LedgerNext]_ledgerVars
  PROVE  /\ Whole => grantFile' = grantFile
         /\ grantFile # Absent => grantFile' # Absent
<1> USE DEF Typed
<1>1. ASSUME NEW i \in Issuers, createGrant(i)
      PROVE  grantFile' = grantFile \/ (grantFile = Absent /\ grantFile' = Torn)
  BY <1>1 DEF createGrant, MayCreate
<1>2. ASSUME NEW i \in Issuers, writeGrant(i)
      PROVE  grantFile = Torn /\ (grantFile' = grantFile \/ grantFile' \in Grants)
  BY <1>2 DEF writeGrant, OneWriter, Asking
<1>3. ASSUME NEW i \in Issuers, \/ issueGrant(i) \/ refuseGrant(i) \/ lookForGrant(i)
                                \/ reconcileExistingGrant(i)
      PROVE  grantFile' = grantFile
  BY <1>3 DEF issueGrant, refuseGrant, lookForGrant, reconcileExistingGrant
<1>4. ASSUME NEW p \in Upgradable, Upgrade(p)
      PROVE  grantFile' = grantFile
  BY <1>4 DEF Upgrade
<1>5. CASE UNCHANGED ledgerVars
  BY <1>5 DEF ledgerVars
<1> QED
  BY <1>1, <1>2, <1>3, <1>4, <1>5, LedgerAssumption, GrantFileCases DEF LedgerNext

LEMMA OneWriterStep ==
  ASSUME Typed, OneWriter, [LedgerNext]_ledgerVars
  PROVE  OneWriter'
<1> USE DEF Typed, OneWriter
<1>0. issuers \in [Issuers -> IssuerState]
  BY DEF LedgerTypeOK, IssuerState
<1> USE <1>0
<1>1. ASSUME NEW i \in Issuers, issueGrant(i)
      PROVE  OneWriter'
  BY <1>1 DEF issueGrant, IssuerState
<1>2. ASSUME NEW i \in Issuers, refuseGrant(i) \/ reconcileExistingGrant(i)
      PROVE  OneWriter'
  <2>1. grantFile' = grantFile /\ \E code, grant : Answer(i, code, grant)
    BY <1>2 DEF refuseGrant, reconcileExistingGrant
  <2> QED BY <2>1 DEF Answer, IssuerState
<1>3. ASSUME NEW i \in Issuers, lookForGrant(i)
      PROVE  OneWriter'
  BY <1>3 DEF lookForGrant, IssuerState
<1>4. ASSUME NEW i \in Issuers, createGrant(i)
      PROVE  OneWriter'
  <2>1. CASE /\ grantFile = Absent /\ grantFile' = Torn
             /\ issuers' = [issuers EXCEPT ![i].pc = "writing"]
    <3>1. \A j \in Issuers : issuers[j].pc # "writing"
      BY <2>1, LedgerAssumption
    <3> QED BY <2>1, <3>1 DEF IssuerState
  <2>2. CASE /\ grantFile' = grantFile
             /\ issuers' = [issuers EXCEPT ![i].pc = "reconciling"]
    BY <2>2 DEF IssuerState
  <2>3. CASE grantFile' = grantFile /\ Answer(i, "failed", None)
    BY <2>3 DEF Answer, IssuerState
  <2> QED BY <1>4, <2>1, <2>2, <2>3 DEF createGrant, MayCreate
<1>5. ASSUME NEW i \in Issuers, writeGrant(i)
      PROVE  OneWriter'
  <2>1. \A j \in Issuers \ {i} : issuers[j].pc # "writing"
    BY <1>5 DEF writeGrant
  <2>2. \E code, grant : Answer(i, code, grant)
    BY <1>5 DEF writeGrant
  <2> QED BY <2>1, <2>2 DEF Answer, IssuerState
<1>6. ASSUME NEW p \in Upgradable, Upgrade(p)
      PROVE  OneWriter'
  BY <1>6 DEF Upgrade
<1>7. CASE UNCHANGED ledgerVars
  BY <1>7 DEF ledgerVars
<1> QED
  BY <1>1, <1>2, <1>3, <1>4, <1>5, <1>6, <1>7 DEF LedgerNext

LEMMA OneWriterAlways == LedgerSpec => [](Typed /\ OneWriter)
<1>1. LedgerInit => OneWriter
  BY DEF LedgerInit, OneWriter
<1> QED
  BY <1>1, LedgerTypeInit, LedgerTypeStep, OneWriterStep, PTL DEF LedgerSpec

\* No issuer changes a whole grant, and a torn one is never taken for none.
THEOREM GrantStandsForEver == LedgerSpec => GrantIsForEver
<1>1. Typed /\ OneWriter /\ [LedgerNext]_ledgerVars =>
        [/\ Whole => grantFile' = grantFile
         /\ grantFile # Absent => grantFile' # Absent]_ledgerVars
  BY WholeStays
<1> QED
  BY <1>1, OneWriterAlways, PTL DEF LedgerSpec, GrantIsForEver

-----------------------------------------------------------------------------
LEMMA GrantedStep ==
  ASSUME Typed, OneWriter, GrantedIsStanding, [LedgerNext]_ledgerVars
  PROVE  GrantedIsStanding'
<1> USE DEF Typed
<1>0. issuers \in [Issuers -> IssuerState]
  BY DEF LedgerTypeOK, IssuerState
<1> DEFINE Standing(i) ==
      issuers[i].answer # None /\ issuers[i].answer.code = "granted" =>
        /\ issuers[i].answer.grant = grantFile
        /\ grantProjection(issuers[i].answer.grant) = grantProjection(issuers[i].desired)
<1>1. GrantedIsStanding <=> \A i \in Issuers : Standing(i)
  BY DEF GrantedIsStanding, grantProjection
<1>2. GrantedIsStanding' <=> \A i \in Issuers : Standing(i)'
  BY DEF GrantedIsStanding, grantProjection
<1>3. Whole => grantFile' = grantFile
  BY WholeStays
<1>4. ASSUME NEW i \in Issuers, Standing(i)', \A j \in Issuers \ {i} : issuers'[j] = issuers[j]
      PROVE  GrantedIsStanding'
  <2>1. \A j \in Issuers \ {i} : Standing(j)'
    <3> SUFFICES ASSUME NEW j \in Issuers \ {i}, issuers[j].answer # None,
                        issuers[j].answer.code = "granted"
                 PROVE  grantFile' = grantFile
      BY <1>1, <1>4
    <3>1. grantFile \in Grants \cup {None}
      <4>1. issuers[j].answer \in [code : {"granted", "invalid", "failed", "corrupt", "conflict"},
                                   grant : Grants \cup {None}]
        BY <1>0 DEF IssuerState
      <4>2. issuers[j].answer.grant = grantFile
        BY <1>1
      <4>3. issuers[j].answer.grant \in Grants \cup {None}
        BY <4>1
      <4> QED BY <4>2, <4>3
    <3> QED BY <1>3, <3>1, LedgerAssumption, GrantFileCases DEF LedgerTypeOK
  <2> QED BY <1>2, <1>4, <2>1
<1>5. ASSUME NEW i \in Issuers, issuers[i].pc # "answered", NEW stage, NEW desired,
             issuers' = [issuers EXCEPT ![i].pc = stage, ![i].desired = desired]
      PROVE  GrantedIsStanding'
  <2>1. issuers[i].answer = None /\ issuers[i] \in IssuerState
    BY <1>0, <1>5
  <2>2. issuers'[i].answer = issuers[i].answer
    BY <1>0, <1>5, <2>1 DEF IssuerState
  <2>3. \A j \in Issuers \ {i} : issuers'[j] = issuers[j]
    BY <1>0, <1>5
  <2> QED BY <1>4, <2>1, <2>2, <2>3
<1>6. ASSUME NEW i \in Issuers, NEW code \in {"invalid", "failed", "corrupt", "conflict"},
             Answer(i, code, None)
      PROVE  GrantedIsStanding'
  <2>1. issuers'[i].answer.code = code
    BY <1>0, <1>6 DEF Answer, IssuerState
  <2>2. Standing(i)'
    BY <2>1
  <2> QED BY <1>0, <1>4, <1>6, <2>2 DEF Answer, IssuerState
<1>7. ASSUME NEW i \in Issuers, Answer(i, "granted", grantFile'),
             grantProjection(grantFile') = grantProjection(issuers[i].desired)
      PROVE  GrantedIsStanding'
  <2>1. /\ issuers'[i].answer.grant = grantFile'
        /\ issuers'[i].desired = issuers[i].desired
    BY <1>0, <1>7 DEF Answer, IssuerState
  <2>2. Standing(i)'
    BY <1>7, <2>1 DEF grantProjection
  <2> QED BY <1>0, <1>4, <1>7, <2>2 DEF Answer, IssuerState
<1>8. ASSUME NEW i \in Issuers, issueGrant(i)
      PROVE  GrantedIsStanding'
  <2>1. PICK env \in IssuerEnvironments :
          issuers' = [issuers EXCEPT
            ![i].pc = "looking",
            ![i].desired = [model |-> env.models, binding |-> installed,
                            policy |-> env.policy, createdAt |-> i]]
    BY <1>8 DEF issueGrant
  <2>2. issuers[i].pc # "answered"
    BY <1>8 DEF issueGrant
  <2> QED BY <1>5, <2>1, <2>2
<1>9. ASSUME NEW i \in Issuers, refuseGrant(i)
      PROVE  GrantedIsStanding'
  BY <1>6, <1>9 DEF refuseGrant
<1>10. ASSUME NEW i \in Issuers, lookForGrant(i)
       PROVE  GrantedIsStanding'
  <2>1. issuers'[i].answer = None
    BY <1>0, <1>10 DEF lookForGrant, IssuerState
  <2> QED BY <1>0, <1>4, <1>10, <2>1 DEF lookForGrant, IssuerState
<1>11. ASSUME NEW i \in Issuers, createGrant(i)
       PROVE  GrantedIsStanding'
  <2>1. CASE \/ issuers' = [issuers EXCEPT ![i].pc = "writing"]
             \/ issuers' = [issuers EXCEPT ![i].pc = "reconciling"]
    <3>1. issuers'[i].answer = None
      BY <1>0, <1>11, <2>1 DEF createGrant, IssuerState
    <3> QED BY <1>0, <1>4, <2>1, <3>1 DEF IssuerState
  <2>2. CASE Answer(i, "failed", None)
    BY <1>6, <2>2
  <2> QED BY <1>11, <2>1, <2>2 DEF createGrant
<1>12. ASSUME NEW i \in Issuers, writeGrant(i)
       PROVE  GrantedIsStanding'
  BY <1>6, <1>7, <1>12 DEF writeGrant
<1>13. ASSUME NEW i \in Issuers, reconcileExistingGrant(i)
       PROVE  GrantedIsStanding'
  <2>1. grantFile' = grantFile
    BY <1>13 DEF reconcileExistingGrant
  <2> QED BY <1>6, <1>7, <1>13, <2>1 DEF reconcileExistingGrant
<1>14. CASE UNCHANGED <<grantFile, issuers>>
  BY <1>14 DEF GrantedIsStanding
<1> QED
  BY <1>8, <1>9, <1>10, <1>11, <1>12, <1>13, <1>14 DEF LedgerNext, ledgerVars, Upgrade

\* Whoever is told "granted" is told the one standing grant, with the terms it
\* asked for.
THEOREM GrantedAlwaysStands == LedgerSpec => []GrantedIsStanding
<1>1. LedgerInit => GrantedIsStanding
  BY DEF LedgerInit, GrantedIsStanding
<1>2. Typed /\ OneWriter /\ GrantedIsStanding /\ [LedgerNext]_ledgerVars => GrantedIsStanding'
  BY GrantedStep
<1> QED
  BY <1>1, <1>2, OneWriterAlways, PTL DEF LedgerSpec

-----------------------------------------------------------------------------
(***************************************************************************)
(* The smoke.                                                              *)
(***************************************************************************)

Running == {"reserving", "preparing", "populating", "turning", "marking", "spawning",
            "prompting", "reading", "counting", "checking"}
Visiting == {"turning", "marking", "spawning"}
Invoking == {"prompting", "reading", "counting", "checking"}
Early == {"idle", "claiming", "reserving", "preparing", "populating"}

Claimed(r) == pc[r] \in Running \/ \E p \in SmokeProviderKey : Launched(r, p)

\* The runner that made run.claim is the only one that launches.
OneClaim ==
  /\ \A r \in Runners : Claimed(r) => ClaimFile \in files
  /\ \A r, q \in Runners : Claimed(r) /\ Claimed(q) => r = q

\* What a runner holds is the standing grant.
HeldOf(r) ==
  pc[r] = "claiming" \/ Claimed(r) => Whole /\ held[r] = grantFile

\* A runner's place in the order: what lies ahead is not launched, nothing is
\* said of it yet, and before the visits nothing is launched at all.
InPlaceOf(r) ==
  /\ pc[r] \in {"reserving", "marking", "spawning"} \cup Invoking => OnTurn(r)
  /\ pc[r] \in {"idle", "claiming", "preparing", "populating"} => turn[r] = 1
  /\ pc[r] \in Early => \A p \in SmokeProviderKey :
       child[r][p] = "none" /\ evidence[r][p] = None
  /\ pc[r] \in Visiting => \A k \in turn[r] .. Len(PROVIDER_ORDER) :
       child[r][PROVIDER_ORDER[k]] = "none"
  /\ pc[r] \in Invoking => \A k \in turn[r] + 1 .. Len(PROVIDER_ORDER) :
       child[r][PROVIDER_ORDER[k]] = "none"
  /\ pc[r] \in Visiting \cup Invoking => \A k \in turn[r] .. Len(PROVIDER_ORDER) :
       evidence[r][PROVIDER_ORDER[k]] = None
  /\ pc[r] \in Visiting \cup Invoking => \A k \in 1 .. turn[r] - 1 :
       evidence[r][PROVIDER_ORDER[k]] # None
  /\ pc[r] = "cleaning" => \A p \in SmokeProviderKey : evidence[r][p] # None

\* The markers a runner relies on are there.
RecordedOf(r) ==
  /\ pc[r] \in {"idle", "claiming"} => \A p \in SmokeProviderKey : slot[r][p] = 0
  /\ pc[r] \in Running => \A p \in SmokeProviderKey :
       slot[r][p] # 0 => Marker("slot", p, slot[r][p]) \in files
  /\ pc[r] \in {"marking", "spawning"} =>
       /\ slot[r][Current(r)] # 0
       /\ probed[r][Current(r)] = held[r].binding[Current(r)]
  /\ pc[r] = "spawning" =>
       /\ Marker("spawn", Current(r), slot[r][Current(r)]) \in files
       /\ attempted[r][Current(r)]
  /\ pc[r] \in Running => \A p \in SmokeProviderKey :
       Launched(r, p) => attempted[r][p] /\ slot[r][p] # 0

\* What is said of an invocation is what the child did.
HeededOf(r) ==
  /\ pc[r] \in {"prompting", "reading", "counting"} =>
       /\ Launched(r, Current(r))
       /\ child[r][Current(r)] = "exited" => report[r][Current(r)] \in Reports
  /\ pc[r] = "counting" => child[r][Current(r)] = "exited"
  /\ pc[r] = "checking" =>
       /\ invoked[r] \in
            [stage : {"invocation_completed", "invocation_spawned", "invocation_reserved"},
             exit : Exits \ {"repository_changed"}]
       /\ invoked[r].stage = "invocation_completed" =>
            /\ child[r][Current(r)] = "exited"
            /\ report[r][Current(r)] \in Reports
            /\ invoked[r].exit = "succeeded" =>
                 /\ report[r][Current(r)].exit = "zero" /\ report[r][Current(r)].strict
                 /\ ~timedOut[r][Current(r)]
  /\ \A p \in SmokeProviderKey :
       evidence[r][p] # None /\ evidence[r][p].stage = "invocation_completed"
         /\ evidence[r][p].exit = "succeeded" =>
            /\ child[r][p] = "exited" /\ ~timedOut[r][p]
            /\ report[r][p].exit = "zero" /\ report[r][p].strict

\* A run that has seen a change launches nothing more.
HaltedOf(r) ==
  /\ pc[r] \in {"marking", "spawning"} \cup Invoking => ~halted[r]
  /\ \A p \in SmokeProviderKey :
       evidence[r][p] # None /\ ~evidence[r][p].unchanged => halted[r]

\* LaunchIsRecorded, CountsNeverUnderstate, SecurityHalt and PassIsEarned, of
\* one runner.
LaunchOf(r) ==
  \A p \in SmokeProviderKey : Launched(r, p) =>
    /\ {ClaimFile, Marker("slot", p, slot[r][p]), Marker("spawn", p, slot[r][p])}
         \subseteq files
    /\ Whole /\ held[r] = grantFile
    /\ probed[r][p] = grantFile.binding[p]

CountsOf(r) ==
  \A p \in SmokeProviderKey : evidence[r][p] # None /\ Launched(r, p) =>
    evidence[r][p].counts.reserved >= 1 /\ evidence[r][p].counts.spawnAttempts >= 1

HaltOf(r) ==
  \A j, k \in 1 .. Len(PROVIDER_ORDER) :
    /\ j < k
    /\ evidence[r][PROVIDER_ORDER[j]] # None
    /\ ~evidence[r][PROVIDER_ORDER[j]].unchanged
    => ~Launched(r, PROVIDER_ORDER[k])

PassOf(r) ==
  exitCode[r] = 0 =>
    /\ \A p \in SmokeProviderKey :
         /\ child[r][p] = "exited" /\ ~timedOut[r][p]
         /\ report[r][p].exit = "zero" /\ report[r][p].strict
    /\ dirs[r] = {}
    /\ pc[r] = "finished"

RunnerInv(r) ==
  /\ HeldOf(r) /\ InPlaceOf(r) /\ RecordedOf(r) /\ HeededOf(r) /\ HaltedOf(r)
  /\ LaunchOf(r) /\ CountsOf(r) /\ HaltOf(r) /\ PassOf(r)

IInv ==
  /\ Typed /\ OneWriter /\ TypeOK
  /\ OneClaim
  /\ \A r \in Runners : RunnerInv(r)

-----------------------------------------------------------------------------
(***************************************************************************)
(* Types.                                                                  *)
(***************************************************************************)
LEMMA UsageTyped ==
  ASSUME NEW p, NEW readable \in BOOLEAN
  PROVE  safeUsage(p, readable) \in Usage
  <1>1. IsFiniteSet(Ordinals)
    BY LedgerAssumption, FS_Interval DEF Ordinals
  <1>2. /\ Cardinality({n \in Ordinals : Marker("slot", p, n) \in files}) \in Nat
        /\ Cardinality({n \in Ordinals : Marker("spawn", p, n) \in files}) \in Nat
    BY <1>1, FS_Subset, FS_CardinalityType
  <1> QED BY <1>2 DEF safeUsage, usage, NoUsage, Usage

LEMMA CountsTyped ==
  ASSUME NEW u \in Usage, NEW r, NEW p
  PROVE  /\ counts(u, r, p) \in Usage
         /\ slot[r][p] # 0 => counts(u, r, p).reserved >= 1
         /\ attempted[r][p] => counts(u, r, p).spawnAttempts >= 1
  BY DEF Usage, counts, AtLeast, One

LEMMA PendingTyped ==
  ASSUME NEW stage \in Stages, NEW c \in Usage
  PROVE  pendingEvidence(stage, c) \in Said
  BY DEF pendingEvidence, Evidence, Said

LEMMA UniformTyped ==
  ASSUME NEW r, NEW stage \in Stages, NEW readable \in BOOLEAN
  PROVE  uniform(r, stage, readable) \in [SmokeProviderKey -> Said]
  BY UsageTyped, CountsTyped, PendingTyped DEF uniform

LEMMA NestedUpdate ==
  ASSUME NEW S, NEW f \in [Runners -> [SmokeProviderKey -> S]],
         NEW r \in Runners, NEW p \in SmokeProviderKey, NEW v \in S
  PROVE  [f EXCEPT ![r][p] = v] \in [Runners -> [SmokeProviderKey -> S]]
  <1>1. f[r] \in [SmokeProviderKey -> S]
    OBVIOUS
  <1>2. [f[r] EXCEPT ![p] = v] \in [SmokeProviderKey -> S]
    BY <1>1
  <1>3. [f EXCEPT ![r] = [f[r] EXCEPT ![p] = v]] \in [Runners -> [SmokeProviderKey -> S]]
    BY <1>2
  <1> QED BY <1>3

LEMMA NestedLookup ==
  ASSUME NEW S, NEW f \in [Runners -> [SmokeProviderKey -> S]],
         NEW r \in Runners, NEW p \in SmokeProviderKey, NEW v,
         NEW q \in Runners, NEW k \in SmokeProviderKey
  PROVE  [f EXCEPT ![r][p] = v][q][k] = IF q = r /\ k = p THEN v ELSE f[q][k]
  OBVIOUS

LEMMA MarkerTyped ==
  ASSUME NEW p \in SmokeProviderKey, NEW n \in Ordinals
  PROVE  Marker("slot", p, n) \in Markers /\ Marker("spawn", p, n) \in Markers
  BY DEF Marker, Markers

LEMMA CurrentTyped ==
  ASSUME TypeOK, NEW r \in Runners, OnTurn(r)
  PROVE  /\ turn[r] \in 1 .. Len(PROVIDER_ORDER)
         /\ turn[r] + 1 \in 1 .. Len(PROVIDER_ORDER) + 1
         /\ Current(r) \in SmokeProviderKey
  <1>1. turn[r] \in 1 .. Len(PROVIDER_ORDER) + 1 /\ turn[r] <= Len(PROVIDER_ORDER)
    BY DEF TypeOK, OnTurn
  <1>2. Len(PROVIDER_ORDER) \in Nat /\ PROVIDER_ORDER \in Seq(SmokeProviderKey)
    BY SmokeAssumption
  <1>3. /\ turn[r] \in 1 .. Len(PROVIDER_ORDER)
        /\ turn[r] + 1 \in 1 .. Len(PROVIDER_ORDER) + 1
    BY <1>1, <1>2
  <1>4. PROVIDER_ORDER[turn[r]] \in SmokeProviderKey
    BY <1>2, <1>3
  <1> QED BY <1>3, <1>4 DEF Current

LEMMA ExitTyped ==
  ASSUME NEW exit, NEW late, NEW strict, NEW e \in Exits, NEW unchanged
  PROVE  /\ classifyExit(exit, late, strict) \in Exits
         /\ withRepositoryStatus(e, unchanged) \in Exits
  BY DEF classifyExit, withRepositoryStatus, Exits

LEMMA TypeStep ==
  ASSUME TypeOK, Typed, \A r \in Runners : RunnerInv(r), [SmokeNext]_vars
  PROVE  TypeOK'
<1> USE DEF TypeOK
<1>1. ASSUME LedgerNext, UNCHANGED runVars
      PROVE  TypeOK'
  <2>1. LedgerTypeOK'
    BY <1>1, LedgerTypeStep DEF Typed
  <2> QED BY <1>1, <2>1 DEF runVars
<1>2. ASSUME NEW r \in Runners, NotOptedIn(r)
      PROVE  TypeOK'
  BY <1>2 DEF NotOptedIn, ledgerVars, LedgerTypeOK
<1>3. ASSUME NEW r \in Runners, NEW stage, NEW ledger, refuse(r, stage, ledger)
      PROVE  /\ pc' = [pc EXCEPT ![r] = "finished"]
             /\ exitCode' \in [Runners -> {None, 0, 1}]
  BY <1>3 DEF refuse, ExitCode
<1>4. ASSUME NEW r \in Runners, RefuseEarly(r)
      PROVE  TypeOK'
  BY <1>3, <1>4 DEF RefuseEarly, ledgerVars, LedgerTypeOK
<1>5. ASSUME NEW r \in Runners, NEW models, NEW policy, readGrant(r, models, policy)
      PROVE  TypeOK'
  <2>1. /\ pc' \in [Runners -> {"idle", "claiming", "reserving", "preparing", "populating",
                         "turning", "marking", "spawning", "prompting", "reading",
                         "counting", "checking", "cleaning", "finished", "crashed"}]
        /\ exitCode' \in [Runners -> {None, 0, 1}]
    BY <1>3, <1>5 DEF readGrant
  <2>2. held' \in [Runners -> Grants \cup {None}]
    BY <1>5, GrantFileCases, ZenonT(40) DEF readGrant
  <2> QED BY <1>5, <2>1, <2>2 DEF readGrant, ledgerVars, LedgerTypeOK
<1>6. ASSUME NEW r \in Runners, NEW ledger, ledger \subseteq BOOLEAN,
             preflightUnavailable(r, ledger)
      PROVE  /\ pc' = [pc EXCEPT ![r] = "cleaning"]
             /\ evidence' \in [Runners -> [SmokeProviderKey -> {None} \cup Said]]
  <2>1. PICK readable \in BOOLEAN :
          evidence' = [evidence EXCEPT ![r] = uniform(r, "preflight_unavailable", readable)]
    BY <1>6 DEF preflightUnavailable
  <2>2. uniform(r, "preflight_unavailable", readable) \in [SmokeProviderKey -> {None} \cup Said]
    <3>1. "preflight_unavailable" \in Stages
      BY DEF Stages
    <3>2. uniform(r, "preflight_unavailable", readable) \in [SmokeProviderKey -> Said]
      BY <3>1, UniformTyped
    <3> QED BY <3>2
  <2> QED BY <1>6, <2>1, <2>2 DEF preflightUnavailable, Said, Usage
<1>7. ASSUME NEW f \in Markers, Created(f) \/ AlreadyExists(f) \/ WriteFailed(f),
             UNCHANGED <<grantFile, installed, issuers>>
      PROVE  LedgerTypeOK'
  BY <1>7 DEF LedgerTypeOK, Created, AlreadyExists, WriteFailed
<1>8. ASSUME NEW r \in Runners, claimRun(r)
      PROVE  TypeOK'
  <2>1. LedgerTypeOK'
    <3>1. ClaimFile \in Markers
      BY DEF Markers
    <3> QED BY <1>7, <1>8, <3>1 DEF claimRun
  <2>2. evidence' \in [Runners -> [SmokeProviderKey -> {None} \cup Said]]
    BY <1>6, <1>8 DEF claimRun, Said, Usage, Unread
  <2>3. /\ pc' \in {[pc EXCEPT ![r] = "reserving"], [pc EXCEPT ![r] = "finished"],
                    [pc EXCEPT ![r] = "cleaning"]}
        /\ exitCode' \in [Runners -> {None, 0, 1}]
    BY <1>3, <1>6, <1>8 DEF claimRun, Unread
  <2> QED BY <1>8, <2>1, <2>2, <2>3 DEF claimRun, Said, Usage
<1>9. ASSUME NEW r \in Runners, reserve(r)
      PROVE  TypeOK'
  <2>1. /\ Current(r) \in SmokeProviderKey
        /\ turn[r] + 1 \in 1 .. Len(PROVIDER_ORDER) + 1
    BY <1>9, CurrentTyped DEF reserve, RunnerInv, InPlaceOf
  <2>2. LedgerTypeOK'
    BY <1>7, <1>9, <2>1, MarkerTyped DEF reserve, LedgerTypeOK
  <2>3. evidence' \in [Runners -> [SmokeProviderKey -> {None} \cup Said]]
    BY <1>6, <1>9 DEF reserve, Said, Usage, Unread
  <2>4. slot' \in [Runners -> [SmokeProviderKey -> 0 .. SMOKE_MAX_INVOCATIONS]]
    <3>1. slot \in [Runners -> [SmokeProviderKey -> 0 .. SMOKE_MAX_INVOCATIONS]]
      OBVIOUS
    <3>2. \/ UNCHANGED slot
          \/ \E n \in 0 .. SMOKE_MAX_INVOCATIONS : slot' = [slot EXCEPT ![r][Current(r)] = n]
      <4>1. Ordinals \subseteq 0 .. SMOKE_MAX_INVOCATIONS
        BY LedgerAssumption DEF Ordinals
      <4> QED BY <1>9, <4>1 DEF reserve
    <3> HIDE DEF TypeOK
    <3>3. CASE UNCHANGED slot
      BY <3>1, <3>3
    <3>4. ASSUME NEW n \in 0 .. SMOKE_MAX_INVOCATIONS, slot' = [slot EXCEPT ![r][Current(r)] = n]
          PROVE  slot' \in [Runners -> [SmokeProviderKey -> 0 .. SMOKE_MAX_INVOCATIONS]]
      BY <3>1, <2>1, NestedUpdate, <3>4
    <3> QED BY <3>2, <3>3, <3>4
  <2>5. AfterReserve(r) \/ (UNCHANGED turn /\ pc' = [pc EXCEPT ![r] = "cleaning"])
    BY <1>6, <1>9 DEF reserve, Unread
  <2>6. turn' \in [Runners -> 1 .. Len(PROVIDER_ORDER) + 1]
    <3>1. turn' \in {turn, [turn EXCEPT ![r] = turn[r] + 1], [turn EXCEPT ![r] = 1]}
      BY <2>5 DEF AfterReserve
    <3>2. 1 \in 1 .. Len(PROVIDER_ORDER) + 1
      BY SmokeAssumption
    <3> QED BY <2>1, <3>1, <3>2
  <2>7. pc' \in {pc, [pc EXCEPT ![r] = "preparing"], [pc EXCEPT ![r] = "cleaning"]}
    BY <2>5 DEF AfterReserve
  <2> QED BY <1>9, <2>2, <2>3, <2>4, <2>6, <2>7 DEF reserve, Said, Usage
<1>10. ASSUME NEW r \in Runners, prepareRepository(r) \/ createSyntheticPublicRepository(r)
       PROVE  TypeOK'
  <2>1. /\ evidence' \in [Runners -> [SmokeProviderKey -> {None} \cup Said]]
        /\ pc' \in {[pc EXCEPT ![r] = "populating"], [pc EXCEPT ![r] = "turning"],
                    [pc EXCEPT ![r] = "cleaning"]}
    BY <1>6, <1>10
    DEF prepareRepository, createSyntheticPublicRepository, Said, Usage, boundLedger
  <2>2. dirs' \in [Runners -> SUBSET {"runtime", "repository"}]
    <3>1. dirs' \in {dirs, [dirs EXCEPT ![r] = @ \cup {"runtime"}],
                      [dirs EXCEPT ![r] = @ \cup {"repository"}]}
      BY <1>10 DEF prepareRepository, createSyntheticPublicRepository
    <3>2. dirs[r] \in SUBSET {"runtime", "repository"}
      OBVIOUS
    <3>3. CASE UNCHANGED dirs
      BY <3>3
    <3>4. CASE dirs' = [dirs EXCEPT ![r] = dirs[r] \cup {"runtime"}]
      <4>1. dirs[r] \cup {"runtime"} \in SUBSET {"runtime", "repository"}
        BY <3>2
      <4> QED BY <3>4, <4>1
    <3>5. CASE dirs' = [dirs EXCEPT ![r] = dirs[r] \cup {"repository"}]
      <4>1. dirs[r] \cup {"repository"} \in SUBSET {"runtime", "repository"}
        BY <3>2
      <4> QED BY <3>5, <4>1
    <3> QED BY <3>1, <3>3, <3>4, <3>5
  <2> QED
    BY <1>10, <2>1, <2>2, ZenonT(40)
    DEF prepareRepository, createSyntheticPublicRepository, ledgerVars, LedgerTypeOK,
        Said, Usage
<1>11. ASSUME NEW r \in Runners, OnTurn(r), NEW ev \in Said, Push(r, ev)
       PROVE  /\ evidence' \in [Runners -> [SmokeProviderKey -> {None} \cup Said]]
              /\ turn' \in [Runners -> 1 .. Len(PROVIDER_ORDER) + 1]
              /\ pc' = [pc EXCEPT ![r] = "turning"]
  <2>1. /\ Current(r) \in SmokeProviderKey
        /\ turn[r] + 1 \in 1 .. Len(PROVIDER_ORDER) + 1
    BY <1>11, CurrentTyped
  <2>2. evidence \in [Runners -> [SmokeProviderKey -> {None} \cup Said]]
    BY DEF Said, Usage
  <2>3. evidence' = [evidence EXCEPT ![r][Current(r)] = ev]
    BY <1>11 DEF Push
  <2>4. evidence' \in [Runners -> [SmokeProviderKey -> {None} \cup Said]]
    BY <2>1, <2>2, <2>3, NestedUpdate
  <2> QED BY <1>11, <2>1, <2>4 DEF Push
<1>12. ASSUME NEW r \in Runners, OnTurn(r), NEW stage \in Stages, PushPending(r, stage)
       PROVE  \E ev \in Said : Push(r, ev)
  <2>1. PICK readable \in BOOLEAN :
          Push(r, pendingEvidence(stage,
                    counts(safeUsage(Current(r), readable), r, Current(r))))
    BY <1>12 DEF PushPending
  <2>2. counts(safeUsage(Current(r), readable), r, Current(r)) \in Usage
    BY UsageTyped, CountsTyped
  <2> QED BY <1>12, <2>1, <2>2, PendingTyped
<1>13. ASSUME NEW r \in Runners, visitProvider(r)
       PROVE  TypeOK'
  <2>1. Current(r) \in SmokeProviderKey
    BY <1>13, CurrentTyped DEF visitProvider
  <2>2. \/ \E ev \in Said : Push(r, ev)
        \/ pc' = [pc EXCEPT ![r] = "marking"] /\ UNCHANGED <<evidence, turn>>
    BY <1>12, <1>13 DEF visitProvider, Stages
  <2>3. /\ evidence' \in [Runners -> [SmokeProviderKey -> {None} \cup Said]]
        /\ turn' \in [Runners -> 1 .. Len(PROVIDER_ORDER) + 1]
        /\ pc' \in {[pc EXCEPT ![r] = "turning"], [pc EXCEPT ![r] = "marking"]}
    BY <1>11, <1>13, <2>2 DEF visitProvider, Said, Usage
  <2>4. probed' \in [Runners -> [SmokeProviderKey -> Builds \cup {None}]]
    <3>1. probed \in [Runners -> [SmokeProviderKey -> Builds \cup {None}]]
      OBVIOUS
    <3>2. installed[Current(r)] \in Builds
      BY <2>1 DEF LedgerTypeOK
    <3>3. UNCHANGED probed \/ probed' = [probed EXCEPT ![r][Current(r)] = installed[Current(r)]]
      BY <1>13 DEF visitProvider
    <3> HIDE DEF TypeOK
    <3>4. CASE UNCHANGED probed
      BY <3>1, <3>4
    <3>5. CASE probed' = [probed EXCEPT ![r][Current(r)] = installed[Current(r)]]
      <4>1. installed[Current(r)] \in Builds \cup {None}
        BY <3>2
      <4> QED BY <3>1, <2>1, <4>1, NestedUpdate, <3>5
    <3> QED BY <3>3, <3>4, <3>5
  <2> QED
    BY <1>13, <2>3, <2>4 DEF visitProvider, ledgerVars, LedgerTypeOK, Said, Usage
<1>14. ASSUME NEW r \in Runners, markSpawnAttempt(r)
       PROVE  TypeOK'
  <2>1. OnTurn(r) /\ Current(r) \in SmokeProviderKey /\ slot[r][Current(r)] \in Ordinals
    BY <1>14, CurrentTyped, LedgerAssumption DEF markSpawnAttempt, RunnerInv, InPlaceOf, RecordedOf, Ordinals
  <2>2. LedgerTypeOK'
    BY <1>7, <1>14, <2>1, MarkerTyped DEF markSpawnAttempt
  <2>3. \/ \E ev \in Said : Push(r, ev)
        \/ pc' = [pc EXCEPT ![r] = "spawning"] /\ UNCHANGED <<evidence, turn>>
    BY <1>12, <1>14, <2>1 DEF markSpawnAttempt, Stages
  <2>4. /\ evidence' \in [Runners -> [SmokeProviderKey -> {None} \cup Said]]
        /\ turn' \in [Runners -> 1 .. Len(PROVIDER_ORDER) + 1]
        /\ pc' \in {[pc EXCEPT ![r] = "turning"], [pc EXCEPT ![r] = "spawning"]}
    BY <1>11, <2>1, <2>3 DEF Said, Usage
  <2>5. attempted' \in [Runners -> [SmokeProviderKey -> BOOLEAN]]
    <3>1. attempted \in [Runners -> [SmokeProviderKey -> BOOLEAN]]
      OBVIOUS
    <3>2. UNCHANGED attempted \/ attempted' = [attempted EXCEPT ![r][Current(r)] = TRUE]
      BY <1>14 DEF markSpawnAttempt
    <3> HIDE DEF TypeOK
    <3>3. CASE UNCHANGED attempted
      BY <3>1, <3>3
    <3>4. CASE attempted' = [attempted EXCEPT ![r][Current(r)] = TRUE]
      BY <3>1, <2>1, NestedUpdate, <3>4
    <3> QED BY <3>2, <3>3, <3>4
  <2> QED BY <1>14, <2>2, <2>4, <2>5 DEF markSpawnAttempt, Said, Usage
<1>15. ASSUME NEW r \in Runners, NEW stage \in Stages, NEW exit \in Exits,
              Invoked(r, stage, exit)
       PROVE  /\ invoked' \in [Runners -> {None} \cup [stage : Stages, exit : Exits]]
              /\ pc' = [pc EXCEPT ![r] = "checking"]
  BY <1>15 DEF Invoked
<1>16. ASSUME NEW r \in Runners, spawn(r)
       PROVE  TypeOK'
  <2>1. Current(r) \in SmokeProviderKey
    BY <1>16, CurrentTyped DEF spawn, RunnerInv, InPlaceOf
  <2>2. /\ invoked' \in [Runners -> {None} \cup [stage : Stages, exit : Exits]]
        /\ pc' \in {[pc EXCEPT ![r] = "prompting"], [pc EXCEPT ![r] = "checking"]}
    BY <1>15, <1>16 DEF spawn, Stages, Exits
  <2>3. child' \in [Runners -> [SmokeProviderKey -> {"none", "alive", "doomed", "exited"}]]
    <3>1. child \in [Runners -> [SmokeProviderKey -> {"none", "alive", "doomed", "exited"}]]
      OBVIOUS
    <3>2. UNCHANGED child \/ child' = [child EXCEPT ![r][Current(r)] = "alive"]
      BY <1>16 DEF spawn
    <3> HIDE DEF TypeOK
    <3>3. CASE UNCHANGED child
      BY <3>1, <3>3
    <3>4. CASE child' = [child EXCEPT ![r][Current(r)] = "alive"]
      BY <3>1, <2>1, NestedUpdate, <3>4
    <3> QED BY <3>2, <3>3, <3>4
  <2> QED BY <1>16, <2>2, <2>3 DEF spawn, ledgerVars, LedgerTypeOK
<1>17. ASSUME NEW r \in Runners, writePrompt(r) \/ readToEnd(r)
       PROVE  TypeOK'
  BY <1>17, ZenonT(40) DEF writePrompt, readToEnd, ledgerVars, LedgerTypeOK
<1>18. ASSUME NEW r \in Runners, abandon(r)
       PROVE  TypeOK'
  <2>1. /\ invoked' \in [Runners -> {None} \cup [stage : Stages, exit : Exits]]
        /\ pc' = [pc EXCEPT ![r] = "checking"]
    BY <1>15, <1>18 DEF abandon, Stages, Exits
  <2> QED BY <1>18, <2>1 DEF abandon, ledgerVars, LedgerTypeOK
<1>19. ASSUME NEW r \in Runners, complete(r)
       PROVE  TypeOK'
  <2>1. /\ invoked' \in [Runners -> {None} \cup [stage : Stages, exit : Exits]]
        /\ pc' = [pc EXCEPT ![r] = "checking"]
    <3>1. PICK exit, strict :
            Invoked(r, "invocation_completed", classifyExit(exit, timedOut[r][Current(r)], strict))
      BY <1>19 DEF complete
    <3>2. classifyExit(exit, timedOut[r][Current(r)], strict) \in Exits
      BY ExitTyped DEF Exits
    <3>3. "invocation_completed" \in Stages
      BY DEF Stages
    <3> QED BY <1>15, <3>1, <3>2, <3>3
  <2> QED BY <1>19, <2>1 DEF complete, ledgerVars, LedgerTypeOK
<1>20. ASSUME NEW r \in Runners, timeout(r)
       PROVE  TypeOK'
  <2>1. Current(r) \in SmokeProviderKey
    BY <1>20, CurrentTyped DEF timeout, TimerArmed, RunnerInv, InPlaceOf, Invoking
  <2>2. child' \in [Runners -> [SmokeProviderKey -> {"none", "alive", "doomed", "exited"}]]
    BY <1>20, <2>1 DEF timeout
  <2>3. timedOut' \in [Runners -> [SmokeProviderKey -> BOOLEAN]]
    BY <1>20, <2>1, NestedUpdate DEF timeout
  <2> QED BY <1>20, <2>2, <2>3 DEF timeout, ledgerVars, LedgerTypeOK
<1>21. ASSUME NEW r \in Runners, checkRepository(r)
       PROVE  TypeOK'
  <2>1. OnTurn(r) /\ invoked[r] \in [stage : Stages, exit : Exits]
    BY <1>21 DEF checkRepository, RunnerInv, InPlaceOf, Invoking, HeededOf, Stages
  <2>2. PICK unchanged \in {~changed[r], FALSE}, readable \in BOOLEAN,
             strict \in Heard(r, Current(r)) :
          Push(r, Evidence(invoked[r].stage,
                    counts(safeUsage(Current(r), readable), r, Current(r)),
                    withRepositoryStatus(invoked[r].exit, unchanged), strict, unchanged))
    BY <1>21 DEF checkRepository
  <2>3. strict \in BOOLEAN
    <3>1. CASE invoked[r].stage = "invocation_completed"
      <4>1. report[r][Current(r)] \in Reports
        BY <1>21, <3>1 DEF checkRepository, RunnerInv, HeededOf
      <4>2. report[r][Current(r)].strict \in BOOLEAN
        BY <4>1, SmokeAssumption
      <4>3. strict = report[r][Current(r)].strict
        BY <2>2, <3>1 DEF Heard
      <4> QED BY <4>2, <4>3
    <3>2. CASE invoked[r].stage = "invocation_spawned"
      BY <2>2, <3>2 DEF Heard
    <3>3. CASE invoked[r].stage = "invocation_reserved"
      BY <2>2, <3>3 DEF Heard
    <3> QED BY <1>21, <3>1, <3>2, <3>3 DEF checkRepository, RunnerInv, HeededOf
  <2>4. counts(safeUsage(Current(r), readable), r, Current(r)) \in Usage
    BY UsageTyped, CountsTyped
  <2>5. withRepositoryStatus(invoked[r].exit, unchanged) \in Exits
    BY <2>1, ExitTyped
  <2>6. Evidence(invoked[r].stage,
          counts(safeUsage(Current(r), readable), r, Current(r)),
          withRepositoryStatus(invoked[r].exit, unchanged), strict, unchanged) \in Said
    BY <2>1, <2>2, <2>3, <2>4, <2>5 DEF Evidence, Said
  <2>7. /\ evidence' \in [Runners -> [SmokeProviderKey -> {None} \cup Said]]
        /\ turn' \in [Runners -> 1 .. Len(PROVIDER_ORDER) + 1]
        /\ pc' = [pc EXCEPT ![r] = "turning"]
    BY <1>11, <2>1, <2>2, <2>6
  <2>8. halted' \in [Runners -> BOOLEAN]
    BY <1>21 DEF checkRepository, Halts, withRepositoryStatus
  <2> QED
    BY <1>21, <2>7, <2>8 DEF checkRepository, ledgerVars, LedgerTypeOK, Said, Usage
<1>22. ASSUME NEW r \in Runners, Forget(r)
       PROVE  /\ held' \in [Runners -> Grants \cup {None}]
              /\ slot' \in [Runners -> [SmokeProviderKey -> 0 .. SMOKE_MAX_INVOCATIONS]]
              /\ probed' \in [Runners -> [SmokeProviderKey -> Builds \cup {None}]]
              /\ turn' \in [Runners -> 1 .. Len(PROVIDER_ORDER) + 1]
              /\ attempted' \in [Runners -> [SmokeProviderKey -> BOOLEAN]]
              /\ timedOut' \in [Runners -> [SmokeProviderKey -> BOOLEAN]]
              /\ invoked' \in [Runners -> {None} \cup [stage : Stages, exit : Exits]]
              /\ halted' \in [Runners -> BOOLEAN]
              /\ evidence' \in [Runners -> [SmokeProviderKey -> {None} \cup Said]]
  <2>1. /\ PerProvider(0) \in [SmokeProviderKey -> 0 .. SMOKE_MAX_INVOCATIONS]
        /\ PerProvider(None) \in [SmokeProviderKey -> Builds \cup {None}]
        /\ PerProvider(FALSE) \in [SmokeProviderKey -> BOOLEAN]
        /\ PerProvider(None) \in [SmokeProviderKey -> {None} \cup Said]
        /\ 1 \in 1 .. Len(PROVIDER_ORDER) + 1
    BY LedgerAssumption, SmokeAssumption DEF PerProvider
  <2>2. evidence \in [Runners -> [SmokeProviderKey -> {None} \cup Said]]
    BY DEF Said, Usage
  <2>3. /\ UNCHANGED held \/ held' = [held EXCEPT ![r] = None]
        /\ UNCHANGED slot \/ slot' = [slot EXCEPT ![r] = PerProvider(0)]
        /\ UNCHANGED probed \/ probed' = [probed EXCEPT ![r] = PerProvider(None)]
    BY <1>22 DEF Forget
  <2>4. held' \in [Runners -> Grants \cup {None}]
    BY <2>3
  <2>6. slot' \in [Runners -> [SmokeProviderKey -> 0 .. SMOKE_MAX_INVOCATIONS]]
    BY <2>1, <2>3
  <2>7. probed' \in [Runners -> [SmokeProviderKey -> Builds \cup {None}]]
    BY <2>1, <2>3
  <2>5. /\ turn' \in [Runners -> 1 .. Len(PROVIDER_ORDER) + 1]
        /\ attempted' \in [Runners -> [SmokeProviderKey -> BOOLEAN]]
        /\ timedOut' \in [Runners -> [SmokeProviderKey -> BOOLEAN]]
        /\ evidence' \in [Runners -> [SmokeProviderKey -> {None} \cup Said]]
    BY <1>22, <2>1, <2>2 DEF Forget
  <2> QED BY <1>22, <2>4, <2>5, <2>6, <2>7 DEF Forget
<1>23. ASSUME NEW r \in Runners, finish(r)
       PROVE  TypeOK'
  <2>1. /\ dirs' \in [Runners -> SUBSET {"runtime", "repository"}]
        /\ exitCode' \in [Runners -> {None, 0, 1}]
    <3>1. PICK left \in SUBSET dirs[r] :
            /\ dirs' = [dirs EXCEPT ![r] = left]
            /\ exitCode' = [exitCode EXCEPT ![r] = ExitCode(evidence[r], cleanupStatus(left))]
      BY <1>23 DEF finish
    <3>2. left \in SUBSET {"runtime", "repository"}
      BY <3>1
    <3> QED BY <3>1, <3>2 DEF ExitCode
  <2> QED BY <1>22, <1>23, <2>1 DEF finish, ledgerVars, LedgerTypeOK, Said, Usage
<1>24. ASSUME NEW r \in Runners, crash(r)
       PROVE  TypeOK'
  BY <1>22, <1>24 DEF crash, ledgerVars, LedgerTypeOK, Said, Usage
<1>25. ASSUME NEW r \in Runners, NEW p \in SmokeProviderKey, childExits(r, p)
       PROVE  TypeOK'
  <2>1. child' \in [Runners -> [SmokeProviderKey -> {"none", "alive", "doomed", "exited"}]]
    <3>0. child \in [Runners -> [SmokeProviderKey -> {"none", "alive", "doomed", "exited"}]]
      OBVIOUS
    <3>1. child' = [child EXCEPT ![r][p] = "exited"]
      BY <1>25 DEF childExits
    <3> HIDE DEF TypeOK
    <3> QED BY <3>0, <3>1, NestedUpdate
  <2>2. report' \in [Runners -> [SmokeProviderKey -> Reports \cup {None}]]
    <3>1. report \in [Runners -> [SmokeProviderKey -> Reports \cup {None}]]
      OBVIOUS
    <3>2. UNCHANGED report \/ \E rep \in Reports : report' = [report EXCEPT ![r][p] = rep]
      BY <1>25 DEF childExits
    <3> HIDE DEF TypeOK
    <3>3. CASE UNCHANGED report
      BY <3>1, <3>3
    <3>4. ASSUME NEW rep \in Reports, report' = [report EXCEPT ![r][p] = rep]
          PROVE  report' \in [Runners -> [SmokeProviderKey -> Reports \cup {None}]]
      BY <3>1, NestedUpdate, <3>4
    <3> QED BY <3>2, <3>3, <3>4
  <2> QED BY <1>25, <2>1, <2>2 DEF childExits, ledgerVars, LedgerTypeOK
<1>26. ASSUME NEW r \in Runners, NEW p \in SmokeProviderKey, childWrites(r, p)
       PROVE  TypeOK'
  BY <1>26 DEF childWrites, ledgerVars, LedgerTypeOK
<1>27. CASE UNCHANGED vars
  BY <1>27 DEF vars, runVars, ledgerVars, LedgerTypeOK
<1> QED
  BY <1>1, <1>2, <1>4, <1>5, <1>8, <1>9, <1>10, <1>13, <1>14, <1>16, <1>17, <1>18,
     <1>19, <1>20, <1>21, <1>23, <1>24, <1>25, <1>26, <1>27
  DEF SmokeNext, Start, Advance

-----------------------------------------------------------------------------
(***************************************************************************)
(* What a step leaves alone: whole grants and files stay, and a runner and *)
(* its children change nothing of another runner.                          *)
(***************************************************************************)
\* A step of the runner r, its timer or one of its children.
RunnerStep(r) ==
  \/ Start(r) \/ Advance(r) \/ abandon(r) \/ timeout(r) \/ crash(r)
  \/ \E p \in SmokeProviderKey : childExits(r, p) \/ childWrites(r, p)

LEMMA RunnerFiles ==
  ASSUME NEW r \in Runners, RunnerStep(r)
  PROVE  files \subseteq files' /\ UNCHANGED <<grantFile, installed, issuers>>
<1>1. ASSUME NotOptedIn(r)
      PROVE  files \subseteq files' /\ UNCHANGED <<grantFile, installed, issuers>>
  BY <1>1 DEF NotOptedIn, ledgerVars
<1>2. ASSUME RefuseEarly(r)
      PROVE  files \subseteq files' /\ UNCHANGED <<grantFile, installed, issuers>>
  BY <1>2 DEF RefuseEarly, ledgerVars
<1>3. ASSUME NEW models, NEW policy, readGrant(r, models, policy)
      PROVE  files \subseteq files' /\ UNCHANGED <<grantFile, installed, issuers>>
  BY <1>3 DEF readGrant, ledgerVars
<1>4. ASSUME claimRun(r)
      PROVE  files \subseteq files' /\ UNCHANGED <<grantFile, installed, issuers>>
  BY <1>4 DEF claimRun, Created, AlreadyExists, WriteFailed
<1>5. ASSUME reserve(r)
      PROVE  files \subseteq files' /\ UNCHANGED <<grantFile, installed, issuers>>
  BY <1>5 DEF reserve, Created, AlreadyExists, WriteFailed
<1>6. ASSUME prepareRepository(r)
      PROVE  files \subseteq files' /\ UNCHANGED <<grantFile, installed, issuers>>
  BY <1>6 DEF prepareRepository, ledgerVars
<1>7. ASSUME createSyntheticPublicRepository(r)
      PROVE  files \subseteq files' /\ UNCHANGED <<grantFile, installed, issuers>>
  BY <1>7 DEF createSyntheticPublicRepository, ledgerVars
<1>8. ASSUME visitProvider(r)
      PROVE  files \subseteq files' /\ UNCHANGED <<grantFile, installed, issuers>>
  BY <1>8 DEF visitProvider, ledgerVars
<1>9. ASSUME markSpawnAttempt(r)
      PROVE  files \subseteq files' /\ UNCHANGED <<grantFile, installed, issuers>>
  BY <1>9 DEF markSpawnAttempt, Created, AlreadyExists, WriteFailed
<1>10. ASSUME spawn(r)
      PROVE  files \subseteq files' /\ UNCHANGED <<grantFile, installed, issuers>>
  BY <1>10 DEF spawn, ledgerVars
<1>11. ASSUME writePrompt(r)
      PROVE  files \subseteq files' /\ UNCHANGED <<grantFile, installed, issuers>>
  BY <1>11 DEF writePrompt, ledgerVars
<1>12. ASSUME abandon(r)
      PROVE  files \subseteq files' /\ UNCHANGED <<grantFile, installed, issuers>>
  BY <1>12 DEF abandon, ledgerVars
<1>13. ASSUME readToEnd(r)
      PROVE  files \subseteq files' /\ UNCHANGED <<grantFile, installed, issuers>>
  BY <1>13 DEF readToEnd, ledgerVars
<1>14. ASSUME complete(r)
      PROVE  files \subseteq files' /\ UNCHANGED <<grantFile, installed, issuers>>
  BY <1>14 DEF complete, ledgerVars
<1>15. ASSUME timeout(r)
      PROVE  files \subseteq files' /\ UNCHANGED <<grantFile, installed, issuers>>
  BY <1>15 DEF timeout, ledgerVars
<1>16. ASSUME checkRepository(r)
      PROVE  files \subseteq files' /\ UNCHANGED <<grantFile, installed, issuers>>
  BY <1>16 DEF checkRepository, ledgerVars
<1>17. ASSUME finish(r)
      PROVE  files \subseteq files' /\ UNCHANGED <<grantFile, installed, issuers>>
  BY <1>17 DEF finish, ledgerVars
<1>18. ASSUME crash(r)
      PROVE  files \subseteq files' /\ UNCHANGED <<grantFile, installed, issuers>>
  BY <1>18 DEF crash, ledgerVars
<1>19. ASSUME NEW p \in SmokeProviderKey, childExits(r, p)
      PROVE  files \subseteq files' /\ UNCHANGED <<grantFile, installed, issuers>>
  BY <1>19 DEF childExits, ledgerVars
<1>20. ASSUME NEW p \in SmokeProviderKey, childWrites(r, p)
      PROVE  files \subseteq files' /\ UNCHANGED <<grantFile, installed, issuers>>
  BY <1>20 DEF childWrites, ledgerVars
<1> QED
  BY <1>1, <1>2, <1>3, <1>4, <1>5, <1>6, <1>7, <1>8, <1>9, <1>10, <1>11, <1>12, <1>13,
     <1>14, <1>15, <1>16, <1>17, <1>18, <1>19, <1>20
  DEF RunnerStep, Start, Advance

LEMMA FilesStay ==
  ASSUME Typed, OneWriter, TypeOK, [SmokeNext]_vars
  PROVE  /\ files \subseteq files'
         /\ Whole => grantFile' = grantFile /\ Whole'
<1>1. CASE LedgerNext
  <2>1. files' = files
    BY <1>1 DEF LedgerNext, issueGrant, refuseGrant, lookForGrant, createGrant, writeGrant,
                reconcileExistingGrant, Upgrade
  <2> QED BY <1>1, <2>1, WholeStays DEF Whole
<1>2. ASSUME NEW r \in Runners, RunnerStep(r)
      PROVE  files \subseteq files' /\ grantFile' = grantFile
  BY <1>2, RunnerFiles
<1>3. CASE UNCHANGED vars
  BY <1>3 DEF vars, ledgerVars, Whole
<1> QED
  BY <1>1, <1>2, <1>3 DEF SmokeNext, RunnerStep, Whole

\* Nothing of the runner q changes.
Unmoved(q) ==
  /\ pc'[q] = pc[q] /\ held'[q] = held[q] /\ turn'[q] = turn[q]
  /\ slot'[q] = slot[q] /\ attempted'[q] = attempted[q] /\ probed'[q] = probed[q]
  /\ timedOut'[q] = timedOut[q] /\ invoked'[q] = invoked[q] /\ halted'[q] = halted[q]
  /\ dirs'[q] = dirs[q] /\ evidence'[q] = evidence[q] /\ exitCode'[q] = exitCode[q]
  /\ child'[q] = child[q] /\ report'[q] = report[q] /\ changed'[q] = changed[q]

LEMMA UnmovedKeeps ==
  ASSUME NEW q \in Runners, RunnerInv(q), Unmoved(q), files \subseteq files',
         Whole => grantFile' = grantFile /\ Whole'
  PROVE  RunnerInv(q)'
<1> USE DEF Unmoved, Launched, Current, OnTurn
<1>1. HeldOf(q)'
  BY DEF RunnerInv, HeldOf, Claimed
<1>2. InPlaceOf(q)'
  BY DEF RunnerInv, InPlaceOf
<1>3. RecordedOf(q)'
  BY DEF RunnerInv, RecordedOf
<1>4. HeededOf(q)'
  BY DEF RunnerInv, HeededOf
<1>5. HaltedOf(q)'
  BY DEF RunnerInv, HaltedOf
<1>6. LaunchOf(q)'
  BY DEF RunnerInv, LaunchOf
<1>7. CountsOf(q)'
  BY DEF RunnerInv, CountsOf
<1>8. HaltOf(q)'
  BY DEF RunnerInv, HaltOf
<1>9. PassOf(q)'
  BY DEF RunnerInv, PassOf
<1> QED
  BY <1>1, <1>2, <1>3, <1>4, <1>5, <1>6, <1>7, <1>8, <1>9 DEF RunnerInv

LEMMA OthersUnmoved ==
  ASSUME TypeOK, NEW r \in Runners, RunnerStep(r), NEW q \in Runners \ {r}
  PROVE  Unmoved(q)
<1> USE DEF TypeOK, Unmoved
<1>1. ASSUME NotOptedIn(r)
      PROVE  Unmoved(q)
  BY <1>1 DEF NotOptedIn
<1>2. ASSUME RefuseEarly(r)
      PROVE  Unmoved(q)
  BY <1>2 DEF RefuseEarly, refuse
<1>3. ASSUME NEW models, NEW policy, readGrant(r, models, policy)
      PROVE  Unmoved(q)
  BY <1>3 DEF readGrant, refuse
<1>4. ASSUME claimRun(r)
      PROVE  Unmoved(q)
  BY <1>4, ZenonT(40) DEF claimRun, refuse, preflightUnavailable, Unread, Created
<1>5. ASSUME reserve(r)
      PROVE  Unmoved(q)
  BY <1>5 DEF reserve, preflightUnavailable, AfterReserve, Created, WriteFailed
<1>6. ASSUME prepareRepository(r)
      PROVE  Unmoved(q)
  BY <1>6 DEF prepareRepository, preflightUnavailable
<1>7. ASSUME createSyntheticPublicRepository(r)
      PROVE  Unmoved(q)
  BY <1>7 DEF createSyntheticPublicRepository, preflightUnavailable
<1>8. ASSUME visitProvider(r)
      PROVE  Unmoved(q)
  BY <1>8 DEF visitProvider, PushPending, Push
<1>9. ASSUME markSpawnAttempt(r)
      PROVE  Unmoved(q)
  BY <1>9 DEF markSpawnAttempt, PushPending, Push, Created, AlreadyExists, WriteFailed
<1>10. ASSUME spawn(r)
      PROVE  Unmoved(q)
  BY <1>10 DEF spawn, Invoked
<1>11. ASSUME writePrompt(r)
      PROVE  Unmoved(q)
  BY <1>11 DEF writePrompt
<1>12. ASSUME abandon(r)
      PROVE  Unmoved(q)
  BY <1>12 DEF abandon, Invoked
<1>13. ASSUME readToEnd(r)
      PROVE  Unmoved(q)
  BY <1>13 DEF readToEnd
<1>14. ASSUME complete(r)
      PROVE  Unmoved(q)
  BY <1>14 DEF complete, Invoked
<1>15. ASSUME timeout(r)
      PROVE  Unmoved(q)
  BY <1>15 DEF timeout, TimerArmed
<1>16. ASSUME checkRepository(r)
      PROVE  Unmoved(q)
  BY <1>16 DEF checkRepository, Push
<1>17. ASSUME finish(r)
      PROVE  Unmoved(q)
  BY <1>17 DEF finish, Forget
<1>18. ASSUME crash(r)
      PROVE  Unmoved(q)
  BY <1>18 DEF crash, Forget
<1>19. ASSUME NEW p \in SmokeProviderKey, childExits(r, p)
      PROVE  Unmoved(q)
  BY <1>19 DEF childExits
<1>20. ASSUME NEW p \in SmokeProviderKey, childWrites(r, p)
      PROVE  Unmoved(q)
  BY <1>20 DEF childWrites
<1> QED
  BY <1>1, <1>2, <1>3, <1>4, <1>5, <1>6, <1>7, <1>8, <1>9, <1>10, <1>11, <1>12, <1>13, <1>14, <1>15, <1>16, <1>17, <1>18, <1>19, <1>20
  DEF RunnerStep, Start, Advance

LEMMA OwnStep ==
  ASSUME TypeOK, Typed, OneClaim, NEW r \in Runners, RunnerInv(r), RunnerStep(r),
         files \subseteq files', Whole => grantFile' = grantFile /\ Whole'
  PROVE  RunnerInv(r)'
<1> USE DEF Running, Visiting, Invoking, Early, Claimed, Launched, OnTurn
<1>1. /\ HeldOf(r) /\ InPlaceOf(r) /\ RecordedOf(r) /\ HeededOf(r) /\ HaltedOf(r)
      /\ LaunchOf(r) /\ CountsOf(r) /\ HaltOf(r) /\ PassOf(r)
  BY DEF RunnerInv
<1>2. /\ Len(PROVIDER_ORDER) \in Nat /\ Len(PROVIDER_ORDER) >= 1 /\ turn[r] \in 1 .. Len(PROVIDER_ORDER) + 1
      /\ \A k \in 1 .. Len(PROVIDER_ORDER) : PROVIDER_ORDER[k] \in SmokeProviderKey
      /\ \A j, k \in 1 .. Len(PROVIDER_ORDER) : PROVIDER_ORDER[j] = PROVIDER_ORDER[k] => j = k
      /\ \A p \in SmokeProviderKey : \E k \in 1 .. Len(PROVIDER_ORDER) : PROVIDER_ORDER[k] = p
  <2>1. Len(PROVIDER_ORDER) \in Nat /\ \A k \in 1 .. Len(PROVIDER_ORDER) : PROVIDER_ORDER[k] \in SmokeProviderKey
    BY SmokeAssumption
  <2>2. \A p \in SmokeProviderKey : \E k \in 1 .. Len(PROVIDER_ORDER) : PROVIDER_ORDER[k] = p
    BY SmokeAssumption
  <2>3. Len(PROVIDER_ORDER) >= 1
    BY <2>1, <2>2, SmokeAssumption
  <2> QED BY <2>1, <2>2, <2>3, SmokeAssumption DEF TypeOK
<1>3. ASSUME NEW stage, stage # "invocation_completed", NEW ledger, refuse(r, stage, ledger)
      PROVE  pc'[r] = "finished" /\ exitCode'[r] = 1
  <2>1. PICK readable \in ledger :
          exitCode' = [exitCode EXCEPT ![r] = ExitCode(uniform(r, stage, readable), "complete")]
    BY <1>3 DEF refuse
  <2>2. ExitCode(uniform(r, stage, readable), "complete") = 1
    BY <1>3, SmokeAssumption
    DEF ExitCode, isSmokePass, uniform, pendingEvidence, Evidence
  <2> QED BY <1>3, <2>1, <2>2 DEF refuse, TypeOK
<1>4. ASSUME NEW ledger \in SUBSET BOOLEAN, preflightUnavailable(r, ledger)
      PROVE  /\ pc'[r] = "cleaning"
             /\ \A p \in SmokeProviderKey :
                  /\ evidence'[r][p].unchanged
                  /\ evidence'[r][p] # None
                  /\ evidence'[r][p].stage = "preflight_unavailable"
  <2>1. PICK readable \in ledger :
          evidence' = [evidence EXCEPT ![r] = uniform(r, "preflight_unavailable", readable)]
    BY <1>4 DEF preflightUnavailable
  <2>2. evidence'[r] = uniform(r, "preflight_unavailable", readable)
    BY <2>1 DEF TypeOK
  <2>3. uniform(r, "preflight_unavailable", readable) \in [SmokeProviderKey -> Said]
    BY UniformTyped DEF Stages
  <2>4. \A p \in SmokeProviderKey :
          /\ uniform(r, "preflight_unavailable", readable)[p].unchanged
          /\ uniform(r, "preflight_unavailable", readable)[p].stage = "preflight_unavailable"
    BY DEF uniform, pendingEvidence, Evidence
  <2> QED BY <1>4, <2>2, <2>3, <2>4, SaidAssumption DEF preflightUnavailable, TypeOK
<1>5. ASSUME OnTurn(r)
      PROVE  turn[r] \in 1 .. Len(PROVIDER_ORDER) /\ Current(r) \in SmokeProviderKey
  BY <1>2, <1>5 DEF Current
<1>6. ASSUME OnTurn(r), NEW ev \in Said, Push(r, ev)
      PROVE  /\ pc'[r] = "turning" /\ turn'[r] = turn[r] + 1
             /\ \A p \in SmokeProviderKey :
                  evidence'[r][p] = IF p = Current(r) THEN ev ELSE evidence[r][p]
  <2>1. evidence \in [Runners -> [SmokeProviderKey -> {None} \cup Said]]
    BY DEF TypeOK
  <2>2. evidence' = [evidence EXCEPT ![r][Current(r)] = ev]
    BY <1>6 DEF Push
  <2>3. \A p \in SmokeProviderKey :
          evidence'[r][p] = IF p = Current(r) THEN ev ELSE evidence[r][p]
    BY <1>5, <1>6, <2>1, <2>2, NestedLookup
  <2> QED BY <1>6, <2>3 DEF Push, TypeOK
<1>7. ASSUME OnTurn(r), NEW stage \in Stages, PushPending(r, stage),
             stage # "invocation_completed"
      PROVE  /\ pc'[r] = "turning" /\ turn'[r] = turn[r] + 1
             /\ \E ev \in Said :
                  /\ ev.stage # "invocation_completed" /\ ev.unchanged
                  /\ \A p \in SmokeProviderKey :
                       evidence'[r][p] = IF p = Current(r) THEN ev ELSE evidence[r][p]
  <2>1. PICK readable \in BOOLEAN :
          Push(r, pendingEvidence(stage,
                    counts(safeUsage(Current(r), readable), r, Current(r))))
    BY <1>7 DEF PushPending
  <2>2. counts(safeUsage(Current(r), readable), r, Current(r)) \in Usage
    BY UsageTyped, CountsTyped
  <2>3. PICK ev \in Said :
          Push(r, ev) /\ ev.stage = stage /\ ev.unchanged
    BY <2>1, <2>2, PendingTyped DEF pendingEvidence, Evidence
  <2> QED BY <1>6, <1>7, <2>3
<1>8. ASSUME OnTurn(r), pc[r] \in Visiting \cup Invoking
      PROVE  /\ pc[r] \in Visiting => child[r][Current(r)] = "none"
             /\ evidence[r][Current(r)] = None
             /\ \A k \in 1 .. Len(PROVIDER_ORDER) : PROVIDER_ORDER[k] = Current(r) => k = turn[r]
  <2>1. turn[r] \in turn[r] .. Len(PROVIDER_ORDER)
    BY <1>2, <1>5, <1>8
  <2> QED BY <1>1, <1>2, <1>5, <1>8, <2>1 DEF InPlaceOf, Current
<1>9. ASSUME OnTurn(r), pc[r] \in Visiting \cup Invoking,
             pc'[r] = "turning", turn'[r] = turn[r] + 1, child'[r] = child[r], NEW ev \in Said,
             \A p \in SmokeProviderKey :
               evidence'[r][p] = IF p = Current(r) THEN ev ELSE evidence[r][p]
      PROVE  InPlaceOf(r)' /\ HaltOf(r)'
  <2>1. \A k \in turn[r] + 1 .. Len(PROVIDER_ORDER) :
          /\ k \in 1 .. Len(PROVIDER_ORDER) /\ PROVIDER_ORDER[k] # Current(r)
          /\ child[r][PROVIDER_ORDER[k]] = "none" /\ evidence[r][PROVIDER_ORDER[k]] = None
    BY <1>1, <1>2, <1>8, <1>9 DEF InPlaceOf
  <2>2. \A k \in 1 .. turn[r] : evidence'[r][PROVIDER_ORDER[k]] # None
    <3> SUFFICES ASSUME NEW k \in 1 .. turn[r]
                 PROVE  evidence'[r][PROVIDER_ORDER[k]] # None
      OBVIOUS
    <3>1. CASE k = turn[r]
      BY <1>5, <1>9, <3>1, SaidAssumption DEF Current
    <3>2. CASE k \in 1 .. turn[r] - 1
      <4>1. k \in 1 .. Len(PROVIDER_ORDER) /\ k # turn[r]
        BY <1>2, <1>5, <1>9, <3>2
      <4>2. evidence[r][PROVIDER_ORDER[k]] # None
        BY <1>1, <1>9, <3>2 DEF InPlaceOf
      <4> QED BY <1>2, <1>8, <1>9, <4>1, <4>2
    <3> QED BY <1>2, <3>1, <3>2
  <2>3. InPlaceOf(r)'
    <3>1. \A k \in turn'[r] .. Len(PROVIDER_ORDER) :
            child'[r][PROVIDER_ORDER[k]] = "none" /\ evidence'[r][PROVIDER_ORDER[k]] = None
      BY <1>2, <1>5, <1>9, <2>1
    <3>2. \A k \in 1 .. turn'[r] - 1 : evidence'[r][PROVIDER_ORDER[k]] # None
      <4>1. turn[r] \in Nat /\ turn'[r] = turn[r] + 1
        BY <1>2, <1>9
      <4>2. 1 .. turn'[r] - 1 = 1 .. turn[r]
        BY <4>1
      <4> QED BY <2>2, <4>2
    <3> QED BY <1>9, <3>1, <3>2 DEF InPlaceOf
  <2>4. ASSUME NEW j \in 1 .. Len(PROVIDER_ORDER), NEW k \in 1 .. Len(PROVIDER_ORDER), j < k,
               evidence'[r][PROVIDER_ORDER[j]] # None,
               ~evidence'[r][PROVIDER_ORDER[j]].unchanged
        PROVE  ~Launched(r, PROVIDER_ORDER[k])'
    <3>1. CASE PROVIDER_ORDER[j] = Current(r)
      BY <1>2, <1>8, <1>9, <2>1, <2>4, <3>1
    <3>2. CASE PROVIDER_ORDER[j] # Current(r)
      BY <1>1, <1>2, <1>9, <2>4, <3>2, SMTT(40) DEF HaltOf
    <3> QED BY <3>1, <3>2
  <2> QED BY <2>3, <2>4 DEF HaltOf
<1>10. ASSUME NotOptedIn(r)
       PROVE  RunnerInv(r)'
  <2>1. /\ pc[r] = "idle" /\ pc'[r] = "finished" /\ exitCode'[r] = 1
        /\ held'[r] = held[r] /\ turn'[r] = turn[r] /\ slot'[r] = slot[r]
        /\ attempted'[r] = attempted[r] /\ probed'[r] = probed[r] /\ invoked'[r] = invoked[r]
        /\ halted'[r] = halted[r] /\ dirs'[r] = dirs[r] /\ evidence'[r] = evidence[r]
        /\ child'[r] = child[r] /\ report'[r] = report[r]
    BY <1>10 DEF NotOptedIn, TypeOK
  <2>2. HeldOf(r)'
    BY <1>1, <1>2, <2>1 DEF HeldOf, InPlaceOf
  <2>3. InPlaceOf(r)'
    BY <1>1, <1>2, <2>1 DEF InPlaceOf, Current
  <2>4. RecordedOf(r)'
    BY <1>1, <1>2, <2>1 DEF RecordedOf, Current, InPlaceOf
  <2>5. HeededOf(r)'
    BY <1>1, <1>2, <2>1 DEF HeededOf, Current, InPlaceOf
  <2>6. HaltedOf(r)'
    BY <1>1, <1>2, <2>1 DEF HaltedOf
  <2>7. LaunchOf(r)'
    BY <1>1, <1>2, <2>1 DEF LaunchOf, InPlaceOf
  <2>8. CountsOf(r)'
    BY <1>1, <1>2, <2>1 DEF CountsOf, InPlaceOf
  <2>9. HaltOf(r)'
    BY <1>1, <1>2, <2>1 DEF HaltOf, InPlaceOf
  <2>10. PassOf(r)'
    BY <1>1, <1>2, <2>1 DEF PassOf, InPlaceOf
  <2> QED BY <2>2, <2>3, <2>4, <2>5, <2>6, <2>7, <2>8, <2>9, <2>10 DEF RunnerInv
<1>11. ASSUME RefuseEarly(r)
       PROVE  RunnerInv(r)'
  <2>1. /\ pc[r] = "idle" /\ pc'[r] = "finished" /\ exitCode'[r] = 1
        /\ held'[r] = held[r] /\ turn'[r] = turn[r] /\ slot'[r] = slot[r]
        /\ attempted'[r] = attempted[r] /\ probed'[r] = probed[r] /\ invoked'[r] = invoked[r]
        /\ halted'[r] = halted[r] /\ dirs'[r] = dirs[r] /\ evidence'[r] = evidence[r]
        /\ child'[r] = child[r] /\ report'[r] = report[r]
    BY <1>11, <1>3 DEF RefuseEarly, TypeOK
  <2>2. HeldOf(r)'
    BY <1>1, <1>2, <2>1 DEF HeldOf, InPlaceOf
  <2>3. InPlaceOf(r)'
    BY <1>1, <1>2, <2>1 DEF InPlaceOf, Current
  <2>4. RecordedOf(r)'
    BY <1>1, <1>2, <2>1 DEF RecordedOf, Current, InPlaceOf
  <2>5. HeededOf(r)'
    BY <1>1, <1>2, <2>1 DEF HeededOf, Current, InPlaceOf
  <2>6. HaltedOf(r)'
    BY <1>1, <1>2, <2>1 DEF HaltedOf
  <2>7. LaunchOf(r)'
    BY <1>1, <1>2, <2>1 DEF LaunchOf, InPlaceOf
  <2>8. CountsOf(r)'
    BY <1>1, <1>2, <2>1 DEF CountsOf, InPlaceOf
  <2>9. HaltOf(r)'
    BY <1>1, <1>2, <2>1 DEF HaltOf, InPlaceOf
  <2>10. PassOf(r)'
    BY <1>1, <1>2, <2>1 DEF PassOf, InPlaceOf
  <2> QED BY <2>2, <2>3, <2>4, <2>5, <2>6, <2>7, <2>8, <2>9, <2>10 DEF RunnerInv
<1>12. ASSUME NEW models, NEW policy, readGrant(r, models, policy)
       PROVE  RunnerInv(r)'
  <2>1. /\ pc[r] = "idle"
        /\ turn'[r] = turn[r] /\ slot'[r] = slot[r] /\ attempted'[r] = attempted[r]
        /\ probed'[r] = probed[r] /\ invoked'[r] = invoked[r] /\ halted'[r] = halted[r]
        /\ dirs'[r] = dirs[r] /\ evidence'[r] = evidence[r] /\ child'[r] = child[r]
        /\ report'[r] = report[r]
        /\ \/ /\ pc'[r] = "finished" /\ exitCode'[r] = 1 /\ held'[r] = held[r]
           \/ /\ pc'[r] = "claiming" /\ exitCode'[r] = exitCode[r]
              /\ Whole' /\ held'[r] = grantFile'
    BY <1>12, <1>3 DEF readGrant, TypeOK
  <2>2. HeldOf(r)'
    BY <1>1, <1>2, <2>1 DEF HeldOf, InPlaceOf
  <2>3. InPlaceOf(r)'
    BY <1>1, <1>2, <2>1 DEF InPlaceOf, Current
  <2>4. RecordedOf(r)'
    BY <1>1, <1>2, <2>1 DEF RecordedOf, Current, InPlaceOf
  <2>5. HeededOf(r)'
    BY <1>1, <1>2, <2>1 DEF HeededOf, Current, InPlaceOf
  <2>6. HaltedOf(r)'
    BY <1>1, <1>2, <2>1 DEF HaltedOf
  <2>7. LaunchOf(r)'
    BY <1>1, <1>2, <2>1 DEF LaunchOf, InPlaceOf
  <2>8. CountsOf(r)'
    BY <1>1, <1>2, <2>1 DEF CountsOf, InPlaceOf
  <2>9. HaltOf(r)'
    BY <1>1, <1>2, <2>1 DEF HaltOf, InPlaceOf
  <2>10. PassOf(r)'
    BY <1>1, <1>2, <2>1 DEF PassOf, InPlaceOf
  <2> QED BY <2>2, <2>3, <2>4, <2>5, <2>6, <2>7, <2>8, <2>9, <2>10 DEF RunnerInv
<1>13. ASSUME claimRun(r)
       PROVE  RunnerInv(r)'
  <2>1. /\ pc[r] = "claiming"
        /\ turn'[r] = turn[r] /\ slot'[r] = slot[r] /\ attempted'[r] = attempted[r]
        /\ probed'[r] = probed[r] /\ invoked'[r] = invoked[r] /\ halted'[r] = halted[r]
        /\ dirs'[r] = dirs[r] /\ child'[r] = child[r] /\ report'[r] = report[r]
        /\ \/ /\ pc'[r] = "reserving" /\ exitCode'[r] = exitCode[r]
              /\ held'[r] = held[r] /\ evidence'[r] = evidence[r]
           \/ /\ pc'[r] = "finished" /\ exitCode'[r] = 1
              /\ evidence'[r] = evidence[r]
           \/ /\ pc'[r] = "cleaning" /\ exitCode'[r] = exitCode[r] /\ held'[r] = held[r]
              /\ \A p \in SmokeProviderKey :
                   /\ evidence'[r][p].unchanged /\ evidence'[r][p] # None
                   /\ evidence'[r][p].stage = "preflight_unavailable"
    BY <1>13, <1>3, <1>4 DEF claimRun, Unread, boundLedger, TypeOK
  <2>2. HeldOf(r)'
    BY <1>1, <1>2, <2>1 DEF HeldOf, InPlaceOf
  <2>3. InPlaceOf(r)'
    BY <1>1, <1>2, <2>1 DEF InPlaceOf, Current
  <2>4. RecordedOf(r)'
    BY <1>1, <1>2, <2>1 DEF RecordedOf, Current, InPlaceOf
  <2>5. HeededOf(r)'
    BY <1>1, <1>2, <2>1 DEF HeededOf, Current, InPlaceOf
  <2>6. HaltedOf(r)'
    BY <1>1, <1>2, <2>1 DEF HaltedOf
  <2>7. LaunchOf(r)'
    BY <1>1, <1>2, <2>1 DEF LaunchOf, InPlaceOf
  <2>8. CountsOf(r)'
    BY <1>1, <1>2, <2>1 DEF CountsOf, InPlaceOf
  <2>9. HaltOf(r)'
    BY <1>1, <1>2, <2>1 DEF HaltOf, InPlaceOf
  <2>10. PassOf(r)'
    BY <1>1, <1>2, <2>1 DEF PassOf, InPlaceOf
  <2> QED BY <2>2, <2>3, <2>4, <2>5, <2>6, <2>7, <2>8, <2>9, <2>10 DEF RunnerInv
<1>14. ASSUME reserve(r)
       PROVE  RunnerInv(r)'
  <2>0. PICK c : c = Current(r) /\ OnTurn(r) /\ turn[r] \in 1 .. Len(PROVIDER_ORDER) /\ c \in SmokeProviderKey
    BY <1>1, <1>5, <1>14 DEF InPlaceOf, reserve
  <2>1. /\ pc[r] = "reserving"
        /\ held'[r] = held[r] /\ attempted'[r] = attempted[r] /\ probed'[r] = probed[r]
        /\ invoked'[r] = invoked[r] /\ halted'[r] = halted[r] /\ dirs'[r] = dirs[r]
        /\ exitCode'[r] = exitCode[r] /\ child'[r] = child[r] /\ report'[r] = report[r]
        /\ \/ /\ evidence'[r] = evidence[r]
              /\ \/ slot'[r] = slot[r]
                 \/ \E n \in Nat :
                      /\ Marker("slot", c, n) \in files'
                      /\ \A p \in SmokeProviderKey : slot'[r][p] = IF p = c THEN n ELSE slot[r][p]
              /\ \/ pc'[r] = "reserving" /\ turn[r] < Len(PROVIDER_ORDER) /\ turn'[r] = turn[r] + 1
                 \/ pc'[r] = "preparing" /\ turn'[r] = 1
           \/ /\ pc'[r] = "cleaning" /\ slot'[r] = slot[r] /\ turn'[r] = turn[r]
              /\ \A p \in SmokeProviderKey :
                   /\ evidence'[r][p].unchanged /\ evidence'[r][p] # None
                   /\ evidence'[r][p].stage = "preflight_unavailable"
    <3>1. slot \in [Runners -> [SmokeProviderKey -> 0 .. SMOKE_MAX_INVOCATIONS]]
      BY DEF TypeOK
    <3>2. CASE UNCHANGED evidence /\ AfterReserve(r) /\ UNCHANGED slot
      BY <2>0, <3>2, <1>14 DEF reserve, AfterReserve, TypeOK
    <3>3. ASSUME NEW n \in Ordinals, slot' = [slot EXCEPT ![r][Current(r)] = n],
                 UNCHANGED evidence, AfterReserve(r), Created(Marker("slot", Current(r), n))
          PROVE  \E m \in Nat :
                   /\ Marker("slot", c, m) \in files'
                   /\ \A p \in SmokeProviderKey : slot'[r][p] = IF p = c THEN m ELSE slot[r][p]
      <4>1. n \in Nat /\ Marker("slot", c, n) \in files'
        BY <2>0, <3>3 DEF Created, Ordinals
      <4>2. \A p \in SmokeProviderKey : slot'[r][p] = IF p = c THEN n ELSE slot[r][p]
        BY <2>0, <3>1, <3>3, NestedLookup
      <4> QED BY <4>1, <4>2
    <3>4. CASE \E n \in Ordinals : /\ slot' = [slot EXCEPT ![r][Current(r)] = n]
                                   /\ UNCHANGED evidence /\ AfterReserve(r)
                                   /\ Created(Marker("slot", Current(r), n))
      BY <2>0, <3>3, <3>4, <1>14 DEF reserve, AfterReserve, TypeOK
    <3>5. CASE preflightUnavailable(r, Unread) /\ UNCHANGED <<slot, turn>>
      BY <1>14, <3>5, <1>4 DEF reserve, Unread, TypeOK
    <3> QED BY <1>14, <3>2, <3>4, <3>5 DEF reserve
  <2>2. HeldOf(r)'
    BY <1>1, <1>2, <2>0, <2>1 DEF HeldOf, InPlaceOf
  <2>3. InPlaceOf(r)'
    BY <1>1, <1>2, <2>0, <2>1, SMTT(40) DEF InPlaceOf, Current
  <2>4. RecordedOf(r)'
    <3>1. \A p \in SmokeProviderKey : child'[r][p] = "none"
      BY <1>1, <2>1 DEF InPlaceOf
    <3>2. \A p \in SmokeProviderKey :
            pc'[r] # "cleaning" /\ slot'[r][p] # 0 => Marker("slot", p, slot'[r][p]) \in files'
      BY <1>1, <2>0, <2>1 DEF RecordedOf
    <3> QED BY <1>1, <2>1, <3>1, <3>2 DEF RecordedOf
  <2>5. HeededOf(r)'
    BY <1>1, <1>2, <2>0, <2>1 DEF HeededOf, Current, InPlaceOf
  <2>6. HaltedOf(r)'
    BY <1>1, <1>2, <2>0, <2>1 DEF HaltedOf
  <2>7. LaunchOf(r)'
    BY <1>1, <1>2, <2>0, <2>1 DEF LaunchOf, InPlaceOf
  <2>8. CountsOf(r)'
    BY <1>1, <1>2, <2>0, <2>1 DEF CountsOf, InPlaceOf
  <2>9. HaltOf(r)'
    BY <1>1, <1>2, <2>0, <2>1 DEF HaltOf, InPlaceOf
  <2>10. PassOf(r)'
    BY <1>1, <1>2, <2>0, <2>1 DEF PassOf, InPlaceOf
  <2> QED BY <2>2, <2>3, <2>4, <2>5, <2>6, <2>7, <2>8, <2>9, <2>10 DEF RunnerInv
<1>15. ASSUME prepareRepository(r)
       PROVE  RunnerInv(r)'
  <2>1. /\ pc[r] = "preparing"
        /\ held'[r] = held[r] /\ turn'[r] = turn[r] /\ slot'[r] = slot[r]
        /\ attempted'[r] = attempted[r] /\ probed'[r] = probed[r] /\ invoked'[r] = invoked[r]
        /\ halted'[r] = halted[r] /\ exitCode'[r] = exitCode[r] /\ child'[r] = child[r]
        /\ report'[r] = report[r]
        /\ \/ /\ pc'[r] = "populating" /\ evidence'[r] = evidence[r]
           \/ /\ pc'[r] = "cleaning"
              /\ \A p \in SmokeProviderKey :
                   /\ evidence'[r][p].unchanged /\ evidence'[r][p] # None
                   /\ evidence'[r][p].stage = "preflight_unavailable"
    BY <1>15, <1>4 DEF prepareRepository, boundLedger, TypeOK
  <2>2. HeldOf(r)'
    BY <1>1, <1>2, <2>1 DEF HeldOf, InPlaceOf
  <2>3. InPlaceOf(r)'
    BY <1>1, <1>2, <2>1 DEF InPlaceOf, Current
  <2>4. RecordedOf(r)'
    BY <1>1, <1>2, <2>1 DEF RecordedOf, Current, InPlaceOf
  <2>5. HeededOf(r)'
    BY <1>1, <1>2, <2>1 DEF HeededOf, Current, InPlaceOf
  <2>6. HaltedOf(r)'
    BY <1>1, <1>2, <2>1 DEF HaltedOf
  <2>7. LaunchOf(r)'
    BY <1>1, <1>2, <2>1 DEF LaunchOf, InPlaceOf
  <2>8. CountsOf(r)'
    BY <1>1, <1>2, <2>1 DEF CountsOf, InPlaceOf
  <2>9. HaltOf(r)'
    BY <1>1, <1>2, <2>1 DEF HaltOf, InPlaceOf
  <2>10. PassOf(r)'
    BY <1>1, <1>2, <2>1 DEF PassOf, InPlaceOf
  <2> QED BY <2>2, <2>3, <2>4, <2>5, <2>6, <2>7, <2>8, <2>9, <2>10 DEF RunnerInv
<1>16. ASSUME createSyntheticPublicRepository(r)
       PROVE  RunnerInv(r)'
  <2>1. /\ pc[r] = "populating"
        /\ held'[r] = held[r] /\ turn'[r] = turn[r] /\ slot'[r] = slot[r]
        /\ attempted'[r] = attempted[r] /\ probed'[r] = probed[r] /\ invoked'[r] = invoked[r]
        /\ halted'[r] = halted[r] /\ exitCode'[r] = exitCode[r] /\ child'[r] = child[r]
        /\ report'[r] = report[r]
        /\ \/ /\ pc'[r] = "turning" /\ evidence'[r] = evidence[r]
           \/ /\ pc'[r] = "cleaning"
              /\ \A p \in SmokeProviderKey :
                   /\ evidence'[r][p].unchanged /\ evidence'[r][p] # None
                   /\ evidence'[r][p].stage = "preflight_unavailable"
    BY <1>16, <1>4 DEF createSyntheticPublicRepository, boundLedger, TypeOK
  <2>2. HeldOf(r)'
    BY <1>1, <1>2, <2>1 DEF HeldOf, InPlaceOf
  <2>3. InPlaceOf(r)'
    BY <1>1, <1>2, <2>1 DEF InPlaceOf, Current
  <2>4. RecordedOf(r)'
    BY <1>1, <1>2, <2>1 DEF RecordedOf, Current, InPlaceOf
  <2>5. HeededOf(r)'
    BY <1>1, <1>2, <2>1 DEF HeededOf, Current, InPlaceOf
  <2>6. HaltedOf(r)'
    BY <1>1, <1>2, <2>1 DEF HaltedOf
  <2>7. LaunchOf(r)'
    BY <1>1, <1>2, <2>1 DEF LaunchOf, InPlaceOf
  <2>8. CountsOf(r)'
    BY <1>1, <1>2, <2>1 DEF CountsOf, InPlaceOf
  <2>9. HaltOf(r)'
    BY <1>1, <1>2, <2>1 DEF HaltOf, InPlaceOf
  <2>10. PassOf(r)'
    BY <1>1, <1>2, <2>1 DEF PassOf, InPlaceOf
  <2> QED BY <2>2, <2>3, <2>4, <2>5, <2>6, <2>7, <2>8, <2>9, <2>10 DEF RunnerInv
<1>17. ASSUME visitProvider(r)
       PROVE  RunnerInv(r)'
  <2>0. PICK c : c = Current(r) /\ OnTurn(r) /\ turn[r] \in 1 .. Len(PROVIDER_ORDER) /\ c \in SmokeProviderKey
    BY <1>1, <1>5, <1>17 DEF InPlaceOf, visitProvider
  <2>1. /\ child[r][c] = "none" /\ evidence[r][c] = None
        /\ pc[r] = "turning" /\ OnTurn(r)
        /\ timedOut'[r] = timedOut[r]
        /\ held'[r] = held[r] /\ slot'[r] = slot[r] /\ attempted'[r] = attempted[r]
        /\ invoked'[r] = invoked[r] /\ halted'[r] = halted[r] /\ dirs'[r] = dirs[r]
        /\ exitCode'[r] = exitCode[r] /\ child'[r] = child[r] /\ report'[r] = report[r]
        /\ \A p \in SmokeProviderKey \ {c} : probed'[r][p] = probed[r][p]
        /\ \/ /\ pc'[r] = "turning" /\ turn'[r] = turn[r] + 1
              /\ \E ev \in Said :
                   /\ ev.stage # "invocation_completed" /\ ev.unchanged
                   /\ \A p \in SmokeProviderKey : evidence'[r][p] = IF p = c THEN ev ELSE evidence[r][p]
           \/ /\ pc'[r] = "marking" /\ turn'[r] = turn[r] /\ evidence'[r] = evidence[r]
              /\ ~halted[r] /\ slot[r][c] # 0 /\ probed'[r][c] = held[r].binding[c]
    <3>1. probed \in [Runners -> [SmokeProviderKey -> Builds \cup {None}]]
      BY DEF TypeOK
    <3>2. \/ UNCHANGED probed
          \/ probed' = [probed EXCEPT ![r][Current(r)] = installed[Current(r)]]
      BY <1>17 DEF visitProvider
    <3>3. \A p \in SmokeProviderKey :
            probed'[r][p] = probed[r][p] \/ (p = c /\ probed'[r][p] = installed[c])
      BY <2>0, <3>1, <3>2, NestedLookup
    <3>4. CASE pc' = [pc EXCEPT ![r] = "marking"]
      <4>1. /\ probed' = [probed EXCEPT ![r][Current(r)] = installed[Current(r)]]
            /\ bindingMatches(installed[c], held[r], c) /\ UNCHANGED <<evidence, turn>>
            /\ ~halted[r] /\ slot[r][c] # 0
        BY <2>0, <1>17, <3>4 DEF visitProvider, PushPending, Push, TypeOK
      <4>2. probed'[r][c] = installed[c]
        BY <2>0, <3>1, <4>1, NestedLookup
      <4> QED
        BY <2>0, <1>1, <1>8, <1>17, <3>3, <3>4, <4>1, <4>2
        DEF visitProvider, bindingMatches, TypeOK
    <3>5. CASE \E stage \in Stages \ {"invocation_completed"} : PushPending(r, stage)
      BY <2>0, <1>7, <1>8, <1>17, <3>3, <3>5 DEF visitProvider, TypeOK
    <3> QED BY <1>17, <3>4, <3>5 DEF visitProvider, Stages
  <2>2. HeldOf(r)'
    BY <1>1, <1>2, <2>0, <2>1 DEF HeldOf, InPlaceOf
  <2>3. InPlaceOf(r)'
    <3>1. CASE pc'[r] = "turning"
      BY <1>9, <2>0, <2>1, <3>1
    <3>2. CASE pc'[r] = "marking"
      BY <1>1, <1>2, <2>0, <2>1, <3>2 DEF InPlaceOf, Current
    <3> QED BY <2>1, <3>1, <3>2
  <2>4. RecordedOf(r)'
    BY <1>1, <1>2, <2>0, <2>1 DEF RecordedOf, Current, InPlaceOf
  <2>5. HeededOf(r)'
    BY <1>1, <2>0, <2>1 DEF HeededOf
  <2>6. HaltedOf(r)'
    <3>1. CASE pc'[r] = "turning"
      BY <1>1, <2>0, <2>1, <3>1 DEF HaltedOf
    <3>2. CASE pc'[r] = "marking"
      BY <1>1, <2>0, <2>1, <3>2 DEF HaltedOf
    <3> QED BY <2>1, <3>1, <3>2
  <2>7. LaunchOf(r)'
    BY <1>1, <2>0, <2>1 DEF LaunchOf
  <2>8. CountsOf(r)'
    BY <1>1, <2>0, <2>1 DEF CountsOf
  <2>9. HaltOf(r)'
    <3>1. CASE pc'[r] = "turning"
      BY <1>9, <2>0, <2>1, <3>1
    <3>2. CASE pc'[r] = "marking"
      BY <1>1, <1>2, <2>1, <3>2 DEF HaltOf
    <3> QED BY <2>1, <3>1, <3>2
  <2>10. PassOf(r)'
    BY <1>1, <1>2, <2>0, <2>1 DEF PassOf, InPlaceOf
  <2> QED BY <2>2, <2>3, <2>4, <2>5, <2>6, <2>7, <2>8, <2>9, <2>10 DEF RunnerInv
<1>18. ASSUME markSpawnAttempt(r)
       PROVE  RunnerInv(r)'
  <2>0. PICK c : c = Current(r) /\ OnTurn(r) /\ turn[r] \in 1 .. Len(PROVIDER_ORDER) /\ c \in SmokeProviderKey
    BY <1>1, <1>5, <1>18 DEF InPlaceOf, markSpawnAttempt
  <2>1. /\ child[r][c] = "none" /\ evidence[r][c] = None
        /\ pc[r] = "marking"
        /\ timedOut'[r] = timedOut[r]
        /\ held'[r] = held[r] /\ slot'[r] = slot[r] /\ probed'[r] = probed[r]
        /\ invoked'[r] = invoked[r] /\ halted'[r] = halted[r] /\ dirs'[r] = dirs[r]
        /\ exitCode'[r] = exitCode[r] /\ child'[r] = child[r] /\ report'[r] = report[r]
        /\ \/ /\ pc'[r] = "turning" /\ turn'[r] = turn[r] + 1
              /\ attempted'[r] = attempted[r]
              /\ \E ev \in Said :
                   /\ ev.stage # "invocation_completed" /\ ev.unchanged
                   /\ \A p \in SmokeProviderKey : evidence'[r][p] = IF p = c THEN ev ELSE evidence[r][p]
           \/ /\ pc'[r] = "spawning" /\ turn'[r] = turn[r] /\ evidence'[r] = evidence[r]
              /\ Marker("spawn", c, slot[r][c]) \in files'
              /\ attempted'[r][c] /\ \A p \in SmokeProviderKey \ {c} : attempted'[r][p] = attempted[r][p]
    <3>1. attempted \in [Runners -> [SmokeProviderKey -> BOOLEAN]]
      BY DEF TypeOK
    <3>2. CASE /\ Created(Marker("spawn", Current(r), slot[r][Current(r)]))
                 \/ AlreadyExists(Marker("spawn", Current(r), slot[r][Current(r)]))
               /\ attempted' = [attempted EXCEPT ![r][Current(r)] = TRUE]
               /\ pc' = [pc EXCEPT ![r] = "spawning"] /\ UNCHANGED <<evidence, turn>>
      <4> DEFINE v == TRUE
      <4>0. attempted' = [attempted EXCEPT ![r][c] = v] /\ v
        BY <2>0, <3>2
      <4> HIDE DEF v
      <4>1. attempted'[r][c] /\ \A p \in SmokeProviderKey \ {c} : attempted'[r][p] = attempted[r][p]
        BY <2>0, <3>1, <4>0, NestedLookup
      <4>2. Marker("spawn", c, slot[r][c]) \in files'
        BY <2>0, <3>2 DEF Created, AlreadyExists
      <4> QED BY <2>0, <1>8, <1>18, <3>2, <4>1, <4>2 DEF markSpawnAttempt, TypeOK
    <3>3. CASE PushPending(r, "preflight_unavailable") /\ UNCHANGED attempted
      BY <2>0, <1>7, <1>8, <1>18, <3>3 DEF markSpawnAttempt, TypeOK, Stages
    <3> QED BY <1>18, <3>2, <3>3 DEF markSpawnAttempt
  <2>2. HeldOf(r)'
    BY <1>1, <1>2, <2>0, <2>1 DEF HeldOf, InPlaceOf
  <2>3. InPlaceOf(r)'
    <3>1. CASE pc'[r] = "turning"
      BY <1>9, <2>0, <2>1, <3>1
    <3>2. CASE pc'[r] = "spawning"
      BY <1>1, <1>2, <2>0, <2>1, <3>2 DEF InPlaceOf, Current
    <3> QED BY <2>1, <3>1, <3>2
  <2>4. RecordedOf(r)'
    <3>1. CASE pc'[r] = "turning"
      BY <1>1, <2>1, <3>1 DEF RecordedOf
    <3>2. CASE pc'[r] = "spawning"
      BY <1>1, <2>0, <2>1, <3>2, SMTT(40) DEF RecordedOf, Current
    <3> QED BY <2>1, <3>1, <3>2
  <2>5. HeededOf(r)'
    <3>1. CASE pc'[r] = "turning"
      BY <1>1, <2>1, <3>1 DEF HeededOf
    <3>2. CASE pc'[r] = "spawning"
      BY <1>1, <2>1, <3>2 DEF HeededOf
    <3> QED BY <2>1, <3>1, <3>2
  <2>6. HaltedOf(r)'
    <3>1. CASE pc'[r] = "turning"
      BY <1>1, <2>0, <2>1, <3>1 DEF HaltedOf
    <3>2. CASE pc'[r] = "spawning"
      BY <1>1, <2>1, <3>2 DEF HaltedOf
    <3> QED BY <2>1, <3>1, <3>2
  <2>7. LaunchOf(r)'
    BY <1>1, <2>0, <2>1 DEF LaunchOf
  <2>8. CountsOf(r)'
    BY <1>1, <2>0, <2>1 DEF CountsOf
  <2>9. HaltOf(r)'
    <3>1. CASE pc'[r] = "turning"
      BY <1>9, <2>0, <2>1, <3>1
    <3>2. CASE pc'[r] = "spawning"
      BY <1>1, <1>2, <2>1, <3>2 DEF HaltOf
    <3> QED BY <2>1, <3>1, <3>2
  <2>10. PassOf(r)'
    BY <1>1, <1>2, <2>0, <2>1 DEF PassOf, InPlaceOf
  <2> QED BY <2>2, <2>3, <2>4, <2>5, <2>6, <2>7, <2>8, <2>9, <2>10 DEF RunnerInv
<1>19. ASSUME spawn(r)
       PROVE  RunnerInv(r)'
  <2>0. PICK c : c = Current(r) /\ OnTurn(r) /\ turn[r] \in 1 .. Len(PROVIDER_ORDER) /\ c \in SmokeProviderKey
    BY <1>1, <1>5, <1>19 DEF InPlaceOf, spawn
  <2>1. /\ child[r][c] = "none" /\ evidence[r][c] = None
        /\ pc[r] = "spawning"
        /\ timedOut'[r] = timedOut[r]
        /\ held'[r] = held[r] /\ turn'[r] = turn[r] /\ slot'[r] = slot[r]
        /\ attempted'[r] = attempted[r] /\ probed'[r] = probed[r] /\ halted'[r] = halted[r]
        /\ dirs'[r] = dirs[r] /\ evidence'[r] = evidence[r] /\ exitCode'[r] = exitCode[r]
        /\ report'[r] = report[r]
        /\ \/ /\ pc'[r] = "prompting" /\ invoked'[r] = invoked[r]
              /\ \A p \in SmokeProviderKey : child'[r][p] = IF p = c THEN "alive" ELSE child[r][p]
           \/ /\ pc'[r] = "checking" /\ child'[r] = child[r]
              /\ invoked'[r] = [stage |-> "invocation_reserved", exit |-> "spawn_failed"]
    <3>1. child \in [Runners -> [SmokeProviderKey -> {"none", "alive", "doomed", "exited"}]]
      BY DEF TypeOK
    <3>2. CASE child' = [child EXCEPT ![r][Current(r)] = "alive"]
      <4>1. \A p \in SmokeProviderKey : child'[r][p] = IF p = c THEN "alive" ELSE child[r][p]
        BY <2>0, <3>1, <3>2, NestedLookup
      <4>2. pc'[r] = "prompting" /\ invoked'[r] = invoked[r]
        <5>1. ~UNCHANGED child
          BY <2>0, <1>8, <1>19, <4>1 DEF spawn
        <5> QED BY <1>19, <5>1 DEF spawn, TypeOK
      <4> QED BY <2>0, <1>8, <1>19, <4>1, <4>2 DEF spawn, TypeOK
    <3>3. CASE Invoked(r, "invocation_reserved", "spawn_failed") /\ UNCHANGED child
      BY <2>0, <1>8, <1>19, <3>3 DEF spawn, Invoked, TypeOK
    <3> QED BY <1>19, <3>2, <3>3 DEF spawn
  <2>2. HeldOf(r)'
    BY <1>1, <1>2, <2>0, <2>1 DEF HeldOf, InPlaceOf
  <2>3. InPlaceOf(r)'
    BY <1>1, <1>2, <2>0, <2>1, SMTT(40) DEF InPlaceOf, Current
  <2>4. RecordedOf(r)'
    BY <1>1, <1>2, <2>0, <2>1 DEF RecordedOf, Current, InPlaceOf
  <2>5. HeededOf(r)'
    <3>1. CASE pc'[r] = "prompting"
      BY <1>1, <2>0, <2>1, <3>1 DEF HeededOf, Current
    <3>2. CASE pc'[r] = "checking"
      BY <1>1, <2>0, <2>1, <3>2 DEF HeededOf, Exits
    <3> QED BY <2>1, <3>1, <3>2
  <2>6. HaltedOf(r)'
    BY <1>1, <1>2, <2>0, <2>1 DEF HaltedOf
  <2>7. LaunchOf(r)'
    <3>1. ClaimFile \in files /\ Whole /\ held[r] = grantFile
      BY <1>1, <2>1 DEF OneClaim, HeldOf
    <3>2. /\ {Marker("slot", c, slot[r][c]), Marker("spawn", c, slot[r][c])} \subseteq files
          /\ probed[r][c] = held[r].binding[c]
      BY <1>1, <2>0, <2>1 DEF RecordedOf, Current
    <3> QED BY <1>1, <2>0, <2>1, <3>1, <3>2 DEF LaunchOf
  <2>8. CountsOf(r)'
    BY <1>1, <2>0, <2>1 DEF CountsOf
  <2>9. HaltOf(r)'
    <3>1. ~halted[r] /\ \A k \in 1 .. Len(PROVIDER_ORDER) :
            evidence[r][PROVIDER_ORDER[k]] # None => evidence[r][PROVIDER_ORDER[k]].unchanged
      BY <1>1, <1>2, <2>1 DEF HaltedOf
    <3> QED BY <1>2, <2>1, <3>1 DEF HaltOf
  <2>10. PassOf(r)'
    BY <1>1, <1>2, <2>0, <2>1 DEF PassOf, InPlaceOf
  <2> QED BY <2>2, <2>3, <2>4, <2>5, <2>6, <2>7, <2>8, <2>9, <2>10 DEF RunnerInv
<1>20. ASSUME writePrompt(r)
       PROVE  RunnerInv(r)'
  <2>0. PICK c : c = Current(r) /\ OnTurn(r) /\ turn[r] \in 1 .. Len(PROVIDER_ORDER) /\ c \in SmokeProviderKey
    BY <1>1, <1>5, <1>20 DEF InPlaceOf, writePrompt
  <2>1. /\ pc[r] = "prompting" /\ pc'[r] = "reading"
        /\ timedOut'[r] = timedOut[r]
        /\ held'[r] = held[r] /\ turn'[r] = turn[r] /\ slot'[r] = slot[r]
        /\ attempted'[r] = attempted[r] /\ probed'[r] = probed[r] /\ invoked'[r] = invoked[r]
        /\ halted'[r] = halted[r] /\ dirs'[r] = dirs[r] /\ evidence'[r] = evidence[r]
        /\ exitCode'[r] = exitCode[r] /\ child'[r] = child[r] /\ report'[r] = report[r]
    BY <2>0, <1>20 DEF writePrompt, TypeOK
  <2>2. HeldOf(r)'
    BY <1>1, <1>2, <2>0, <2>1 DEF HeldOf, InPlaceOf
  <2>3. InPlaceOf(r)'
    BY <1>1, <1>2, <2>0, <2>1 DEF InPlaceOf, Current
  <2>4. RecordedOf(r)'
    BY <1>1, <1>2, <2>0, <2>1 DEF RecordedOf, Current, InPlaceOf
  <2>5. HeededOf(r)'
    BY <1>1, <1>2, <2>0, <2>1 DEF HeededOf, Current, InPlaceOf
  <2>6. HaltedOf(r)'
    BY <1>1, <1>2, <2>0, <2>1 DEF HaltedOf
  <2>7. LaunchOf(r)'
    BY <1>1, <1>2, <2>0, <2>1 DEF LaunchOf, InPlaceOf
  <2>8. CountsOf(r)'
    BY <1>1, <1>2, <2>0, <2>1 DEF CountsOf, InPlaceOf
  <2>9. HaltOf(r)'
    BY <1>1, <1>2, <2>0, <2>1 DEF HaltOf, InPlaceOf
  <2>10. PassOf(r)'
    BY <1>1, <1>2, <2>0, <2>1 DEF PassOf, InPlaceOf
  <2> QED BY <2>2, <2>3, <2>4, <2>5, <2>6, <2>7, <2>8, <2>9, <2>10 DEF RunnerInv
<1>21. ASSUME abandon(r)
       PROVE  RunnerInv(r)'
  <2>0. PICK c : c = Current(r) /\ OnTurn(r) /\ turn[r] \in 1 .. Len(PROVIDER_ORDER) /\ c \in SmokeProviderKey
    BY <1>1, <1>5, <1>21 DEF InPlaceOf, abandon
  <2>1. /\ pc[r] \in {"prompting", "reading", "counting"} /\ pc'[r] = "checking"
        /\ invoked'[r] = [stage |-> "invocation_spawned", exit |-> "spawn_failed"]
        /\ timedOut'[r] = timedOut[r]
        /\ held'[r] = held[r] /\ turn'[r] = turn[r] /\ slot'[r] = slot[r]
        /\ attempted'[r] = attempted[r] /\ probed'[r] = probed[r] /\ halted'[r] = halted[r]
        /\ dirs'[r] = dirs[r] /\ evidence'[r] = evidence[r] /\ exitCode'[r] = exitCode[r]
        /\ child'[r] = child[r] /\ report'[r] = report[r]
    BY <2>0, <1>21 DEF abandon, Invoked, TypeOK
  <2>2. HeldOf(r)'
    BY <1>1, <1>2, <2>0, <2>1 DEF HeldOf, InPlaceOf
  <2>3. InPlaceOf(r)'
    BY <1>1, <1>2, <2>0, <2>1 DEF InPlaceOf, Current
  <2>4. RecordedOf(r)'
    BY <1>1, <1>2, <2>0, <2>1 DEF RecordedOf, Current, InPlaceOf
  <2>5. HeededOf(r)'
    BY <1>1, <2>0, <2>1 DEF HeededOf, Exits
  <2>6. HaltedOf(r)'
    BY <1>1, <1>2, <2>0, <2>1 DEF HaltedOf
  <2>7. LaunchOf(r)'
    BY <1>1, <1>2, <2>0, <2>1 DEF LaunchOf, InPlaceOf
  <2>8. CountsOf(r)'
    BY <1>1, <1>2, <2>0, <2>1 DEF CountsOf, InPlaceOf
  <2>9. HaltOf(r)'
    BY <1>1, <1>2, <2>0, <2>1 DEF HaltOf, InPlaceOf
  <2>10. PassOf(r)'
    BY <1>1, <1>2, <2>0, <2>1 DEF PassOf, InPlaceOf
  <2> QED BY <2>2, <2>3, <2>4, <2>5, <2>6, <2>7, <2>8, <2>9, <2>10 DEF RunnerInv
<1>22. ASSUME readToEnd(r)
       PROVE  RunnerInv(r)'
  <2>0. PICK c : c = Current(r) /\ OnTurn(r) /\ turn[r] \in 1 .. Len(PROVIDER_ORDER) /\ c \in SmokeProviderKey
    BY <1>1, <1>5, <1>22 DEF InPlaceOf, readToEnd
  <2>1. /\ pc[r] = "reading" /\ pc'[r] = "counting"
        /\ child[r][c] = "exited"
        /\ timedOut'[r] = timedOut[r]
        /\ held'[r] = held[r] /\ turn'[r] = turn[r] /\ slot'[r] = slot[r]
        /\ attempted'[r] = attempted[r] /\ probed'[r] = probed[r] /\ invoked'[r] = invoked[r]
        /\ halted'[r] = halted[r] /\ dirs'[r] = dirs[r] /\ evidence'[r] = evidence[r]
        /\ exitCode'[r] = exitCode[r] /\ child'[r] = child[r] /\ report'[r] = report[r]
    BY <2>0, <1>22 DEF readToEnd, TypeOK
  <2>2. HeldOf(r)'
    BY <1>1, <1>2, <2>0, <2>1 DEF HeldOf, InPlaceOf
  <2>3. InPlaceOf(r)'
    BY <1>1, <1>2, <2>0, <2>1 DEF InPlaceOf, Current
  <2>4. RecordedOf(r)'
    BY <1>1, <1>2, <2>0, <2>1 DEF RecordedOf, Current, InPlaceOf
  <2>5. HeededOf(r)'
    BY <1>1, <1>2, <2>0, <2>1 DEF HeededOf, Current, InPlaceOf
  <2>6. HaltedOf(r)'
    BY <1>1, <1>2, <2>0, <2>1 DEF HaltedOf
  <2>7. LaunchOf(r)'
    BY <1>1, <1>2, <2>0, <2>1 DEF LaunchOf, InPlaceOf
  <2>8. CountsOf(r)'
    BY <1>1, <1>2, <2>0, <2>1 DEF CountsOf, InPlaceOf
  <2>9. HaltOf(r)'
    BY <1>1, <1>2, <2>0, <2>1 DEF HaltOf, InPlaceOf
  <2>10. PassOf(r)'
    BY <1>1, <1>2, <2>0, <2>1 DEF PassOf, InPlaceOf
  <2> QED BY <2>2, <2>3, <2>4, <2>5, <2>6, <2>7, <2>8, <2>9, <2>10 DEF RunnerInv
<1>23. ASSUME complete(r)
       PROVE  RunnerInv(r)'
  <2>0. PICK c : c = Current(r) /\ OnTurn(r) /\ turn[r] \in 1 .. Len(PROVIDER_ORDER) /\ c \in SmokeProviderKey
    BY <1>1, <1>5, <1>23 DEF InPlaceOf, complete
  <2>1. /\ pc[r] = "counting" /\ pc'[r] = "checking"
        /\ timedOut'[r] = timedOut[r]
        /\ held'[r] = held[r] /\ turn'[r] = turn[r] /\ slot'[r] = slot[r]
        /\ attempted'[r] = attempted[r] /\ probed'[r] = probed[r] /\ halted'[r] = halted[r]
        /\ dirs'[r] = dirs[r] /\ evidence'[r] = evidence[r] /\ exitCode'[r] = exitCode[r]
        /\ child'[r] = child[r] /\ report'[r] = report[r]
        /\ invoked'[r] = [stage |-> "invocation_completed",
             exit |-> classifyExit(report[r][c].exit, timedOut[r][c], report[r][c].strict)]
    BY <2>0, <1>23 DEF complete, Invoked, TypeOK
  <2>2. HeldOf(r)'
    BY <1>1, <1>2, <2>0, <2>1 DEF HeldOf, InPlaceOf
  <2>3. InPlaceOf(r)'
    BY <1>1, <1>2, <2>0, <2>1 DEF InPlaceOf, Current
  <2>4. RecordedOf(r)'
    BY <1>1, <1>2, <2>0, <2>1 DEF RecordedOf, Current, InPlaceOf
  <2>5. HeededOf(r)'
    <3> DEFINE exit == classifyExit(report[r][c].exit, timedOut[r][c], report[r][c].strict)
    <3>1. report[r][c] \in Reports /\ child[r][c] = "exited"
      BY <1>1, <2>0, <2>1 DEF HeededOf
    <3>2. /\ exit \in Exits \ {"repository_changed"}
          /\ exit = "succeeded" =>
               ~timedOut[r][c] /\ report[r][c].exit = "zero" /\ report[r][c].strict
      BY <3>1, SmokeAssumption DEF classifyExit, Exits
    <3> HIDE DEF exit
    <3>3. invoked'[r] = [stage |-> "invocation_completed", exit |-> exit]
      BY <2>1 DEF exit
    <3> QED BY <1>1, <2>0, <2>1, <3>1, <3>2, <3>3 DEF HeededOf, Current
  <2>6. HaltedOf(r)'
    BY <1>1, <1>2, <2>0, <2>1 DEF HaltedOf
  <2>7. LaunchOf(r)'
    BY <1>1, <1>2, <2>0, <2>1 DEF LaunchOf, InPlaceOf
  <2>8. CountsOf(r)'
    BY <1>1, <1>2, <2>0, <2>1 DEF CountsOf, InPlaceOf
  <2>9. HaltOf(r)'
    BY <1>1, <1>2, <2>0, <2>1 DEF HaltOf, InPlaceOf
  <2>10. PassOf(r)'
    BY <1>1, <1>2, <2>0, <2>1 DEF PassOf, InPlaceOf
  <2> QED BY <2>2, <2>3, <2>4, <2>5, <2>6, <2>7, <2>8, <2>9, <2>10 DEF RunnerInv
<1>24. ASSUME timeout(r)
       PROVE  RunnerInv(r)'
  <2>0. PICK c : c = Current(r) /\ OnTurn(r) /\ turn[r] \in 1 .. Len(PROVIDER_ORDER) /\ c \in SmokeProviderKey
    BY <1>1, <1>5, <1>24 DEF InPlaceOf, timeout, TimerArmed
  <2>1. /\ pc[r] \in {"prompting", "reading", "counting"} /\ pc'[r] = pc[r]
        /\ \A p \in SmokeProviderKey :
             /\ child'[r][p] = "none" <=> child[r][p] = "none"
             /\ child'[r][p] = "exited" <=> child[r][p] = "exited"
        /\ \A p \in SmokeProviderKey \ {c} : timedOut'[r][p] = timedOut[r][p]
        /\ held'[r] = held[r] /\ turn'[r] = turn[r] /\ slot'[r] = slot[r]
        /\ attempted'[r] = attempted[r] /\ probed'[r] = probed[r] /\ invoked'[r] = invoked[r]
        /\ halted'[r] = halted[r] /\ dirs'[r] = dirs[r] /\ evidence'[r] = evidence[r]
        /\ exitCode'[r] = exitCode[r] /\ report'[r] = report[r]
    <3> DEFINE v == IF child[r][c] = "alive" THEN "doomed" ELSE child[r][c]
    <3>1. child \in [Runners -> [SmokeProviderKey -> {"none", "alive", "doomed", "exited"}]]
      BY DEF TypeOK
    <3>2. child' = [child EXCEPT ![r][c] = v]
      BY <2>0, <1>24 DEF timeout
    <3>3. (v = "none" <=> child[r][c] = "none") /\ (v = "exited" <=> child[r][c] = "exited")
      OBVIOUS
    <3> HIDE DEF v
    <3>4. \A p \in SmokeProviderKey : child'[r][p] = IF p = c THEN v ELSE child[r][p]
      BY <2>0, <3>1, <3>2, NestedLookup
    <3>5. timedOut \in [Runners -> [SmokeProviderKey -> BOOLEAN]]
      BY DEF TypeOK
    <3>6. timedOut' = [timedOut EXCEPT ![r][c] = TRUE]
      BY <2>0, <1>24 DEF timeout
    <3>7. \A p \in SmokeProviderKey \ {c} : timedOut'[r][p] = timedOut[r][p]
      BY <2>0, <3>5, <3>6, NestedLookup
    <3> QED BY <1>24, <3>3, <3>4, <3>7 DEF timeout, TimerArmed, TypeOK
  <2>2. HeldOf(r)'
    BY <1>1, <1>2, <2>0, <2>1 DEF HeldOf, InPlaceOf
  <2>3. InPlaceOf(r)'
    BY <1>1, <1>2, <2>1, SMTT(90) DEF InPlaceOf
  <2>4. RecordedOf(r)'
    BY <1>1, <2>1 DEF RecordedOf
  <2>5. HeededOf(r)'
    <3>1. evidence[r][c] = None
      BY <1>1, <1>2, <2>0, <2>1 DEF InPlaceOf, Current
    <3>2. pc'[r] # "checking" /\ Current(r)' = c
      BY <2>0, <2>1 DEF Current
    <3>3. ASSUME NEW p \in SmokeProviderKey, evidence'[r][p] # None
          PROVE  p # c /\ evidence[r][p] # None
      BY <2>1, <3>1, <3>3
    <3> QED BY <1>1, <2>0, <2>1, <3>2, <3>3 DEF HeededOf
  <2>6. HaltedOf(r)'
    BY <1>1, <1>2, <2>0, <2>1 DEF HaltedOf
  <2>7. LaunchOf(r)'
    BY <1>1, <2>1 DEF LaunchOf
  <2>8. CountsOf(r)'
    BY <1>1, <2>1 DEF CountsOf
  <2>9. HaltOf(r)'
    BY <1>1, <1>2, <2>1, SMTT(40) DEF HaltOf
  <2>10. PassOf(r)'
    BY <1>1, <1>2, <2>0, <2>1 DEF PassOf, InPlaceOf
  <2> QED BY <2>2, <2>3, <2>4, <2>5, <2>6, <2>7, <2>8, <2>9, <2>10 DEF RunnerInv
<1>25. ASSUME checkRepository(r)
       PROVE  RunnerInv(r)'
  <2>0. PICK c : c = Current(r) /\ OnTurn(r) /\ turn[r] \in 1 .. Len(PROVIDER_ORDER) /\ c \in SmokeProviderKey
    BY <1>1, <1>5, <1>25 DEF InPlaceOf, checkRepository
  <2>1. /\ evidence[r][c] = None
        /\ pc[r] = "checking" /\ pc'[r] = "turning"
        /\ turn'[r] = turn[r] + 1
        /\ timedOut'[r] = timedOut[r]
        /\ held'[r] = held[r] /\ slot'[r] = slot[r] /\ attempted'[r] = attempted[r]
        /\ probed'[r] = probed[r] /\ dirs'[r] = dirs[r] /\ exitCode'[r] = exitCode[r]
        /\ child'[r] = child[r] /\ report'[r] = report[r]
        /\ \E ev \in Said :
             /\ ev.stage = "invocation_completed" /\ ev.exit = "succeeded" =>
                  invoked[r].stage = "invocation_completed" /\ invoked[r].exit = "succeeded"
             /\ slot[r][c] # 0 => ev.counts.reserved >= 1
             /\ attempted[r][c] => ev.counts.spawnAttempts >= 1
             /\ halted'[r] = (halted[r] \/ ~ev.unchanged)
             /\ \A p \in SmokeProviderKey : evidence'[r][p] = IF p = c THEN ev ELSE evidence[r][p]
    <3>1. PICK unchanged \in {~changed[r], FALSE}, readable \in BOOLEAN, strict \in Heard(r, c) :
            /\ Push(r, Evidence(invoked[r].stage, counts(safeUsage(c, readable), r, c),
                               withRepositoryStatus(invoked[r].exit, unchanged), strict, unchanged))
            /\ halted' = [halted EXCEPT ![r] = @ \/ Halts(unchanged, invoked[r].exit)]
      BY <2>0, <1>25 DEF checkRepository
    <3> DEFINE n == counts(safeUsage(c, readable), r, c)
               exit == withRepositoryStatus(invoked[r].exit, unchanged)
               ev == Evidence(invoked[r].stage, n, exit, strict, unchanged)
    <3>2. /\ n \in Usage
          /\ slot[r][c] # 0 => n.reserved >= 1
          /\ attempted[r][c] => n.spawnAttempts >= 1
      BY UsageTyped, CountsTyped
    <3>3. /\ invoked[r].stage \in Stages /\ invoked[r].exit \in Exits
          /\ unchanged \in BOOLEAN
      BY <1>1, <1>25 DEF HeededOf, Stages, Exits, checkRepository, TypeOK
    <3>4. strict \in BOOLEAN
      BY <1>1, <2>0, <1>25, <3>1, SmokeAssumption DEF HeededOf, Heard, checkRepository
    <3>5. exit \in Exits /\ (exit = "succeeded" => invoked[r].exit = "succeeded")
      BY <3>3 DEF withRepositoryStatus, Exits
    <3>6. Halts(unchanged, invoked[r].exit) <=> ~unchanged
      BY <1>1, <2>0, <1>25 DEF HeededOf, checkRepository, Halts, withRepositoryStatus, Exits
    <3> HIDE DEF n, exit
    <3>7. /\ ev \in Said /\ ev.stage = invoked[r].stage /\ ev.exit = exit
          /\ ev.counts = n /\ ev.unchanged = unchanged
      BY <3>2, <3>3, <3>4, <3>5 DEF Evidence, Said
    <3>8. Push(r, ev)
      BY <3>1 DEF n, exit
    <3> HIDE DEF ev
    <3>9. halted'[r] = (halted[r] \/ ~ev.unchanged)
      BY <3>1, <3>6, <3>7 DEF TypeOK
    <3>10. /\ pc'[r] = "turning" /\ turn'[r] = turn[r] + 1
           /\ \A p \in SmokeProviderKey :
                evidence'[r][p] = IF p = c THEN ev ELSE evidence[r][p]
      BY <1>6, <2>0, <3>7, <3>8
    <3>11. pc[r] = "checking" /\ evidence[r][c] = None
      BY <1>8, <1>25, <2>0 DEF checkRepository
    <3>12. /\ timedOut'[r] = timedOut[r]
           /\ held'[r] = held[r] /\ slot'[r] = slot[r] /\ attempted'[r] = attempted[r]
           /\ probed'[r] = probed[r] /\ dirs'[r] = dirs[r] /\ exitCode'[r] = exitCode[r]
           /\ child'[r] = child[r] /\ report'[r] = report[r]
      BY <1>25 DEF checkRepository
    <3> QED BY <3>2, <3>5, <3>7, <3>9, <3>10, <3>11, <3>12
  <2>2. HeldOf(r)'
    BY <1>1, <1>2, <2>0, <2>1 DEF HeldOf, InPlaceOf
  <2>3. InPlaceOf(r)'
    BY <1>9, <2>0, <2>1
  <2>4. RecordedOf(r)'
    BY <1>1, <2>1 DEF RecordedOf
  <2>5. HeededOf(r)'
    <3>1. invoked[r].stage = "invocation_completed" /\ invoked[r].exit = "succeeded" =>
            /\ child[r][c] = "exited" /\ ~timedOut[r][c]
            /\ report[r][c].exit = "zero" /\ report[r][c].strict
      BY <1>1, <2>0, <2>1 DEF HeededOf
    <3> QED BY <1>1, <2>0, <2>1, <3>1 DEF HeededOf
  <2>6. HaltedOf(r)'
    BY <1>1, <1>2, <2>0, <2>1, ZenonT(40) DEF HaltedOf
  <2>7. LaunchOf(r)'
    BY <1>1, <2>1 DEF LaunchOf
  <2>8. CountsOf(r)'
    <3>1. Launched(r, c) => slot[r][c] # 0 /\ attempted[r][c]
      BY <1>1, <2>0, <2>1 DEF RecordedOf
    <3> QED BY <1>1, <2>0, <2>1, <3>1 DEF CountsOf
  <2>9. HaltOf(r)'
    BY <1>9, <2>0, <2>1
  <2>10. PassOf(r)'
    BY <1>1, <1>2, <2>0, <2>1 DEF PassOf, InPlaceOf
  <2> QED BY <2>2, <2>3, <2>4, <2>5, <2>6, <2>7, <2>8, <2>9, <2>10 DEF RunnerInv
<1>26. ASSUME finish(r)
       PROVE  RunnerInv(r)'
  <2>1. /\ pc[r] = "cleaning" \/ (pc[r] = "turning" /\ ~OnTurn(r))
        /\ pc'[r] = "finished"
        /\ child'[r] = child[r] /\ report'[r] = report[r]
        /\ \/ \A p \in SmokeProviderKey : child[r][p] = "none"
           \/ held'[r] = held[r] /\ slot'[r] = slot[r] /\ probed'[r] = probed[r]
        /\ \A p \in SmokeProviderKey : evidence'[r][p] = None
        /\ exitCode'[r] = 0 => timedOut'[r] = timedOut[r]
        /\ exitCode'[r] = ExitCode(evidence[r], cleanupStatus(dirs'[r]))
    BY <1>26 DEF finish, Forget, PerProvider, TypeOK
  <2>2. HeldOf(r)'
    BY <1>1, <1>2, <2>1 DEF HeldOf, InPlaceOf
  <2>3. InPlaceOf(r)'
    BY <1>1, <1>2, <2>1 DEF InPlaceOf, Current
  <2>4. RecordedOf(r)'
    BY <1>1, <1>2, <2>1 DEF RecordedOf, Current, InPlaceOf
  <2>5. HeededOf(r)'
    BY <1>1, <1>2, <2>1 DEF HeededOf, Current, InPlaceOf
  <2>6. HaltedOf(r)'
    BY <1>1, <1>2, <2>1 DEF HaltedOf
  <2>7. LaunchOf(r)'
    BY <1>1, <1>2, <2>1 DEF LaunchOf, InPlaceOf
  <2>8. CountsOf(r)'
    BY <1>1, <1>2, <2>1 DEF CountsOf, InPlaceOf
  <2>9. HaltOf(r)'
    BY <1>1, <1>2, <2>1 DEF HaltOf, InPlaceOf
  <2>10. PassOf(r)'
    <3> SUFFICES ASSUME exitCode'[r] = 0
                 PROVE  /\ dirs'[r] = {}
                        /\ \A p \in SmokeProviderKey :
                             /\ child[r][p] = "exited" /\ ~timedOut[r][p]
                             /\ report[r][p].exit = "zero" /\ report[r][p].strict
      BY <2>1 DEF PassOf
    <3>1. isSmokePass(evidence[r], cleanupStatus(dirs'[r]))
      BY <2>1 DEF ExitCode
    <3>2. dirs'[r] = {}
      BY <3>1 DEF isSmokePass, cleanupStatus
    <3>3. \A k \in 1 .. Len(PROVIDER_ORDER) : pc[r] = "turning" => k \in 1 .. turn[r] - 1
      BY <1>2, <2>1
    <3>4. \A p \in SmokeProviderKey : evidence[r][p] # None
      BY <1>1, <1>2, <2>1, <3>3 DEF InPlaceOf
    <3> QED BY <1>1, <3>1, <3>2, <3>4 DEF isSmokePass, HeededOf
  <2> QED BY <2>2, <2>3, <2>4, <2>5, <2>6, <2>7, <2>8, <2>9, <2>10 DEF RunnerInv
<1>27. ASSUME crash(r)
       PROVE  RunnerInv(r)'
  <2>1. /\ pc[r] \notin {"idle", "finished", "crashed"} /\ pc'[r] = "crashed"
        /\ dirs'[r] = dirs[r] /\ exitCode'[r] = exitCode[r] /\ child'[r] = child[r]
        /\ report'[r] = report[r]
        /\ \/ \A p \in SmokeProviderKey : child[r][p] = "none"
           \/ held'[r] = held[r] /\ slot'[r] = slot[r] /\ probed'[r] = probed[r]
        /\ \A p \in SmokeProviderKey : evidence'[r][p] = None
    BY <1>27 DEF crash, Forget, PerProvider, TypeOK
  <2>2. HeldOf(r)'
    BY <1>1, <1>2, <2>1 DEF HeldOf, InPlaceOf
  <2>3. InPlaceOf(r)'
    BY <1>1, <1>2, <2>1 DEF InPlaceOf, Current
  <2>4. RecordedOf(r)'
    BY <1>1, <1>2, <2>1 DEF RecordedOf, Current, InPlaceOf
  <2>5. HeededOf(r)'
    BY <1>1, <1>2, <2>1 DEF HeededOf, Current, InPlaceOf
  <2>6. HaltedOf(r)'
    BY <1>1, <1>2, <2>1 DEF HaltedOf
  <2>7. LaunchOf(r)'
    BY <1>1, <1>2, <2>1 DEF LaunchOf, InPlaceOf
  <2>8. CountsOf(r)'
    BY <1>1, <1>2, <2>1 DEF CountsOf, InPlaceOf
  <2>9. HaltOf(r)'
    BY <1>1, <1>2, <2>1 DEF HaltOf, InPlaceOf
  <2>10. PassOf(r)'
    BY <1>1, <1>2, <2>1 DEF PassOf, InPlaceOf
  <2> QED BY <2>2, <2>3, <2>4, <2>5, <2>6, <2>7, <2>8, <2>9, <2>10 DEF RunnerInv
<1>28. ASSUME NEW c \in SmokeProviderKey, childExits(r, c)
       PROVE  RunnerInv(r)'
  <2>1. /\ pc'[r] = pc[r]
        /\ child[r][c] # "none" /\ child[r][c] # "exited"
        /\ timedOut'[r] = timedOut[r]
        /\ held'[r] = held[r] /\ turn'[r] = turn[r] /\ slot'[r] = slot[r]
        /\ attempted'[r] = attempted[r] /\ probed'[r] = probed[r] /\ invoked'[r] = invoked[r]
        /\ halted'[r] = halted[r] /\ dirs'[r] = dirs[r] /\ evidence'[r] = evidence[r]
        /\ exitCode'[r] = exitCode[r]
        /\ \A p \in SmokeProviderKey :
             /\ child'[r][p] = "none" <=> child[r][p] = "none"
             /\ child'[r][p] = "exited" <=> p = c \/ child[r][p] = "exited"
        /\ \A p \in SmokeProviderKey \ {c} : report'[r][p] = report[r][p]
        /\ pc[r] \in {"prompting", "reading"} /\ Current(r) = c => report'[r][c] \in Reports
    <3>1. /\ child \in [Runners -> [SmokeProviderKey -> {"none", "alive", "doomed", "exited"}]]
          /\ report \in [Runners -> [SmokeProviderKey -> Reports \cup {None}]]
      BY DEF TypeOK
    <3>2. \A p \in SmokeProviderKey : child'[r][p] = IF p = c THEN "exited" ELSE child[r][p]
      BY <1>28, <3>1, NestedLookup DEF childExits
    <3>3. CASE pc[r] \in {"prompting", "reading"} /\ Current(r) = c
      <4>1. PICK rep \in Reports : report' = [report EXCEPT ![r][c] = rep]
        BY <1>28, <3>3 DEF childExits
      <4>2. \A p \in SmokeProviderKey : report'[r][p] = IF p = c THEN rep ELSE report[r][p]
        BY <3>1, <4>1, NestedLookup
      <4> QED BY <1>28, <3>2, <4>2 DEF childExits, Living
    <3>4. CASE UNCHANGED report /\ ~(pc[r] \in {"prompting", "reading"} /\ Current(r) = c)
      BY <1>28, <3>2, <3>4 DEF childExits, Living
    <3> QED BY <1>28, <3>3, <3>4 DEF childExits
  <2>2. HeldOf(r)'
    BY <1>1, <1>2, <2>1 DEF HeldOf, InPlaceOf
  <2>3. InPlaceOf(r)'
    <3>1. \A k \in turn[r] .. Len(PROVIDER_ORDER) : PROVIDER_ORDER[k] \in SmokeProviderKey
      BY <1>2
    <3>2. \A k \in turn[r] + 1 .. Len(PROVIDER_ORDER) : PROVIDER_ORDER[k] \in SmokeProviderKey
      BY <1>2
    <3>3. turn'[r] = turn[r] /\ evidence'[r] = evidence[r] /\ pc'[r] = pc[r]
      BY <2>1
    <3>4. \A p \in SmokeProviderKey : child[r][p] = "none" => child'[r][p] = "none"
      BY <2>1
    <3> QED BY <1>1, <3>1, <3>2, <3>3, <3>4 DEF InPlaceOf
  <2>4. RecordedOf(r)'
    BY <1>1, <2>1 DEF RecordedOf, Current
  <2>5. HeededOf(r)'
    <3>1. \A p \in SmokeProviderKey : evidence[r][p] # None
            /\ evidence[r][p].stage = "invocation_completed" /\ evidence[r][p].exit = "succeeded"
              => p # c
      BY <1>1, <2>1 DEF HeededOf
    <3>2. CASE pc[r] \in Invoking
      <4>0. PICK q : q = Current(r) /\ q \in SmokeProviderKey
        BY <1>1, <1>5, <3>2 DEF InPlaceOf
      <4>1. Current(r)' = q
        BY <2>1, <4>0 DEF Current
      <4> QED BY <1>1, <2>1, <3>1, <3>2, <4>0, <4>1 DEF HeededOf
    <3>3. CASE pc[r] \notin Invoking
      BY <1>1, <2>1, <3>1, <3>3 DEF HeededOf
    <3> QED BY <3>2, <3>3
  <2>6. HaltedOf(r)'
    BY <1>1, <1>2, <2>1 DEF HaltedOf
  <2>7. LaunchOf(r)'
    BY <1>1, <2>1 DEF LaunchOf
  <2>8. CountsOf(r)'
    BY <1>1, <2>1 DEF CountsOf
  <2>9. HaltOf(r)'
    BY <1>1, <1>2, <2>1, SMTT(40) DEF HaltOf
  <2>10. PassOf(r)'
    BY <1>1, <1>2, <2>1 DEF PassOf, InPlaceOf
  <2> QED BY <2>2, <2>3, <2>4, <2>5, <2>6, <2>7, <2>8, <2>9, <2>10 DEF RunnerInv
<1>29. ASSUME NEW p \in SmokeProviderKey, childWrites(r, p)
       PROVE  RunnerInv(r)'
  <2>1. /\ pc'[r] = pc[r]
        /\ timedOut'[r] = timedOut[r]
        /\ held'[r] = held[r] /\ turn'[r] = turn[r] /\ slot'[r] = slot[r]
        /\ attempted'[r] = attempted[r] /\ probed'[r] = probed[r] /\ invoked'[r] = invoked[r]
        /\ halted'[r] = halted[r] /\ dirs'[r] = dirs[r] /\ evidence'[r] = evidence[r]
        /\ exitCode'[r] = exitCode[r] /\ child'[r] = child[r] /\ report'[r] = report[r]
    BY <1>29 DEF childWrites, TypeOK
  <2>2. HeldOf(r)'
    BY <1>1, <1>2, <2>1 DEF HeldOf, InPlaceOf
  <2>3. InPlaceOf(r)'
    BY <1>1, <1>2, <2>1 DEF InPlaceOf, Current
  <2>4. RecordedOf(r)'
    BY <1>1, <1>2, <2>1 DEF RecordedOf, Current, InPlaceOf
  <2>5. HeededOf(r)'
    BY <1>1, <1>2, <2>1 DEF HeededOf, Current, InPlaceOf
  <2>6. HaltedOf(r)'
    BY <1>1, <1>2, <2>1 DEF HaltedOf
  <2>7. LaunchOf(r)'
    BY <1>1, <1>2, <2>1 DEF LaunchOf, InPlaceOf
  <2>8. CountsOf(r)'
    BY <1>1, <1>2, <2>1 DEF CountsOf, InPlaceOf
  <2>9. HaltOf(r)'
    BY <1>1, <1>2, <2>1 DEF HaltOf, InPlaceOf
  <2>10. PassOf(r)'
    BY <1>1, <1>2, <2>1 DEF PassOf, InPlaceOf
  <2> QED BY <2>2, <2>3, <2>4, <2>5, <2>6, <2>7, <2>8, <2>9, <2>10 DEF RunnerInv
<1> QED
  BY <1>10, <1>11, <1>12, <1>13, <1>14, <1>15, <1>16, <1>17, <1>18, <1>19, <1>20, <1>21,
     <1>22, <1>23, <1>24, <1>25, <1>26, <1>27, <1>28, <1>29
  DEF RunnerStep, Start, Advance

-----------------------------------------------------------------------------
(***************************************************************************)
(* One claim.                                                              *)
(***************************************************************************)
LEMMA ClaimsGrow ==
  ASSUME TypeOK, NEW r \in Runners, RunnerStep(r)
  PROVE  Claimed(r)' => Claimed(r) \/ (ClaimFile \notin files /\ ClaimFile \in files')
<1> USE DEF TypeOK, Claimed, Launched, Running
<1>1. ASSUME NotOptedIn(r)
      PROVE  Claimed(r)' => Claimed(r) \/ (ClaimFile \notin files /\ ClaimFile \in files')
  BY <1>1 DEF NotOptedIn
<1>2. ASSUME RefuseEarly(r)
      PROVE  Claimed(r)' => Claimed(r) \/ (ClaimFile \notin files /\ ClaimFile \in files')
  BY <1>2 DEF RefuseEarly, refuse
<1>3. ASSUME NEW models, NEW policy, readGrant(r, models, policy)
      PROVE  Claimed(r)' => Claimed(r) \/ (ClaimFile \notin files /\ ClaimFile \in files')
  BY <1>3 DEF readGrant, refuse
<1>4. ASSUME claimRun(r)
      PROVE  Claimed(r)' => Claimed(r) \/ (ClaimFile \notin files /\ ClaimFile \in files')
  BY <1>4 DEF claimRun, refuse, preflightUnavailable, Created
<1>5. ASSUME reserve(r)
      PROVE  Claimed(r)' => Claimed(r) \/ (ClaimFile \notin files /\ ClaimFile \in files')
  BY <1>5 DEF reserve, preflightUnavailable, AfterReserve
<1>6. ASSUME prepareRepository(r)
      PROVE  Claimed(r)' => Claimed(r) \/ (ClaimFile \notin files /\ ClaimFile \in files')
  BY <1>6 DEF prepareRepository, preflightUnavailable
<1>7. ASSUME createSyntheticPublicRepository(r)
      PROVE  Claimed(r)' => Claimed(r) \/ (ClaimFile \notin files /\ ClaimFile \in files')
  BY <1>7 DEF createSyntheticPublicRepository, preflightUnavailable
<1>8. ASSUME visitProvider(r)
      PROVE  Claimed(r)' => Claimed(r) \/ (ClaimFile \notin files /\ ClaimFile \in files')
  BY <1>8 DEF visitProvider, PushPending, Push
<1>9. ASSUME markSpawnAttempt(r)
      PROVE  Claimed(r)' => Claimed(r) \/ (ClaimFile \notin files /\ ClaimFile \in files')
  BY <1>9 DEF markSpawnAttempt, PushPending, Push
<1>10. ASSUME spawn(r)
      PROVE  Claimed(r)' => Claimed(r) \/ (ClaimFile \notin files /\ ClaimFile \in files')
  BY <1>10 DEF spawn, Invoked
<1>11. ASSUME writePrompt(r)
      PROVE  Claimed(r)' => Claimed(r) \/ (ClaimFile \notin files /\ ClaimFile \in files')
  BY <1>11 DEF writePrompt
<1>12. ASSUME abandon(r)
      PROVE  Claimed(r)' => Claimed(r) \/ (ClaimFile \notin files /\ ClaimFile \in files')
  BY <1>12 DEF abandon, Invoked
<1>13. ASSUME readToEnd(r)
      PROVE  Claimed(r)' => Claimed(r) \/ (ClaimFile \notin files /\ ClaimFile \in files')
  BY <1>13 DEF readToEnd
<1>14. ASSUME complete(r)
      PROVE  Claimed(r)' => Claimed(r) \/ (ClaimFile \notin files /\ ClaimFile \in files')
  BY <1>14 DEF complete, Invoked
<1>15. ASSUME timeout(r)
      PROVE  Claimed(r)' => Claimed(r) \/ (ClaimFile \notin files /\ ClaimFile \in files')
  BY <1>15 DEF timeout
<1>16. ASSUME checkRepository(r)
      PROVE  Claimed(r)' => Claimed(r) \/ (ClaimFile \notin files /\ ClaimFile \in files')
  BY <1>16 DEF checkRepository, Push
<1>17. ASSUME finish(r)
      PROVE  Claimed(r)' => Claimed(r) \/ (ClaimFile \notin files /\ ClaimFile \in files')
  BY <1>17 DEF finish, Forget
<1>18. ASSUME crash(r)
      PROVE  Claimed(r)' => Claimed(r) \/ (ClaimFile \notin files /\ ClaimFile \in files')
  BY <1>18 DEF crash, Forget
<1>19. ASSUME NEW p \in SmokeProviderKey, childExits(r, p)
      PROVE  Claimed(r)' => Claimed(r) \/ (ClaimFile \notin files /\ ClaimFile \in files')
  BY <1>19 DEF childExits, Living
<1>20. ASSUME NEW p \in SmokeProviderKey, childWrites(r, p)
      PROVE  Claimed(r)' => Claimed(r) \/ (ClaimFile \notin files /\ ClaimFile \in files')
  BY <1>20 DEF childWrites
<1> QED
  BY <1>1, <1>2, <1>3, <1>4, <1>5, <1>6, <1>7, <1>8, <1>9, <1>10, <1>11, <1>12, <1>13,
     <1>14, <1>15, <1>16, <1>17, <1>18, <1>19, <1>20
  DEF RunnerStep, Start, Advance

LEMMA ClaimStep ==
  ASSUME TypeOK, OneClaim, NEW r \in Runners, RunnerStep(r), files \subseteq files'
  PROVE  OneClaim'
<1>1. ASSUME NEW q \in Runners \ {r}
      PROVE  Claimed(q)' <=> Claimed(q)
  BY OthersUnmoved DEF Unmoved, Claimed, Launched
<1>2. Claimed(r)' => Claimed(r) \/ (ClaimFile \notin files /\ ClaimFile \in files')
  BY ClaimsGrow
<1> QED
  BY <1>1, <1>2 DEF OneClaim

-----------------------------------------------------------------------------
(***************************************************************************)
(* The inductive invariant.                                                *)
(***************************************************************************)
LEMMA InvInit == SmokeInit => IInv
<1> SUFFICES ASSUME SmokeInit
             PROVE  IInv
  OBVIOUS
<1> USE DEF SmokeInit
<1>1. Typed /\ OneWriter
  BY LedgerTypeInit DEF LedgerInit, OneWriter
<1>2. TypeOK
  <2>1. Len(PROVIDER_ORDER) \in Nat
    BY SmokeAssumption
  <2> QED BY <1>1, <2>1, LedgerAssumption DEF TypeOK, Typed, PerProvider
<1>3. \A r \in Runners : ~Claimed(r)
  BY DEF Claimed, Running, Launched, PerProvider
<1>4. OneClaim
  BY <1>3 DEF OneClaim
<1>5. ASSUME NEW r \in Runners
      PROVE  RunnerInv(r)
  <2>0. /\ pc[r] = "idle" /\ exitCode[r] = None /\ ~Claimed(r)
        /\ turn[r] = 1
        /\ \A p \in SmokeProviderKey :
             evidence[r][p] = None /\ child[r][p] = "none" /\ slot[r][p] = 0
    BY <1>3 DEF PerProvider
  <2>1. HeldOf(r)
    BY <2>0 DEF HeldOf
  <2>2. InPlaceOf(r)
    BY <2>0 DEF InPlaceOf, Invoking, Visiting
  <2>3. RecordedOf(r)
    BY <2>0 DEF RecordedOf, Running
  <2>4. HeededOf(r)
    BY <2>0 DEF HeededOf
  <2>5. HaltedOf(r)
    BY <2>0 DEF HaltedOf, Invoking
  <2>6. LaunchOf(r)
    BY <2>0 DEF LaunchOf, Launched
  <2>7. CountsOf(r)
    BY <2>0 DEF CountsOf
  <2>8. HaltOf(r)
    <3>1. \A k \in 1 .. Len(PROVIDER_ORDER) : PROVIDER_ORDER[k] \in SmokeProviderKey
      BY SmokeAssumption
    <3> QED BY <2>0, <3>1 DEF HaltOf
  <2>9. PassOf(r)
    BY <2>0, SmokeAssumption DEF PassOf
  <2> QED BY <2>1, <2>2, <2>3, <2>4, <2>5, <2>6, <2>7, <2>8, <2>9 DEF RunnerInv
<1> QED BY <1>1, <1>2, <1>4, <1>5 DEF IInv

LEMMA InvStep ==
  ASSUME IInv, [SmokeNext]_vars
  PROVE  IInv'
<1> USE DEF IInv
<1>1. files \subseteq files' /\ (Whole => grantFile' = grantFile /\ Whole')
  BY FilesStay
<1>2. TypeOK'
  BY TypeStep
<1>3. CASE LedgerNext /\ UNCHANGED runVars
  <2>1. \A r \in Runners : Unmoved(r)
    BY <1>3 DEF runVars, Unmoved
  <2>2. \A r \in Runners : RunnerInv(r)'
    BY <1>1, <2>1, UnmovedKeeps
  <2>3. OneClaim'
    BY <1>1, <1>3 DEF OneClaim, Claimed, Launched, runVars
  <2>4. Typed' /\ OneWriter'
    BY <1>3, LedgerTypeStep, OneWriterStep
  <2> QED BY <1>2, <2>2, <2>3, <2>4
<1>4. ASSUME NEW r \in Runners, RunnerStep(r)
      PROVE  IInv'
  <2>1. RunnerInv(r)'
    BY <1>1, <1>4, OwnStep
  <2>2. \A q \in Runners \ {r} : RunnerInv(q)'
    BY <1>1, <1>4, OthersUnmoved, UnmovedKeeps
  <2>3. OneClaim'
    BY <1>1, <1>4, ClaimStep
  <2>4. Typed' /\ OneWriter'
    BY <1>2, <1>4, RunnerFiles DEF Typed, OneWriter, TypeOK
  <2> QED BY <1>2, <2>1, <2>2, <2>3, <2>4
<1>5. CASE UNCHANGED vars
  <2>1. \A r \in Runners : Unmoved(r)
    BY <1>5 DEF vars, runVars, Unmoved
  <2>2. \A r \in Runners : RunnerInv(r)'
    BY <1>1, <2>1, UnmovedKeeps
  <2>3. OneClaim'
    BY <1>1, <1>5 DEF OneClaim, Claimed, Launched, vars, runVars
  <2>4. Typed' /\ OneWriter'
    BY <1>2, <1>5 DEF Typed, OneWriter, TypeOK, vars, ledgerVars
  <2> QED BY <1>2, <2>2, <2>3, <2>4
<1> QED
  BY <1>3, <1>4, <1>5 DEF SmokeNext, RunnerStep

LEMMA SmokeInvariant == SmokeSpec => []IInv
  BY InvInit, InvStep, PTL DEF SmokeSpec

-----------------------------------------------------------------------------
\* Every launch left its claim, its slot and its spawn marker in the ledger, under
\* the standing grant and for the build it binds, and every envelope counts it.
THEOREM SmokeIsConsistent == SmokeSpec => []SmokeConsistent
<1>1. IInv => SmokeConsistent
  BY DEF IInv, RunnerInv, LaunchOf, CountsOf, SmokeConsistent, LaunchIsRecorded,
         CountsNeverUnderstate
<1> QED
  BY <1>1, SmokeInvariant, PTL

\* After a provider is seen to have changed the repository no later one is launched.
THEOREM SecurityHaltHolds == SmokeSpec => []SecurityHalt
<1>1. IInv => SecurityHalt
  BY DEF IInv, RunnerInv, HaltOf, SecurityHalt
<1> QED
  BY <1>1, SmokeInvariant, PTL

\* A command that exits with 0 launched every provider to a strict success, left no
\* directory, and is the only one under its authorization that did.
THEOREM PassIsAlwaysEarned == SmokeSpec => []PassIsEarned
<1>1. ASSUME IInv
      PROVE  PassIsEarned
  <2> SUFFICES ASSUME NEW r \in Runners, exitCode[r] = 0, NEW q \in Runners \ {r},
                      exitCode[q] = 0
               PROVE  FALSE
    BY <1>1 DEF IInv, RunnerInv, PassOf, PassIsEarned
  <2>1. \A s \in {r, q} : Claimed(s)
    BY <1>1, SmokeAssumption, SMTT(40) DEF IInv, RunnerInv, PassOf, Claimed, Launched
  <2> QED BY <1>1, <2>1 DEF IInv, OneClaim
<1> QED
  BY <1>1, SmokeInvariant, PTL

-----------------------------------------------------------------------------
(***************************************************************************)
(* The smoke implements the one-time authorization: spawn maps to          *)
(* LaunchOnce, the write of a grant to Issue, and every other step to a    *)
(* stutter.                                                                *)
(***************************************************************************)
LaunchesOf(p) == {[by |-> r, under |-> held[r]] : r \in {q \in Runners : Launched(q, p)}}

LEMMA LaunchChanges ==
  ASSUME TypeOK, NEW r \in Runners, RunnerStep(r)
  PROVE  \/ \A p \in SmokeProviderKey : Launched(r, p)' <=> Launched(r, p)
         \/ /\ pc[r] = "spawning"
            /\ \A p \in SmokeProviderKey :
                 Launched(r, p)' <=> Launched(r, p) \/ p = Current(r)
<1> USE DEF TypeOK, Launched
<1>1. ASSUME NotOptedIn(r)
      PROVE  \A p \in SmokeProviderKey : Launched(r, p)' <=> Launched(r, p)
  BY <1>1 DEF NotOptedIn
<1>2. ASSUME RefuseEarly(r)
      PROVE  \A p \in SmokeProviderKey : Launched(r, p)' <=> Launched(r, p)
  BY <1>2 DEF RefuseEarly, refuse
<1>3. ASSUME NEW models, NEW policy, readGrant(r, models, policy)
      PROVE  \A p \in SmokeProviderKey : Launched(r, p)' <=> Launched(r, p)
  BY <1>3 DEF readGrant, refuse
<1>4. ASSUME claimRun(r)
      PROVE  \A p \in SmokeProviderKey : Launched(r, p)' <=> Launched(r, p)
  BY <1>4 DEF claimRun, refuse, preflightUnavailable, Created
<1>5. ASSUME reserve(r)
      PROVE  \A p \in SmokeProviderKey : Launched(r, p)' <=> Launched(r, p)
  BY <1>5 DEF reserve, preflightUnavailable, AfterReserve
<1>6. ASSUME prepareRepository(r)
      PROVE  \A p \in SmokeProviderKey : Launched(r, p)' <=> Launched(r, p)
  BY <1>6 DEF prepareRepository, preflightUnavailable
<1>7. ASSUME createSyntheticPublicRepository(r)
      PROVE  \A p \in SmokeProviderKey : Launched(r, p)' <=> Launched(r, p)
  BY <1>7 DEF createSyntheticPublicRepository, preflightUnavailable
<1>8. ASSUME visitProvider(r)
      PROVE  \A p \in SmokeProviderKey : Launched(r, p)' <=> Launched(r, p)
  BY <1>8 DEF visitProvider, PushPending, Push
<1>9. ASSUME markSpawnAttempt(r)
      PROVE  \A p \in SmokeProviderKey : Launched(r, p)' <=> Launched(r, p)
  BY <1>9 DEF markSpawnAttempt, PushPending, Push
<1>10. ASSUME spawn(r)
      PROVE  \/ \A p \in SmokeProviderKey : Launched(r, p)' <=> Launched(r, p)
             \/ /\ pc[r] = "spawning"
                /\ \A p \in SmokeProviderKey :
                     Launched(r, p)' <=> Launched(r, p) \/ p = Current(r)
  BY <1>10 DEF spawn, Invoked
<1>11. ASSUME writePrompt(r)
      PROVE  \A p \in SmokeProviderKey : Launched(r, p)' <=> Launched(r, p)
  BY <1>11 DEF writePrompt
<1>12. ASSUME abandon(r)
      PROVE  \A p \in SmokeProviderKey : Launched(r, p)' <=> Launched(r, p)
  BY <1>12 DEF abandon, Invoked
<1>13. ASSUME readToEnd(r)
      PROVE  \A p \in SmokeProviderKey : Launched(r, p)' <=> Launched(r, p)
  BY <1>13 DEF readToEnd
<1>14. ASSUME complete(r)
      PROVE  \A p \in SmokeProviderKey : Launched(r, p)' <=> Launched(r, p)
  BY <1>14 DEF complete, Invoked
<1>15. ASSUME timeout(r)
      PROVE  \A p \in SmokeProviderKey : Launched(r, p)' <=> Launched(r, p)
  BY <1>15 DEF timeout
<1>16. ASSUME checkRepository(r)
      PROVE  \A p \in SmokeProviderKey : Launched(r, p)' <=> Launched(r, p)
  BY <1>16 DEF checkRepository, Push
<1>17. ASSUME finish(r)
      PROVE  \A p \in SmokeProviderKey : Launched(r, p)' <=> Launched(r, p)
  BY <1>17 DEF finish, Forget
<1>18. ASSUME crash(r)
      PROVE  \A p \in SmokeProviderKey : Launched(r, p)' <=> Launched(r, p)
  BY <1>18 DEF crash, Forget
<1>19. ASSUME NEW q \in SmokeProviderKey, childExits(r, q)
      PROVE  \A p \in SmokeProviderKey : Launched(r, p)' <=> Launched(r, p)
  BY <1>19 DEF childExits, Living
<1>20. ASSUME NEW q \in SmokeProviderKey, childWrites(r, q)
      PROVE  \A p \in SmokeProviderKey : Launched(r, p)' <=> Launched(r, p)
  BY <1>20 DEF childWrites
<1> QED
  BY <1>1, <1>2, <1>3, <1>4, <1>5, <1>6, <1>7, <1>8, <1>9, <1>10, <1>11, <1>12, <1>13,
     <1>14, <1>15, <1>16, <1>17, <1>18, <1>19, <1>20
  DEF RunnerStep, Start, Advance

LEMMA LaunchesStay ==
  ASSUME IInv, IInv', Whole => grantFile' = grantFile,
         NEW p \in SmokeProviderKey,
         \A q \in Runners : Launched(q, p)' <=> Launched(q, p)
  PROVE  LaunchesOf(p)' = LaunchesOf(p)
<1>1. \A q \in Runners : Launched(q, p) => held'[q] = held[q]
  BY DEF IInv, RunnerInv, LaunchOf
<1> QED BY <1>1 DEF LaunchesOf

LEMMA OneTimeStep ==
  ASSUME IInv, IInv', [SmokeNext]_vars
  PROVE  [OneTime!Next]_(OneTime!vars)
<1> DEFINE terms == IF Whole THEN grantFile ELSE None
           launches == [p \in SmokeProviderKey |-> LaunchesOf(p)]
<1>0. Whole => grantFile' = grantFile /\ Whole'
  BY FilesStay DEF IInv
<1>1. ASSUME terms' = terms, \A p \in SmokeProviderKey : LaunchesOf(p)' = LaunchesOf(p)
      PROVE  UNCHANGED OneTime!vars
  BY <1>1 DEF OneTime!vars, LaunchesOf
<1>2. CASE (LedgerNext /\ UNCHANGED runVars) \/ UNCHANGED vars
  <2>1. \A p \in SmokeProviderKey : LaunchesOf(p)' = LaunchesOf(p)
    BY <1>2 DEF LaunchesOf, Launched, runVars, vars
  <2>2. CASE ~Whole /\ Whole'
    <3>1. grantFile' \in Grants
      BY <2>2, GrantFileCases DEF IInv, Whole, TypeOK, LedgerTypeOK
    <3>2. OneTime!Issue(grantFile')
      BY <2>1, <2>2 DEF OneTime!Issue, LaunchesOf
    <3> QED BY <3>1, <3>2 DEF OneTime!Next
  <2>3. CASE Whole \/ ~Whole'
    BY <1>0, <1>1, <2>1, <2>3
  <2> QED BY <2>2, <2>3
<1>3. ASSUME NEW r \in Runners, RunnerStep(r)
      PROVE  [OneTime!Next]_(OneTime!vars)
  <2>1. grantFile' = grantFile /\ (Whole' <=> Whole)
    BY <1>3, RunnerFiles DEF Whole
  <2>2. \A q \in Runners \ {r}, p \in SmokeProviderKey : Launched(q, p)' <=> Launched(q, p)
    BY <1>3, OthersUnmoved DEF IInv, Unmoved, Launched
  <2>3. CASE \A p \in SmokeProviderKey : Launched(r, p)' <=> Launched(r, p)
    <3>1. \A p \in SmokeProviderKey : LaunchesOf(p)' = LaunchesOf(p)
      BY <2>1, <2>2, <2>3, LaunchesStay
    <3> QED BY <1>1, <2>1, <3>1
  <2>4. CASE /\ pc[r] = "spawning"
             /\ \A p \in SmokeProviderKey :
                  Launched(r, p)' <=> Launched(r, p) \/ p = Current(r)
    <3>0. PICK p : p = Current(r)
      OBVIOUS
    <3>1. p \in SmokeProviderKey /\ ~Launched(r, p)
      <4>1. OnTurn(r) /\ \A k \in turn[r] .. Len(PROVIDER_ORDER) :
              child[r][PROVIDER_ORDER[k]] = "none"
        BY <2>4 DEF IInv, RunnerInv, InPlaceOf, Visiting
      <4>2. turn[r] \in turn[r] .. Len(PROVIDER_ORDER)
        BY <4>1, SmokeAssumption DEF IInv, TypeOK, OnTurn
      <4>3. p \in SmokeProviderKey
        BY <3>0, <4>1, CurrentTyped DEF IInv
      <4> QED BY <3>0, <4>1, <4>2, <4>3 DEF Current, Launched
    <3>2. Claimed(r)
      BY <2>4 DEF Claimed, Running
    <3>3. \A q \in Runners : ~Launched(q, p)
      BY <3>1, <3>2 DEF IInv, OneClaim, Claimed
    <3>4. Whole
      BY <3>2 DEF IInv, RunnerInv, HeldOf
    <3>5. held'[r] = grantFile
      <4>1. Launched(r, p)'
        BY <2>4, <3>0, <3>1
      <4> QED BY <2>1, <3>1, <4>1 DEF IInv, RunnerInv, LaunchOf
    <3>6. LaunchesOf(p) = {}
      BY <3>3 DEF LaunchesOf
    <3>7. LaunchesOf(p)' = {[by |-> r, under |-> grantFile]}
      <4>1. \A q \in Runners : Launched(q, p)' <=> q = r
        BY <2>2, <2>4, <3>0, <3>1, <3>3
      <4> QED BY <3>5, <4>1 DEF LaunchesOf
    <3>8. \A s \in SmokeProviderKey \ {p} : LaunchesOf(s)' = LaunchesOf(s)
      BY <2>1, <2>2, <2>4, <3>0, LaunchesStay
    <3>9. OneTime!LaunchOnce(p, r)
      <4>1. grantFile # None
        BY <3>4, LedgerAssumption, GrantFileCases DEF IInv, TypeOK
      <4>2. launches' = [launches EXCEPT ![p] = {[by |-> r, under |-> grantFile]}]
        BY <3>1, <3>7, <3>8
      <4>3. launches[p] = {}
        BY <3>1, <3>6
      <4> QED BY <2>1, <3>4, <4>1, <4>2, <4>3 DEF OneTime!LaunchOnce, LaunchesOf
    <3> QED BY <3>1, <3>9 DEF OneTime!Next
  <2> QED BY <1>3, <2>3, <2>4, LaunchChanges DEF IInv
<1> QED
  BY <1>2, <1>3 DEF SmokeNext, RunnerStep

\* Under one authorization id the terms are fixed once and every provider is launched
\* at most once, through races, crashes and repeated runs.
THEOREM SmokeImplementsOneTime == SmokeSpec => ImplementsOneTimeAuthorization
<1>1. SmokeInit => OneTime!Init
  BY DEF SmokeInit, LedgerInit, Whole, OneTime!Init, Launched, PerProvider
<1>2. IInv /\ IInv' /\ [SmokeNext]_vars => [OneTime!Next]_(OneTime!vars)
  BY OneTimeStep
<1> QED
  BY <1>1, <1>2, SmokeInvariant, PTL DEF SmokeSpec, ImplementsOneTimeAuthorization, OneTime!Spec
=============================================================================
