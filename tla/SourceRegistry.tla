--------------------------- MODULE SourceRegistry ---------------------------
(***************************************************************************)
(* Arca's registry of source cards and source requests, its audit log, and *)
(* the approvals that let a card be archived                               *)
(* (repositories/arca-registry-repository.ts,                              *)
(* arca-archive-approval-consumer.ts, repositories/approval-repository.ts).*)
(*                                                                         *)
(* Every operation but one is an immediate transaction: it takes effect as *)
(* a whole or, when a guard or a statement refuses it, not at all, so a    *)
(* refused operation is no step.  The exception is createRequest, whose    *)
(* two statements commit one by one and may be separated by other          *)
(* processes, by a refusal or by a crash.  A caller names the version of   *)
(* the row it has read, however old that is.                               *)
(***************************************************************************)
EXTENDS Integers, FiniteSets

CONSTANTS
  SourceIds, RequestIds, ApprovalIds, ProjectKeys, Roles, Processes,
  Scopes,          \* what callers may be allowed
  SourceInputs,    \* [projectId, classification, allowedRoles] to register
  ApprovalTerms,   \* [projectKey, metadataVersion, status, expiresAt, consumedAt]
  MaxVersion,      \* bound of metadata_version
  MaxDenials,      \* bound of the denied lookups that are recorded
  MaxTime,         \* bound of the clock
  None

Classifications == {"public", "internal", "confidential", "controlled"}
Operations == {"registry-search", "sourcecard-register", "sourcecard-update",
               "sourcerequest-create", "sourcerequest-resolve"}

(* auditable: actor, purpose and policy version are short, non-empty       *)
(* strings, as the audit log demands and the type of a scope does not.     *)
RegistryScope == [roles : SUBSET Roles, projectKeys : SUBSET ProjectKeys,
                  classificationAllowance : Classifications,
                  allowedOperations : SUBSET Operations, auditable : BOOLEAN]

ASSUME RegistryAssumption ==
  /\ Scopes \subseteq RegistryScope
  /\ SourceInputs \subseteq
       [projectId : ProjectKeys, classification : Classifications,
        allowedRoles : SUBSET Roles]
  /\ MaxVersion \in Nat /\ MaxDenials \in Nat /\ MaxTime \in Nat
  /\ ApprovalTerms \subseteq
       [projectKey : ProjectKeys, metadataVersion : Nat \ {0},
        status : {"pending", "approved", "rejected", "expired"}, expiresAt : Int,
        consumedAt : Int \cup {None}]
  /\ \A terms \in ApprovalTerms : terms.consumedAt # None => terms.status = "approved"
  /\ None \notin SourceIds /\ None \notin RequestIds /\ None \notin Int

VARIABLES
  cards,      \* source_cards, with source_card_roles
  fts,        \* source_cards_fts: the status each row of the index shows
  requests,   \* source_requests
  approvals,  \* approvals
  auditLog,   \* registry_audit_log: how many records there are of each kind
  pending,    \* process -> the request it has inserted and not yet audited
  unaudited,  \* requests whose creation will never be audited
  now         \* the clock

vars == <<cards, fts, requests, approvals, auditLog, pending, unaudited, now>>

-----------------------------------------------------------------------------
(* Rows.                                                                   *)

CardStatus == {"active", "stale", "missing", "superseded", "archived"}
Versions == Nat \ {0}

SourceCard == [projectId : ProjectKeys, classification : Classifications,
               allowedRoles : SUBSET Roles, status : CardStatus,
               supersedesSourceId : SourceIds \cup {None},
               metadataVersion : Versions]

SourceRequest == [projectId : ProjectKeys, status : {"open", "resolved", "cancelled"},
                  resolvedBySourceId : SourceIds \cup {None},
                  metadataVersion : Versions]

(* insertedConsumed is history: the approval came with its consumedAt.     *)
Approval ==
  { approval \in [sourceId : SourceIds, projectKey : ProjectKeys,
                  metadataVersion : Versions,
                  status : {"pending", "approved", "rejected", "expired"},
                  expiresAt : Int, consumedAt : Int \cup {None},
                  insertedConsumed : BOOLEAN] :
      /\ approval.consumedAt # None => approval.status = "approved"
      /\ approval.insertedConsumed => approval.consumedAt # None }

(* Rows that are there, and rows that are not.                             *)
NoRow == [status |-> "none"]
IsRow(row) == row # NoRow

AuditActions == {"source_registered", "source_lookup_not_found",
                 "source_request_created", "source_request_resolved",
                 "source_request_cancelled", "source_lifecycle_changed",
                 "source_archived"}
Entries(actions, sources, requestIds) ==
  [action : actions, sourceId : sources, requestId : requestIds]
AuditEntry ==
  Entries({"source_registered", "source_lifecycle_changed", "source_archived"},
          SourceIds, {None})
    \cup Entries({"source_lookup_not_found"}, {None}, {None})
    \cup Entries({"source_request_created", "source_request_cancelled"},
                 {None}, RequestIds)
    \cup Entries({"source_request_resolved"}, SourceIds, RequestIds)
Entry(action, s, q) == [action |-> action, sourceId |-> s, requestId |-> q]

TypeOK ==
  /\ cards \in [SourceIds -> SourceCard \cup {NoRow}]
  /\ fts \in [SourceIds -> CardStatus \cup {None}]
  /\ requests \in [RequestIds -> SourceRequest \cup {NoRow}]
  /\ approvals \in [ApprovalIds -> Approval \cup {NoRow}]
  /\ auditLog \in [AuditEntry -> Nat]
  /\ pending \in [Processes -> RequestIds \cup {None}]
  /\ unaudited \subseteq RequestIds
  /\ now \in Nat

Init ==
  /\ cards = [s \in SourceIds |-> NoRow]
  /\ fts = [s \in SourceIds |-> None]
  /\ requests = [q \in RequestIds |-> NoRow]
  /\ approvals = [a \in ApprovalIds |-> NoRow]
  /\ auditLog = [e \in AuditEntry |-> 0]
  /\ pending = [p \in Processes |-> None]
  /\ unaudited = {}
  /\ now = 0

-----------------------------------------------------------------------------
(* Authorization and audit.                                                *)

classificationRank ==
  [public |-> 0, internal |-> 1, confidential |-> 2, controlled |-> 3]
Cleared(scope, classification) ==
  classificationRank[classification] <= classificationRank[scope.classificationAllowance]

assertScope(scope, projectId, operation, classification) ==
  /\ operation \in scope.allowedOperations
  /\ projectId \in scope.projectKeys
  /\ Cleared(scope, classification)

visibleCards(scope, operation) ==
  {s \in SourceIds :
     /\ IsRow(cards[s]) /\ fts[s] # None
     /\ operation \in scope.allowedOperations
     /\ cards[s].projectId \in scope.projectKeys
     /\ Cleared(scope, cards[s].classification)
     /\ cards[s].allowedRoles \cap scope.roles # {}}

parseAuditMetadata(scope, entry) == scope.auditable /\ entry.action \in AuditActions

(* writeAudit: one more record.  The log is append-only.                   *)
\* Mutant: only registrations and requests are audited.
writeAudit_registrations(entry) ==
  auditLog' = [auditLog EXCEPT ![entry] =
                 IF entry.action = "source_lifecycle_changed" THEN @ ELSE @ + 1]
writeAudit(entry) == auditLog' = [auditLog EXCEPT ![entry] = @ + 1]
writeScopedAudit(scope, entry) ==
  /\ parseAuditMetadata(scope, entry)
  /\ writeAudit(entry)

-----------------------------------------------------------------------------
(* Source cards.                                                           *)

\* Mutant: a superseded card may be verified again.
allowedCardTransition_revive(from, to) ==
  \/ from \in {"active", "stale", "missing", "superseded"} /\ to = "archived"
  \/ from \in {"stale", "missing", "superseded"} /\ to = "active"
allowedCardTransition(from, to) ==
  to \in CASE from = "active" -> {"stale", "missing", "superseded", "archived"}
           [] from = "stale" -> {"active", "missing", "superseded", "archived"}
           [] from = "missing" -> {"active", "superseded", "archived"}
           [] from = "superseded" -> {"archived"}
           [] OTHER -> {}

(* updateCardStatus compares the version, raises it, and keeps the index   *)
(* in step.                                                                *)
Moved(card, to) ==
  [card EXCEPT !.status = to, !.metadataVersion = @ + 1]
\* Mutant: the index keeps the status the card was registered with.
Indexed_once(index, s, status) ==
  IF index[s] = None THEN [index EXCEPT ![s] = status] ELSE index
Indexed(index, s, status) == [index EXCEPT ![s] = status]

\* Mutant: the version in the WHERE clause is forgotten.
VersionMatches_any(card, expected) == TRUE
VersionMatches(card, expected) == card.metadataVersion = expected

updateCardStatus(s, to, expected) ==
  /\ VersionMatches(cards[s], expected)
  /\ cards' = [cards EXCEPT ![s] = Moved(@, to)]
  /\ fts' = Indexed(fts, s, to)

(* The cards that s supersedes, directly or not, and s itself.             *)
Lineage(s) ==
  LET up[n \in Nat] ==
        IF n = 0 THEN {s}
        ELSE up[n - 1] \cup
             {cards[x].supersedesSourceId : x \in {y \in up[n - 1] \ {None} : IsRow(cards[y])}}
  IN up[Cardinality(SourceIds)]
hasLineage(predecessor, candidate) == candidate \in Lineage(predecessor)

\* Mutant: any card that is not archived may be superseded (again).
EligiblePredecessor_notArchived(s, projectId) ==
  IsRow(cards[s]) /\ cards[s].projectId = projectId /\ cards[s].status # "archived"
EligiblePredecessor(s, projectId) ==
  /\ IsRow(cards[s])
  /\ cards[s].projectId = projectId
  /\ cards[s].status \in {"active", "stale", "missing"}

NewCard(input, predecessor) ==
  [projectId |-> input.projectId, classification |-> input.classification,
   allowedRoles |-> input.allowedRoles, status |-> "active",
   supersedesSourceId |-> predecessor, metadataVersion |-> 1]

(* A card that replaces none, or one that supersedes a predecessor of its  *)
(* project.                                                                *)
registerSource(s, input, scope) ==
  /\ ~IsRow(cards[s])
  /\ assertScope(scope, input.projectId, "sourcecard-register", input.classification)
  /\ \/ /\ cards' = [cards EXCEPT ![s] = NewCard(input, None)]
        /\ fts' = Indexed(fts, s, "active")
     \/ \E predecessor \in SourceIds :
          /\ EligiblePredecessor(predecessor, input.projectId)
          /\ ~hasLineage(predecessor, s)
          /\ cards[predecessor].metadataVersion < MaxVersion
          /\ cards' = [cards EXCEPT
               ![predecessor] = Moved(@, "superseded"),
               ![s] = NewCard(input, predecessor)]
          /\ fts' = Indexed(Indexed(fts, predecessor, "superseded"), s, "active")
  /\ writeScopedAudit(scope, Entry("source_registered", s, None))
  /\ UNCHANGED <<requests, approvals, pending, unaudited, now>>

(* A lookup that finds nothing it may show is itself recorded, without     *)
(* naming what was looked for.  One that finds the card changes nothing.   *)
findVisibleById(s, scope) ==
  LET denied == Entry("source_lookup_not_found", None, None) IN
  /\ s \notin visibleCards(scope, "sourcecard-update")
  /\ auditLog[denied] < MaxDenials
  /\ writeScopedAudit(scope, denied)
  /\ UNCHANGED <<cards, fts, requests, approvals, pending, unaudited, now>>

(* A card that is not visible is refused inside the transaction, and the   *)
(* record of the denied lookup is rolled back with it.                     *)
transitionCard(s, expected, to, scope) ==
  /\ s \in visibleCards(scope, "sourcecard-update")
  /\ VersionMatches(cards[s], expected)
  /\ cards[s].metadataVersion < MaxVersion
  /\ allowedCardTransition(cards[s].status, to)
  /\ updateCardStatus(s, to, expected)
  /\ writeScopedAudit(scope, Entry("source_lifecycle_changed", s, None))
  /\ UNCHANGED <<requests, approvals, pending, unaudited, now>>

-----------------------------------------------------------------------------
(* Archive approvals.                                                      *)

(* Approvals are recorded by somebody else, for whatever row and version   *)
(* they had in view; nobody ever changes their status afterwards.  An      *)
(* approved one may be inserted as consumed, at whatever time.  (One that  *)
(* is inserted with another hash than its own permits nothing, like one    *)
(* that has expired.)                                                      *)
insertApproval(a) ==
  /\ ~IsRow(approvals[a])
  /\ \E s \in SourceIds, terms \in ApprovalTerms :
       approvals' = [approvals EXCEPT ![a] =
         [sourceId |-> s, projectKey |-> terms.projectKey,
          metadataVersion |-> terms.metadataVersion, status |-> terms.status,
          expiresAt |-> terms.expiresAt, consumedAt |-> terms.consumedAt,
          insertedConsumed |-> terms.consumedAt # None]]
  /\ UNCHANGED <<cards, fts, requests, auditLog, pending, unaudited, now>>

archiveApproved(s, expected) ==
  /\ IsRow(cards[s])
  /\ allowedCardTransition(cards[s].status, "archived")
  /\ VersionMatches(cards[s], expected)
  /\ cards[s].metadataVersion < MaxVersion
  /\ updateCardStatus(s, "archived", expected)

Usable(approval) ==
  /\ approval.status = "approved"
  /\ approval.consumedAt = None
  /\ now < approval.expiresAt

(* The command names the card, the project and the version; its hash is    *)
(* the hash of just these, so they are compared one by one.  (That the     *)
(* card belongs to the project of the approval is not looked at.)          *)
consume(a, s, k, expected) ==
  /\ IsRow(approvals[a])
  /\ approvals[a].sourceId = s
  /\ approvals[a].projectKey = k
  /\ approvals[a].metadataVersion = expected
  /\ Usable(approvals[a])
  /\ approvals' = [approvals EXCEPT ![a].consumedAt = now]
  /\ archiveApproved(s, expected)
  /\ writeAudit(Entry("source_archived", s, None))
  /\ UNCHANGED <<requests, pending, unaudited, now>>

-----------------------------------------------------------------------------
(* Source requests.                                                        *)

(* The row first, and the record of it in a statement of its own.          *)
createRequest(p, q, k, scope) ==
  /\ pending[p] = None
  /\ ~IsRow(requests[q])
  /\ assertScope(scope, k, "sourcerequest-create", "public")
  /\ requests' = [requests EXCEPT ![q] =
       [projectId |-> k, status |-> "open", resolvedBySourceId |-> None,
        metadataVersion |-> 1]]
  /\ IF parseAuditMetadata(scope, Entry("source_request_created", None, q))
     THEN pending' = [pending EXCEPT ![p] = q] /\ UNCHANGED unaudited
     ELSE unaudited' = unaudited \cup {q} /\ UNCHANGED pending
  /\ UNCHANGED <<cards, fts, approvals, auditLog, now>>

auditRequest(p) ==
  /\ pending[p] # None
  /\ writeAudit(Entry("source_request_created", None, pending[p]))
  /\ pending' = [pending EXCEPT ![p] = None]
  /\ UNCHANGED <<cards, fts, requests, approvals, unaudited, now>>

(* The second statement is refused, or the process dies before it.         *)
loseAudit(p) ==
  /\ pending[p] # None
  /\ unaudited' = unaudited \cup {pending[p]}
  /\ pending' = [pending EXCEPT ![p] = None]
  /\ UNCHANGED <<cards, fts, requests, approvals, auditLog, now>>

OpenAt(request, expected) ==
  /\ IsRow(request)
  /\ request.status = "open"
  /\ request.metadataVersion = expected

Resolvable(s, projectId) ==
  IsRow(cards[s]) /\ cards[s].projectId = projectId /\ cards[s].status # "archived"

Closed(q, status, s) ==
  [requests EXCEPT ![q].status = status, ![q].resolvedBySourceId = s,
                   ![q].metadataVersion = @ + 1]

resolveRequest(q, expected, s, scope) ==
  /\ OpenAt(requests[q], expected)
  /\ requests[q].metadataVersion < MaxVersion
  /\ assertScope(scope, requests[q].projectId, "sourcerequest-resolve", "public")
  /\ Resolvable(s, requests[q].projectId)
  /\ requests' = Closed(q, "resolved", s)
  /\ writeScopedAudit(scope, Entry("source_request_resolved", s, q))
  /\ UNCHANGED <<cards, fts, approvals, pending, unaudited, now>>

cancelRequest(q, expected, scope) ==
  /\ OpenAt(requests[q], expected)
  /\ requests[q].metadataVersion < MaxVersion
  /\ assertScope(scope, requests[q].projectId, "sourcerequest-resolve", "public")
  /\ requests' = Closed(q, "cancelled", None)
  /\ writeScopedAudit(scope, Entry("source_request_cancelled", None, q))
  /\ UNCHANGED <<cards, fts, approvals, pending, unaudited, now>>

Tick ==
  /\ now < MaxTime
  /\ now' = now + 1
  /\ UNCHANGED <<cards, fts, requests, approvals, auditLog, pending, unaudited>>

-----------------------------------------------------------------------------
Next ==
  \/ \E s \in SourceIds, scope \in Scopes :
       \/ \E input \in SourceInputs : registerSource(s, input, scope)
       \/ findVisibleById(s, scope)
       \/ \E v \in 1 .. MaxVersion, to \in CardStatus : transitionCard(s, v, to, scope)
  \/ \E a \in ApprovalIds :
       \/ insertApproval(a)
       \/ \E s \in SourceIds, k \in ProjectKeys, v \in 1 .. MaxVersion : consume(a, s, k, v)
  \/ \E p \in Processes :
       \/ \E q \in RequestIds, k \in ProjectKeys, scope \in Scopes :
            createRequest(p, q, k, scope)
       \/ auditRequest(p)
       \/ loseAudit(p)
  \/ \E q \in RequestIds, v \in 1 .. MaxVersion, scope \in Scopes :
       \/ \E s \in SourceIds : resolveRequest(q, v, s, scope)
       \/ cancelRequest(q, v, scope)
  \/ Tick

Spec == Init /\ [][Next]_vars

-----------------------------------------------------------------------------
(* Correctness.  (TypeOK, above, is the type invariant.)                   *)

(* The status a search filters and shows is the status of the card:        *)
(* registration, supersession, verification and archiving write both       *)
(* tables (arca-registry-repository.ts:467-485).                           *)
IndexAgrees ==
  \A s \in SourceIds :
    fts[s] = IF IsRow(cards[s]) THEN cards[s].status ELSE None

(* The registry's two tables are of their type and agree.                  *)
RegistryConsistent == TypeOK /\ IndexAgrees

Successors(s) ==
  {t \in SourceIds : IsRow(cards[t]) /\ cards[t].supersedesSourceId = s}

(* A card has at most one successor, of its own project, and is out of use *)
(* from the moment it has one: whichever of two registrations comes second *)
(* is refused, and no verification brings a superseded card back           *)
(* (arca-registry-repository.ts:103-123).                                  *)
LineageDoesNotFork ==
  \A s, t \in SourceIds :
    t \in Successors(s) =>
      /\ Successors(s) = {t}
      /\ IsRow(cards[s]) /\ cards[s].projectId = cards[t].projectId
      /\ cards[s].status \in {"superseded", "archived"}

(* The version of a card counts its history: every accepted change raised  *)
(* it by exactly one and left exactly one record in the audit log, on the  *)
(* card itself or on the successor that was registered                     *)
(* (LC-005; arca-registry-repository.ts:305-341, 467-485).                 *)
VersionCountsTheHistory ==
  \A s \in SourceIds :
    LET recorded(action) == auditLog[Entry(action, s, None)] IN
      /\ recorded("source_registered") = IF IsRow(cards[s]) THEN 1 ELSE 0
      /\ IsRow(cards[s]) =>
           cards[s].metadataVersion =
             1 + recorded("source_lifecycle_changed") + recorded("source_archived")
               + IF Successors(s) = {} THEN 0 ELSE 1

(* Consumed here, and not before it was inserted.                          *)
Spent(a) ==
  /\ IsRow(approvals[a])
  /\ approvals[a].consumedAt # None /\ ~approvals[a].insertedConsumed

(* An approval that is consumed is spent on the one archiving it was given for: in time, of *)
(* the version that was approved, recorded once, and by no other approval, *)
(* however the commands, the verifications and the supersessions of the    *)
(* card are interleaved (arca-archive-approval-consumer.ts:38-82).         *)
ApprovalIsSpentOnItsArchive ==
  \A a \in ApprovalIds :
    Spent(a) =>
      LET s == approvals[a].sourceId IN
        /\ approvals[a].status = "approved"
        /\ approvals[a].consumedAt < approvals[a].expiresAt
        /\ IsRow(cards[s]) /\ cards[s].status = "archived"
        /\ cards[s].metadataVersion = approvals[a].metadataVersion + 1
        /\ auditLog[Entry("source_archived", s, None)] = 1
        /\ \A b \in ApprovalIds : Spent(b) /\ approvals[b].sourceId = s => b = a

(* Every request is closed at most once, for a source of its own project,  *)
(* with one record of the closing; and its creation is recorded unless the *)
(* second statement was never made (arca-registry-repository.ts:173-303).  *)
RequestsAreAccounted ==
  \A q \in RequestIds :
    LET row == requests[q]
        created == auditLog[Entry("source_request_created", None, q)]
        resolved(s) == auditLog[Entry("source_request_resolved", s, q)]
        cancelled == auditLog[Entry("source_request_cancelled", None, q)]
    IN /\ created = IF /\ IsRow(row) /\ q \notin unaudited
                       /\ \A p \in Processes : pending[p] # q
                    THEN 1 ELSE 0
       /\ \A s \in SourceIds :
            resolved(s) = IF IsRow(row) /\ row.resolvedBySourceId = s THEN 1 ELSE 0
       /\ cancelled = IF row.status = "cancelled" THEN 1 ELSE 0
       /\ IsRow(row) =>
            /\ row.metadataVersion = IF row.status = "open" THEN 1 ELSE 2
            /\ (row.status = "resolved") <=> (row.resolvedBySourceId # None)
            /\ row.status = "resolved" =>
                 /\ IsRow(cards[row.resolvedBySourceId])
                 /\ cards[row.resolvedBySourceId].projectId = row.projectId

(* The audit log tells the history of the cards and of the requests: their *)
(* versions and closings can be recomputed from it.                        *)
AuditTellsTheHistory == VersionCountsTheHistory /\ RequestsAreAccounted

(* The identity of a card never changes and its status only moves on: out  *)
(* of use stays out of use, and archived is the end                        *)
(* (arca-registry-repository.ts:646-656).                                  *)
CardsMoveOn ==
  [][\A s \in SourceIds :
       IsRow(cards[s]) =>
         /\ IsRow(cards'[s])
         /\ \A field \in {"projectId", "classification", "allowedRoles",
                          "supersedesSourceId"} : cards'[s][field] = cards[s][field]
         /\ cards[s].status = "superseded" => cards'[s].status \in {"superseded", "archived"}
         /\ cards[s].status = "archived" => cards'[s] = cards[s]]_vars

-----------------------------------------------------------------------------
(* An approval as a permission that is used once: given, if it is an       *)
(* approved one and not consumed already, for archiving a version of a     *)
(* card until it expires; one inserted as consumed permits nothing.  What  *)
(* an approval permits is counted by the audit log, for the version that   *)
(* the card had when it was archived.                                      *)
Archivings ==
  SourceIds \X (1 .. MaxVersion \cup { terms.metadataVersion : terms \in ApprovalTerms })

approvalTerms ==
  [a \in ApprovalIds |->
     IF IsRow(approvals[a]) /\ approvals[a].status = "approved"
          /\ ~approvals[a].insertedConsumed
     THEN [purpose |-> <<approvals[a].sourceId, approvals[a].metadataVersion>>,
           until |-> approvals[a].expiresAt]
     ELSE NoRow]

ArchivedAt(s, v) == IsRow(cards[s]) /\ cards[s].metadataVersion = v + 1

archived ==
  [x \in Archivings |->
     IF ArchivedAt(x[1], x[2]) THEN auditLog[Entry("source_archived", x[1], None)] ELSE 0]

Permission == INSTANCE SingleUse WITH
  Tokens <- ApprovalIds, Purposes <- Archivings, None <- NoRow,
  granted <- approvalTerms, spent <- { a \in ApprovalIds : Spent(a) }, done <- archived

(* The archivings that the audit log has are those that an approval was    *)
(* spent on, each by an approval of its own, for that version, in time     *)
(* (arca-archive-approval-consumer.ts:38-82).                              *)
ApprovalsAreSingleUse == Permission!Spec

\* No operation takes anything back: a card that is out of use stays out of use,
\* an archived one is archived for ever, and an approval once spent is spent
\* (arca-registry-repository.ts:208-332, arca-archive-approval-consumer.ts:38-82).
NothingIsTakenBack == CardsMoveOn /\ ApprovalsAreSingleUse
=============================================================================
