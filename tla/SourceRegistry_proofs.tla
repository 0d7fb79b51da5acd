----------------------- MODULE SourceRegistry_proofs -----------------------
(***************************************************************************)
(* Proofs about the source registry, for any cards, requests, approvals,   *)
(* callers and processes.  The lineage, the audit log and the approvals    *)
(* hold each other up: that an approval finds its card unarchived needs    *)
(* the log, the counting of the log needs that a card is superseded once,  *)
(* and that needs the lineage.                                             *)
(***************************************************************************)
EXTENDS SourceRegistry, TLAPS

(* Records of the log, by their kind.                                      *)
Registered(log, s) == log[Entry("source_registered", s, None)]
Changed(log, s) == log[Entry("source_lifecycle_changed", s, None)]
Archived(log, s) == log[Entry("source_archived", s, None)]
Created(log, q) == log[Entry("source_request_created", None, q)]
Resolved(log, s, q) == log[Entry("source_request_resolved", s, q)]
Cancelled(log, q) == log[Entry("source_request_cancelled", None, q)]

(* What the log says of a card before its first change, and before its end.*)
NoHistory ==
  \A s \in SourceIds :
    /\ ~IsRow(cards[s]) => Changed(auditLog, s) = 0
    /\ cards[s].status # "archived" => Archived(auditLog, s) = 0

(* A request somebody is about to audit is there, is nobody else's, and    *)
(* has not been given up.                                                  *)
PendingIsOwned ==
  /\ \A p \in Processes : pending[p] # None =>
       /\ IsRow(requests[pending[p]]) /\ pending[p] \notin unaudited
       /\ \A o \in Processes : pending[o] = pending[p] => o = p
  /\ \A q \in unaudited : IsRow(requests[q])

-----------------------------------------------------------------------------
(* Rows.                                                                   *)

LEMMA CardRow ==
  ASSUME NEW row \in SourceCard \cup {NoRow}
  PROVE  /\ IsRow(row) <=> row \in SourceCard
         /\ IsRow(row) <=> row.status \in CardStatus
         /\ IsRow(row) <=> row.status # "none"
  BY DEF SourceCard, NoRow, IsRow, CardStatus

LEMMA RequestRow ==
  ASSUME NEW row \in SourceRequest \cup {NoRow}
  PROVE  /\ IsRow(row) <=> row \in SourceRequest
         /\ IsRow(row) <=> row.status # "none"
  BY DEF SourceRequest, NoRow, IsRow

LEMMA ApprovalRow ==
  ASSUME NEW row \in Approval \cup {NoRow}
  PROVE  IsRow(row) <=> row \in Approval
  BY DEF Approval, NoRow, IsRow

LEMMA MovedRow ==
  ASSUME NEW card \in SourceCard, NEW to \in CardStatus
  PROVE  /\ Moved(card, to) \in SourceCard
         /\ Moved(card, to).status = to
         /\ Moved(card, to).metadataVersion = card.metadataVersion + 1
         /\ Moved(card, to).projectId = card.projectId
         /\ Moved(card, to).classification = card.classification
         /\ Moved(card, to).allowedRoles = card.allowedRoles
         /\ Moved(card, to).supersedesSourceId = card.supersedesSourceId
  <1>1. card.metadataVersion + 1 \in Versions
    BY DEF SourceCard, Versions
  <1>2. Moved(card, to) \in SourceCard
    BY <1>1 DEF Moved, SourceCard
  <1>3. /\ Moved(card, to).status = to
        /\ Moved(card, to).metadataVersion = card.metadataVersion + 1
    BY DEF Moved, SourceCard
  <1>4. /\ Moved(card, to).projectId = card.projectId
        /\ Moved(card, to).classification = card.classification
        /\ Moved(card, to).allowedRoles = card.allowedRoles
        /\ Moved(card, to).supersedesSourceId = card.supersedesSourceId
    BY DEF Moved, SourceCard
  <1> QED BY <1>2, <1>3, <1>4

LEMMA NewCardRow ==
  ASSUME NEW input \in SourceInputs, NEW predecessor \in SourceIds \cup {None}
  PROVE  /\ NewCard(input, predecessor) \in SourceCard
         /\ NewCard(input, predecessor).status = "active"
         /\ NewCard(input, predecessor).metadataVersion = 1
         /\ NewCard(input, predecessor).projectId = input.projectId
         /\ NewCard(input, predecessor).supersedesSourceId = predecessor
  <1>1. input \in [projectId : ProjectKeys, classification : Classifications,
                   allowedRoles : SUBSET Roles]
    BY RegistryAssumption
  <1> QED BY <1>1 DEF NewCard, SourceCard, CardStatus, Versions

-----------------------------------------------------------------------------
(* The audit log.                                                          *)

LEMMA EntriesDiffer ==
  ASSUME NEW a, NEW s, NEW q, NEW b, NEW t, NEW r
  PROVE  Entry(a, s, q) = Entry(b, t, r) <=> a = b /\ s = t /\ q = r
  BY DEF Entry

LEMMA EntriesAreTyped ==
  /\ \A s \in SourceIds :
       /\ Entry("source_registered", s, None) \in AuditEntry
       /\ Entry("source_lifecycle_changed", s, None) \in AuditEntry
       /\ Entry("source_archived", s, None) \in AuditEntry
  /\ Entry("source_lookup_not_found", None, None) \in AuditEntry
  /\ \A q \in RequestIds :
       /\ Entry("source_request_created", None, q) \in AuditEntry
       /\ Entry("source_request_cancelled", None, q) \in AuditEntry
       /\ \A s \in SourceIds : Entry("source_request_resolved", s, q) \in AuditEntry
  BY DEF Entry, Entries, AuditEntry

LEMMA LogWritten ==
  ASSUME auditLog \in [AuditEntry -> Nat], NEW e \in AuditEntry, writeAudit(e)
  PROVE  /\ auditLog' \in [AuditEntry -> Nat]
         /\ \A x \in AuditEntry : x # e => auditLog'[x] = auditLog[x]
         /\ auditLog'[e] = auditLog[e] + 1
  BY DEF writeAudit

SameCards(log, next) ==
  \A s \in SourceIds :
    /\ Registered(next, s) = Registered(log, s)
    /\ Changed(next, s) = Changed(log, s)
    /\ Archived(next, s) = Archived(log, s)
SameRequests(log, next) ==
  \A q \in RequestIds :
    /\ Created(next, q) = Created(log, q)
    /\ Cancelled(next, q) = Cancelled(log, q)
    /\ \A s \in SourceIds : Resolved(next, s, q) = Resolved(log, s, q)

(* A record of a card or of a denied lookup says nothing of a request...   *)
LEMMA CardRecorded ==
  ASSUME auditLog \in [AuditEntry -> Nat],
         NEW action \in {"source_registered", "source_lifecycle_changed",
                         "source_archived", "source_lookup_not_found"},
         NEW s \in SourceIds \cup {None}, Entry(action, s, None) \in AuditEntry,
         writeAudit(Entry(action, s, None))
  PROVE  /\ auditLog' \in [AuditEntry -> Nat]
         /\ SameRequests(auditLog, auditLog')
         /\ \A t \in SourceIds :
              /\ Registered(auditLog', t) = IF action = "source_registered" /\ s = t
                   THEN Registered(auditLog, t) + 1 ELSE Registered(auditLog, t)
              /\ Changed(auditLog', t) = IF action = "source_lifecycle_changed" /\ s = t
                   THEN Changed(auditLog, t) + 1 ELSE Changed(auditLog, t)
              /\ Archived(auditLog', t) = IF action = "source_archived" /\ s = t
                   THEN Archived(auditLog, t) + 1 ELSE Archived(auditLog, t)
  <1> DEFINE e == Entry(action, s, None)
  <1>1. /\ auditLog' \in [AuditEntry -> Nat]
        /\ \A x \in AuditEntry : x # e => auditLog'[x] = auditLog[x]
        /\ auditLog'[e] = auditLog[e] + 1
    BY LogWritten
  <1> HIDE DEF e
  <1>2. SameRequests(auditLog, auditLog')
    <2> SUFFICES ASSUME NEW q \in RequestIds
                 PROVE  /\ Created(auditLog', q) = Created(auditLog, q)
                        /\ Cancelled(auditLog', q) = Cancelled(auditLog, q)
                        /\ \A t \in SourceIds :
                             Resolved(auditLog', t, q) = Resolved(auditLog, t, q)
      BY DEF SameRequests
    <2>1. /\ Entry("source_request_created", None, q) # e
          /\ Entry("source_request_cancelled", None, q) # e
          /\ \A t \in SourceIds : Entry("source_request_resolved", t, q) # e
      BY EntriesDiffer DEF e
    <2> QED BY <1>1, <2>1, EntriesAreTyped DEF Created, Cancelled, Resolved
  <1>3. ASSUME NEW t \in SourceIds
        PROVE  /\ Registered(auditLog', t) = IF action = "source_registered" /\ s = t
                    THEN Registered(auditLog, t) + 1 ELSE Registered(auditLog, t)
               /\ Changed(auditLog', t) = IF action = "source_lifecycle_changed" /\ s = t
                    THEN Changed(auditLog, t) + 1 ELSE Changed(auditLog, t)
               /\ Archived(auditLog', t) = IF action = "source_archived" /\ s = t
                    THEN Archived(auditLog, t) + 1 ELSE Archived(auditLog, t)
    <2>1. /\ Entry("source_registered", t, None) = e <=> action = "source_registered" /\ s = t
          /\ Entry("source_lifecycle_changed", t, None) = e
               <=> action = "source_lifecycle_changed" /\ s = t
          /\ Entry("source_archived", t, None) = e <=> action = "source_archived" /\ s = t
      BY EntriesDiffer DEF e
    <2> QED BY <1>1, <2>1, EntriesAreTyped DEF Registered, Changed, Archived
  <1> QED BY <1>1, <1>2, <1>3

(* ... and the other way round.                                            *)
LEMMA RequestRecorded ==
  ASSUME auditLog \in [AuditEntry -> Nat],
         NEW action \in {"source_request_created", "source_request_resolved",
                         "source_request_cancelled"},
         NEW s \in SourceIds \cup {None}, NEW q \in RequestIds,
         Entry(action, s, q) \in AuditEntry, writeAudit(Entry(action, s, q))
  PROVE  /\ auditLog' \in [AuditEntry -> Nat]
         /\ SameCards(auditLog, auditLog')
         /\ \A r \in RequestIds :
              /\ Created(auditLog', r) =
                   IF action = "source_request_created" /\ s = None /\ q = r
                   THEN Created(auditLog, r) + 1 ELSE Created(auditLog, r)
              /\ Cancelled(auditLog', r) =
                   IF action = "source_request_cancelled" /\ s = None /\ q = r
                   THEN Cancelled(auditLog, r) + 1 ELSE Cancelled(auditLog, r)
              /\ \A t \in SourceIds : Resolved(auditLog', t, r) =
                   IF action = "source_request_resolved" /\ s = t /\ q = r
                   THEN Resolved(auditLog, t, r) + 1 ELSE Resolved(auditLog, t, r)
  <1> DEFINE e == Entry(action, s, q)
  <1>1. /\ auditLog' \in [AuditEntry -> Nat]
        /\ \A x \in AuditEntry : x # e => auditLog'[x] = auditLog[x]
        /\ auditLog'[e] = auditLog[e] + 1
    BY LogWritten
  <1> HIDE DEF e
  <1>2. SameCards(auditLog, auditLog')
    <2> SUFFICES ASSUME NEW t \in SourceIds
                 PROVE  /\ Registered(auditLog', t) = Registered(auditLog, t)
                        /\ Changed(auditLog', t) = Changed(auditLog, t)
                        /\ Archived(auditLog', t) = Archived(auditLog, t)
      BY DEF SameCards
    <2>1. /\ Entry("source_registered", t, None) # e
          /\ Entry("source_lifecycle_changed", t, None) # e
          /\ Entry("source_archived", t, None) # e
      BY EntriesDiffer DEF e
    <2> QED BY <1>1, <2>1, EntriesAreTyped DEF Registered, Changed, Archived
  <1>3. ASSUME NEW r \in RequestIds
        PROVE  /\ Created(auditLog', r) =
                    IF action = "source_request_created" /\ s = None /\ q = r
                    THEN Created(auditLog, r) + 1 ELSE Created(auditLog, r)
               /\ Cancelled(auditLog', r) =
                    IF action = "source_request_cancelled" /\ s = None /\ q = r
                    THEN Cancelled(auditLog, r) + 1 ELSE Cancelled(auditLog, r)
               /\ \A t \in SourceIds : Resolved(auditLog', t, r) =
                    IF action = "source_request_resolved" /\ s = t /\ q = r
                    THEN Resolved(auditLog, t, r) + 1 ELSE Resolved(auditLog, t, r)
    <2>1. /\ Entry("source_request_created", None, r) = e
               <=> action = "source_request_created" /\ s = None /\ q = r
          /\ Entry("source_request_cancelled", None, r) = e
               <=> action = "source_request_cancelled" /\ s = None /\ q = r
          /\ \A t \in SourceIds : Entry("source_request_resolved", t, r) = e
               <=> action = "source_request_resolved" /\ s = t /\ q = r
      BY EntriesDiffer DEF e
    <2> QED BY <1>1, <2>1, EntriesAreTyped DEF Created, Cancelled, Resolved
  <1> QED BY <1>1, <1>2, <1>3

-----------------------------------------------------------------------------
(* What holds of the cards, the index and the card records.                *)

Shelf == IndexAgrees /\ LineageDoesNotFork /\ VersionCountsTheHistory /\ NoHistory

LEMMA CardTransitions ==
  ASSUME NEW from \in CardStatus, NEW to, allowedCardTransition(from, to)
  PROVE  /\ to \in CardStatus /\ from # "archived"
         /\ from = "superseded" => to = "archived"
  BY DEF allowedCardTransition, CardStatus

LEMMA CardMoved ==
  ASSUME TypeOK, NEW s \in SourceIds, NEW to \in CardStatus, NEW v,
         IsRow(cards[s]), updateCardStatus(s, to, v)
  PROVE  /\ cards' \in [SourceIds -> SourceCard \cup {NoRow}]
         /\ fts' \in [SourceIds -> CardStatus \cup {None}]
         /\ \A t \in SourceIds \ {s} : cards'[t] = cards[t] /\ fts'[t] = fts[t]
         /\ cards'[s] = Moved(cards[s], to) /\ IsRow(cards'[s])
         /\ fts'[s] = to
  <1>1. cards[s] \in SourceCard
    BY CardRow DEF TypeOK
  <1>2. Moved(cards[s], to) \in SourceCard /\ IsRow(Moved(cards[s], to))
    BY <1>1, MovedRow, CardRow
  <1>3. cards' = [cards EXCEPT ![s] = Moved(cards[s], to)] /\ fts' = [fts EXCEPT ![s] = to]
    BY DEF updateCardStatus, Indexed
  <1> QED BY <1>2, <1>3 DEF TypeOK

(* Cards that keep their identity, and stay out of use once they are,      *)
(* keep the lineage.                                                       *)
LEMMA LineageKept ==
  ASSUME LineageDoesNotFork,
         \A t \in SourceIds :
           /\ IsRow(cards'[t]) <=> IsRow(cards[t])
           /\ IsRow(cards[t]) =>
                /\ cards'[t].supersedesSourceId = cards[t].supersedesSourceId
                /\ cards'[t].projectId = cards[t].projectId
                /\ cards[t].status \in {"superseded", "archived"} =>
                     cards'[t].status \in {"superseded", "archived"}
  PROVE  LineageDoesNotFork' /\ \A s \in SourceIds : Successors(s)' = Successors(s)
  <1>1. \A s \in SourceIds : Successors(s)' = Successors(s)
    BY DEF Successors
  <1>2. \A t \in SourceIds : \A s \in SourceIds : t \in Successors(s) => IsRow(cards[t])
    BY DEF Successors
  <1>3. LineageDoesNotFork'
    BY <1>1, <1>2 DEF LineageDoesNotFork
  <1> QED BY <1>1, <1>3

LEMMA ShelfMoved ==
  ASSUME TypeOK, Shelf, NEW s \in SourceIds, NEW to \in CardStatus, NEW v,
         IsRow(cards[s]), updateCardStatus(s, to, v),
         cards[s].status # "archived",
         cards[s].status = "superseded" => to = "archived",
         NEW action \in {"source_lifecycle_changed", "source_archived"},
         action = "source_archived" => to = "archived",
         writeAudit(Entry(action, s, None))
  PROVE  Shelf'
  <1>1. /\ \A t \in SourceIds \ {s} : cards'[t] = cards[t] /\ fts'[t] = fts[t]
        /\ cards'[s] = Moved(cards[s], to) /\ IsRow(cards'[s])
        /\ fts'[s] = to
    BY CardMoved
  <1>2. /\ cards[s] \in SourceCard
        /\ cards'[s].status = to
        /\ cards'[s].metadataVersion = cards[s].metadataVersion + 1
        /\ cards'[s].projectId = cards[s].projectId
        /\ cards'[s].supersedesSourceId = cards[s].supersedesSourceId
    BY <1>1, CardRow, MovedRow DEF TypeOK
  <1>3. LineageDoesNotFork' /\ \A t \in SourceIds : Successors(t)' = Successors(t)
    <2>1. ASSUME NEW t \in SourceIds
          PROVE  /\ IsRow(cards'[t]) <=> IsRow(cards[t])
                 /\ IsRow(cards[t]) =>
                      /\ cards'[t].supersedesSourceId = cards[t].supersedesSourceId
                      /\ cards'[t].projectId = cards[t].projectId
                      /\ cards[t].status \in {"superseded", "archived"} =>
                           cards'[t].status \in {"superseded", "archived"}
      BY <1>1, <1>2
    <2> QED BY <2>1, LineageKept DEF Shelf
  <1>4. IndexAgrees'
    BY <1>1, <1>2 DEF Shelf, IndexAgrees
  <1>5. \A t \in SourceIds :
          /\ Registered(auditLog', t) = Registered(auditLog, t)
          /\ Changed(auditLog', t) = IF action = "source_lifecycle_changed" /\ s = t
               THEN Changed(auditLog, t) + 1 ELSE Changed(auditLog, t)
          /\ Archived(auditLog', t) = IF action = "source_archived" /\ s = t
               THEN Archived(auditLog, t) + 1 ELSE Archived(auditLog, t)
    BY CardRecorded, EntriesAreTyped DEF TypeOK
  <1>6. \A t \in SourceIds : Registered(auditLog, t) \in Nat /\ Changed(auditLog, t) \in Nat
                               /\ Archived(auditLog, t) \in Nat
    BY EntriesAreTyped DEF TypeOK, Registered, Changed, Archived
  <1>7. NoHistory'
    <2>1. NoHistory BY DEF Shelf
    <2> QED BY <2>1, <1>1, <1>2, <1>5 DEF NoHistory
  <1>8. VersionCountsTheHistory'
    <2> SUFFICES ASSUME NEW t \in SourceIds
                 PROVE  /\ Registered(auditLog', t) = IF IsRow(cards'[t]) THEN 1 ELSE 0
                        /\ IsRow(cards'[t]) =>
                             cards'[t].metadataVersion =
                               1 + Changed(auditLog', t) + Archived(auditLog', t)
                                 + IF Successors(t)' = {} THEN 0 ELSE 1
      BY DEF VersionCountsTheHistory, Registered, Changed, Archived
    <2>1. /\ Registered(auditLog, t) = IF IsRow(cards[t]) THEN 1 ELSE 0
          /\ IsRow(cards[t]) =>
               cards[t].metadataVersion =
                 1 + Changed(auditLog, t) + Archived(auditLog, t)
                   + IF Successors(t) = {} THEN 0 ELSE 1
      BY DEF Shelf, VersionCountsTheHistory, Registered, Changed, Archived
    <2> QED BY <2>1, <1>1, <1>2, <1>3, <1>5, <1>6
  <1> QED BY <1>3, <1>4, <1>7, <1>8 DEF Shelf

(* What a registration does to the cards: s is new, and the predecessor,   *)
(* if there is one, is superseded.                                         *)
Shelved(s, input, predecessor) ==
  /\ cards'[s] = NewCard(input, predecessor) /\ fts'[s] = "active"
  /\ \A t \in SourceIds \ {s, predecessor} : cards'[t] = cards[t] /\ fts'[t] = fts[t]
  /\ predecessor # None =>
       /\ predecessor \in SourceIds \ {s}
       /\ EligiblePredecessor(predecessor, input.projectId)
       /\ cards'[predecessor] = Moved(cards[predecessor], "superseded")
       /\ fts'[predecessor] = "superseded"

LEMMA Shelving ==
  ASSUME TypeOK, NEW s \in SourceIds, NEW input \in SourceInputs, NEW scope,
         registerSource(s, input, scope)
  PROVE  /\ cards' \in [SourceIds -> SourceCard \cup {NoRow}]
         /\ fts' \in [SourceIds -> CardStatus \cup {None}]
         /\ ~IsRow(cards[s])
         /\ writeAudit(Entry("source_registered", s, None))
         /\ \E predecessor \in SourceIds \cup {None} : Shelved(s, input, predecessor)
  <1>1. /\ ~IsRow(cards[s]) /\ writeAudit(Entry("source_registered", s, None))
    BY DEF registerSource, writeScopedAudit
  <1>2. CASE /\ cards' = [cards EXCEPT ![s] = NewCard(input, None)]
             /\ fts' = Indexed(fts, s, "active")
    <2>1. NewCard(input, None) \in SourceCard
      BY NewCardRow
    <2>2. /\ cards' \in [SourceIds -> SourceCard \cup {NoRow}]
          /\ cards'[s] = NewCard(input, None)
          /\ \A t \in SourceIds \ {s} : cards'[t] = cards[t]
      BY <1>2, <2>1 DEF TypeOK
    <2>3. /\ fts' \in [SourceIds -> CardStatus \cup {None}]
          /\ fts'[s] = "active"
          /\ \A t \in SourceIds \ {s} : fts'[t] = fts[t]
      BY <1>2 DEF TypeOK, Indexed, CardStatus
    <2> QED BY <1>1, <2>2, <2>3 DEF Shelved
  <1>3. CASE \E predecessor \in SourceIds :
               /\ EligiblePredecessor(predecessor, input.projectId)
               /\ cards' = [cards EXCEPT
                    ![predecessor] = Moved(@, "superseded"),
                    ![s] = NewCard(input, predecessor)]
               /\ fts' = Indexed(Indexed(fts, predecessor, "superseded"), s, "active")
    <2>1. PICK predecessor \in SourceIds :
            /\ EligiblePredecessor(predecessor, input.projectId)
            /\ cards' = [cards EXCEPT
                 ![predecessor] = Moved(@, "superseded"),
                 ![s] = NewCard(input, predecessor)]
            /\ fts' = Indexed(Indexed(fts, predecessor, "superseded"), s, "active")
      BY <1>3
    <2>2. predecessor # s /\ predecessor # None /\ cards[predecessor] \in SourceCard
      BY <1>1, <2>1, CardRow, RegistryAssumption DEF EligiblePredecessor, TypeOK
    <2>3. /\ NewCard(input, predecessor) \in SourceCard
          /\ Moved(cards[predecessor], "superseded") \in SourceCard
      BY <2>2, NewCardRow, MovedRow DEF CardStatus
    <2>4. /\ cards' \in [SourceIds -> SourceCard \cup {NoRow}]
          /\ cards'[s] = NewCard(input, predecessor)
          /\ cards'[predecessor] = Moved(cards[predecessor], "superseded")
          /\ \A t \in SourceIds \ {s, predecessor} : cards'[t] = cards[t]
      BY <2>1, <2>2, <2>3 DEF TypeOK
    <2>5. /\ fts' \in [SourceIds -> CardStatus \cup {None}]
          /\ fts'[s] = "active"
          /\ fts'[predecessor] = "superseded"
          /\ \A t \in SourceIds \ {s, predecessor} : fts'[t] = fts[t]
      BY <2>1, <2>2 DEF TypeOK, Indexed, CardStatus
    <2>6. Shelved(s, input, predecessor)
      BY <2>1, <2>2, <2>4, <2>5 DEF Shelved
    <2> QED BY <1>1, <2>4, <2>5, <2>6
  <1> QED BY <1>2, <1>3 DEF registerSource

LEMMA ShelfRegistered ==
  ASSUME TypeOK, Shelf, NEW s \in SourceIds, NEW input \in SourceInputs,
         NEW predecessor \in SourceIds \cup {None}, ~IsRow(cards[s]),
         Shelved(s, input, predecessor),
         writeAudit(Entry("source_registered", s, None))
  PROVE  Shelf'
  <1>1. /\ cards'[s] \in SourceCard /\ IsRow(cards'[s])
        /\ cards'[s].status = "active" /\ cards'[s].metadataVersion = 1
        /\ cards'[s].projectId = input.projectId
        /\ cards'[s].supersedesSourceId = predecessor
        /\ fts'[s] = "active"
    BY NewCardRow, CardRow DEF Shelved
  <1>2. \A t \in SourceIds \ {s, predecessor} : cards'[t] = cards[t] /\ fts'[t] = fts[t]
    BY DEF Shelved
  <1>3. ASSUME predecessor # None
        PROVE  /\ predecessor \in SourceIds \ {s}
               /\ IsRow(cards[predecessor]) /\ cards[predecessor] \in SourceCard
               /\ cards[predecessor].projectId = input.projectId
               /\ cards[predecessor].status \in {"active", "stale", "missing"}
               /\ IsRow(cards'[predecessor])
               /\ cards'[predecessor].status = "superseded"
               /\ cards'[predecessor].metadataVersion = cards[predecessor].metadataVersion + 1
               /\ cards'[predecessor].projectId = cards[predecessor].projectId
               /\ cards'[predecessor].supersedesSourceId
                    = cards[predecessor].supersedesSourceId
               /\ fts'[predecessor] = "superseded"
    <2>1. /\ predecessor \in SourceIds \ {s}
          /\ EligiblePredecessor(predecessor, input.projectId)
          /\ cards'[predecessor] = Moved(cards[predecessor], "superseded")
          /\ fts'[predecessor] = "superseded"
      BY <1>3 DEF Shelved
    <2>2. cards[predecessor] \in SourceCard
      BY <2>1, CardRow DEF TypeOK, EligiblePredecessor
    <2>3. "superseded" \in CardStatus
      BY DEF CardStatus
    <2>4. Moved(cards[predecessor], "superseded") \in SourceCard
      BY <2>2, <2>3, MovedRow
    <2> QED BY <2>1, <2>2, <2>3, <2>4, MovedRow, CardRow DEF EligiblePredecessor
  <1>4. None \notin SourceIds
    BY RegistryAssumption
  (* The successors: one more, of the predecessor, which had none.          *)
  <1>5. Successors(s) = {}
    BY DEF Shelf, LineageDoesNotFork, Successors
  <1>6. predecessor # None => Successors(predecessor) = {}
    BY <1>3 DEF Shelf, LineageDoesNotFork, Successors
  <1>7. \A t \in SourceIds : \A x \in SourceIds :
          t \in Successors(x)' <=> t \in Successors(x) \/ (t = s /\ x = predecessor)
    BY <1>1, <1>2, <1>3, <1>4 DEF Successors
  <1>8. LineageDoesNotFork'
    <2> SUFFICES ASSUME NEW x \in SourceIds, NEW t \in SourceIds, t \in Successors(x)'
                 PROVE  /\ \A y \in SourceIds : y \in Successors(x)' => y = t
                        /\ IsRow(cards'[x]) /\ cards'[x].projectId = cards'[t].projectId
                        /\ cards'[x].status \in {"superseded", "archived"}
      BY DEF LineageDoesNotFork, Successors
    <2>1. CASE x = predecessor
      BY <2>1, <1>1, <1>3, <1>4, <1>6, <1>7
    <2>2. CASE x # predecessor
      <3>1. t \in Successors(x) /\ IsRow(cards[t]) /\ t # s /\ x # s
        BY <2>2, <1>5, <1>7 DEF Successors
      <3>2. /\ Successors(x) = {t}
            /\ IsRow(cards[x]) /\ cards[x].projectId = cards[t].projectId
            /\ cards[x].status \in {"superseded", "archived"}
        BY <3>1 DEF Shelf, LineageDoesNotFork
      <3>3. cards'[t].projectId = cards[t].projectId
        BY <3>1, <1>2, <1>3, <1>4
      <3> QED BY <2>2, <3>1, <3>2, <3>3, <1>2, <1>7
    <2> QED BY <2>1, <2>2
  <1>9. IndexAgrees'
    BY <1>1, <1>2, <1>3, <1>4 DEF Shelf, IndexAgrees
  <1>10. \A t \in SourceIds :
           /\ Registered(auditLog', t) = IF s = t
                THEN Registered(auditLog, t) + 1 ELSE Registered(auditLog, t)
           /\ Changed(auditLog', t) = Changed(auditLog, t)
           /\ Archived(auditLog', t) = Archived(auditLog, t)
    BY CardRecorded, EntriesAreTyped DEF TypeOK
  <1>11. NoHistory'
    <2>1. NoHistory /\ cards[s].status # "archived"
      BY DEF Shelf, IsRow, NoRow
    <2> QED BY <2>1, <1>1, <1>2, <1>3, <1>4, <1>10 DEF NoHistory
  <1>12. VersionCountsTheHistory'
    <2> SUFFICES ASSUME NEW t \in SourceIds
                 PROVE  /\ Registered(auditLog', t) = IF IsRow(cards'[t]) THEN 1 ELSE 0
                        /\ IsRow(cards'[t]) =>
                             cards'[t].metadataVersion =
                               1 + Changed(auditLog', t) + Archived(auditLog', t)
                                 + IF Successors(t)' = {} THEN 0 ELSE 1
      BY DEF VersionCountsTheHistory, Registered, Changed, Archived
    <2>1. /\ Registered(auditLog, t) = IF IsRow(cards[t]) THEN 1 ELSE 0
          /\ IsRow(cards[t]) =>
               cards[t].metadataVersion =
                 1 + Changed(auditLog, t) + Archived(auditLog, t)
                   + IF Successors(t) = {} THEN 0 ELSE 1
      BY DEF Shelf, VersionCountsTheHistory, Registered, Changed, Archived
    <2>2. Successors(t) \subseteq SourceIds /\ Successors(t)' \subseteq SourceIds
      BY DEF Successors
    <2>3. CASE t = s
      <3>1. Successors(t)' = {}
        BY <2>3, <2>2, <1>3, <1>5, <1>7, <1>4
      <3>2. Changed(auditLog, t) = 0 /\ Archived(auditLog, t) = 0
        BY <2>3 DEF Shelf, NoHistory, IsRow, NoRow
      <3> QED BY <2>1, <2>3, <3>1, <3>2, <1>1, <1>10
    <2>4. CASE t = predecessor /\ t # s
      <3>1. Successors(t)' # {} /\ Successors(t) = {}
        BY <2>4, <1>4, <1>6, <1>7
      <3>2. Changed(auditLog, t) \in Nat /\ Archived(auditLog, t) \in Nat
        BY EntriesAreTyped DEF TypeOK, Changed, Archived
      <3>3. predecessor # None
        BY <2>4, <1>4
      <3> QED BY <2>1, <2>4, <3>1, <3>2, <3>3, <1>3, <1>10
    <2>5. CASE t # predecessor /\ t # s
      <3>1. Successors(t)' = Successors(t)
        BY <2>5, <2>2, <1>7
      <3> QED BY <2>1, <2>5, <3>1, <1>2, <1>10
    <2> QED BY <2>3, <2>4, <2>5
  <1> QED BY <1>8, <1>9, <1>11, <1>12 DEF Shelf

LEMMA ShelfKept ==
  ASSUME Shelf, UNCHANGED <<cards, fts>>, SameCards(auditLog, auditLog')
  PROVE  Shelf'
  <1>1. \A s \in SourceIds : Successors(s)' = Successors(s)
    BY DEF Successors
  <1>2. IndexAgrees' /\ LineageDoesNotFork'
    BY <1>1 DEF Shelf, IndexAgrees, LineageDoesNotFork
  <1>3. NoHistory'
    BY DEF Shelf, NoHistory, SameCards
  <1>4. VersionCountsTheHistory'
    <2> SUFFICES ASSUME NEW t \in SourceIds
                 PROVE  /\ Registered(auditLog', t) = IF IsRow(cards[t]) THEN 1 ELSE 0
                        /\ IsRow(cards[t]) =>
                             cards[t].metadataVersion =
                               1 + Changed(auditLog', t) + Archived(auditLog', t)
                                 + IF Successors(t) = {} THEN 0 ELSE 1
      BY <1>1 DEF VersionCountsTheHistory, Registered, Changed, Archived
    <2> QED BY DEF Shelf, VersionCountsTheHistory, SameCards, Registered, Changed, Archived
  <1> QED BY <1>2, <1>3, <1>4 DEF Shelf

-----------------------------------------------------------------------------
(* What holds of the approvals and of the requests.                        *)

(* An archived card rests, and so do the approvals.                        *)
LEMMA ApprovalsKept ==
  ASSUME TypeOK, ApprovalIsSpentOnItsArchive,
         \A a \in ApprovalIds : Spent(a)' => approvals'[a] = approvals[a] /\ Spent(a),
         \A s \in SourceIds :
           IsRow(cards[s]) /\ cards[s].status = "archived" =>
             cards'[s] = cards[s] /\ Archived(auditLog', s) = Archived(auditLog, s)
  PROVE  ApprovalIsSpentOnItsArchive'
  <1> SUFFICES ASSUME NEW a \in ApprovalIds, Spent(a)'
               PROVE  LET s == approvals'[a].sourceId IN
                        /\ approvals'[a].status = "approved"
                        /\ approvals'[a].consumedAt < approvals'[a].expiresAt
                        /\ IsRow(cards'[s]) /\ cards'[s].status = "archived"
                        /\ cards'[s].metadataVersion = approvals'[a].metadataVersion + 1
                        /\ Archived(auditLog', s) = 1
                        /\ \A b \in ApprovalIds :
                             Spent(b)' /\ approvals'[b].sourceId = s => b = a
    BY DEF ApprovalIsSpentOnItsArchive, Archived
  <1>1. Spent(a) /\ approvals'[a] = approvals[a]
    OBVIOUS
  <1>2. approvals[a].sourceId \in SourceIds
    <2>1. approvals[a] \in Approval
      BY <1>1, ApprovalRow DEF Spent, TypeOK
    <2> QED BY <2>1 DEF Approval
  <1>3. LET s == approvals[a].sourceId IN
          /\ approvals[a].status = "approved"
          /\ approvals[a].consumedAt < approvals[a].expiresAt
          /\ IsRow(cards[s]) /\ cards[s].status = "archived"
          /\ cards[s].metadataVersion = approvals[a].metadataVersion + 1
          /\ Archived(auditLog, s) = 1
          /\ \A b \in ApprovalIds : Spent(b) /\ approvals[b].sourceId = s => b = a
    BY <1>1 DEF ApprovalIsSpentOnItsArchive, Archived
  <1> QED BY <1>1, <1>2, <1>3

Desk == RequestsAreAccounted /\ PendingIsOwned

(* Of one request, in terms of rows, of log and of hands.                  *)
Accounted(q, row, log, audited) ==
  /\ Created(log, q) = IF audited THEN 1 ELSE 0
  /\ \A s \in SourceIds : Resolved(log, s, q) =
       IF IsRow(row) /\ row.resolvedBySourceId = s THEN 1 ELSE 0
  /\ Cancelled(log, q) = IF row.status = "cancelled" THEN 1 ELSE 0
  /\ IsRow(row) =>
       /\ row.metadataVersion = IF row.status = "open" THEN 1 ELSE 2
       /\ (row.status = "resolved") <=> (row.resolvedBySourceId # None)

InOwnProject(row, shelf) ==
  IsRow(row) /\ row.status = "resolved" =>
    /\ IsRow(shelf[row.resolvedBySourceId])
    /\ shelf[row.resolvedBySourceId].projectId = row.projectId

Audited(q) ==
  /\ IsRow(requests[q]) /\ q \notin unaudited
  /\ \A p \in Processes : pending[p] # q

LEMMA DeskByRequest ==
  /\ RequestsAreAccounted <=>
       \A q \in RequestIds : /\ Accounted(q, requests[q], auditLog, Audited(q))
                             /\ InOwnProject(requests[q], cards)
  /\ RequestsAreAccounted' <=>
       \A q \in RequestIds : /\ Accounted(q, requests'[q], auditLog', Audited(q)')
                             /\ InOwnProject(requests'[q], cards')
  BY DEF RequestsAreAccounted, Accounted, InOwnProject, Audited, Created, Resolved, Cancelled

LEMMA ResolvedBy ==
  ASSUME TypeOK, Desk, NEW q \in RequestIds, IsRow(requests[q]),
         requests[q].status = "resolved"
  PROVE  requests[q].resolvedBySourceId \in SourceIds
  <1>1. requests[q] \in SourceRequest
    BY RequestRow DEF TypeOK
  <1>2. requests[q].resolvedBySourceId # None
    BY DeskByRequest DEF Desk, Accounted
  <1> QED BY <1>1, <1>2 DEF SourceRequest

(* The desk while the shelf moves: cards keep their projects.              *)
LEMMA DeskKept ==
  ASSUME TypeOK, Desk, UNCHANGED <<requests, pending, unaudited>>,
         SameRequests(auditLog, auditLog'),
         \A s \in SourceIds :
           IsRow(cards[s]) => IsRow(cards'[s]) /\ cards'[s].projectId = cards[s].projectId
  PROVE  Desk'
  <1>1. PendingIsOwned'
    BY DEF Desk, PendingIsOwned
  <1>2. ASSUME NEW q \in RequestIds
        PROVE  /\ Accounted(q, requests'[q], auditLog', Audited(q)')
               /\ InOwnProject(requests'[q], cards')
    <2>1. /\ Accounted(q, requests[q], auditLog, Audited(q))
          /\ InOwnProject(requests[q], cards)
      BY DeskByRequest DEF Desk
    <2>2. Audited(q)' <=> Audited(q)
      BY DEF Audited
    <2>3. Accounted(q, requests'[q], auditLog', Audited(q)')
      BY <2>1, <2>2 DEF Accounted, SameRequests
    <2>4. InOwnProject(requests'[q], cards')
      BY <2>1, ResolvedBy DEF InOwnProject
    <2> QED BY <2>3, <2>4
  <1> QED BY <1>1, <1>2, DeskByRequest DEF Desk

-----------------------------------------------------------------------------
(* The operations on requests.                                             *)

LEMMA RequestCreated ==
  ASSUME TypeOK, Desk, NEW p \in Processes, NEW q \in RequestIds, NEW k \in ProjectKeys,
         NEW scope, createRequest(p, q, k, scope)
  PROVE  TypeOK' /\ Desk'
  <1> DEFINE row == [projectId |-> k, status |-> "open", resolvedBySourceId |-> None,
                     metadataVersion |-> 1]
  <1>1. /\ pending[p] = None /\ ~IsRow(requests[q])
        /\ requests' = [requests EXCEPT ![q] = row]
        /\ \/ pending' = [pending EXCEPT ![p] = q] /\ unaudited' = unaudited
           \/ unaudited' = unaudited \cup {q} /\ pending' = pending
        /\ UNCHANGED <<cards, fts, approvals, auditLog, now>>
    BY DEF createRequest
  <1>2. /\ row \in SourceRequest /\ IsRow(row)
        /\ row.status = "open" /\ row.resolvedBySourceId = None /\ row.metadataVersion = 1
    BY DEF SourceRequest, Versions, IsRow, NoRow
  <1> HIDE DEF row
  <1>3. TypeOK'
    BY <1>1, <1>2 DEF TypeOK
  <1>4. requests'[q] = row /\ \A r \in RequestIds \ {q} : requests'[r] = requests[r]
    BY <1>1 DEF TypeOK
  <1>5. /\ q \notin unaudited /\ \A o \in Processes : pending[o] # q
    BY <1>1, RegistryAssumption DEF Desk, PendingIsOwned
  <1>6. None \notin RequestIds /\ None \notin SourceIds
    BY RegistryAssumption
  <1>7. ~Audited(q) /\ ~Audited(q)'
    BY <1>1 DEF Audited, TypeOK
  <1>8. \A r \in RequestIds \ {q} : Audited(r)' <=> Audited(r)
    BY <1>1, <1>4, <1>6 DEF Audited, TypeOK
  <1>9. ASSUME NEW r \in RequestIds
        PROVE  /\ Accounted(r, requests'[r], auditLog', Audited(r)')
               /\ InOwnProject(requests'[r], cards')
    <2>1. /\ Accounted(r, requests[r], auditLog, Audited(r))
          /\ InOwnProject(requests[r], cards)
      BY DeskByRequest DEF Desk
    <2>2. CASE r = q
      <3>1. requests[q].status = "none"
        BY <1>1 DEF IsRow, NoRow
      <3>2. InOwnProject(requests'[r], cards')
        BY <2>2, <1>2, <1>4 DEF InOwnProject
      <3> QED BY <2>1, <2>2, <3>1, <3>2, <1>1, <1>2, <1>4, <1>6, <1>7 DEF Accounted
    <2>3. CASE r # q
      BY <2>1, <2>3, <1>1, <1>4, <1>8 DEF Accounted, InOwnProject
    <2> QED BY <2>2, <2>3
  <1>10. PendingIsOwned'
    <2>1. PendingIsOwned /\ \A o \in Processes : pending[o] \in RequestIds \cup {None}
      BY DEF Desk, TypeOK
    <2>2. CASE pending' = [pending EXCEPT ![p] = q] /\ unaudited' = unaudited
      <3>1. pending'[p] = q /\ \A o \in Processes \ {p} : pending'[o] = pending[o]
        BY <2>2 DEF TypeOK
      <3> QED BY <2>1, <2>2, <3>1, <1>1, <1>2, <1>4, <1>5, <1>6 DEF PendingIsOwned, TypeOK
    <2>3. CASE unaudited' = unaudited \cup {q} /\ pending' = pending
      BY <2>1, <2>3, <1>1, <1>2, <1>4, <1>5, <1>6 DEF PendingIsOwned, TypeOK
    <2> QED BY <1>1, <2>2, <2>3
  <1> QED BY <1>3, <1>9, <1>10, DeskByRequest DEF Desk

LEMMA RequestAudited ==
  ASSUME TypeOK, Desk, NEW p \in Processes, auditRequest(p) \/ loseAudit(p)
  PROVE  TypeOK' /\ Desk' /\ SameCards(auditLog, auditLog')
  <1>1. PICK q \in RequestIds : pending[p] = q
    BY DEF auditRequest, loseAudit, TypeOK
  <1>2. /\ UNCHANGED <<cards, fts, requests, approvals, now>>
        /\ pending'[p] = None
        /\ \A o \in Processes \ {p} : pending'[o] = pending[o]
        /\ pending' \in [Processes -> RequestIds \cup {None}]
    BY DEF auditRequest, loseAudit, TypeOK
  <1>3. q # None
    BY RegistryAssumption
  <1>4. /\ IsRow(requests[q]) /\ q \notin unaudited
        /\ \A o \in Processes : pending[o] = q => o = p
    BY <1>1, <1>3 DEF Desk, PendingIsOwned
  <1>5. ~Audited(q)
    BY <1>1 DEF Audited
  <1>6. CASE auditRequest(p)
    <2>1. unaudited' = unaudited /\ writeAudit(Entry("source_request_created", None, q))
      BY <1>1, <1>6 DEF auditRequest
    <2>2. /\ auditLog' \in [AuditEntry -> Nat]
          /\ SameCards(auditLog, auditLog')
          /\ \A r \in RequestIds :
               /\ Created(auditLog', r) =
                    IF q = r THEN Created(auditLog, r) + 1 ELSE Created(auditLog, r)
               /\ Cancelled(auditLog', r) = Cancelled(auditLog, r)
               /\ \A t \in SourceIds : Resolved(auditLog', t, r) = Resolved(auditLog, t, r)
      BY <2>1, RequestRecorded, EntriesAreTyped, ZenonT(40) DEF TypeOK
    <2>3. Audited(q)'
      BY <2>1, <1>2, <1>3, <1>4 DEF Audited
    <2>4. \A r \in RequestIds \ {q} : Audited(r)' <=> Audited(r)
      BY <2>1, <1>1, <1>2, RegistryAssumption DEF Audited
    <2>5. \A r \in RequestIds : /\ Accounted(r, requests'[r], auditLog', Audited(r)')
                                /\ InOwnProject(requests'[r], cards')
      <3> SUFFICES ASSUME NEW r \in RequestIds
                   PROVE  /\ Accounted(r, requests[r], auditLog', Audited(r)')
                          /\ InOwnProject(requests[r], cards)
        BY <1>2
      <3>1. /\ Accounted(r, requests[r], auditLog, Audited(r))
            /\ InOwnProject(requests[r], cards)
        BY DeskByRequest DEF Desk
      <3>2. CASE r = q
        BY <3>1, <3>2, <1>5, <2>2, <2>3 DEF Accounted
      <3>3. CASE r # q
        BY <3>1, <3>3, <2>2, <2>4 DEF Accounted
      <3> QED BY <3>2, <3>3
    <2>6. PendingIsOwned'
      BY <1>2, <2>1 DEF Desk, PendingIsOwned
    <2>7. TypeOK'
      BY <1>2, <2>1, <2>2 DEF TypeOK
    <2> QED BY <2>2, <2>5, <2>6, <2>7, DeskByRequest DEF Desk
  <1>7. CASE loseAudit(p)
    <2>1. unaudited' = unaudited \cup {q} /\ auditLog' = auditLog
      BY <1>1, <1>7 DEF loseAudit
    <2>2. ~Audited(q)'
      BY <2>1 DEF Audited
    <2>3. \A r \in RequestIds \ {q} : Audited(r)' <=> Audited(r)
      BY <2>1, <1>1, <1>2, RegistryAssumption DEF Audited
    <2>4. \A r \in RequestIds : /\ Accounted(r, requests'[r], auditLog', Audited(r)')
                                /\ InOwnProject(requests'[r], cards')
      <3> SUFFICES ASSUME NEW r \in RequestIds
                   PROVE  /\ Accounted(r, requests[r], auditLog, Audited(r)')
                          /\ InOwnProject(requests[r], cards)
        BY <1>2, <2>1
      <3>1. /\ Accounted(r, requests[r], auditLog, Audited(r))
            /\ InOwnProject(requests[r], cards)
        BY DeskByRequest DEF Desk
      <3>2. Audited(r)' <=> Audited(r)
        BY <1>5, <2>2, <2>3
      <3> QED BY <3>1, <3>2 DEF Accounted
    <2>5. PendingIsOwned'
      BY <1>2, <1>4, <2>1 DEF Desk, PendingIsOwned
    <2>6. TypeOK'
      BY <1>2, <2>1 DEF TypeOK
    <2> QED BY <2>1, <2>4, <2>5, <2>6, DeskByRequest DEF Desk, SameCards
  <1> QED BY <1>6, <1>7

LEMMA ClosedRequest ==
  ASSUME TypeOK, NEW q \in RequestIds, NEW status \in {"resolved", "cancelled"},
         NEW s \in SourceIds \cup {None}, IsRow(requests[q]),
         requests' = Closed(q, status, s)
  PROVE  /\ requests' \in [RequestIds -> SourceRequest \cup {NoRow}]
         /\ \A r \in RequestIds \ {q} : requests'[r] = requests[r]
         /\ IsRow(requests'[q])
         /\ requests'[q].status = status
         /\ requests'[q].resolvedBySourceId = s
         /\ requests'[q].metadataVersion = requests[q].metadataVersion + 1
         /\ requests'[q].projectId = requests[q].projectId
  <1>1. requests[q] \in SourceRequest
    BY RequestRow DEF TypeOK
  <1> DEFINE row == [requests[q] EXCEPT !.status = status, !.resolvedBySourceId = s,
                                        !.metadataVersion = requests[q].metadataVersion + 1]
  <1>2. requests[q].metadataVersion + 1 \in Versions
    BY <1>1 DEF SourceRequest, Versions
  <1>3. row \in SourceRequest
    BY <1>1, <1>2 DEF SourceRequest
  <1>4. /\ row.status = status /\ row.resolvedBySourceId = s
        /\ row.metadataVersion = requests[q].metadataVersion + 1
        /\ row.projectId = requests[q].projectId
    BY <1>1 DEF SourceRequest
  <1>5. requests' = [requests EXCEPT ![q] = row]
    BY DEF Closed, TypeOK
  <1>6. IsRow(row)
    BY <1>3, RequestRow
  <1> HIDE DEF row
  <1> QED BY <1>3, <1>4, <1>5, <1>6 DEF TypeOK

LEMMA RequestClosed ==
  ASSUME TypeOK, Desk, NEW q \in RequestIds, NEW v, NEW scope,
         \/ \E s \in SourceIds : resolveRequest(q, v, s, scope)
         \/ cancelRequest(q, v, scope)
  PROVE  TypeOK' /\ Desk' /\ SameCards(auditLog, auditLog')
  <1>1. /\ IsRow(requests[q]) /\ requests[q].status = "open"
        /\ UNCHANGED <<cards, fts, approvals, pending, unaudited, now>>
    BY DEF resolveRequest, cancelRequest, OpenAt
  <1>2. None \notin SourceIds
    BY RegistryAssumption
  <1>3. /\ Accounted(q, requests[q], auditLog, Audited(q))
        /\ requests[q].resolvedBySourceId = None
        /\ requests[q].metadataVersion = 1
    BY <1>1, DeskByRequest DEF Desk, Accounted
  <1>4. PICK status \in {"resolved", "cancelled"}, by \in SourceIds \cup {None},
             action \in {"source_request_resolved", "source_request_cancelled"} :
          /\ requests' = Closed(q, status, by)
          /\ Entry(action, by, q) \in AuditEntry /\ writeAudit(Entry(action, by, q))
          /\ \/ status = "resolved" /\ by \in SourceIds /\ action = "source_request_resolved"
                /\ Resolvable(by, requests[q].projectId)
             \/ status = "cancelled" /\ by = None /\ action = "source_request_cancelled"
    <2>1. CASE \E s \in SourceIds : resolveRequest(q, v, s, scope)
      BY <2>1, EntriesAreTyped DEF resolveRequest, writeScopedAudit
    <2>2. CASE cancelRequest(q, v, scope)
      BY <2>2, EntriesAreTyped DEF cancelRequest, writeScopedAudit
    <2> QED BY <2>1, <2>2
  <1>5. /\ requests' \in [RequestIds -> SourceRequest \cup {NoRow}]
        /\ \A r \in RequestIds \ {q} : requests'[r] = requests[r]
        /\ IsRow(requests'[q])
        /\ requests'[q].status = status
        /\ requests'[q].resolvedBySourceId = by
        /\ requests'[q].metadataVersion = 2
        /\ requests'[q].projectId = requests[q].projectId
    BY <1>1, <1>3, <1>4, ClosedRequest
  <1>6. /\ auditLog' \in [AuditEntry -> Nat]
        /\ SameCards(auditLog, auditLog')
        /\ \A r \in RequestIds :
             /\ Created(auditLog', r) = Created(auditLog, r)
             /\ Cancelled(auditLog', r) =
                  IF action = "source_request_cancelled" /\ q = r
                  THEN Cancelled(auditLog, r) + 1 ELSE Cancelled(auditLog, r)
             /\ \A t \in SourceIds : Resolved(auditLog', t, r) =
                  IF action = "source_request_resolved" /\ by = t /\ q = r
                  THEN Resolved(auditLog, t, r) + 1 ELSE Resolved(auditLog, t, r)
    <2>1. CASE action = "source_request_resolved" /\ by \in SourceIds
      BY <2>1, <1>4, RequestRecorded DEF TypeOK
    <2>2. CASE action = "source_request_cancelled" /\ by = None
      BY <2>2, <1>2, <1>4, RequestRecorded DEF TypeOK
    <2> QED BY <1>4, <2>1, <2>2
  <1>7. \A r \in RequestIds : Audited(r)' <=> Audited(r)
    BY <1>1, <1>5 DEF Audited
  <1>8. ASSUME NEW r \in RequestIds
        PROVE  /\ Accounted(r, requests'[r], auditLog', Audited(r)')
               /\ InOwnProject(requests'[r], cards')
    <2>1. CASE r = q
      <3>1. Accounted(r, requests'[r], auditLog', Audited(r)')
        BY <2>1, <1>1, <1>2, <1>3, <1>4, <1>5, <1>6, <1>7 DEF Accounted
      <3>2. InOwnProject(requests'[r], cards')
        BY <2>1, <1>1, <1>4, <1>5 DEF InOwnProject, Resolvable
      <3> QED BY <3>1, <3>2
    <2>2. CASE r # q
      <3>1. /\ Accounted(r, requests[r], auditLog, Audited(r))
            /\ InOwnProject(requests[r], cards)
        BY DeskByRequest DEF Desk
      <3> QED BY <2>2, <3>1, <1>1, <1>5, <1>6, <1>7 DEF Accounted
    <2> QED BY <2>1, <2>2
  <1>9. PendingIsOwned'
    <2>1. PendingIsOwned /\ pending \in [Processes -> RequestIds \cup {None}]
            /\ unaudited \subseteq RequestIds
      BY DEF Desk, TypeOK
    <2>2. \A r \in RequestIds : IsRow(requests[r]) => IsRow(requests'[r])
      BY <1>5
    <2> QED BY <2>1, <2>2, <1>1 DEF PendingIsOwned
  <1>10. TypeOK'
    BY <1>1, <1>5, <1>6 DEF TypeOK
  <1> QED BY <1>6, <1>8, <1>9, <1>10, DeskByRequest DEF Desk

-----------------------------------------------------------------------------
(* The inductive invariant.                                                *)

IInv == TypeOK /\ Shelf /\ ApprovalIsSpentOnItsArchive /\ Desk

LEMMA Initially == Init => IInv
  <1> SUFFICES ASSUME Init PROVE IInv
    OBVIOUS
  <1>1. TypeOK
    BY DEF Init, TypeOK
  <1>2. /\ \A s \in SourceIds :
             /\ cards[s] = NoRow /\ fts[s] = None
             /\ Registered(auditLog, s) = 0
             /\ Changed(auditLog, s) = 0
             /\ Archived(auditLog, s) = 0
        /\ \A q \in RequestIds :
             /\ requests[q] = NoRow
             /\ Created(auditLog, q) = 0 /\ Cancelled(auditLog, q) = 0
             /\ \A s \in SourceIds : Resolved(auditLog, s, q) = 0
        /\ \A a \in ApprovalIds : approvals[a] = NoRow
    BY EntriesAreTyped DEF Init, Registered, Changed, Archived, Created, Cancelled, Resolved
  <1>3. ~IsRow(NoRow) /\ NoRow.status = "none"
    BY DEF IsRow, NoRow
  <1>4. IndexAgrees /\ LineageDoesNotFork /\ NoHistory
    BY <1>2, <1>3 DEF IndexAgrees, LineageDoesNotFork, Successors, NoHistory
  <1>5. VersionCountsTheHistory
    BY <1>2, <1>3 DEF VersionCountsTheHistory, Registered
  <1>6. ApprovalIsSpentOnItsArchive
    BY <1>2, <1>3 DEF ApprovalIsSpentOnItsArchive, Spent
  <1>7. PendingIsOwned
    BY DEF Init, PendingIsOwned
  <1>8. ASSUME NEW q \in RequestIds
        PROVE  /\ Accounted(q, requests[q], auditLog, Audited(q))
               /\ InOwnProject(requests[q], cards)
    <2>1. ~Audited(q)
      BY <1>2, <1>3 DEF Audited
    <2> QED BY <2>1, <1>2, <1>3 DEF Accounted, InOwnProject
  <1> QED BY <1>1, <1>4, <1>5, <1>6, <1>7, <1>8, DeskByRequest DEF IInv, Shelf, Desk

(* What a card may become in any step.                                     *)
CardMovesOn(s) ==
  IsRow(cards[s]) =>
    /\ IsRow(cards'[s])
    /\ cards'[s].projectId = cards[s].projectId
    /\ cards'[s].classification = cards[s].classification
    /\ cards'[s].allowedRoles = cards[s].allowedRoles
    /\ cards'[s].supersedesSourceId = cards[s].supersedesSourceId
    /\ cards[s].status = "superseded" => cards'[s].status \in {"superseded", "archived"}
    /\ cards[s].status = "archived" => cards'[s] = cards[s]

LEMMA RegisterStep ==
  ASSUME IInv, NEW s \in SourceIds, NEW input \in SourceInputs, NEW scope,
         registerSource(s, input, scope)
  PROVE  IInv' /\ \A t \in SourceIds : CardMovesOn(t)
  <1>1. UNCHANGED <<requests, approvals, pending, unaudited, now>>
    BY DEF registerSource
  <1>2. /\ cards' \in [SourceIds -> SourceCard \cup {NoRow}]
        /\ fts' \in [SourceIds -> CardStatus \cup {None}]
        /\ ~IsRow(cards[s])
        /\ writeAudit(Entry("source_registered", s, None))
    BY Shelving DEF IInv
  <1>3. PICK predecessor \in SourceIds \cup {None} : Shelved(s, input, predecessor)
    BY Shelving DEF IInv
  <1>4. Shelf'
    BY <1>2, <1>3, ShelfRegistered DEF IInv
  <1>5. /\ auditLog' \in [AuditEntry -> Nat]
        /\ SameRequests(auditLog, auditLog')
        /\ \A t \in SourceIds : Archived(auditLog', t) = Archived(auditLog, t)
    BY <1>2, CardRecorded, EntriesAreTyped DEF IInv, TypeOK
  <1>6. \A t \in SourceIds : CardMovesOn(t)
    <2> SUFFICES ASSUME NEW t \in SourceIds, IsRow(cards[t])
                 PROVE  CardMovesOn(t)
      BY DEF CardMovesOn
    <2>1. CASE t = predecessor
      <3>1. /\ cards'[t] = Moved(cards[t], "superseded")
            /\ cards[t].status \in {"active", "stale", "missing"}
        BY <2>1, <1>3, RegistryAssumption DEF Shelved, EligiblePredecessor
      <3>2. cards[t] \in SourceCard /\ "superseded" \in CardStatus
        BY CardRow DEF IInv, TypeOK, CardStatus
      <3>3. Moved(cards[t], "superseded") \in SourceCard
        BY <3>2, MovedRow
      <3> QED BY <3>1, <3>2, <3>3, MovedRow, CardRow DEF CardMovesOn
    <2>2. CASE t # predecessor
      <3>1. cards'[t] = cards[t]
        BY <2>2, <1>2, <1>3 DEF Shelved
      <3> QED BY <3>1 DEF CardMovesOn
    <2> QED BY <2>1, <2>2
  <1>7. ApprovalIsSpentOnItsArchive'
    BY <1>1, <1>5, <1>6, ApprovalsKept DEF IInv, CardMovesOn, Spent
  <1>8. Desk'
    BY <1>1, <1>5, <1>6, DeskKept DEF IInv, CardMovesOn
  <1>9. TypeOK'
    BY <1>1, <1>2, <1>5 DEF IInv, TypeOK
  <1> QED BY <1>4, <1>6, <1>7, <1>8, <1>9 DEF IInv

(* The cards after any change of status.                                   *)
LEMMA MoveOn ==
  ASSUME TypeOK, NEW s \in SourceIds, NEW to \in CardStatus, NEW v,
         IsRow(cards[s]), updateCardStatus(s, to, v),
         cards[s].status # "archived",
         cards[s].status = "superseded" => to = "archived"
  PROVE  \A t \in SourceIds : CardMovesOn(t)
  <1> SUFFICES ASSUME NEW t \in SourceIds, IsRow(cards[t])
               PROVE  CardMovesOn(t)
    BY DEF CardMovesOn
  <1>1. CASE t = s
    <2>1. cards[s] \in SourceCard
      BY CardRow DEF TypeOK
    <2> QED BY <1>1, <2>1, CardMoved, MovedRow DEF CardMovesOn
  <1>2. CASE t # s
    <2>1. cards'[t] = cards[t]
      BY <1>2, CardMoved
    <2> QED BY <2>1 DEF CardMovesOn
  <1> QED BY <1>1, <1>2

LEMMA TransitionStep ==
  ASSUME IInv, NEW s \in SourceIds, NEW v, NEW to, NEW scope,
         transitionCard(s, v, to, scope)
  PROVE  IInv' /\ \A t \in SourceIds : CardMovesOn(t)
  <1>1. /\ IsRow(cards[s])
        /\ allowedCardTransition(cards[s].status, to)
        /\ updateCardStatus(s, to, v)
        /\ writeAudit(Entry("source_lifecycle_changed", s, None))
        /\ UNCHANGED <<requests, approvals, pending, unaudited, now>>
    BY DEF transitionCard, visibleCards, writeScopedAudit
  <1>2. /\ to \in CardStatus /\ cards[s].status # "archived"
        /\ cards[s].status = "superseded" => to = "archived"
    BY <1>1, CardRow, CardTransitions DEF IInv, TypeOK
  <1>3. Shelf'
    BY <1>1, <1>2, ShelfMoved DEF IInv
  <1>4. /\ auditLog' \in [AuditEntry -> Nat]
        /\ SameRequests(auditLog, auditLog')
        /\ \A t \in SourceIds : Archived(auditLog', t) = Archived(auditLog, t)
    BY <1>1, CardRecorded, EntriesAreTyped DEF IInv, TypeOK
  <1>5. \A t \in SourceIds : CardMovesOn(t)
    BY <1>1, <1>2, MoveOn DEF IInv
  <1>6. ApprovalIsSpentOnItsArchive'
    BY <1>1, <1>4, <1>5, ApprovalsKept DEF IInv, CardMovesOn, Spent
  <1>7. Desk'
    BY <1>1, <1>4, <1>5, DeskKept DEF IInv, CardMovesOn
  <1>8. TypeOK'
    BY <1>1, <1>2, <1>4, CardMoved DEF IInv, TypeOK
  <1> QED BY <1>3, <1>5, <1>6, <1>7, <1>8 DEF IInv

(* An approval is spent: its card was not archived before, so no other     *)
(* approval of that card was spent, and the log had no archiving of it.    *)
LEMMA ConsumeStep ==
  ASSUME IInv, NEW a \in ApprovalIds, NEW s \in SourceIds, NEW k, NEW v,
         consume(a, s, k, v)
  PROVE  IInv' /\ \A t \in SourceIds : CardMovesOn(t)
  <1>1. /\ IsRow(approvals[a])
        /\ approvals[a].sourceId = s /\ approvals[a].metadataVersion = v
        /\ approvals[a].status = "approved" /\ now < approvals[a].expiresAt
        /\ approvals[a].consumedAt = None
        /\ approvals' = [approvals EXCEPT ![a].consumedAt = now]
        /\ writeAudit(Entry("source_archived", s, None))
        /\ UNCHANGED <<requests, pending, unaudited, now>>
    BY DEF consume, Usable
  <1>2. /\ IsRow(cards[s]) /\ allowedCardTransition(cards[s].status, "archived")
        /\ cards[s].metadataVersion = v /\ updateCardStatus(s, "archived", v)
    BY DEF consume, archiveApproved, VersionMatches
  <1>3. "archived" \in CardStatus /\ cards[s].status # "archived"
    BY <1>2, CardRow, CardTransitions DEF IInv, TypeOK
  <1>4. Shelf'
    BY <1>1, <1>2, <1>3, ShelfMoved DEF IInv
  <1>5. \A t \in SourceIds : CardMovesOn(t)
    BY <1>2, <1>3, MoveOn DEF IInv
  <1>6. /\ auditLog' \in [AuditEntry -> Nat]
        /\ SameRequests(auditLog, auditLog')
        /\ \A t \in SourceIds : Archived(auditLog', t) =
             IF s = t THEN Archived(auditLog, t) + 1 ELSE Archived(auditLog, t)
    BY <1>1, CardRecorded, EntriesAreTyped DEF IInv, TypeOK
  <1>7. Desk'
    BY <1>1, <1>5, <1>6, DeskKept DEF IInv, CardMovesOn
  <1>8. /\ approvals' \in [ApprovalIds -> Approval \cup {NoRow}]
        /\ \A b \in ApprovalIds \ {a} : approvals'[b] = approvals[b]
        /\ approvals'[a].sourceId = s /\ approvals'[a].metadataVersion = v
        /\ approvals'[a].status = "approved"
        /\ approvals'[a].expiresAt = approvals[a].expiresAt
        /\ approvals'[a].consumedAt = now /\ ~approvals'[a].insertedConsumed
    <2>1. /\ approvals[a] \in Approval /\ ~approvals[a].insertedConsumed
          /\ now \in Int
      BY <1>1, ApprovalRow DEF IInv, TypeOK, Approval
    <2> DEFINE row == [approvals[a] EXCEPT !.consumedAt = now]
    <2>2. /\ row \in Approval /\ row.sourceId = s /\ row.metadataVersion = v
          /\ row.status = "approved" /\ row.expiresAt = approvals[a].expiresAt
          /\ row.consumedAt = now /\ ~row.insertedConsumed
      BY <1>1, <2>1 DEF Approval
    <2>3. approvals' = [approvals EXCEPT ![a] = row]
      BY <1>1 DEF IInv, TypeOK
    <2> HIDE DEF row
    <2> QED BY <2>2, <2>3 DEF IInv, TypeOK
  <1>9. TypeOK'
    BY <1>1, <1>2, <1>3, <1>6, <1>8, CardMoved DEF IInv, TypeOK
  <1>10. /\ cards'[s].status = "archived" /\ IsRow(cards'[s])
         /\ cards'[s].metadataVersion = v + 1
         /\ \A t \in SourceIds \ {s} : cards'[t] = cards[t]
    <2>1. cards[s] \in SourceCard
      BY <1>2, CardRow DEF IInv, TypeOK
    <2> QED BY <2>1, <1>2, <1>3, CardMoved, MovedRow DEF IInv
  <1>11. \A b \in ApprovalIds : Spent(b) =>
           /\ approvals[b].sourceId \in SourceIds /\ approvals[b].sourceId # s
           /\ approvals[b].status = "approved"
           /\ approvals[b].consumedAt < approvals[b].expiresAt
           /\ IsRow(cards[approvals[b].sourceId])
           /\ cards[approvals[b].sourceId].status = "archived"
           /\ cards[approvals[b].sourceId].metadataVersion = approvals[b].metadataVersion + 1
           /\ Archived(auditLog, approvals[b].sourceId) = 1
           /\ \A c \in ApprovalIds :
                Spent(c) /\ approvals[c].sourceId = approvals[b].sourceId => c = b
    <2> SUFFICES ASSUME NEW b \in ApprovalIds, Spent(b)
                 PROVE  /\ approvals[b].sourceId \in SourceIds /\ approvals[b].sourceId # s
                        /\ approvals[b].status = "approved"
                        /\ approvals[b].consumedAt < approvals[b].expiresAt
                        /\ IsRow(cards[approvals[b].sourceId])
                        /\ cards[approvals[b].sourceId].status = "archived"
                        /\ cards[approvals[b].sourceId].metadataVersion
                             = approvals[b].metadataVersion + 1
                        /\ Archived(auditLog, approvals[b].sourceId) = 1
                        /\ \A c \in ApprovalIds :
                             Spent(c) /\ approvals[c].sourceId = approvals[b].sourceId => c = b
      OBVIOUS
    <2>1. approvals[b] \in Approval
      BY ApprovalRow DEF IInv, TypeOK, Spent
    <2> QED BY <2>1, <1>3 DEF IInv, ApprovalIsSpentOnItsArchive, Approval, Archived
  <1>12. ~Spent(a)
    BY <1>1, <1>11
  <1>13. Archived(auditLog', s) = 1
    BY <1>3, <1>6 DEF IInv, Shelf, NoHistory
  <1>14. \A b \in ApprovalIds : Spent(b)' <=> b = a \/ Spent(b)
    <2>1. Spent(a)'
      <3>1. approvals'[a] \in Approval /\ now # None
        BY <1>8, RegistryAssumption DEF IInv, TypeOK, Approval, NoRow
      <3> QED BY <3>1, <1>8, ApprovalRow DEF Spent
    <2> QED BY <2>1, <1>8 DEF Spent
  <1>15. ApprovalIsSpentOnItsArchive'
    <2> SUFFICES ASSUME NEW b \in ApprovalIds, Spent(b)'
                 PROVE  LET x == approvals'[b].sourceId IN
                          /\ approvals'[b].status = "approved"
                          /\ approvals'[b].consumedAt < approvals'[b].expiresAt
                          /\ IsRow(cards'[x]) /\ cards'[x].status = "archived"
                          /\ cards'[x].metadataVersion = approvals'[b].metadataVersion + 1
                          /\ Archived(auditLog', x) = 1
                          /\ \A c \in ApprovalIds :
                               Spent(c)' /\ approvals'[c].sourceId = x => c = b
      BY DEF ApprovalIsSpentOnItsArchive, Archived
    <2>1. CASE b = a
      BY <2>1, <1>1, <1>8, <1>10, <1>11, <1>13, <1>14
    <2>2. CASE b # a
      <3>1. Spent(b) /\ approvals'[b] = approvals[b]
        BY <2>2, <1>8, <1>14
      <3>2. Archived(auditLog', approvals[b].sourceId) = 1
        BY <3>1, <1>6, <1>11
      <3> QED BY <2>2, <3>1, <3>2, <1>8, <1>10, <1>11, <1>14
    <2> QED BY <2>1, <2>2
  <1> QED BY <1>4, <1>5, <1>7, <1>9, <1>15 DEF IInv

LEMMA OtherSteps ==
  ASSUME IInv, UNCHANGED <<cards, fts>>,
         TypeOK', Desk', SameCards(auditLog, auditLog'),
         \A a \in ApprovalIds : Spent(a)' => approvals'[a] = approvals[a] /\ Spent(a)
  PROVE  IInv' /\ \A t \in SourceIds : CardMovesOn(t)
  <1>1. Shelf'
    BY ShelfKept DEF IInv
  <1>2. ApprovalIsSpentOnItsArchive'
    BY ApprovalsKept DEF IInv, SameCards
  <1> QED BY <1>1, <1>2 DEF IInv, CardMovesOn

LEMMA Step == IInv /\ [Next]_vars => IInv' /\ \A t \in SourceIds : CardMovesOn(t)
  <1> SUFFICES ASSUME IInv, [Next]_vars
               PROVE  IInv' /\ \A t \in SourceIds : CardMovesOn(t)
    OBVIOUS
  <1>1. ASSUME NEW s \in SourceIds, NEW scope \in Scopes, NEW input \in SourceInputs,
               registerSource(s, input, scope)
        PROVE  IInv' /\ \A t \in SourceIds : CardMovesOn(t)
    BY <1>1, RegisterStep
  <1>2. ASSUME NEW s \in SourceIds, NEW scope \in Scopes, findVisibleById(s, scope)
        PROVE  IInv' /\ \A t \in SourceIds : CardMovesOn(t)
    <2>1. /\ writeAudit(Entry("source_lookup_not_found", None, None))
          /\ UNCHANGED <<cards, fts, requests, approvals, pending, unaudited, now>>
      BY <1>2 DEF findVisibleById, writeScopedAudit
    <2>2. /\ auditLog' \in [AuditEntry -> Nat]
          /\ SameRequests(auditLog, auditLog') /\ SameCards(auditLog, auditLog')
      BY <2>1, CardRecorded, EntriesAreTyped DEF IInv, TypeOK, SameCards
    <2>3. TypeOK'
      BY <2>1, <2>2 DEF IInv, TypeOK
    <2>4. Desk'
      BY <2>1, <2>2, DeskKept DEF IInv
    <2> QED BY <2>1, <2>2, <2>3, <2>4, OtherSteps DEF Spent
  <1>3. ASSUME NEW s \in SourceIds, NEW scope \in Scopes, NEW v, NEW to,
               transitionCard(s, v, to, scope)
        PROVE  IInv' /\ \A t \in SourceIds : CardMovesOn(t)
    BY <1>3, TransitionStep
  <1>4. ASSUME NEW a \in ApprovalIds, insertApproval(a)
        PROVE  IInv' /\ \A t \in SourceIds : CardMovesOn(t)
    <2>1. PICK s \in SourceIds, terms \in ApprovalTerms :
            approvals' = [approvals EXCEPT ![a] =
              [sourceId |-> s, projectKey |-> terms.projectKey,
               metadataVersion |-> terms.metadataVersion, status |-> terms.status,
               expiresAt |-> terms.expiresAt, consumedAt |-> terms.consumedAt,
               insertedConsumed |-> terms.consumedAt # None]]
      BY <1>4 DEF insertApproval
    <2>2. UNCHANGED <<cards, fts, requests, auditLog, pending, unaudited, now>>
      BY <1>4 DEF insertApproval
    <2> DEFINE row == [sourceId |-> s, projectKey |-> terms.projectKey,
                       metadataVersion |-> terms.metadataVersion, status |-> terms.status,
                       expiresAt |-> terms.expiresAt, consumedAt |-> terms.consumedAt,
                       insertedConsumed |-> terms.consumedAt # None]
    <2>3. row \in Approval /\ (row.insertedConsumed <=> row.consumedAt # None)
      <3>1. terms \in [projectKey : ProjectKeys, metadataVersion : Nat \ {0},
                       status : {"pending", "approved", "rejected", "expired"},
                       expiresAt : Int, consumedAt : Int \cup {None}]
            /\ (terms.consumedAt # None => terms.status = "approved")
        BY RegistryAssumption
      <3> QED BY <3>1 DEF Approval, Versions
    <2> HIDE DEF row
    <2>4. approvals' = [approvals EXCEPT ![a] = row]
      BY <2>1 DEF row
    <2>5. /\ approvals' \in [ApprovalIds -> Approval \cup {NoRow}]
          /\ approvals'[a] = row /\ \A b \in ApprovalIds \ {a} : approvals'[b] = approvals[b]
      BY <2>3, <2>4 DEF IInv, TypeOK
    <2>6. \A b \in ApprovalIds : Spent(b)' => approvals'[b] = approvals[b] /\ Spent(b)
      BY <2>3, <2>5 DEF Spent
    <2>7. TypeOK'
      BY <2>2, <2>5 DEF IInv, TypeOK
    <2>8. SameCards(auditLog, auditLog') /\ SameRequests(auditLog, auditLog')
      BY <2>2 DEF SameCards, SameRequests
    <2>9. Desk'
      BY <2>2, <2>8, DeskKept DEF IInv
    <2> QED BY <2>2, <2>6, <2>7, <2>8, <2>9, OtherSteps
  <1>5. ASSUME NEW a \in ApprovalIds, NEW s \in SourceIds, NEW k, NEW v, consume(a, s, k, v)
        PROVE  IInv' /\ \A t \in SourceIds : CardMovesOn(t)
    BY <1>5, ConsumeStep
  <1>6. ASSUME NEW p \in Processes, NEW q \in RequestIds, NEW k \in ProjectKeys,
               NEW scope \in Scopes, createRequest(p, q, k, scope)
        PROVE  IInv' /\ \A t \in SourceIds : CardMovesOn(t)
    <2>1. UNCHANGED <<cards, fts, approvals, auditLog>>
      BY <1>6 DEF createRequest
    <2>2. TypeOK' /\ Desk'
      BY <1>6, RequestCreated DEF IInv
    <2> QED BY <2>1, <2>2, OtherSteps DEF Spent, SameCards
  <1>7. ASSUME NEW p \in Processes, auditRequest(p) \/ loseAudit(p)
        PROVE  IInv' /\ \A t \in SourceIds : CardMovesOn(t)
    <2>1. UNCHANGED <<cards, fts, approvals>>
      BY <1>7 DEF auditRequest, loseAudit
    <2>2. TypeOK' /\ Desk' /\ SameCards(auditLog, auditLog')
      BY <1>7, RequestAudited DEF IInv
    <2> QED BY <2>1, <2>2, OtherSteps DEF Spent
  <1>8. ASSUME NEW q \in RequestIds, NEW v, NEW scope \in Scopes, NEW s \in SourceIds,
               resolveRequest(q, v, s, scope)
        PROVE  IInv' /\ \A t \in SourceIds : CardMovesOn(t)
    <2>1. UNCHANGED <<cards, fts, approvals>>
      BY <1>8 DEF resolveRequest
    <2>2. TypeOK' /\ Desk' /\ SameCards(auditLog, auditLog')
      BY <1>8, RequestClosed DEF IInv
    <2> QED BY <2>1, <2>2, OtherSteps DEF Spent
  <1>9. ASSUME NEW q \in RequestIds, NEW v, NEW scope \in Scopes, cancelRequest(q, v, scope)
        PROVE  IInv' /\ \A t \in SourceIds : CardMovesOn(t)
    <2>1. UNCHANGED <<cards, fts, approvals>>
      BY <1>9 DEF cancelRequest
    <2>2. TypeOK' /\ Desk' /\ SameCards(auditLog, auditLog')
      BY <1>9, RequestClosed DEF IInv
    <2> QED BY <2>1, <2>2, OtherSteps DEF Spent
  <1>10. CASE Tick \/ UNCHANGED vars
    <2>1. UNCHANGED <<cards, fts, requests, approvals, auditLog, pending, unaudited>>
            /\ now' \in Nat
      BY <1>10 DEF Tick, vars, IInv, TypeOK
    <2>2. SameCards(auditLog, auditLog') /\ SameRequests(auditLog, auditLog')
      BY <2>1 DEF SameCards, SameRequests
    <2>3. Desk'
      BY <2>1, <2>2, DeskKept DEF IInv
    <2>4. TypeOK'
      BY <2>1 DEF IInv, TypeOK
    <2> QED BY <2>1, <2>2, <2>3, <2>4, OtherSteps DEF Spent
  <1> QED BY <1>1, <1>2, <1>3, <1>4, <1>5, <1>6, <1>7, <1>8, <1>9, <1>10 DEF Next

LEMMA RegistryInvariant == Spec => []IInv
  <1>1. Init => IInv
    BY Initially
  <1>2. IInv /\ [Next]_vars => IInv'
    BY Step
  <1> QED BY <1>1, <1>2, PTL DEF Spec

-----------------------------------------------------------------------------
(* The tables are of their type and the index of the search shows every    *)
(* card with its status (updateCardStatus, insertCard).                    *)
THEOREM RegistryIsConsistent == Spec => []RegistryConsistent
  <1>1. IInv => RegistryConsistent
    BY DEF IInv, Shelf, RegistryConsistent
  <1> QED BY <1>1, RegistryInvariant, PTL

(* A card has at most one successor, of its own project, and is out of use *)
(* from then on (registerSource, transitionCard).                          *)
THEOREM LineageNeverForks == Spec => []LineageDoesNotFork
  <1>1. IInv => LineageDoesNotFork
    BY DEF IInv, Shelf
  <1> QED BY <1>1, RegistryInvariant, PTL

(* The versions of the cards and the closings of the requests are those    *)
(* the audit log tells (writeAudit beside every change).                   *)
THEOREM AuditAlwaysTells == Spec => []AuditTellsTheHistory
  <1>1. IInv => AuditTellsTheHistory
    BY DEF IInv, Shelf, Desk, AuditTellsTheHistory
  <1> QED BY <1>1, RegistryInvariant, PTL

(* An approval that is consumed after it was inserted is spent once, in    *)
(* time, on the card and the version it was given for                      *)
(* (ArcaArchiveApprovalConsumer.consume).                                  *)
THEOREM ApprovalsAreSpentOnce == Spec => []ApprovalIsSpentOnItsArchive
  <1>1. IInv => ApprovalIsSpentOnItsArchive
    BY DEF IInv
  <1> QED BY <1>1, RegistryInvariant, PTL

(* The identity of a card never changes, and out of use stays out of use   *)
(* (allowedCardTransition).                                                *)
THEOREM CardsAlwaysMoveOn == Spec => CardsMoveOn
  <1>1. IInv /\ [Next]_vars =>
          [\A s \in SourceIds :
             IsRow(cards[s]) =>
               /\ IsRow(cards'[s])
               /\ \A field \in {"projectId", "classification", "allowedRoles",
                                "supersedesSourceId"} : cards'[s][field] = cards[s][field]
               /\ cards[s].status = "superseded" =>
                    cards'[s].status \in {"superseded", "archived"}
               /\ cards[s].status = "archived" => cards'[s] = cards[s]]_vars
    BY Step DEF CardMovesOn
  <1> QED BY <1>1, RegistryInvariant, PTL DEF Spec, CardsMoveOn

-----------------------------------------------------------------------------
(* An approval is a permission that is used once.  What is left to show is *)
(* that nothing but consume writes an archiving into the log, and that a   *)
(* card that is archived keeps the version it was archived at.             *)

LEMMA OnlyConsumed ==
  ASSUME IInv, [Next]_vars,
         \A a \in ApprovalIds, s \in SourceIds, k \in ProjectKeys, v \in 1 .. MaxVersion :
           ~consume(a, s, k, v)
  PROVE  /\ \A t \in SourceIds : Archived(auditLog', t) = Archived(auditLog, t)
         /\ \/ approvals' = approvals
            \/ now' = now /\ \E a \in ApprovalIds : insertApproval(a)
         /\ now' = now \/ now' = now + 1
  <1> DEFINE Rest == /\ \A t \in SourceIds : Archived(auditLog', t) = Archived(auditLog, t)
                     /\ approvals' = approvals /\ now' = now
  <1>1. ASSUME NEW action \in {"source_registered", "source_lifecycle_changed",
                               "source_lookup_not_found"},
               NEW s \in SourceIds \cup {None}, Entry(action, s, None) \in AuditEntry,
               writeAudit(Entry(action, s, None)), UNCHANGED <<approvals, now>>
        PROVE  Rest
    BY <1>1, CardRecorded DEF IInv, TypeOK
  <1>2. ASSUME NEW s \in SourceIds, NEW scope \in Scopes,
               \/ \E input \in SourceInputs : registerSource(s, input, scope)
               \/ findVisibleById(s, scope)
               \/ \E v \in 1 .. MaxVersion, to \in CardStatus : transitionCard(s, v, to, scope)
        PROVE  Rest
    <2>1. CASE \E input \in SourceInputs : registerSource(s, input, scope)
      BY <2>1, <1>1, EntriesAreTyped DEF registerSource, writeScopedAudit
    <2>2. CASE findVisibleById(s, scope)
      BY <2>2, <1>1, EntriesAreTyped DEF findVisibleById, writeScopedAudit
    <2>3. CASE \E v \in 1 .. MaxVersion, to \in CardStatus : transitionCard(s, v, to, scope)
      BY <2>3, <1>1, EntriesAreTyped DEF transitionCard, writeScopedAudit
    <2> QED BY <1>2, <2>1, <2>2, <2>3
  <1>3. ASSUME NEW p \in Processes,
               \/ \E q \in RequestIds, k \in ProjectKeys, scope \in Scopes :
                    createRequest(p, q, k, scope)
               \/ auditRequest(p) \/ loseAudit(p)
        PROVE  Rest
    <2>1. CASE auditRequest(p) \/ loseAudit(p)
      <3>1. UNCHANGED <<approvals, now>>
        BY <2>1 DEF auditRequest, loseAudit
      <3> QED BY <2>1, <3>1, RequestAudited DEF IInv, SameCards
    <2>2. CASE \E q \in RequestIds, k \in ProjectKeys, scope \in Scopes :
                 createRequest(p, q, k, scope)
      BY <2>2 DEF createRequest
    <2> QED BY <1>3, <2>1, <2>2
  <1>4. ASSUME NEW q \in RequestIds, NEW v \in 1 .. MaxVersion, NEW scope \in Scopes,
               \/ \E s \in SourceIds : resolveRequest(q, v, s, scope)
               \/ cancelRequest(q, v, scope)
        PROVE  Rest
    <2>1. CASE \E s \in SourceIds : resolveRequest(q, v, s, scope)
      <3>1. PICK s \in SourceIds : resolveRequest(q, v, s, scope)
        BY <2>1
      <3>2. UNCHANGED <<approvals, now>>
        BY <3>1 DEF resolveRequest
      <3> QED BY <3>1, <3>2, RequestClosed DEF IInv, SameCards
    <2>2. CASE cancelRequest(q, v, scope)
      <3>1. UNCHANGED <<approvals, now>>
        BY <2>2 DEF cancelRequest
      <3> QED BY <2>2, <3>1, RequestClosed DEF IInv, SameCards
    <2> QED BY <1>4, <2>1, <2>2
  <1>5. ASSUME NEW a \in ApprovalIds, insertApproval(a)
        PROVE  auditLog' = auditLog /\ now' = now
    BY <1>5 DEF insertApproval
  <1>6. CASE Tick
    BY <1>6 DEF Tick
  <1>7. CASE UNCHANGED vars
    BY <1>7 DEF vars
  <1> HIDE DEF Rest
  <1>8. \/ Rest \/ Tick \/ UNCHANGED vars
        \/ \E a \in ApprovalIds : insertApproval(a)
    BY <1>2, <1>3, <1>4 DEF Next
  <1> QED BY <1>5, <1>6, <1>7, <1>8 DEF Rest

LEMMA ArchivedKept ==
  ASSUME IInv, \A t \in SourceIds : CardMovesOn(t),
         \A t \in SourceIds : Archived(auditLog', t) = Archived(auditLog, t)
  PROVE  archived' = archived
  <1>1. ASSUME NEW s \in SourceIds, NEW v
        PROVE  (IF ArchivedAt(s, v) THEN Archived(auditLog, s) ELSE 0)
                 = (IF ArchivedAt(s, v)' THEN Archived(auditLog', s) ELSE 0)
    <2>1. CASE Archived(auditLog, s) = 0
      BY <2>1
    <2>2. CASE Archived(auditLog, s) # 0
      <3>1. cards[s].status = "archived"
        BY <2>2 DEF IInv, Shelf, NoHistory
      <3>2. IsRow(cards[s])
        BY <3>1 DEF IsRow, NoRow
      <3>3. cards'[s] = cards[s]
        BY <3>1, <3>2 DEF CardMovesOn
      <3> QED BY <3>3 DEF ArchivedAt
    <2> QED BY <2>1, <2>2
  <1>2. \A x \in Archivings : x[1] \in SourceIds
    BY DEF Archivings
  <1> QED BY <1>1, <1>2 DEF archived, Archived

(* ConsumeStep says what spending does; here it is what Spend allows.      *)
LEMMA ConsumeIsSpend ==
  ASSUME IInv, NEW a \in ApprovalIds, NEW s \in SourceIds, NEW k, NEW v \in 1 .. MaxVersion,
         consume(a, s, k, v)
  PROVE  Permission!Spend(a)
  <1>1. /\ IsRow(approvals[a]) /\ approvals[a] \in Approval
        /\ approvals[a].sourceId = s /\ approvals[a].metadataVersion = v
        /\ approvals[a].status = "approved" /\ now < approvals[a].expiresAt
        /\ approvals[a].consumedAt = None /\ ~approvals[a].insertedConsumed
        /\ approvals' = [approvals EXCEPT ![a].consumedAt = now]
        /\ writeAudit(Entry("source_archived", s, None)) /\ now' = now
    BY ApprovalRow DEF consume, Usable, IInv, TypeOK, Approval
  <1>2. /\ IsRow(cards[s]) /\ cards[s] \in SourceCard
        /\ cards[s].metadataVersion = v /\ cards[s].status # "archived"
        /\ updateCardStatus(s, "archived", v) /\ "archived" \in CardStatus
    BY CardRow, CardTransitions DEF consume, archiveApproved, VersionMatches, IInv, TypeOK,
       CardStatus
  <1>3. /\ \A b \in ApprovalIds \ {a} : approvals'[b] = approvals[b]
        /\ IsRow(approvals'[a]) /\ approvals'[a].status = approvals[a].status
        /\ approvals'[a].sourceId = s /\ approvals'[a].metadataVersion = v
        /\ approvals'[a].expiresAt = approvals[a].expiresAt
        /\ approvals'[a].consumedAt = now /\ ~approvals'[a].insertedConsumed
    <2> DEFINE row == [approvals[a] EXCEPT !.consumedAt = now]
    <2>1. now \in Int
      BY DEF IInv, TypeOK
    <2>2. /\ row \in Approval /\ row.sourceId = s /\ row.metadataVersion = v
          /\ row.status = approvals[a].status /\ row.expiresAt = approvals[a].expiresAt
          /\ row.consumedAt = now /\ ~row.insertedConsumed
      BY <1>1, <2>1 DEF Approval
    <2>3. approvals' = [approvals EXCEPT ![a] = row]
      BY <1>1 DEF IInv, TypeOK
    <2> HIDE DEF row
    <2>4. approvals'[a] = row /\ \A b \in ApprovalIds \ {a} : approvals'[b] = approvals[b]
      BY <2>3 DEF IInv, TypeOK
    <2> QED BY <2>2, <2>4, ApprovalRow
  <1>4. now # None
    BY RegistryAssumption DEF IInv, TypeOK
  <1>5. { b \in ApprovalIds : Spent(b)' } = { b \in ApprovalIds : Spent(b) } \cup {a}
    BY <1>1, <1>3, <1>4 DEF Spent
  <1>6. approvalTerms' = approvalTerms
    BY <1>1, <1>3 DEF approvalTerms
  <1>7. /\ approvalTerms[a] = [purpose |-> <<s, v>>, until |-> approvals[a].expiresAt]
        /\ approvalTerms[a] # NoRow
    <2>1. approvalTerms[a] = [purpose |-> <<s, v>>, until |-> approvals[a].expiresAt]
      BY <1>1 DEF approvalTerms
    <2>2. "purpose" \in DOMAIN approvalTerms[a] /\ "purpose" \notin DOMAIN NoRow
      BY <2>1 DEF NoRow
    <2> QED BY <2>1, <2>2
  <1>8. \A t \in SourceIds : Archived(auditLog', t) =
          IF s = t THEN Archived(auditLog, t) + 1 ELSE Archived(auditLog, t)
    BY <1>1, CardRecorded, EntriesAreTyped, SMTT(40) DEF IInv, TypeOK
  <1>9. Archived(auditLog, s) = 0
    BY <1>2 DEF IInv, Shelf, NoHistory
  <1>10. /\ IsRow(cards'[s]) /\ cards'[s].metadataVersion = v + 1
         /\ \A t \in SourceIds \ {s} : cards'[t] = cards[t]
    BY <1>2, CardMoved, MovedRow, CardRow DEF IInv
  <1>11. archived' = [archived EXCEPT ![<<s, v>>] = @ + 1]
    <2>1. ASSUME NEW x \in Archivings
          PROVE  archived'[x] = IF x = <<s, v>> THEN archived[x] + 1 ELSE archived[x]
      <3>1. PICK t \in SourceIds, u \in Nat \ {0} : x = <<t, u>>
        BY RegistryAssumption DEF Archivings
      <3>2. /\ archived[x] = IF ArchivedAt(t, u) THEN Archived(auditLog, t) ELSE 0
            /\ archived'[x] = IF ArchivedAt(t, u)' THEN Archived(auditLog', t) ELSE 0
        BY <3>1 DEF archived, Archived
      <3>3. CASE t # s
        <4>1. ArchivedAt(t, u)' = ArchivedAt(t, u) /\ Archived(auditLog', t) = Archived(auditLog, t)
          BY <1>8, <1>10, <3>3 DEF ArchivedAt
        <4> QED BY <3>1, <3>2, <3>3, <4>1
      <3>4. CASE t = s
        <4>1. archived[x] = 0
          BY <1>9, <3>2, <3>4
        <4>2. ArchivedAt(t, u)' <=> u = v
          BY <1>10, <3>1, <3>4 DEF ArchivedAt
        <4>3. Archived(auditLog', t) = 1
          BY <1>8, <1>9, <3>4
        <4> QED BY <3>1, <3>2, <3>4, <4>1, <4>2, <4>3
      <3> QED BY <3>3, <3>4
    <2>2. archived = [x \in Archivings |-> archived[x]]
          /\ archived' = [x \in Archivings |-> archived'[x]]
      BY DEF archived
    <2>3. archived' = [x \in Archivings |-> IF x = <<s, v>> THEN archived[x] + 1 ELSE archived[x]]
      BY <2>1, <2>2
    <2> QED BY <2>2, <2>3
  <1>12. a \notin { b \in ApprovalIds : Spent(b) }
    BY <1>1 DEF Spent
  <1> QED BY <1>1, <1>5, <1>6, <1>7, <1>11, <1>12 DEF Permission!Spend

(* ArcaArchiveApprovalConsumer.consume: approvals are used once, in time,  *)
(* each for the archiving it was given for, and the log has no other       *)
(* archiving than those: none for an approval that was inserted as         *)
(* consumed.                                                               *)
THEOREM ApprovalsAreUsedOnce == Spec => ApprovalsAreSingleUse
  <1>1. Init => Permission!Init
    <2> SUFFICES ASSUME Init PROVE Permission!Init
      OBVIOUS
    <2>1. /\ now = 0 /\ \A a \in ApprovalIds : ~IsRow(approvals[a])
          /\ \A s \in SourceIds : ~IsRow(cards[s])
      BY DEF Init, IsRow
    <2>2. \A x \in Archivings : x[1] \in SourceIds
      BY DEF Archivings
    <2> QED BY <2>1, <2>2 DEF Permission!Init, approvalTerms, archived, ArchivedAt, Spent
  <1>2. IInv /\ [Next]_vars => [Permission!Next]_(Permission!vars)
    <2> SUFFICES ASSUME IInv, [Next]_vars
                 PROVE  [Permission!Next]_(Permission!vars)
      OBVIOUS
    <2>1. ASSUME NEW a \in ApprovalIds, NEW s \in SourceIds, NEW k \in ProjectKeys,
                 NEW v \in 1 .. MaxVersion, consume(a, s, k, v)
          PROVE  Permission!Next
      BY <2>1, ConsumeIsSpend DEF Permission!Next
    <2>2. CASE \A a \in ApprovalIds, s \in SourceIds, k \in ProjectKeys, v \in 1 .. MaxVersion :
                 ~consume(a, s, k, v)
      <3>1. /\ archived' = archived
            /\ \/ approvals' = approvals
               \/ now' = now /\ \E a \in ApprovalIds : insertApproval(a)
            /\ now' = now \/ now' = now + 1
        BY <2>2, OnlyConsumed, Step, ArchivedKept
      <3>2. CASE approvals' = approvals
        <4>1. /\ approvalTerms' = approvalTerms
              /\ { a \in ApprovalIds : Spent(a)' } = { a \in ApprovalIds : Spent(a) }
          BY <3>2 DEF approvalTerms, Spent
        <4>2. now \in Int
          BY DEF IInv, TypeOK
        <4> QED BY <3>1, <4>1, <4>2 DEF Permission!Next, Permission!Pass, Permission!vars
      <3>3. ASSUME NEW a \in ApprovalIds, insertApproval(a), now' = now
            PROVE  [Permission!Next]_(Permission!vars)
        <4>1. PICK s \in SourceIds, terms \in ApprovalTerms :
                approvals' = [approvals EXCEPT ![a] =
                  [sourceId |-> s, projectKey |-> terms.projectKey,
                   metadataVersion |-> terms.metadataVersion, status |-> terms.status,
                   expiresAt |-> terms.expiresAt, consumedAt |-> terms.consumedAt,
                   insertedConsumed |-> terms.consumedAt # None]]
          BY <3>3 DEF insertApproval
        <4> DEFINE row == [sourceId |-> s, projectKey |-> terms.projectKey,
                           metadataVersion |-> terms.metadataVersion, status |-> terms.status,
                           expiresAt |-> terms.expiresAt, consumedAt |-> terms.consumedAt,
                           insertedConsumed |-> terms.consumedAt # None]
                   new == [purpose |-> <<s, terms.metadataVersion>>, until |-> terms.expiresAt]
        <4>2. /\ row.sourceId = s /\ row.metadataVersion = terms.metadataVersion
              /\ row.status = terms.status /\ row.expiresAt = terms.expiresAt
              /\ row.insertedConsumed <=> row.consumedAt # None
          OBVIOUS
        <4>3. terms.expiresAt \in Int /\ <<s, terms.metadataVersion>> \in Archivings
          BY RegistryAssumption DEF Archivings
        <4>4. new \in Permission!Terms
          BY <4>3 DEF Permission!Terms
        <4>5. approvals' = [approvals EXCEPT ![a] = row]
          BY <4>1
        <4> HIDE DEF row
        <4>6. approvals'[a] = row /\ \A b \in ApprovalIds \ {a} : approvals'[b] = approvals[b]
          BY <4>5 DEF IInv, TypeOK
        <4>7. ~IsRow(approvals[a])
          BY <3>3 DEF insertApproval
        <4>8. { b \in ApprovalIds : Spent(b)' } = { b \in ApprovalIds : Spent(b) }
          BY <4>2, <4>6, <4>7 DEF Spent
        <4>9. approvalTerms[a] = NoRow
              /\ \A b \in ApprovalIds \ {a} : approvalTerms'[b] = approvalTerms[b]
          BY <4>6, <4>7 DEF approvalTerms
        <4>10. approvalTerms'[a] = NoRow \/ approvalTerms'[a] = new
          BY <4>2, <4>6 DEF approvalTerms
        <4> HIDE DEF new
        <4>11. /\ approvalTerms = [b \in ApprovalIds |-> approvalTerms[b]]
               /\ approvalTerms' = [b \in ApprovalIds |-> approvalTerms'[b]]
          BY DEF approvalTerms
        <4>12. CASE approvalTerms'[a] = NoRow
          <5>1. approvalTerms' = approvalTerms
            BY <4>9, <4>11, <4>12
          <5> QED BY <3>1, <3>3, <4>8, <5>1 DEF Permission!vars
        <4>13. CASE approvalTerms'[a] = new
          <5>1. approvalTerms' = [approvalTerms EXCEPT ![a] = approvalTerms'[a]]
            BY <4>9, <4>11
          <5>2. Permission!Grant(a)
            BY <3>1, <3>3, <4>4, <4>8, <4>9, <4>13, <5>1 DEF Permission!Grant
          <5> QED BY <5>2 DEF Permission!Next
        <4> QED BY <4>10, <4>12, <4>13
      <3> QED BY <3>1, <3>2, <3>3
    <2> QED BY <2>1, <2>2
  <1> QED BY <1>1, <1>2, RegistryInvariant, PTL DEF Spec, ApprovalsAreSingleUse, Permission!Spec

\* No operation takes anything back: neither a card's end nor the use of an
\* approval (see NothingIsTakenBack).
THEOREM NothingIsEverTakenBack == Spec => NothingIsTakenBack
<1>1. CardsMoveOn /\ ApprovalsAreSingleUse => NothingIsTakenBack
  BY DEF NothingIsTakenBack
<1> QED
  BY <1>1, CardsAlwaysMoveOn, ApprovalsAreUsedOnce
=============================================================================
