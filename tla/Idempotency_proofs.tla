------------------------- MODULE Idempotency_proofs ------------------------
(***************************************************************************)
(* Theorems about Idempotency, for any requests, keys and bodies.          *)
(***************************************************************************)
EXTENDS Idempotency, TLAPS

(***************************************************************************)
(* Type correctness.  It includes that the columns of a row agree: the     *)
(* steps below need it of discard, which may delete another's row.         *)
(***************************************************************************)

LEMMA DiscardType ==
  ASSUME TypeOK, NEW q \in Request, discard(q)
  PROVE  /\ state'    \in [Key -> {"absent", "in_progress", "completed"}]
         /\ body'     \in [Key -> Body \cup {None}]
         /\ response' \in [Key -> Request \cup {None}]
         /\ \A k \in Key : /\ body'[k] = None <=> state'[k] = "absent"
                           /\ response'[k] # None <=> state'[k] = "completed"
         /\ expired' \subseteq { k \in Key : state'[k] # "absent" }
  <1>1. KeyOf[q] \in Key
    BY IdempotencyAssumption
  <1>2. CASE InProgress(q)
    <2>1. /\ state' = [state EXCEPT ![KeyOf[q]] = "absent"]
          /\ body'  = [body EXCEPT ![KeyOf[q]] = None]
          /\ expired' = expired \ {KeyOf[q]}
          /\ response' = response
      BY <1>2 DEF discard
    <2>2. /\ state'    \in [Key -> {"absent", "in_progress", "completed"}]
          /\ body'     \in [Key -> Body \cup {None}]
          /\ response' \in [Key -> Request \cup {None}]
      BY <1>1, <2>1 DEF TypeOK
    <2>3. \A k \in Key : /\ body'[k] = None <=> state'[k] = "absent"
                         /\ response'[k] # None <=> state'[k] = "completed"
      BY <1>1, <1>2, <2>1 DEF TypeOK, InProgress
    <2>4. expired' \subseteq { k \in Key : state'[k] # "absent" }
      BY <1>1, <2>1 DEF TypeOK
    <2> QED
      BY <2>2, <2>3, <2>4
  <1>3. CASE ~InProgress(q)
    BY <1>3 DEF TypeOK, discard, records
  <1> QED
    BY <1>2, <1>3

LEMMA AbandonType ==
  ASSUME TypeOK, NEW q \in Request, Abandon(q)
  PROVE  TypeOK'
  <1>1. CASE discard(q) /\ pc' = [pc EXCEPT ![q] = "refused"] /\ UNCHANGED faults
    BY <1>1, DiscardType DEF TypeOK, Abandon
  <1>2. CASE /\ faults < MaxFaults /\ faults' = faults + 1
             /\ pc' = [pc EXCEPT ![q] = "stranded"]
             /\ UNCHANGED <<records, expired>>
    BY <1>2, IdempotencyAssumption DEF TypeOK, Abandon, records
  <1> QED
    BY <1>1, <1>2 DEF Abandon

LEMMA CompleteType ==
  ASSUME TypeOK, NEW q \in Request, complete(q), done' \subseteq Request
  PROVE  TypeOK'
  <1>1. KeyOf[q] \in Key /\ None \notin Request
    BY IdempotencyAssumption
  <1> QED
    BY <1>1 DEF TypeOK, complete, InProgress, bounds

LEMMA PurgeType ==
  ASSUME TypeOK, NEW q \in Request, DeleteExpired,
         UNCHANGED <<answer, bounds>>,
         pc' \in [Request -> {"new", "working", "worked", "waiting",
                              "answered", "refused", "stranded"}],
         \/ /\ ~Kept(KeyOf[q])
            /\ state' = [Column(state, "absent") EXCEPT ![KeyOf[q]] = "in_progress"]
            /\ body'  = [Column(body, None) EXCEPT ![KeyOf[q]] = BodyOf[q]]
         \/ state' = Column(state, "absent") /\ body' = Column(body, None)
  PROVE  TypeOK'
  <1>1. KeyOf[q] \in Key /\ BodyOf[q] \in Body /\ None \notin Request \cup Body
    BY IdempotencyAssumption
  <1>2. /\ done' \subseteq Request /\ renewed' \subseteq Key
        /\ expired' = {} /\ answer' = answer
        /\ expiries' = expiries /\ faults' = faults
    BY DEF TypeOK, DeleteExpired, bounds
  <1>3. /\ state'    \in [Key -> {"absent", "in_progress", "completed"}]
        /\ body'     \in [Key -> Body \cup {None}]
        /\ response' \in [Key -> Request \cup {None}]
    BY <1>1, ZenonT(40) DEF TypeOK, DeleteExpired, Column
  <1>4. \A k \in Key : /\ body'[k] = None <=> state'[k] = "absent"
                       /\ response'[k] # None <=> state'[k] = "completed"
    <2> SUFFICES ASSUME NEW k \in Key
                 PROVE  /\ body'[k] = None <=> state'[k] = "absent"
                        /\ response'[k] # None <=> state'[k] = "completed"
      OBVIOUS
    <2>1. response'[k] = IF Kept(k) THEN response[k] ELSE None
      BY DEF DeleteExpired, Column
    <2>2. CASE k = KeyOf[q] /\ ~Kept(k)
               /\ state'[k] = "in_progress" /\ body'[k] = BodyOf[q]
      BY <1>1, <2>1, <2>2
    <2>3. CASE /\ state'[k] = IF Kept(k) THEN state[k] ELSE "absent"
               /\ body'[k]  = IF Kept(k) THEN body[k] ELSE None
      BY <2>1, <2>3 DEF TypeOK, Kept
    <2> QED
      BY <1>1, <2>2, <2>3 DEF Column
  <1> QED
    BY <1>2, <1>3, <1>4 DEF TypeOK

LEMMA NextType ==
  ASSUME TypeOK, [Next]_vars
  PROVE  TypeOK'
  <1> USE IdempotencyAssumption
  <1>1. ASSUME NEW q \in Request, Reserve(q)
        PROVE  TypeOK'
    <2>1. pc' \in [Request -> {"new", "working", "worked", "waiting",
                               "answered", "refused", "stranded"}]
      BY <1>1 DEF Reserve, TypeOK
    <2> QED
      BY <1>1, <2>1, PurgeType DEF Reserve
  <1>2. ASSUME NEW q \in Request, Replay(q)
        PROVE  TypeOK'
    <2>1. pc' \in [Request -> {"new", "working", "worked", "waiting",
                               "answered", "refused", "stranded"}]
      BY <1>2 DEF Replay, TypeOK
    <2> QED
      BY <1>2, <2>1, PurgeType DEF Replay
  <1>3. ASSUME NEW q \in Request, Conflict(q)
        PROVE  TypeOK'
    BY <1>3 DEF Conflict, TypeOK, records, bounds
  <1>4. ASSUME NEW q \in Request, Mutate(q)
        PROVE  TypeOK'
    BY <1>4, CompleteType DEF Mutate, TypeOK
  <1>5. ASSUME NEW q \in Request, Fail(q)
        PROVE  TypeOK'
    BY <1>5, AbandonType DEF Fail
  <1>6. ASSUME NEW q \in Request, Work(q)
        PROVE  TypeOK'
    BY <1>6 DEF Work, TypeOK, records, bounds
  <1>7. ASSUME NEW q \in Request, Complete(q)
        PROVE  TypeOK'
    BY <1>7, CompleteType DEF Complete, TypeOK
  <1>8. ASSUME NEW q \in Request, NotCompleted(q)
        PROVE  TypeOK'
    <2>1. CASE Abandon(q)
      BY <2>1, AbandonType
    <2>2. CASE /\ faults < MaxFaults /\ faults' = faults + 1
               /\ discard(q)
               /\ pc' = [pc EXCEPT ![q] = "refused"]
               /\ UNCHANGED <<renewed, answer, done, expiries>>
      BY <2>2, DiscardType DEF TypeOK
    <2>3. CASE /\ faults + 1 < MaxFaults /\ faults' = faults + 2
               /\ pc' = [pc EXCEPT ![q] = "stranded"]
               /\ UNCHANGED <<records, expired, renewed, answer, done, expiries>>
      BY <2>3 DEF TypeOK, records
    <2> QED
      BY <1>8, <2>1, <2>2, <2>3 DEF NotCompleted
  <1>9. ASSUME NEW q \in Request, Poll(q)
        PROVE  TypeOK'
    BY <1>9 DEF Poll, TypeOK, records, bounds
  <1>10. ASSUME NEW q \in Request, GiveUp(q)
         PROVE  TypeOK'
    BY <1>10 DEF GiveUp, TypeOK, records, bounds
  <1>11. ASSUME NEW q \in Request, Crash(q)
         PROVE  TypeOK'
    BY <1>11 DEF Crash, TypeOK, records, bounds
  <1>12. ASSUME NEW k \in Key, Expire(k)
         PROVE  TypeOK'
    BY <1>12 DEF Expire, TypeOK, records
  <1>13. CASE UNCHANGED vars
    BY <1>13 DEF TypeOK, vars, records, bounds
  <1> QED
    BY <1>1, <1>2, <1>3, <1>4, <1>5, <1>6, <1>7, <1>8, <1>9, <1>10, <1>11,
       <1>12, <1>13 DEF Next, Serve

\* The state of every reachable configuration is of its type, and the three
\* columns of a record agree, whatever requests are served in whatever order.
THEOREM TypeCorrect == Spec => []TypeOK
<1>1. Init => TypeOK
  BY IdempotencyAssumption DEF Init, TypeOK
<1>2. TypeOK /\ [Next]_vars => TypeOK'
  BY NextType
<1> QED
  BY <1>1, <1>2, PTL DEF Spec

-----------------------------------------------------------------------------
(***************************************************************************)
(* What a step can do to a recorded response: leave it, or purge it when   *)
(* it has expired.                                                         *)
(***************************************************************************)

LEMMA DiscardStays ==
  ASSUME TypeOK, NEW q \in Request, discard(q),
         NEW k \in Key, state[k] = "completed"
  PROVE  state'[k] = "completed" /\ response'[k] = response[k]
  <1>1. KeyOf[q] \in Key
    BY IdempotencyAssumption
  <1>2. CASE InProgress(q)
    BY <1>1, <1>2 DEF TypeOK, discard, InProgress
  <1>3. CASE ~InProgress(q)
    BY <1>3 DEF discard, records
  <1> QED
    BY <1>2, <1>3

LEMMA CompletedStays ==
  ASSUME TypeOK, [Next]_vars, NEW k \in Key, state[k] = "completed"
  PROVE  \/ state'[k] = "completed" /\ response'[k] = response[k]
         \/ k \in expired /\ DeleteExpired
  <1> USE IdempotencyAssumption
  <1> DEFINE Stays == state'[k] = "completed" /\ response'[k] = response[k]
  <1> DEFINE Purged == k \in expired /\ DeleteExpired
  <1>1. ASSUME NEW q \in Request, Reserve(q)
        PROVE  Stays \/ Purged
    <2>1. CASE k \in expired
      BY <1>1, <2>1 DEF Reserve
    <2>2. CASE k \notin expired
      <3>1. Kept(k) /\ k # KeyOf[q]
        BY <1>1, <2>2 DEF Reserve, Kept
      <3> QED
        BY <1>1, <3>1 DEF Reserve, DeleteExpired, Column
    <2> QED
      BY <2>1, <2>2
  <1>2. ASSUME NEW q \in Request, Replay(q)
        PROVE  Stays \/ Purged
    BY <1>2 DEF Replay, DeleteExpired, Column, Kept
  <1>3. ASSUME NEW q \in Request, complete(q)
        PROVE  Stays
    BY <1>3 DEF complete, InProgress, TypeOK
  <1>4. ASSUME NEW q \in Request, Abandon(q)
        PROVE  Stays
    BY <1>4, DiscardStays DEF Abandon, records
  <1>5. ASSUME NEW q \in Request, NotCompleted(q)
        PROVE  Stays
    BY <1>4, <1>5, DiscardStays DEF NotCompleted, records
  <1>6. CASE UNCHANGED records
    BY <1>6 DEF records
  <1> QED
    BY <1>1, <1>2, <1>3, <1>4, <1>5, <1>6
    DEF Next, Serve, Conflict, Mutate, Fail, Work, Complete, Poll, GiveUp,
        Crash, Expire, vars

\* A recorded response stays until it expires, whatever other requests of the
\* key complete, fail or discard.
THEOREM RecordedResponsesStand == Spec => ResponsesStand
<1>1. TypeOK /\ [Next]_vars =>
        [\A k \in Key : state[k] = "completed" /\ k \notin expired =>
           state'[k] = "completed" /\ response'[k] = response[k]]_vars
  BY CompletedStays
<1> QED
  BY <1>1, TypeCorrect, PTL DEF Spec, ResponsesStand

-----------------------------------------------------------------------------
\* A step adds to `done` the work of an atomic key only together with its
\* response, and takes work out of it only when the record is purged.
LEMMA AtomicStep ==
  ASSUME TypeOK, AtomicIsOnce, [Next]_vars
  PROVE  AtomicIsOnce'
  <1> SUFFICES ASSUME NEW q \in done', KeyOf[q] \in Atomic
               PROVE  state'[KeyOf[q]] = "completed" /\ response'[KeyOf[q]] = q
    BY DEF AtomicIsOnce
  <1>0. done' \subseteq Request
    BY NextType DEF TypeOK
  <1>1. q \in Request /\ KeyOf[q] \in Key
    BY <1>0, IdempotencyAssumption
  <1>2. CASE q \in done
    <2>1. state[KeyOf[q]] = "completed" /\ response[KeyOf[q]] = q
      BY <1>2 DEF AtomicIsOnce
    <2>2. ~ (KeyOf[q] \in expired /\ DeleteExpired)
      BY DEF DeleteExpired
    <2> QED
      BY <1>1, <2>1, <2>2, CompletedStays
  <1>3. CASE q \notin done
    <2>1. Mutate(q)
      <3>1. ASSUME NEW p \in Request, Reserve(p) \/ Replay(p)
            PROVE  FALSE
        BY <1>3, <3>1 DEF Reserve, Replay, DeleteExpired
      <3>2. ASSUME NEW p \in Request, Mutate(p)
            PROVE  Mutate(q)
        BY <1>3, <3>2 DEF Mutate
      <3>3. ASSUME NEW p \in Request, Work(p)
            PROVE  FALSE
        BY <1>3, <3>3 DEF Work
      <3>4. CASE UNCHANGED done
        BY <1>3, <3>4
      <3> QED
        BY <3>1, <3>2, <3>3, <3>4
        DEF Next, Serve, Conflict, Fail, Abandon, Complete, NotCompleted, Poll,
            GiveUp, Crash, Expire, vars
    <2> QED
      BY <1>1, <2>1 DEF Mutate, complete, TypeOK
  <1> QED
    BY <1>2, <1>3

\* For a key served by executeAtomic, the work in effect is exactly the work of
\* the request whose response is recorded: it is done at most once.
THEOREM AtomicOnce == Spec => []AtomicIsOnce
<1>1. Init => AtomicIsOnce
  BY DEF Init, AtomicIsOnce
<1>2. TypeOK /\ AtomicIsOnce /\ [Next]_vars => AtomicIsOnce'
  BY AtomicStep
<1> QED
  BY <1>1, <1>2, TypeCorrect, PTL DEF Spec

-----------------------------------------------------------------------------
(***************************************************************************)
(* Agreement of the answers.  While no record of a key has expired, the    *)
(* record in progress belongs to the one request at work under the key,    *)
(* so what that request completes or discards is its own.                  *)
(***************************************************************************)
AtWork(q) == pc[q] \in {"working", "worked"} /\ KeyOf[q] \notin renewed

WorkersOwnTheirRecord ==
  \A q \in Request : AtWork(q) =>
    state[KeyOf[q]] = "in_progress" /\ body[KeyOf[q]] = BodyOf[q]

OneWorker ==
  \A q, p \in Request : AtWork(q) /\ AtWork(p) /\ KeyOf[q] = KeyOf[p] => q = p

WorkedIsDone ==
  \A q \in Request : pc[q] = "worked" /\ KeyOf[q] \notin renewed => q \in done

ResponsesAreDone ==
  \A k \in Key \ renewed : state[k] = "completed" =>
    /\ response[k] \in done /\ KeyOf[response[k]] = k
    /\ BodyOf[response[k]] = body[k]

AnswersAreRecorded ==
  \A q \in Request : pc[q] = "answered" /\ KeyOf[q] \notin renewed =>
    state[KeyOf[q]] = "completed" /\ answer[q] = response[KeyOf[q]]

Agreement ==
  WorkersOwnTheirRecord /\ OneWorker /\ WorkedIsDone /\ ResponsesAreDone
    /\ AnswersAreRecorded

\* The purge touches no key that is still not renewed after it.
LEMMA PurgeKeeps ==
  ASSUME TypeOK, DeleteExpired, NEW k \in Key, k \notin renewed'
  PROVE  /\ k \notin renewed
         /\ response'[k] = response[k]
         /\ Column(state, "absent")[k] = state[k]
         /\ Column(body, None)[k] = body[k]
  <1>1. k \notin renewed /\ k \notin expired
    BY DEF DeleteExpired
  <1>2. CASE Kept(k)
    BY <1>1, <1>2 DEF DeleteExpired, Column
  <1>3. CASE ~Kept(k)
    <2>1. state[k] = "absent"
      BY <1>1, <1>3 DEF Kept
    <2>2. body[k] = None /\ response[k] = None
      BY <2>1 DEF TypeOK
    <2> QED
      BY <1>1, <1>3, <2>1, <2>2 DEF DeleteExpired, Column
  <1> QED
    BY <1>2, <1>3

LEMMA PurgeKeepsDone ==
  ASSUME TypeOK, DeleteExpired, NEW q \in done, KeyOf[q] \notin renewed'
  PROVE  q \in done'
  BY DEF DeleteExpired

\* Steps that leave the records and the answers alone, add nothing to who is at
\* work, and take nothing out of `done`.
LEMMA QuietStep ==
  ASSUME TypeOK, Agreement, UNCHANGED records, UNCHANGED answer,
         UNCHANGED renewed, done \subseteq done',
         \A q \in Request : /\ pc'[q] = "worked" => pc[q] = "worked" \/ q \in done'
                            /\ pc'[q] \in {"working", "worked"}
                                 => pc[q] \in {"working", "worked"}
                            /\ pc'[q] = "answered" => pc[q] = "answered"
  PROVE  Agreement'
  <1>0. /\ state' = state /\ body' = body /\ response' = response
        /\ answer' = answer /\ renewed' = renewed
    BY DEF records
  <1>1. WorkersOwnTheirRecord'
    BY <1>0 DEF Agreement, WorkersOwnTheirRecord, AtWork
  <1>2. OneWorker'
    BY <1>0 DEF Agreement, OneWorker, AtWork
  <1>3. WorkedIsDone'
    BY <1>0 DEF Agreement, WorkedIsDone
  <1>4. ResponsesAreDone'
    BY <1>0 DEF Agreement, ResponsesAreDone
  <1>5. AnswersAreRecorded'
    BY <1>0 DEF Agreement, AnswersAreRecorded
  <1> QED
    BY <1>1, <1>2, <1>3, <1>4, <1>5 DEF Agreement

LEMMA DiscardAgrees ==
  ASSUME TypeOK, Agreement, NEW q \in Request, pc[q] \in {"working", "worked"},
         discard(q), pc' = [pc EXCEPT ![q] = "refused"],
         UNCHANGED <<renewed, answer, done>>
  PROVE  Agreement'
  <1> DEFINE key == KeyOf[q]
  <1>0. key \in Key /\ \A p \in Request : KeyOf[p] \in Key
    BY IdempotencyAssumption
  <1>1. /\ \A p \in Request : p # q => pc'[p] = pc[p]
        /\ pc'[q] = "refused"
        /\ renewed' = renewed /\ answer' = answer /\ done' = done
    BY DEF TypeOK
  <1>2. \A k \in Key : k # key \/ state[k] # "in_progress" =>
          state'[k] = state[k] /\ body'[k] = body[k] /\ response'[k] = response[k]
    BY <1>0 DEF TypeOK, discard, InProgress, records
  <1>3. state[key] = "in_progress" => state'[key] = "absent"
    BY <1>0 DEF TypeOK, discard, InProgress
  <1>4. WorkersOwnTheirRecord'
    <2> SUFFICES ASSUME NEW p \in Request, AtWork(p)'
                 PROVE  /\ state'[KeyOf[p]] = "in_progress"
                        /\ body'[KeyOf[p]] = BodyOf[p]
      BY DEF WorkersOwnTheirRecord
    <2>1. p # q /\ AtWork(p)
      BY <1>1 DEF AtWork
    <2>2. KeyOf[p] # key
      BY <1>1, <2>1 DEF Agreement, OneWorker, AtWork
    <2> QED
      BY <1>0, <1>2, <2>1, <2>2 DEF Agreement, WorkersOwnTheirRecord
  <1>5. OneWorker'
    BY <1>1 DEF Agreement, OneWorker, AtWork
  <1>6. WorkedIsDone'
    BY <1>1 DEF Agreement, WorkedIsDone
  <1>7. ResponsesAreDone'
    BY <1>1, <1>2, <1>3 DEF Agreement, ResponsesAreDone
  <1>8. AnswersAreRecorded'
    BY <1>0, <1>1, <1>2 DEF Agreement, AnswersAreRecorded
  <1> QED
    BY <1>4, <1>5, <1>6, <1>7, <1>8 DEF Agreement

LEMMA CompleteAgrees ==
  ASSUME TypeOK, Agreement, NEW q \in Request, pc[q] \in {"working", "worked"},
         complete(q), done \subseteq done',
         KeyOf[q] \notin renewed => q \in done'
  PROVE  Agreement'
  <1> DEFINE key == KeyOf[q]
  <1>0. key \in Key /\ \A p \in Request : KeyOf[p] \in Key
    BY IdempotencyAssumption
  <1>1. /\ \A p \in Request : p # q => pc'[p] = pc[p] /\ answer'[p] = answer[p]
        /\ pc'[q] = "answered" /\ answer'[q] = q
        /\ renewed' = renewed /\ body' = body
    BY DEF TypeOK, complete
  <1>2. /\ \A k \in Key : k # key => state'[k] = state[k] /\ response'[k] = response[k]
        /\ state[key] = "in_progress"
        /\ state'[key] = "completed" /\ response'[key] = q
    BY <1>0 DEF TypeOK, complete, InProgress
  <1>3. WorkersOwnTheirRecord'
    <2> SUFFICES ASSUME NEW p \in Request, AtWork(p)'
                 PROVE  /\ state'[KeyOf[p]] = "in_progress"
                        /\ body'[KeyOf[p]] = BodyOf[p]
      BY DEF WorkersOwnTheirRecord
    <2>1. p # q /\ AtWork(p)
      BY <1>1 DEF AtWork
    <2>2. KeyOf[p] # key
      BY <1>1, <2>1 DEF Agreement, OneWorker, AtWork
    <2> QED
      BY <1>0, <1>1, <1>2, <2>1, <2>2 DEF Agreement, WorkersOwnTheirRecord
  <1>4. OneWorker'
    BY <1>1 DEF Agreement, OneWorker, AtWork
  <1>5. WorkedIsDone'
    BY <1>1 DEF Agreement, WorkedIsDone
  <1>6. ResponsesAreDone'
    <2> SUFFICES ASSUME NEW k \in Key \ renewed', state'[k] = "completed"
                 PROVE  /\ response'[k] \in done' /\ KeyOf[response'[k]] = k
                        /\ BodyOf[response'[k]] = body'[k]
      BY DEF ResponsesAreDone
    <2>1. CASE k = key
      <3>1. AtWork(q)
        BY <1>1, <2>1 DEF AtWork
      <3>2. body[key] = BodyOf[q]
        BY <3>1 DEF Agreement, WorkersOwnTheirRecord
      <3> QED
        BY <1>1, <1>2, <2>1, <3>2
    <2>2. CASE k # key
      BY <1>1, <1>2, <2>2 DEF Agreement, ResponsesAreDone
    <2> QED
      BY <2>1, <2>2
  <1>7. AnswersAreRecorded'
    <2> SUFFICES ASSUME NEW p \in Request, pc'[p] = "answered", KeyOf[p] \notin renewed'
                 PROVE  /\ state'[KeyOf[p]] = "completed"
                        /\ answer'[p] = response'[KeyOf[p]]
      BY DEF AnswersAreRecorded
    <2>1. CASE p = q
      BY <1>1, <1>2, <2>1
    <2>2. CASE p # q
      <3>1. state[KeyOf[p]] = "completed" /\ answer[p] = response[KeyOf[p]]
        BY <1>1, <2>2 DEF Agreement, AnswersAreRecorded
      <3>2. KeyOf[p] # key
        BY <1>2, <3>1
      <3> QED
        BY <1>0, <1>1, <1>2, <2>2, <3>1, <3>2
    <2> QED
      BY <2>1, <2>2
  <1> QED
    BY <1>3, <1>4, <1>5, <1>6, <1>7 DEF Agreement

LEMMA ReserveAgrees ==
  ASSUME TypeOK, Agreement, NEW q \in Request, Reserve(q)
  PROVE  Agreement'
  <1> DEFINE key == KeyOf[q]
  <1>0. key \in Key /\ \A p \in Request : KeyOf[p] \in Key
    BY IdempotencyAssumption
  <1>1. /\ pc[q] = "new" /\ pc'[q] = "working" /\ DeleteExpired
        /\ \A p \in Request : p # q => pc'[p] = pc[p]
        /\ answer' = answer /\ renewed \subseteq renewed'
    BY DEF TypeOK, Reserve, DeleteExpired
  <1>2. \A k \in Key \ renewed' : k # key =>
          state'[k] = state[k] /\ body'[k] = body[k] /\ response'[k] = response[k]
    BY <1>0, <1>1, PurgeKeeps DEF Reserve, Column
  <1>3. state'[key] = "in_progress" /\ body'[key] = BodyOf[q]
    BY <1>0 DEF Reserve, Column
  <1>4. key \notin renewed' => state[key] = "absent"
    BY <1>0 DEF Reserve, DeleteExpired, Kept
  <1>5. \A p \in Request : p # q /\ AtWork(p)' => AtWork(p) /\ KeyOf[p] # key
    <2> SUFFICES ASSUME NEW p \in Request, p # q, AtWork(p)'
                 PROVE  AtWork(p) /\ KeyOf[p] # key
      OBVIOUS
    <2>1. AtWork(p) /\ KeyOf[p] \notin renewed'
      BY <1>1 DEF AtWork
    <2>2. state[KeyOf[p]] = "in_progress"
      BY <2>1 DEF Agreement, WorkersOwnTheirRecord
    <2> QED
      BY <1>4, <2>1, <2>2
  <1>6. WorkersOwnTheirRecord'
    <2> SUFFICES ASSUME NEW p \in Request, AtWork(p)'
                 PROVE  /\ state'[KeyOf[p]] = "in_progress"
                        /\ body'[KeyOf[p]] = BodyOf[p]
      BY DEF WorkersOwnTheirRecord
    <2>1. CASE p = q
      BY <1>3, <2>1
    <2>2. CASE p # q
      <3>1. AtWork(p) /\ KeyOf[p] # key /\ KeyOf[p] \in Key \ renewed'
        BY <1>0, <1>5, <2>2 DEF AtWork
      <3> QED
        BY <1>2, <3>1 DEF Agreement, WorkersOwnTheirRecord
    <2> QED
      BY <2>1, <2>2
  <1>7. OneWorker'
    BY <1>5 DEF Agreement, OneWorker
  <1>8. WorkedIsDone'
    BY <1>1, PurgeKeepsDone DEF Agreement, WorkedIsDone
  <1>9. ResponsesAreDone'
    <2> SUFFICES ASSUME NEW k \in Key \ renewed', state'[k] = "completed"
                 PROVE  /\ response'[k] \in done' /\ KeyOf[response'[k]] = k
                        /\ BodyOf[response'[k]] = body'[k]
      BY DEF ResponsesAreDone
    <2>1. k # key
      BY <1>3
    <2>2. /\ response[k] \in done /\ KeyOf[response[k]] = k
          /\ BodyOf[response[k]] = body[k]
      BY <1>1, <1>2, <2>1 DEF Agreement, ResponsesAreDone
    <2>3. response[k] \in done'
      BY <1>1, <2>2, PurgeKeepsDone
    <2> QED
      BY <1>2, <2>1, <2>2, <2>3
  <1>10. AnswersAreRecorded'
    <2> SUFFICES ASSUME NEW p \in Request, pc'[p] = "answered", KeyOf[p] \notin renewed'
                 PROVE  /\ state'[KeyOf[p]] = "completed"
                        /\ answer'[p] = response'[KeyOf[p]]
      BY DEF AnswersAreRecorded
    <2>1. state[KeyOf[p]] = "completed" /\ answer[p] = response[KeyOf[p]]
      BY <1>1 DEF Agreement, AnswersAreRecorded
    <2>2. KeyOf[p] # key
      BY <1>4, <2>1
    <2> QED
      BY <1>0, <1>1, <1>2, <2>1, <2>2
  <1> QED
    BY <1>6, <1>7, <1>8, <1>9, <1>10 DEF Agreement

LEMMA ReplayAgrees ==
  ASSUME TypeOK, Agreement, NEW q \in Request, Replay(q)
  PROVE  Agreement'
  <1>0. \A p \in Request : KeyOf[p] \in Key
    BY IdempotencyAssumption
  <1>1. /\ pc'[q] = "waiting" /\ DeleteExpired
        /\ \A p \in Request : p # q => pc'[p] = pc[p]
        /\ answer' = answer /\ renewed \subseteq renewed'
    BY DEF TypeOK, Replay, DeleteExpired
  <1>2. \A k \in Key \ renewed' :
          state'[k] = state[k] /\ body'[k] = body[k] /\ response'[k] = response[k]
    BY <1>1, PurgeKeeps DEF Replay
  <1>3. \A p \in Request : AtWork(p)' => AtWork(p) /\ KeyOf[p] \in Key \ renewed'
    BY <1>0, <1>1 DEF AtWork
  <1>4. WorkersOwnTheirRecord'
    BY <1>2, <1>3 DEF Agreement, WorkersOwnTheirRecord
  <1>5. OneWorker'
    BY <1>3 DEF Agreement, OneWorker
  <1>6. WorkedIsDone'
    BY <1>1, PurgeKeepsDone DEF Agreement, WorkedIsDone
  <1>7. ResponsesAreDone'
    BY <1>1, <1>2, PurgeKeepsDone DEF Agreement, ResponsesAreDone
  <1>8. AnswersAreRecorded'
    BY <1>0, <1>1, <1>2 DEF Agreement, AnswersAreRecorded
  <1> QED
    BY <1>4, <1>5, <1>6, <1>7, <1>8 DEF Agreement

LEMMA PollAgrees ==
  ASSUME TypeOK, Agreement, NEW q \in Request, Poll(q)
  PROVE  Agreement'
  <1>0. KeyOf[q] \in Key
    BY IdempotencyAssumption
  <1>1. /\ state[KeyOf[q]] = "completed"
        /\ pc'[q] = "answered" /\ answer'[q] = response[KeyOf[q]]
        /\ \A p \in Request : p # q => pc'[p] = pc[p] /\ answer'[p] = answer[p]
        /\ state' = state /\ body' = body /\ response' = response
        /\ renewed' = renewed /\ done' = done
    BY DEF TypeOK, Poll, records
  <1>2. WorkersOwnTheirRecord' /\ OneWorker'
    BY <1>1 DEF Agreement, WorkersOwnTheirRecord, OneWorker, AtWork
  <1>3. WorkedIsDone' /\ ResponsesAreDone'
    BY <1>1 DEF Agreement, WorkedIsDone, ResponsesAreDone
  <1>4. AnswersAreRecorded'
    BY <1>1 DEF Agreement, AnswersAreRecorded
  <1> QED
    BY <1>2, <1>3, <1>4 DEF Agreement

LEMMA NextAgrees ==
  ASSUME TypeOK, Agreement, [Next]_vars
  PROVE  Agreement'
  <1>1. ASSUME NEW q \in Request, Reserve(q)
        PROVE  Agreement'
    BY <1>1, ReserveAgrees
  <1>2. ASSUME NEW q \in Request, Replay(q)
        PROVE  Agreement'
    BY <1>2, ReplayAgrees
  <1>3. ASSUME NEW q \in Request, Conflict(q) \/ GiveUp(q) \/ Crash(q)
        PROVE  Agreement'
    BY <1>3, QuietStep DEF Conflict, GiveUp, Crash, TypeOK
  <1>4. ASSUME NEW q \in Request, Mutate(q)
        PROVE  Agreement'
    BY <1>4, CompleteAgrees DEF Mutate
  <1>5. ASSUME NEW q \in Request, pc[q] \in {"working", "worked"}, Abandon(q)
        PROVE  Agreement'
    <2>1. CASE discard(q) /\ pc' = [pc EXCEPT ![q] = "refused"]
      BY <1>5, <2>1, DiscardAgrees DEF Abandon
    <2>2. CASE UNCHANGED <<records, expired>> /\ pc' = [pc EXCEPT ![q] = "stranded"]
      BY <1>5, <2>2, QuietStep DEF Abandon, TypeOK
    <2> QED
      BY <1>5, <2>1, <2>2 DEF Abandon
  <1>6. ASSUME NEW q \in Request, Work(q)
        PROVE  Agreement'
    BY <1>6, QuietStep DEF Work, TypeOK
  <1>7. ASSUME NEW q \in Request, Complete(q)
        PROVE  Agreement'
    BY <1>7, CompleteAgrees DEF Complete, Agreement, WorkedIsDone
  <1>8. ASSUME NEW q \in Request, NotCompleted(q)
        PROVE  Agreement'
    <2>1. CASE Abandon(q)
      BY <1>5, <1>8, <2>1 DEF NotCompleted
    <2>2. CASE /\ discard(q) /\ pc' = [pc EXCEPT ![q] = "refused"]
               /\ UNCHANGED <<renewed, answer, done, expiries>>
      BY <1>8, <2>2, DiscardAgrees DEF NotCompleted
    <2>3. CASE /\ pc' = [pc EXCEPT ![q] = "stranded"]
               /\ UNCHANGED <<records, expired, renewed, answer, done, expiries>>
      BY <2>3, QuietStep DEF TypeOK
    <2> QED
      BY <1>8, <2>1, <2>2, <2>3 DEF NotCompleted
  <1>9. ASSUME NEW q \in Request, Poll(q)
        PROVE  Agreement'
    BY <1>9, PollAgrees
  <1>10. ASSUME NEW k \in Key, Expire(k)
         PROVE  Agreement'
    BY <1>10, QuietStep DEF Expire
  <1>11. CASE UNCHANGED vars
    BY <1>11, QuietStep DEF vars
  <1> QED
    BY <1>1, <1>2, <1>3, <1>4, <1>5, <1>6, <1>7, <1>8, <1>9, <1>10, <1>11
    DEF Next, Serve, Fail

LEMMA AgreementHolds == Spec => []Agreement
<1>1. Init => Agreement
  BY IdempotencyAssumption
  DEF Init, Agreement, WorkersOwnTheirRecord, OneWorker, WorkedIsDone,
      ResponsesAreDone, AnswersAreRecorded, AtWork
<1>2. TypeOK /\ Agreement /\ [Next]_vars => Agreement'
  BY NextAgrees
<1> QED
  BY <1>1, <1>2, TypeCorrect, PTL DEF Spec

\* All requests answered under a key whose record has not expired have the same
\* response, which is that of work that was done, for the recorded body.
THEOREM AnswersAlwaysAgree == Spec => []AnswersAgree
<1>1. Agreement => AnswersAgree
  BY IdempotencyAssumption
  DEF Agreement, AnswersAreRecorded, ResponsesAreDone, AnswersAgree
<1> QED
  BY <1>1, AgreementHolds, PTL

-----------------------------------------------------------------------------
(***************************************************************************)
(* Once per key, with no failing statement: work in effect is that of the  *)
(* recorded response, of the request at work, or of one that was cut off,  *)
(* and then nobody else is at work under the key.                          *)
(***************************************************************************)
DoneHasWorked ==
  \A q \in done : pc[q] \in {"worked", "answered", "refused", "stranded"}

Accounted(q) ==
  \/ state[KeyOf[q]] = "completed" /\ response[KeyOf[q]] = q
  \/ pc[q] = "worked"
  \/ /\ pc[q] = "stranded" /\ state[KeyOf[q]] = "in_progress"
     /\ \A p \in Request : AtWork(p) => KeyOf[p] # KeyOf[q]

WorkIsAccountedFor ==
  \A q \in done : KeyOf[q] \notin renewed => Accounted(q)

Once ==
  DoneHasWorked /\ (faults = 0 => WorkIsAccountedFor /\ OnceUnlessFaulty)

LEMMA AccountKept ==
  ASSUME NEW q \in Request, Accounted(q), pc'[q] = pc[q],
         state'[KeyOf[q]] = state[KeyOf[q]], response'[KeyOf[q]] = response[KeyOf[q]],
         \A p \in Request : AtWork(p)' /\ KeyOf[p] = KeyOf[q] => AtWork(p)
  PROVE  Accounted(q)'
  BY DEF Accounted

\* Nobody else's work is in effect under the key of a request at work.
LEMMA AloneAtWork ==
  ASSUME TypeOK, Agreement, Once, faults = 0, NEW q \in Request, AtWork(q),
         NEW d \in done, KeyOf[d] = KeyOf[q]
  PROVE  d = q /\ pc[q] = "worked"
  <1>1. d \in Request
    BY DEF TypeOK
  <1>2. Accounted(d) /\ KeyOf[d] \notin renewed
    BY DEF Once, WorkIsAccountedFor, AtWork
  <1>3. state[KeyOf[q]] = "in_progress"
    BY DEF Agreement, WorkersOwnTheirRecord
  <1>4. pc[d] = "worked"
    BY <1>2, <1>3 DEF Accounted
  <1> QED
    BY <1>1, <1>2, <1>4 DEF Agreement, OneWorker, AtWork

\* Steps that neither touch a record nor add work.
LEMMA QuietOnce ==
  ASSUME TypeOK, Once, UNCHANGED records, UNCHANGED renewed, UNCHANGED done,
         faults' = 0 => faults = 0,
         \A q \in Request : /\ AtWork(q)' => AtWork(q)
                            /\ q \in done /\ KeyOf[q] \notin renewed => pc'[q] = pc[q],
         DoneHasWorked'
  PROVE  Once'
  <1> SUFFICES ASSUME faults' = 0
               PROVE  WorkIsAccountedFor' /\ OnceUnlessFaulty'
    BY DEF Once
  <1>0. /\ faults = 0 /\ done' = done /\ renewed' = renewed /\ done \subseteq Request
        /\ state' = state /\ response' = response
    BY DEF records, TypeOK
  <1>1. WorkIsAccountedFor'
    <2> SUFFICES ASSUME NEW q \in done, KeyOf[q] \notin renewed
                 PROVE  Accounted(q)'
      BY <1>0 DEF WorkIsAccountedFor
    <2>1. q \in Request /\ Accounted(q)
      BY <1>0 DEF Once, WorkIsAccountedFor
    <2> QED
      BY <1>0, <2>1, AccountKept
  <1>2. OnceUnlessFaulty'
    BY <1>0 DEF Once, OnceUnlessFaulty
  <1> QED
    BY <1>1, <1>2

LEMMA DoneStep ==
  ASSUME TypeOK, DoneHasWorked, [Next]_vars
  PROVE  DoneHasWorked'
  <1>1. ASSUME NEW q \in Request, Reserve(q) \/ Replay(q)
        PROVE  DoneHasWorked'
    BY <1>1 DEF TypeOK, DoneHasWorked, Reserve, Replay, DeleteExpired
  <1>2. ASSUME NEW q \in Request, Mutate(q) \/ Work(q)
        PROVE  DoneHasWorked'
    BY <1>2 DEF TypeOK, DoneHasWorked, Mutate, Work, complete
  <1>3. ASSUME NEW q \in Request, Complete(q) \/ Crash(q)
        PROVE  DoneHasWorked'
    BY <1>3 DEF TypeOK, DoneHasWorked, Complete, Crash, complete
  <1>4. ASSUME NEW q \in Request, Conflict(q) \/ Poll(q) \/ GiveUp(q)
        PROVE  DoneHasWorked'
    BY <1>4 DEF TypeOK, DoneHasWorked, Conflict, Poll, GiveUp
  <1>5. ASSUME NEW q \in Request, Abandon(q)
        PROVE  DoneHasWorked'
    BY <1>5 DEF TypeOK, DoneHasWorked, Abandon
  <1>6. ASSUME NEW q \in Request, NotCompleted(q)
        PROVE  DoneHasWorked'
    BY <1>5, <1>6 DEF TypeOK, DoneHasWorked, NotCompleted
  <1>7. CASE UNCHANGED <<pc, done>>
    BY <1>7 DEF DoneHasWorked
  <1> QED
    BY <1>1, <1>2, <1>3, <1>4, <1>5, <1>6, <1>7
    DEF Next, Serve, Fail, Expire, vars

LEMMA PurgeOnce ==
  ASSUME TypeOK, Agreement, Once, NEW q \in Request, Reserve(q) \/ Replay(q),
         DoneHasWorked'
  PROVE  Once'
  <1> SUFFICES ASSUME faults' = 0
               PROVE  WorkIsAccountedFor' /\ OnceUnlessFaulty'
    BY DEF Once
  <1>0. /\ faults = 0 /\ DeleteExpired /\ done' \subseteq done
        /\ done \subseteq Request /\ renewed \subseteq renewed'
        /\ \A p \in Request : KeyOf[p] \in Key
    BY IdempotencyAssumption DEF Reserve, Replay, DeleteExpired, bounds, TypeOK
  <1>1. q \notin done
    BY DEF Once, DoneHasWorked, Reserve, Replay
  <1>2. WorkIsAccountedFor'
    <2> SUFFICES ASSUME NEW d \in done', KeyOf[d] \notin renewed'
                 PROVE  Accounted(d)'
      BY DEF WorkIsAccountedFor
    <2>1. d \in Request /\ d # q /\ KeyOf[d] \notin renewed /\ KeyOf[d] \notin expired
      BY <1>0, <1>1 DEF DeleteExpired
    <2>2. Accounted(d)
      BY <1>0, <2>1 DEF Once, WorkIsAccountedFor
    <2>3. Kept(KeyOf[d])
      <3>1. pc[d] = "worked" => state[KeyOf[d]] = "in_progress"
        BY <2>1 DEF Agreement, WorkersOwnTheirRecord, AtWork
      <3> QED
        BY <2>1, <2>2, <3>1 DEF Accounted, Kept
    <2>4. Reserve(q) => KeyOf[d] # KeyOf[q]
      BY <2>3 DEF Reserve
    <2>5. state'[KeyOf[d]] = state[KeyOf[d]] /\ response'[KeyOf[d]] = response[KeyOf[d]]
      BY <1>0, <2>1, <2>3, <2>4 DEF Reserve, Replay, DeleteExpired, Column
    <2>6. pc'[d] = pc[d]
      BY <2>1 DEF TypeOK, Reserve, Replay
    <2>7. \A p \in Request : AtWork(p)' /\ KeyOf[p] = KeyOf[d] => AtWork(p)
      BY <1>0, <2>4 DEF TypeOK, Reserve, Replay, AtWork
    <2> QED
      BY <2>1, <2>2, <2>5, <2>6, <2>7, AccountKept
  <1>3. OnceUnlessFaulty'
    BY <1>0 DEF Once, OnceUnlessFaulty
  <1> QED
    BY <1>2, <1>3

\* The step of a request at work that ends with its own work in effect, or
\* without any under its key.
LEMMA WorkerOnce ==
  ASSUME TypeOK, Agreement, Once, NEW q \in Request, pc[q] \in {"working", "worked"},
         faults' = 0 => faults = 0, DoneHasWorked', renewed' = renewed,
         done' \subseteq done \cup {q},
         \A p \in Request : p # q => pc'[p] = pc[p],
         \A k \in Key : k # KeyOf[q] =>
           state'[k] = state[k] /\ response'[k] = response[k],
         AtWork(q) /\ q \in done' => Accounted(q)'
  PROVE  Once'
  <1> SUFFICES ASSUME faults' = 0
               PROVE  WorkIsAccountedFor' /\ OnceUnlessFaulty'
    BY DEF Once
  <1>0. /\ faults = 0 /\ done \subseteq Request
        /\ \A p \in Request : KeyOf[p] \in Key
    BY IdempotencyAssumption DEF TypeOK
  <1>1. ASSUME NEW d \in done', KeyOf[d] = KeyOf[q], KeyOf[d] \notin renewed
        PROVE  d = q
    <2>1. AtWork(q)
      BY <1>1 DEF AtWork
    <2> QED
      BY <1>0, <1>1, <2>1, AloneAtWork
  <1>2. WorkIsAccountedFor'
    <2> SUFFICES ASSUME NEW d \in done', KeyOf[d] \notin renewed
                 PROVE  Accounted(d)'
      BY DEF WorkIsAccountedFor
    <2>1. CASE d = q
      BY <2>1 DEF AtWork
    <2>2. CASE d # q
      <3>1. d \in done /\ d \in Request /\ KeyOf[d] # KeyOf[q]
        BY <1>0, <1>1, <2>2
      <3>2. Accounted(d)
        BY <1>0, <3>1 DEF Once, WorkIsAccountedFor
      <3>3. \A p \in Request : AtWork(p)' /\ KeyOf[p] = KeyOf[d] => AtWork(p)
        BY <3>1 DEF AtWork
      <3> QED
        BY <1>0, <3>1, <3>2, <3>3, <2>2, AccountKept
    <2> QED
      BY <2>1, <2>2
  <1>3. OnceUnlessFaulty'
    <2> SUFFICES ASSUME NEW d \in done', NEW e \in done',
                        KeyOf[d] = KeyOf[e], KeyOf[d] \notin renewed
                 PROVE  d = e
      BY DEF OnceUnlessFaulty
    <2>1. CASE d = q \/ e = q
      BY <1>1, <2>1
    <2>2. CASE d # q /\ e # q
      BY <1>0, <2>2 DEF Once, OnceUnlessFaulty
    <2> QED
      BY <2>1, <2>2
  <1> QED
    BY <1>2, <1>3

LEMMA DiscardElsewhere ==
  ASSUME TypeOK, NEW q \in Request, discard(q), NEW k \in Key, k # KeyOf[q]
  PROVE  state'[k] = state[k] /\ response'[k] = response[k]
  BY IdempotencyAssumption DEF TypeOK, discard, records

LEMMA CrashOnce ==
  ASSUME TypeOK, Agreement, Once, NEW q \in Request, Crash(q), DoneHasWorked'
  PROVE  Once'
  <1>0. /\ \A p \in Request : p # q => pc'[p] = pc[p]
        /\ pc'[q] = "stranded"
        /\ state' = state /\ response' = response
        /\ renewed' = renewed /\ done' = done /\ faults' = faults
    BY DEF Crash, TypeOK, records, bounds
  <1>1. CASE pc[q] \in {"working", "worked"}
    <2>1. ASSUME AtWork(q), q \in done
          PROVE  Accounted(q)'
      <3>1. state'[KeyOf[q]] = "in_progress"
        BY <1>0, <2>1 DEF Agreement, WorkersOwnTheirRecord
      <3>2. \A p \in Request : AtWork(p)' => KeyOf[p] # KeyOf[q]
        BY <1>0, <2>1 DEF Agreement, OneWorker, AtWork
      <3> QED
        BY <1>0, <3>1, <3>2 DEF Accounted
    <2> QED
      BY <1>0, <1>1, <2>1, WorkerOnce
  <1>2. CASE pc[q] = "waiting"
    <2>1. q \notin done
      BY <1>2 DEF Once, DoneHasWorked
    <2>2. UNCHANGED records /\ done \subseteq Request
      BY DEF Crash, TypeOK
    <2> QED
      BY <1>0, <1>2, <2>1, <2>2, QuietOnce DEF AtWork
  <1> QED
    BY <1>1, <1>2 DEF Crash

LEMMA NextOnce ==
  ASSUME TypeOK, Agreement, Once, [Next]_vars
  PROVE  Once'
  <1>0. DoneHasWorked' /\ done \subseteq Request
    BY DoneStep DEF Once, TypeOK
  <1>1. ASSUME NEW q \in Request, Reserve(q) \/ Replay(q)
        PROVE  Once'
    BY <1>0, <1>1, PurgeOnce
  <1>2. ASSUME NEW q \in Request, Conflict(q) \/ Poll(q) \/ GiveUp(q)
        PROVE  Once'
    <2>1. q \notin done
      BY <1>2 DEF Once, DoneHasWorked, Conflict, Poll, GiveUp
    <2>2. /\ UNCHANGED <<records, renewed, done, faults>>
          /\ pc'[q] \in {"refused", "answered"}
          /\ \A p \in Request : p # q => pc'[p] = pc[p]
      BY <1>2 DEF Conflict, Poll, GiveUp, TypeOK, bounds
    <2> QED
      BY <1>0, <2>1, <2>2, QuietOnce DEF AtWork
  <1>3. ASSUME NEW q \in Request, Crash(q)
        PROVE  Once'
    BY <1>0, <1>3, CrashOnce
  <1>4. ASSUME NEW q \in Request, Mutate(q) \/ Complete(q)
        PROVE  Once'
    <2>0. KeyOf[q] \in Key
      BY IdempotencyAssumption
    <2>1. /\ pc[q] \in {"working", "worked"} /\ complete(q)
          /\ done' \subseteq done \cup {q} /\ faults' = faults
      BY <1>4 DEF Mutate, Complete, complete, bounds
    <2>2. /\ \A p \in Request : p # q => pc'[p] = pc[p]
          /\ \A k \in Key : k # KeyOf[q] =>
               state'[k] = state[k] /\ response'[k] = response[k]
          /\ renewed' = renewed
          /\ Accounted(q)'
      BY <2>0, <2>1 DEF complete, TypeOK, Accounted
    <2> QED
      BY <1>0, <2>1, <2>2, WorkerOnce
  <1>5. ASSUME NEW q \in Request, Fail(q)
        PROVE  Once'
    <2>1. /\ pc[q] = "working" /\ q \notin done
          /\ renewed' = renewed /\ done' = done
          /\ \A p \in Request : p # q => pc'[p] = pc[p]
      BY <1>5 DEF Fail, Abandon, Once, DoneHasWorked, TypeOK
    <2>2. faults' = 0 => faults = 0
      BY <1>5 DEF Fail, Abandon, TypeOK
    <2>3. \A k \in Key : k # KeyOf[q] =>
            state'[k] = state[k] /\ response'[k] = response[k]
      BY <1>5, DiscardElsewhere DEF Fail, Abandon, records
    <2> QED
      BY <1>0, <2>1, <2>2, <2>3, WorkerOnce
  <1>6. ASSUME NEW q \in Request, Work(q)
        PROVE  Once'
    <2>1. /\ pc[q] = "working" /\ pc'[q] = "worked"
          /\ \A p \in Request : p # q => pc'[p] = pc[p]
          /\ UNCHANGED <<records, renewed, faults>> /\ done' = done \cup {q}
      BY <1>6 DEF Work, TypeOK, bounds
    <2> QED
      BY <1>0, <2>1, WorkerOnce DEF Accounted, records
  <1>7. ASSUME NEW q \in Request, NotCompleted(q)
        PROVE  Once'
    <2>1. CASE faults' = 0
      <3>1. faults = 0 /\ ~InProgress(q) /\ discard(q) /\ pc' = [pc EXCEPT ![q] = "refused"]
        BY <1>7, <2>1 DEF NotCompleted, Abandon, TypeOK
      <3>2. ~AtWork(q)
        BY <3>1 DEF Agreement, WorkersOwnTheirRecord, InProgress
      <3>3. /\ pc[q] = "worked" /\ renewed' = renewed /\ done' = done
            /\ UNCHANGED records
            /\ \A p \in Request : p # q => pc'[p] = pc[p]
        BY <1>7, <3>1 DEF NotCompleted, Abandon, discard, TypeOK
      <3> QED
        BY <1>0, <3>1, <3>2, <3>3, WorkerOnce DEF records
    <2>2. CASE faults' # 0
      BY <1>0, <2>2 DEF Once
    <2> QED
      BY <2>1, <2>2
  <1>8. ASSUME NEW k \in Key, Expire(k)
        PROVE  Once'
    BY <1>0, <1>8, QuietOnce DEF Expire, AtWork
  <1>9. CASE UNCHANGED vars
    BY <1>0, <1>9, QuietOnce DEF vars, AtWork, bounds
  <1> QED
    BY <1>1, <1>2, <1>3, <1>4, <1>5, <1>6, <1>7, <1>8, <1>9 DEF Next, Serve

LEMMA OnceHolds == Spec => []Once
<1>1. Init => Once
  BY DEF Init, Once, DoneHasWorked, WorkIsAccountedFor, OnceUnlessFaulty
<1>2. TypeOK /\ Agreement /\ Once /\ [Next]_vars => Once'
  BY NextOnce
<1> QED
  BY <1>1, <1>2, TypeCorrect, AgreementHolds, PTL DEF Spec

\* Where no statement fails, the work of a key is in effect at most once until
\* its record expires, through crashes, conflicts and retries, for execute as
\* for executeAtomic.
THEOREM OncePerKey == Spec => []OnceUnlessFaulty
<1>1. TypeOK /\ Once => OnceUnlessFaulty
  BY DEF Once, OnceUnlessFaulty
<1> QED
  BY <1>1, TypeCorrect, OnceHolds, PTL

-----------------------------------------------------------------------------
Holder(q) == pc[q] \in {"working", "worked", "stranded"}

\* A step keeps every record in progress held, if what is still in progress
\* was so before and its holders still hold.
LEMMA HoldersStay ==
  ASSUME NoLeakedReservation, [Next]_vars,
         \A k \in Key : state'[k] = "in_progress" =>
           /\ state[k] = "in_progress"
           /\ \A q \in Request : KeyOf[q] = k /\ Holder(q) => Holder(q)'
  PROVE  NoLeakedReservation'
  BY DEF NoLeakedReservation, Holder

LEMMA NextHolds ==
  ASSUME TypeOK, NoLeakedReservation, [Next]_vars
  PROVE  NoLeakedReservation'
  <1>0. \A p \in Request : KeyOf[p] \in Key
    BY IdempotencyAssumption
  <1>1. ASSUME NEW q \in Request, Reserve(q)
        PROVE  NoLeakedReservation'
    <2> SUFFICES ASSUME NEW k \in Key, state'[k] = "in_progress"
                 PROVE  \E p \in Request : KeyOf[p] = k /\ Holder(p)'
      BY DEF NoLeakedReservation, Holder
    <2>1. pc'[q] = "working" /\ \A p \in Request : p # q => pc'[p] = pc[p]
      BY <1>1 DEF Reserve, TypeOK
    <2>2. CASE k = KeyOf[q]
      BY <2>1, <2>2 DEF Holder
    <2>3. CASE k # KeyOf[q]
      <3>1. state[k] = "in_progress"
        BY <1>0, <1>1, <2>3 DEF Reserve, Column
      <3>2. PICK p \in Request : KeyOf[p] = k /\ Holder(p)
        BY <3>1 DEF NoLeakedReservation, Holder
      <3> QED
        BY <2>1, <2>3, <3>2 DEF Holder
    <2> QED
      BY <2>2, <2>3
  <1>2. ASSUME NEW q \in Request, Replay(q)
        PROVE  NoLeakedReservation'
    BY <1>2, HoldersStay DEF Replay, Column, Holder, TypeOK
  <1>3. ASSUME NEW q \in Request, Conflict(q) \/ Poll(q) \/ GiveUp(q) \/ Crash(q) \/ Work(q)
        PROVE  NoLeakedReservation'
    BY <1>3, HoldersStay
    DEF Conflict, Poll, GiveUp, Crash, Work, Holder, TypeOK, records
  <1>4. ASSUME NEW q \in Request, complete(q)
        PROVE  NoLeakedReservation'
    BY <1>0, <1>4, HoldersStay DEF complete, Holder, TypeOK
  <1>5. ASSUME NEW q \in Request, discard(q), pc' = [pc EXCEPT ![q] = "refused"]
        PROVE  NoLeakedReservation'
    <2>1. \A k \in Key : state'[k] = "in_progress" =>
            state[k] = "in_progress" /\ k # KeyOf[q]
      BY <1>0, <1>5 DEF discard, InProgress, records, TypeOK
    <2> QED
      BY <1>5, <2>1, HoldersStay DEF Holder, TypeOK
  <1>6. ASSUME NEW q \in Request, UNCHANGED records, pc' = [pc EXCEPT ![q] = "stranded"]
        PROVE  NoLeakedReservation'
    BY <1>6, HoldersStay DEF Holder, TypeOK, records
  <1>7. CASE UNCHANGED <<records, pc>>
    BY <1>7, HoldersStay DEF Holder, records
  <1> QED
    BY <1>1, <1>2, <1>3, <1>4, <1>5, <1>6, <1>7
    DEF Next, Serve, Mutate, Complete, Fail, Abandon, NotCompleted, Expire, vars

\* A record in progress belongs to a request at work or cut off: a request that
\* ends by itself leaves no key blocked.
THEOREM ReservationsAreHeld == Spec => []NoLeakedReservation
<1>1. Init => NoLeakedReservation
  BY DEF Init, NoLeakedReservation
<1>2. TypeOK /\ NoLeakedReservation /\ [Next]_vars => NoLeakedReservation'
  BY NextHolds
<1> QED
  BY <1>1, <1>2, TypeCorrect, PTL DEF Spec

\* A record's columns agree and its reservation is held (see RecordsConsistent).
THEOREM RecordsAreConsistent == Spec => []RecordsConsistent
<1>1. TypeOK /\ NoLeakedReservation => RecordsConsistent
  BY DEF RecordsConsistent
<1> QED
  BY <1>1, TypeCorrect, ReservationsAreHeld, PTL

\* The work of a key is done once (see WorkIsOnce).
THEOREM WorkIsDoneOnce == Spec => []WorkIsOnce
<1>1. AtomicIsOnce /\ OnceUnlessFaulty => WorkIsOnce
  BY DEF WorkIsOnce
<1> QED
  BY <1>1, AtomicOnce, OncePerKey, PTL
-----------------------------------------------------------------------------
(***************************************************************************)
(* The refinement of IdempotentCalls.                                      *)
(***************************************************************************)

\* Who has an answer is answered, and nobody else.
AnsweredHaveAnswers ==
  \A q \in Request : answer[q] # None => pc[q] = "answered"

LEMMA NextAnswered ==
  ASSUME TypeOK, AnsweredHaveAnswers, [Next]_vars
  PROVE  AnsweredHaveAnswers'
  <1>1. ASSUME NEW q \in Request, complete(q) \/ Poll(q)
        PROVE  AnsweredHaveAnswers'
    BY <1>1 DEF complete, Poll, AnsweredHaveAnswers, TypeOK
  <1>2. ASSUME UNCHANGED answer,
               \A q \in Request : pc[q] = "answered" => pc'[q] = "answered"
        PROVE  AnsweredHaveAnswers'
    BY <1>2 DEF AnsweredHaveAnswers
  <1>3. ASSUME NEW q \in Request, Reserve(q) \/ Replay(q) \/ Conflict(q)
        PROVE  AnsweredHaveAnswers'
    BY <1>2, <1>3 DEF Reserve, Replay, Conflict, TypeOK
  <1>4. ASSUME NEW q \in Request, Fail(q) \/ NotCompleted(q)
        PROVE  AnsweredHaveAnswers'
    BY <1>2, <1>4 DEF Fail, NotCompleted, Abandon, TypeOK
  <1>5. ASSUME NEW q \in Request, Work(q) \/ GiveUp(q) \/ Crash(q)
        PROVE  AnsweredHaveAnswers'
    BY <1>2, <1>5 DEF Work, GiveUp, Crash, TypeOK
  <1>6. CASE UNCHANGED <<pc, answer>>
    BY <1>6 DEF AnsweredHaveAnswers
  <1> QED
    BY <1>1, <1>3, <1>4, <1>5, <1>6
    DEF Next, Serve, Mutate, Complete, Expire, vars

\* Only execute awaits a handler.
AtomicNeverWaits == \A q \in Request : pc[q] = "worked" => KeyOf[q] \notin Atomic

LEMMA NextNeverWaits ==
  ASSUME TypeOK, AtomicNeverWaits, [Next]_vars
  PROVE  AtomicNeverWaits'
  <1>1. ASSUME NEW q \in Request, Work(q)
        PROVE  AtomicNeverWaits'
    BY <1>1 DEF Work, AtomicNeverWaits, TypeOK
  <1>2. ASSUME \A q \in Request : pc'[q] = "worked" => pc[q] = "worked"
        PROVE  AtomicNeverWaits'
    BY <1>2 DEF AtomicNeverWaits
  <1>3. ASSUME NEW q \in Request, Reserve(q) \/ Replay(q) \/ Conflict(q) \/ complete(q)
        PROVE  AtomicNeverWaits'
    BY <1>2, <1>3 DEF Reserve, Replay, Conflict, complete, TypeOK
  <1>4. ASSUME NEW q \in Request, Fail(q) \/ NotCompleted(q)
        PROVE  AtomicNeverWaits'
    BY <1>2, <1>4 DEF Fail, NotCompleted, Abandon, TypeOK
  <1>5. ASSUME NEW q \in Request, Poll(q) \/ GiveUp(q) \/ Crash(q)
        PROVE  AtomicNeverWaits'
    BY <1>2, <1>5 DEF Poll, GiveUp, Crash, TypeOK
  <1>6. CASE UNCHANGED pc
    BY <1>6 DEF AtomicNeverWaits
  <1> QED
    BY <1>1, <1>3, <1>4, <1>5, <1>6
    DEF Next, Serve, Mutate, Complete, Expire, vars

\* The purge forgets the keys that have expired.
LEMMA PurgeForgets ==
  ASSUME TypeOK, DeleteExpired, UNCHANGED <<answer, bounds>>
  PROVE  Calls!Forget(expired)
  <1>1. response' = [k \in Key |-> IF k \in expired THEN None ELSE response[k]]
    BY DEF DeleteExpired, Column, Kept, TypeOK
  <1> QED
    BY <1>1 DEF DeleteExpired, Calls!Forget, bounds

\* A completion finds the record in progress, and so without a response.
LEMMA CompletionRecords ==
  ASSUME TypeOK, AnsweredHaveAnswers, NEW q \in Request,
         pc[q] # "answered", complete(q)
  PROVE  Calls!Record(q)
  <1>1. response[KeyOf[q]] = None
    BY IdempotencyAssumption DEF complete, InProgress, TypeOK
  <1>2. answer[q] = None
    BY DEF AnsweredHaveAnswers
  <1> QED
    BY <1>1, <1>2 DEF complete, bounds, Calls!Record, Calls!Free

\* Giving up, with or without a failing statement, is at most a fault.
LEMMA QuietIsFault ==
  ASSUME TypeOK, UNCHANGED <<response, done, answer, renewed>>, faults' \in Nat,
         faults' >= faults
  PROVE  Calls!Fault \/ UNCHANGED Calls!vars
  <1>1. faults \in Nat
    BY DEF TypeOK
  <1>2. CASE faults' = 0
    BY <1>1, <1>2 DEF Calls!vars
  <1>3. CASE faults' # 0
    BY <1>3 DEF Calls!Fault
  <1> QED BY <1>2, <1>3

LEMMA DiscardQuiet ==
  ASSUME NEW q \in Request, discard(q)
  PROVE  response' = response
  BY DEF discard, records

LEMMA StepImplements ==
  ASSUME TypeOK, AtomicIsOnce, Agreement, Once, AnsweredHaveAnswers,
         AtomicNeverWaits, [Next]_vars
  PROVE  [Calls!Next]_(Calls!vars)
  <1>0. IdempotencyAssumption
    BY IdempotencyAssumption
  <1>1. ASSUME NEW q \in Request, Reserve(q) \/ Replay(q)
        PROVE  Calls!Next
    <2>1. expired \in SUBSET Key
      BY DEF TypeOK
    <2> QED
      BY <1>1, <2>1, PurgeForgets DEF Reserve, Replay, Calls!Next
  <1>2. ASSUME NEW q \in Request, Mutate(q)
        PROVE  Calls!Perform(q)
    <2>1. Calls!Record(q)
      BY <1>2, CompletionRecords DEF Mutate
    <2>2. Calls!Untried(KeyOf[q])
      BY <1>2 DEF Mutate, complete, InProgress, AtomicIsOnce, Calls!Untried
    <2> QED
      BY <1>2, <2>1, <2>2 DEF Mutate, Calls!Perform
  <1>3. ASSUME NEW q \in Request, Work(q)
        PROVE  Calls!Work(q)
    <2>1. q \notin done
      BY <1>3 DEF Work, Once, DoneHasWorked
    <2>2. ASSUME KeyOf[q] \notin renewed
          PROVE  Calls!Free(KeyOf[q])
      <3>1. state[KeyOf[q]] = "in_progress"
        BY <1>3, <2>2 DEF Work, Agreement, WorkersOwnTheirRecord, AtWork
      <3> QED
        BY <1>0, <3>1 DEF IdempotencyAssumption, TypeOK, Calls!Free
    <2>3. ASSUME KeyOf[q] \notin renewed, faults = 0
          PROVE  Calls!Untried(KeyOf[q])
      <3>1. AtWork(q) /\ pc[q] = "working"
        BY <1>3, <2>3 DEF Work, AtWork
      <3> QED
        BY <2>3, <3>1, AloneAtWork DEF Calls!Untried
    <2> QED
      BY <1>3, <2>1, <2>2, <2>3 DEF Work, records, bounds, Calls!Work
  <1>4. ASSUME NEW q \in Request, Complete(q)
        PROVE  Calls!Report(q)
    <2>0. KeyOf[q] \notin Atomic
      BY <1>4 DEF Complete, AtomicNeverWaits
    <2>1. Calls!Record(q)
      BY <1>4, CompletionRecords DEF Complete
    <2>2. KeyOf[q] \notin renewed => q \in done
      BY <1>4 DEF Complete, Agreement, WorkedIsDone
    <2> QED
      BY <1>4, <2>0, <2>1, <2>2 DEF Complete, Calls!Report
  <1>5. ASSUME NEW q \in Request, Poll(q)
        PROVE  Calls!Answer(q)
    <2>1. response[KeyOf[q]] # None /\ answer[q] = None
      BY <1>0, <1>5 DEF IdempotencyAssumption, Poll, TypeOK, AnsweredHaveAnswers
    <2> QED
      BY <1>5, <2>1 DEF Poll, records, bounds, Calls!Answer, Calls!Free
  <1>6. ASSUME NEW q \in Request, Fail(q) \/ NotCompleted(q)
        PROVE  Calls!Fault \/ UNCHANGED Calls!vars
    <2>1. UNCHANGED <<response, done, answer, renewed>>
      BY <1>6, DiscardQuiet DEF Fail, NotCompleted, Abandon, records
    <2>2. faults' \in Nat /\ faults' >= faults
      BY <1>6 DEF Fail, NotCompleted, Abandon, TypeOK
    <2> QED
      BY <2>1, <2>2, QuietIsFault
  <1>7. ASSUME NEW q \in Request, Conflict(q) \/ GiveUp(q) \/ Crash(q)
        PROVE  UNCHANGED Calls!vars
    BY <1>7 DEF Conflict, GiveUp, Crash, records, bounds, Calls!vars
  <1>8. ASSUME NEW k \in Key, Expire(k)
        PROVE  UNCHANGED Calls!vars
    BY <1>8 DEF Expire, records, Calls!vars
  <1>9. CASE UNCHANGED vars
    BY <1>9 DEF vars, records, bounds, Calls!vars
  <1> QED
    BY <1>1, <1>2, <1>3, <1>4, <1>5, <1>6, <1>7, <1>8, <1>9
    DEF Next, Serve, Calls!Next

\* The service implements the abstract calls: completing a record maps to Perform
\* or Report, the handler's work to Work, a finished wait to Answer, the purge to
\* Forget, a failing statement to Fault, and every other step, an expiry or a
\* crash among them, to none (see ImplementsIdempotentCalls).
THEOREM CallsAreImplemented == Spec => ImplementsIdempotentCalls
<1>1. Init => Calls!Init /\ AnsweredHaveAnswers /\ AtomicNeverWaits
  BY DEF Init, Calls!Init, AnsweredHaveAnswers, AtomicNeverWaits
<1>2. TypeOK /\ AnsweredHaveAnswers /\ [Next]_vars => AnsweredHaveAnswers'
  BY NextAnswered
<1>3. TypeOK /\ AtomicNeverWaits /\ [Next]_vars => AtomicNeverWaits'
  BY NextNeverWaits
<1>4. TypeOK /\ AtomicIsOnce /\ Agreement /\ Once /\ AnsweredHaveAnswers
        /\ AtomicNeverWaits /\ [Next]_vars => [Calls!Next]_(Calls!vars)
  BY StepImplements
<1> QED
  BY <1>1, <1>2, <1>3, <1>4, TypeCorrect, AtomicOnce, AgreementHolds, OnceHolds, PTL
     DEF Spec, Calls!Spec, ImplementsIdempotentCalls

\* A response stands until it expires, and nothing else is ever answered
\* (see ResponsesAreKept).
THEOREM ResponsesAreAlwaysKept == Spec => ResponsesAreKept
BY RecordedResponsesStand, CallsAreImplemented DEF ResponsesAreKept
=============================================================================
