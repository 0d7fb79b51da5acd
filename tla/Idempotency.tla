---------------------------- MODULE Idempotency ----------------------------
(***************************************************************************)
(* Idempotent mutations: IdempotencyService and its table                  *)
(* idempotency_records.  A request names a key; the first one to reserve   *)
(* it does the work, and later ones with the same key are answered with    *)
(* the response it recorded.  A record's key stands for scope, operation   *)
(* and Idempotency-Key together, so it also says which of the two methods  *)
(* serves it: executeAtomic does the work and records the response in one  *)
(* transaction, execute awaits a handler and records the response after.   *)
(*                                                                         *)
(* Every request may be served by a server process of its own: the         *)
(* processes share the file.  A retry is another request.                  *)
(***************************************************************************)
EXTENDS Naturals, FiniteSets

CONSTANTS
  Request, Key, Body,
  KeyOf, BodyOf,   \* what a request carries
  Atomic,          \* the keys served by executeAtomic
  None,
  MaxExpiries,     \* bound: records that reach their expiry
  MaxFaults        \* bound: statements the database refuses (locked, full)

ASSUME IdempotencyAssumption ==
  /\ KeyOf  \in [Request -> Key]
  /\ BodyOf \in [Request -> Body]
  /\ Atomic \subseteq Key
  /\ None \notin Request \cup Body
  /\ MaxExpiries \in Nat /\ MaxFaults \in Nat

VARIABLES
  state,     \* idempotency_records.state, "absent" if there is no row
  body,      \* body_hash of the row
  response,  \* the request whose response the row holds
  expired,   \* keys whose row has reached expires_at
  renewed,   \* keys of which a row was deleted for having expired
  pc,        \* where a request is
  answer,    \* the request whose response this one was answered with
  done,      \* requests whose work is in effect, since their key was renewed
  expiries, faults

records == <<state, body, response>>
bounds  == <<expiries, faults>>
vars == <<records, expired, renewed, pc, answer, done, bounds>>

TypeOK ==
  /\ state    \in [Key -> {"absent", "in_progress", "completed"}]
  /\ body     \in [Key -> Body \cup {None}]
  /\ response \in [Key -> Request \cup {None}]
  /\ \A k \in Key : /\ body[k] = None <=> state[k] = "absent"
                    /\ response[k] # None <=> state[k] = "completed"
  /\ expired \subseteq { k \in Key : state[k] # "absent" }
  /\ renewed \subseteq Key
  /\ pc \in [Request -> {"new", "working", "worked", "waiting",
                         "answered", "refused", "stranded"}]
  /\ answer \in [Request -> Request \cup {None}]
  /\ done \subseteq Request
  /\ expiries \in 0 .. MaxExpiries /\ faults \in 0 .. MaxFaults

Init ==
  /\ state    = [k \in Key |-> "absent"]
  /\ body     = [k \in Key |-> None]
  /\ response = [k \in Key |-> None]
  /\ expired = {} /\ renewed = {}
  /\ pc     = [q \in Request |-> "new"]
  /\ answer = [q \in Request |-> None]
  /\ done   = {}
  /\ expiries = 0 /\ faults = 0

InProgress(q) == state[KeyOf[q]] = "in_progress"

-----------------------------------------------------------------------------
(***************************************************************************)
(* reserve: one transaction that deletes every expired record and then     *)
(* looks for the key.                                                      *)
(***************************************************************************)
\* Mutant: the insertion replaces a record that is in progress.
Kept_completed(k) == state[k] = "completed" /\ k \notin expired

Kept(k) == state[k] # "absent" /\ k \notin expired

\* A column of the table without the expired rows.
Column(f, empty) == [k \in Key |-> IF Kept(k) THEN f[k] ELSE empty]

DeleteExpired ==
  /\ response' = Column(response, None)
  /\ expired'  = {}
  /\ renewed'  = renewed \cup expired
  /\ done'     = { d \in done : KeyOf[d] \notin expired }

\* The key is free: a record in progress is inserted.
Reserve(q) ==
  /\ pc[q] = "new" /\ ~Kept(KeyOf[q])
  /\ DeleteExpired
  /\ state' = [Column(state, "absent") EXCEPT ![KeyOf[q]] = "in_progress"]
  /\ body'  = [Column(body, None) EXCEPT ![KeyOf[q]] = BodyOf[q]]
  /\ pc'    = [pc EXCEPT ![q] = "working"]
  /\ UNCHANGED <<answer, bounds>>

\* The key has a record of the same body: its response will be replayed.
Replay(q) ==
  /\ pc[q] = "new" /\ Kept(KeyOf[q])
  /\ body[KeyOf[q]] = BodyOf[q]
  /\ DeleteExpired
  /\ state' = Column(state, "absent")
  /\ body'  = Column(body, None)
  /\ pc'    = [pc EXCEPT ![q] = "waiting"]
  /\ UNCHANGED <<answer, bounds>>

\* It has one of another body: 409, and the deletions are rolled back too.
Conflict(q) ==
  /\ pc[q] = "new" /\ Kept(KeyOf[q])
  /\ body[KeyOf[q]] # BodyOf[q]
  /\ pc' = [pc EXCEPT ![q] = "refused"]
  /\ UNCHANGED <<records, expired, renewed, answer, done, bounds>>

-----------------------------------------------------------------------------
(***************************************************************************)
(* complete and discard act on the record in progress under the key,       *)
(* whichever request reserved it.                                          *)
(***************************************************************************)
complete(q) ==
  /\ InProgress(q)
  /\ state'    = [state EXCEPT ![KeyOf[q]] = "completed"]
  /\ response' = [response EXCEPT ![KeyOf[q]] = q]
  /\ answer'   = [answer EXCEPT ![q] = q]
  /\ pc'       = [pc EXCEPT ![q] = "answered"]
  /\ UNCHANGED <<body, expired, renewed, bounds>>

\* Mutants: a completed record is deleted too; nothing is deleted.
discard_any(q) ==
  /\ state'    = [state EXCEPT ![KeyOf[q]] = "absent"]
  /\ body'     = [body EXCEPT ![KeyOf[q]] = None]
  /\ response' = [response EXCEPT ![KeyOf[q]] = None]
  /\ expired'  = expired \ {KeyOf[q]}

discard_nothing(q) == UNCHANGED <<records, expired>>

discard(q) ==
  IF InProgress(q)
  THEN /\ state'   = [state EXCEPT ![KeyOf[q]] = "absent"]
       /\ body'    = [body EXCEPT ![KeyOf[q]] = None]
       /\ expired' = expired \ {KeyOf[q]}
       /\ UNCHANGED response
  ELSE UNCHANGED <<records, expired>>

\* Refused, or, if the deletion fails in its turn, with the record left.
Abandon(q) ==
  /\ \/ discard(q) /\ pc' = [pc EXCEPT ![q] = "refused"] /\ UNCHANGED faults
     \/ /\ faults < MaxFaults /\ faults' = faults + 1
        /\ pc' = [pc EXCEPT ![q] = "stranded"]
        /\ UNCHANGED <<records, expired>>
  /\ UNCHANGED <<renewed, answer, done, expiries>>

\* executeAtomic: the work and the response in one transaction.
Mutate(q) ==
  /\ pc[q] = "working" /\ KeyOf[q] \in Atomic
  /\ complete(q)
  /\ done' = done \cup {q}

\* The work or a statement fails, or the record is gone: rolled back.
Fail(q) == pc[q] = "working" /\ Abandon(q)

\* execute: the handler does its work and resolves.
Work(q) ==
  /\ pc[q] = "working" /\ KeyOf[q] \notin Atomic
  /\ done' = done \cup {q}
  /\ pc'   = [pc EXCEPT ![q] = "worked"]
  /\ UNCHANGED <<records, expired, renewed, answer, bounds>>

Complete(q) == pc[q] = "worked" /\ complete(q) /\ UNCHANGED done

\* The record to complete is gone, or the statement fails: the reservation is
\* discarded (unless that fails too), and the work is done.
NotCompleted(q) ==
  /\ pc[q] = "worked"
  /\ \/ ~InProgress(q) /\ Abandon(q)
     \/ /\ faults < MaxFaults /\ faults' = faults + 1
        /\ discard(q)
        /\ pc' = [pc EXCEPT ![q] = "refused"]
        /\ UNCHANGED <<renewed, answer, done, expiries>>
     \/ /\ faults + 1 < MaxFaults /\ faults' = faults + 2
        /\ pc' = [pc EXCEPT ![q] = "stranded"]
        /\ UNCHANGED <<records, expired, renewed, answer, done, expiries>>

-----------------------------------------------------------------------------
(***************************************************************************)
(* waitForReplay: look at the record, every 10 ms, for a second.           *)
(***************************************************************************)
Poll(q) ==
  /\ pc[q] = "waiting"
  /\ state[KeyOf[q]] = "completed"
  /\ answer' = [answer EXCEPT ![q] = response[KeyOf[q]]]
  /\ pc'     = [pc EXCEPT ![q] = "answered"]
  /\ UNCHANGED <<records, expired, renewed, done, bounds>>

\* Mutants: only a record that is gone ends the wait; who has waited long enough
\* clears the way for a retry.
GiveUp_ifGone(q) ==
  /\ pc[q] = "waiting"
  /\ state[KeyOf[q]] = "absent"
  /\ pc' = [pc EXCEPT ![q] = "refused"]
  /\ UNCHANGED <<records, expired, renewed, answer, done, bounds>>

GiveUp_takesOver(q) ==
  /\ pc[q] = "waiting"
  /\ discard(q)
  /\ pc' = [pc EXCEPT ![q] = "refused"]
  /\ UNCHANGED <<renewed, answer, done, bounds>>

\* The record is gone, or the second is over.
GiveUp(q) ==
  /\ pc[q] = "waiting"
  /\ state[KeyOf[q]] # "completed"
  /\ pc' = [pc EXCEPT ![q] = "refused"]
  /\ UNCHANGED <<records, expired, renewed, answer, done, bounds>>

\* Twenty-four hours pass.
Expire(k) ==
  /\ state[k] # "absent" /\ k \notin expired
  /\ expiries < MaxExpiries /\ expiries' = expiries + 1
  /\ expired' = expired \cup {k}
  /\ UNCHANGED <<records, renewed, pc, answer, done, faults>>

\* The process that serves the request ends.
Crash(q) ==
  /\ pc[q] \in {"working", "worked", "waiting"}
  /\ pc' = [pc EXCEPT ![q] = "stranded"]
  /\ UNCHANGED <<records, expired, renewed, answer, done, bounds>>

Serve(q) ==
  \/ Mutate(q) \/ Fail(q) \/ Work(q) \/ Complete(q) \/ NotCompleted(q)
  \/ Poll(q) \/ GiveUp(q)

Next ==
  \/ \E q \in Request : Reserve(q) \/ Replay(q) \/ Conflict(q) \/ Serve(q) \/ Crash(q)
  \/ \E k \in Key : Expire(k)

Spec == Init /\ [][Next]_vars

\* A handler resolves or rejects, and a timer fires.
FairSpec == Spec /\ \A q \in Request : WF_vars(Serve(q))

-----------------------------------------------------------------------------
\* For a key served by executeAtomic the work and the recorded response are one
\* thing: there is no work in effect but that of the request whose response is
\* recorded, whatever fails, crashes, expires under a request, or is retried.
AtomicIsOnce ==
  \A q \in done : KeyOf[q] \in Atomic =>
    state[KeyOf[q]] = "completed" /\ response[KeyOf[q]] = q

\* All requests that are answered under a key get the same response, it is that
\* of work that was done, and what is recorded for a body is the response to
\* that body; as long as no record of the key has expired.
AnswersAgree ==
  /\ \A q \in Request : pc[q] = "answered" /\ KeyOf[q] \notin renewed =>
       answer[q] \in done /\ answer[q] = response[KeyOf[q]]
  /\ \A k \in Key \ renewed : state[k] = "completed" =>
       BodyOf[response[k]] = body[k]

\* A handler served by execute does its work once per key, through crashes and
\* retries, as long as no statement fails and no record of the key expires.
OnceUnlessFaulty ==
  faults = 0 => \A q, p \in done :
    KeyOf[q] = KeyOf[p] /\ KeyOf[q] \notin renewed => q = p

\* The work of a key is done once: exactly, where it commits with its response,
\* and else as long as nothing fails (idempotency.ts:25-75).
WorkIsOnce == AtomicIsOnce /\ OnceUnlessFaulty

\* A reservation belongs to a request that is at work or was cut off: one that
\* ends by itself does not leave its key blocked for a day.
NoLeakedReservation ==
  \A k \in Key : state[k] = "in_progress" =>
    \E q \in Request : KeyOf[q] = k /\ pc[q] \in {"working", "worked", "stranded"}

\* The columns of a record agree, and a key that is taken is taken by somebody
\* (idempotency-repository.ts:30-110).
RecordsConsistent == TypeOK /\ NoLeakedReservation

\* A recorded response stays until it expires: no other request's completion
\* or failure replaces or removes it.
ResponsesStand ==
  [][\A k \in Key : state[k] = "completed" /\ k \notin expired =>
       state'[k] = "completed" /\ response'[k] = response[k]]_vars

\* A request that has begun is answered or refused, even when the one it waits
\* for was cut off.
RequestsSettle ==
  \A q \in Request :
    pc[q] \in {"working", "worked", "waiting"}
      ~> pc[q] \in {"answered", "refused", "stranded"}
-----------------------------------------------------------------------------
(***************************************************************************)
(* The service as an implementation of IdempotentCalls.                    *)
(***************************************************************************)
Calls == INSTANCE IdempotentCalls WITH
  recorded  <- response,
  forgotten <- renewed,
  faulty    <- (faults # 0)

\* Reservations, waiting, expiry, failures and crashes together do what the
\* abstract calls promise: a key's response is recorded once, stands until its
\* record has expired, and is what every retry is answered with; atomic work is
\* in effect only with its response, other work is repeated only after a failed
\* statement or an expiry (idempotency.ts:25-125).
ImplementsIdempotentCalls == Calls!Spec
\* A response stands until it expires, and is what retries are answered with.
ResponsesAreKept == ResponsesStand /\ ImplementsIdempotentCalls
=============================================================================
