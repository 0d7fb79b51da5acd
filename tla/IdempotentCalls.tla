-------------------------- MODULE IdempotentCalls --------------------------
(***************************************************************************)
(* What idempotent mutations promise, without records, reservations,       *)
(* waiting or crashes.  A key holds at most one response at a time; it is  *)
(* recorded once and stands until the key is forgotten; whoever is         *)
(* answered is answered with it.  Under an atomic key the work and its     *)
(* response are one step.  Under another key the work comes first, and is  *)
(* done once unless a fault was declared or the key has been forgotten.    *)
(***************************************************************************)
CONSTANTS Request, Key, KeyOf, Atomic, None

VARIABLES
  recorded,   \* key -> the request whose response it holds, or None
  done,       \* requests whose work is in effect, since their key was forgotten
  answer,     \* request -> the request whose response it was given, or None
  forgotten,  \* keys that have been forgotten
  faulty      \* whether a fault was declared

vars == <<recorded, done, answer, forgotten, faulty>>

Init ==
  /\ recorded  = [k \in Key |-> None]
  /\ done      = {}
  /\ answer    = [q \in Request |-> None]
  /\ forgotten = {}
  /\ faulty    = FALSE

Free(k)   == recorded[k] = None
Untried(k) == \A q \in done : KeyOf[q] # k

Record(q) ==
  /\ Free(KeyOf[q]) /\ answer[q] = None
  /\ recorded' = [recorded EXCEPT ![KeyOf[q]] = q]
  /\ answer'   = [answer EXCEPT ![q] = q]
  /\ UNCHANGED <<forgotten, faulty>>

\* Work and response in one step, on a key under which nothing is in effect.
Perform(q) ==
  /\ KeyOf[q] \in Atomic /\ Untried(KeyOf[q])
  /\ Record(q)
  /\ done' = done \cup {q}

\* The work alone.
Work(q) ==
  /\ KeyOf[q] \notin Atomic /\ q \notin done
  /\ KeyOf[q] \notin forgotten =>
       Free(KeyOf[q]) /\ (faulty \/ Untried(KeyOf[q]))
  /\ done' = done \cup {q}
  /\ UNCHANGED <<recorded, answer, forgotten, faulty>>

\* The response to work that is in effect.
Report(q) ==
  /\ KeyOf[q] \notin Atomic
  /\ KeyOf[q] \notin forgotten => q \in done
  /\ Record(q)
  /\ UNCHANGED done

\* A retry is given the response that was recorded.
Answer(q) ==
  /\ ~Free(KeyOf[q]) /\ answer[q] = None
  /\ answer' = [answer EXCEPT ![q] = recorded[KeyOf[q]]]
  /\ UNCHANGED <<recorded, done, forgotten, faulty>>

Forget(K) ==
  /\ recorded'  = [k \in Key |-> IF k \in K THEN None ELSE recorded[k]]
  /\ done'      = { q \in done : KeyOf[q] \notin K }
  /\ forgotten' = forgotten \cup K
  /\ UNCHANGED <<answer, faulty>>

Fault ==
  /\ faulty' = TRUE
  /\ UNCHANGED <<recorded, done, answer, forgotten>>

Next ==
  \/ \E q \in Request : Perform(q) \/ Work(q) \/ Report(q) \/ Answer(q)
  \/ \E K \in SUBSET Key : Forget(K)
  \/ Fault

Spec == Init /\ [][Next]_vars
=============================================================================
