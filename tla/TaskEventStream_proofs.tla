----------------------- MODULE TaskEventStream_proofs ----------------------
(***************************************************************************)
(* Theorems about TaskEventStream, for a log, a queue and a number of      *)
(* connections of any size: order, losses only where they are accounted    *)
(* for, and that the stream is a task event feed.                          *)
(***************************************************************************)
EXTENDS TaskEventStream, SequenceTheorems, TLAPS

(***************************************************************************)
(* The inductive invariant.  Order alone is not inductive: a write on an   *)
(* unblocked connection goes past whatever is queued, so the queue must    *)
(* be empty then.  And a gap can only be judged when the client reaches    *)
(* it, so every event of the log is accounted for from the beginning: it   *)
(* was received, is on its way, is a known loss, or lies beyond everything *)
(* that a connection already over has sent.                                *)
(***************************************************************************)
QueueNeedsBlocking == queue # <<>> => stream = "open" /\ blocked

NothingOnNoWire == stream = "none" => wire = <<>>

ReceivedIsBehindCursor == Range(received) \subseteq 1 .. cursor

OnItsWay(n) == n \in Range(wire) \cup Range(queue)

Beyond(n) ==
  /\ stream # "open"
  /\ cursor < n
  /\ \A m \in Range(wire) : m < n

EveryEventIsAccountedFor ==
  \A n \in 1 .. maxSequence :
    n \in Range(received) \cup dropped \cup unpublished \/ OnItsWay(n) \/ Beyond(n)

LossesAreCommitted == dropped \cup unpublished \subseteq 1 .. maxSequence

IInv ==
  /\ TypeOK
  /\ PipelineIsOrdered
  /\ QueueNeedsBlocking
  /\ NothingOnNoWire
  /\ ReceivedIsBehindCursor
  /\ ReceivedInOrder
  /\ EveryEventIsAccountedFor
  /\ LossesAreCommitted

-----------------------------------------------------------------------------
(***************************************************************************)
(* Type correctness.                                                       *)
(***************************************************************************)

LEMMA NoEvents ==
  ASSUME NEW s, s = <<>>
  PROVE  s \in Seq(Sequence) /\ Len(s) = 0 /\ Len(s) <= QueueLimit
  BY StreamAssumption DEF StreamAssumption

LEMMA OneEvent ==
  ASSUME NEW n \in Sequence
  PROVE  <<n>> \in Seq(Sequence) /\ Len(<<n>>) = 1 /\ <<n>> # <<>> /\ <<n>>[1] = n
  OBVIOUS

LEMMA Joined ==
  ASSUME NEW s \in Seq(Sequence), NEW t \in Seq(Sequence)
  PROVE  s \o t \in Seq(Sequence)
  OBVIOUS

LEMMA ListenerType ==
  ASSUME TypeOK, NEW n \in Sequence, listener(n)
  PROVE  /\ stream' \in {"none", "open", "ended"}
         /\ lastSequence' \in 0 .. MaxEvents
         /\ blocked' \in BOOLEAN
         /\ queue' \in Seq(Sequence) /\ Len(queue') <= QueueLimit
         /\ wire' \in Seq(Sequence)
  <1>1. CASE UNCHANGED <<connection, wire>>
    BY <1>1 DEF TypeOK, connection
  <1>2. CASE add(n)
    <2>1. queue' \in Seq(Sequence) /\ Len(queue') = Len(queue) + 1
      BY <1>2 DEF TypeOK, add
    <2> QED
      BY <1>2, <2>1, StreamAssumption DEF TypeOK, add, StreamAssumption
  <1>3. CASE refuse(n)
    <2>1. queue' = <<>> /\ blocked' = FALSE /\ lastSequence' = 0 /\ wire' = wire /\ stream' = "ended"
      BY <1>3 DEF refuse, cleanup
    <2>2. queue' \in Seq(Sequence) /\ Len(queue') <= QueueLimit
      BY <2>1, NoEvents
    <2>3. lastSequence' \in 0 .. MaxEvents
      BY <2>1, StreamAssumption DEF StreamAssumption
    <2> QED
      BY <2>1, <2>2, <2>3 DEF TypeOK
  <1>4. CASE writeEvents(<<n>>) /\ UNCHANGED <<stream, queue>>
    <2>1. wire' = wire \o <<n>> /\ lastSequence' = n /\ blocked' \in {blocked, TRUE}
      BY <1>4, OneEvent DEF writeEvents, Last
    <2>2. wire' \in Seq(Sequence) /\ lastSequence' = n /\ blocked' \in BOOLEAN
      BY <2>1, OneEvent, Joined DEF TypeOK
    <2> QED
      BY <1>4, <2>2 DEF TypeOK, Sequence
  <1> QED
    BY <1>1, <1>2, <1>3, <1>4 DEF listener

LEMMA TypeStep ==
  ASSUME TypeOK, [Next]_vars
  PROVE  TypeOK'
  <1> USE StreamAssumption DEF StreamAssumption
  <1>1. CASE Publish
    <2>1. maxSequence + 1 \in Sequence
      BY <1>1 DEF Publish, TypeOK, Sequence
    <2> QED
      BY <1>1, <2>1, ListenerType DEF Publish, TypeOK, Sequence, client, auxiliary
  <1>2. CASE CommitUnpublished
    BY <1>2 DEF CommitUnpublished, TypeOK, Sequence, connection, client
  <1>3. CASE Connect
    <2>1. [i \in 1 .. maxSequence - cursor |-> cursor + i] \in Seq(Sequence)
      BY <1>3 DEF Connect, validCursor, TypeOK, Sequence
    <2>2. /\ maxSequence' = maxSequence /\ stream' = "open" /\ queue' = <<>>
          /\ wire' = [i \in 1 .. maxSequence - cursor |-> cursor + i]
          /\ lastSequence' = maxSequence /\ blocked' \in BOOLEAN
          /\ UNCHANGED <<cursor, received, dropped, unpublished, closes>>
      BY <1>3 DEF Connect, client, auxiliary
    <2>3. queue' \in Seq(Sequence) /\ Len(queue') <= QueueLimit
      BY <2>2, NoEvents
    <2> QED
      BY <2>1, <2>2, <2>3 DEF TypeOK
  <1>4. CASE ConnectReset(maxSequence + 1)
    BY <1>4 DEF ConnectReset, TypeOK, connection, auxiliary
  <1>5. CASE Drain
    <2>1. /\ queue' \in Seq(Sequence) /\ Len(queue') <= QueueLimit
          /\ UNCHANGED <<maxSequence, stream, cursor, received, unpublished, closes>>
      BY <1>5 DEF Drain, client
    <2>2. CASE /\ wire' = wire \o queue
               /\ lastSequence' = IF queue = <<>> THEN lastSequence ELSE Last(queue)
               /\ blocked' \in IF queue = <<>> THEN {FALSE} ELSE BOOLEAN
               /\ UNCHANGED dropped
      <3>1. wire' \in Seq(Sequence)
        BY <2>2, Joined DEF TypeOK
      <3>2. queue # <<>> => Last(queue) \in Sequence
        BY DEF TypeOK, Last
      <3>3. lastSequence' \in 0 .. MaxEvents
        BY <2>2, <3>2 DEF TypeOK, Sequence
      <3>4. blocked' \in BOOLEAN
        BY <2>2
      <3> QED
        BY <2>1, <2>2, <3>1, <3>3, <3>4 DEF TypeOK
    <2>3. ASSUME NEW k \in 1 .. Len(queue) - 1,
                 /\ wire' = wire \o SubSeq(queue, 1, k)
                 /\ lastSequence' = queue[k]
                 /\ blocked' = TRUE
                 /\ dropped' = dropped \cup { queue[i] : i \in k + 1 .. Len(queue) }
          PROVE  TypeOK'
      <3>1. Len(queue) \in Nat /\ \A i \in 1 .. Len(queue) : queue[i] \in Sequence
        BY DEF TypeOK
      <3>2. SubSeq(queue, 1, k) \in Seq(Sequence)
        BY <3>1 DEF TypeOK
      <3>3. wire' \in Seq(Sequence)
        BY <2>3, <3>2 DEF TypeOK
      <3>4. queue[k] \in Sequence
        BY <3>1
      <3>5. lastSequence' \in 0 .. MaxEvents
        BY <2>3, <3>4 DEF TypeOK, Sequence
      <3>6. \A i \in k + 1 .. Len(queue) : queue[i] \in Sequence
        BY <3>1
      <3>7. dropped' \subseteq Sequence
        BY <2>3, <3>6 DEF TypeOK
      <3> QED
        BY <2>1, <2>3, <3>3, <3>5, <3>7 DEF TypeOK
    <2> QED
      BY <1>5, <2>2, <2>3 DEF Drain
  <1>6. CASE Heartbeat
    BY <1>6 DEF Heartbeat, TypeOK, client, auxiliary
  <1>7. CASE Close
    <2>1. /\ stream' = "none" /\ lastSequence' \in 0 .. MaxEvents
          /\ closes' \in 0 .. MaxCloses
          /\ UNCHANGED <<maxSequence, cursor, received, dropped, unpublished>>
      BY <1>7 DEF Close, cleanup, client, TypeOK
    <2>2. queue' \in Seq(Sequence) /\ Len(queue') <= QueueLimit
      BY <1>7, NoEvents DEF Close, cleanup
    <2>3. wire' \in Seq(Sequence)
      BY <1>7, NoEvents DEF Close
    <2>4. blocked' \in BOOLEAN
      BY <1>7 DEF Close, cleanup
    <2> QED
      BY <2>1, <2>2, <2>3, <2>4 DEF TypeOK
  <1>8. CASE Deliver
    <2>1. Head(wire) \in Sequence /\ Tail(wire) \in Seq(Sequence)
      BY <1>8 DEF Deliver, TypeOK
    <2>2. Append(received, Head(wire)) \in Seq(Sequence)
      BY <2>1 DEF TypeOK
    <2> QED
      BY <1>8, <2>1, <2>2 DEF Deliver, TypeOK, Sequence, connection, auxiliary
  <1>9. CASE UNCHANGED vars
    BY <1>9 DEF vars, TypeOK, connection, client, auxiliary
  <1> QED
    BY <1>1, <1>2, <1>3, <1>4, <1>5, <1>6, <1>7, <1>8, <1>9 DEF Next

LEMMA TypeInit == Init => TypeOK
  <1> SUFFICES ASSUME Init PROVE TypeOK
    OBVIOUS
  <1>1. queue \in Seq(Sequence) /\ Len(queue) <= QueueLimit
    BY NoEvents DEF Init
  <1>2. wire \in Seq(Sequence) /\ received \in Seq(Sequence)
    BY NoEvents DEF Init
  <1>3. /\ maxSequence = 0 /\ stream = "none" /\ lastSequence = 0
        /\ cursor = 0 /\ dropped = {} /\ unpublished = {} /\ closes = 0
    BY DEF Init
  <1>4. blocked \in BOOLEAN
    BY DEF Init
  <1> QED
    BY <1>1, <1>2, <1>3, <1>4, StreamAssumption DEF StreamAssumption, TypeOK

\* Every reachable state is of its type; in particular the queue never holds
\* more than QueueLimit events (queueEventLimit).
THEOREM TypeCorrect == Spec => []TypeOK
  BY TypeInit, TypeStep, PTL DEF Spec

-----------------------------------------------------------------------------
(***************************************************************************)
(* Sequences of events in order: what each way of writing, queueing and    *)
(* receiving keeps of it.                                                  *)
(***************************************************************************)

LEMMA OrderOfNothing ==
  ASSUME NEW s, s = <<>>, NEW from, NEW to
  PROVE  InOrder(s, from, to)
  <1>1. Len(s) = 0
    OBVIOUS
  <1> QED
    BY <1>1 DEF InOrder

LEMMA OrderWidens ==
  ASSUME NEW s \in Seq(Nat), NEW from \in Nat, NEW to \in Nat, NEW more \in Nat,
         InOrder(s, from, to), to <= more
  PROVE  InOrder(s, from, more)
  BY DEF InOrder

LEMMA OrderOfAppend ==
  ASSUME NEW s \in Seq(Nat), NEW from \in Nat, NEW to \in Nat, NEW n \in Nat,
         InOrder(s, from, to), from <= to, to < n
  PROVE  InOrder(Append(s, n), from, n)
  <1> DEFINE t == Append(s, n)
  <1>1. /\ Len(t) = Len(s) + 1 /\ t[Len(s) + 1] = n /\ Len(s) \in Nat
        /\ \A i \in 1 .. Len(s) : t[i] = s[i] /\ s[i] \in Nat
    OBVIOUS
  <1> QED
    BY <1>1, SMTT(40) DEF InOrder

LEMMA OrderOfConcat ==
  ASSUME NEW s \in Seq(Nat), NEW t \in Seq(Nat),
         NEW from \in Nat, NEW mid \in Nat, NEW to \in Nat,
         InOrder(s, from, mid), InOrder(t, mid, to), from <= mid, mid <= to
  PROVE  InOrder(s \o t, from, to)
  <1> DEFINE u == s \o t
             m == Len(s)
             n == Len(t)
  <1>1. /\ m \in Nat /\ n \in Nat /\ Len(u) = m + n
        /\ \A i \in 1 .. m : u[i] = s[i] /\ s[i] \in Nat
        /\ \A i \in 1 .. n : u[m + i] = t[i] /\ t[i] \in Nat
    BY SMTT(40)
  <1>2. /\ \A i \in 1 .. m : from < s[i] /\ s[i] <= mid
        /\ \A i, j \in 1 .. m : i < j => s[i] < s[j]
        /\ \A i \in 1 .. n : mid < t[i] /\ t[i] <= to
        /\ \A i, j \in 1 .. n : i < j => t[i] < t[j]
    BY DEF InOrder
  <1>3. \A i \in 1 .. Len(u) : from < u[i] /\ u[i] <= to
    <2> HIDE DEF u, m, n
    <2> SUFFICES ASSUME NEW i \in 1 .. m + n PROVE from < u[i] /\ u[i] <= to
      BY <1>1
    <2>1. CASE i \in 1 .. m
      BY <1>1, <1>2, <2>1, SMTT(40)
    <2>2. CASE i \notin 1 .. m
      <3>1. PICK a \in 1 .. n : i = m + a
        <4>1. i - m \in 1 .. n /\ i = m + (i - m)
          BY <1>1, <2>2
        <4> QED
          BY <4>1
      <3>2. u[i] = t[a] /\ t[a] \in Nat /\ mid < t[a] /\ t[a] <= to
        BY <1>1, <1>2, <3>1
      <3> QED
        BY <3>2
    <2> QED
      BY <2>1, <2>2
  <1>4. \A i, j \in 1 .. Len(u) : i < j => u[i] < u[j]
    <2> HIDE DEF u, m, n
    <2> SUFFICES ASSUME NEW i \in 1 .. m + n, NEW j \in 1 .. m + n, i < j
                 PROVE  u[i] < u[j]
      BY <1>1
    <2>1. CASE j \in 1 .. m
      BY <1>1, <1>2, <2>1
    <2>2. CASE j \notin 1 .. m
      <3>1. PICK b \in 1 .. n : j = m + b
        <4>1. j - m \in 1 .. n /\ j = m + (j - m)
          BY <1>1, <2>2
        <4> QED
          BY <4>1
      <3>2. u[j] = t[b] /\ t[b] \in Nat /\ mid < t[b]
        BY <1>1, <1>2, <3>1
      <3>3. CASE i \in 1 .. m
        <4>1. u[i] = s[i] /\ s[i] \in Nat /\ s[i] <= mid
          BY <1>1, <1>2, <3>3
        <4> QED
          BY <3>2, <4>1, SMTT(40)
      <3>4. CASE i \notin 1 .. m
        <4>1. PICK a \in 1 .. n : i = m + a
          <5>1. i - m \in 1 .. n /\ i = m + (i - m)
            BY <1>1, <3>4
          <5> QED
            BY <5>1
        <4>2. u[i] = t[a] /\ a < b
          BY <1>1, <3>1, <4>1
        <4> QED
          BY <1>2, <3>2, <4>2
      <3> QED
        BY <3>3, <3>4
    <2> QED
      BY <2>1, <2>2
  <1> QED
    BY <1>3, <1>4 DEF InOrder

LEMMA OrderOfPrefix ==
  ASSUME NEW s \in Seq(Nat), NEW from \in Nat, NEW to \in Nat,
         NEW k \in 1 .. Len(s), InOrder(s, from, to)
  PROVE  InOrder(SubSeq(s, 1, k), from, s[k])
  <1> DEFINE t == SubSeq(s, 1, k)
  <1>1. k \in Nat /\ Len(t) = k /\ \A i \in 1 .. k : t[i] = s[i]
    OBVIOUS
  <1>2. /\ \A i \in 1 .. k : s[i] \in Nat /\ from < s[i] /\ (i < k => s[i] < s[k])
        /\ \A i, j \in 1 .. k : i < j => s[i] < s[j]
    <2>1. \A i \in 1 .. k : i \in 1 .. Len(s) /\ s[i] \in Nat
      OBVIOUS
    <2>2. \A i \in 1 .. k : from < s[i]
      BY <2>1 DEF InOrder
    <2>3. \A i, j \in 1 .. k : i < j => s[i] < s[j]
      BY <2>1 DEF InOrder
    <2> QED
      BY <1>1, <2>1, <2>2, <2>3
  <1> HIDE DEF t
  <1>3. \A i \in 1 .. k : from < t[i] /\ t[i] <= s[k]
    <2> SUFFICES ASSUME NEW i \in 1 .. k PROVE from < s[i] /\ s[i] <= s[k]
      BY <1>1
    <2>1. CASE i = k
      BY <1>1, <1>2, <2>1
    <2>2. CASE i < k
      BY <1>1, <1>2, <2>2
    <2> QED
      BY <1>1, <2>1, <2>2
  <1>4. \A i, j \in 1 .. k : i < j => t[i] < t[j]
    <2> SUFFICES ASSUME NEW i \in 1 .. k, NEW j \in 1 .. k, i < j PROVE t[i] < t[j]
      OBVIOUS
    <2>1. t[i] = s[i] /\ t[j] = s[j]
      BY <1>1
    <2> QED
      BY <1>2, <2>1
  <1> QED
    BY <1>1, <1>3, <1>4 DEF InOrder, t

LEMMA OrderOfTail ==
  ASSUME NEW s \in Seq(Nat), NEW from \in Nat, NEW to \in Nat,
         s # <<>>, InOrder(s, from, to)
  PROVE  InOrder(Tail(s), Head(s), to) /\ from < Head(s) /\ Head(s) <= to
  <1> DEFINE t == Tail(s)
  <1>1. /\ Len(s) \in Nat \ {0} /\ Head(s) = s[1] /\ Len(t) = Len(s) - 1
        /\ \A i \in 1 .. Len(t) : t[i] = s[i + 1]
        /\ \A i \in 1 .. Len(s) : s[i] \in Nat
    OBVIOUS
  <1> HIDE DEF t
  <1> QED
    BY <1>1 DEF InOrder, t

LEMMA OrderOfReplay ==
  ASSUME NEW c \in Nat, NEW m \in Nat
  PROVE  InOrder([i \in 1 .. m - c |-> c + i], c, m)
  <1> DEFINE s == [i \in 1 .. m - c |-> c + i]
  <1>1. CASE c <= m
    <2>1. Len(s) = m - c
      BY <1>1
    <2> QED
      BY <1>1, <2>1 DEF InOrder
  <1>2. CASE m < c
    <2>1. 1 .. m - c = {}
      BY <1>2
    <2>2. s = <<>>
      BY <2>1
    <2> QED
      BY <2>2, OrderOfNothing
  <1> QED
    BY <1>1, <1>2

-----------------------------------------------------------------------------
(***************************************************************************)
(* The events in a sequence, by the same ways.                             *)
(***************************************************************************)

LEMMA RangeOfNothing ==
  ASSUME NEW s, s = <<>>
  PROVE  Range(s) = {}
  <1>1. DOMAIN s = {}
    OBVIOUS
  <1> QED
    BY <1>1 DEF Range

LEMMA RangeOfAppend ==
  ASSUME NEW s \in Seq(Nat), NEW n \in Nat
  PROVE  Range(Append(s, n)) = Range(s) \cup {n}
  <1> DEFINE t == Append(s, n)
             m == Len(s)
  <1>1. /\ m \in Nat /\ DOMAIN s = 1 .. m /\ DOMAIN t = 1 .. m + 1
        /\ t[m + 1] = n /\ \A i \in 1 .. m : t[i] = s[i]
    OBVIOUS
  <1> HIDE DEF t, m
  <1>2. 1 .. m + 1 = 1 .. m \cup {m + 1}
    BY <1>1
  <1>3. Range(t) = Range(s) \cup {n}
    BY <1>1, <1>2 DEF Range
  <1> QED
    BY <1>3 DEF t

LEMMA RangeOfTail ==
  ASSUME NEW s \in Seq(Nat), s # <<>>
  PROVE  Range(s) = {Head(s)} \cup Range(Tail(s))
  <1> DEFINE t == Tail(s)
             m == Len(s)
  <1>1. /\ m \in Nat \ {0} /\ Head(s) = s[1]
        /\ DOMAIN s = 1 .. m /\ DOMAIN t = 1 .. m - 1
        /\ \A i \in 1 .. m - 1 : t[i] = s[i + 1]
    OBVIOUS
  <1> HIDE DEF t, m
  <1>2. \A i \in 1 .. m : i = 1 \/ \E j \in 1 .. m - 1 : i = j + 1
    <2> SUFFICES ASSUME NEW i \in 1 .. m, i # 1
                 PROVE  \E j \in 1 .. m - 1 : i = j + 1
      OBVIOUS
    <2>1. i - 1 \in 1 .. m - 1 /\ i = (i - 1) + 1
      BY <1>1
    <2> QED
      BY <2>1
  <1>3. 1 \in 1 .. m /\ \A j \in 1 .. m - 1 : j + 1 \in 1 .. m
    BY <1>1
  <1>4. {s[1]} \cup Range(t) \subseteq Range(s)
    BY <1>1, <1>3 DEF Range
  <1>5. Range(s) \subseteq {s[1]} \cup Range(t)
    <2> SUFFICES ASSUME NEW i \in 1 .. m PROVE s[i] \in {s[1]} \cup Range(t)
      BY <1>1 DEF Range
    <2>1. ASSUME NEW j \in 1 .. m - 1, i = j + 1 PROVE s[i] \in Range(t)
      BY <1>1, <2>1 DEF Range
    <2> QED
      BY <1>2, <2>1
  <1> QED
    BY <1>1, <1>4, <1>5 DEF t

LEMMA RangeOfPrefix ==
  ASSUME NEW s \in Seq(Nat), NEW k \in 1 .. Len(s)
  PROVE  Range(s) = Range(SubSeq(s, 1, k)) \cup { s[i] : i \in k + 1 .. Len(s) }
  <1> DEFINE t == SubSeq(s, 1, k)
             m == Len(s)
  <1>1. m \in Nat /\ k \in 1 .. m /\ DOMAIN s = 1 .. m
    OBVIOUS
  <1>2. DOMAIN t = 1 .. k /\ \A i \in 1 .. k : t[i] = s[i]
    OBVIOUS
  <1> HIDE DEF t, m
  <1>3. 1 .. m = 1 .. k \cup k + 1 .. m
    BY <1>1
  <1>4. Range(s) = Range(t) \cup { s[i] : i \in k + 1 .. m }
    BY <1>1, <1>2, <1>3 DEF Range
  <1> QED
    BY <1>4 DEF t, m

LEMMA RangeOfReplay ==
  ASSUME NEW c \in Nat, NEW m \in Nat
  PROVE  Range([i \in 1 .. m - c |-> c + i]) = c + 1 .. m
  <1>1. \A n \in c + 1 .. m : n - c \in 1 .. m - c /\ n = c + (n - c)
    OBVIOUS
  <1>2. \A i \in 1 .. m - c : c + i \in c + 1 .. m
    OBVIOUS
  <1> QED
    BY <1>1, <1>2 DEF Range

LEMMA RangeInOrder ==
  ASSUME NEW s \in Seq(Nat), NEW from \in Nat, NEW to \in Nat, InOrder(s, from, to)
  PROVE  Range(s) \subseteq from + 1 .. to
  <1>1. DOMAIN s = 1 .. Len(s) /\ \A i \in 1 .. Len(s) : s[i] \in Nat
    OBVIOUS
  <1>2. \A i \in 1 .. Len(s) : s[i] \in from + 1 .. to
    BY <1>1 DEF InOrder
  <1> QED
    BY <1>1, <1>2 DEF Range

-----------------------------------------------------------------------------
(***************************************************************************)
(* The invariant is kept by every action.                                  *)
(***************************************************************************)

LEMMA Numbers ==
  ASSUME TypeOK
  PROVE  /\ maxSequence \in Nat /\ lastSequence \in Nat /\ cursor \in Nat
         /\ wire \in Seq(Nat) /\ queue \in Seq(Nat) /\ received \in Seq(Nat)
  <1>1. Sequence \subseteq Nat
    BY DEF Sequence
  <1>2. Seq(Sequence) \subseteq Seq(Nat)
    BY <1>1, SeqMonotonic
  <1> QED
    BY <1>2, StreamAssumption DEF TypeOK, StreamAssumption

\* Where the events on the way are, as sets of numbers.
LEMMA OnTheWay ==
  ASSUME IInv
  PROVE  /\ cursor <= maxSequence
         /\ Range(wire) \subseteq cursor + 1 .. maxSequence
         /\ Range(queue) \subseteq lastSequence + 1 .. maxSequence
         /\ stream = "open" => /\ cursor <= lastSequence /\ lastSequence <= maxSequence
                               /\ Range(wire) \subseteq cursor + 1 .. lastSequence
         /\ stream # "open" => Range(queue) = {}
         /\ ~blocked => Range(queue) = {}
  <1> USE Numbers DEF IInv
  <1>1. /\ cursor <= maxSequence
        /\ stream = "open" => cursor <= lastSequence /\ lastSequence <= maxSequence
    BY DEF PipelineIsOrdered
  <1>2. Range(queue) \subseteq lastSequence + 1 .. maxSequence
    BY RangeInOrder DEF PipelineIsOrdered
  <1>3. CASE stream = "open"
    <2>1. Range(wire) \subseteq cursor + 1 .. lastSequence
      BY <1>3, RangeInOrder DEF PipelineIsOrdered
    <2>2. ~blocked => Range(queue) = {}
      BY RangeOfNothing DEF QueueNeedsBlocking
    <2> QED
      BY <1>1, <1>2, <1>3, <2>1, <2>2
  <1>4. CASE stream # "open"
    <2>1. Range(wire) \subseteq cursor + 1 .. maxSequence
      BY <1>4, RangeInOrder DEF PipelineIsOrdered
    <2>2. Range(queue) = {}
      BY <1>4, RangeOfNothing DEF QueueNeedsBlocking
    <2> QED
      BY <1>1, <1>2, <1>4, <2>1, <2>2
  <1> QED
    BY <1>3, <1>4

LEMMA PublishKeeps ==
  ASSUME IInv, TypeOK', Publish
  PROVE  IInv'
  <1> PICK n : n = maxSequence + 1
    OBVIOUS
  <1>1. /\ maxSequence' = n /\ cursor' = cursor /\ received' = received
        /\ dropped' = dropped /\ unpublished' = unpublished
        /\ listener(n)
    BY DEF Publish, client, auxiliary
  <1>2. /\ maxSequence \in Nat /\ lastSequence \in Nat /\ cursor \in Nat
        /\ wire \in Seq(Nat) /\ queue \in Seq(Nat) /\ n \in Nat
        /\ maxSequence < n /\ maxSequence <= n
    BY Numbers DEF IInv
  <1>3. /\ cursor <= maxSequence
        /\ InOrder(queue, lastSequence, maxSequence)
        /\ InOrder(wire, cursor, IF stream = "open" THEN lastSequence ELSE maxSequence)
        /\ stream = "open" => cursor <= lastSequence /\ lastSequence <= maxSequence
    BY DEF IInv, PipelineIsOrdered
  <1>4. ReceivedIsBehindCursor' /\ ReceivedInOrder' /\ LossesAreCommitted'
    BY <1>1, <1>2 DEF IInv, ReceivedIsBehindCursor, ReceivedInOrder, LossesAreCommitted
  <1>5. \A m \in 1 .. n : m \in 1 .. maxSequence \/ m = n
    BY <1>2
  <1>6. CASE stream # "open" \/ n <= lastSequence
    <2>1. stream # "open"
      BY <1>2, <1>3, <1>6
    <2>2. UNCHANGED <<stream, lastSequence, blocked, queue, wire>>
      BY <1>1, <1>6 DEF listener, connection
    <2>3. PipelineIsOrdered'
      BY <1>1, <1>2, <1>3, <2>1, <2>2, OrderWidens DEF PipelineIsOrdered
    <2>4. QueueNeedsBlocking' /\ NothingOnNoWire'
      BY <2>2 DEF IInv, QueueNeedsBlocking, NothingOnNoWire
    <2>5. Beyond(n)'
      BY <1>1, <1>2, <2>1, <2>2, OnTheWay DEF Beyond
    <2>6. EveryEventIsAccountedFor'
      BY <1>1, <1>5, <2>2, <2>5 DEF IInv, EveryEventIsAccountedFor, OnItsWay, Beyond
    <2> QED
      BY <1>4, <2>3, <2>4, <2>6 DEF IInv
  <1>7. CASE stream = "open" /\ blocked /\ add(n)
    <2>1. queue' = Append(queue, n) /\ UNCHANGED <<stream, lastSequence, blocked, wire>>
      BY <1>7 DEF add
    <2>2. PipelineIsOrdered'
      BY <1>1, <1>2, <1>3, <1>7, <2>1, OrderOfAppend DEF PipelineIsOrdered
    <2>3. QueueNeedsBlocking' /\ NothingOnNoWire'
      BY <1>7, <2>1 DEF IInv, QueueNeedsBlocking, NothingOnNoWire
    <2>4. Range(queue') = Range(queue) \cup {n}
      BY <1>2, <2>1, RangeOfAppend
    <2>5. EveryEventIsAccountedFor'
      BY <1>1, <1>5, <1>7, <2>1, <2>4
      DEF IInv, EveryEventIsAccountedFor, OnItsWay, Beyond
    <2> QED
      BY <1>4, <2>2, <2>3, <2>5 DEF IInv
  <1>8. CASE stream = "open" /\ refuse(n)
    <2>1. stream' = "ended" /\ lastSequence' = 0 /\ wire' = wire /\ queue' = <<>>
      BY <1>8 DEF refuse, cleanup
    <2>2. InOrder(queue', 0, n)
      BY <2>1, OrderOfNothing
    <2>3. InOrder(wire, cursor, n)
      BY <1>2, <1>3, <1>8, OrderWidens
    <2>4. PipelineIsOrdered'
      BY <1>1, <1>2, <1>3, <2>1, <2>2, <2>3 DEF PipelineIsOrdered
    <2>5. QueueNeedsBlocking' /\ NothingOnNoWire'
      BY <2>1 DEF QueueNeedsBlocking, NothingOnNoWire
    <2>6. \A m \in Range(queue) \cup {n} : Beyond(m)'
      BY <1>1, <1>2, <1>8, <2>1, OnTheWay DEF Beyond
    <2>7. EveryEventIsAccountedFor'
      BY <1>1, <1>5, <1>8, <2>1, <2>6
      DEF IInv, EveryEventIsAccountedFor, OnItsWay, Beyond
    <2> QED
      BY <1>4, <2>4, <2>5, <2>7 DEF IInv
  <1>9. CASE /\ stream = "open" /\ ~blocked
             /\ writeEvents(<<n>>) /\ UNCHANGED <<stream, queue>>
    <2>1. /\ wire' = wire \o <<n>> /\ lastSequence' = n
          /\ stream' = stream /\ queue' = queue
      BY <1>2, <1>9 DEF writeEvents, Last
    <2>2. wire' = Append(wire, n)
      BY <1>2, <2>1
    <2>3. queue' = <<>>
      BY <1>9, <2>1 DEF IInv, QueueNeedsBlocking
    <2>4. InOrder(wire', cursor, n) /\ InOrder(queue', n, n)
      BY <1>2, <1>3, <1>9, <2>2, <2>3, OrderOfAppend, OrderOfNothing
    <2>5. PipelineIsOrdered'
      BY <1>1, <1>2, <1>3, <1>9, <2>1, <2>4 DEF PipelineIsOrdered
    <2>6. QueueNeedsBlocking' /\ NothingOnNoWire'
      BY <1>9, <2>1, <2>3 DEF QueueNeedsBlocking, NothingOnNoWire
    <2>7. Range(wire') = Range(wire) \cup {n}
      BY <1>2, <2>2, RangeOfAppend
    <2>8. EveryEventIsAccountedFor'
      BY <1>1, <1>5, <1>9, <2>1, <2>7
      DEF IInv, EveryEventIsAccountedFor, OnItsWay, Beyond
    <2> QED
      BY <1>4, <2>5, <2>6, <2>8 DEF IInv
  <1> QED
    BY <1>1, <1>6, <1>7, <1>8, <1>9 DEF listener

LEMMA CommitUnpublishedKeeps ==
  ASSUME IInv, TypeOK', CommitUnpublished
  PROVE  IInv'
  <1> PICK n : n = maxSequence + 1
    OBVIOUS
  <1>1. /\ maxSequence' = n /\ unpublished' = unpublished \cup {n}
        /\ UNCHANGED <<stream, lastSequence, blocked, queue, wire, cursor, received, dropped>>
    BY DEF CommitUnpublished, connection, client
  <1>2. /\ maxSequence \in Nat /\ lastSequence \in Nat /\ cursor \in Nat
        /\ wire \in Seq(Nat) /\ queue \in Seq(Nat) /\ n \in Nat
        /\ maxSequence < n /\ maxSequence <= n
    BY Numbers DEF IInv
  <1>3. PipelineIsOrdered'
    BY <1>1, <1>2, OrderWidens DEF IInv, PipelineIsOrdered
  <1>4. QueueNeedsBlocking' /\ NothingOnNoWire' /\ ReceivedIsBehindCursor' /\ ReceivedInOrder'
    BY <1>1 DEF IInv, QueueNeedsBlocking, NothingOnNoWire, ReceivedIsBehindCursor,
        ReceivedInOrder
  <1>5. \A m \in 1 .. n : m \in 1 .. maxSequence \/ m = n
    BY <1>2
  <1>6. EveryEventIsAccountedFor'
    BY <1>1, <1>5 DEF IInv, EveryEventIsAccountedFor, OnItsWay, Beyond
  <1>7. LossesAreCommitted'
    BY <1>1, <1>2 DEF IInv, LossesAreCommitted
  <1> QED
    BY <1>3, <1>4, <1>6, <1>7 DEF IInv

LEMMA ConnectKeeps ==
  ASSUME IInv, TypeOK', Connect
  PROVE  IInv'
  <1>1. /\ stream = "none" /\ cursor <= maxSequence
        /\ stream' = "open" /\ lastSequence' = maxSequence /\ queue' = <<>>
        /\ wire' = [i \in 1 .. maxSequence - cursor |-> cursor + i]
        /\ UNCHANGED <<maxSequence, cursor, received, dropped, unpublished>>
    BY DEF Connect, validCursor, client, auxiliary
  <1>2. maxSequence \in Nat /\ cursor \in Nat
    BY Numbers DEF IInv
  <1>3. Range(wire) = {} /\ Range(queue) = {}
    BY <1>1, RangeOfNothing, OnTheWay DEF IInv, NothingOnNoWire
  <1>4. /\ InOrder(wire', cursor, maxSequence)
        /\ Range(wire') = cursor + 1 .. maxSequence
    BY <1>1, <1>2, OrderOfReplay, RangeOfReplay
  <1>5. InOrder(queue', maxSequence, maxSequence)
    BY <1>1, OrderOfNothing
  <1>6. PipelineIsOrdered'
    BY <1>1, <1>2, <1>4, <1>5 DEF PipelineIsOrdered
  <1>7. QueueNeedsBlocking' /\ NothingOnNoWire' /\ ReceivedIsBehindCursor' /\ ReceivedInOrder'
    BY <1>1 DEF IInv, QueueNeedsBlocking, NothingOnNoWire, ReceivedIsBehindCursor,
        ReceivedInOrder
  <1>8. \A n \in 1 .. maxSequence : cursor < n => n \in Range(wire')
    BY <1>2, <1>4
  <1>9. EveryEventIsAccountedFor'
    BY <1>1, <1>3, <1>8 DEF IInv, EveryEventIsAccountedFor, OnItsWay, Beyond
  <1> QED
    BY <1>1, <1>6, <1>7, <1>9 DEF IInv, LossesAreCommitted

LEMMA ConnectResetKeeps ==
  ASSUME IInv, TypeOK', ConnectReset(maxSequence + 1)
  PROVE  IInv'
  <1>1. /\ stream = "none" /\ cursor' = 0 /\ received' = <<>>
        /\ UNCHANGED <<maxSequence, stream, lastSequence, blocked, queue, wire,
                       dropped, unpublished>>
    BY DEF ConnectReset, connection, auxiliary
  <1>2. maxSequence \in Nat /\ lastSequence \in Nat
    BY Numbers DEF IInv
  <1>3. wire' = <<>>
    BY <1>1 DEF IInv, NothingOnNoWire
  <1>4. /\ InOrder(wire', 0, maxSequence) /\ InOrder(received', 0, 0)
        /\ Range(wire') = {} /\ Range(received') = {}
    BY <1>1, <1>3, OrderOfNothing, RangeOfNothing
  <1>5. PipelineIsOrdered'
    BY <1>1, <1>2, <1>4 DEF IInv, PipelineIsOrdered
  <1>6. QueueNeedsBlocking' /\ NothingOnNoWire' /\ ReceivedIsBehindCursor' /\ ReceivedInOrder'
    BY <1>1, <1>3, <1>4 DEF IInv, QueueNeedsBlocking, NothingOnNoWire, ReceivedIsBehindCursor,
        ReceivedInOrder
  <1>7. \A n \in 1 .. maxSequence : Beyond(n)'
    BY <1>1, <1>2, <1>4 DEF Beyond
  <1>8. EveryEventIsAccountedFor'
    BY <1>1, <1>7 DEF EveryEventIsAccountedFor, Beyond
  <1> QED
    BY <1>1, <1>5, <1>6, <1>8 DEF IInv, LossesAreCommitted

LEMMA HeartbeatKeeps ==
  ASSUME IInv, TypeOK', Heartbeat
  PROVE  IInv'
  <1>1. /\ stream = "open" /\ blocked'
        /\ UNCHANGED <<maxSequence, stream, lastSequence, queue, wire, cursor,
                       received, dropped, unpublished>>
    BY DEF Heartbeat, client, auxiliary
  <1>2. QueueNeedsBlocking'
    BY <1>1 DEF QueueNeedsBlocking
  <1> QED
    BY <1>1, <1>2
    DEF IInv, PipelineIsOrdered, NothingOnNoWire, ReceivedIsBehindCursor,
        ReceivedInOrder, EveryEventIsAccountedFor, OnItsWay, Beyond, LossesAreCommitted

LEMMA CloseKeeps ==
  ASSUME IInv, TypeOK', Close
  PROVE  IInv'
  <1>1. /\ stream' = "none" /\ wire' = <<>> /\ queue' = <<>> /\ lastSequence' = 0
        /\ UNCHANGED <<maxSequence, cursor, received, dropped, unpublished>>
    BY DEF Close, cleanup, client
  <1>2. maxSequence \in Nat /\ cursor \in Nat /\ lastSequence \in Nat
    BY Numbers DEF IInv
  <1>3. /\ InOrder(wire', cursor, maxSequence) /\ InOrder(queue', 0, maxSequence)
        /\ Range(wire') = {}
    BY <1>1, OrderOfNothing, RangeOfNothing
  <1>4. PipelineIsOrdered'
    BY <1>1, <1>3 DEF IInv, PipelineIsOrdered
  <1>5. QueueNeedsBlocking' /\ NothingOnNoWire' /\ ReceivedIsBehindCursor' /\ ReceivedInOrder'
    BY <1>1 DEF IInv, QueueNeedsBlocking, NothingOnNoWire, ReceivedIsBehindCursor,
        ReceivedInOrder
  <1>6. \A n \in Nat : cursor < n => Beyond(n)'
    BY <1>1, <1>3 DEF Beyond
  <1>7. \A n \in 1 .. maxSequence : OnItsWay(n) \/ Beyond(n) => n \in Nat /\ cursor < n
    <2> SUFFICES ASSUME NEW n \in 1 .. maxSequence, OnItsWay(n) \/ Beyond(n)
                 PROVE  cursor < n
      BY <1>2
    <2>1. CASE n \in Range(wire) \/ Beyond(n)
      BY <1>2, <2>1, OnTheWay DEF Beyond
    <2>2. CASE n \in Range(queue)
      BY <1>2, <2>2, OnTheWay
    <2> QED
      BY <2>1, <2>2 DEF OnItsWay
  <1>8. EveryEventIsAccountedFor'
    BY <1>1, <1>6, <1>7 DEF IInv, EveryEventIsAccountedFor
  <1> QED
    BY <1>1, <1>4, <1>5, <1>8 DEF IInv, LossesAreCommitted

LEMMA DeliverKeeps ==
  ASSUME IInv, TypeOK', Deliver
  PROVE  IInv'
  <1>1. /\ wire # <<>> /\ wire' = Tail(wire) /\ cursor' = Head(wire)
        /\ received' = Append(received, Head(wire))
        /\ UNCHANGED <<maxSequence, stream, lastSequence, blocked, queue, dropped, unpublished>>
    BY DEF Deliver, connection, auxiliary
  <1>2. /\ maxSequence \in Nat /\ lastSequence \in Nat /\ cursor \in Nat
        /\ wire \in Seq(Nat) /\ received \in Seq(Nat)
    BY Numbers DEF IInv
  <1>3. Head(wire) \in Nat
    BY <1>1, <1>2
  <1>4. Range(wire) = {Head(wire)} \cup Range(wire')
    BY <1>1, <1>2, RangeOfTail
  <1>5. Range(received') = Range(received) \cup {Head(wire)}
    BY <1>1, <1>2, <1>3, RangeOfAppend
  <1>6. PICK to \in Nat : /\ to = (IF stream = "open" THEN lastSequence ELSE maxSequence)
                          /\ InOrder(wire, cursor, to) /\ to <= maxSequence
    BY <1>2 DEF IInv, PipelineIsOrdered
  <1>7. InOrder(wire', Head(wire), to) /\ cursor < Head(wire) /\ Head(wire) <= to
    BY <1>1, <1>2, <1>6, OrderOfTail
  <1>8. PipelineIsOrdered'
    BY <1>1, <1>2, <1>3, <1>6, <1>7 DEF IInv, PipelineIsOrdered
  <1>9. QueueNeedsBlocking' /\ NothingOnNoWire'
    BY <1>1 DEF IInv, QueueNeedsBlocking, NothingOnNoWire
  <1>10. ReceivedIsBehindCursor'
    <2>1. 1 .. cursor \subseteq 1 .. Head(wire) /\ Head(wire) \in 1 .. Head(wire)
      BY <1>2, <1>3, <1>7
    <2> QED
      BY <1>1, <1>5, <2>1 DEF IInv, ReceivedIsBehindCursor
  <1>11. ReceivedInOrder'
    BY <1>1, <1>2, <1>3, <1>7, OrderOfAppend DEF IInv, ReceivedInOrder
  <1>12. \A n : Beyond(n) => Beyond(n)'
    BY <1>1, <1>4 DEF Beyond
  <1>13. EveryEventIsAccountedFor'
    BY <1>1, <1>4, <1>5, <1>12 DEF IInv, EveryEventIsAccountedFor, OnItsWay
  <1> QED
    BY <1>1, <1>8, <1>9, <1>10, <1>11, <1>13 DEF IInv, LossesAreCommitted

LEMMA DrainKeeps ==
  ASSUME IInv, TypeOK', Drain
  PROVE  IInv'
  <1>1. /\ stream = "open" /\ queue' = <<>>
        /\ UNCHANGED <<maxSequence, stream, cursor, received, unpublished>>
    BY DEF Drain, client
  <1>2. /\ maxSequence \in Nat /\ lastSequence \in Nat /\ cursor \in Nat
        /\ wire \in Seq(Nat) /\ queue \in Seq(Nat)
    BY Numbers DEF IInv
  <1>3. /\ InOrder(wire, cursor, lastSequence) /\ InOrder(queue, lastSequence, maxSequence)
        /\ cursor <= lastSequence /\ lastSequence <= maxSequence /\ cursor <= maxSequence
    BY <1>1 DEF IInv, PipelineIsOrdered
  <1>4. QueueNeedsBlocking' /\ NothingOnNoWire' /\ ReceivedIsBehindCursor' /\ ReceivedInOrder'
    BY <1>1 DEF IInv, QueueNeedsBlocking, NothingOnNoWire, ReceivedIsBehindCursor,
        ReceivedInOrder
  <1>5. Range(queue') = {} /\ \A n : InOrder(queue', n, maxSequence)
    BY <1>1, RangeOfNothing, OrderOfNothing
  <1>6. ASSUME NEW k \in 1 .. Len(queue), NEW rest,
               wire' = wire \o SubSeq(queue, 1, k), lastSequence' = queue[k],
               rest = { queue[i] : i \in k + 1 .. Len(queue) },
               dropped' = dropped \cup rest
        PROVE  PipelineIsOrdered' /\ EveryEventIsAccountedFor' /\ LossesAreCommitted'
    <2>1. InOrder(SubSeq(queue, 1, k), lastSequence, queue[k])
      BY <1>2, <1>3, OrderOfPrefix
    <2>2. queue[k] \in Nat /\ lastSequence < queue[k] /\ queue[k] <= maxSequence
      BY <1>2, <1>3 DEF InOrder
    <2>3. SubSeq(queue, 1, k) \in Seq(Nat)
      BY <1>2
    <2>4. InOrder(wire', cursor, queue[k])
      <3>1. lastSequence <= queue[k]
        BY <1>2, <2>2
      <3>2. InOrder(wire \o SubSeq(queue, 1, k), cursor, queue[k])
        BY <1>2, <1>3, <2>1, <2>2, <2>3, <3>1, OrderOfConcat
      <3> QED
        BY <1>6, <3>2
    <2>5. PipelineIsOrdered'
      BY <1>1, <1>2, <1>3, <1>5, <1>6, <2>2, <2>4 DEF PipelineIsOrdered
    <2>6. Range(wire') = Range(wire) \cup Range(SubSeq(queue, 1, k))
      BY <1>2, <1>6, <2>3, RangeConcatenation, ZenonT(40)
    <2>7. Range(queue) = Range(SubSeq(queue, 1, k)) \cup rest
      BY <1>2, <1>6, RangeOfPrefix
    <2>8. EveryEventIsAccountedFor'
      BY <1>1, <1>6, <2>6, <2>7 DEF IInv, EveryEventIsAccountedFor, OnItsWay, Beyond
    <2>9. Range(queue) \subseteq 1 .. maxSequence
      BY <1>2, OnTheWay
    <2>10. LossesAreCommitted'
      BY <1>1, <1>6, <2>7, <2>9 DEF IInv, LossesAreCommitted
    <2> QED
      BY <2>5, <2>8, <2>10
  <1>7. CASE queue = <<>> /\ wire' = wire \o queue /\ lastSequence' = lastSequence
             /\ dropped' = dropped
    <2>1. wire' = wire
      BY <1>2, <1>7, ConcatEmptySeq
    <2>2. PipelineIsOrdered'
      BY <1>1, <1>3, <1>5, <1>7, <2>1 DEF PipelineIsOrdered
    <2>3. EveryEventIsAccountedFor' /\ LossesAreCommitted'
      BY <1>1, <1>7, <2>1
      DEF IInv, EveryEventIsAccountedFor, OnItsWay, Beyond, LossesAreCommitted
    <2> QED
      BY <1>4, <2>2, <2>3 DEF IInv
  <1>8. CASE queue # <<>> /\ wire' = wire \o queue /\ lastSequence' = Last(queue)
             /\ dropped' = dropped
    <2>1. Len(queue) \in 1 .. Len(queue) /\ SubSeq(queue, 1, Len(queue)) = queue
      BY <1>2, <1>8
    <2>2. { queue[i] : i \in Len(queue) + 1 .. Len(queue) } = {}
      BY <1>2
    <2>3. lastSequence' = queue[Len(queue)]
      BY <1>8 DEF Last
    <2> QED
      BY <1>4, <1>6, <1>8, <2>1, <2>2, <2>3 DEF IInv
  <1>9. CASE \E k \in 1 .. Len(queue) - 1 :
               /\ wire' = wire \o SubSeq(queue, 1, k)
               /\ lastSequence' = queue[k]
               /\ dropped' = dropped \cup { queue[i] : i \in k + 1 .. Len(queue) }
    <2>1. PICK k \in 1 .. Len(queue) - 1 :
            /\ wire' = wire \o SubSeq(queue, 1, k)
            /\ lastSequence' = queue[k]
            /\ dropped' = dropped \cup { queue[i] : i \in k + 1 .. Len(queue) }
      BY <1>9
    <2>2. k \in 1 .. Len(queue)
      BY <1>2
    <2>3. PipelineIsOrdered' /\ EveryEventIsAccountedFor' /\ LossesAreCommitted'
      BY <1>6, <2>1, <2>2
    <2> QED
      BY <1>4, <2>3 DEF IInv
  <1> QED
    BY <1>7, <1>8, <1>9 DEF Drain

LEMMA InvariantInit == Init => IInv
  <1> SUFFICES ASSUME Init PROVE IInv
    OBVIOUS
  <1>1. /\ maxSequence = 0 /\ cursor = 0 /\ lastSequence = 0 /\ stream = "none"
        /\ wire = <<>> /\ queue = <<>> /\ received = <<>> /\ dropped = {} /\ unpublished = {}
    BY DEF Init
  <1>2. PipelineIsOrdered
    BY <1>1, OrderOfNothing DEF PipelineIsOrdered
  <1>3. QueueNeedsBlocking /\ NothingOnNoWire
    BY <1>1 DEF QueueNeedsBlocking, NothingOnNoWire
  <1>4. ReceivedIsBehindCursor /\ ReceivedInOrder
    BY <1>1, RangeOfNothing, OrderOfNothing DEF ReceivedIsBehindCursor, ReceivedInOrder
  <1>5. EveryEventIsAccountedFor
    BY <1>1 DEF EveryEventIsAccountedFor
  <1>6. LossesAreCommitted
    BY <1>1 DEF LossesAreCommitted
  <1> QED
    BY TypeInit, <1>2, <1>3, <1>4, <1>5, <1>6 DEF IInv

LEMMA InvariantStep ==
  ASSUME IInv, [Next]_vars
  PROVE  IInv'
  <1>1. TypeOK'
    BY TypeStep DEF IInv
  <1>2. CASE UNCHANGED vars
    BY <1>1, <1>2
    DEF vars, connection, client, auxiliary, IInv, PipelineIsOrdered, QueueNeedsBlocking,
        NothingOnNoWire, ReceivedIsBehindCursor, ReceivedInOrder,
        EveryEventIsAccountedFor, OnItsWay, Beyond, LossesAreCommitted
  <1> QED
    BY <1>1, <1>2, PublishKeeps, CommitUnpublishedKeeps, ConnectKeeps, ConnectResetKeeps,
       DrainKeeps, HeartbeatKeeps, CloseKeeps, DeliverKeeps
    DEF Next

\* The inductive invariant holds: order, and an account of every event.
THEOREM InvariantHolds == Spec => []IInv
  BY InvariantInit, InvariantStep, PTL DEF Spec

\* Every event on its way is newer than what the client has, and in order, so
\* none is received twice or before an older one: replay, the broker and the
\* flush of the queue never overlap.
THEOREM PipelineStaysOrdered == Spec => []PipelineIsOrdered
  <1>1. IInv => PipelineIsOrdered
    BY DEF IInv
  <1> QED
    BY <1>1, InvariantHolds, PTL

\* Over all its connections the client receives each event at most once and
\* none after a newer one, however replay and live events interleave.
THEOREM ClientReceivesInOrder == Spec => []ReceivedInOrder
  <1>1. IInv => ReceivedInOrder
    BY DEF IInv
  <1> QED
    BY <1>1, InvariantHolds, PTL

LEMMA GapsAreKnown == IInv => OnlyKnownLosses
  <1> SUFFICES ASSUME IInv, NEW n \in 1 .. cursor
               PROVE  n \in Range(received) \cup dropped \cup unpublished
    BY DEF OnlyKnownLosses
  <1>1. maxSequence \in Nat /\ cursor \in Nat /\ lastSequence \in Nat
    BY Numbers DEF IInv
  <1>2. n \in 1 .. maxSequence
    BY <1>1, OnTheWay
  <1>3. ~OnItsWay(n)
    <2>1. n \notin Range(wire)
      BY <1>1, OnTheWay
    <2>2. CASE stream = "open"
      BY <1>1, <2>1, <2>2, OnTheWay DEF OnItsWay
    <2>3. CASE stream # "open"
      BY <2>1, <2>3, OnTheWay DEF OnItsWay
    <2> QED
      BY <2>2, <2>3
  <1>4. ~Beyond(n)
    BY <1>1 DEF Beyond
  <1> QED
    BY <1>2, <1>3, <1>4 DEF IInv, EveryEventIsAccountedFor

\* An event the client has passed over was dropped by flushQueue or never
\* published; a full queue, a close and a reconnection lose nothing.
THEOREM NoUnknownLoss == Spec => []OnlyKnownLosses
  BY GapsAreKnown, InvariantHolds, PTL

\* While no event was dropped or committed behind the broker's back, what a
\* connected client has and what is on its way make up the whole log.
THEOREM NothingElseIsLost == Spec => []LosslessUnlessBlocked
  <1>1. ASSUME IInv PROVE LosslessUnlessBlocked
    <2> SUFFICES ASSUME stream = "open", dropped = {}, unpublished = {}
                 PROVE  1 .. maxSequence = Range(received) \cup Range(wire) \cup Range(queue)
      BY DEF LosslessUnlessBlocked
    <2>1. maxSequence \in Nat /\ cursor \in Nat /\ lastSequence \in Nat
      BY <1>1, Numbers DEF IInv
    <2>2. 1 .. maxSequence \subseteq Range(received) \cup Range(wire) \cup Range(queue)
      BY <1>1 DEF IInv, EveryEventIsAccountedFor, OnItsWay, Beyond
    <2>3. /\ Range(received) \subseteq 1 .. cursor
          /\ Range(wire) \subseteq cursor + 1 .. maxSequence
          /\ Range(queue) \subseteq lastSequence + 1 .. maxSequence
          /\ cursor <= maxSequence
      BY <1>1, OnTheWay DEF IInv, ReceivedIsBehindCursor
    <2>4. Range(received) \cup Range(wire) \cup Range(queue) \subseteq 1 .. maxSequence
      BY <2>1, <2>3
    <2> QED
      BY <2>2, <2>4
  <1> QED
    BY <1>1, InvariantHolds, PTL

-----------------------------------------------------------------------------
(***************************************************************************)
(* The refinement.  Committing is Commit, the client's reading is Receive, *)
(* and a flush that throws away is Lose; the rest the feed does not see.   *)
(***************************************************************************)

LEMMA DeliverReceives ==
  ASSUME IInv, Deliver
  PROVE  Feed!Receive(Head(wire))
  <1>1. /\ wire # <<>> /\ cursor' = Head(wire)
        /\ received' = Append(received, Head(wire))
        /\ UNCHANGED <<maxSequence, dropped, unpublished>>
    BY DEF Deliver, connection, auxiliary
  <1>2. /\ maxSequence \in Nat /\ lastSequence \in Nat /\ cursor \in Nat
        /\ wire \in Seq(Nat) /\ Head(wire) \in Nat
    BY <1>1, Numbers DEF IInv
  <1>3. Range(wire) = {Head(wire)} \cup Range(Tail(wire))
    BY <1>1, <1>2, RangeOfTail
  <1>4. PICK to \in Nat : /\ InOrder(wire, cursor, to)
                          /\ stream = "open" => to = lastSequence
    BY <1>2 DEF IInv, PipelineIsOrdered
  <1>5. InOrder(Tail(wire), Head(wire), to)
    BY <1>1, <1>2, <1>4, OrderOfTail
  <1>6. Range(Tail(wire)) \subseteq Head(wire) + 1 .. to
    <2>1. Tail(wire) \in Seq(Nat)
      BY <1>1, <1>2
    <2> QED
      BY <1>2, <1>5, <2>1, RangeInOrder
  <1>7. Head(wire) \in cursor + 1 .. maxSequence
    BY <1>3, OnTheWay
  <1>8. ASSUME NEW n \in cursor + 1 .. Head(wire) - 1
        PROVE  n \in dropped \cup unpublished
    <2>1. n \in 1 .. maxSequence /\ n < Head(wire) /\ cursor < n
      BY <1>2, <1>7
    <2>2. n \notin Range(received)
      BY <1>2, <2>1 DEF IInv, ReceivedIsBehindCursor
    <2>3. n \notin Range(wire)
      BY <1>2, <1>3, <1>6, <2>1
    <2>4. n \notin Range(queue)
      <3>1. CASE stream = "open"
        <4>1. Head(wire) <= lastSequence
          BY <1>2, <1>3, <3>1, OnTheWay
        <4>2. Range(queue) \subseteq lastSequence + 1 .. maxSequence
          BY OnTheWay
        <4> QED
          BY <1>2, <2>1, <4>1, <4>2
      <3>2. CASE stream # "open"
        BY <3>2, OnTheWay
      <3> QED
        BY <3>1, <3>2
    <2>5. ~Beyond(n)
      <3>1. Head(wire) \in Range(wire) /\ ~(Head(wire) < n)
        BY <1>2, <1>3, <2>1
      <3> QED
        BY <3>1 DEF Beyond
    <2> QED
      BY <2>1, <2>2, <2>3, <2>4, <2>5 DEF IInv, EveryEventIsAccountedFor, OnItsWay
  <1> QED
    BY <1>1, <1>7, <1>8 DEF Feed!Receive

LEMMA DrainLoses ==
  ASSUME IInv, Drain
  PROVE  Feed!Lose
  <1>1. /\ stream = "open" /\ UNCHANGED <<maxSequence, cursor, received, unpublished>>
    BY DEF Drain, client
  <1>2. /\ maxSequence \in Nat /\ lastSequence \in Nat /\ cursor \in Nat
        /\ queue \in Seq(Nat)
    BY Numbers DEF IInv
  <1>3. Range(queue) \subseteq cursor + 1 .. maxSequence
    BY <1>1, <1>2, OnTheWay
  <1>4. dropped \subseteq dropped' /\ dropped' \subseteq dropped \cup Range(queue)
    <2>1. ASSUME NEW k \in 1 .. Len(queue) - 1
          PROVE  { queue[i] : i \in k + 1 .. Len(queue) } \subseteq Range(queue)
      <3>1. k \in 1 .. Len(queue)
        BY <1>2
      <3> QED
        BY <1>2, <3>1, RangeOfPrefix
    <2> QED
      BY <2>1 DEF Drain
  <1> QED
    BY <1>1, <1>3, <1>4 DEF Feed!Lose

LEMMA StepRefines ==
  ASSUME IInv, [Next]_vars
  PROVE  [Feed!Next]_(Feed!vars)
  <1>1. CASE Publish
    BY <1>1 DEF Publish, client, auxiliary, Feed!Commit, Feed!Next
  <1>2. CASE CommitUnpublished
    BY <1>2 DEF CommitUnpublished, client, Feed!Commit, Feed!Next
  <1>3. CASE ConnectReset(maxSequence + 1)
    BY <1>3 DEF ConnectReset, auxiliary, Feed!Reset, Feed!Next
  <1>4. CASE Drain
    BY <1>4, DrainLoses DEF Feed!Next
  <1>5. CASE Deliver
    <2>1. Feed!Receive(Head(wire))
      BY <1>5, DeliverReceives
    <2>2. Head(wire) \in cursor + 1 .. maxSequence
      BY <2>1 DEF Feed!Receive
    <2> QED
      BY <2>1, <2>2 DEF Feed!Next
  <1>6. CASE Connect \/ Heartbeat \/ Close \/ UNCHANGED vars
    BY <1>6 DEF Connect, Heartbeat, Close, vars, client, auxiliary, Feed!vars
  <1> QED
    BY <1>1, <1>2, <1>3, <1>4, <1>5, <1>6 DEF Next

LEMMA InitRefines == Init => Feed!Init
  BY DEF Init, Feed!Init

\* The stream is a task event feed: events are received in order, each at most
\* once, and only a declared loss is passed over, whatever the socket, the
\* network and the client's reconnections do.
THEOREM StreamImplementsFeed == Spec => ImplementsFeed
  <1>1. Spec => Feed!Init
    BY InitRefines, PTL DEF Spec
  <1>2. Spec => [][Feed!Next]_(Feed!vars)
    BY StepRefines, InvariantHolds, PTL DEF Spec
  <1> QED
    BY <1>1, <1>2, PTL DEF ImplementsFeed, Feed!Spec

\* The pipeline is ordered from end to end (see StreamConsistent).
THEOREM StreamIsConsistent == Spec => []StreamConsistent
<1>1. TypeOK /\ PipelineIsOrdered /\ ReceivedInOrder => StreamConsistent
  BY DEF StreamConsistent
<1> QED
  BY <1>1, TypeCorrect, PipelineStaysOrdered, ClientReceivesInOrder, PTL

\* Every loss has one of the two known causes (see LossesAreKnown).
THEOREM EveryLossIsKnown == Spec => []LossesAreKnown
<1>1. OnlyKnownLosses /\ LosslessUnlessBlocked => LossesAreKnown
  BY DEF LossesAreKnown
<1> QED
  BY <1>1, NoUnknownLoss, NothingElseIsLost, PTL
=============================================================================
