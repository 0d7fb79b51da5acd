-------------------------- MODULE TaskEventStream --------------------------
(***************************************************************************)
(* The Server-Sent Events stream of one task, as one client sees it over   *)
(* any number of connections: the replay of the log from Last-Event-ID,    *)
(* the live events of InMemoryTaskEventBroker, the bounded queue that      *)
(* holds them while the socket is full, and the reconnections.             *)
(*                                                                         *)
(* The route handler runs from its first query to its last assignment      *)
(* without an await, and so do the listener and the drain handler: each is *)
(* one action.  The client is a browser's EventSource: it remembers the id *)
(* of the last event it received and sends it when it reconnects.          *)
(***************************************************************************)
EXTENDS Naturals, Sequences, SequencesExt

CONSTANTS
  MaxEvents,     \* bound: events of the task
  QueueLimit,    \* queueEventLimit
  MaxCloses      \* bound: connections the network or the client closes

ASSUME StreamAssumption ==
  /\ MaxEvents \in Nat
  /\ QueueLimit \in Nat \ {0}
  /\ MaxCloses \in Nat

VARIABLES
  maxSequence,   \* taskEventBounds(taskId).maxSequence: the log is 1..maxSequence
  stream,        \* none, open, or ended by the server (the reply is closed)
  lastSequence,  \* lastSequence of the connection
  blocked,       \* blocked: a write returned false and drain has not come
  queue,         \* BoundedTaskEventQueue, as sequence numbers
  wire,          \* events written and not yet received, in order
  cursor,        \* the client's Last-Event-ID; 0 is none
  received,      \* what the client has received since the last reset, in order
  dropped,       \* events that left the queue and were not written
  unpublished,   \* events committed without a publish in this process
  closes         \* connections closed so far

connection == <<stream, lastSequence, blocked, queue>>
client     == <<cursor, received>>
auxiliary  == <<dropped, unpublished, closes>>
vars == <<maxSequence, connection, wire, client, auxiliary>>

Sequence == 1 .. MaxEvents

TypeOK ==
  /\ maxSequence \in 0 .. MaxEvents
  /\ stream \in {"none", "open", "ended"}
  /\ lastSequence \in 0 .. MaxEvents
  /\ blocked \in BOOLEAN
  /\ queue \in Seq(Sequence) /\ Len(queue) <= QueueLimit
  /\ wire \in Seq(Sequence)
  /\ cursor \in 0 .. MaxEvents
  /\ received \in Seq(Sequence)
  /\ dropped \subseteq Sequence
  /\ unpublished \subseteq Sequence
  /\ closes \in 0 .. MaxCloses

Init ==
  /\ maxSequence = 0
  /\ stream = "none" /\ lastSequence = 0 /\ blocked = FALSE /\ queue = <<>>
  /\ wire = <<>>
  /\ cursor = 0 /\ received = <<>>
  /\ dropped = {} /\ unpublished = {} /\ closes = 0

-----------------------------------------------------------------------------
(***************************************************************************)
(* Writing.  Any write may find the socket's buffer full: the bytes are    *)
(* taken all the same, and the connection is blocked until drain.          *)
(***************************************************************************)
writeEvents(evs) ==
  /\ wire' = wire \o evs
  /\ lastSequence' = IF evs = <<>> THEN lastSequence ELSE Last(evs)
  /\ blocked' \in IF evs = <<>> THEN {blocked} ELSE {blocked, TRUE}

cleanup == queue' = <<>> /\ blocked' = FALSE /\ lastSequence' = 0

\* Mutant: a full queue passes the event over and keeps the connection.
refuse_silently(n) == UNCHANGED <<connection, wire>>

\* BoundedTaskEventQueue.add refuses at the limit of events, or of bytes.
add(n) ==
  /\ Len(queue) < QueueLimit
  /\ queue' = Append(queue, n)
  /\ UNCHANGED <<stream, lastSequence, blocked, wire>>

refuse(n) ==
  /\ stream' = "ended"
  /\ cleanup
  /\ UNCHANGED wire

\* The listener of the connection, for an event just committed.
listener(n) ==
  IF stream # "open" \/ n <= lastSequence
  THEN UNCHANGED <<connection, wire>>
  ELSE IF blocked THEN add(n) \/ refuse(n)
  ELSE writeEvents(<<n>>) /\ UNCHANGED <<stream, queue>>

-----------------------------------------------------------------------------
\* ProviderRunService.persist: the event is committed and then published.
Publish ==
  /\ maxSequence < MaxEvents
  /\ maxSequence' = maxSequence + 1
  /\ listener(maxSequence + 1)
  /\ UNCHANGED <<client, auxiliary>>

\* An event of transitionWithEvent or appendRunEvent, or of another process:
\* it is in the log and no listener hears of it.
CommitUnpublished ==
  /\ maxSequence < MaxEvents
  /\ maxSequence' = maxSequence + 1
  /\ unpublished' = unpublished \cup {maxSequence + 1}
  /\ UNCHANGED <<connection, wire, client, dropped, closes>>

\* The log is never cut, so the oldest event is 1.
validCursor(c) == c <= maxSequence

\* Mutant: the replay starts at the cursor.
Connect_inclusive ==
  /\ stream = "none" /\ validCursor(cursor)
  /\ stream' = "open"
  /\ LET first == IF cursor = 0 THEN 1 ELSE cursor IN
       wire' = [i \in 1 .. maxSequence + 1 - first |-> first + i - 1]
  /\ lastSequence' = maxSequence
  /\ blocked' \in BOOLEAN
  /\ queue' = <<>>
  /\ UNCHANGED <<maxSequence, client, auxiliary>>

\* GET /api/v1/tasks/:id/events: subscribe, replay what follows the cursor
\* whatever the writes return, and go live.
Connect ==
  /\ stream = "none"
  /\ validCursor(cursor)
  /\ stream' = "open"
  /\ LET replay == [i \in 1 .. maxSequence - cursor |-> cursor + i] IN
       /\ wire' = replay
       /\ lastSequence' = maxSequence
       /\ blocked' \in IF replay = <<>> THEN {FALSE} ELSE BOOLEAN
  /\ queue' = <<>>
  /\ UNCHANGED <<maxSequence, client, auxiliary>>

\* A cursor that is not of this log is answered with stream.reset, and the
\* client starts over.
ConnectReset(c) ==
  /\ stream = "none"
  /\ ~validCursor(c)
  /\ cursor' = 0 /\ received' = <<>>
  /\ UNCHANGED <<maxSequence, connection, wire, auxiliary>>

\* Mutant: drain unblocks the connection and leaves the queue as it is.
Drain_noFlush ==
  /\ stream = "open" /\ blocked
  /\ blocked' = FALSE
  /\ UNCHANGED <<maxSequence, stream, lastSequence, queue, wire, client, auxiliary>>

\* drain, and flushQueue: the queue is emptied, and written until a write
\* returns false; what is left then is in neither place.
Drain ==
  /\ stream = "open" /\ blocked
  /\ queue' = <<>>
  /\ \/ /\ wire' = wire \o queue
        /\ lastSequence' = IF queue = <<>> THEN lastSequence ELSE Last(queue)
        /\ blocked' \in IF queue = <<>> THEN {FALSE} ELSE BOOLEAN
        /\ UNCHANGED dropped
     \/ \E k \in 1 .. Len(queue) - 1 :
        /\ wire' = wire \o SubSeq(queue, 1, k)
        /\ lastSequence' = queue[k]
        /\ blocked' = TRUE
        /\ dropped' = dropped \cup { queue[i] : i \in k + 1 .. Len(queue) }
  /\ UNCHANGED <<maxSequence, stream, client, unpublished, closes>>

\* The heartbeat is written whether or not the connection is blocked, and may
\* block it.
Heartbeat ==
  /\ stream = "open"
  /\ blocked' = TRUE
  /\ UNCHANGED <<maxSequence, stream, lastSequence, queue, wire, client, auxiliary>>

\* The connection ends: by the network or the client, or because the server
\* ended the reply and the client has read it to the end.
Close ==
  /\ stream # "none"
  /\ IF stream = "ended" /\ wire = <<>> THEN UNCHANGED closes
     ELSE closes < MaxCloses /\ closes' = closes + 1
  /\ stream' = "none"
  /\ wire' = <<>>
  /\ cleanup
  /\ UNCHANGED <<maxSequence, client, dropped, unpublished>>

\* The client: EventSource takes the next event and remembers its id.
Deliver ==
  /\ wire # <<>>
  /\ wire' = Tail(wire)
  /\ cursor' = Head(wire)
  /\ received' = Append(received, Head(wire))
  /\ UNCHANGED <<maxSequence, connection, auxiliary>>

Next ==
  \/ Publish \/ CommitUnpublished
  \/ Connect \/ ConnectReset(maxSequence + 1)
  \/ Drain \/ Heartbeat \/ Close \/ Deliver

Spec == Init /\ [][Next]_vars

(***************************************************************************)
(* A client that is disconnected reconnects, reads what arrives, and sees  *)
(* the end of a reply; a socket that the client reads drains.              *)
(***************************************************************************)
Fairness ==
  /\ WF_vars(Connect)
  /\ WF_vars(Deliver)
  /\ WF_vars(Drain)
  /\ WF_vars(stream = "ended" /\ wire = <<>> /\ Close)

FairSpec == Spec /\ Fairness

-----------------------------------------------------------------------------
(***************************************************************************)
(* Every event on its way is newer than what the client has and in order:  *)
(* what is on the wire follows the cursor, lastSequence is the last event  *)
(* written, and what is queued follows that.                               *)
(***************************************************************************)
InOrder(s, from, to) ==
  /\ \A i \in 1 .. Len(s) : from < s[i] /\ s[i] <= to
  /\ \A i, j \in 1 .. Len(s) : i < j => s[i] < s[j]

PipelineIsOrdered ==
  /\ InOrder(wire, cursor, IF stream = "open" THEN lastSequence ELSE maxSequence)
  /\ InOrder(queue, lastSequence, maxSequence)
  /\ cursor <= maxSequence
  /\ stream = "open" => cursor <= lastSequence /\ lastSequence <= maxSequence

\* Over all its connections the client receives every event at most once and
\* none after a newer one.
ReceivedInOrder == InOrder(received, 0, cursor)

\* From the log to the client everything is in order and nothing is repeated,
\* with a queue within its limit, through every replay, overflow and
\* reconnection (task-event-sse.ts:88-205).
StreamConsistent == TypeOK /\ PipelineIsOrdered /\ ReceivedInOrder

\* No event is lost on the way but by the two named ways: an event that the
\* client has passed over was dropped by flushQueue, or never published.
OnlyKnownLosses == 1 .. cursor \subseteq Range(received) \cup dropped \cup unpublished

\* While nothing fills the socket and nothing is committed behind the broker's
\* back, a connected client misses nothing: what it lacks is on its way.
LosslessUnlessBlocked ==
  stream = "open" /\ dropped = {} /\ unpublished = {}
    => 1 .. maxSequence = Range(received) \cup Range(wire) \cup Range(queue)

\* Every loss is accounted for: none without a blocked socket or an event that
\* was never published, and then of those events only.
LossesAreKnown == OnlyKnownLosses /\ LosslessUnlessBlocked

\* Every committed event reaches the client in the end, or is a known loss, or
\* waits unpublished for the next connection.
EveryEventArrives ==
  \A n \in Sequence :
    n <= maxSequence ~> n \in Range(received) \cup dropped \cup unpublished

\* "0 events lost": "no event is duplicated or missing after a reconnect".
NoEventIsMissed == 1 .. cursor \subseteq Range(received) \cup unpublished

-----------------------------------------------------------------------------
Feed == INSTANCE TaskEventFeed WITH
  committed <- maxSequence,
  lost      <- dropped \cup unpublished

\* The stream is a task event feed.
ImplementsFeed == Feed!Spec
=============================================================================
