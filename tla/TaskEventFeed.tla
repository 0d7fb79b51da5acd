--------------------------- MODULE TaskEventFeed ---------------------------
(***************************************************************************)
(* What the event stream of a task promises a client, without saying how:  *)
(* events are received in the order of their sequence numbers, each at     *)
(* most once, and one is passed over only if the server has declared it    *)
(* lost to the live stream.                                                *)
(***************************************************************************)
EXTENDS Naturals, Sequences

VARIABLES
  committed,   \* the task's highest sequence number; its events are 1..committed
  cursor,      \* the id of the last event received, the next Last-Event-ID
  received,    \* the events received since the last reset, in order
  lost         \* the events the live stream may pass over

vars == <<committed, cursor, received, lost>>

Init ==
  /\ committed \in Nat
  /\ cursor   = 0
  /\ received = <<>>
  /\ lost     = {}

Commit ==
  /\ committed' = committed + 1
  /\ lost' \in {lost, lost \cup {committed + 1}}
  /\ UNCHANGED <<cursor, received>>

Lose ==
  /\ committed' = committed
  /\ lost \subseteq lost'
  /\ lost' \subseteq lost \cup cursor + 1 .. committed
  /\ UNCHANGED <<cursor, received>>

Receive(n) ==
  /\ n \in cursor + 1 .. committed
  /\ cursor + 1 .. n - 1 \subseteq lost
  /\ cursor'   = n
  /\ received' = Append(received, n)
  /\ UNCHANGED <<committed, lost>>

\* stream.reset: the client starts again from a snapshot.
Reset ==
  /\ cursor'   = 0
  /\ received' = <<>>
  /\ UNCHANGED <<committed, lost>>

Next == Commit \/ Lose \/ Reset \/ \E n \in cursor + 1 .. committed : Receive(n)

Spec == Init /\ [][Next]_vars
=============================================================================
