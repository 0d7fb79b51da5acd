--------------------------- MODULE OutputReading ---------------------------
(***************************************************************************)
(* What a provider's output says when it is read at once: the reference    *)
(* that the parser, which gets it in chunks, and the smoke gate, which     *)
(* reads it by code of its own, are compared with.  A line is named by the *)
(* position of the newline that ends it, or the position after the last    *)
(* byte; a reading gives each line its meaning.                            *)
(***************************************************************************)
EXTENDS LineParser

-----------------------------------------------------------------------------
(***************************************************************************)
(* The text and its lines.                                                 *)
(***************************************************************************)
\* What has been read, as the decoder delivers it if nothing follows.
delivered ==
  IF at > 0 /\ stream.bytes[at] = "K1"
  THEN SubSeq(stream.bytes, 1, at - 1) \o Replacement
  ELSE SubSeq(stream.bytes, 1, at)

NewlinesTo(text, n) == { i \in 1 .. n : text[i] = "\n" }

Ends(text) == NewlinesTo(text, Len(text)) \cup {Len(text) + 1}

\* Where the line ending at e may begin to be read from: a newline, or 0, with
\* no newline after it.  There is one such place.
Starts(text, e) ==
  { i \in {0} \cup NewlinesTo(text, e - 1) : \A j \in i + 1 .. e - 1 : text[j] # "\n" }

Before(text, e) == CHOOSE i \in Starts(text, e) : TRUE

LineAt(text, e) == SubSeq(text, Before(text, e) + 1, e - 1)

TooLong == [kind |-> "too long"]
Nothing == [kind |-> "nothing"]

Meaning(text) ==
  LET l == StripCR(text)
  IN IF Len(l) > MAX_PROVIDER_LINE_BYTES THEN TooLong
     ELSE IF l = <<>> THEN Nothing ELSE mapLine(l)

MeaningsAt(text, ends) == [e \in ends |-> Meaning(LineAt(text, e))]

Reading == MeaningsAt(delivered, Ends(delivered))

-----------------------------------------------------------------------------
(***************************************************************************)
(* A reading r: which of its lines are accepted, and which ends it.        *)
(***************************************************************************)
OfKind(r, kind) == { i \in DOMAIN r : r[i].kind = kind }

Preceding(r, i) == { j \in OfKind(r, "recognized") : j < i }

Identities(r, lines) == { r[j].identity : j \in lines } \ {NoIdentityYet}
Sessions(r, lines)   == { r[j].session : j \in lines } \ {<<>>}

\* A frame is accepted the first time its identity or its session is seen.
FirstTime(r, i) ==
  /\ i \in OfKind(r, "recognized")
  /\ r[i].identity \notin Identities(r, Preceding(r, i))
  /\ r[i].session \notin Sessions(r, Preceding(r, i))

Accepted(r) == { i \in DOMAIN r : FirstTime(r, i) }
Results(r)  == { i \in Accepted(r) : r[i].result # NoResult }

\* Invalid frames up to i with none recognized after them.
Row(r, i) ==
  { j \in OfKind(r, "invalid") :
      j <= i /\ \A k \in OfKind(r, "recognized") : j < k => i < k }

Fatal(r, i) ==
  \/ r[i].kind = "too long"
  \/ /\ r[i].kind = "invalid"
     /\ r[i].final \/ Cardinality(Row(r, i)) >= MAX_CONSECUTIVE_INVALID
  \/ /\ FirstTime(r, i) /\ r[i].result # NoResult
     /\ \E j \in Results(r) : j < i
  \/ /\ FirstTime(r, i) /\ r[i].identity # NoIdentityYet
     /\ Cardinality(Identities(r, Preceding(r, i))) >= MAX_PROVIDER_EVENT_IDENTITIES
  \/ /\ FirstTime(r, i) /\ r[i].session # <<>>
     /\ Cardinality(Sessions(r, Preceding(r, i))) >= MAX_PROVIDER_EVENT_IDENTITIES

Restricted(r, lines) == [i \in lines |-> r[i]]

\* The lines before the first fatal one, and with it.
Read(r) ==
  Restricted(r, { i \in DOMAIN r : \A j \in DOMAIN r : j <= i => ~Fatal(r, j) })
Seen(r) ==
  Restricted(r, { i \in DOMAIN r : \A j \in DOMAIN r : j < i => ~Fatal(r, j) })

Error(r) ==
  IF \A i \in DOMAIN r : ~Fatal(r, i) THEN "none"
  ELSE IF \E i \in DOMAIN Seen(r) : r[i].kind = "invalid" /\ r[i].final
       THEN "OUTPUT_SCHEMA_INVALID" ELSE "ADAPTER_PROTOCOL_ERROR"

(***************************************************************************)
(* What such a reading leaves: the accepted lines' events in the order of  *)
(* the lines, the only result, and the counts of diagnostics.              *)
(***************************************************************************)
EventsAt(r, i) == createEvents(r[i].items)

Slots(r) == UNION { {i} \X DOMAIN EventsAt(r, i) : i \in Accepted(r) }

Place(r, slot) == Cardinality({ s \in Slots(r) : s[1] < slot[1] }) + slot[2]

Emits(r) ==
  /\ Len(emitted) = Cardinality(Slots(r))
  /\ \A s \in Slots(r) : emitted[Place(r, s)] = EventsAt(r, s[1])[s[2]]

Concludes(r) ==
  IF Results(r) = {} THEN finalResult = NoResult
  ELSE \A i \in Results(r) : finalResult = r[i].result

Counts(r) ==
  /\ invalid = Cardinality(OfKind(r, "invalid"))
  /\ unknown = Cardinality(OfKind(r, "unknown"))
  /\ consecutive = Cardinality({ i \in OfKind(r, "invalid") :
                                   \A k \in OfKind(r, "recognized") : k < i })

\* The one case in which chunks matter: a longest line ended by CR LF, with the
\* end of a chunk between them, is too long; read at once it is not.
SplitAtCR ==
  Len(buffered) = MAX_PROVIDER_LINE_BYTES + 1 /\ buffered[Len(buffered)] = "\r"

(***************************************************************************)
(* However the output is cut into chunks, and wherever it ends, the parser *)
(* returns the events, keeps the result, counts the frames and reports the *)
(* error that its lines have when read at once: a duplicate only once,     *)
(* nothing after the fatal line (incremental-line-parser.ts:40-180).  (A   *)
(* chunk that does not fit in the buffer is refused whatever it says.)     *)
(***************************************************************************)
ChunksAreImmaterial ==
  pc = "ended" /\ ~SplitAtCR =>
    LET r == Reading IN
    /\ Emits(Read(r))
    /\ Concludes(Read(r))
    /\ Counts(Seen(r))
    /\ terminalError = Error(r)

-----------------------------------------------------------------------------
(***************************************************************************)
(* The smoke gate reads every line that is JSON, and nothing ends its      *)
(* reading.                                                                *)
(***************************************************************************)
\* The gate splits the output at /\r?\n/; a carriage return left at the end of
\* the last line is white space to JSON.parse.
Trimmed(text, e) == StripCR(LineAt(text, e))

JsonEnds(text) == { e \in Ends(text) : IsJson(Trimmed(text, e)) }

SmokeReads ==
  [e \in JsonEnds(delivered) |-> Frames[stream.provider][Trimmed(delivered, e)[1]]]

(***************************************************************************)
(* The smoke gate and the adapter read the same output alike.  When the    *)
(* adapter's parser is content, a strict result of the adapter's is one of *)
(* the gate's; and when no identity repeats, the gate calls the result     *)
(* strict exactly when the adapter's is, and counts the events the adapter *)
(* emits (provider-smoke.ts:657-704, adapter.ts:600-678).                  *)
(***************************************************************************)
SmokeAgrees ==
  pc = "ended" /\ terminalError = "none" =>
    LET summary == consumeProviderStream(stream.provider, SmokeReads)
        r       == Reading
    IN /\ finalResult = "strict" => summary.hasStrictResult
       /\ OfKind(r, "recognized") \subseteq Accepted(r) =>
            /\ summary.hasStrictResult <=> finalResult = "strict"
            /\ \A e \in {"run.started", "run.output.delta", "run.usage"} :
                 summary.count[e] = Cardinality({k \in DOMAIN emitted : emitted[k] = e})
=============================================================================
