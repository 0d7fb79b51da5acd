--------------------------- MODULE ProviderFrames ---------------------------
(***************************************************************************)
(* What a line of provider output means.  normalizeCodexFrame and          *)
(* normalizeClaudeFrame classify a decoded wire frame; the adapters turn   *)
(* the classification into events (buildProviderFrameMapping), the smoke   *)
(* gate into the counts of its evidence (inspectProviderFrame).            *)
(*                                                                         *)
(* A wire frame is its type, its subtype, type of item or of content       *)
(* block, the identifier the provider gives it, and what its body carries. *)
(***************************************************************************)
EXTENDS Naturals, Sequences, FiniteSets

CONSTANTS
  Identity,      \* identifiers providers give to items, messages and sessions
  NoIdentity     \* an absent identifier, or one that cannot be made an identity

ASSUME IdentityAssumption == NoIdentity \notin Identity

\* What a final result is: `strict` passes smokeResultIsStrict; `full` is a
\* RunResult that reports success; `unsuccessful` one that does not; `foreign`
\* is an object that runResultSchema refuses.
Result == {"strict", "full", "unsuccessful", "foreign"}
Succeeded == {"strict", "full"}

Body == Result \cup {"missing", "given", "prose", "completed", "failed", "in_progress"}

Frame == [type : STRING, sub : STRING, id : Identity \cup {NoIdentity},
          body : Body, usage : BOOLEAN]

Invalid == [kind |-> "invalid", final |-> FALSE]
Unknown == [kind |-> "unknown"]
Recognized(identity, items, result) ==
  [kind |-> "recognized", identity |-> identity, items |-> items,
   result |-> result, session |-> <<>>]

NoIdentityYet == <<>>      \* a frame without frameIdentity is never a duplicate
NoResult      == "none"

Session(id) == [Recognized(NoIdentityYet, <<"session">>, NoResult) EXCEPT !.session = <<id>>]

-----------------------------------------------------------------------------
(***************************************************************************)
(* Codex.                                                                  *)
(***************************************************************************)
codexMessage(f) ==
  IF f.type # "item.completed" THEN Unknown
  ELSE IF f.body = "missing" THEN Invalid
  ELSE IF f.body \in Result THEN Recognized(<<f.type, f.id>>, <<>>, f.body)
  ELSE Recognized(<<f.type, f.id>>, <<"output">>, NoResult)

codexCommand(f) ==
  IF f.type = "item.started"
  THEN IF f.body = "missing" THEN Unknown
       ELSE Recognized(<<f.type, f.id>>, <<"tool.started">>, NoResult)
  ELSE IF f.body \in {"missing", "in_progress"} THEN Invalid
       ELSE Recognized(<<f.type, f.id>>, <<"tool.completed">>, NoResult)

codexItem(f) ==
  CASE f.id = NoIdentity \/ f.sub = "missing" -> Invalid
    [] f.id # NoIdentity /\ f.sub = "agent_message" -> codexMessage(f)
    [] f.id # NoIdentity /\ f.sub = "command_execution" -> codexCommand(f)
    [] OTHER -> Unknown

normalizeCodexFrame(f) ==
  CASE f.type = "missing" -> Invalid
    [] f.type = "thread.started" -> IF f.id = NoIdentity THEN Invalid ELSE Session(f.id)
    [] f.type = "turn.completed" ->
         IF f.usage THEN Recognized(<<f.type>>, <<"usage">>, NoResult) ELSE Invalid
    [] f.type \in {"item.started", "item.completed"} -> codexItem(f)
    [] f.type = "system.api_retry" ->
         IF f.body = "missing" THEN Unknown
         ELSE Recognized(NoIdentityYet, <<"retry">>, NoResult)
    [] OTHER -> Unknown      \* turn.started, error, turn.failed and the rest

-----------------------------------------------------------------------------
(***************************************************************************)
(* Claude.  An assistant or user message has a list of content blocks; the *)
(* model gives it one.                                                     *)
(***************************************************************************)
claudeSystem(f) ==
  CASE f.sub = "init" -> IF f.id = NoIdentity THEN Invalid ELSE Session(f.id)
    [] f.sub = "api_retry" /\ f.body # "missing" ->
         Recognized(NoIdentityYet, <<"retry">>, NoResult)
    [] OTHER -> Unknown

claudeAssistant(f) ==
  IF f.id = NoIdentity \/ f.body = "missing" THEN Invalid
  ELSE Recognized(<<f.type, f.id>>,
                  CASE f.sub = "text"     -> <<"output">>
                    [] f.sub = "tool_use" -> <<"tool.started">>
                    [] OTHER              -> <<>>, NoResult)

claudeUser(f) ==
  IF f.id = NoIdentity \/ f.body = "missing" THEN Invalid
  ELSE Recognized(<<f.type, f.id>>,
                  IF f.sub = "tool_result" THEN <<"tool.completed">> ELSE <<>>, NoResult)

claudeResult(f) ==
  IF f.id = NoIdentity THEN Invalid
  ELSE Recognized(<<f.type, f.id>>, IF f.usage THEN <<"usage">> ELSE <<>>,
                  IF f.body \in Result THEN f.body ELSE NoResult)

normalizeClaudeFrame(f) ==
  CASE f.type = "missing"   -> Invalid
    [] f.type = "system"    -> claudeSystem(f)
    [] f.type = "assistant" -> claudeAssistant(f)
    [] f.type = "user"      -> claudeUser(f)
    [] f.type = "result"    -> claudeResult(f)
    [] OTHER                -> Unknown

normalize(provider, f) ==
  IF provider = "openai" THEN normalizeCodexFrame(f) ELSE normalizeClaudeFrame(f)

-----------------------------------------------------------------------------
(***************************************************************************)
(* The adapter's reading: a result that is not a RunResult ends the run.   *)
(***************************************************************************)
buildProviderFrameMapping(normalized) ==
  IF normalized.kind = "recognized" /\ normalized.result = "foreign"
  THEN [kind |-> "invalid", final |-> TRUE]
  ELSE normalized

mapFrame(provider, f) == buildProviderFrameMapping(normalize(provider, f))

\* createEvents: a session item becomes the session and run.started.
eventsOf(item) ==
  CASE item = "session"        -> <<"session", "run.started">>
    [] item = "output"         -> <<"run.output.delta">>
    [] item = "tool.started"   -> <<"run.tool.started">>
    [] item = "tool.completed" -> <<"run.tool.completed">>
    [] item = "usage"          -> <<"run.usage">>
    [] item = "retry"          -> <<"run.retry">>

createEvents(items) == IF items = <<>> THEN <<>> ELSE eventsOf(items[1])

(***************************************************************************)
(* classifyTerminal: how a run ends that was read to its end.  `words` are *)
(* those of interest in the redacted standard error.                       *)
(***************************************************************************)
classifyTerminal(in) ==
  CASE in.cancelled -> "cancelled"
    [] ~in.cancelled /\ in.timedOut -> "RUN_TIMED_OUT"
    [] ~in.cancelled /\ ~in.timedOut /\ in.parserError # "none" -> in.parserError
    [] OTHER ->
         IF in.streamFailure \/ in.exit = "signal" THEN "PROCESS_CRASHED"
         ELSE IF in.exit = "nonzero"
         THEN CASE in.words \cap {"auth", "login"} # {} -> "PROVIDER_AUTH_REQUIRED"
                [] in.words \cap {"auth", "login"} = {}
                   /\ in.words \cap {"thrott", "rate limit"} # {} -> "PROVIDER_THROTTLED"
                [] in.words = {"model"} -> "MODEL_UNAVAILABLE"
                [] OTHER -> "PROVIDER_EXECUTION_FAILED"
         ELSE IF in.hasResult THEN "succeeded" ELSE "ADAPTER_PROTOCOL_ERROR"

-----------------------------------------------------------------------------
(***************************************************************************)
(* The smoke gate's reading of the same frame.                             *)
(***************************************************************************)
\* captureFailureFrame: the frames by which a provider says that it failed.
ReportsFailure(provider, f) ==
  \/ f.type = "error"
  \/ provider = "openai" /\ f.type = "turn.failed"
  \/ provider = "anthropic" /\ f.type = "result" /\ f.sub = "error"

\* smokeResultIsStrict
IsStrict(normalized) ==
  normalized.kind = "recognized" /\ normalized.result = "strict"

\* Mutant: only the last frame may be the result.
consumeProviderStream_last(provider, fs) ==
  [ count |-> [e \in {"run.started", "run.output.delta", "run.usage"} |-> 0],
    hasStrictResult |-> \E i \in DOMAIN fs :
      (\A j \in DOMAIN fs : j <= i) /\ IsStrict(normalize(provider, fs[i])),
    terminalFailure |-> FALSE ]

\* inspectProviderFrame, over the frames of the whole output, each under the
\* place of its line: nothing ends the reading, and a repeated frame counts again.
consumeProviderStream(provider, fs) ==
  LET norm == [i \in DOMAIN fs |-> normalize(provider, fs[i])]
      Shows(i, e) == norm[i].kind = "recognized" /\ norm[i].items # <<>>
                     /\ e \in {eventsOf(norm[i].items[1])[k]
                                : k \in DOMAIN eventsOf(norm[i].items[1])}
  IN [ count |-> [e \in {"run.started", "run.output.delta", "run.usage"} |->
                    Cardinality({i \in DOMAIN fs : Shows(i, e)})],
       hasStrictResult |-> \E i \in DOMAIN fs : IsStrict(norm[i]),
       terminalFailure |-> \E i \in DOMAIN fs : ReportsFailure(provider, fs[i]) ]
=============================================================================
