------------------------- MODULE ProviderFixtures --------------------------
(***************************************************************************)
(* The fake providers of the test fixtures: the frames they write, the     *)
(* scenarios made of them, and what each scenario expects of whoever reads *)
(* it.  `expected` is copied from the fixtures, never computed; what they  *)
(* expect of the standard error, of spawning and of inspection is not here.*)
(***************************************************************************)
EXTENDS LineParser, TLC

frame(type, sub, id, body, usage) ==
  [type |-> type, sub |-> sub, id |-> id, body |-> body, usage |-> usage]

codexFrames ==
     "started"       :> frame("thread.started", "none", "s1", "given", FALSE)
  @@ "output"        :> frame("item.completed", "agent_message", "o1", "prose", FALSE)
  @@ "korean"        :> frame("item.completed", "agent_message", "k1", "prose", FALSE)
  @@ "toolStarted"   :> frame("item.started", "command_execution", "t1", "given", FALSE)
  @@ "toolCompleted" :> frame("item.completed", "command_execution", "t1", "completed", FALSE)
  @@ "usage"         :> frame("turn.completed", "none", NoIdentity, "given", TRUE)
  @@ "retry"         :> frame("system.api_retry", "none", NoIdentity, "given", FALSE)
  @@ "unknown"       :> frame("future.synthetic_signal", "none", NoIdentity, "given", FALSE)

claudeFrames ==
     "started"       :> frame("system", "init", "s1", "given", FALSE)
  @@ "output"        :> frame("assistant", "text", "o1", "given", FALSE)
  @@ "korean"        :> frame("assistant", "text", "k1", "given", FALSE)
  @@ "toolStarted"   :> frame("assistant", "tool_use", "t1", "given", FALSE)
  @@ "toolCompleted" :> frame("user", "tool_result", "t1", "completed", FALSE)
  @@ "usage"         :> frame("result", "none", "u1", "missing", TRUE)
  @@ "retry"         :> frame("system", "api_retry", NoIdentity, "given", FALSE)
  @@ "unknown"       :> frame("future.synthetic_signal", "none", "x1", "given", FALSE)

\* Its arrays are not all empty: it is a RunResult, and no strict one.
finalFrame(provider) ==
  IF provider = "openai"
  THEN "final" :> frame("item.completed", "agent_message", "f1", "full", FALSE)
  ELSE "final" :> frame("result", "success", "f1", "full", FALSE)

invalidFinalFrame(provider) ==
  IF provider = "openai"
  THEN "foreign" :> frame("item.completed", "agent_message", "f2", "foreign", FALSE)
  ELSE "foreign" :> frame("result", "none", "f2", "foreign", FALSE)

frames(provider) ==
  (IF provider = "openai" THEN codexFrames ELSE claudeFrames)
    @@ finalFrame(provider) @@ invalidFinalFrame(provider)

-----------------------------------------------------------------------------
\* "bad" is a line that is not JSON.
line(name, ending) ==
  (IF name = "bad" THEN <<"bad">>
   ELSE IF name = "korean" THEN <<name, "K1", "K2", "}">> ELSE <<name, "}">>) \o ending

diagnostics(i, c, u) == [invalid |-> i, consecutive |-> c, unknown |-> u]

\* A fixture whose child exits by itself with 0, and the ones that do not.
exits(cancelled, timedOut, exit) ==
  [cancelled |-> cancelled, timedOut |-> timedOut, exit |-> exit]
defaultExit == exits(FALSE, FALSE, "zero")

makeFixture(lines, ending, exit, events, result, diag, terminal) ==
  [lines |-> lines, ending |-> ending, exit |-> exit,
   expected |-> [normalizedEvents |-> events, result |-> result,
                 diagnostics |-> diag, terminal |-> terminal]]

succeeds(lines, ending, events, diag) ==
  makeFixture(Append(lines, "final"), ending, defaultExit,
              Append(events, "run.completed"), TRUE, diag, "succeeded")

LF == <<"\n">>
CRLF == <<"\r", "\n">>
NoDiagnostics == diagnostics(0, 0, 0)

streamFixtures ==
     "normal-start" :> succeeds(
        <<"started", "output", "toolStarted", "toolCompleted", "usage">>, LF,
        <<"run.started", "run.output.delta", "run.tool.started",
          "run.tool.completed", "run.usage">>, NoDiagnostics)
  @@ "normal-resume" :> succeeds(<<"started", "output", "usage">>, LF,
        <<"run.started", "run.output.delta", "run.usage">>, NoDiagnostics)
  @@ "chunk-split" :> succeeds(<<"output">>, LF, <<"run.output.delta">>, NoDiagnostics)
  @@ "utf8-korean-split" :> succeeds(<<"korean">>, LF, <<"run.output.delta">>, NoDiagnostics)
  @@ "crlf" :> succeeds(<<"started", "output">>, CRLF,
        <<"run.started", "run.output.delta">>, NoDiagnostics)

faultFixtures ==
     "unknown-event" :> succeeds(<<"unknown", "output">>, LF,
        <<"run.output.delta">>, diagnostics(0, 0, 1))
  @@ "malformed-event" :> succeeds(<<"bad", "output">>, LF,
        <<"run.output.delta">>, diagnostics(1, 0, 0))
  @@ "five-consecutive-invalid" :> makeFixture(<<"bad", "bad", "bad", "bad", "bad">>, LF,
        defaultExit, <<>>, FALSE, diagnostics(5, 5, 0), "ADAPTER_PROTOCOL_ERROR")
  @@ "stderr-flood" :> succeeds(<<"output">>, LF, <<"run.output.delta">>, NoDiagnostics)
  @@ "secret-like-stderr" :> succeeds(<<"output">>, LF, <<"run.output.delta">>, NoDiagnostics)
  @@ "missing-final-result" :> makeFixture(<<"started", "output">>, LF, defaultExit,
        <<"run.started", "run.output.delta">>, FALSE, NoDiagnostics, "ADAPTER_PROTOCOL_ERROR")
  @@ "invalid-final-schema" :> makeFixture(<<"foreign">>, LF, defaultExit,
        <<>>, FALSE, diagnostics(1, 1, 0), "OUTPUT_SCHEMA_INVALID")
  @@ "nonzero-exit" :> makeFixture(<<"output">>, LF, exits(FALSE, FALSE, "nonzero"),
        <<"run.output.delta">>, FALSE, NoDiagnostics, "PROVIDER_EXECUTION_FAILED")
  @@ "process-crash" :> makeFixture(<<>>, LF, exits(FALSE, FALSE, "signal"),
        <<>>, FALSE, NoDiagnostics, "PROCESS_CRASHED")

stopFixtures ==
     "timeout" :> makeFixture(<<>>, LF, exits(FALSE, TRUE, "signal"),
        <<>>, FALSE, NoDiagnostics, "RUN_TIMED_OUT")
  @@ "graceful-cancel" :> makeFixture(<<"output">>, LF, exits(TRUE, FALSE, "signal"),
        <<"run.output.delta", "run.cancelled">>, FALSE, NoDiagnostics, "cancelled")
  @@ "forced-child-tree-cancel" :> makeFixture(<<>>, LF, exits(TRUE, FALSE, "signal"),
        <<"run.cancelled">>, FALSE, NoDiagnostics, "cancelled")
  @@ "cancel-after-late-success" :> makeFixture(<<"output", "final">>, LF,
        exits(TRUE, FALSE, "signal"), <<"run.output.delta", "run.cancelled">>, TRUE,
        NoDiagnostics, "cancelled")

eventFixtures ==
     "duplicate-event" :> succeeds(<<"started", "output", "output">>, LF,
        <<"run.started", "run.output.delta">>, NoDiagnostics)
  @@ "session-id" :> succeeds(<<"started">>, LF, <<"run.started">>, NoDiagnostics)
  @@ "usage" :> succeeds(<<"usage">>, LF, <<"run.usage">>, NoDiagnostics)
  @@ "provider-retry-event" :> succeeds(<<"retry">>, LF, <<"run.retry">>, NoDiagnostics)

makeProviderFixtures == streamFixtures @@ faultFixtures @@ stopFixtures @@ eventFixtures
=============================================================================
