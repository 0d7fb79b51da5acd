--------------------------- MODULE MCProviderSmoke ---------------------------
(* An issuer and two runners share one authorization id; one executable    *)
(* may be upgraded at any time.                                            *)
EXTENDS ProviderSmoke

CONSTANTS openai, anthropic, m1, m2, malformed, v1, v2

MCOrder == <<openai, anthropic>>
Both(m) == [p \in {openai, anthropic} |-> m]
MCIssuerEnvironments == {[models |-> Both(m), policy |-> v1] : m \in {m1, malformed}}
MCRunnerEnvironments ==
  {[models |-> Both(None), policy |-> v1],
   [models |-> Both(m2), policy |-> v1],
   [models |-> Both(None), policy |-> v2]}

(* A success, an answer that is not strict, and a failure after a result.  *)
MCReports ==
  {[exit |-> "zero", strict |-> TRUE], [exit |-> "zero", strict |-> FALSE],
   [exit |-> "nonzero", strict |-> TRUE]}
=============================================================================
