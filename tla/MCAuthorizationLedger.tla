------------------------ MODULE MCAuthorizationLedger ------------------------
(* Three processes issue the grant of one authorization id at once, under  *)
(* two policies, with a malformed model, while an executable is upgraded.  *)
EXTENDS AuthorizationLedger

CONSTANTS openai, anthropic, m1, malformed, v1, v2

Both(m) == [p \in {openai, anthropic} |-> m]
MCIssuerEnvironments ==
  {[models |-> Both(m1), policy |-> v1], [models |-> Both(m1), policy |-> v2],
   [models |-> [Both(m1) EXCEPT ![openai] = malformed], policy |-> v1]}
=============================================================================
