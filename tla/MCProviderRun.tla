--------------------------- MODULE MCProviderRun ---------------------------
(***************************************************************************)
(* Small instances of ProviderRun: a run alone, or beside another attempt  *)
(* of its step that another process executes.                              *)
(***************************************************************************)
EXTENDS ProviderRun, TLC

CONSTANTS r1, r2, x1

OneRun  == r1 :> x1
TwoRuns == r1 :> x1 @@ r2 :> x1
=============================================================================
