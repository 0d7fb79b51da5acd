-------------------------- MODULE MCSourceRegistry --------------------------
(* Three cards of two projects, a request, and two approvals, perhaps of   *)
(* one card, perhaps consumed when they are inserted; a caller that may do *)
(* everything in one project, one that may only register in the other, and *)
(* one that sees little and whose scope the audit log refuses.             *)
EXTENDS SourceRegistry, FiniteSetsExt, TLC

CONSTANTS k1, k2, reader, MaxChanges

Scope(k, allowance, operations, auditable) ==
  [roles |-> {reader}, projectKeys |-> {k}, classificationAllowance |-> allowance,
   allowedOperations |-> operations, auditable |-> auditable]
MCScopes == {Scope(k1, "internal", Operations, TRUE),
             Scope(k2, "controlled", {"sourcecard-register"}, TRUE),
             Scope(k1, "public", Operations, FALSE)}
Source(k, c) == [projectId |-> k, classification |-> c, allowedRoles |-> {reader}]
MCSourceInputs == {Source(k1, "internal"), Source(k2, "controlled")}
Terms(v, consumedAt) ==
  [projectKey |-> k1, metadataVersion |-> v, status |-> "approved", expiresAt |-> 1,
   consumedAt |-> consumedAt]
MCApprovalTerms == {Terms(1, None), Terms(2, None), Terms(1, 1)}

(* Few changes in all, wherever they fall.                                 *)
FewChanges ==
  FoldSet(LAMBDA s, n : n + IF IsRow(cards[s]) THEN cards[s].metadataVersion ELSE 0,
          0, SourceIds) <= MaxChanges

Symmetry == Permutations(SourceIds) \cup Permutations(ApprovalIds) 
=============================================================================
