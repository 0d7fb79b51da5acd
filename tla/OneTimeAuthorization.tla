------------------------ MODULE OneTimeAuthorization ------------------------
(***************************************************************************)
(* What the ledger of the provider smoke promises of one authorization id: *)
(* its terms are fixed once and never change, and under them every         *)
(* provider is launched at most once, by whichever process comes first,    *)
(* whatever crashes and however often the smoke is run again.              *)
(***************************************************************************)
CONSTANTS SmokeProviderKey, Runners, Grants, None

VARIABLES
  terms,     \* the grant, None before it is issued
  launches   \* per provider, the set of [by, under] of the launches made

vars == <<terms, launches>>

Launch == [by : Runners, under : Grants]

Init ==
  /\ terms = None
  /\ launches = [p \in SmokeProviderKey |-> {}]

Issue(g) ==
  /\ terms = None
  /\ terms' = g
  /\ UNCHANGED launches

LaunchOnce(p, r) ==
  /\ terms # None
  /\ launches[p] = {}
  /\ launches' = [launches EXCEPT ![p] = {[by |-> r, under |-> terms]}]
  /\ UNCHANGED terms

Next ==
  \/ \E g \in Grants : Issue(g)
  \/ \E p \in SmokeProviderKey, r \in Runners : LaunchOnce(p, r)

Spec == Init /\ [][Next]_vars
=============================================================================
