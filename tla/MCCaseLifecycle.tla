--------------------------- MODULE MCCaseLifecycle ---------------------------
(***************************************************************************)
(* CaseLifecycle with one override of the provider and one of the context  *)
(* policy, whose value is no provider's name.                              *)
(***************************************************************************)
EXTENDS CaseLifecycle, TLC

CONSTANTS policy, fake, minimal

MCOverrides ==
  {[variable |-> Provider, value |-> fake], [variable |-> policy, value |-> minimal]}
MCVariables == {Provider, policy}
MCValues == {fake, minimal}
IdSymmetry == Permutations(Cases) \cup Permutations(Replays)
=============================================================================
