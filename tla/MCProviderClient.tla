-------------------------- MODULE MCProviderClient --------------------------
(***************************************************************************)
(* ProviderClient with one category of its own of each kind, and the one   *)
(* that is both.                                                           *)
(***************************************************************************)
EXTENDS ProviderClient

MCTransient == {"timeout", "transport"}
MCFatal == {"auth", "transport"}
=============================================================================
