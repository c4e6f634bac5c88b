--------------------------- MODULE MCAgentSession ---------------------------
(***************************************************************************)
(* AgentSession with a patch and the patch that undoes it: the content of  *)
(* the first checkpoint can come back; the default controls.               *)
(***************************************************************************)
EXTENDS AgentSession

CONSTANTS patch, undo, patched

MCTools == {patch, undo}
MCContents == {Initial, patched}
MCLeads ==
  [t \in MCTools |-> [c \in MCContents |->
     IF t = patch THEN {patched} \ {c} ELSE {Initial} \ {c}]]
MCAccepted == {patched}
MCSetups ==
  {[given |-> TRUE, verifier |-> TRUE, required |-> TRUE, maxRepairs |-> 1,
    governance |-> TRUE, immediate |-> TRUE, recovery |-> TRUE]}
=============================================================================
