---------------------------- MODULE MCAgentLoop ----------------------------
(***************************************************************************)
(* AgentLoop with two calls: spoil patches a file that may not change, and *)
(* raises where that is done already; command may put the workspace right, *)
(* or leave it as it is, and reports no path.                              *)
(***************************************************************************)
EXTENDS AgentLoop

CONSTANTS spoil, command, right, wrong

Base == [given |-> TRUE, verifier |-> TRUE, required |-> TRUE, maxRepairs |-> 1,
         governance |-> TRUE, immediate |-> TRUE, recovery |-> TRUE]

MCTools == {spoil, command}
MCWrites == {spoil}
MCContents == {Initial, right, wrong}
MCLeads ==
  [t \in MCTools |-> [c \in MCContents |->
     IF t = spoil THEN {wrong} \ {c} ELSE {c, right}]]
MCAccepted == {right}
MCAllowed == {}

\* The default controls with and without a contract, and each ablation of
\* harness_ab.py that changes the loop.
MCSetups ==
  {Base,
   [Base EXCEPT !.immediate = FALSE],
   [Base EXCEPT !.governance = FALSE, !.recovery = FALSE],
   [Base EXCEPT !.verifier = FALSE],
   [Base EXCEPT !.given = FALSE, !.required = FALSE, !.maxRepairs = 0],
   [Base EXCEPT !.given = FALSE, !.required = FALSE, !.maxRepairs = 0, !.verifier = FALSE]}
=============================================================================
