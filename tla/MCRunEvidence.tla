---- MODULE MCRunEvidence ----
(* Two files, one of them with two spellings, a path outside the workspace. *)
EXTENDS RunEvidence

CONSTANTS a, b, backslash_a, parent, v, secret

TwoFiles == {a, b}
Paths == {a, b, backslash_a, parent}
PlainPaths == {a, b, parent}
Resolution == [p \in Paths |-> CASE p = backslash_a -> a [] p = parent -> Outside [] OTHER -> p]

Setup(policy, approver, depth, scope, normalize, memory) ==
    [policy |-> policy, approver |-> approver, depth |-> depth, delegate |-> depth = 0,
     allowed |-> Tools, scope |-> scope, normalize |-> normalize, memory |-> memory]

\* The SDK's and cli run's policy, with and without the path treatment; a
\* contract's write scope with and without an approver; a delegated child.
FiveSetups ==
    {Setup("never", FALSE, 0, {}, TRUE, TRUE),
     Setup("never", FALSE, 0, {a}, FALSE, FALSE),
     Setup("on-risk", TRUE, 0, {a}, TRUE, TRUE),
     Setup("on-risk", FALSE, 0, {}, TRUE, TRUE),
     Setup("never", FALSE, 1, {}, TRUE, TRUE)}

OneSetup == {Setup("never", FALSE, 0, {}, TRUE, TRUE)}

OneWorkspace == {[f \in TwoFiles |-> IF f = a THEN v ELSE Absent]}

Mode(policy, memory, provider) ==
    [context_policy |-> policy, memory_enabled |-> memory, provider |-> provider]
ReplayModes == {Mode("layered-budget-v2", TRUE, "fake"), Mode("minimal", FALSE, "openai")}
UsualMode == [context_policy |-> "layered-budget-v2", memory_enabled |-> TRUE]
====
