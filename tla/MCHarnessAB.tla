---- MODULE MCHarnessAB ----
(* Five tasks in three categories, two of them of one task. *)
EXTENDS HarnessAB, TLC

CONSTANTS s, t, u, v, w

FiveTasks == {s, t, u, v, w}
Category == [x \in FiveTasks |-> CASE x = u -> "locate_explain" [] x = v -> "verifier_security"
                                   [] OTHER -> "test_repair"]

\* A suite run as a whole and three times, a sample that comes back to an
\* exhausted category, and one that takes from every category.
ThreePlans ==
    {[suite |-> {u}, names |-> <<"locate_explain">>, cases |-> 1, repetitions |-> 3],
     [suite |-> FiveTasks \ {v}, names |-> <<"locate_explain", "test_repair">>,
      cases |-> 3, repetitions |-> 1],
     [suite |-> FiveTasks, names |-> <<"locate_explain", "test_repair", "verifier_security">>,
      cases |-> 3, repetitions |-> 1]}

TaskSymmetry == Permutations({s, t, w})
====
