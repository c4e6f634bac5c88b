---- MODULE HarnessAB ----
(***************************************************************************)
(* The paired evaluation of the harness: a stratified sample of the tasks, *)
(* a minimal and the full agent on every task in either order, the minimal *)
(* runner's loop under its budgets, the exclusion of pairs an              *)
(* infrastructure failure decided, and the conclusion of the report.  The  *)
(* full agent is a run of AgentLoop, here only its outcome.  The ablations *)
(* and the token and duration statistics are left out.                     *)
(***************************************************************************)
EXTENDS Naturals, Sequences, FiniteSets

CONSTANTS Tasks,
          categoryOf,
          Plans,            \* suites, the sorted names of their categories, and the
                            \* cases and repetitions asked for
          MaxModelCalls, MaxToolCalls,
          MaxBatch          \* bound: tool calls in one response

ASSUME HarnessAssumption ==
    /\ IsFiniteSet(Tasks) /\ categoryOf \in [Tasks -> STRING]
    /\ Plans \subseteq [suite : SUBSET Tasks, names : Seq(STRING),
                        cases : Nat \ {0}, repetitions : Nat \ {0}]
    /\ \A p \in Plans :
         /\ p.names # <<>>
         /\ \A i, j \in 1 .. Len(p.names) : p.names[i] = p.names[j] => i = j
         /\ \A t \in p.suite : \E i \in 1 .. Len(p.names) : categoryOf[t] = p.names[i]
    /\ MaxModelCalls \in Nat /\ MaxToolCalls \in Nat /\ MaxBatch \in Nat

VARIABLES phase, plan,
          left, cursor, selected,       \* stratified_sample
          due,                          \* variants of the current pair still to run
          cases,                        \* outcomes of each variant, one per pair
          stage, attempts, calls,       \* the minimal runner
          batch, truncated, failure,
          hit,                          \* history: the provider failed in this run
          positive, safe,               \* interval and safety gates of the comparison
          conclusion

samplevars == <<left, cursor, selected>>
runvars == <<stage, attempts, calls, batch, truncated, failure, hit>>
gates == <<positive, safe, conclusion>>
vars == <<phase, plan, samplevars, due, cases, runvars, gates>>

Variants == {"minimal", "full"}
Failures == {"none", "infrastructure", "other"}
Outcomes == [passed : BOOLEAN, failure : Failures, hit : BOOLEAN]
Conclusions == {"statistically_supported_harness_gain", "claim_gate_failed",
                "directional_but_statistically_uncertain", "no_observed_harness_gain"}

Pairs == 1 .. Len(selected) * plan.repetitions
Evaluated == DOMAIN cases["minimal"] \cap DOMAIN cases["full"]

HarnessTypeOK ==
    /\ phase \in {"sampling", "running", "concluded", "crashed"}
    /\ plan \in Plans
    /\ left \in SUBSET Tasks /\ cursor \in 1 .. Len(plan.names)
    /\ selected \in Seq(Tasks)
    /\ due \in Seq(Variants)
    /\ cases \in [Variants -> Seq(Outcomes)]
    /\ stage \in {"off", "asking", "executing", "verifying"}
    /\ attempts \in 0 .. MaxModelCalls
    /\ calls \in Nat /\ batch \in Nat /\ calls + batch <= MaxToolCalls
    /\ truncated \in BOOLEAN /\ failure \in Failures /\ hit \in BOOLEAN
    /\ positive \in BOOLEAN /\ safe \in BOOLEAN
    /\ conclusion \in Conclusions \cup {"none"}

Init ==
    /\ phase = "sampling" /\ plan \in Plans
    /\ left = plan.suite /\ cursor = 1 /\ selected = <<>>
    /\ due = <<>> /\ cases = [v \in Variants |-> <<>>]
    /\ stage = "off" /\ attempts = 0 /\ calls = 0 /\ batch = 0 /\ truncated = FALSE
    /\ failure = "none" /\ hit = FALSE
    /\ positive = FALSE /\ safe = FALSE /\ conclusion = "none"

Group(name) == {t \in left : categoryOf[t] = name}

\* Mutant: the category stays until its group is empty.
MutAdvance == IF Group(plan.names[cursor]) # {} THEN cursor ELSE (cursor % Len(plan.names)) + 1

\* Categories take turns; the members of a group were shuffled.
Advance == (cursor % Len(plan.names)) + 1

Sample ==
    /\ phase = "sampling" /\ plan.cases < Cardinality(plan.suite) /\ Len(selected) < plan.cases
    /\ cursor' = Advance
    /\ \/ \E t \in Group(plan.names[cursor]) :
            left' = left \ {t} /\ selected' = Append(selected, t)
       \/ Group(plan.names[cursor]) = {} /\ UNCHANGED <<left, selected>>
    /\ UNCHANGED <<phase, plan, due, cases, runvars, gates>>

\* A limit the suite does not exceed takes the tasks as they are listed.
Sampled ==
    /\ phase = "sampling" /\ phase' = "running"
    /\ \/ Len(selected) = plan.cases /\ plan.cases < Cardinality(plan.suite)
          /\ UNCHANGED <<left, selected>>
       \/ /\ plan.cases >= Cardinality(plan.suite) /\ left' = {}
          /\ selected' = CHOOSE s \in [1 .. Cardinality(plan.suite) -> plan.suite] :
                           \A t \in plan.suite : \E i \in DOMAIN s : s[i] = t
    /\ UNCHANGED <<plan, cursor, due, cases, runvars, gates>>

\* paired_variant_order: either variant first.
BeginPair ==
    /\ phase = "running" /\ due = <<>> /\ Evaluated # Pairs
    /\ due' \in {<<"minimal", "full">>, <<"full", "minimal">>}
    /\ UNCHANGED <<phase, plan, samplevars, cases, runvars, gates>>

Turn(v) == phase = "running" /\ due # <<>> /\ Head(due) = v

\* _persist_run and _case_from_run.
Case(v, outcome) ==
    /\ cases' = [cases EXCEPT ![v] = Append(@, outcome)]
    /\ due' = Tail(due)

\* The full agent keeps a provider failure even where the verifier passes.
RunFull ==
    /\ Turn("full")
    /\ \E passed, failed \in BOOLEAN, kind \in Failures :
         /\ failed <=> kind = "infrastructure"
         /\ kind = "none" => passed
         /\ Case("full", [passed |-> passed, failure |-> kind, hit |-> failed])
    /\ UNCHANGED <<phase, plan, samplevars, runvars, gates>>

StartMinimal ==
    /\ Turn("minimal") /\ stage = "off" /\ stage' = "asking"
    /\ attempts' = 0 /\ calls' = 0 /\ batch' = 0 /\ truncated' = FALSE
    /\ failure' = "none" /\ hit' = FALSE
    /\ UNCHANGED <<phase, plan, samplevars, due, cases, gates>>

Budgeted == attempts < MaxModelCalls /\ calls < MaxToolCalls

OutOfTime ==
    /\ stage = "asking" /\ Budgeted /\ stage' = "verifying" /\ failure' = "other"
    /\ UNCHANGED <<phase, plan, samplevars, due, cases, attempts, calls, batch, truncated, hit, gates>>

ProviderFails ==
    /\ stage = "asking" /\ Budgeted /\ stage' = "verifying"
    /\ attempts' = attempts + 1 /\ failure' = "infrastructure" /\ hit' = TRUE
    /\ UNCHANGED <<phase, plan, samplevars, due, cases, calls, batch, truncated, gates>>

Answer ==
    /\ stage = "asking" /\ Budgeted /\ stage' = "verifying" /\ attempts' = attempts + 1
    /\ UNCHANGED <<phase, plan, samplevars, due, cases, calls, batch, truncated, failure, hit, gates>>

\* Mutant: the whole response is executed.
MutExecutable(n) == n

\* response.tool_calls[:remaining]
Executable(n) == IF n <= MaxToolCalls - calls THEN n ELSE MaxToolCalls - calls

ToolCalls(n) ==
    /\ stage = "asking" /\ Budgeted /\ stage' = "executing"
    /\ attempts' = attempts + 1
    /\ batch' = Executable(n) /\ truncated' = (n > MaxToolCalls - calls)
    /\ UNCHANGED <<phase, plan, samplevars, due, cases, calls, failure, hit, gates>>

\* A tool that raises leaves its category behind, whatever follows.
Execute ==
    /\ stage = "executing" /\ batch > 0
    /\ batch' = batch - 1 /\ calls' = calls + 1
    /\ failure' \in {failure, "other"}
    /\ UNCHANGED <<phase, plan, samplevars, due, cases, stage, attempts, truncated, hit, gates>>

Failing == IF failure = "none" THEN "other" ELSE failure

\* The calls beyond the budget are answered with an error and end the loop.
EndBatch ==
    /\ stage = "executing" /\ batch = 0
    /\ IF truncated \/ calls >= MaxToolCalls
       THEN stage' = "verifying" /\ failure' = Failing
       ELSE stage' = "asking" /\ UNCHANGED failure
    /\ UNCHANGED <<phase, plan, samplevars, due, cases, attempts, calls, batch, truncated, hit, gates>>

LoopEnds ==
    /\ stage = "asking" /\ ~Budgeted /\ stage' = "verifying"
    /\ UNCHANGED <<phase, plan, samplevars, due, cases, attempts, calls, batch, truncated,
                   failure, hit, gates>>

\* Mutant: the category of a failing verifier replaces that of the loop.
MutReported(passed) == IF passed THEN "none" ELSE "other"

\* A passing verifier clears whatever failure the loop ended with.
Reported(passed) == IF passed THEN "none" ELSE Failing

Verify ==
    /\ stage = "verifying" /\ stage' = "off"
    /\ \E passed \in BOOLEAN :
         Case("minimal", [passed |-> passed, failure |-> Reported(passed), hit |-> hit])
    /\ UNCHANGED <<phase, plan, samplevars, attempts, calls, batch, truncated, failure, hit, gates>>

Excluded == {k \in Evaluated : \E v \in Variants : cases[v][k].failure = "infrastructure"}
Evaluable == Evaluated \ Excluded
FullOnly == {k \in Evaluable : ~cases["minimal"][k].passed /\ cases["full"][k].passed}
MinimalOnly == {k \in Evaluable : cases["minimal"][k].passed /\ ~cases["full"][k].passed}

\* Sign of full_minus_minimal, undefined where no pair is evaluable.
Gain == Cardinality(FullOnly) > Cardinality(MinimalOnly)

\* Mutant: the rate is taken of the evaluable pairs.
MutInfrastructureOK ==
    \A v \in Variants :
       50 * Cardinality({k \in Evaluable : cases[v][k].failure = "infrastructure"})
         <= Cardinality(Evaluable)

\* infrastructure_failure_rate at most 2% for each variant.
InfrastructureOK ==
    \A v \in Variants :
       50 * Cardinality({k \in Evaluated : cases[v][k].failure = "infrastructure"})
         <= Cardinality(Evaluated)

\* The claim gate and the conclusion; comparing an undefined difference raises
\* before the report is written.
Conclude ==
    /\ phase = "running" /\ due = <<>> /\ Evaluated = Pairs
    /\ positive' \in BOOLEAN /\ (positive' => FullOnly # {})
    /\ safe' \in BOOLEAN
    /\ IF Evaluable = {} THEN phase' = "crashed" /\ conclusion' = "none"
       ELSE /\ phase' = "concluded"
            /\ conclusion' =
                 CASE Gain /\ InfrastructureOK /\ safe' /\ positive' ->
                        "statistically_supported_harness_gain"
                   [] Gain /\ InfrastructureOK /\ safe' /\ ~positive' ->
                        "directional_but_statistically_uncertain"
                   [] Gain /\ ~(InfrastructureOK /\ safe') -> "claim_gate_failed"
                   [] OTHER -> "no_observed_harness_gain"
    /\ UNCHANGED <<plan, samplevars, due, cases, runvars>>

Next ==
    \/ Sample \/ Sampled \/ BeginPair \/ RunFull \/ StartMinimal
    \/ OutOfTime \/ ProviderFails \/ Answer \/ Execute \/ EndBatch \/ LoopEnds \/ Verify
    \/ \E n \in 1 .. MaxBatch : ToolCalls(n)
    \/ Conclude

Spec == Init /\ [][Next]_vars

Taken(name) == Cardinality({i \in DOMAIN selected : categoryOf[selected[i]] = name})

\* The sample takes no task twice and takes from a category at most one task
\* more than from another that has tasks left (stratified_sample).
SampleBalanced ==
    /\ \A i, j \in DOMAIN selected : selected[i] = selected[j] => i = j
    /\ \A i, j \in 1 .. Len(plan.names) :
         Group(plan.names[j]) # {} => Taken(plan.names[i]) <= Taken(plan.names[j]) + 1

\* A failure of the provider is never counted against an agent: an arm of a
\* counted pair that had one passed its verifier, and no pair is excluded where
\* neither arm had one (MinimalFunctionCallingRunner.run,
\* causal_paired_comparison).
NoOutageCounted ==
    /\ \A k \in Evaluable : \A v \in Variants : cases[v][k].hit => cases[v][k].passed
    /\ \A k \in Excluded : \E v \in Variants : cases[v][k].hit

\* A gain is called supported only if the full agent passed more of all the
\* pairs and, with fewer than 50 of them, no recorded infrastructure failure;
\* and the report is lost exactly when every pair was excluded
\* (evaluate_harness_ab).
ConclusionSound ==
    /\ conclusion = "statistically_supported_harness_gain" /\ Cardinality(Pairs) < 50 =>
         /\ Excluded = {}
         /\ Cardinality({k \in Pairs : cases["full"][k].passed})
              > Cardinality({k \in Pairs : cases["minimal"][k].passed})
    /\ phase \in {"concluded", "crashed"} =>
         (phase = "crashed" <=> \A k \in Pairs : k \in Excluded)
====
