---- MODULE HarnessABProofs ----
(***************************************************************************)
(* Proofs about HarnessAB, for any tasks, plans and budgets: how the       *)
(* sample is drawn, which pairs are excluded, and what the conclusion of   *)
(* the report rests on.                                                    *)
(***************************************************************************)
EXTENDS HarnessAB, SequenceTheorems, FiniteSetTheorems, TLAPS

\* The minimal runner runs only when it is due, and remembers a failure of
\* the provider until its verifier has run.
RunnerInv ==
    stage # "off" =>
      /\ Turn("minimal")
      /\ hit <=> failure = "infrastructure"
      /\ stage \in {"asking", "executing"} => ~hit

TypeInv == HarnessTypeOK /\ RunnerInv

LEMMA PlanShape ==
  ASSUME HarnessTypeOK
  PROVE  /\ plan.suite \subseteq Tasks /\ plan.names \in Seq(STRING) /\ Len(plan.names) \in Nat \ {0}
         /\ plan.cases \in Nat \ {0} /\ plan.repetitions \in Nat \ {0}
         /\ \A i, j \in 1 .. Len(plan.names) : plan.names[i] = plan.names[j] => i = j
         /\ IsFiniteSet(plan.suite) /\ Cardinality(plan.suite) \in Nat
<1>1. plan \in Plans
  BY DEF HarnessTypeOK
<1>2. /\ plan.suite \subseteq Tasks /\ plan.names \in Seq(STRING) /\ plan.names # <<>>
      /\ plan.cases \in Nat \ {0} /\ plan.repetitions \in Nat \ {0}
      /\ \A i, j \in 1 .. Len(plan.names) : plan.names[i] = plan.names[j] => i = j
  BY <1>1, HarnessAssumption
<1>3. Len(plan.names) \in Nat \ {0}
  BY <1>2
<1>4. IsFiniteSet(plan.suite) /\ Cardinality(plan.suite) \in Nat
  BY <1>2, FS_Subset, FS_CardinalityType, HarnessAssumption
<1>. QED  BY <1>2, <1>3, <1>4

\* The suite can be listed, each of its tasks once.
Listing == CHOOSE s \in [1 .. Cardinality(plan.suite) -> plan.suite] :
             \A t \in plan.suite : \E i \in DOMAIN s : s[i] = t

LEMMA ListingEnumerates ==
  ASSUME HarnessTypeOK
  PROVE  /\ Listing \in [1 .. Cardinality(plan.suite) -> plan.suite]
         /\ \A i, j \in DOMAIN Listing : Listing[i] = Listing[j] => i = j
<1> DEFINE n == Cardinality(plan.suite)
           S == plan.suite
<1>1. IsFiniteSet(S) /\ n \in Nat
  BY PlanShape
<1>2. \E s \in [1 .. n -> S] : \A t \in S : \E i \in DOMAIN s : s[i] = t
  <2>1. ExistsBijection(1 .. n, S)
    BY <1>1, FS_CardinalityType
  <2>2. PICK s : s \in Bijection(1 .. n, S)
    BY <2>1 DEF ExistsBijection
  <2>3. s \in [1 .. n -> S] /\ \A t \in S : \E i \in 1 .. n : s[i] = t
    BY <2>2 DEF Bijection, Injection, Surjection
  <2>4. DOMAIN s = 1 .. n
    BY <2>3
  <2>. QED  BY <2>3, <2>4
<1>3. Listing \in [1 .. n -> S] /\ \A t \in S : \E i \in DOMAIN Listing : Listing[i] = t
  BY <1>2 DEF Listing
<1>4. Listing \in Surjection(1 .. n, S)
  BY <1>3 DEF Surjection
<1>5. IsFiniteSet(1 .. n) /\ Cardinality(1 .. n) = n
  BY <1>1, FS_Interval
<1>6. Listing \in Injection(1 .. n, S)
  BY <1>4, <1>5, FS_SurjSameCardinalityImpliesInj
<1>. QED  BY <1>3, <1>6 DEF Injection, IsInjective

LEMMA Remainder ==
  /\ \A n \in Nat, m \in Nat : n < m => n % m = n
  /\ \A m \in Nat \ {0} : m % m = 0
OBVIOUS

\* The next category, and after the last one the first.
LEMMA AdvanceIs ==
  ASSUME HarnessTypeOK
  PROVE  Advance = IF cursor = Len(plan.names) THEN 1 ELSE cursor + 1
<1>1. cursor \in 1 .. Len(plan.names) /\ Len(plan.names) \in Nat \ {0}
  BY PlanShape DEF HarnessTypeOK
<1> DEFINE n == Len(plan.names)
<1>2. n \in Nat \ {0} /\ cursor \in 1 .. n /\ Advance = (cursor % n) + 1
  BY <1>1 DEF Advance
<1> HIDE DEF n
<1>3. ASSUME cursor = n PROVE Advance = 1
  <2>1. n % n = 0
    BY <1>2, Remainder, Zenon
  <2>. QED  BY <1>2, <1>3, <2>1
<1>4. ASSUME cursor < n PROVE Advance = cursor + 1
  <2>1. cursor \in Nat /\ n \in Nat
    BY <1>2
  <2>2. cursor % n = cursor
    BY <1>4, <2>1, Remainder, Zenon
  <2>. QED  BY <1>2, <1>4, <2>2
<1>5. cursor = n \/ cursor < n
  BY <1>2
<1>. QED  BY <1>2, <1>3, <1>4, <1>5 DEF n

----------------------------------------------------------------------------
(***************************************************************************)
(* Types.                                                                  *)
(***************************************************************************)
LEMMA TypeInit == Init => TypeInv
<1>. SUFFICES ASSUME Init PROVE TypeInv
  OBVIOUS
<1>1. plan \in Plans /\ plan.suite \subseteq Tasks /\ plan.names \in Seq(STRING)
      /\ plan.names # <<>>
  BY HarnessAssumption DEF Init
<1>2. cursor \in 1 .. Len(plan.names)
  BY <1>1 DEF Init
<1>3. cases \in [Variants -> Seq(Outcomes)]
  BY DEF Init
<1>4. MaxModelCalls \in Nat /\ MaxToolCalls \in Nat
  BY HarnessAssumption
<1>5. selected \in Seq(Tasks) /\ due \in Seq(Variants)
  BY DEF Init
<1>6. /\ truncated \in BOOLEAN /\ hit \in BOOLEAN
      /\ positive \in BOOLEAN /\ safe \in BOOLEAN
  BY Zenon DEF Init
<1>7. attempts \in 0 .. MaxModelCalls /\ calls \in Nat /\ batch \in Nat
      /\ calls + batch <= MaxToolCalls
  BY <1>4 DEF Init
<1>8. HarnessTypeOK
  BY <1>1, <1>2, <1>3, <1>5, <1>6, <1>7 DEF Init, HarnessTypeOK, Failures
<1>. QED  BY <1>8 DEF Init, TypeInv, RunnerInv

\* An outcome recorded for a variant.
LEMMA CaseType ==
  ASSUME HarnessTypeOK, NEW v \in Variants, NEW o \in Outcomes, Case(v, o), due # <<>>
  PROVE  /\ cases' \in [Variants -> Seq(Outcomes)] /\ due' \in Seq(Variants)
         /\ \A u \in Variants \ {v} : cases'[u] = cases[u]
         /\ Len(cases'[v]) = Len(cases[v]) + 1
         /\ \A k \in 1 .. Len(cases[v]) : cases'[v][k] = cases[v][k]
         /\ cases'[v][Len(cases[v]) + 1] = o
<1>1. cases \in [Variants -> Seq(Outcomes)] /\ due \in Seq(Variants)
  BY DEF HarnessTypeOK
<1>2. /\ cases[v] \in Seq(Outcomes) /\ cases'[v] = Append(cases[v], o)
      /\ \A u \in Variants \ {v} : cases'[u] = cases[u]
      /\ due' = Tail(due) /\ cases' = [cases EXCEPT ![v] = Append(cases[v], o)]
  BY <1>1 DEF Case
<1>3. /\ Append(cases[v], o) \in Seq(Outcomes)
      /\ Len(Append(cases[v], o)) = Len(cases[v]) + 1
      /\ \A k \in 1 .. Len(cases[v]) : Append(cases[v], o)[k] = cases[v][k]
      /\ Append(cases[v], o)[Len(cases[v]) + 1] = o
  BY <1>2, AppendProperties
<1>4. cases' \in [Variants -> Seq(Outcomes)]
  <2> DEFINE longer == Append(cases[v], o)
  <2>1. longer \in Seq(Outcomes) /\ cases' = [cases EXCEPT ![v] = longer]
    BY <1>2, <1>3
  <2> HIDE DEF longer
  <2>. QED  BY <1>1, <2>1
<1>5. due' \in Seq(Variants)
  <2>1. Tail(due) \in Seq(Variants)
    BY <1>1, HeadTailProperties
  <2>. QED  BY <1>2, <2>1
<1>. QED  BY <1>2, <1>3, <1>4, <1>5

LEMMA TypeStep == TypeInv /\ [Next]_vars => TypeInv'
<1>. SUFFICES ASSUME TypeInv, [Next]_vars PROVE TypeInv'
  OBVIOUS
<1>a. MaxModelCalls \in Nat /\ MaxToolCalls \in Nat /\ MaxBatch \in Nat
  BY HarnessAssumption
<1>. USE DEF TypeInv, samplevars, runvars, gates
<1>1. CASE Sample
  <2>1. cursor' \in 1 .. Len(plan.names) /\ plan' = plan
    BY <1>1, AdvanceIs, PlanShape DEF Sample, HarnessTypeOK
  <2>2. left' \in SUBSET Tasks /\ selected' \in Seq(Tasks)
    <3>1. CASE UNCHANGED <<left, selected>>
      BY <3>1 DEF HarnessTypeOK
    <3>2. CASE \E t \in left : left' = left \ {t} /\ selected' = Append(selected, t)
      BY <3>2 DEF HarnessTypeOK
    <3>. QED  BY <1>1, <3>1, <3>2 DEF Sample, Group
  <2>. QED  BY <1>1, <2>1, <2>2 DEF Sample, HarnessTypeOK, RunnerInv, Turn
<1>2. CASE Sampled
  <2>1. left' \in SUBSET Tasks /\ selected' \in Seq(Tasks)
    <3>1. CASE UNCHANGED <<left, selected>>
      BY <3>1 DEF HarnessTypeOK
    <3>2. CASE left' = {} /\ selected' = Listing
      BY <3>2, ListingEnumerates, PlanShape
    <3>. QED  BY <1>2, <3>1, <3>2 DEF Sampled, Listing
  <2>. QED  BY <1>2, <2>1 DEF Sampled, HarnessTypeOK, RunnerInv, Turn
<1>3. CASE BeginPair
  <2>1. due' \in Seq(Variants)
    <3>1. \A u, v \in Variants : <<u, v>> \in Seq(Variants)
      OBVIOUS
    <3>. QED  BY <1>3, <3>1 DEF BeginPair, Variants
  <2>. QED  BY <1>3, <2>1 DEF BeginPair, HarnessTypeOK, RunnerInv, Turn
<1>4. CASE RunFull
  <2>1. PICK o \in Outcomes : Case("full", o)
    BY <1>4 DEF RunFull, Outcomes
  <2>2. "full" \in Variants /\ due # <<>>
    BY <1>4 DEF RunFull, Turn, Variants
  <2>3. cases' \in [Variants -> Seq(Outcomes)] /\ due' \in Seq(Variants)
    BY <2>1, <2>2, CaseType
  <2>4. stage = "off"
    BY <1>4 DEF RunFull, RunnerInv, Turn
  <2>. QED  BY <1>4, <2>3, <2>4 DEF RunFull, HarnessTypeOK, RunnerInv
<1>5. CASE StartMinimal
  <2>1. HarnessTypeOK'
    <3>1. truncated' \in BOOLEAN /\ hit' \in BOOLEAN
      BY <1>5, Zenon DEF StartMinimal
    <3>2. attempts' \in 0 .. MaxModelCalls /\ calls' \in Nat /\ batch' \in Nat
          /\ calls' + batch' <= MaxToolCalls
      BY <1>a, <1>5 DEF StartMinimal
    <3>. QED  BY <1>5, <3>1, <3>2 DEF StartMinimal, HarnessTypeOK, Failures
  <2>2. RunnerInv'
    BY <1>5 DEF StartMinimal, RunnerInv, Turn
  <2>. QED  BY <2>1, <2>2
<1>6. CASE OutOfTime
  BY <1>a, <1>6 DEF OutOfTime, Budgeted, HarnessTypeOK, RunnerInv, Turn, Failures
<1>7. CASE ProviderFails
  BY <1>a, <1>7 DEF ProviderFails, Budgeted, HarnessTypeOK, RunnerInv, Turn, Failures
<1>8. CASE Answer
  BY <1>a, <1>8 DEF Answer, Budgeted, HarnessTypeOK, RunnerInv, Turn
<1>9. ASSUME NEW n \in 1 .. MaxBatch, ToolCalls(n)
      PROVE  TypeInv'
  <2>1. batch' \in Nat /\ calls + batch' <= MaxToolCalls
    BY <1>a, <1>9 DEF ToolCalls, Executable, Budgeted, HarnessTypeOK
  <2>2. attempts' \in 0 .. MaxModelCalls
    BY <1>a, <1>9 DEF ToolCalls, Budgeted, HarnessTypeOK
  <2>. QED  BY <1>9, <2>1, <2>2 DEF ToolCalls, HarnessTypeOK, RunnerInv, Turn
<1>10. CASE Execute
  BY <1>10 DEF Execute, HarnessTypeOK, RunnerInv, Turn, Failures
<1>11. CASE EndBatch
  BY <1>11 DEF EndBatch, Failing, HarnessTypeOK, RunnerInv, Turn, Failures
<1>12. CASE LoopEnds
  BY <1>12 DEF LoopEnds, HarnessTypeOK, RunnerInv, Turn
<1>13. CASE Verify
  <2>1. PICK o \in Outcomes : Case("minimal", o)
    BY <1>13 DEF Verify, Outcomes, Reported, Failing, Failures, HarnessTypeOK
  <2>2. "minimal" \in Variants /\ due # <<>>
    BY <1>13 DEF Verify, RunnerInv, Turn, Variants
  <2>3. cases' \in [Variants -> Seq(Outcomes)] /\ due' \in Seq(Variants)
    BY <2>1, <2>2, CaseType
  <2>. QED  BY <1>13, <2>3 DEF Verify, HarnessTypeOK, RunnerInv
<1>14. CASE Conclude
  <2>1. conclusion' \in Conclusions \cup {"none"} /\ phase' \in {"concluded", "crashed"}
    BY <1>14 DEF Conclude, Conclusions
  <2>2. stage = "off"
    BY <1>14 DEF Conclude, RunnerInv, Turn
  <2>3. positive' \in BOOLEAN /\ safe' \in BOOLEAN
    BY <1>14 DEF Conclude
  <2>. QED  BY <1>14, <2>1, <2>2, <2>3 DEF Conclude, HarnessTypeOK, RunnerInv
<1>15. CASE UNCHANGED vars
  BY <1>15 DEF vars, HarnessTypeOK, RunnerInv, Turn
<1>. QED
  BY <1>1, <1>2, <1>3, <1>4, <1>5, <1>6, <1>7, <1>8, <1>9, <1>10, <1>11, <1>12, <1>13, <1>14,
     <1>15 DEF Next

LEMMA Types == Spec => []TypeInv
<1>. QED  BY TypeInit, TypeStep, PTL DEF Spec

\* The types of the evaluation, and with them that no run of the minimal agent
\* spends more model or tool calls than its budget, whatever batches it gets.
THEOREM HarnessTypes == Spec => []HarnessTypeOK
<1>1. TypeInv => HarnessTypeOK
  BY DEF TypeInv
<1>. QED  BY <1>1, Types, PTL

----------------------------------------------------------------------------
(***************************************************************************)
(* Which pairs are excluded.                                               *)
(***************************************************************************)

\* What an outcome says of the provider.
OutcomesExact ==
    /\ \A k \in DOMAIN cases["full"] :
         cases["full"][k].failure = "infrastructure" <=> cases["full"][k].hit
    /\ \A k \in DOMAIN cases["minimal"] :
         cases["minimal"][k].failure = "infrastructure"
           <=> cases["minimal"][k].hit /\ ~cases["minimal"][k].passed

LEMMA ExactInit == Init => OutcomesExact
<1>. SUFFICES ASSUME Init PROVE OutcomesExact
  OBVIOUS
<1>1. cases["full"] = <<>> /\ cases["minimal"] = <<>>
  BY DEF Init, Variants
<1>. QED  BY <1>1 DEF OutcomesExact

LEMMA ExactStep == TypeInv /\ OutcomesExact /\ [Next]_vars => OutcomesExact'
<1>. SUFFICES ASSUME TypeInv, OutcomesExact, [Next]_vars PROVE OutcomesExact'
  OBVIOUS
<1>a. /\ HarnessTypeOK /\ "full" \in Variants /\ "minimal" \in Variants
      /\ cases["full"] \in Seq(Outcomes) /\ cases["minimal"] \in Seq(Outcomes)
  BY DEF TypeInv, HarnessTypeOK, Variants
<1>1. CASE RunFull
  <2>1. PICK passed \in BOOLEAN, failed \in BOOLEAN, kind \in Failures :
          /\ failed <=> kind = "infrastructure"
          /\ Case("full", [passed |-> passed, failure |-> kind, hit |-> failed])
    BY <1>1 DEF RunFull
  <2> DEFINE o == [passed |-> passed, failure |-> kind, hit |-> failed]
  <2>2. o \in Outcomes /\ (o.failure = "infrastructure" <=> o.hit)
    BY <2>1 DEF Outcomes
  <2> HIDE DEF o
  <2>3. due # <<>> /\ Case("full", o)
    BY <1>1, <2>1 DEF RunFull, Turn, o
  <2>4. /\ cases' \in [Variants -> Seq(Outcomes)] /\ cases'["minimal"] = cases["minimal"]
        /\ Len(cases'["full"]) = Len(cases["full"]) + 1
        /\ \A k \in 1 .. Len(cases["full"]) : cases'["full"][k] = cases["full"][k]
        /\ cases'["full"][Len(cases["full"]) + 1] = o
    BY <1>a, <2>2, <2>3, CaseType
  <2>5. /\ DOMAIN cases'["full"] = 1 .. Len(cases["full"]) + 1
        /\ DOMAIN cases["full"] = 1 .. Len(cases["full"]) /\ Len(cases["full"]) \in Nat
    BY <1>a, <2>4
  <2>6. \A k \in DOMAIN cases'["full"] : k \in DOMAIN cases["full"] \/ k = Len(cases["full"]) + 1
    BY <2>5
  <2>. QED  BY <2>2, <2>4, <2>5, <2>6 DEF OutcomesExact
<1>2. CASE Verify
  <2>1. PICK passed \in BOOLEAN :
          Case("minimal", [passed |-> passed, failure |-> Reported(passed), hit |-> hit])
    BY <1>2 DEF Verify
  <2> DEFINE o == [passed |-> passed, failure |-> Reported(passed), hit |-> hit]
  <2>2. /\ hit \in BOOLEAN /\ failure \in Failures /\ due # <<>>
        /\ hit <=> failure = "infrastructure"
    BY <1>2 DEF Verify, TypeInv, HarnessTypeOK, RunnerInv, Turn
  <2>3. Reported(passed) \in Failures
        /\ (Reported(passed) = "infrastructure" <=> failure = "infrastructure" /\ ~passed)
    BY <2>2 DEF Reported, Failing, Failures
  <2>4. o \in Outcomes /\ (o.failure = "infrastructure" <=> o.hit /\ ~o.passed)
    BY <2>2, <2>3 DEF Outcomes
  <2>5. Case("minimal", o)
    BY <2>1
  <2> HIDE DEF o
  <2>6. /\ cases' \in [Variants -> Seq(Outcomes)] /\ cases'["full"] = cases["full"]
        /\ Len(cases'["minimal"]) = Len(cases["minimal"]) + 1
        /\ \A k \in 1 .. Len(cases["minimal"]) : cases'["minimal"][k] = cases["minimal"][k]
        /\ cases'["minimal"][Len(cases["minimal"]) + 1] = o
    BY <1>a, <2>2, <2>4, <2>5, CaseType
  <2>7. /\ DOMAIN cases'["minimal"] = 1 .. Len(cases["minimal"]) + 1
        /\ DOMAIN cases["minimal"] = 1 .. Len(cases["minimal"]) /\ Len(cases["minimal"]) \in Nat
    BY <1>a, <2>6
  <2>8. \A k \in DOMAIN cases'["minimal"] :
          k \in DOMAIN cases["minimal"] \/ k = Len(cases["minimal"]) + 1
    BY <2>7
  <2>. QED  BY <2>4, <2>6, <2>7, <2>8 DEF OutcomesExact
<1>3. ASSUME ~RunFull, ~Verify
      PROVE  cases' = cases
  BY <1>3 DEF Next, vars, Sample, Sampled, BeginPair, StartMinimal, OutOfTime, ProviderFails,
              Answer, Execute, EndBatch, LoopEnds, ToolCalls, Conclude
<1>. QED  BY <1>1, <1>2, <1>3 DEF OutcomesExact

LEMMA Exact == Spec => []OutcomesExact
<1>. QED  BY Types, ExactInit, ExactStep, PTL DEF Spec

\* A failure of the provider is never counted against an agent, however tools
\* and verifier fail besides (MinimalFunctionCallingRunner.run,
\* causal_paired_comparison).
THEOREM OutagesNotCounted == Spec => []NoOutageCounted
<1>1. OutcomesExact => NoOutageCounted
  BY DEF OutcomesExact, NoOutageCounted, Evaluable, Excluded, Evaluated, Variants
<1>. QED  BY <1>1, Exact, PTL

\* What the code excludes, exactly.  README.md:43 says that infrastructure-failed
\* pairs are excluded; a pair whose minimal arm had a failure of the provider and
\* passed its verifier all the same is counted (harness_ab.py:139), one whose full
\* arm did is not.
ExclusionExact ==
    \A k \in Evaluated :
      k \in Excluded <=> \/ cases["full"][k].hit
                         \/ cases["minimal"][k].hit /\ ~cases["minimal"][k].passed

THEOREM ExclusionIsExact == Spec => []ExclusionExact
<1>1. OutcomesExact => ExclusionExact
  BY DEF OutcomesExact, ExclusionExact, Excluded, Evaluated, Variants
<1>. QED  BY <1>1, Exact, PTL

----------------------------------------------------------------------------
(***************************************************************************)
(* The sample.  After r whole rounds, every category before the cursor has *)
(* given at most r + 1 tasks and every other at most r, and exactly that   *)
(* many if it has tasks left.                                              *)
(***************************************************************************)
Quota(r, i) == IF i < cursor THEN r + 1 ELSE r

RoundInv ==
    \E r \in Nat : \A i \in 1 .. Len(plan.names) :
      /\ Taken(plan.names[i]) <= Quota(r, i)
      /\ Group(plan.names[i]) # {} => Taken(plan.names[i]) = Quota(r, i)

\* No task is both sampled and left, or sampled twice.
Drawn ==
    /\ \A i \in DOMAIN selected : selected[i] \notin left
    /\ \A i, j \in DOMAIN selected : selected[i] = selected[j] => i = j

SampleInv ==
    /\ phase = "sampling" => RoundInv /\ Drawn
    /\ SampleBalanced

LEMMA TakenCounts ==
  ASSUME HarnessTypeOK, NEW name
  PROVE  Taken(name) \in Nat
<1>1. IsFiniteSet(DOMAIN selected)
  BY FS_Interval DEF HarnessTypeOK
<1>. QED  BY <1>1, FS_Subset, FS_CardinalityType DEF Taken

\* A task drawn counts for its category, and for no other.
LEMMA TakenAppend ==
  ASSUME HarnessTypeOK, NEW t \in Tasks, NEW name, selected' = Append(selected, t)
  PROVE  Taken(name)' = IF categoryOf[t] = name THEN Taken(name) + 1 ELSE Taken(name)
<1> DEFINE n == Len(selected)
           I == {i \in 1 .. n : categoryOf[selected[i]] = name}
           J == {i \in 1 .. n + 1 : categoryOf[selected'[i]] = name}
<1>1. selected \in Seq(Tasks) /\ n \in Nat
  BY DEF HarnessTypeOK
<1>2. /\ Len(selected') = n + 1 /\ selected'[n + 1] = t
      /\ \A i \in 1 .. n : selected'[i] = selected[i] /\ selected' \in Seq(Tasks)
  BY <1>1, AppendProperties
<1>3. DOMAIN selected = 1 .. n /\ DOMAIN selected' = 1 .. n + 1
  BY <1>1, <1>2
<1>4. J = IF categoryOf[t] = name THEN I \cup {n + 1} ELSE I
  BY <1>1, <1>2
<1>5. IsFiniteSet(I)
  <2>1. 1 \in Int /\ n \in Int
    BY <1>1
  <2>2. IsFiniteSet(1 .. n)
    BY <2>1, FS_Interval
  <2>3. I \subseteq 1 .. n
    OBVIOUS
  <2> HIDE DEF I
  <2>. QED  BY <2>2, <2>3, FS_Subset
<1>6. n + 1 \notin I
  BY <1>1
<1>7. Taken(name) = Cardinality(I) /\ Taken(name)' = Cardinality(J)
  BY <1>3 DEF Taken
<1> HIDE DEF I, J
<1>8. Cardinality(I \cup {n + 1}) = Cardinality(I) + 1
  BY <1>5, <1>6, FS_AddElement
<1>. QED  BY <1>4, <1>7, <1>8

LEMMA RoundsBalance ==
  ASSUME HarnessTypeOK, RoundInv, Drawn
  PROVE  SampleBalanced
<1>1. PICK r \in Nat : \A i \in 1 .. Len(plan.names) :
        /\ Taken(plan.names[i]) <= Quota(r, i)
        /\ Group(plan.names[i]) # {} => Taken(plan.names[i]) = Quota(r, i)
  BY DEF RoundInv
<1>2. cursor \in Nat
  BY PlanShape DEF HarnessTypeOK
<1>3. ASSUME NEW i \in 1 .. Len(plan.names), NEW j \in 1 .. Len(plan.names),
             Group(plan.names[j]) # {}
      PROVE  Taken(plan.names[i]) <= Taken(plan.names[j]) + 1
  <2>1. Taken(plan.names[i]) \in Nat /\ Taken(plan.names[j]) \in Nat
    BY TakenCounts
  <2>2. Taken(plan.names[i]) <= Quota(r, i) /\ Taken(plan.names[j]) = Quota(r, j)
    BY <1>1, <1>3
  <2>. QED  BY <1>2, <2>1, <2>2, PlanShape DEF Quota
<1>. QED  BY <1>3 DEF SampleBalanced, Drawn

LEMMA SampleInit == Init => SampleInv
<1>. SUFFICES ASSUME Init PROVE SampleInv
  OBVIOUS
<1>a. HarnessTypeOK
  BY TypeInit DEF TypeInv
<1>1. DOMAIN selected = {} /\ cursor = 1
  BY DEF Init
<1>2. \A name : Taken(name) = 0
  BY <1>1, FS_EmptySet DEF Taken
<1>3. \A i \in 1 .. Len(plan.names) : Quota(0, i) = 0
  BY <1>1 DEF Quota
<1>4. RoundInv
  BY <1>2, <1>3 DEF RoundInv
<1>5. Drawn
  BY <1>1 DEF Drawn
<1>. QED  BY <1>a, <1>4, <1>5, RoundsBalance DEF SampleInv

LEMMA SampleKeepsRounds ==
  ASSUME TypeInv, TypeInv', RoundInv, Drawn, Sample
  PROVE  RoundInv' /\ Drawn'
<1>a. HarnessTypeOK /\ HarnessTypeOK' /\ plan' = plan
  BY DEF TypeInv, Sample
<1> DEFINE n == Len(plan.names)
<1>b. /\ n \in Nat \ {0} /\ cursor \in 1 .. n
      /\ \A i, j \in 1 .. n : plan.names[i] = plan.names[j] => i = j
  BY <1>a, PlanShape DEF HarnessTypeOK
<1>c. cursor' = IF cursor = n THEN 1 ELSE cursor + 1
  BY <1>a, AdvanceIs DEF Sample
<1>1. PICK r \in Nat : \A i \in 1 .. n :
        /\ Taken(plan.names[i]) <= Quota(r, i)
        /\ Group(plan.names[i]) # {} => Taken(plan.names[i]) = Quota(r, i)
  BY DEF RoundInv
<1>2. PICK q \in Nat : q = IF cursor = n THEN r + 1 ELSE r
  BY <1>1
<1>3. ASSUME NEW i \in 1 .. n
      PROVE  Quota(q, i)' = IF i = cursor THEN Quota(r, i) + 1 ELSE Quota(r, i)
  <2>1. r \in Nat /\ n \in Nat /\ i \in 1 .. n /\ cursor \in 1 .. n
    BY <1>b, <1>1
  <2>2. Quota(q, i)' = IF i < cursor' THEN q + 1 ELSE q
    BY DEF Quota
  <2>3. CASE cursor = n
    <3>1. cursor' = 1 /\ q = r + 1
      BY <1>c, <1>2, <2>3
    <3> HIDE DEF n
    <3>. QED  BY <2>1, <2>2, <2>3, <3>1 DEF Quota
  <2>4. CASE cursor # n
    <3>1. cursor' = cursor + 1 /\ q = r
      BY <1>c, <1>2, <2>4
    <3> HIDE DEF n
    <3>. QED  BY <2>1, <2>2, <2>4, <3>1 DEF Quota
  <2>. QED  BY <2>3, <2>4
<1>4. CASE UNCHANGED <<left, selected>> /\ Group(plan.names[cursor]) = {}
  <2>1. \A name : Taken(name)' = Taken(name) /\ Group(name)' = Group(name)
    BY <1>4 DEF Taken, Group
  <2>2. ASSUME NEW i \in 1 .. n
        PROVE  /\ Taken(plan.names[i])' <= Quota(q, i)'
               /\ Group(plan.names[i])' # {} => Taken(plan.names[i])' = Quota(q, i)'
    <3>1. Quota(r, i) \in Nat /\ Taken(plan.names[i]) \in Nat
      BY <1>a, <1>1, TakenCounts DEF Quota
    <3>2. CASE i = cursor
      BY <1>a, <1>1, <1>3, <1>4, <2>1, <3>1, <3>2
    <3>3. CASE i # cursor
      BY <1>a, <1>1, <1>3, <2>1, <3>1, <3>3
    <3>. QED  BY <3>2, <3>3
  <2>3. \A i \in 1 .. n :
          /\ Taken(plan.names[i])' <= Quota(q, i)'
          /\ Group(plan.names[i])' # {} => Taken(plan.names[i])' = Quota(q, i)'
    BY <1>a, <2>2
  <2>4. RoundInv'
    BY <1>a, <1>2, <2>3 DEF RoundInv
  <2>. QED  BY <1>4, <2>4 DEF Drawn
<1>5. ASSUME NEW t \in Group(plan.names[cursor]),
             left' = left \ {t}, selected' = Append(selected, t)
      PROVE  RoundInv' /\ Drawn'
  <2>1. t \in left /\ t \in Tasks /\ categoryOf[t] = plan.names[cursor]
    BY <1>a DEF Group, HarnessTypeOK
  <2>2. \A name : Group(name)' \subseteq Group(name)
    BY <1>5 DEF Group
  <2>3. ASSUME NEW i \in 1 .. n
        PROVE  /\ Taken(plan.names[i])' <= Quota(q, i)'
               /\ Group(plan.names[i])' # {} => Taken(plan.names[i])' = Quota(q, i)'
    <3>1. Quota(r, i) \in Nat /\ Taken(plan.names[i]) \in Nat
      BY <1>a, <1>1, TakenCounts DEF Quota
    <3>2. Taken(plan.names[i])' =
            IF i = cursor THEN Taken(plan.names[i]) + 1 ELSE Taken(plan.names[i])
      <4>1. categoryOf[t] = plan.names[i] <=> i = cursor
        BY <1>b, <2>1
      <4>2. \A name : Taken(name)' =
              IF categoryOf[t] = name THEN Taken(name) + 1 ELSE Taken(name)
        BY <1>a, <1>5, <2>1, TakenAppend
      <4>. QED  BY <1>a, <4>1, <4>2
    <3>3. Group(plan.names[i])' # {} => Group(plan.names[i]) # {}
      BY <1>a, <2>2
    <3>4. /\ Taken(plan.names[i]) <= Quota(r, i)
          /\ Group(plan.names[i]) # {} => Taken(plan.names[i]) = Quota(r, i)
      BY <1>1
    <3>. QED  BY <1>3, <3>1, <3>2, <3>3, <3>4
  <2>4. RoundInv'
    <3>1. \A i \in 1 .. n :
            /\ Taken(plan.names[i])' <= Quota(q, i)'
            /\ Group(plan.names[i])' # {} => Taken(plan.names[i])' = Quota(q, i)'
      BY <1>a, <2>3
    <3>. QED  BY <1>a, <1>2, <3>1 DEF RoundInv
  <2>5. Drawn'
    <3>1. /\ selected \in Seq(Tasks) /\ Len(selected) \in Nat
          /\ Len(selected') = Len(selected) + 1 /\ selected'[Len(selected) + 1] = t
          /\ \A i \in 1 .. Len(selected) : selected'[i] = selected[i]
          /\ selected' \in Seq(Tasks)
      BY <1>a, <1>5, <2>1, AppendProperties DEF HarnessTypeOK
    <3>2. DOMAIN selected = 1 .. Len(selected) /\ DOMAIN selected' = 1 .. Len(selected) + 1
      BY <3>1
    <3>3. ASSUME NEW i \in DOMAIN selected'
          PROVE  \/ i \in DOMAIN selected /\ selected'[i] = selected[i] /\ selected[i] \notin left
                 \/ i = Len(selected) + 1 /\ selected'[i] = t
      BY <3>1, <3>2 DEF Drawn
    <3>4. \A i \in DOMAIN selected' : selected'[i] \notin left'
      BY <1>5, <3>3
    <3>5. \A i, j \in DOMAIN selected' : selected'[i] = selected'[j] => i = j
      BY <2>1, <3>3 DEF Drawn
    <3>. QED  BY <3>4, <3>5 DEF Drawn
  <2>. QED  BY <2>4, <2>5
<1>. QED  BY <1>4, <1>5 DEF Sample

LEMMA SampleStep == TypeInv /\ SampleInv /\ [Next]_vars => SampleInv'
<1>. SUFFICES ASSUME TypeInv, SampleInv, [Next]_vars PROVE SampleInv'
  OBVIOUS
<1>a. TypeInv'
  BY TypeStep
<1>1. CASE Sample
  <2>1. RoundInv' /\ Drawn'
    BY <1>1, <1>a, SampleKeepsRounds DEF Sample, SampleInv
  <2>2. SampleBalanced'
    <3>1. HarnessTypeOK'
      BY <1>a DEF TypeInv
    <3>. QED  BY <2>1, <3>1, RoundsBalance, PTL
  <2>. QED  BY <2>1, <2>2 DEF SampleInv
<1>2. CASE Sampled
  <2>1. phase' = "running" /\ plan' = plan
    BY <1>2 DEF Sampled
  <2>2. CASE UNCHANGED <<left, selected>>
    BY <2>1, <2>2 DEF SampleInv, SampleBalanced, Taken, Group
  <2>3. CASE left' = {} /\ selected' = Listing
    <3>1. \A i, j \in DOMAIN selected' : selected'[i] = selected'[j] => i = j
      BY <2>3, ListingEnumerates DEF TypeInv
    <3>2. \A name : Group(name)' = {}
      BY <2>3 DEF Group
    <3>. QED  BY <2>1, <3>1, <3>2 DEF SampleInv, SampleBalanced
  <2>. QED  BY <1>2, <2>2, <2>3 DEF Sampled, Listing
<1>3. ASSUME ~Sample, ~Sampled
      PROVE  UNCHANGED <<plan, left, cursor, selected>> /\ (phase' = "sampling" => phase = "sampling")
  BY <1>3 DEF Next, vars, samplevars, BeginPair, RunFull, StartMinimal, OutOfTime, ProviderFails,
              Answer, Execute, EndBatch, LoopEnds, Verify, ToolCalls, Conclude
<1>4. ASSUME UNCHANGED <<plan, left, cursor, selected>>, phase' = "sampling" => phase = "sampling"
      PROVE  SampleInv'
  <2>1. /\ RoundInv' <=> RoundInv
        /\ Drawn' <=> Drawn
        /\ SampleBalanced' <=> SampleBalanced
    BY <1>4 DEF RoundInv, Quota, Drawn, SampleBalanced, Taken, Group
  <2>. QED  BY <1>4, <2>1 DEF SampleInv
<1>. QED  BY <1>1, <1>2, <1>3, <1>4

\* The sample takes no task twice and is balanced over the categories that
\* still have tasks, for any suite, order of the categories and limit.
THEOREM SampleIsBalanced == Spec => []SampleBalanced
<1>1. SampleInv => SampleBalanced
  BY DEF SampleInv
<1>. QED  BY <1>1, Types, SampleInit, SampleStep, PTL DEF Spec

----------------------------------------------------------------------------
(***************************************************************************)
(* The conclusion.                                                         *)
(***************************************************************************)
ConclusionInv ==
    /\ ConclusionSound
    /\ conclusion # "none" => phase = "concluded"

LEMMA ConclusionInit == Init => ConclusionInv
BY DEF Init, ConclusionInv, ConclusionSound

\* With fewer than 50 pairs, a rate of at most 2% is no failure at all.
LEMMA NoFailureInFewPairs ==
  ASSUME NEW S, IsFiniteSet(S), NEW n \in Nat, n < 50, 50 * Cardinality(S) <= n
  PROVE  S = {}
<1>1. Cardinality(S) \in Nat
  BY FS_CardinalityType
<1>2. Cardinality(S) = 0
  BY <1>1
<1>. QED  BY <1>2, FS_EmptySet

\* If more is in A only than in B only, A is larger than B.
LEMMA LargerByDifference ==
  ASSUME NEW A, NEW B, IsFiniteSet(A), IsFiniteSet(B),
         Cardinality(A \ B) > Cardinality(B \ A)
  PROVE  Cardinality(A) > Cardinality(B)
<1>1. Cardinality(A \ B) = Cardinality(A) - Cardinality(A \cap B)
  BY FS_Difference
<1>2. Cardinality(B \ A) = Cardinality(B) - Cardinality(A \cap B)
  <2>1. Cardinality(B \ A) = Cardinality(B) - Cardinality(B \cap A) /\ B \cap A = A \cap B
    BY FS_Difference
  <2>. QED  BY <2>1
<1>3. Cardinality(A) \in Nat /\ Cardinality(B) \in Nat /\ Cardinality(A \cap B) \in Nat
  BY FS_CardinalityType, FS_Intersection
<1>. QED  BY <1>1, <1>2, <1>3

LEMMA SupportedGain ==
  ASSUME TypeInv, Evaluated = Pairs, Gain, InfrastructureOK, Cardinality(Pairs) < 50
  PROVE  /\ Excluded = {}
         /\ Cardinality({k \in Pairs : cases["full"][k].passed})
              > Cardinality({k \in Pairs : cases["minimal"][k].passed})
<1> DEFINE Failed(v) == {k \in Evaluated : cases[v][k].failure = "infrastructure"}
           A == {k \in Pairs : cases["full"][k].passed}
           B == {k \in Pairs : cases["minimal"][k].passed}
<1>1. IsFiniteSet(Pairs) /\ Cardinality(Pairs) \in Nat
  <2>1. Len(selected) \in Nat /\ plan.repetitions \in Nat
    BY PlanShape DEF TypeInv, HarnessTypeOK
  <2> DEFINE m == Len(selected) * plan.repetitions
  <2>2. 1 \in Int /\ m \in Int /\ Pairs = 1 .. m
    BY <2>1 DEF Pairs
  <2> HIDE DEF m
  <2>3. IsFiniteSet(Pairs)
    BY <2>2, FS_Interval
  <2>. QED  BY <2>3, FS_CardinalityType
<1>2. ASSUME NEW v \in Variants
      PROVE  Failed(v) = {}
  <2>1. IsFiniteSet(Failed(v))
    BY <1>1, FS_Subset
  <2>2. 50 * Cardinality(Failed(v)) <= Cardinality(Pairs)
    BY <1>2 DEF InfrastructureOK
  <2> HIDE DEF Failed
  <2>. QED  BY <1>1, <2>1, <2>2, NoFailureInFewPairs
<1>3. Excluded = {}
  BY <1>2 DEF Excluded
<1>4. Evaluable = Pairs
  BY <1>3 DEF Evaluable
<1>5. FullOnly = A \ B /\ MinimalOnly = B \ A
  BY <1>4 DEF FullOnly, MinimalOnly
<1>6. IsFiniteSet(A) /\ IsFiniteSet(B)
  BY <1>1, FS_Subset
<1> HIDE DEF A, B
<1>7. Cardinality(A) > Cardinality(B)
  BY <1>5, <1>6, LargerByDifference DEF Gain
<1>. QED  BY <1>3, <1>7 DEF A, B

LEMMA ConclusionStep == TypeInv /\ ConclusionInv /\ [Next]_vars => ConclusionInv'
<1>. SUFFICES ASSUME TypeInv, ConclusionInv, [Next]_vars PROVE ConclusionInv'
  OBVIOUS
<1>1. CASE Conclude
  <2>1. /\ UNCHANGED <<plan, selected, cases>> /\ Evaluated = Pairs
        /\ phase' = IF Evaluable = {} THEN "crashed" ELSE "concluded"
        /\ conclusion' # "none" => phase' = "concluded"
        /\ conclusion' = "statistically_supported_harness_gain" => Gain /\ InfrastructureOK
    BY <1>1 DEF Conclude, samplevars
  <2>2. Pairs' = Pairs /\ Excluded' = Excluded
    BY <2>1 DEF Pairs, Excluded, Evaluated
  <2>3. Evaluable = {} <=> \A k \in Pairs : k \in Excluded
    BY <2>1 DEF Evaluable
  <2>4. phase' = "crashed" <=> \A k \in Pairs' : k \in Excluded'
    BY <2>1, <2>2, <2>3
  <2>5. ASSUME conclusion' = "statistically_supported_harness_gain", Cardinality(Pairs') < 50
        PROVE  /\ Excluded' = {}
               /\ Cardinality({k \in Pairs' : cases'["full"][k].passed})
                    > Cardinality({k \in Pairs' : cases'["minimal"][k].passed})
    BY <2>1, <2>2, <2>5, SupportedGain
  <2>. QED  BY <2>1, <2>4, <2>5 DEF ConclusionInv, ConclusionSound
<1>2. CASE UNCHANGED vars
  BY <1>2 DEF vars, samplevars, gates, ConclusionInv, ConclusionSound, Pairs, Excluded, Evaluated
<1>3. ASSUME Next, ~Conclude
      PROVE  ConclusionInv'
  <2>1. phase \in {"sampling", "running"} /\ phase' \in {"sampling", "running"}
        /\ conclusion' = conclusion
    BY <1>3 DEF Next, gates, TypeInv, RunnerInv, Turn, Sample, Sampled, BeginPair, RunFull,
         StartMinimal, OutOfTime, ProviderFails, Answer, Execute, EndBatch, LoopEnds, Verify,
         ToolCalls
  <2>2. conclusion' = "none"
    BY <2>1 DEF ConclusionInv
  <2>. QED  BY <2>1, <2>2 DEF ConclusionInv, ConclusionSound
<1>. QED  BY <1>1, <1>2, <1>3

\* A supported gain rests on every pair when there are fewer than 50 of them:
\* none was excluded, and the full agent passed more. The report is lost
\* exactly when nothing is left to compare (evaluate_harness_ab).
THEOREM ConclusionIsSound == Spec => []ConclusionSound
<1>1. ConclusionInv => ConclusionSound
  BY DEF ConclusionInv
<1>. QED  BY <1>1, Types, ConclusionInit, ConclusionStep, PTL DEF Spec
----------------------------------------------------------------------------
(***************************************************************************)
(* The size of the sample.  What is drawn and what is left make up the     *)
(* suite, so a sample that is not full finds a category with tasks left.   *)
(***************************************************************************)
SampleSize == IF plan.cases < Cardinality(plan.suite) THEN plan.cases ELSE Cardinality(plan.suite)

SizeInv ==
    /\ left \subseteq plan.suite
    /\ phase = "sampling" =>
         /\ Len(selected) + Cardinality(left) = Cardinality(plan.suite)
         /\ Len(selected) <= plan.cases
    /\ phase # "sampling" => Len(selected) = SampleSize

LEMMA SizeInit == Init => SizeInv
<1>. SUFFICES ASSUME Init PROVE SizeInv
  OBVIOUS
<1>1. Cardinality(plan.suite) \in Nat /\ plan.cases \in Nat
  BY TypeInit, PlanShape DEF TypeInv
<1>2. phase = "sampling" /\ left = plan.suite /\ Len(selected) = 0
  BY DEF Init
<1>. QED  BY <1>1, <1>2 DEF SizeInv

LEMMA SizeStep == TypeInv /\ SizeInv /\ [Next]_vars => SizeInv'
<1>. SUFFICES ASSUME TypeInv, SizeInv, [Next]_vars PROVE SizeInv'
  OBVIOUS
<1>a. /\ HarnessTypeOK /\ selected \in Seq(Tasks) /\ plan.cases \in Nat
      /\ IsFiniteSet(plan.suite) /\ Cardinality(plan.suite) \in Nat
  BY PlanShape DEF TypeInv, HarnessTypeOK
<1>b. IsFiniteSet(left)
  BY <1>a, FS_Subset DEF SizeInv
<1>1. CASE Sample
  <2>1. plan' = plan /\ phase = "sampling" /\ phase' = "sampling" /\ Len(selected) < plan.cases
    BY <1>1 DEF Sample
  <2>2. CASE UNCHANGED <<left, selected>>
    BY <2>1, <2>2 DEF SizeInv
  <2>3. CASE \E t \in left : left' = left \ {t} /\ selected' = Append(selected, t)
    <3>1. PICK t \in left : left' = left \ {t} /\ selected' = Append(selected, t)
      BY <2>3
    <3>2. t \in Tasks
      BY <1>a DEF HarnessTypeOK
    <3>3. Len(selected') = Len(selected) + 1
      BY <1>a, <3>1, <3>2, AppendProperties
    <3>4. Cardinality(left') = Cardinality(left) - 1 /\ Cardinality(left) \in Nat
      BY <1>b, <3>1, FS_RemoveElement, FS_CardinalityType
    <3>5. Len(selected) \in Nat
      BY <1>a
    <3>. QED  BY <1>a, <2>1, <3>1, <3>3, <3>4, <3>5 DEF SizeInv
  <2>. QED  BY <1>1, <2>2, <2>3 DEF Sample, Group
<1>2. CASE Sampled
  <2>1. plan' = plan /\ phase = "sampling" /\ phase' = "running"
    BY <1>2 DEF Sampled
  <2>2. CASE Len(selected) = plan.cases /\ plan.cases < Cardinality(plan.suite)
             /\ UNCHANGED <<left, selected>>
    BY <2>1, <2>2 DEF SizeInv, SampleSize
  <2>3. CASE plan.cases >= Cardinality(plan.suite) /\ left' = {} /\ selected' = Listing
    <3>1. Listing \in [1 .. Cardinality(plan.suite) -> plan.suite]
      BY <1>a, ListingEnumerates
    <3>2. Len(selected') = Cardinality(plan.suite)
      BY <1>a, <2>3, <3>1
    <3>. QED  BY <1>a, <2>1, <2>3, <3>2 DEF SizeInv, SampleSize
  <2>. QED  BY <1>2, <2>2, <2>3 DEF Sampled, Listing
<1>3. ASSUME ~Sample, ~Sampled
      PROVE  UNCHANGED <<plan, left, selected>> /\ (phase' = "sampling" <=> phase = "sampling")
  BY <1>3 DEF Next, vars, samplevars, BeginPair, RunFull, StartMinimal, OutOfTime, ProviderFails,
              Answer, Execute, EndBatch, LoopEnds, Verify, ToolCalls, Conclude, TypeInv, RunnerInv,
              Turn
<1>4. ASSUME UNCHANGED <<plan, left, selected>>, phase' = "sampling" <=> phase = "sampling"
      PROVE  SizeInv'
  BY <1>4 DEF SizeInv, SampleSize
<1>. QED  BY <1>1, <1>2, <1>3, <1>4

\* While the sample is short of its limit some category has tasks left, and
\* the pairs are then run on as many tasks as asked for, or the whole suite.
SampleFilled ==
    /\ phase = "sampling" /\ plan.cases < Cardinality(plan.suite) /\ Len(selected) < plan.cases =>
         \E i \in 1 .. Len(plan.names) : Group(plan.names[i]) # {}
    /\ phase # "sampling" => Len(selected) = SampleSize

\* Turning over exhausted categories never empties the pool before the sample
\* is full: the while loop of stratified_sample has something to take until
\* it is done, and the sample has the size that was asked for.
THEOREM SampleIsFilled == Spec => []SampleFilled
<1>1. TypeInv /\ SizeInv => SampleFilled
  <2>. SUFFICES ASSUME TypeInv, SizeInv, phase = "sampling",
                       plan.cases < Cardinality(plan.suite), Len(selected) < plan.cases
                PROVE  \E i \in 1 .. Len(plan.names) : Group(plan.names[i]) # {}
    BY DEF SizeInv, SampleFilled
  <2>1. /\ plan \in Plans /\ plan.cases \in Nat /\ Cardinality(plan.suite) \in Nat
        /\ Len(selected) \in Nat
    BY PlanShape DEF TypeInv, HarnessTypeOK
  <2>2. left # {}
    <3>1. Cardinality(left) # 0
      BY <2>1 DEF SizeInv
    <3>. QED  BY <3>1, FS_EmptySet
  <2>3. PICK t \in left : t \in plan.suite
    BY <2>2 DEF SizeInv
  <2>4. PICK i \in 1 .. Len(plan.names) : categoryOf[t] = plan.names[i]
    BY <2>1, <2>3, HarnessAssumption
  <2>5. t \in Group(plan.names[i])
    BY <2>4 DEF Group
  <2>. QED  BY <2>5
<1>. QED  BY <1>1, Types, SizeInit, SizeStep, PTL DEF Spec

----------------------------------------------------------------------------
(***************************************************************************)
(* The pairs.  Every task of the sample is run by both variants, as often  *)
(* as repetitions asks for, before the evaluation concludes.               *)
(***************************************************************************)
Recorded(v) == Len(cases[v])
Total == Len(selected) * plan.repetitions

InTurn ==
    \/ due = <<>> /\ Recorded("minimal") = Recorded("full") /\ Recorded("full") <= Total
    \/ /\ due \in {<<"minimal", "full">>, <<"full", "minimal">>}
       /\ Recorded("minimal") = Recorded("full") /\ Recorded("full") < Total
    \/ due = <<"minimal">> /\ Recorded("full") = Recorded("minimal") + 1 /\ Recorded("full") <= Total
    \/ due = <<"full">> /\ Recorded("minimal") = Recorded("full") + 1 /\ Recorded("minimal") <= Total

PairedInv ==
    /\ phase = "sampling" => due = <<>> /\ \A v \in Variants : cases[v] = <<>>
    /\ phase # "sampling" => InTurn
    /\ phase \in {"concluded", "crashed"} => due = <<>> /\ Recorded("full") = Total

LEMMA PairedInit == Init => PairedInv
BY DEF Init, PairedInv, Variants

LEMMA PairNumbers ==
  ASSUME HarnessTypeOK
  PROVE  /\ Recorded("minimal") \in Nat /\ Recorded("full") \in Nat /\ Total \in Nat
         /\ Evaluated = (1 .. Recorded("minimal")) \cap (1 .. Recorded("full"))
         /\ Pairs = 1 .. Total
<1>1. /\ cases["minimal"] \in Seq(Outcomes) /\ cases["full"] \in Seq(Outcomes)
      /\ Len(selected) \in Nat /\ plan.repetitions \in Nat
  BY PlanShape DEF HarnessTypeOK, Variants
<1>2. \A a, b \in Nat : a * b \in Nat
  OBVIOUS
<1>. QED  BY <1>1, <1>2 DEF Recorded, Total, Evaluated, Pairs

\* All pairs are evaluated when as many outcomes are recorded as there are.
LEMMA AllEvaluated ==
  ASSUME HarnessTypeOK, Recorded("minimal") = Recorded("full"), Recorded("full") <= Total
  PROVE  Evaluated = Pairs <=> Recorded("full") = Total
<1> DEFINE m == Recorded("full")
           n == Total
<1>1. m \in Nat /\ n \in Nat /\ m <= n /\ Evaluated = 1 .. m /\ Pairs = 1 .. n
  BY PairNumbers
<1> HIDE DEF m, n
<1>2. ASSUME 1 .. m = 1 .. n PROVE m = n
  <2>1. n = 0 \/ n \in 1 .. n
    BY <1>1
  <2>2. n = 0 \/ n \in 1 .. m
    BY <1>2, <2>1
  <2>. QED  BY <1>1, <2>2
<1>. QED  BY <1>1, <1>2 DEF m, n

\* An outcome of the variant whose turn it is.
LEMMA PairedCase ==
  ASSUME TypeInv, PairedInv, phase = "running", phase' = "running",
         UNCHANGED <<plan, selected>>,
         NEW v \in Variants, NEW o \in Outcomes, due # <<>>, Head(due) = v, Case(v, o)
  PROVE  PairedInv'
<1>1. HarnessTypeOK /\ InTurn
  BY DEF TypeInv, PairedInv
<1>2. /\ \A u \in Variants \ {v} : Recorded(u)' = Recorded(u)
      /\ Recorded(v)' = Recorded(v) + 1
  BY <1>1, CaseType DEF Recorded
<1>3. due' = Tail(due) /\ Total' = Total
  BY DEF Case, Total
<1>4. Recorded("minimal") \in Nat /\ Recorded("full") \in Nat /\ Total \in Nat
  BY <1>1, PairNumbers
<1>5. CASE v = "minimal"
  <2>1. Recorded("minimal")' = Recorded("minimal") + 1 /\ Recorded("full")' = Recorded("full")
    BY <1>2, <1>5 DEF Variants
  <2>2. CASE due = <<"minimal", "full">>
    <3>1. due' = <<"full">>
      BY <1>3, <2>2
    <3>. QED  BY <1>1, <1>3, <1>4, <2>1, <2>2, <3>1 DEF InTurn, PairedInv
  <2>3. CASE due = <<"minimal">>
    <3>1. due' = <<>>
      BY <1>3, <2>3
    <3>. QED  BY <1>1, <1>3, <1>4, <2>1, <2>3, <3>1 DEF InTurn, PairedInv
  <2>. QED  BY <1>1, <1>5, <2>2, <2>3 DEF InTurn
<1>6. CASE v = "full"
  <2>1. Recorded("full")' = Recorded("full") + 1 /\ Recorded("minimal")' = Recorded("minimal")
    BY <1>2, <1>6 DEF Variants
  <2>2. CASE due = <<"full", "minimal">>
    <3>1. due' = <<"minimal">>
      BY <1>3, <2>2
    <3>. QED  BY <1>1, <1>3, <1>4, <2>1, <2>2, <3>1 DEF InTurn, PairedInv
  <2>3. CASE due = <<"full">>
    <3>1. due' = <<>>
      BY <1>3, <2>3
    <3>. QED  BY <1>1, <1>3, <1>4, <2>1, <2>3, <3>1 DEF InTurn, PairedInv
  <2>. QED  BY <1>1, <1>6, <2>2, <2>3 DEF InTurn
<1>. QED  BY <1>5, <1>6 DEF Variants

LEMMA PairedStep == TypeInv /\ PairedInv /\ [Next]_vars => PairedInv'
<1>. SUFFICES ASSUME TypeInv, PairedInv, [Next]_vars PROVE PairedInv'
  OBVIOUS
<1>a. HarnessTypeOK
  BY DEF TypeInv
<1>1. CASE Sample
  BY <1>1 DEF Sample, PairedInv
<1>2. CASE Sampled
  <2>1. /\ phase' = "running" /\ due' = <<>>
        /\ Recorded("minimal")' = 0 /\ Recorded("full")' = 0
    BY <1>2 DEF Sampled, PairedInv, Recorded, Variants
  <2>2. Total' \in Nat
    <3>1. selected' \in Seq(Tasks) /\ plan' = plan
      BY <1>2, TypeStep DEF TypeInv, HarnessTypeOK, Sampled
    <3>2. Len(selected') \in Nat /\ plan.repetitions \in Nat
      BY <1>a, <3>1, PlanShape
    <3>3. \A a, b \in Nat : a * b \in Nat
      OBVIOUS
    <3>. QED  BY <3>1, <3>2, <3>3 DEF Total
  <2>. QED  BY <2>1, <2>2 DEF PairedInv, InTurn
<1>3. CASE BeginPair
  <2>1. Recorded("minimal") = Recorded("full") /\ Recorded("full") <= Total
    BY <1>3 DEF BeginPair, PairedInv, InTurn
  <2>2. Recorded("full") # Total
    BY <1>3, <1>a, <2>1, AllEvaluated DEF BeginPair
  <2>3. Recorded("full") < Total
    BY <1>a, <2>1, <2>2, PairNumbers
  <2>4. UNCHANGED <<Recorded("minimal"), Recorded("full"), Total>>
    BY <1>3 DEF BeginPair, samplevars, Recorded, Total
  <2>. QED  BY <1>3, <2>1, <2>3, <2>4 DEF BeginPair, PairedInv, InTurn
<1>4. CASE RunFull
  <2>1. PICK o \in Outcomes : Case("full", o)
    BY <1>4 DEF RunFull, Outcomes
  <2>. QED  BY <1>4, <2>1, PairedCase DEF RunFull, Turn, samplevars, Variants
<1>5. CASE Verify
  <2>1. PICK o \in Outcomes : Case("minimal", o)
    BY <1>5 DEF Verify, Outcomes, Reported, Failing, Failures, TypeInv, HarnessTypeOK
  <2>2. Turn("minimal")
    BY <1>5 DEF Verify, TypeInv, RunnerInv
  <2>. QED  BY <1>5, <2>1, <2>2, PairedCase DEF Verify, Turn, samplevars, Variants
<1>6. CASE Conclude
  <2>1. phase = "running" /\ due = <<>> /\ phase' \in {"concluded", "crashed"}
        /\ UNCHANGED <<Recorded("minimal"), Recorded("full"), Total, due>>
    BY <1>6 DEF Conclude, samplevars, Recorded, Total
  <2>2. Recorded("minimal") = Recorded("full") /\ Recorded("full") <= Total
    BY <2>1 DEF PairedInv, InTurn
  <2>3. Recorded("full") = Total
    BY <1>6, <1>a, <2>2, AllEvaluated DEF Conclude
  <2>. QED  BY <2>1, <2>2, <2>3 DEF PairedInv, InTurn
<1>7. ASSUME ~Sample, ~Sampled, ~BeginPair, ~RunFull, ~Verify, ~Conclude
      PROVE  UNCHANGED <<phase, plan, selected, due, cases>>
  BY <1>7 DEF Next, vars, samplevars, StartMinimal, OutOfTime, ProviderFails, Answer, Execute,
              EndBatch, LoopEnds, ToolCalls
<1>8. ASSUME UNCHANGED <<phase, plan, selected, due, cases>>
      PROVE  PairedInv'
  BY <1>8 DEF PairedInv, InTurn, Recorded, Total
<1>. QED  BY <1>1, <1>2, <1>3, <1>4, <1>5, <1>6, <1>7, <1>8

\* An evaluation is complete when it concludes: each variant has one outcome
\* for each repetition of each task of the sample; and at no moment is one
\* variant more than one run ahead of the other.
ArmsComplete ==
    /\ \A u, v \in Variants : Recorded(u) <= Recorded(v) + 1
    /\ phase \in {"concluded", "crashed"} =>
         \A v \in Variants : Recorded(v) = SampleSize * plan.repetitions

\* A conclusion is never drawn from half a pair, nor from fewer or more pairs
\* than asked for, whichever variant goes first and however each run ends
\* (evaluate_harness_ab).
THEOREM ArmsAreComplete == Spec => []ArmsComplete
<1>1. TypeInv /\ SizeInv /\ PairedInv => ArmsComplete
  <2>. SUFFICES ASSUME TypeInv, SizeInv, PairedInv PROVE ArmsComplete
    OBVIOUS
  <2>1. Recorded("minimal") \in Nat /\ Recorded("full") \in Nat
    BY PairNumbers DEF TypeInv
  <2>2. \A u, v \in Variants : Recorded(u) <= Recorded(v) + 1
    <3>1. CASE phase = "sampling"
      <4>1. Recorded("minimal") = 0 /\ Recorded("full") = 0
        BY <3>1 DEF PairedInv, Recorded, Variants
      <4>. QED  BY <4>1 DEF Variants
    <3>2. CASE phase # "sampling"
      <4>1. Recorded("minimal") <= Recorded("full") + 1 /\ Recorded("full") <= Recorded("minimal") + 1
        BY <2>1, <3>2 DEF PairedInv, InTurn
      <4>. QED  BY <2>1, <4>1 DEF Variants
    <3>. QED  BY <3>1, <3>2
  <2>3. ASSUME phase \in {"concluded", "crashed"}
        PROVE  \A v \in Variants : Recorded(v) = SampleSize * plan.repetitions
    <3>1. due = <<>> /\ Recorded("full") = Total /\ InTurn
      BY <2>3 DEF PairedInv
    <3>2. Recorded("minimal") = Total
      BY <3>1 DEF InTurn
    <3>3. Total = SampleSize * plan.repetitions
      BY <2>3 DEF Total, SizeInv
    <3>. QED  BY <3>1, <3>2, <3>3 DEF Variants
  <2>. QED  BY <2>2, <2>3 DEF ArmsComplete
<1>. QED  BY <1>1, Types, SizeInit, SizeStep, PairedInit, PairedStep, PTL DEF Spec

----------------------------------------------------------------------------
(***************************************************************************)
(* The end.  Every step of an evaluation comes nearer to its end: it ends  *)
(* a phase, or draws a task, or passes an exhausted category that the      *)
(* cursor does not meet again before the next draw, or records the outcome *)
(* of a run, or takes one of the steps its run has left.                   *)
(***************************************************************************)
PhasesLeft == IF phase = "sampling" THEN 2 ELSE IF phase = "running" THEN 1 ELSE 0
ToDraw == IF phase = "sampling" THEN plan.cases - Len(selected) ELSE 0

\* The cursor comes by category j on its way to i, or has come to it there.
OnTheWay(j, i) == IF cursor <= i THEN cursor <= j /\ j <= i ELSE cursor <= j \/ j <= i
Exhausted == {i \in 1 .. Len(plan.names) :
                \A j \in 1 .. Len(plan.names) : OnTheWay(j, i) => Group(plan.names[j]) = {}}
ToSkip == Cardinality(Exhausted)

RunsLeft ==
    IF phase = "running" THEN (Total - Recorded("minimal")) + (Total - Recorded("full")) ELSE 0

\* An answer with tool calls costs the steps of the calls, and two more.
AskingSteps(a, c) == 2 * (MaxModelCalls - a) + (MaxToolCalls - c) + 2

StepsOfRun ==
    IF stage = "verifying" THEN 1
    ELSE IF stage = "asking" THEN AskingSteps(attempts, calls)
    ELSE IF stage = "executing" THEN AskingSteps(attempts, calls) + 1
    ELSE IF due # <<>> THEN AskingSteps(0, 0) + 1 ELSE AskingSteps(0, 0) + 2

Countable == ToDraw \in Nat /\ ToSkip \in Nat /\ RunsLeft \in Nat /\ StepsOfRun \in Nat

Nearer ==
    \/ PhasesLeft' < PhasesLeft
    \/ /\ PhasesLeft' = PhasesLeft
       /\ \/ ToDraw' < ToDraw
          \/ ToDraw' = ToDraw /\ ToSkip' < ToSkip
          \/ /\ ToDraw' = ToDraw /\ ToSkip' = ToSkip
             /\ \/ RunsLeft' < RunsLeft
                \/ RunsLeft' = RunsLeft /\ StepsOfRun' < StepsOfRun

EndInv == TypeInv /\ SizeInv /\ PairedInv

LEMMA ExhaustedFinite ==
  ASSUME HarnessTypeOK
  PROVE  IsFiniteSet(Exhausted) /\ ToSkip \in Nat
<1>1. Len(plan.names) \in Nat
  BY PlanShape
<1>2. 1 \in Int /\ Len(plan.names) \in Int
  BY <1>1
<1>3. IsFiniteSet(1 .. Len(plan.names))
  BY <1>2, FS_Interval
<1>4. IsFiniteSet(Exhausted)
  BY <1>3, FS_Subset DEF Exhausted
<1>. QED  BY <1>4, FS_CardinalityType DEF ToSkip

LEMMA RunSteps ==
  ASSUME HarnessTypeOK
  PROVE  /\ StepsOfRun \in Nat
         /\ AskingSteps(attempts, calls) \in Nat /\ AskingSteps(0, 0) \in Nat
         /\ AskingSteps(attempts, calls) >= 2
<1>1. /\ MaxModelCalls \in Nat /\ MaxToolCalls \in Nat
      /\ attempts \in 0 .. MaxModelCalls /\ calls \in 0 .. MaxToolCalls
  BY HarnessAssumption DEF HarnessTypeOK
<1>2. /\ AskingSteps(attempts, calls) \in Nat /\ AskingSteps(0, 0) \in Nat
      /\ AskingSteps(attempts, calls) >= 2
  BY <1>1 DEF AskingSteps
<1>. QED  BY <1>2 DEF StepsOfRun

LEMMA EndIsCounted == EndInv => Countable
<1>. SUFFICES ASSUME EndInv PROVE Countable
  OBVIOUS
<1>a. HarnessTypeOK
  BY DEF EndInv, TypeInv
<1>1. ToDraw \in Nat
  <2>1. Len(selected) \in Nat /\ plan.cases \in Nat
    BY <1>a, PlanShape DEF HarnessTypeOK
  <2>2. phase = "sampling" => Len(selected) <= plan.cases
    BY DEF EndInv, SizeInv
  <2>. QED  BY <2>1, <2>2 DEF ToDraw
<1>2. RunsLeft \in Nat
  <2>1. Recorded("minimal") \in Nat /\ Recorded("full") \in Nat /\ Total \in Nat
    BY <1>a, PairNumbers
  <2>2. phase = "running" => Recorded("minimal") <= Total /\ Recorded("full") <= Total
    BY <2>1 DEF EndInv, PairedInv, InTurn
  <2>. QED  BY <2>1, <2>2 DEF RunsLeft
<1>. QED  BY <1>a, <1>1, <1>2, ExhaustedFinite, RunSteps DEF Countable

\* Some category has tasks left while the sample is short of its limit.
LEMMA SomethingLeft ==
  ASSUME TypeInv, SizeInv, phase = "sampling",
         plan.cases < Cardinality(plan.suite), Len(selected) < plan.cases
  PROVE  \E i \in 1 .. Len(plan.names) : Group(plan.names[i]) # {}
<1>1. /\ plan \in Plans /\ plan.cases \in Nat /\ Cardinality(plan.suite) \in Nat
      /\ Len(selected) \in Nat
  BY PlanShape DEF TypeInv, HarnessTypeOK
<1>2. left # {}
  <2>1. Cardinality(left) # 0
    BY <1>1 DEF SizeInv
  <2>. QED  BY <2>1, FS_EmptySet
<1>3. PICK t \in left : t \in plan.suite
  BY <1>2 DEF SizeInv
<1>4. PICK i \in 1 .. Len(plan.names) : categoryOf[t] = plan.names[i]
  BY <1>1, <1>3, HarnessAssumption
<1>5. t \in Group(plan.names[i])
  BY <1>4 DEF Group
<1>. QED  BY <1>5

\* A turn moves on from the cursor, which is then the last to come back to.
LEMMA TurnOrder ==
  ASSUME NEW n \in Nat \ {0}, NEW c \in 1 .. n, NEW d,
         d = IF c = n THEN 1 ELSE c + 1
  PROVE  /\ \A i, j \in 1 .. n : i # c =>
               ((IF d <= i THEN d <= j /\ j <= i ELSE d <= j \/ j <= i)
                 <=> j # c /\ (IF c <= i THEN c <= j /\ j <= i ELSE c <= j \/ j <= i))
         /\ \A j \in 1 .. n : IF d <= c THEN d <= j /\ j <= c ELSE d <= j \/ j <= c
         /\ \A j \in 1 .. n : (IF c <= c THEN c <= j /\ j <= c ELSE c <= j \/ j <= c) <=> j = c
<1>1. CASE c = n
  BY <1>1
<1>2. CASE c # n
  BY <1>2
<1>. QED  BY <1>1, <1>2

\* A category that gives nothing is passed for good, until the next draw.
LEMMA MissPasses ==
  ASSUME TypeInv, SizeInv, Sample, UNCHANGED <<left, selected>>, Group(plan.names[cursor]) = {}
  PROVE  ToSkip' < ToSkip
<1> DEFINE n == Len(plan.names)
           Bare(i) == Group(plan.names[i]) = {}
<1>a. HarnessTypeOK /\ n \in Nat \ {0} /\ cursor \in 1 .. n
  BY PlanShape DEF TypeInv, HarnessTypeOK
<1>b. cursor' = (IF cursor = n THEN 1 ELSE cursor + 1) /\ plan' = plan
  BY <1>a, AdvanceIs DEF Sample
<1>c. \A i : Bare(i)' <=> Bare(i)
  BY <1>b DEF Group
<1>d. Bare(cursor) /\ \E i \in 1 .. n : ~Bare(i)
  BY SomethingLeft DEF Sample
<1>e. Exhausted = {i \in 1 .. n : \A j \in 1 .. n : OnTheWay(j, i) => Bare(j)}
  BY DEF Exhausted
<1>f. Exhausted' = {i \in 1 .. n : \A j \in 1 .. n : OnTheWay(j, i)' => Bare(j)}
  BY <1>b, <1>c DEF Exhausted
<1> HIDE DEF n, Bare
<1>g. PICK c, d : c = cursor /\ d = cursor'
  OBVIOUS
<1>h. c \in 1 .. n /\ d = (IF c = n THEN 1 ELSE c + 1) /\ Bare(c)
  BY <1>a, <1>b, <1>d, <1>g
<1>1. /\ \A i, j \in 1 .. n : i # c => (OnTheWay(j, i)' <=> j # c /\ OnTheWay(j, i))
      /\ \A j \in 1 .. n : OnTheWay(j, c)'
      /\ \A j \in 1 .. n : OnTheWay(j, c) <=> j = c
  <2>1. /\ \A i, j : OnTheWay(j, i) <=> IF c <= i THEN c <= j /\ j <= i ELSE c <= j \/ j <= i
        /\ \A i, j : OnTheWay(j, i)' <=> IF d <= i THEN d <= j /\ j <= i ELSE d <= j \/ j <= i
    BY <1>g DEF OnTheWay
  <2>. QED  BY <1>a, <1>h, <2>1, TurnOrder
<1>2. c \in Exhausted
  BY <1>h, <1>e, <1>1
<1>3. Exhausted' = Exhausted \ {c}
  <2>1. ASSUME NEW i \in 1 .. n, i # c
        PROVE  i \in Exhausted' <=> i \in Exhausted
    BY <1>h, <1>e, <1>f, <1>1, <2>1
  <2>2. c \notin Exhausted'
    BY <1>d, <1>f, <1>1
  <2>3. Exhausted \subseteq 1 .. n /\ Exhausted' \subseteq 1 .. n
    BY <1>e, <1>f
  <2>. QED  BY <2>1, <2>2, <2>3
<1>4. IsFiniteSet(Exhausted) /\ ToSkip \in Nat
  BY <1>a, ExhaustedFinite
<1>5. Cardinality(Exhausted \ {c}) = Cardinality(Exhausted) - 1
  BY <1>2, <1>4, FS_RemoveElement
<1>. QED  BY <1>3, <1>4, <1>5 DEF ToSkip

\* Recording an outcome leaves one run less.
LEMMA CaseLeavesLess ==
  ASSUME EndInv, phase = "running", phase' = "running", UNCHANGED <<plan, samplevars>>,
         NEW v \in Variants, NEW o \in Outcomes, due # <<>>, Case(v, o)
  PROVE  RunsLeft' < RunsLeft
<1>a. HarnessTypeOK
  BY DEF EndInv, TypeInv
<1>1. /\ \A u \in Variants \ {v} : Recorded(u)' = Recorded(u)
      /\ Recorded(v)' = Recorded(v) + 1
  BY <1>a, CaseType DEF Recorded
<1>2. Total' = Total
  BY DEF Total, samplevars
<1>3. Recorded("minimal") \in Nat /\ Recorded("full") \in Nat /\ Total \in Nat
  BY <1>a, PairNumbers
<1>4. \/ Recorded("minimal")' = Recorded("minimal") + 1 /\ Recorded("full")' = Recorded("full")
      \/ Recorded("minimal")' = Recorded("minimal") /\ Recorded("full")' = Recorded("full") + 1
  BY <1>1 DEF Variants
<1>. QED  BY <1>2, <1>3, <1>4 DEF RunsLeft

\* The pairs and the sample stand still.
Standing == UNCHANGED <<phase, plan, left, cursor, selected>>

LEMMA StandingCounts ==
  ASSUME Standing
  PROVE  /\ PhasesLeft' = PhasesLeft /\ ToDraw' = ToDraw /\ ToSkip' = ToSkip
         /\ cases' = cases => RunsLeft' = RunsLeft
<1>1. PhasesLeft' = PhasesLeft /\ ToDraw' = ToDraw
  BY DEF Standing, PhasesLeft, ToDraw
<1>2. Exhausted' = Exhausted
  BY DEF Standing, Exhausted, OnTheWay, Group
<1>3. cases' = cases => RunsLeft' = RunsLeft
  BY DEF Standing, RunsLeft, Total, Recorded
<1>. QED  BY <1>1, <1>2, <1>3 DEF ToSkip

RunnerStep ==
    \/ BeginPair \/ StartMinimal \/ OutOfTime \/ ProviderFails \/ Answer
    \/ \E n \in 1 .. MaxBatch : ToolCalls(n)
    \/ Execute \/ EndBatch \/ LoopEnds

\* A run of the minimal agent has no more steps than its budgets pay for.
LEMMA RunnerSpends ==
  ASSUME EndInv, RunnerStep
  PROVE  Standing /\ cases' = cases /\ StepsOfRun' < StepsOfRun
<1>a. HarnessTypeOK /\ RunnerInv
  BY DEF EndInv, TypeInv
<1>1. Standing /\ cases' = cases
  BY DEF RunnerStep, Standing, samplevars, BeginPair, StartMinimal, OutOfTime, ProviderFails,
         Answer, ToolCalls, Execute, EndBatch, LoopEnds
<1>2. /\ MaxModelCalls \in Nat /\ MaxToolCalls \in Nat
      /\ attempts \in 0 .. MaxModelCalls /\ calls \in 0 .. MaxToolCalls /\ batch \in Nat
  BY <1>a, HarnessAssumption DEF HarnessTypeOK
<1>3. /\ AskingSteps(attempts, calls) \in Nat /\ AskingSteps(0, 0) \in Nat
      /\ AskingSteps(attempts, calls) >= 2
  BY <1>a, RunSteps
<1>4. CASE BeginPair
  <2>1. stage = "off" /\ stage' = "off" /\ due = <<>> /\ due' # <<>>
    BY <1>a, <1>4 DEF BeginPair, RunnerInv, Turn, runvars
  <2>2. StepsOfRun = AskingSteps(0, 0) + 2 /\ StepsOfRun' = AskingSteps(0, 0) + 1
    BY <2>1 DEF StepsOfRun, AskingSteps
  <2>. QED  BY <1>1, <1>3, <2>2
<1>5. CASE StartMinimal
  <2>1. stage = "off" /\ due # <<>> /\ stage' = "asking" /\ attempts' = 0 /\ calls' = 0
    BY <1>5 DEF StartMinimal, Turn
  <2>2. StepsOfRun = AskingSteps(0, 0) + 1 /\ StepsOfRun' = AskingSteps(0, 0)
    BY <2>1 DEF StepsOfRun, AskingSteps
  <2>. QED  BY <1>1, <1>3, <2>2
<1>6. CASE OutOfTime \/ ProviderFails \/ Answer \/ LoopEnds
  <2>1. stage = "asking" /\ stage' = "verifying"
    BY <1>6 DEF OutOfTime, ProviderFails, Answer, LoopEnds
  <2>2. StepsOfRun = AskingSteps(attempts, calls) /\ StepsOfRun' = 1
    BY <2>1 DEF StepsOfRun
  <2>. QED  BY <1>1, <1>3, <2>2
<1>7. ASSUME NEW n \in 1 .. MaxBatch, ToolCalls(n)
      PROVE  StepsOfRun' < StepsOfRun
  <2>1. stage = "asking" /\ stage' = "executing" /\ attempts' = attempts + 1 /\ calls' = calls
    BY <1>7 DEF ToolCalls
  <2>2. /\ StepsOfRun = AskingSteps(attempts, calls)
        /\ StepsOfRun' = AskingSteps(attempts + 1, calls) + 1
    BY <2>1 DEF StepsOfRun, AskingSteps
  <2>. QED  BY <1>2, <2>2 DEF AskingSteps
<1>8. CASE Execute
  <2>1. stage = "executing" /\ stage' = "executing" /\ attempts' = attempts /\ calls' = calls + 1
    BY <1>8 DEF Execute
  <2>2. /\ StepsOfRun = AskingSteps(attempts, calls) + 1
        /\ StepsOfRun' = AskingSteps(attempts, calls + 1) + 1
    BY <2>1 DEF StepsOfRun, AskingSteps
  <2>. QED  BY <1>1, <1>2, <2>2 DEF AskingSteps
<1>9. CASE EndBatch
  <2>1. stage = "executing" /\ stage' \in {"verifying", "asking"} /\ attempts' = attempts /\ calls' = calls
    BY <1>9 DEF EndBatch
  <2>2. /\ StepsOfRun = AskingSteps(attempts, calls) + 1
        /\ StepsOfRun' \in {1, AskingSteps(attempts, calls)}
    BY <2>1 DEF StepsOfRun, AskingSteps
  <2>. QED  BY <1>1, <1>3, <2>2
<1>. QED  BY <1>1, <1>4, <1>5, <1>6, <1>7, <1>8, <1>9 DEF RunnerStep

LEMMA StepComesNearer == EndInv /\ [Next]_vars => [Nearer]_vars
<1>. SUFFICES ASSUME EndInv, Next PROVE Nearer
  OBVIOUS
<1>a. HarnessTypeOK /\ RunnerInv /\ TypeInv /\ SizeInv
  BY DEF EndInv, TypeInv
<1>1. CASE Sample
  <2>1. PhasesLeft' = PhasesLeft /\ phase = "sampling" /\ phase' = "sampling" /\ plan' = plan
    BY <1>1 DEF Sample, PhasesLeft
  <2>2. CASE Group(plan.names[cursor]) = {} /\ UNCHANGED <<left, selected>>
    <3>1. ToSkip' < ToSkip
      BY <1>a, <1>1, <2>2, MissPasses
    <3>2. ToDraw' = ToDraw
      BY <2>1, <2>2 DEF ToDraw
    <3>. QED  BY <2>1, <3>1, <3>2 DEF Nearer
  <2>3. CASE \E t \in Group(plan.names[cursor]) : selected' = Append(selected, t)
    <3>1. PICK t \in Tasks : selected' = Append(selected, t)
      BY <1>a, <2>3 DEF Group, HarnessTypeOK
    <3>2. Len(selected') = Len(selected) + 1 /\ Len(selected) \in Nat
      BY <1>a, <3>1, AppendProperties DEF HarnessTypeOK
    <3>3. plan.cases \in Nat
      BY <1>a, PlanShape
    <3>4. ToDraw' < ToDraw
      BY <2>1, <3>2, <3>3 DEF ToDraw
    <3>. QED  BY <2>1, <3>4 DEF Nearer
  <2>. QED  BY <1>1, <2>2, <2>3 DEF Sample
<1>2. CASE Sampled
  BY <1>2 DEF Sampled, Nearer, PhasesLeft
<1>3. CASE Conclude
  <2>1. phase = "running" /\ phase' \in {"concluded", "crashed"}
    BY <1>3 DEF Conclude
  <2>. QED  BY <2>1 DEF Nearer, PhasesLeft
<1>4. CASE RunFull \/ Verify
  <2>1. \E v \in Variants, o \in Outcomes : Case(v, o)
    <3>1. CASE RunFull
      BY <3>1 DEF RunFull, Outcomes, Variants
    <3>2. CASE Verify
      BY <1>a, <3>2 DEF Verify, Outcomes, Variants, Reported, Failing, Failures, HarnessTypeOK
    <3>. QED  BY <1>4, <3>1, <3>2
  <2>2. Standing /\ phase = "running" /\ due # <<>>
    BY <1>4, <1>a DEF RunFull, Verify, RunnerInv, Turn, Standing, samplevars
  <2>3. RunsLeft' < RunsLeft
    BY <2>1, <2>2, CaseLeavesLess DEF Standing, samplevars
  <2>. QED  BY <2>2, <2>3, StandingCounts DEF Nearer
<1>5. CASE RunnerStep
  BY <1>5, RunnerSpends, StandingCounts DEF Nearer
<1>. QED  BY <1>1, <1>2, <1>3, <1>4, <1>5 DEF Next, RunnerStep

\* An evaluation is over after finitely many steps, for any suite, plan and
\* budgets and whatever the provider and the verifier do: every step comes
\* nearer to the end, by a measure of natural numbers. This is the end of the
\* while loop of stratified_sample, of the loop over the pairs of
\* evaluate_harness_ab, and of MinimalFunctionCallingRunner.run.
THEOREM EvaluationRunsOut == Spec => []Countable /\ [][Nearer]_vars
<1>1. EndInv <=> TypeInv /\ SizeInv /\ PairedInv
  BY DEF EndInv
<1>2. Spec => []EndInv
  BY <1>1, Types, SizeInit, SizeStep, PairedInit, PairedStep, PTL DEF Spec
<1>. QED  BY <1>2, EndIsCounted, StepComesNearer, PTL DEF Spec
====
