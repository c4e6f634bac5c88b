-------------------------- MODULE AgentLoopProofs --------------------------
(***************************************************************************)
(* Theorems about AgentLoop, for every setup, every set of calls and every *)
(* limit.  Each invariant is proved with the strengthening that makes it   *)
(* inductive; the strengthenings are layered, each citing the ones before. *)
(***************************************************************************)
EXTENDS AgentLoop, SequenceTheorems, FiniteSetTheorems, TLAPS

InBatch == {"dispatch", "pending", "running", "commit", "committed", "close"}
InHand == {"pending", "running", "commit", "committed"}

\* A call in hand is one of the executable calls of the batch.
CallInHand == pc \in InHand => idx <= nexec

TypeInv == TypeOK /\ CallInHand

----------------------------------------------------------------------------
\* The fields of a call.
LEMMA CallFields == \A c \in Call : c.id \in Ids /\ c.tool \in Tools
BY DEF Call

\* The call in hand is a call of the batch.
LEMMA CurrentIsCall ==
  ASSUME TypeInv, pc \in InHand
  PROVE  /\ Current \in Call
         /\ Current.id \in Ids /\ Current.tool \in Tools
<1>1. idx \in 1..Len(batch) /\ batch \in Seq(Call)
  BY DEF TypeInv, TypeOK, CallInHand
<1>2. Current \in Call
  BY <1>1, ElementOfSeq DEF Current
<1>. QED  BY <1>2, CallFields

\* A call leaves one of the contents.
LEMMA LeadsToContents ==
  ASSUME NEW t \in Tools, NEW c \in Contents
  PROVE  Leads[t][c] \subseteq Contents
<1>1. Leads[t] \in [Contents -> SUBSET Contents]
  BY ToolsAssumption
<1>. QED  BY <1>1

\* A batch is never granted more executions than it has calls.
LEMMA ExecutableBounds ==
  ASSUME TypeOK, NEW n \in Nat
  PROVE  /\ Executable(n) \in 0..n
         /\ Executable(n) > 0 => /\ Executable(n) <= MaxSteps - toolSteps
                                 /\ Executable(n) <= MaxToolCalls - toolCalls
BY LimitsAssumption DEF Executable, TypeOK

\* Ids are numbers, and the ids of messages are among them.
LEMMA IdsAreNumbers ==
  /\ MaxAttempts * MaxBatch \in Nat
  /\ NoId \in Ids
  /\ UserMessage \in Message
  /\ \A id \in Ids : ToolReply(id) \in Message
<1>1. MaxAttempts * MaxBatch \in Nat
  BY LimitsAssumption
<1>2. NoId \in Ids
  BY <1>1 DEF NoId, Ids
<1>. QED  BY <1>1, <1>2 DEF UserMessage, ToolReply, Message

\* What closes a batch is a sequence of messages.
LEMMA ClosingType ==
  ASSUME TypeInv, pc = "close"
  PROVE  Closing \in Seq(Message)
<1>. USE DEF TypeInv, TypeOK
<1>1. Truncated \in Seq(Call)
  <2>1. nexec + 1 \in 1..(Len(batch) + 1)
    OBVIOUS
  <2>. QED  BY <2>1, SubSeqProperties DEF Truncated
<1>2. Unexecuted \in Seq(Call)
  <2>1. CASE idx + 1 <= nexec
    BY <2>1, SubSeqProperties DEF Unexecuted
  <2>2. CASE idx + 1 > nexec
    BY <2>2, SubSeqProperties DEF Unexecuted
  <2>. QED  BY <2>1, <2>2
<1>3. ASSUME NEW s \in Seq(Call)  PROVE RepliesTo(s) \in Seq(Message)
  <2>1. \A i \in 1..Len(s) : s[i].id \in Ids
    BY <1>3, ElementOfSeq, CallFields
  <2>. QED  BY <2>1, IdsAreNumbers DEF RepliesTo
<1>4. Feedback \in Seq(Message)
  BY IdsAreNumbers DEF Feedback
<1>. QED  BY <1>1, <1>2, <1>3, <1>4 DEF Closing

----------------------------------------------------------------------------
LEMMA TypeInit == Init => TypeInv
BY SetupsAssumption, ToolsAssumption
   DEF Init, TypeInv, TypeOK, CallInHand, InHand, PCs, TaskPhases, Stops, Limits, Successes,
       Failures, Outcomes

LEMMA TypeStep == TypeInv /\ [Next]_vars => TypeInv'
<1>. SUFFICES ASSUME TypeInv, [Next]_vars PROVE TypeInv'
  OBVIOUS
<1>. USE DEF TypeInv, TypeOK, CallInHand, InHand, PCs, TaskPhases, Stops, Limits, Successes,
             Failures, Outcomes, loopVars, batchVars, toolVars, effectVars
<1>1. CASE StopAtLimit
  BY <1>1 DEF StopAtLimit
<1>2. CASE StopOverBudget
  BY <1>2 DEF StopOverBudget
<1>3. CASE ProviderFails
  BY <1>3 DEF ProviderFails, AskModel
<1>4. CASE ResponseOverruns
  BY <1>4 DEF ResponseOverruns, AskModel
<1>5. CASE ReceiveFinal
  BY <1>5 DEF ReceiveFinal, AskModel
<1>6. CASE ReceiveUnusable
  BY <1>6 DEF ReceiveUnusable, AskModel
<1>7. CASE ReceiveCalls
  <2>1. PICK n \in 1..MaxBatch : \E calls \in [1..n -> Call] :
          batch' = calls /\ nexec' = Executable(n)
    BY <1>7 DEF ReceiveCalls
  <2>2. n \in Nat /\ batch' \in Seq(Call) /\ Len(batch') = n
    BY <2>1, LimitsAssumption
  <2>3. nexec' \in 0..Len(batch')
    BY <2>1, <2>2, ExecutableBounds
  <2>. QED  BY <1>7, <2>2, <2>3 DEF ReceiveCalls, AskModel
<1>8. CASE GatePasses
  BY <1>8 DEF GatePasses
<1>9. CASE GateAsksRepair
  <2>1. Append(replies, UserMessage) \in Seq(Message)
    BY IdsAreNumbers
  <2>. QED  BY <1>9, <2>1 DEF GateAsksRepair
<1>10. CASE GateFails
  BY <1>10 DEF GateFails
<1>11. CASE RejectId
  <2>1. idx \in 1..Len(batch)
    BY <1>11 DEF RejectId
  <2>2. Current.id \in Ids
    BY <2>1, ElementOfSeq, CallFields DEF Current
  <2>3. Append(replies, ToolReply(Current.id)) \in Seq(Message)
    BY <2>2, IdsAreNumbers
  <2>. QED  BY <1>11, <2>3 DEF RejectId
<1>12. CASE AcceptId
  <2>1. idx \in 1..Len(batch)
    BY <1>12 DEF AcceptId
  <2>2. Current.id \in Ids
    BY <2>1, ElementOfSeq, CallFields DEF Current
  <2>. QED  BY <1>12, <2>2 DEF AcceptId
<1>13. CASE BlockRepetition
  <2>1. Current.id \in Ids /\ Current.tool \in Tools
    BY <1>13, CurrentIsCall DEF BlockRepetition
  <2>2. Append(replies, ToolReply(Current.id)) \in Seq(Message)
    BY <2>1, IdsAreNumbers
  <2>3. repairs' \in Nat /\ deferred' \in Nat /\ taskPhase' \in TaskPhases
    BY <1>13 DEF BlockRepetition
  <2>4. counts' \in [Tools -> Nat]
    <3>1. CASE CanRepair
      <4>1. counts' = [counts EXCEPT ![Current.tool] = 0]
        BY <1>13, <3>1 DEF BlockRepetition
      <4>2. counts \in [Tools -> Nat] /\ 0 \in Nat
        OBVIOUS
      <4>. QED  BY <4>1, <4>2, <2>1
    <3>2. CASE ~CanRepair
      BY SMTT(30), <1>13, <2>1, <3>2 DEF BlockRepetition
    <3>. QED  BY <3>1, <3>2
  <2>. QED  BY <1>13, <2>2, <2>3, <2>4 DEF BlockRepetition
<1>14. CASE PrepareTool
  <2>1. Current.tool \in Tools
    BY <1>14, CurrentIsCall DEF PrepareTool
  <2>. QED  BY <1>14, <2>1 DEF PrepareTool
<1>15. CASE ReuseResult
  BY <1>15 DEF ReuseResult
<1>16. CASE RunTool
  <2>1. Current.tool \in Tools
    BY <1>16, CurrentIsCall DEF RunTool
  <2>2. ws' \in Contents
    BY <1>16, <2>1, LeadsToContents DEF RunTool
  <2>. QED  BY SMTT(30), <1>16, <2>1, <2>2 DEF RunTool
<1>17. CASE ToolRaises
  <2>1. Current.tool \in Tools
    BY <1>17, CurrentIsCall DEF ToolRaises
  <2>2. repairs' \in Nat /\ deferred' \in Nat /\ taskPhase' \in TaskPhases
    BY <1>17 DEF ToolRaises
  <2>3. tried' \in [Tools -> Nat]
    BY <1>17, <2>1 DEF ToolRaises
  <2>. QED  BY <1>17, <2>2, <2>3 DEF ToolRaises
<1>18. CASE CommitTool
  <2>1. Current.id \in Ids
    BY <1>18, CurrentIsCall DEF CommitTool
  <2>2. Append(replies, ToolReply(Current.id)) \in Seq(Message)
    BY <2>1, IdsAreNumbers
  <2>. QED  BY <1>18, <2>2 DEF CommitTool
<1>19. CASE VerifiedAfterTool
  BY <1>19 DEF VerifiedAfterTool
<1>20. CASE NextCall
  BY <1>20 DEF NextCall
<1>21. CASE BatchExecuted
  BY <1>21 DEF BatchExecuted
<1>22. CASE CloseBatch
  <2>1. replies \o Closing \in Seq(Message)
    BY <1>22, ClosingType DEF CloseBatch
  <2>. QED  BY <1>22, <2>1 DEF CloseBatch
<1>23. CASE Finalize
  BY <1>23 DEF Finalize
<1>24. CASE UNCHANGED vars
  BY <1>24 DEF vars
<1>. QED
  BY <1>1, <1>2, <1>3, <1>4, <1>5, <1>6, <1>7, <1>8, <1>9, <1>10, <1>11, <1>12, <1>13, <1>14,
     <1>15, <1>16, <1>17, <1>18, <1>19, <1>20, <1>21, <1>22, <1>23, <1>24
     DEF Next, HeadStep, GateStep, CallStep, CloseStep

\* Every reachable state is well typed, and a call in hand is a call of the batch.
THEOREM TypeCorrect == Spec => []TypeInv
<1>. QED  BY TypeInit, TypeStep, PTL DEF Spec

\* In particular every variable keeps its type.
THEOREM TypeOKHolds == Spec => []TypeOK
<1>1. TypeInv => TypeOK
  BY DEF TypeInv
<1>. QED  BY <1>1, TypeCorrect, PTL

----------------------------------------------------------------------------
(***************************************************************************)
(* The tool budget.  While a batch is open, the steps its remaining        *)
(* executable calls may take are already within the limits.                *)
(***************************************************************************)
Reserved ==
  IF pc \in {"dispatch", "pending", "running", "commit"} THEN nexec - idx + 1
  ELSE IF pc = "committed" THEN nexec - idx
  ELSE 0

BudgetInv ==
  /\ toolSteps = toolCalls
  /\ Reserved >= 0
  /\ toolSteps + Reserved <= MaxSteps
  /\ toolSteps + Reserved <= MaxToolCalls
  /\ pc \in {"loop", "gate", "dispatch", "pending", "running", "commit", "committed"}
       => stop = "retry_limit_reached"
  /\ pc = "close" => stop \in {"retry_limit_reached", "verified_after_tool"}

LEMMA BudgetInit == Init => BudgetInv
BY LimitsAssumption DEF Init, BudgetInv, Reserved

LEMMA BudgetStep == TypeInv /\ BudgetInv /\ [Next]_vars => BudgetInv'
<1>. SUFFICES ASSUME TypeInv, BudgetInv, [Next]_vars PROVE BudgetInv'
  OBVIOUS
<1>. USE LimitsAssumption
     DEF TypeInv, TypeOK, CallInHand, InHand, BudgetInv, Reserved,
         loopVars, batchVars, toolVars, effectVars
<1>1. CASE StopAtLimit
  BY <1>1 DEF StopAtLimit
<1>2. CASE StopOverBudget
  BY <1>2 DEF StopOverBudget
<1>3. CASE ProviderFails
  BY <1>3 DEF ProviderFails, AskModel
<1>4. CASE ResponseOverruns
  BY <1>4 DEF ResponseOverruns, AskModel
<1>5. CASE ReceiveFinal
  BY <1>5 DEF ReceiveFinal, AskModel
<1>6. CASE ReceiveUnusable
  BY <1>6 DEF ReceiveUnusable, AskModel
<1>7. CASE ReceiveCalls
  <2>1. PICK n \in 1..MaxBatch : nexec' = Executable(n)
    BY <1>7 DEF ReceiveCalls
  <2>2. n \in Nat
    BY <2>1
  <2>3. /\ nexec' \in 0..n
        /\ nexec' > 0 => nexec' <= MaxSteps - toolSteps /\ nexec' <= MaxToolCalls - toolCalls
    BY <2>1, <2>2, ExecutableBounds
  <2>. QED  BY <1>7, <2>2, <2>3 DEF ReceiveCalls, AskModel
<1>8. CASE GatePasses
  BY <1>8 DEF GatePasses
<1>9. CASE GateAsksRepair
  BY <1>9 DEF GateAsksRepair
<1>10. CASE GateFails
  BY <1>10 DEF GateFails
<1>11. CASE RejectId
  BY <1>11 DEF RejectId
<1>12. CASE AcceptId
  BY <1>12 DEF AcceptId
<1>13. CASE BlockRepetition
  BY <1>13 DEF BlockRepetition
<1>14. CASE PrepareTool
  BY <1>14 DEF PrepareTool
<1>15. CASE ReuseResult
  BY <1>15 DEF ReuseResult
<1>16. CASE RunTool
  BY <1>16 DEF RunTool
<1>17. CASE ToolRaises
  BY <1>17 DEF ToolRaises
<1>18. CASE CommitTool
  BY <1>18 DEF CommitTool
<1>19. CASE VerifiedAfterTool
  BY <1>19 DEF VerifiedAfterTool
<1>20. CASE NextCall
  BY <1>20 DEF NextCall
<1>21. CASE BatchExecuted
  BY <1>21 DEF BatchExecuted
<1>22. CASE CloseBatch
  BY <1>22 DEF CloseBatch
<1>23. CASE Finalize
  BY <1>23 DEF Finalize
<1>24. CASE UNCHANGED vars
  BY <1>24 DEF vars
<1>. QED
  BY <1>1, <1>2, <1>3, <1>4, <1>5, <1>6, <1>7, <1>8, <1>9, <1>10, <1>11, <1>12, <1>13, <1>14,
     <1>15, <1>16, <1>17, <1>18, <1>19, <1>20, <1>21, <1>22, <1>23, <1>24
     DEF Next, HeadStep, GateStep, CallStep, CloseStep

LEMMA BudgetInvariant == Spec => []BudgetInv
<1>. QED  BY TypeCorrect, BudgetInit, BudgetStep, PTL DEF Spec

\* Tool steps and tool calls agree and stay within their limits, and the
\* branch of an overrun tool budget is never taken, for all limits.
THEOREM ToolBudgetHolds == Spec => []ToolBudget
<1>1. TypeInv /\ BudgetInv => ToolBudget
  BY LimitsAssumption DEF TypeInv, TypeOK, BudgetInv, Reserved, ToolBudget
<1>. QED  BY <1>1, TypeCorrect, BudgetInvariant, PTL

----------------------------------------------------------------------------
(***************************************************************************)
(* The side-effect governance.  A call that took effect is on record; the  *)
(* tries of a call are paid for by its count and by the repairs.           *)
(***************************************************************************)
AtMostTwo(n) == IF n <= 2 THEN n ELSE 2

\* The call in hand is about to be tried, and already counted.
Counted(t) == pc = "running" /\ Current.tool = t

GovernanceInv ==
  /\ repairs <= setup.maxRepairs
  /\ setup.governance => \A t \in Tools :
       /\ applied[t] <= 1
       /\ applied[t] >= 1 => t \in completed
       /\ tried[t] <= 2 * repairs + AtMostTwo(counts[t])
       /\ Counted(t) => tried[t] + 1 <= 2 * repairs + AtMostTwo(counts[t])

LEMMA GovernanceInit == Init => GovernanceInv
BY SetupsAssumption DEF Init, GovernanceInv, Counted, AtMostTwo, SetupShape

\* A step that leaves the counters of the governance alone and does not
\* prepare a call preserves the invariant.
LEMMA GovernanceKept ==
  ASSUME TypeInv, GovernanceInv,
         UNCHANGED <<setup, counts, completed, tried, applied>>,
         pc' # "running" \/ UNCHANGED <<pc, batch, idx>>,
         repairs' \in Nat, repairs <= repairs', repairs' <= setup.maxRepairs
  PROVE  GovernanceInv'
BY SMTT(30) DEF GovernanceInv, Counted, AtMostTwo, Current, TypeInv, TypeOK

LEMMA GovernanceStep == TypeInv /\ GovernanceInv /\ [Next]_vars => GovernanceInv'
<1>. SUFFICES ASSUME TypeInv, GovernanceInv, [Next]_vars PROVE GovernanceInv'
  OBVIOUS
<1>1. repairs \in Nat /\ setup.maxRepairs \in Nat /\ setup.governance \in BOOLEAN
  BY SetupsAssumption DEF TypeInv, TypeOK, SetupShape
<1>2. repairs <= setup.maxRepairs
  BY DEF GovernanceInv
<1>3. CASE HeadStep
  BY <1>1, <1>2, <1>3, GovernanceKept
     DEF HeadStep, StopAtLimit, StopOverBudget, ProviderFails, ResponseOverruns, ReceiveFinal,
         ReceiveUnusable, ReceiveCalls, AskModel, loopVars, batchVars, toolVars, effectVars
<1>4. CASE GateStep
  BY <1>1, <1>2, <1>4, GovernanceKept
     DEF GateStep, GatePasses, GateAsksRepair, GateFails, CanRepair,
         loopVars, batchVars, toolVars, effectVars
<1>5. CASE RejectId \/ AcceptId \/ ReuseResult \/ CommitTool \/ VerifiedAfterTool \/ NextCall
           \/ BatchExecuted \/ CloseStep
  BY <1>1, <1>2, <1>5, GovernanceKept
     DEF RejectId, AcceptId, ReuseResult, CommitTool, VerifiedAfterTool, NextCall, BatchExecuted,
         CloseStep, CloseBatch, Finalize, loopVars, batchVars, toolVars, effectVars
<1>6. CASE BlockRepetition
  <2>1. Current.tool \in Tools
    BY <1>6, CurrentIsCall DEF BlockRepetition, InHand
  <2>2. UNCHANGED <<setup, completed, tried, applied>> /\ pc' = "dispatch"
    BY <1>6 DEF BlockRepetition, effectVars
  <2>3. CASE CanRepair
    <3>1. repairs' = repairs + 1 /\ counts' = [counts EXCEPT ![Current.tool] = 0]
      BY <1>6, <2>3 DEF BlockRepetition
    <3>2. repairs + 1 <= setup.maxRepairs
      BY <1>1, <2>3 DEF CanRepair
    <3>3. ASSUME NEW t \in Tools, setup.governance
          PROVE  tried'[t] <= 2 * repairs' + AtMostTwo(counts'[t])
      BY SMTT(30), <1>1, <2>1, <2>2, <3>1, <3>3 DEF GovernanceInv, AtMostTwo, TypeInv, TypeOK
    <3>. QED  BY <2>2, <3>1, <3>2, <3>3 DEF GovernanceInv, Counted
  <2>4. CASE ~CanRepair
    <3>1. repairs' = repairs /\ counts' = [counts EXCEPT ![Current.tool] = @ + 1]
      BY <1>6, <2>4 DEF BlockRepetition
    <3>2. ASSUME NEW t \in Tools, setup.governance
          PROVE  tried'[t] <= 2 * repairs' + AtMostTwo(counts'[t])
      BY SMTT(30), <1>1, <2>1, <2>2, <3>1, <3>2 DEF GovernanceInv, AtMostTwo, TypeInv, TypeOK
    <3>. QED  BY <1>2, <2>2, <3>1, <3>2 DEF GovernanceInv, Counted
  <2>. QED  BY <2>3, <2>4
<1>7. CASE PrepareTool
  <2>1. Current.tool \in Tools
    BY <1>7, CurrentIsCall DEF PrepareTool, InHand
  <2>2. /\ UNCHANGED <<setup, repairs, batch, idx, completed, tried, applied>>
        /\ counts' = [counts EXCEPT ![Current.tool] = @ + 1]
        /\ setup.governance => counts[Current.tool] + 1 <= 2
    BY <1>1, <1>7, <2>1 DEF PrepareTool, Loops, batchVars, effectVars, TypeInv, TypeOK
  <2>3. Current' = Current
    BY <2>2 DEF Current
  <2>4. ASSUME NEW t \in Tools, setup.governance
        PROVE  /\ tried'[t] <= 2 * repairs' + AtMostTwo(counts'[t])
               /\ Counted(t)' => tried'[t] + 1 <= 2 * repairs' + AtMostTwo(counts'[t])
    BY SMTT(30), <1>1, <2>1, <2>2, <2>3, <2>4 DEF GovernanceInv, Counted, AtMostTwo, TypeInv, TypeOK
  <2>. QED  BY <1>2, <2>2, <2>4 DEF GovernanceInv
<1>8. CASE RunTool
  <2>1. Current.tool \in Tools
    BY <1>8, CurrentIsCall DEF RunTool, InHand
  <2>2. /\ UNCHANGED <<setup, repairs, counts>> /\ pc = "running" /\ pc' = "commit"
        /\ completed' = completed \cup {Current.tool}
        /\ tried' = [tried EXCEPT ![Current.tool] = @ + 1]
        /\ applied' = [applied EXCEPT ![Current.tool] = @ + 1]
        /\ setup.governance => Current.tool \notin completed
    BY <1>8 DEF RunTool, Reused
  <2>3. ASSUME NEW t \in Tools, setup.governance
        PROVE  /\ applied'[t] <= 1
               /\ applied'[t] >= 1 => t \in completed'
               /\ tried'[t] <= 2 * repairs' + AtMostTwo(counts'[t])
    BY SMTT(30), <1>1, <2>1, <2>2, <2>3 DEF GovernanceInv, Counted, AtMostTwo, TypeInv, TypeOK
  <2>. QED  BY <1>2, <2>2, <2>3 DEF GovernanceInv, Counted
<1>9. CASE ToolRaises
  <2>1. Current.tool \in Tools
    BY <1>9, CurrentIsCall DEF ToolRaises, InHand
  <2>2. /\ UNCHANGED <<setup, counts, completed, applied>> /\ pc = "running" /\ pc' = "commit"
        /\ tried' = [tried EXCEPT ![Current.tool] = @ + 1]
    BY <1>9 DEF ToolRaises, toolVars
  <2>3. repairs' \in Nat /\ repairs <= repairs' /\ repairs' <= setup.maxRepairs
    BY <1>1, <1>2, <1>9 DEF ToolRaises, CanRepair
  <2>4. ASSUME NEW t \in Tools, setup.governance
        PROVE  tried'[t] <= 2 * repairs' + AtMostTwo(counts'[t])
    <3>1. tried[t] \in Nat /\ counts[t] \in Nat /\ counts'[t] = counts[t]
      BY <2>2, <2>4 DEF TypeInv, TypeOK
    <3>2. tried'[t] \in Nat /\ tried'[t] <= 2 * repairs + AtMostTwo(counts[t])
      <4>1. tried'[t] = IF t = Current.tool THEN tried[t] + 1 ELSE tried[t]
        BY <2>1, <2>2, <2>4 DEF TypeInv, TypeOK
      <4>2. /\ tried[t] <= 2 * repairs + AtMostTwo(counts[t])
            /\ t = Current.tool => tried[t] + 1 <= 2 * repairs + AtMostTwo(counts[t])
        BY <2>2, <2>4 DEF GovernanceInv, Counted
      <4>. QED  BY <3>1, <4>1, <4>2
    <3>. QED  BY <1>1, <2>3, <3>1, <3>2 DEF AtMostTwo
  <2>. QED  BY <2>2, <2>3, <2>4 DEF GovernanceInv, Counted
<1>10. CASE UNCHANGED vars
  BY <1>1, <1>2, <1>10, GovernanceKept DEF vars, loopVars, batchVars, toolVars, effectVars
<1>. QED
  BY <1>3, <1>4, <1>5, <1>6, <1>7, <1>8, <1>9, <1>10 DEF Next, CallStep

LEMMA GovernanceInvariant == Spec => []GovernanceInv
<1>. QED  BY TypeCorrect, GovernanceInit, GovernanceStep, PTL DEF Spec

\* With the governance on, no call takes effect twice in a run.
THEOREM AppliedAtMostOnceHolds == Spec => []AppliedAtMostOnce
<1>1. GovernanceInv => AppliedAtMostOnce
  BY DEF GovernanceInv, AppliedAtMostOnce
<1>. QED  BY <1>1, GovernanceInvariant, PTL

\* With the governance on, the tries of a call are bounded by the repairs.
THEOREM RetriesBoundedHolds == Spec => []RetriesBounded
<1>1. TypeInv /\ GovernanceInv => RetriesBounded
  BY DEF TypeInv, TypeOK, GovernanceInv, AtMostTwo, RetriesBounded
<1>. QED  BY <1>1, TypeCorrect, GovernanceInvariant, PTL

----------------------------------------------------------------------------
(***************************************************************************)
(* Completion.  The paths a run reports are those of its write_file and    *)
(* patch_file calls, but for the one that is not committed yet; completion *)
(* is declared on the verdict about exactly those paths and the current    *)
(* content, whatever commands have made of it.                             *)
(***************************************************************************)
InFlight == IF pc = "commit" /\ outcome = "ran" THEN {Current.tool} \cap Writes ELSE {}

Warranted ==
  /\ setup.required => setup.verifier
  /\ setup.verifier => ws \in Accepted /\ affected \subseteq Allowed

\* Every write_file and patch_file call that took effect is reported, and
\* nothing else is.
AccountedInv == Made = affected \cup InFlight

\* Completion is declared together with a success, on such a verdict.
DueInv ==
  /\ taskPhase = "COMPLETE" <=> stop \in Successes
  /\ taskPhase = "COMPLETE" =>
       pc \in {"close", "finalize", "done"} /\ Warranted /\ failure = "none"

CompletionInv == AccountedInv /\ DueInv

LEMMA VerdictPasses ==
  Verdict = "passed" <=> setup.verifier /\ ws \in Accepted /\ affected \subseteq Allowed
BY DEF Verdict

LEMMA GateWarrants == TypeInv /\ GateOpens => Warranted
<1>1. TypeInv => setup.verifier \in BOOLEAN /\ setup.required \in BOOLEAN
  BY SetupsAssumption DEF TypeInv, TypeOK, SetupShape
<1>. QED  BY <1>1 DEF GateOpens, Verdict, Warranted

LEMMA MadeInit == Init => Made = {}
BY ToolsAssumption DEF Init, Made

LEMMA AccountedInit == Init => AccountedInv
BY MadeInit DEF Init, AccountedInv, InFlight

LEMMA AccountedStep == TypeInv /\ AccountedInv /\ [Next]_vars => AccountedInv'
<1>. SUFFICES ASSUME TypeInv, AccountedInv, [Next]_vars PROVE AccountedInv'
  OBVIOUS
<1>1. CASE RunTool
  <2>1. Current.tool \in Tools /\ Current' = Current
    BY <1>1, CurrentIsCall DEF RunTool, InHand, Current
  <2>2. applied' = [applied EXCEPT ![Current.tool] = @ + 1]
    BY <1>1 DEF RunTool
  <2>3. Made' = Made \cup ({Current.tool} \cap Writes)
    BY <2>1, <2>2, ToolsAssumption DEF Made, TypeInv, TypeOK
  <2>4. Made = affected /\ affected' = affected /\ InFlight' = {Current.tool} \cap Writes
    BY <1>1, <2>1 DEF RunTool, AccountedInv, InFlight
  <2>. QED  BY <2>3, <2>4 DEF AccountedInv
<1>2. CASE CommitTool
  BY <1>2 DEF CommitTool, effectVars, AccountedInv, Made, InFlight
<1>3. CASE Next /\ ~RunTool /\ ~CommitTool
  <2>1. UNCHANGED <<applied, affected>> /\ pc # "commit" /\ (pc' # "commit" \/ outcome' # "ran")
    BY <1>3 DEF Next, HeadStep, GateStep, CallStep, CloseStep, loopVars, batchVars, toolVars,
         effectVars, StopAtLimit, StopOverBudget, AskModel, ProviderFails, ResponseOverruns,
         ReceiveFinal, ReceiveUnusable, ReceiveCalls, GatePasses, GateAsksRepair, GateFails,
         RejectId, AcceptId, BlockRepetition, PrepareTool, ReuseResult, ToolRaises,
         VerifiedAfterTool, NextCall, BatchExecuted, CloseBatch, Finalize
  <2>. QED  BY <2>1 DEF AccountedInv, Made, InFlight
<1>4. CASE UNCHANGED vars
  BY <1>4 DEF vars, loopVars, batchVars, toolVars, effectVars, AccountedInv, Made, InFlight, Current
<1>. QED  BY <1>1, <1>2, <1>3, <1>4

LEMMA DueInit == Init => DueInv
BY DEF Init, DueInv, Successes

\* A step that changes no reported path and no verdict.
LEMMA DueKept ==
  ASSUME DueInv, UNCHANGED <<setup, affected, ws>>,
         \/ /\ UNCHANGED <<taskPhase, stop, failure>>
            /\ taskPhase = "COMPLETE" => pc' \in {"close", "finalize", "done"}
         \/ taskPhase' # "COMPLETE" /\ stop' \notin Successes
  PROVE  DueInv'
BY DEF DueInv, Warranted

LEMMA DueStep == TypeInv /\ BudgetInv /\ DueInv /\ [Next]_vars => DueInv'
<1>. SUFFICES ASSUME TypeInv, BudgetInv, DueInv, [Next]_vars PROVE DueInv'
  OBVIOUS
<1>. USE DEF loopVars, batchVars, toolVars, effectVars
<1>1. CASE StopAtLimit
  BY <1>1, DueKept DEF StopAtLimit, Successes
<1>2. CASE StopOverBudget
  BY <1>2, DueKept DEF StopOverBudget, DueInv, Successes
<1>3. CASE ProviderFails
  BY <1>3, DueKept DEF ProviderFails, AskModel, DueInv, Successes
<1>4. CASE ResponseOverruns
  BY <1>4, DueKept DEF ResponseOverruns, AskModel, DueInv, Successes
<1>5. CASE ReceiveFinal
  BY <1>5, DueKept DEF ReceiveFinal, AskModel, BudgetInv, Successes
<1>6. CASE ReceiveUnusable
  BY <1>6, DueKept DEF ReceiveUnusable, AskModel, DueInv
<1>7. CASE ReceiveCalls
  BY <1>7, DueKept DEF ReceiveCalls, AskModel, DueInv
<1>8. CASE GatePasses
  <2>1. Warranted'
    BY <1>8, GateWarrants DEF GatePasses, Warranted
  <2>. QED  BY <1>8, <2>1 DEF GatePasses, DueInv, Successes
<1>9. CASE GateAsksRepair
  BY <1>9, DueKept DEF GateAsksRepair, BudgetInv, Successes
<1>10. CASE GateFails
  BY <1>10, DueKept DEF GateFails, Successes
<1>11. CASE RejectId
  <2>1. taskPhase # "COMPLETE" /\ stop \notin Successes
    BY <1>11 DEF RejectId, DueInv
  <2>. QED  BY <1>11, <2>1, DueKept DEF RejectId
<1>12. CASE AcceptId
  BY <1>12, DueKept DEF AcceptId, DueInv
<1>13. CASE BlockRepetition
  <2>1. taskPhase # "COMPLETE" /\ stop \notin Successes
    BY <1>13 DEF BlockRepetition, DueInv
  <2>2. taskPhase' # "COMPLETE" /\ stop' \notin Successes
    BY <1>13, <2>1 DEF BlockRepetition
  <2>. QED  BY <1>13, <2>2, DueKept DEF BlockRepetition
<1>14. CASE PrepareTool
  BY <1>14, DueKept DEF PrepareTool, DueInv
<1>15. CASE ReuseResult
  BY <1>15, DueKept DEF ReuseResult, DueInv
<1>16. CASE RunTool
  <2>1. taskPhase # "COMPLETE" /\ stop \notin Successes /\ UNCHANGED <<taskPhase, stop, failure>>
    BY <1>16 DEF RunTool, DueInv
  <2>. QED  BY <2>1 DEF DueInv
<1>17. CASE ToolRaises
  <2>1. taskPhase # "COMPLETE" /\ stop \notin Successes
    BY <1>17 DEF ToolRaises, DueInv
  <2>2. taskPhase' # "COMPLETE" /\ stop' \notin Successes
    BY <1>17, <2>1 DEF ToolRaises
  <2>. QED  BY <1>17, <2>2, DueKept DEF ToolRaises
<1>18. CASE CommitTool
  <2>2. taskPhase # "COMPLETE" /\ stop \notin Successes
    BY <1>18 DEF CommitTool, DueInv
  <2>3. taskPhase' # "COMPLETE" /\ stop' \notin Successes
    BY <1>18, <2>2 DEF CommitTool, Successes
  <2>. QED  BY <2>3 DEF DueInv
<1>19. CASE VerifiedAfterTool
  <2>1. Warranted'
    BY <1>19, VerdictPasses DEF VerifiedAfterTool, VerifiesNow, Warranted
  <2>. QED  BY <1>19, <2>1 DEF VerifiedAfterTool, DueInv, Successes
<1>20. CASE NextCall
  BY <1>20, DueKept DEF NextCall, DueInv
<1>21. CASE BatchExecuted
  BY <1>21, DueKept DEF BatchExecuted, DueInv
<1>22. CASE CloseBatch
  <2>1. UNCHANGED <<taskPhase, stop, failure, setup, affected, ws>>
    BY <1>22 DEF CloseBatch
  <2>2. taskPhase = "COMPLETE" => pc' = "finalize"
    BY <1>22 DEF CloseBatch, DueInv, BudgetInv, Successes
  <2>. QED  BY <1>22, <2>1, <2>2, DueKept DEF CloseBatch
<1>23. CASE Finalize
  <2>1. UNCHANGED <<setup, affected, ws>> /\ pc' = "done"
    BY <1>23 DEF Finalize
  <2>2. CASE VerifiedAtLimit
    <3>1. stop' = "verified_at_limit" /\ failure' = "none" /\ taskPhase' = "COMPLETE"
      BY <1>23, <2>2 DEF Finalize
    <3>2. Warranted'
      BY <2>1, <2>2, VerdictPasses DEF VerifiedAtLimit, Warranted
    <3>. QED  BY <2>1, <3>1, <3>2 DEF DueInv, Successes
  <2>3. CASE ~VerifiedAtLimit
    <3>1. /\ UNCHANGED <<stop, taskPhase>>
          /\ failure' = IF failure = "none" /\ Verdict = "failed"
                          THEN "verifier_failed" ELSE failure
      BY <1>23, <2>3 DEF Finalize
    <3>2. Warranted => Verdict # "failed"
      BY DEF Warranted, Verdict
    <3>. QED  BY <2>1, <3>1, <3>2 DEF DueInv, Warranted
  <2>. QED  BY <2>2, <2>3
<1>24. CASE UNCHANGED vars
  BY <1>24, DueKept DEF vars, DueInv
<1>. QED
  BY <1>1, <1>2, <1>3, <1>4, <1>5, <1>6, <1>7, <1>8, <1>9, <1>10, <1>11, <1>12, <1>13, <1>14,
     <1>15, <1>16, <1>17, <1>18, <1>19, <1>20, <1>21, <1>22, <1>23, <1>24
     DEF Next, HeadStep, GateStep, CallStep, CloseStep

LEMMA CompletionInvariant == Spec => []CompletionInv
<1>. QED
  BY TypeCorrect, BudgetInvariant, AccountedInit, AccountedStep, DueInit, DueStep, PTL
     DEF Spec, CompletionInv

\* Completion is declared exactly with a success as the stop reason, and never
\* against the contract: a configured verifier passed on the content the run
\* ends with, whoever changed it, and on every path a write_file or patch_file
\* call of the run wrote.
THEOREM CompletionJustifiedHolds == Spec => []CompletionJustified
<1>1. CompletionInv => CompletionJustified
  BY DEF CompletionInv, AccountedInv, DueInv, CompletionJustified, Warranted, InFlight
<1>. QED  BY <1>1, CompletionInvariant, PTL

----------------------------------------------------------------------------
(***************************************************************************)
(* The report.  From the end of the loop on, a task that is not complete   *)
(* has a failure category, and a limit is the stop reason only if it was   *)
(* reached; the last verdict decides whether the limit stays.              *)
(***************************************************************************)
ReportInv ==
  /\ pc \in {"finalize", "done"} =>
       /\ taskPhase # "COMPLETE" => failure # "none"
       /\ stop = "step_limit_reached" => toolSteps >= MaxSteps
       /\ stop = "retry_limit_reached" => attempts >= MaxAttempts
  /\ pc = "done" /\ stop \in Limits => Verdict # "passed"

LEMMA ReportInit == Init => ReportInv
BY DEF Init, ReportInv

\* A step that does not end the loop.
LEMMA ReportOpen ==
  ASSUME pc' \notin {"finalize", "done"}
  PROVE  ReportInv'
BY DEF ReportInv

LEMMA ReportStep ==
  TypeInv /\ BudgetInv /\ DueInv /\ ReportInv /\ [Next]_vars => ReportInv'
<1>. SUFFICES ASSUME TypeInv, BudgetInv, DueInv, ReportInv, [Next]_vars
              PROVE  ReportInv'
  OBVIOUS
<1>. USE DEF loopVars, batchVars, toolVars, effectVars
<1>1. CASE StopAtLimit
  <2>1. toolSteps >= MaxSteps \/ attempts >= MaxAttempts
    BY <1>1, LimitsAssumption DEF StopAtLimit, InLimits, TypeInv, TypeOK
  <2>. QED  BY <1>1, <2>1 DEF StopAtLimit, ReportInv
<1>2. CASE StopOverBudget \/ ProviderFails \/ ResponseOverruns \/ GateFails
  BY <1>2 DEF StopOverBudget, ProviderFails, ResponseOverruns, GateFails, ReportInv
<1>3. CASE GatePasses
  BY <1>3 DEF GatePasses, ReportInv
<1>4. CASE ReceiveFinal \/ ReceiveUnusable \/ ReceiveCalls \/ GateAsksRepair
  BY <1>4, ReportOpen DEF ReceiveFinal, ReceiveUnusable, ReceiveCalls, AskModel, GateAsksRepair
<1>5. CASE CallStep
  BY <1>5, ReportOpen
     DEF CallStep, RejectId, AcceptId, BlockRepetition, PrepareTool, ReuseResult, RunTool,
         ToolRaises, CommitTool, VerifiedAfterTool, NextCall, BatchExecuted
<1>6. CASE CloseBatch
  <2>1. CASE stop = "verified_after_tool"
    BY <1>6, <2>1 DEF CloseBatch, DueInv, Successes, ReportInv
  <2>2. CASE stop # "verified_after_tool"
    <3>1. pc' = "loop"
      BY <1>6, <2>2 DEF CloseBatch, BudgetInv
    <3>. QED  BY <3>1, ReportOpen
  <2>. QED  BY <2>1, <2>2
<1>7. CASE Finalize
  <2>1. UNCHANGED <<setup, affected, ws, toolSteps, attempts>> /\ pc' = "done" /\ Verdict' = Verdict
    BY <1>7 DEF Finalize, Verdict
  <2>2. CASE VerifiedAtLimit
    BY <1>7, <2>1, <2>2 DEF Finalize, ReportInv, Limits
  <2>3. CASE ~VerifiedAtLimit
    BY <1>7, <2>1, <2>3 DEF Finalize, VerifiedAtLimit, ReportInv
  <2>. QED  BY <2>2, <2>3
<1>8. CASE UNCHANGED vars
  <2>1. Verdict' = Verdict
    BY <1>8 DEF vars, Verdict
  <2>. QED  BY <1>8, <2>1 DEF vars, ReportInv
<1>. QED
  BY <1>1, <1>2, <1>3, <1>4, <1>5, <1>6, <1>7, <1>8
     DEF Next, HeadStep, GateStep, CloseStep

\* What a finished run reports is true: a failure category exactly when the
\* task is not complete, a limit only when it was reached, and never a limit
\* over a passing verifier (runtime.py:287-296).
THEOREM ReportTruthfulHolds == Spec => []ReportTruthful
<1>1. DueInv /\ ReportInv => ReportTruthful
  BY DEF DueInv, ReportInv, ReportTruthful
<1>2. CompletionInv => DueInv
  BY DEF CompletionInv
<1>. QED
  BY <1>1, <1>2, ReportInit, ReportStep, TypeCorrect, BudgetInvariant, CompletionInvariant, PTL DEF Spec

----------------------------------------------------------------------------
(***************************************************************************)
(* The answers to a batch.  While the batch is open its first calls have   *)
(* been answered, in order; closing it answers the truncated calls and     *)
(* then those a passing verifier left unexecuted.  So the answers are a    *)
(* permutation of the calls, and each id has as many of one as the other.  *)
(***************************************************************************)

\* How many calls of an open batch are answered.
Given ==
  IF pc = "committed" \/ (pc = "close" /\ stop = "verified_after_tool") THEN idx ELSE idx - 1

AnsweredSoFar ==
  /\ Len(replies) = Given
  /\ \A i \in 1..Given : replies[i] = ToolReply(batch[i].id)

ReplyInv ==
  /\ pc \in InBatch => AnsweredSoFar
  /\ pc = "close" => idx <= nexec + 1 /\ (idx <= nexec <=> stop = "verified_after_tool")
  /\ BatchAnswered

\* The answer to the call in hand follows those to the calls before it.
LEMMA AnswerAppended ==
  ASSUME TypeInv, idx <= nexec, Len(replies) = idx - 1,
         \A i \in 1..(idx - 1) : replies[i] = ToolReply(batch[i].id),
         replies' = Append(replies, ToolReply(Current.id)), batch' = batch
  PROVE  Len(replies') = idx /\ \A i \in 1..idx : replies'[i] = ToolReply(batch'[i].id)
<1>1. idx \in 1..Len(batch) /\ replies \in Seq(Message)
  BY DEF TypeInv, TypeOK
<1>2. ToolReply(Current.id) \in Message
  BY <1>1, ElementOfSeq, CallFields, IdsAreNumbers DEF TypeInv, TypeOK, Current
<1>. QED  BY <1>1, <1>2, AppendProperties DEF Current

\* The call that the answer at position i of a closed batch is for.
Place(i) ==
  IF i <= Given THEN i
  ELSE IF i <= Given + Len(batch) - nexec THEN i - Given + nexec
  ELSE i - Len(batch) + nexec

\* Closing a batch answers the calls that were not, and appends the feedback.
LEMMA ClosedReplies ==
  ASSUME TypeInv, ReplyInv, pc = "close"
  PROVE  LET all == replies \o Closing
         IN  /\ all \in Seq(Message) /\ Len(all) = Len(batch) + deferred
             /\ \A i \in 1..Len(batch) : /\ Place(i) \in 1..Len(batch)
                                         /\ all[i] = ToolReply(batch[Place(i)].id)
             /\ \A i \in 1..Len(all) : i > Len(batch) => all[i] = UserMessage
<1> DEFINE L == Len(batch)
           cut == RepliesTo(Truncated)
           rest == RepliesTo(Unexecuted)
<1>1. /\ batch \in Seq(Call) /\ L \in Nat /\ nexec \in 0..L /\ idx \in Nat \ {0}
      /\ replies \in Seq(Message) /\ deferred \in Nat
  BY DEF TypeInv, TypeOK
<1>2. /\ Given \in 0..nexec /\ idx <= nexec + 1
      /\ IF stop = "verified_after_tool" THEN Given = idx ELSE Given = nexec
      /\ Len(replies) = Given /\ \A i \in 1..Given : replies[i] = ToolReply(batch[i].id)
  BY <1>1 DEF ReplyInv, AnsweredSoFar, Given, InBatch
<1>3. \A i \in 1..L : batch[i] \in Call
  BY <1>1, ElementOfSeq
<1>4. /\ Truncated \in Seq(Call) /\ Len(Truncated) = L - nexec
      /\ \A i \in 1..(L - nexec) : Truncated[i] = batch[nexec + i]
  <2>1. /\ SubSeq(batch, nexec + 1, L) \in Seq(Call)
        /\ Len(SubSeq(batch, nexec + 1, L))
             = IF nexec + 1 <= L THEN L - (nexec + 1) + 1 ELSE 0
        /\ \A i \in 1..(L - (nexec + 1) + 1) :
             SubSeq(batch, nexec + 1, L)[i] = batch[nexec + 1 + i - 1]
    BY <1>1, <1>3, SubSeqProperties
  <2>. QED  BY <1>1, <2>1 DEF Truncated
<1>5. /\ Unexecuted \in Seq(Call) /\ Len(Unexecuted) = nexec - Given
      /\ \A i \in 1..(nexec - Given) : Unexecuted[i] = batch[Given + i]
  <2>1. CASE stop = "verified_after_tool"
    <3>1. /\ SubSeq(batch, idx + 1, nexec) \in Seq(Call)
          /\ Len(SubSeq(batch, idx + 1, nexec))
               = IF idx + 1 <= nexec THEN nexec - (idx + 1) + 1 ELSE 0
          /\ \A i \in 1..(nexec - (idx + 1) + 1) :
               SubSeq(batch, idx + 1, nexec)[i] = batch[idx + 1 + i - 1]
      BY <1>1, <1>3, SubSeqProperties
    <3>2. Unexecuted = SubSeq(batch, idx + 1, nexec) /\ Given = idx
      BY <1>2, <2>1 DEF Unexecuted
    <3>3. Len(Unexecuted) = nexec - Given
      BY <1>1, <1>2, <3>1, <3>2
    <3>4. ASSUME NEW i \in 1..(nexec - Given)
          PROVE  Unexecuted[i] = batch[Given + i]
      <4>1. i \in 1..(nexec - (idx + 1) + 1) /\ idx + 1 + i - 1 = Given + i
        BY <1>1, <1>2, <3>2
      <4>. QED  BY <3>1, <3>2, <4>1
    <3>. QED  BY <3>1, <3>2, <3>3, <3>4
  <2>2. CASE stop # "verified_after_tool"
    <3>1. Unexecuted = <<>> /\ Given = nexec
      BY <1>2, <2>2 DEF Unexecuted
    <3>2. Unexecuted \in Seq(Call) /\ Len(Unexecuted) = 0
      BY <3>1
    <3>. QED  BY <1>1, <3>1, <3>2
  <2>. QED  BY <2>1, <2>2
<1>6. ASSUME NEW s \in Seq(Call)
      PROVE  /\ RepliesTo(s) \in Seq(Message) /\ Len(RepliesTo(s)) = Len(s)
             /\ \A i \in 1..Len(s) : RepliesTo(s)[i] = ToolReply(s[i].id)
  <2>1. \A i \in 1..Len(s) : s[i].id \in Ids
    BY <1>6, ElementOfSeq, CallFields
  <2>. QED  BY <2>1, IdsAreNumbers DEF RepliesTo
<1>7. /\ cut \in Seq(Message) /\ Len(cut) = L - nexec
      /\ \A i \in 1..(L - nexec) : cut[i] = ToolReply(batch[nexec + i].id)
  BY <1>1, <1>4, <1>6
<1>8. /\ rest \in Seq(Message) /\ Len(rest) = nexec - Given
      /\ \A i \in 1..(nexec - Given) : rest[i] = ToolReply(batch[Given + i].id)
  <2>1. /\ rest \in Seq(Message) /\ Len(rest) = Len(Unexecuted)
        /\ \A i \in 1..Len(Unexecuted) : rest[i] = ToolReply(Unexecuted[i].id)
    BY <1>5, <1>6
  <2>. QED  BY <1>5, <2>1
<1>9. /\ Feedback \in Seq(Message) /\ Len(Feedback) = deferred
      /\ \A i \in 1..deferred : Feedback[i] = UserMessage
  BY <1>1, IdsAreNumbers DEF Feedback
<1>10. Closing = (cut \o rest) \o Feedback
  BY DEF Closing
<1> HIDE DEF cut, rest, L
<1>11. /\ cut \o rest \in Seq(Message) /\ Len(cut \o rest) = L - Given
       /\ \A i \in 1..(L - Given) : (cut \o rest)[i] =
            IF i <= L - nexec THEN ToolReply(batch[nexec + i].id)
            ELSE ToolReply(batch[Given + i - (L - nexec)].id)
  <2>1. /\ cut \o rest \in Seq(Message) /\ Len(cut \o rest) = Len(cut) + Len(rest)
        /\ \A i \in 1..(Len(cut) + Len(rest)) :
             (cut \o rest)[i] = IF i <= Len(cut) THEN cut[i] ELSE rest[i - Len(cut)]
    BY <1>7, <1>8, ConcatProperties
  <2>. QED  BY <1>1, <1>2, <1>7, <1>8, <2>1
<1>12. /\ Closing \in Seq(Message) /\ Len(Closing) = L - Given + deferred
       /\ \A i \in 1..(L - Given + deferred) : Closing[i] =
            IF i <= L - Given THEN (cut \o rest)[i] ELSE UserMessage
  <2> DEFINE c == cut \o rest
  <2>1. c \in Seq(Message) /\ Len(c) = L - Given
    BY <1>11
  <2> HIDE DEF c
  <2>2. /\ c \o Feedback \in Seq(Message) /\ Len(c \o Feedback) = Len(c) + Len(Feedback)
        /\ \A i \in 1..(Len(c) + Len(Feedback)) :
             (c \o Feedback)[i] = IF i <= Len(c) THEN c[i] ELSE Feedback[i - Len(c)]
    BY <1>9, <2>1, ConcatProperties
  <2>3. Closing = c \o Feedback
    BY <1>10 DEF c
  <2>4. \A i \in 1..(L - Given + deferred) : Closing[i] =
          IF i <= L - Given THEN c[i] ELSE UserMessage
    BY <1>1, <1>2, <1>9, <2>1, <2>2, <2>3
  <2>5. Closing \in Seq(Message) /\ Len(Closing) = L - Given + deferred
    BY <1>9, <2>1, <2>2, <2>3
  <2>. QED  BY <2>4, <2>5 DEF c
<1> DEFINE all == replies \o Closing
<1>13. /\ all \in Seq(Message) /\ Len(all) = L + deferred
       /\ \A i \in 1..(L + deferred) : all[i] =
            IF i <= Given THEN replies[i] ELSE Closing[i - Given]
  <2>1. /\ replies \o Closing \in Seq(Message)
        /\ Len(replies \o Closing) = Len(replies) + Len(Closing)
        /\ \A i \in 1..(Len(replies) + Len(Closing)) :
             (replies \o Closing)[i] = IF i <= Len(replies) THEN replies[i]
                                       ELSE Closing[i - Len(replies)]
    BY <1>1, <1>12, ConcatProperties
  <2>. QED  BY <1>1, <1>2, <1>12, <2>1
<1> HIDE DEF all
<1>14. ASSUME NEW i \in 1..L
       PROVE  Place(i) \in 1..L /\ all[i] = ToolReply(batch[Place(i)].id)
  <2>1. CASE i <= Given
    BY <1>1, <1>2, <1>13, <2>1 DEF Place, L
  <2>2. CASE i > Given
    <3>a. /\ i \in 1..(L + deferred) /\ ~(i <= Given)
          /\ i - Given \in 1..(L - Given + deferred) /\ i - Given \in 1..(L - Given)
          /\ i - Given <= L - Given
      BY <1>1, <1>2, <2>2
    <3>1. /\ i - Given \in 1..(L - Given)
          /\ all[i] = (cut \o rest)[i - Given]
      BY <1>12, <1>13, <3>a
    <3>2. CASE i - Given <= L - nexec
      <4>1. Place(i) = nexec + (i - Given) /\ Place(i) \in 1..L
        BY <1>1, <1>2, <2>2, <3>2 DEF Place, L
      <4>. QED  BY <1>11, <3>1, <3>2, <4>1
    <3>3. CASE i - Given > L - nexec
      <4>1. Place(i) = Given + (i - Given) - (L - nexec) /\ Place(i) \in 1..L
        BY <1>1, <1>2, <2>2, <3>3 DEF Place, L
      <4>2. ~(i - Given <= L - nexec)
        BY <1>1, <1>2, <3>3
      <4>. QED  BY <1>11, <3>1, <4>1, <4>2
    <3>. QED  BY <1>1, <1>2, <3>2, <3>3
  <2>. QED  BY <1>1, <1>2, <2>1, <2>2
<1>15. ASSUME NEW i \in 1..Len(all), i > L
       PROVE  all[i] = UserMessage
  <2>1. /\ i \in 1..(L + deferred) /\ ~(i <= Given)
        /\ i - Given \in 1..(L - Given + deferred) /\ ~(i - Given <= L - Given)
    BY <1>1, <1>2, <1>13, <1>15
  <2>. QED  BY <1>12, <1>13, <2>1
<1>. QED  BY <1>13, <1>14, <1>15 DEF all, L

\* The first g of L calls stay, those after the first m come next, then the rest.
LEMMA PlacesDiffer ==
  ASSUME NEW L \in Nat, NEW m \in 0..L, NEW g \in 0..m, NEW i \in 1..L, NEW j \in 1..L,
         (IF i <= g THEN i ELSE IF i <= g + L - m THEN i - g + m ELSE i - L + m)
           = (IF j <= g THEN j ELSE IF j <= g + L - m THEN j - g + m ELSE j - L + m)
  PROVE  i = j
OBVIOUS

\* Each call of a closed batch has one position, and each position one call.
LEMMA PlaceIsPermutation ==
  ASSUME TypeInv, ReplyInv, pc = "close"
  PROVE  /\ \A i, j \in 1..Len(batch) : Place(i) = Place(j) => i = j
         /\ \A k \in 1..Len(batch) : \E i \in 1..Len(batch) : Place(i) = k
<1> DEFINE L == Len(batch)
<1>1. L \in Nat /\ nexec \in 0..L /\ Given \in 0..nexec
  BY DEF TypeInv, TypeOK, ReplyInv, Given
<1>2. ASSUME NEW i \in 1..L, NEW j \in 1..L, Place(i) = Place(j)
      PROVE  i = j
  BY <1>1, <1>2, PlacesDiffer DEF Place
<1>3. ASSUME NEW k \in 1..L
      PROVE  \E i \in 1..L : Place(i) = k
  <2>1. CASE k <= Given
    <3>1. k \in 1..L /\ Place(k) = k
      BY <1>1, <2>1 DEF Place
    <3>. QED  BY <3>1
  <2>2. CASE k > nexec
    <3>1. k - nexec + Given \in 1..L /\ Place(k - nexec + Given) = k
      BY <1>1, <2>2 DEF Place
    <3>. QED  BY <3>1
  <2>3. CASE Given < k /\ k <= nexec
    <3>1. k + L - nexec \in 1..L /\ Place(k + L - nexec) = k
      BY <1>1, <2>3 DEF Place
    <3>. QED  BY <3>1
  <2>. QED  BY <1>1, <2>1, <2>2, <2>3
<1>. QED  BY <1>2, <1>3

\* The fields of an answer.
LEMMA ReplyFields == \A id : ToolReply(id).role = "tool" /\ ToolReply(id).id = id
BY DEF ToolReply

\* A closed batch is answered.
LEMMA CloseAnswers ==
  ASSUME TypeInv, ReplyInv, CloseBatch
  PROVE  /\ AnswersIn(replies') = 1..Len(batch')
         /\ \A c \in Call :
              Cardinality({i \in DOMAIN batch' : batch'[i].id = c.id})
                = Cardinality({i \in AnswersIn(replies') : replies'[i].id = c.id})
<1>1. pc = "close" /\ batch' = batch /\ replies' = replies \o Closing
  BY DEF CloseBatch
<1>2. /\ batch \in Seq(Call) /\ Len(batch) \in Nat /\ DOMAIN batch = 1..Len(batch)
      /\ deferred \in Nat
  BY DEF TypeInv, TypeOK
<1>3. /\ replies' \in Seq(Message) /\ Len(replies') = Len(batch) + deferred
      /\ \A i \in 1..Len(batch) : /\ Place(i) \in 1..Len(batch)
                                  /\ replies'[i] = ToolReply(batch[Place(i)].id)
      /\ \A i \in 1..Len(replies') : i > Len(batch) => replies'[i] = UserMessage
  BY <1>1, ClosedReplies
<1>4. DOMAIN replies' = 1..(Len(batch) + deferred)
  BY <1>3
<1>5. AnswersIn(replies') = 1..Len(batch)
  <2>1. ASSUME NEW i \in DOMAIN replies'
        PROVE  replies'[i].role = "tool" <=> i \in 1..Len(batch)
    <3>1. CASE i \in 1..Len(batch)
      BY <1>3, <3>1, ReplyFields
    <3>2. CASE i \notin 1..Len(batch)
      <4>1. i \in 1..Len(replies') /\ i > Len(batch)
        BY <1>2, <1>3, <1>4, <3>2
      <4>. QED  BY <1>3, <3>2, <4>1 DEF UserMessage
    <3>. QED  BY <3>1, <3>2
  <2>2. 1..Len(batch) \subseteq DOMAIN replies'
    BY <1>2, <1>4
  <2>. QED  BY <2>1, <2>2 DEF AnswersIn
<1>6. ASSUME NEW c \in Call
      PROVE  Cardinality({i \in 1..Len(batch) : batch[i].id = c.id})
               = Cardinality({i \in 1..Len(batch) : replies'[i].id = c.id})
  <2> DEFINE A == {i \in 1..Len(batch) : replies'[i].id = c.id}
             B == {i \in 1..Len(batch) : batch[i].id = c.id}
             f == [i \in A |-> Place(i)]
  <2>1. \A i \in 1..Len(batch) : replies'[i].id = batch[Place(i)].id
    BY <1>3, ReplyFields
  <2>2. f \in [A -> B]
    <3>1. \A i \in A : Place(i) \in B
      BY <1>3, <2>1
    <3>. QED  BY <3>1
  <2>3. \A i, j \in A : f[i] = f[j] => i = j
    BY <1>1, PlaceIsPermutation
  <2>4. \A k \in B : \E i \in A : f[i] = k
    <3>1. SUFFICES ASSUME NEW k \in B PROVE \E i \in A : f[i] = k
      OBVIOUS
    <3>2. PICK i \in 1..Len(batch) : Place(i) = k
      BY <1>1, PlaceIsPermutation
    <3>. QED  BY <2>1, <3>2
  <2>5. IsFiniteSet(A)
    <3>1. IsFiniteSet(1..Len(batch))
      BY <1>2, FS_Interval
    <3>. QED  BY <3>1, FS_Subset
  <2> HIDE DEF A, B, f
  <2>6. ExistsBijection(A, B)
    BY <2>2, <2>3, <2>4
       DEF ExistsBijection, Bijection, Injection, Surjection, IsInjective
  <2>7. Cardinality(B) = Cardinality(A)
    BY <2>5, <2>6, FS_Bijection
  <2>. QED  BY <2>7 DEF A, B
<1>. QED  BY <1>1, <1>2, <1>5, <1>6

LEMMA ReplyInit == Init => ReplyInv
<1>. SUFFICES ASSUME Init PROVE ReplyInv
  OBVIOUS
<1>1. DOMAIN batch = {} /\ Len(batch) = 0 /\ AnswersIn(replies) = {}
  BY DEF Init, AnswersIn
<1>2. 1..Len(batch) = {}
  BY <1>1
<1>3. BatchAnswered
  BY <1>1, <1>2 DEF BatchAnswered
<1>. QED  BY <1>3 DEF Init, ReplyInv, InBatch

\* A step between batches that leaves the conversation alone.
LEMMA RepliesKept ==
  ASSUME ReplyInv, UNCHANGED <<batch, replies>>,
         pc \in {"loop", "gate", "finalize", "done"}, pc' \in {"loop", "gate", "finalize", "done"}
  PROVE  ReplyInv'
BY DEF ReplyInv, BatchAnswered, AnswersIn, InBatch

\* A step within a batch that answers nothing.
LEMMA AnswersKept ==
  ASSUME ReplyInv, UNCHANGED <<batch, replies>>, Given' = Given,
         pc \in InBatch, pc' \in InBatch \ {"close"}
  PROVE  ReplyInv'
BY DEF ReplyInv, AnsweredSoFar, BatchAnswered, InBatch

LEMMA ReplyStep == TypeInv /\ BudgetInv /\ ReplyInv /\ [Next]_vars => ReplyInv'
<1>. SUFFICES ASSUME TypeInv, BudgetInv, ReplyInv, [Next]_vars PROVE ReplyInv'
  OBVIOUS
<1>. USE DEF loopVars, batchVars, toolVars, effectVars
<1>1. CASE StopAtLimit \/ StopOverBudget \/ ProviderFails \/ ResponseOverruns \/ ReceiveFinal
           \/ ReceiveUnusable \/ GatePasses \/ GateFails \/ Finalize
  BY <1>1, RepliesKept
     DEF StopAtLimit, StopOverBudget, ProviderFails, ResponseOverruns, ReceiveFinal,
         ReceiveUnusable, AskModel, GatePasses, GateFails, Finalize
<1>2. CASE ReceiveCalls
  BY <1>2 DEF ReceiveCalls, ReplyInv, AnsweredSoFar, Given, BatchAnswered
<1>3. CASE GateAsksRepair
  <2>1. /\ replies \in Seq(Message) /\ replies' = Append(replies, UserMessage)
        /\ batch' = batch /\ pc = "gate" /\ pc' = "loop"
    BY <1>3 DEF GateAsksRepair, TypeInv, TypeOK
  <2>2. /\ Len(replies') = Len(replies) + 1
        /\ \A i \in 1..Len(replies) : replies'[i] = replies[i]
        /\ replies'[Len(replies) + 1] = UserMessage
        /\ replies' \in Seq(Message)
    BY <2>1, IdsAreNumbers, AppendProperties
  <2>3. UserMessage.role # "tool"
    BY DEF UserMessage
  <2>4. AnswersIn(replies') = AnswersIn(replies)
    BY <2>1, <2>2, <2>3 DEF AnswersIn
  <2>5. \A i \in AnswersIn(replies) : replies'[i] = replies[i]
    BY <2>1, <2>2 DEF AnswersIn
  <2>6. ASSUME NEW c \in Call
        PROVE  {i \in AnswersIn(replies') : replies'[i].id = c.id}
                 = {i \in AnswersIn(replies) : replies[i].id = c.id}
    BY <2>4, <2>5
  <2>7. BatchAnswered'
    BY <2>1, <2>4, <2>6 DEF ReplyInv, BatchAnswered
  <2>. QED  BY <2>1, <2>7 DEF ReplyInv, InBatch
<1>4. CASE RejectId \/ BlockRepetition \/ CommitTool
  <2>1. /\ idx <= nexec /\ pc \in {"dispatch", "pending", "commit"}
        /\ batch' = batch /\ replies' = Append(replies, ToolReply(Current.id))
        /\ \/ pc' = "dispatch" /\ idx' = idx + 1
           \/ pc' = "committed" /\ idx' = idx
    BY <1>4 DEF RejectId, BlockRepetition, CommitTool, TypeInv, CallInHand, InHand
  <2>2. Len(replies) = idx - 1 /\ \A i \in 1..(idx - 1) : replies[i] = ToolReply(batch[i].id)
    BY <2>1 DEF ReplyInv, AnsweredSoFar, Given, InBatch
  <2>3. Len(replies') = idx /\ \A i \in 1..idx : replies'[i] = ToolReply(batch'[i].id)
    BY <2>1, <2>2, AnswerAppended
  <2>4. Given' = idx
    BY <2>1 DEF Given, TypeInv, TypeOK
  <2>. QED  BY <2>1, <2>3, <2>4 DEF ReplyInv, AnsweredSoFar, BatchAnswered
<1>5. CASE AcceptId \/ PrepareTool \/ ReuseResult \/ RunTool \/ ToolRaises
  BY <1>5, AnswersKept
     DEF AcceptId, PrepareTool, ReuseResult, RunTool, ToolRaises, Given, InBatch
<1>6. CASE VerifiedAfterTool
  <2>1. /\ pc = "committed" /\ pc' = "close" /\ stop' = "verified_after_tool"
        /\ UNCHANGED <<batch, replies, idx, nexec>>
    BY <1>6 DEF VerifiedAfterTool
  <2>2. AnsweredSoFar'
    BY <2>1 DEF ReplyInv, AnsweredSoFar, Given, InBatch
  <2>3. idx' \in Nat /\ nexec' \in Nat /\ idx' <= nexec'
    BY <2>1 DEF TypeInv, TypeOK, CallInHand, InHand
  <2>4. BatchAnswered'
    BY <2>1 DEF BatchAnswered
  <2>. QED  BY <2>1, <2>2, <2>3, <2>4 DEF ReplyInv
<1>7. CASE NextCall
  BY <1>7, AnswersKept DEF NextCall, BudgetInv, Given, InBatch, TypeInv, TypeOK
<1>8. CASE BatchExecuted
  <2>1. /\ pc = "dispatch" /\ pc' = "close" /\ ~(idx <= nexec)
        /\ UNCHANGED <<batch, replies, idx, nexec, stop>>
    BY <1>8 DEF BatchExecuted, TypeInv, TypeOK
  <2>2. stop = "retry_limit_reached" /\ nexec - idx + 1 >= 0
    BY <2>1 DEF BudgetInv, Reserved
  <2>3. AnsweredSoFar'
    BY <2>1, <2>2 DEF ReplyInv, AnsweredSoFar, Given, InBatch
  <2>4. idx' \in Int /\ nexec' \in Int /\ idx' <= nexec' + 1 /\ ~(idx' <= nexec')
    BY <2>1, <2>2 DEF TypeInv, TypeOK
  <2>5. BatchAnswered'
    BY <2>1 DEF BatchAnswered
  <2>. QED  BY <2>1, <2>2, <2>3, <2>4, <2>5 DEF ReplyInv
<1>9. CASE CloseBatch
  <2>1. pc' \in {"finalize", "loop"}
    BY <1>9 DEF CloseBatch
  <2>2. BatchAnswered'
    BY <1>9, CloseAnswers DEF BatchAnswered
  <2>. QED  BY <2>1, <2>2 DEF ReplyInv, InBatch
<1>10. CASE UNCHANGED vars
  BY <1>10 DEF vars, ReplyInv, AnsweredSoFar, Given, BatchAnswered, AnswersIn
<1>. QED
  BY <1>1, <1>2, <1>3, <1>4, <1>5, <1>6, <1>7, <1>8, <1>9, <1>10
     DEF Next, HeadStep, GateStep, CallStep, CloseStep

\* Whatever mix of rejected, blocked, executed, truncated and unexecuted calls
\* a batch had, the model is called again only with exactly one answer to each
\* of them, before any feedback (runtime.py:274-284).
THEOREM BatchAnsweredHolds == Spec => []BatchAnswered
<1>1. ReplyInv => BatchAnswered
  BY DEF ReplyInv
<1>. QED  BY <1>1, ReplyInit, ReplyStep, TypeCorrect, BudgetInvariant, PTL DEF Spec

----------------------------------------------------------------------------
(***************************************************************************)
(* The loop implements TaskCompletion.                                     *)
(***************************************************************************)
LEMMA TaskInit == Init => Task!Init
BY MadeInit DEF Init, Task!Init, Demand, OutcomeOfTask

LEMMA TaskStep ==
  TypeInv /\ BudgetInv /\ CompletionInv /\ CompletionInv' /\ [Next]_vars
    => [Task!Next]_(Task!tcVars)
<1>. SUFFICES ASSUME TypeInv, BudgetInv, CompletionInv, CompletionInv', [Next]_vars
              PROVE  [Task!Next]_(Task!tcVars)
  OBVIOUS
<1>. USE DEF loopVars, batchVars, toolVars, effectVars
<1>1. Demand' = Demand
  BY DEF Next, HeadStep, GateStep, CallStep, CloseStep, vars, Demand,
         StopAtLimit, StopOverBudget, ProviderFails, ResponseOverruns, ReceiveFinal,
         ReceiveUnusable, ReceiveCalls, GatePasses, GateAsksRepair, GateFails, RejectId,
         AcceptId, BlockRepetition, PrepareTool, ReuseResult, RunTool, ToolRaises, CommitTool,
         VerifiedAfterTool, NextCall, BatchExecuted, CloseBatch, Finalize
<1>2. CASE RunTool
  <2>1. Current.tool \in Tools
    BY <1>2, CurrentIsCall DEF RunTool, InHand
  <2>2. taskPhase' = taskPhase /\ taskPhase # "COMPLETE" /\ pc # "done" /\ pc' # "done"
    BY <1>2 DEF RunTool, CompletionInv, DueInv
  <2>3. OutcomeOfTask = "open" /\ OutcomeOfTask' = "open"
    BY <2>2 DEF OutcomeOfTask
  <2>4. Made' = Made \cup ({Current.tool} \cap Writes)
    BY <1>2, <2>1, ToolsAssumption DEF RunTool, Made, TypeInv, TypeOK
  <2>7. ws' \in Contents
    BY <1>2, <2>1, LeadsToContents DEF RunTool, TypeInv, TypeOK
  <2>5. CASE Current.tool \in Writes
    <3>1. Made' = Made \cup {Current.tool}
      BY <2>4, <2>5
    <3>2. Task!Work(Current.tool)
      BY <1>1, <2>3, <2>7, <3>1 DEF Task!Work
    <3>. QED  BY <2>5, <3>2 DEF Task!Next
  <2>6. CASE Current.tool \notin Writes
    <3>1. Task!Command
      BY <1>1, <2>3, <2>4, <2>6, <2>7 DEF Task!Command
    <3>. QED  BY <3>1 DEF Task!Next
  <2>. QED  BY <2>5, <2>6
<1>3. CASE ~RunTool
  <2>1. ws' = ws /\ Made' = Made
    BY <1>3 DEF Next, HeadStep, GateStep, CallStep, CloseStep, vars, Made,
         StopAtLimit, StopOverBudget, ProviderFails, ResponseOverruns, ReceiveFinal,
         ReceiveUnusable, ReceiveCalls, GatePasses, GateAsksRepair, GateFails, RejectId,
         AcceptId, BlockRepetition, PrepareTool, ReuseResult, ToolRaises, CommitTool,
         VerifiedAfterTool, NextCall, BatchExecuted, CloseBatch, Finalize
  <2>2. \/ OutcomeOfTask' = OutcomeOfTask
        \/ OutcomeOfTask = "open" /\ OutcomeOfTask' = "failed"
        \/ OutcomeOfTask = "open" /\ OutcomeOfTask' = "complete"
    <3>1. taskPhase = "COMPLETE" => taskPhase' = "COMPLETE"
      BY <1>3 DEF CompletionInv, AccountedInv, DueInv, BudgetInv, Next, HeadStep, GateStep, CallStep, CloseStep, vars,
           StopAtLimit, StopOverBudget, ProviderFails, ResponseOverruns, ReceiveFinal,
           ReceiveUnusable, ReceiveCalls, GatePasses, GateAsksRepair, GateFails, RejectId,
           AcceptId, BlockRepetition, PrepareTool, ReuseResult, ToolRaises, CommitTool,
           VerifiedAfterTool, NextCall, BatchExecuted, CloseBatch, Finalize
    <3>2. pc = "done" => UNCHANGED <<pc, taskPhase>>
      BY <1>3 DEF Next, HeadStep, GateStep, CallStep, CloseStep, vars, AskModel,
           StopAtLimit, StopOverBudget, ProviderFails, ResponseOverruns, ReceiveFinal,
           ReceiveUnusable, ReceiveCalls, GatePasses, GateAsksRepair, GateFails, RejectId,
           AcceptId, BlockRepetition, PrepareTool, ReuseResult, ToolRaises, CommitTool,
           VerifiedAfterTool, NextCall, BatchExecuted, CloseBatch, Finalize
    <3>. QED  BY <3>1, <3>2 DEF OutcomeOfTask
  <2>3. CASE OutcomeOfTask' = OutcomeOfTask
    BY <1>1, <2>1, <2>3 DEF Task!tcVars
  <2>4. CASE OutcomeOfTask = "open" /\ OutcomeOfTask' = "failed"
    BY <1>1, <2>1, <2>4 DEF Task!Next, Task!Fail
  <2>5. CASE OutcomeOfTask = "open" /\ OutcomeOfTask' = "complete"
    <3>1. taskPhase' = "COMPLETE"
      BY <2>5 DEF OutcomeOfTask
    <3>2. Warranted' /\ Made' = affected'
      BY <3>1 DEF CompletionInv, AccountedInv, DueInv, InFlight
    <3>3. Task!Satisfied'
      BY <3>2 DEF Warranted, Task!Satisfied, Demand
    <3>4. Task!Satisfied
      BY <1>1, <2>1, <3>3 DEF Task!Satisfied
    <3>. QED  BY <1>1, <2>1, <2>5, <3>4 DEF Task!Next, Task!Complete
  <2>. QED  BY <2>2, <2>3, <2>4, <2>5
<1>. QED  BY <1>2, <1>3

\* Every run of the loop is a run of TaskCompletion: it decides once, never
\* against the demand, on the content and the noted writes as they are, and
\* no tool call works on after the decision.
THEOREM RefinesTaskCompletion == Spec => ImplementsTaskCompletion
<1>1. Spec => Task!Init /\ [][Task!Next]_(Task!tcVars)
  BY TaskInit, TaskStep, TypeCorrect, BudgetInvariant, CompletionInvariant, PTL DEF Spec
<1>. QED  BY <1>1, PTL DEF ImplementsTaskCompletion, Task!Spec
----------------------------------------------------------------------------
(***************************************************************************)
(* The length of an ask.  An attempt is worth more steps than the longest  *)
(* batch takes, and a call of a batch at most five.                        *)
(***************************************************************************)
AttemptSteps == 5 * MaxBatch + 5
CallsLeft == nexec - idx + 1
StepsInAttempt ==
  IF pc = "done" THEN 0
  ELSE IF pc = "finalize" THEN 1
  ELSE IF pc = "loop" THEN 2
  ELSE IF pc \in {"gate", "close"} THEN 3
  ELSE 5 * CallsLeft
         + (IF pc = "dispatch" THEN 4 ELSE IF pc = "pending" THEN 3
            ELSE IF pc = "running" THEN 2 ELSE IF pc = "commit" THEN 1 ELSE 0)
StepsLeft == AttemptSteps * (MaxAttempts - attempts) + StepsInAttempt

LengthInv ==
  /\ attempts <= MaxAttempts
  /\ nexec <= MaxBatch
  /\ pc = "dispatch" => idx <= nexec + 1

LEMMA LengthInit == Init => LengthInv
BY LimitsAssumption DEF Init, LengthInv

LEMMA LengthStep == TypeInv /\ LengthInv /\ [Next]_vars => LengthInv'
<1>. SUFFICES ASSUME TypeInv, LengthInv, [Next]_vars PROVE LengthInv'
  OBVIOUS
<1>. USE LimitsAssumption
     DEF TypeInv, TypeOK, CallInHand, InHand, LengthInv, loopVars, batchVars, toolVars, effectVars
<1>1. CASE HeadStep
  <2>1. CASE ReceiveCalls
    <3>1. PICK n \in 1..MaxBatch : nexec' = Executable(n)
      BY <2>1 DEF ReceiveCalls
    <3>2. n \in Nat /\ nexec' \in 0..n
      BY <3>1, ExecutableBounds
    <3>. QED  BY <2>1, <3>1, <3>2 DEF ReceiveCalls, AskModel, InLimits
  <2>2. CASE ~ReceiveCalls
    BY <1>1, <2>2
       DEF HeadStep, StopAtLimit, StopOverBudget, ProviderFails, ResponseOverruns, ReceiveFinal,
           ReceiveUnusable, AskModel, InLimits
  <2>. QED  BY <2>1, <2>2
<1>2. CASE GateStep
  BY <1>2 DEF GateStep, GatePasses, GateAsksRepair, GateFails
<1>3. CASE RejectId \/ AcceptId \/ BlockRepetition \/ PrepareTool
  <2>1. /\ UNCHANGED <<attempts, nexec>>
        /\ idx' \in {idx, idx + 1} /\ idx <= nexec
    BY <1>3 DEF RejectId, AcceptId, BlockRepetition, PrepareTool
  <2>. QED  BY <2>1
<1>4. CASE ReuseResult \/ RunTool \/ ToolRaises \/ CommitTool
  BY <1>4 DEF ReuseResult, RunTool, ToolRaises, CommitTool
<1>5. CASE VerifiedAfterTool \/ NextCall \/ BatchExecuted
  BY <1>5 DEF VerifiedAfterTool, NextCall, BatchExecuted
<1>6. CASE CloseStep
  BY <1>6 DEF CloseStep, CloseBatch, Finalize
<1>7. CASE UNCHANGED vars
  BY <1>7 DEF vars
<1>. QED  BY <1>1, <1>2, <1>3, <1>4, <1>5, <1>6, <1>7 DEF Next, CallStep

LEMMA LengthInvariant == Spec => []LengthInv
BY TypeCorrect, LengthInit, LengthStep, PTL DEF Spec

\* What is left is a number, of an attempt no more than an attempt is worth.
LEMMA StepsLeftBounds ==
  TypeInv /\ LengthInv =>
    /\ StepsInAttempt \in 0..(5 * MaxBatch + 4)
    /\ AttemptSteps * (MaxAttempts - attempts) \in 0..(AttemptSteps * MaxAttempts)
    /\ StepsLeft \in Nat
<1>. SUFFICES ASSUME TypeInv, LengthInv
              PROVE  /\ StepsInAttempt \in 0..(5 * MaxBatch + 4)
                     /\ AttemptSteps * (MaxAttempts - attempts) \in 0..(AttemptSteps * MaxAttempts)
                     /\ StepsLeft \in Nat
  OBVIOUS
<1>. USE LimitsAssumption DEF TypeInv, TypeOK, CallInHand, InHand, LengthInv
<1>1. StepsInAttempt \in 0..(5 * MaxBatch + 4)
  <2>1. CallsLeft \in Int /\ CallsLeft <= MaxBatch
    BY DEF CallsLeft
  <2>2. pc \in InHand => CallsLeft >= 1
    BY DEF CallsLeft
  <2>3. pc = "dispatch" => CallsLeft >= 0
    BY DEF CallsLeft
  <2>4. MaxBatch >= 1 /\ 5 * MaxBatch + 4 \in Nat
    OBVIOUS
  <2>5. CASE pc \in {"done", "finalize", "loop", "gate", "close"}
    BY <2>4, <2>5 DEF StepsInAttempt
  <2>6. CASE pc \in InHand
    BY <2>1, <2>2, <2>4, <2>6 DEF StepsInAttempt
  <2>7. CASE pc = "dispatch"
    BY <2>1, <2>3, <2>4, <2>7 DEF StepsInAttempt
  <2>. QED  BY <2>5, <2>6, <2>7 DEF PCs
<1>2. AttemptSteps \in Nat /\ MaxAttempts - attempts \in Nat
  BY DEF AttemptSteps
<1>3. \A w, k, l \in Nat : k <= l => w * k \in Nat /\ w * k <= w * l
  OBVIOUS
<1>4. AttemptSteps * (MaxAttempts - attempts) \in 0..(AttemptSteps * MaxAttempts)
  <2>1. MaxAttempts - attempts <= MaxAttempts
    OBVIOUS
  <2>. QED  BY <1>2, <1>3, <2>1
<1>. QED  BY <1>1, <1>4 DEF StepsLeft

\* An attempt less is more than its longest batch.
LEMMA AttemptSpent ==
  ASSUME TypeInv, LengthInv, TypeInv', LengthInv', attempts' = attempts + 1,
         StepsInAttempt = 2, StepsInAttempt' <= 5 * MaxBatch + 4
  PROVE  StepsLeft' < StepsLeft
<1>1. /\ AttemptSteps \in Nat /\ MaxAttempts - attempts \in Nat /\ MaxAttempts - attempts' \in Nat
      /\ MaxAttempts - attempts = (MaxAttempts - attempts') + 1
  BY LimitsAssumption DEF AttemptSteps, TypeInv, TypeOK, LengthInv
<1>2. \A w, k \in Nat : w * (k + 1) = w * k + w /\ w * k \in Nat
  OBVIOUS
<1>3. AttemptSteps * (MaxAttempts - attempts) = AttemptSteps * (MaxAttempts - attempts') + AttemptSteps
  BY <1>1, <1>2
<1>4. AttemptSteps * (MaxAttempts - attempts') \in Nat /\ MaxBatch \in Nat
  BY <1>1, <1>2, LimitsAssumption
<1>5. AttemptSteps' = AttemptSteps /\ MaxAttempts' = MaxAttempts
  BY DEF AttemptSteps
<1>6. AttemptSteps = 5 * MaxBatch + 5
  BY DEF AttemptSteps
<1>7. StepsInAttempt' \in Int
  <2>1. (StepsInAttempt \in 0..(5 * MaxBatch + 4))'
    BY StepsLeftBounds, PTL
  <2>. QED  BY <2>1
<1>. HIDE DEF AttemptSteps
<1>. QED  BY <1>1, <1>3, <1>4, <1>5, <1>6, <1>7 DEF StepsLeft

\* Every step of an ask leaves fewer steps to take: each is an attempt more,
\* or a call of its batch further on, or nearer to the end.
LEMMA StepSpent ==
  ASSUME TypeInv, LengthInv, TypeInv', LengthInv', Next
  PROVE  StepsLeft' < StepsLeft
<1>1. /\ StepsInAttempt \in Nat /\ StepsInAttempt' \in 0..(5 * MaxBatch + 4)
      /\ AttemptSteps * (MaxAttempts - attempts) \in Nat
  <2>1. (StepsInAttempt \in 0..(5 * MaxBatch + 4))'
    BY StepsLeftBounds, PTL
  <2>. QED  BY <2>1, StepsLeftBounds
<1>2. ASSUME attempts' = attempts, StepsInAttempt' < StepsInAttempt
      PROVE  StepsLeft' < StepsLeft
  BY <1>1, <1>2 DEF StepsLeft, AttemptSteps
<1>3. CASE HeadStep
  <2>1. CASE AskModel
    <3>1. attempts' = attempts + 1 /\ StepsInAttempt = 2
      BY <2>1 DEF AskModel, StepsInAttempt
    <3>. QED  BY <1>1, <3>1, AttemptSpent
  <2>2. CASE ~AskModel
    <3>1. attempts' = attempts /\ pc = "loop" /\ pc' = "finalize"
      BY <1>3, <2>2 DEF HeadStep, StopAtLimit, StopOverBudget, ProviderFails, ResponseOverruns,
                        ReceiveFinal, ReceiveUnusable, ReceiveCalls
    <3>. QED  BY <1>2, <3>1 DEF StepsInAttempt
  <2>. QED  BY <2>1, <2>2
<1>4. CASE GateStep
  <2>1. attempts' = attempts /\ pc = "gate" /\ pc' \in {"finalize", "loop"}
    BY <1>4 DEF GateStep, GatePasses, GateAsksRepair, GateFails
  <2>. QED  BY <1>2, <2>1 DEF StepsInAttempt
<1>5. /\ nexec \in Nat /\ idx \in Nat
      /\ CallsLeft \in Int /\ (pc \in InHand => CallsLeft >= 1)
  BY DEF TypeInv, TypeOK, CallInHand, CallsLeft
<1>6. CASE CallStep
  <2>1. ASSUME attempts' = attempts, CallsLeft' = CallsLeft - 1,
               pc \in InHand \cup {"dispatch"}, pc' = "dispatch"
        PROVE  StepsInAttempt' < StepsInAttempt
    BY <1>5, <2>1 DEF StepsInAttempt, InHand
  <2>2. CASE RejectId \/ BlockRepetition
    <3>1. attempts' = attempts /\ idx' = idx + 1 /\ nexec' = nexec /\ pc \in {"dispatch", "pending"} /\ pc' = "dispatch"
      BY <2>2 DEF RejectId, BlockRepetition
    <3>2. CallsLeft' = CallsLeft - 1
      BY <1>5, <3>1 DEF CallsLeft
    <3>3. pc = "pending" => StepsInAttempt = 5 * CallsLeft + 3
      BY DEF StepsInAttempt
    <3>4. pc = "dispatch" => StepsInAttempt = 5 * CallsLeft + 4
      BY DEF StepsInAttempt
    <3>5. StepsInAttempt' = 5 * CallsLeft' + 4
      BY <3>1 DEF StepsInAttempt
    <3>. QED  BY <1>2, <1>5, <3>1, <3>2, <3>3, <3>4, <3>5
  <2>3. CASE AcceptId \/ PrepareTool \/ ReuseResult \/ RunTool \/ ToolRaises \/ CommitTool
    <3>1. /\ attempts' = attempts /\ idx' = idx /\ nexec' = nexec
          /\ <<pc, pc'>> \in {<<"dispatch", "pending">>, <<"pending", "running">>, <<"running", "commit">>,
                              <<"commit", "committed">>}
      BY <2>3 DEF AcceptId, PrepareTool, ReuseResult, RunTool, ToolRaises, CommitTool, batchVars
    <3>2. CallsLeft' = CallsLeft
      BY <3>1 DEF CallsLeft
    <3>. QED  BY <1>2, <1>5, <3>1, <3>2 DEF StepsInAttempt
  <2>4. CASE VerifiedAfterTool \/ NextCall
    <3>1. /\ attempts' = attempts /\ nexec' = nexec /\ pc = "committed"
          /\ pc' = "close" \/ (pc' = "dispatch" /\ idx' = idx + 1)
      BY <2>4 DEF VerifiedAfterTool, NextCall
    <3>2. StepsInAttempt = 5 * CallsLeft /\ CallsLeft >= 1
      BY <1>5, <3>1 DEF StepsInAttempt, InHand
    <3>3. CASE pc' = "close"
      <4>1. StepsInAttempt' = 3
        BY <3>3 DEF StepsInAttempt
      <4>. QED  BY <1>2, <1>5, <3>1, <3>2, <4>1
    <3>4. CASE pc' = "dispatch" /\ idx' = idx + 1
      <4>1. StepsInAttempt' = 5 * CallsLeft' + 4 /\ CallsLeft' = CallsLeft - 1
        BY <1>5, <3>1, <3>4 DEF StepsInAttempt, CallsLeft
      <4>. QED  BY <1>2, <1>5, <3>1, <3>2, <4>1
    <3>. QED  BY <3>1, <3>3, <3>4
  <2>5. CASE BatchExecuted
    <3>1. attempts' = attempts /\ pc = "dispatch" /\ pc' = "close"
      BY <2>5 DEF BatchExecuted
    <3>2. CallsLeft >= 0
      BY <1>5, <3>1 DEF LengthInv, CallsLeft
    <3>3. StepsInAttempt = 5 * CallsLeft + 4 /\ StepsInAttempt' = 3
      BY <3>1 DEF StepsInAttempt
    <3>. QED  BY <1>2, <1>5, <3>1, <3>2, <3>3
  <2>. QED  BY <1>6, <2>2, <2>3, <2>4, <2>5 DEF CallStep
<1>7. CASE CloseStep
  <2>1. attempts' = attempts /\ <<pc, pc'>> \in {<<"close", "finalize">>, <<"close", "loop">>, <<"finalize", "done">>}
    BY <1>7 DEF CloseStep, CloseBatch, Finalize
  <2>. QED  BY <1>2, <2>1 DEF StepsInAttempt
<1>. QED  BY <1>3, <1>4, <1>6, <1>7 DEF Next

MaxStepsOfAsk == AttemptSteps * MaxAttempts + 2
StepsBounded == StepsLeft \in 0..MaxStepsOfAsk

\* Whatever the model answers, the provider does and the tools do, a step of an
\* ask is one of the few that are left: the safety half of Terminates, with
\* the number of steps (the bounds of the while loop of Tifa.ask).
THEOREM EveryStepCounts == Spec => [][StepsLeft' < StepsLeft]_vars
<1>1. TypeInv /\ LengthInv /\ TypeInv' /\ LengthInv' /\ [Next]_vars => [StepsLeft' < StepsLeft]_vars
  BY StepSpent
<1>. QED  BY <1>1, TypeCorrect, LengthInvariant, PTL DEF Spec

\* From first to last an ask has MaxStepsOfAsk steps at most, and never takes
\* an attempt or a call beyond those it can afford.
THEOREM AskIsBounded == Spec => []StepsBounded
<1>. DEFINE Within == StepsLeft <= MaxStepsOfAsk
<1>1. Init => Within
  BY LimitsAssumption DEF Init, StepsLeft, StepsInAttempt, MaxStepsOfAsk, AttemptSteps
<1>2. /\ MaxStepsOfAsk \in Nat
      /\ (MaxStepsOfAsk \in Nat)'
  <2>1. \A w, k \in Nat : w * k + 2 \in Nat
    OBVIOUS
  <2>2. AttemptSteps \in Nat /\ AttemptSteps' = AttemptSteps
    BY LimitsAssumption DEF AttemptSteps
  <2>. QED  BY <2>1, <2>2, LimitsAssumption DEF MaxStepsOfAsk
<1>3. TypeInv /\ LengthInv /\ TypeInv' /\ LengthInv' /\ [Next]_vars /\ Within => Within'
  <2>. SUFFICES ASSUME TypeInv, LengthInv, TypeInv', LengthInv', [Next]_vars, Within
                PROVE  StepsLeft' <= MaxStepsOfAsk'
    OBVIOUS
  <2>1. MaxStepsOfAsk' = MaxStepsOfAsk
    BY DEF MaxStepsOfAsk, AttemptSteps
  <2>2. StepsLeft \in Nat /\ (StepsLeft \in Nat)'
    <3>1. (StepsLeft \in Nat)'
      BY StepsLeftBounds, PTL
    <3>. QED  BY <3>1, StepsLeftBounds
  <2>3. CASE Next
    <3>1. StepsLeft' < StepsLeft
      BY <2>3, StepSpent
    <3>. QED  BY <1>2, <2>1, <2>2, <3>1
  <2>4. CASE UNCHANGED vars
    <3>1. StepsLeft' = StepsLeft
      BY <2>4 DEF vars, loopVars, batchVars, StepsLeft, StepsInAttempt, CallsLeft, AttemptSteps
    <3>. QED  BY <2>1, <3>1
  <2>. QED  BY <2>3, <2>4
<1>4. TypeInv /\ LengthInv /\ Within => StepsBounded
  BY <1>2, StepsLeftBounds DEF StepsBounded
<1>. HIDE DEF Within
<1>. QED  BY <1>1, <1>3, <1>4, TypeCorrect, LengthInvariant, PTL DEF Spec

----------------------------------------------------------------------------
(***************************************************************************)
(* Reused results.  A result is reused of a call that took effect, and the *)
(* workspace is no longer one this call leaves only if another call that   *)
(* took effect can change the workspace.                                   *)
(***************************************************************************)
Changes(t) == \E c \in Contents : \E d \in Leads[t][c] : d # c

EffectInv ==
  /\ \A t \in Tools : applied[t] > 0 /\ ws \notin Leaves(t) =>
       \E u \in Tools \ {t} : applied[u] > 0 /\ Changes(u)
  /\ \A t \in completed : applied[t] > 0
  /\ pc = "commit" /\ outcome = "reused" => setup.governance /\ Current.tool \in completed

LEMMA EffectInit == Init => EffectInv
BY DEF Init, EffectInv

LEMMA EffectStep == TypeInv /\ EffectInv /\ [Next]_vars => EffectInv'
<1>. SUFFICES ASSUME TypeInv, EffectInv, [Next]_vars PROVE EffectInv'
  OBVIOUS
<1>1. CASE ReuseResult
  BY <1>1 DEF ReuseResult, EffectInv, Reused, Current, toolVars, effectVars
<1>2. CASE RunTool
  <2> DEFINE k == Current.tool
  <2>1. k \in Tools /\ applied \in [Tools -> Nat] /\ completed \subseteq Tools /\ ws \in Contents
    BY <1>2, CurrentIsCall DEF RunTool, TypeInv, TypeOK, InHand
  <2>2. /\ applied' = [applied EXCEPT ![k] = @ + 1] /\ outcome' = "ran"
        /\ completed' = completed \cup {k}
        /\ ws' \in Leads[k][ws]
    BY <1>2 DEF RunTool
  <2> HIDE DEF k
  <2>3. \A t \in Tools : applied'[t] > 0 <=> applied[t] > 0 \/ t = k
    BY <2>1, <2>2
  <2>4. ws' \in Leaves(k)
    BY <2>1, <2>2 DEF Leaves
  <2>5. ws' # ws => Changes(k)
    BY <2>1, <2>2 DEF Changes
  <2>6. ASSUME NEW t \in Tools, applied'[t] > 0, ws' \notin Leaves(t)
        PROVE  \E u \in Tools \ {t} : applied'[u] > 0 /\ Changes(u)
    <3>1. t # k /\ applied[t] > 0
      BY <2>3, <2>4, <2>6
    <3>2. CASE ws' = ws
      <4>1. PICK u \in Tools \ {t} : applied[u] > 0 /\ Changes(u)
        BY <2>6, <3>1, <3>2 DEF EffectInv
      <4>. QED  BY <2>3, <4>1
    <3>3. CASE ws' # ws
      BY <2>1, <2>3, <2>5, <3>1, <3>3
    <3>. QED  BY <3>2, <3>3
  <2>7. \A t \in completed' : applied'[t] > 0
    BY <2>1, <2>2, <2>3 DEF EffectInv
  <2>8. \A t \in Tools : Leaves(t)' = Leaves(t) /\ Changes(t)' = Changes(t)
    BY DEF Leaves, Changes
  <2>. QED  BY <2>2, <2>6, <2>7 DEF EffectInv, Leaves, Changes
<1>3. ASSUME UNCHANGED <<completed, ws, applied>>,
             pc' # "commit" \/ outcome' # "reused" \/ UNCHANGED <<setup, pc, outcome, batch, idx>>
      PROVE  EffectInv'
  BY <1>3 DEF EffectInv, Current, Leaves, Changes
<1>4. CASE HeadStep \/ GateStep \/ CloseStep
  BY <1>3, <1>4
     DEF HeadStep, StopAtLimit, StopOverBudget, ProviderFails, ResponseOverruns, ReceiveFinal,
         ReceiveUnusable, ReceiveCalls, AskModel, GateStep, GatePasses, GateAsksRepair, GateFails,
         CloseStep, CloseBatch, Finalize, batchVars, toolVars, effectVars
<1>5. CASE RejectId \/ AcceptId \/ BlockRepetition \/ PrepareTool
  BY <1>3, <1>5 DEF RejectId, AcceptId, BlockRepetition, PrepareTool, batchVars, toolVars, effectVars
<1>6. CASE ToolRaises \/ CommitTool
  BY <1>3, <1>6 DEF ToolRaises, CommitTool, toolVars, effectVars
<1>7. CASE VerifiedAfterTool \/ NextCall \/ BatchExecuted
  BY <1>3, <1>7 DEF VerifiedAfterTool, NextCall, BatchExecuted, batchVars, toolVars, effectVars
<1>8. CASE UNCHANGED vars
  BY <1>3, <1>8 DEF vars, loopVars, batchVars, toolVars, effectVars
<1>. QED  BY <1>1, <1>2, <1>4, <1>5, <1>6, <1>7, <1>8 DEF Next, CallStep

\* A reused result is that of a call that took effect exactly once in this
\* run, and it is stale only where another call that took effect can change
\* the workspace: what the answer says is so in a run with one such call (the
\* governance branch of Tifa.ask keys a result by its call, not by what came
\* after).
StaleOnlyByAnother ==
  pc = "commit" /\ outcome = "reused" =>
    /\ applied[Current.tool] = 1
    /\ \/ ws \in Leaves(Current.tool)
       \/ \E u \in Tools \ {Current.tool} : applied[u] > 0 /\ Changes(u)

THEOREM StaleReuseDelimited == Spec => []StaleOnlyByAnother
<1>1. TypeInv /\ GovernanceInv /\ EffectInv => StaleOnlyByAnother
  <2>. SUFFICES ASSUME TypeInv, GovernanceInv, EffectInv, pc = "commit", outcome = "reused"
                PROVE  /\ applied[Current.tool] = 1
                       /\ \/ ws \in Leaves(Current.tool)
                          \/ \E u \in Tools \ {Current.tool} : applied[u] > 0 /\ Changes(u)
    BY DEF StaleOnlyByAnother
  <2>1. setup.governance /\ applied[Current.tool] > 0 /\ Current.tool \in Tools
    BY CurrentIsCall DEF EffectInv, InHand
  <2>2. applied[Current.tool] <= 1 /\ applied[Current.tool] \in Nat
    BY <2>1 DEF GovernanceInv, TypeInv, TypeOK
  <2>. QED  BY <2>1, <2>2 DEF EffectInv
<1>2. Spec => []EffectInv
  BY TypeCorrect, EffectInit, EffectStep, PTL DEF Spec
<1>. QED  BY <1>1, <1>2, TypeCorrect, GovernanceInvariant, PTL
=============================================================================
