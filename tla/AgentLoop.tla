----------------------------- MODULE AgentLoop -----------------------------
(***************************************************************************)
(* One call of Tifa.ask (src/tifa/runtime.py): the loop that asks the      *)
(* model for its next step, executes the tool calls it returns under the   *)
(* side-effect governance, answers each of them in the conversation, and   *)
(* decides at the completion gate whether the task is done.                *)
(*                                                                         *)
(* The program is sequential; its environment is not.  The model may       *)
(* return any batch of tool calls, a final answer or unusable text, the    *)
(* provider may fail, a tool may succeed or raise, and the clock or the    *)
(* token counter may overrun at any moment.                                *)
(*                                                                         *)
(* Data abstraction.  A call is a member of Tools (its fingerprint: name   *)
(* and arguments, tools.call_fingerprint).  The workspace has one of the   *)
(* Contents; what a call may make of it is Leads.  Several calls may leave *)
(* one content, a call may restore an earlier one, and a command may       *)
(* change it without reporting a path.  The verifier's own commands leave  *)
(* the workspace as it is.  Messages are kept from the last assistant      *)
(* message on: batch holds its tool calls and replies what was appended    *)
(* after it.  History, traces, artifacts and answers are omitted.          *)
(***************************************************************************)
EXTENDS Integers, Sequences, FiniteSets

CONSTANTS
  Tools,          \* fingerprints of the calls the model may ask for
  Writes,         \* those that report the path they write: write_file, patch_file
  Contents,       \* what the files of the workspace may hold
  Initial,        \* what they hold at first
  Leads,          \* Leads[t][c]: what call t may leave of content c when it returns
  Accepted,       \* contents on which the configured verifier's checks pass
  Allowed,        \* writes inside the verifier's allowed_changed_paths
  Setups,         \* how the caller may invoke ask: contract and controls
  MaxBatch,       \* bound of the model: tool calls in one response
  MaxSteps,       \* self.max_steps, already lowered by contract.max_steps
  MaxAttempts,    \* self.max_attempts
  MaxModelCalls,  \* run_budget.max_model_calls
  MaxToolCalls    \* run_budget.max_tool_calls

(***************************************************************************)
(* A setup is what ask receives: whether a TaskContract is given, whether  *)
(* a verifier is configured, contract.require_verifier, max_repairs, and   *)
(* the HarnessControls that change the loop.  Without a contract no        *)
(* verifier is required and no repair is granted.                          *)
(***************************************************************************)
SetupShape ==
  [given: BOOLEAN, verifier: BOOLEAN, required: BOOLEAN, maxRepairs: Nat,
   governance: BOOLEAN, immediate: BOOLEAN, recovery: BOOLEAN]

ASSUME ToolsAssumption ==
  /\ Writes \subseteq Tools
  /\ Initial \in Contents
  /\ Leads \in [Tools -> [Contents -> SUBSET Contents]]
  /\ Accepted \subseteq Contents
  /\ Allowed \subseteq Writes

ASSUME SetupsAssumption ==
  /\ Setups \subseteq SetupShape
  /\ \A s \in Setups : ~s.given => ~s.required /\ s.maxRepairs = 0

ASSUME LimitsAssumption ==
  /\ MaxBatch \in Nat \ {0}
  /\ MaxSteps \in Nat
  /\ MaxAttempts \in Nat
  /\ MaxModelCalls \in Nat
  /\ MaxToolCalls \in Nat

VARIABLES
  setup,      \* the setup of this ask; it never changes
  pc,         \* where the loop is
  taskPhase,  \* state["task_phase"]
  stop,       \* stop_reason
  failure,    \* failure_category, "none" for None
  attempts,   \* state["attempts"]
  modelCalls, \* budget_usage["model_calls"]
  toolSteps,  \* state["tool_steps"]
  toolCalls,  \* budget_usage["tool_calls"]
  repairs,    \* state["repairs"]
  batch,      \* tool calls of the last assistant message
  nexec,      \* how many of them, from the first, are executable_calls
  idx,        \* position of the call being handled
  outcome,    \* what the execution of that call returned, until it is committed
  replies,    \* messages after the last assistant message
  deferred,   \* number of deferred_feedback items
  seen,       \* seen_call_ids
  counts,     \* fingerprint_counts
  completed,  \* self.completed_fingerprints
  affected,   \* state["affected_paths"], a write standing for its path
  ws,         \* workspace content
  tried,      \* history: times registry.run was entered for a call
  applied     \* history: times it returned for a call

loopVars == <<pc, taskPhase, stop, failure, attempts, modelCalls, repairs>>
batchVars == <<batch, nexec, idx, outcome, replies, deferred>>
toolVars == <<toolSteps, toolCalls, seen, counts, completed, affected>>
effectVars == <<ws, tried, applied>>
vars == <<setup, loopVars, batchVars, toolVars, effectVars>>

NoId == 0
Ids == NoId..(MaxAttempts * MaxBatch)
Call == [id: Ids, tool: Tools]
ToolReply(id) == [role |-> "tool", id |-> id]
UserMessage == [role |-> "user", id |-> NoId]
Message == [role: {"tool", "user"}, id: Ids]

PCs == {"loop", "gate", "dispatch", "pending", "running", "commit",
        "committed", "close", "finalize", "done"}
TaskPhases == {"EXECUTE", "VERIFY", "REPAIR", "COMPLETE", "FAILED"}
Limits == {"step_limit_reached", "retry_limit_reached"}
Successes == {"final_answer_returned", "verified_after_tool", "verified_at_limit"}
Stops == Limits \cup Successes
           \cup {"budget_exceeded", "provider_error", "completion_gate_failed"}
Failures == Limits \cup
  {"none", "duplicate_tool_call_id", "loop_detected", "tool_error",
   "budget_exceeded", "provider_error", "verifier_failed",
   "verifier_not_configured"}
Outcomes == {"none", "ran", "reused", "raised"}

----------------------------------------------------------------------------
(***************************************************************************)
(* The conditions of the code.                                             *)
(***************************************************************************)

\* verify_contract: no spec gives not_configured, otherwise every check must
\* pass, the changed_paths check on the paths this run reported included.
Verdict ==
  IF ~setup.verifier THEN "not_configured"
  ELSE IF ws \in Accepted /\ affected \subseteq Allowed THEN "passed" ELSE "failed"

\* Slip: a missing verifier opens the gate even when one is required.
MutGateOpens == Verdict = "passed" \/ Verdict = "not_configured"
\* decision.complete of the completion gate.
GateOpens ==
  \/ Verdict = "passed"
  \/ Verdict = "not_configured" /\ ~setup.required

CanRepair == setup.given /\ repairs < setup.maxRepairs

InLimits == toolSteps < MaxSteps /\ attempts < MaxAttempts

\* Slips: the tool-call budget is left out; the batch's length is.
MutExecutable(n) == LET left == MaxSteps - toolSteps IN IF n <= left THEN n ELSE left
MutExecutableAll(n) == MaxSteps - toolSteps
\* How many calls of a batch of n are executable_calls.
Executable(n) ==
  LET left == IF MaxSteps - toolSteps <= MaxToolCalls - toolCalls
                THEN MaxSteps - toolSteps ELSE MaxToolCalls - toolCalls
  IN  IF left < 0 THEN 0 ELSE IF n <= left THEN n ELSE left

Current == batch[idx]

\* Slip: one more repetition is let through.
MutLoops(t) == setup.governance /\ counts[t] + 1 > 3
\* fingerprint_counts after this call; the third identical call is blocked.
Loops(t) == setup.governance /\ counts[t] + 1 > 2

\* Slip: completed fingerprints are not consulted.
MutReused(t) == FALSE
Reused(t) == setup.governance /\ t \in completed

----------------------------------------------------------------------------
Init ==
  /\ setup \in Setups
  /\ pc = "loop" /\ taskPhase = "EXECUTE"
  /\ stop = "retry_limit_reached" /\ failure = "none"
  /\ attempts = 0 /\ modelCalls = 0 /\ toolSteps = 0 /\ toolCalls = 0
  /\ repairs = 0
  /\ batch = <<>> /\ nexec = 0 /\ idx = 1 /\ outcome = "none"
  /\ replies = <<>> /\ deferred = 0
  /\ seen = {} /\ counts = [t \in Tools |-> 0] /\ completed = {}
  /\ affected = {} /\ ws = Initial
  /\ tried = [t \in Tools |-> 0] /\ applied = [t \in Tools |-> 0]

(***************************************************************************)
(* The head of the loop.                                                   *)
(***************************************************************************)

\* The else branch of the while: a limit is reached and nothing was decided.
StopAtLimit ==
  /\ pc = "loop" /\ ~InLimits
  /\ stop' = IF toolSteps >= MaxSteps THEN "step_limit_reached" ELSE "retry_limit_reached"
  /\ failure' = IF failure = "none" THEN stop' ELSE failure
  /\ taskPhase' = "FAILED"
  /\ pc' = "finalize"
  /\ UNCHANGED <<setup, attempts, modelCalls, repairs, batchVars, toolVars, effectVars>>

\* The model-call budget is used up, or the run's duration is over.
StopOverBudget ==
  /\ pc = "loop" /\ InLimits
  /\ \E overtime \in BOOLEAN : modelCalls >= MaxModelCalls \/ overtime
  /\ stop' = "budget_exceeded" /\ failure' = "budget_exceeded"
  /\ pc' = "finalize"
  /\ UNCHANGED <<setup, taskPhase, attempts, modelCalls, repairs, batchVars, toolVars, effectVars>>

\* What every call of the model does first.
AskModel ==
  /\ pc = "loop" /\ InLimits /\ modelCalls < MaxModelCalls
  /\ attempts' = attempts + 1

\* complete() raises ProviderError.
ProviderFails ==
  /\ AskModel
  /\ stop' = "provider_error" /\ failure' = "provider_error"
  /\ pc' = "finalize"
  /\ UNCHANGED <<setup, taskPhase, modelCalls, repairs, batchVars, toolVars, effectVars>>

\* The response overruns the token or cost budget; it is discarded.
ResponseOverruns ==
  /\ AskModel
  /\ modelCalls' = modelCalls + 1
  /\ stop' = "budget_exceeded" /\ failure' = "budget_exceeded"
  /\ pc' = "finalize"
  /\ UNCHANGED <<setup, taskPhase, repairs, batchVars, toolVars, effectVars>>

\* A final answer, or non-blank text of a real provider: on to the gate.
ReceiveFinal ==
  /\ AskModel
  /\ modelCalls' = modelCalls + 1
  /\ taskPhase' = "VERIFY"
  /\ pc' = "gate"
  /\ UNCHANGED <<setup, stop, failure, repairs, batchVars, toolVars, effectVars>>

\* Text that parse() calls a retry: only the history notes it.
ReceiveUnusable ==
  /\ AskModel
  /\ modelCalls' = modelCalls + 1
  /\ UNCHANGED <<setup, pc, taskPhase, stop, failure, repairs, batchVars, toolVars, effectVars>>

(***************************************************************************)
(* A response may carry any ids: none, ones accepted before, new ones, a   *)
(* new one several times.  Ids are numbered in the order in which they are *)
(* first used, so that a new one comes after those seen or used earlier in *)
(* the batch.  A textual tool call (id legacy-<attempt>) is a batch of one *)
(* call with a new id.                                                     *)
(***************************************************************************)
OfferedIds(calls) ==
  \A i \in DOMAIN calls : \A k \in 1..(calls[i].id - 1) :
    k \in seen \/ \E j \in 1..(i - 1) : calls[j].id = k

\* A batch of tool calls: appended to the messages whole, then split into
\* the calls the remaining steps allow and the truncated rest.
ReceiveCalls ==
  /\ AskModel
  /\ modelCalls' = modelCalls + 1
  /\ \E n \in 1..MaxBatch : \E calls \in [1..n -> Call] :
       /\ OfferedIds(calls)
       /\ batch' = calls
       /\ nexec' = Executable(n)
  /\ idx' = 1 /\ replies' = <<>> /\ deferred' = 0
  /\ pc' = "dispatch"
  /\ UNCHANGED <<setup, taskPhase, stop, failure, repairs, outcome, toolVars, effectVars>>

(***************************************************************************)
(* The completion gate (the model said it is done).                        *)
(***************************************************************************)
GatePasses ==
  /\ pc = "gate" /\ GateOpens
  /\ stop' = "final_answer_returned" /\ failure' = "none"
  /\ taskPhase' = "COMPLETE"
  /\ pc' = "finalize"
  /\ UNCHANGED <<setup, attempts, modelCalls, repairs, batchVars, toolVars, effectVars>>

\* The verifier's feedback is appended as a user message, one repair is used.
GateAsksRepair ==
  /\ pc = "gate" /\ ~GateOpens /\ CanRepair
  /\ repairs' = repairs + 1
  /\ replies' = Append(replies, UserMessage)
  /\ taskPhase' = "EXECUTE"
  /\ pc' = "loop"
  /\ UNCHANGED <<setup, stop, failure, attempts, modelCalls, batch, nexec, idx,
                 outcome, deferred, toolVars, effectVars>>

GateFails ==
  /\ pc = "gate" /\ ~GateOpens /\ ~CanRepair
  /\ stop' = "completion_gate_failed"
  /\ failure' = IF Verdict = "failed" THEN "verifier_failed" ELSE "verifier_not_configured"
  /\ taskPhase' = "FAILED"
  /\ pc' = "finalize"
  /\ UNCHANGED <<setup, attempts, modelCalls, repairs, batchVars, toolVars, effectVars>>

(***************************************************************************)
(* The executable calls of a batch, one after the other.                   *)
(***************************************************************************)
\* Slip: the rejected call is not consumed.
MutRejectId ==
  /\ pc = "dispatch" /\ idx <= nexec
  /\ Current.id = NoId \/ Current.id \in seen
  /\ failure' = "duplicate_tool_call_id"
  /\ UNCHANGED <<setup, pc, taskPhase, stop, attempts, modelCalls, repairs, batchVars,
                 toolVars, effectVars>>
\* An empty id, or one seen in this run: answered, never executed.
RejectId ==
  /\ pc = "dispatch" /\ idx <= nexec
  /\ Current.id = NoId \/ Current.id \in seen
  /\ failure' = "duplicate_tool_call_id"
  /\ replies' = Append(replies, ToolReply(Current.id))
  /\ idx' = idx + 1
  /\ UNCHANGED <<setup, pc, taskPhase, stop, attempts, modelCalls, repairs, batch,
                 nexec, outcome, deferred, toolVars, effectVars>>

\* The id is noted and the phase becomes TOOL_PENDING.
AcceptId ==
  /\ pc = "dispatch" /\ idx <= nexec
  /\ Current.id # NoId /\ Current.id \notin seen
  /\ seen' = seen \cup {Current.id}
  /\ pc' = "pending"
  /\ UNCHANGED <<setup, taskPhase, stop, failure, attempts, modelCalls, repairs, batchVars,
                 toolSteps, toolCalls, counts, completed, affected, effectVars>>

\* Loop detection: the call is answered without being executed.  A granted
\* repair forgets the count and defers a feedback message.
BlockRepetition ==
  /\ pc = "pending" /\ Loops(Current.tool)
  /\ failure' = "loop_detected"
  /\ replies' = Append(replies, ToolReply(Current.id))
  /\ IF CanRepair
       THEN /\ repairs' = repairs + 1
            /\ counts' = [counts EXCEPT ![Current.tool] = 0]
            /\ deferred' = deferred + 1
            /\ taskPhase' = "REPAIR"
       ELSE /\ counts' = [counts EXCEPT ![Current.tool] = @ + 1]
            /\ UNCHANGED <<repairs, deferred, taskPhase>>
  /\ idx' = idx + 1
  /\ pc' = "dispatch"
  /\ UNCHANGED <<setup, stop, attempts, modelCalls, batch, nexec, outcome,
                 toolSteps, toolCalls, seen, completed, affected, effectVars>>

\* Slip: the fingerprint counts as completed before the call is executed.
MutPrepareTool ==
  /\ pc = "pending" /\ ~Loops(Current.tool)
  /\ counts' = [counts EXCEPT ![Current.tool] = @ + 1]
  /\ completed' = completed \cup {Current.tool}
  /\ pc' = "running"
  /\ UNCHANGED <<setup, taskPhase, stop, failure, attempts, modelCalls, repairs, batchVars,
                 toolSteps, toolCalls, seen, affected, effectVars>>
\* tool_prepare: the phase becomes TOOL_RUNNING.
PrepareTool ==
  /\ pc = "pending" /\ ~Loops(Current.tool)
  /\ counts' = [counts EXCEPT ![Current.tool] = @ + 1]
  /\ pc' = "running"
  /\ UNCHANGED <<setup, taskPhase, stop, failure, attempts, modelCalls, repairs, batchVars,
                 toolSteps, toolCalls, seen, completed, affected, effectVars>>

\* A committed fingerprint is not executed again.
ReuseResult ==
  /\ pc = "running" /\ Reused(Current.tool)
  /\ outcome' = "reused"
  /\ pc' = "commit"
  /\ UNCHANGED <<setup, taskPhase, stop, failure, attempts, modelCalls, repairs, batch,
                 nexec, idx, replies, deferred, toolVars, effectVars>>

\* registry.run returns: its effect is on the workspace.  A call that can
\* leave nothing here (a patch whose old text is absent) can only raise.
RunTool ==
  /\ pc = "running" /\ ~Reused(Current.tool)
  /\ outcome' = "ran"
  /\ completed' = completed \cup {Current.tool}
  /\ \E c \in Leads[Current.tool][ws] : ws' = c
  /\ tried' = [tried EXCEPT ![Current.tool] = @ + 1]
  /\ applied' = [applied EXCEPT ![Current.tool] = @ + 1]
  /\ pc' = "commit"
  /\ UNCHANGED <<setup, taskPhase, stop, failure, attempts, modelCalls, repairs, batch,
                 nexec, idx, replies, deferred, toolSteps, toolCalls, seen, counts, affected>>

\* registry.run raises.  A schema, path or argument error may be repaired
\* when the structured recovery is on; the other categories never are.
ToolRaises ==
  /\ pc = "running" /\ ~Reused(Current.tool)
  /\ outcome' = "raised"
  /\ failure' = "tool_error"
  /\ tried' = [tried EXCEPT ![Current.tool] = @ + 1]
  /\ \E recoverable \in BOOLEAN :
       IF recoverable /\ setup.recovery /\ CanRepair
         THEN repairs' = repairs + 1 /\ deferred' = deferred + 1 /\ taskPhase' = "REPAIR"
         ELSE UNCHANGED <<repairs, deferred, taskPhase>>
  /\ pc' = "commit"
  /\ UNCHANGED <<setup, stop, attempts, modelCalls, batch, nexec, idx, replies,
                 toolVars, ws, applied>>

\* tool_commit: the step is counted and answered; only write_file and
\* patch_file report a path (tools.py:149-162).  The branch of an overrun
\* tool budget is the code's; ToolBudget says it is never taken.
CommitTool ==
  /\ pc = "commit"
  /\ toolCalls' = toolCalls + 1
  /\ toolSteps' = toolSteps + 1
  /\ affected' = affected \cup (IF outcome = "ran" THEN {Current.tool} \cap Writes ELSE {})
  /\ IF toolCalls + 1 > MaxToolCalls
       THEN stop' = "budget_exceeded" /\ failure' = "budget_exceeded"
       ELSE UNCHANGED <<stop, failure>>
  /\ replies' = Append(replies, ToolReply(Current.id))
  /\ pc' = "committed"
  /\ UNCHANGED <<setup, taskPhase, attempts, modelCalls, repairs, batch, nexec, idx,
                 outcome, deferred, seen, counts, completed, effectVars>>

\* The immediate verifier runs after a successful call of a contract that
\* requires one.
VerifiesNow ==
  /\ setup.immediate /\ setup.given /\ setup.required
  /\ outcome # "raised" /\ Verdict = "passed"

\* It passed: the rest of the batch stays unexecuted.
VerifiedAfterTool ==
  /\ pc = "committed" /\ VerifiesNow
  /\ stop' = "verified_after_tool" /\ failure' = "none"
  /\ taskPhase' = "COMPLETE"
  /\ outcome' = "none"
  /\ pc' = "close"
  /\ UNCHANGED <<setup, attempts, modelCalls, repairs, batch, nexec, idx, replies,
                 deferred, toolVars, effectVars>>

\* It did not, or need not run: the next call of the batch.
NextCall ==
  /\ pc = "committed" /\ ~VerifiesNow
  /\ outcome' = "none"
  /\ IF stop = "budget_exceeded"
       THEN pc' = "close" /\ UNCHANGED idx
       ELSE pc' = "dispatch" /\ idx' = idx + 1
  /\ UNCHANGED <<setup, taskPhase, stop, failure, attempts, modelCalls, repairs, batch,
                 nexec, replies, deferred, toolVars, effectVars>>

BatchExecuted ==
  /\ pc = "dispatch" /\ idx > nexec
  /\ pc' = "close"
  /\ UNCHANGED <<setup, taskPhase, stop, failure, attempts, modelCalls, repairs, batchVars,
                 toolVars, effectVars>>

(***************************************************************************)
(* The end of a batch: the truncated calls and those left unexecuted by    *)
(* the verifier are answered, and only then the deferred feedback follows. *)
(***************************************************************************)
Truncated == SubSeq(batch, nexec + 1, Len(batch))
Unexecuted == IF stop = "verified_after_tool" THEN SubSeq(batch, idx + 1, nexec) ELSE <<>>
RepliesTo(calls) == [i \in 1..Len(calls) |-> ToolReply(calls[i].id)]
Feedback == [i \in 1..deferred |-> UserMessage]

\* Slip: the feedback is appended before the batch is answered.
MutClosing == Feedback \o RepliesTo(Truncated) \o RepliesTo(Unexecuted)
Closing == RepliesTo(Truncated) \o RepliesTo(Unexecuted) \o Feedback

\* Slip: a verified run goes on.
MutCloseBatch ==
  /\ pc = "close"
  /\ replies' = replies \o Closing
  /\ deferred' = 0
  /\ pc' = IF stop = "budget_exceeded" THEN "finalize" ELSE "loop"
  /\ UNCHANGED <<setup, taskPhase, stop, failure, attempts, modelCalls, repairs, batch,
                 nexec, idx, outcome, toolVars, effectVars>>
CloseBatch ==
  /\ pc = "close"
  /\ replies' = replies \o Closing
  /\ deferred' = 0
  /\ pc' = IF stop \in {"budget_exceeded", "verified_after_tool"} THEN "finalize" ELSE "loop"
  /\ UNCHANGED <<setup, taskPhase, stop, failure, attempts, modelCalls, repairs, batch,
                 nexec, idx, outcome, toolVars, effectVars>>

(***************************************************************************)
(* FINALIZING: the verifier runs once more; it can still turn a limit into *)
(* a success, and its failure is reported when no other category is.       *)
(***************************************************************************)
VerifiedAtLimit == Verdict = "passed" /\ stop \in Limits

\* Slip: a success at the limit leaves the task phase FAILED.
MutFinalize ==
  /\ pc = "finalize"
  /\ IF VerifiedAtLimit
       THEN stop' = "verified_at_limit" /\ failure' = "none" /\ UNCHANGED taskPhase
       ELSE /\ failure' = IF failure = "none" /\ Verdict = "failed"
                            THEN "verifier_failed" ELSE failure
            /\ UNCHANGED <<stop, taskPhase>>
  /\ pc' = "done"
  /\ UNCHANGED <<setup, attempts, modelCalls, repairs, batchVars, toolVars, effectVars>>
Finalize ==
  /\ pc = "finalize"
  /\ IF VerifiedAtLimit
       THEN stop' = "verified_at_limit" /\ failure' = "none" /\ taskPhase' = "COMPLETE"
       ELSE /\ failure' = IF failure = "none" /\ Verdict = "failed"
                            THEN "verifier_failed" ELSE failure
            /\ UNCHANGED <<stop, taskPhase>>
  /\ pc' = "done"
  /\ UNCHANGED <<setup, attempts, modelCalls, repairs, batchVars, toolVars, effectVars>>

----------------------------------------------------------------------------
HeadStep == StopAtLimit \/ StopOverBudget \/ ProviderFails \/ ResponseOverruns
          \/ ReceiveFinal \/ ReceiveUnusable \/ ReceiveCalls
GateStep == GatePasses \/ GateAsksRepair \/ GateFails
CallStep == RejectId \/ AcceptId \/ BlockRepetition \/ PrepareTool \/ ReuseResult
              \/ RunTool \/ ToolRaises \/ CommitTool \/ VerifiedAfterTool
              \/ NextCall \/ BatchExecuted
CloseStep == CloseBatch \/ Finalize

Next == HeadStep \/ GateStep \/ CallStep \/ CloseStep

(***************************************************************************)
(* Where the loop waits for somebody else, perhaps for ever.  A model call *)
(* has a time-out for every read but not for the whole answer; a tool call *)
(* may wait for the approver, or for a command: after its time-out only    *)
(* the command itself is killed, and its output is awaited as long as a    *)
(* child of it holds the pipe (execution.py:104-107).  The verifier runs   *)
(* commands too.                                                           *)
(***************************************************************************)
AwaitsModel == pc = "loop" /\ InLimits /\ modelCalls < MaxModelCalls
AwaitsTool == pc = "running" /\ ~Reused(Current.tool)
AwaitsVerifier ==
  /\ setup.verifier
  /\ \/ pc \in {"gate", "finalize"}
     \/ pc = "committed" /\ setup.immediate /\ setup.given /\ setup.required
Awaiting == AwaitsModel \/ AwaitsTool \/ AwaitsVerifier

\* The loop runs on its own thread: a step that waits for nobody is taken.
Fairness == WF_vars(~Awaiting /\ Next)

Spec == Init /\ [][Next]_vars /\ Fairness

----------------------------------------------------------------------------
(***************************************************************************)
(* Properties.                                                             *)
(***************************************************************************)

TypeOK ==
  /\ setup \in Setups
  /\ pc \in PCs /\ taskPhase \in TaskPhases
  /\ stop \in Stops /\ failure \in Failures
  /\ attempts \in Nat /\ modelCalls \in Nat /\ repairs \in Nat
  /\ toolSteps \in Nat /\ toolCalls \in Nat
  /\ batch \in Seq(Call) /\ nexec \in 0..Len(batch) /\ idx \in Nat \ {0}
  /\ outcome \in Outcomes
  /\ replies \in Seq(Message) /\ deferred \in Nat
  /\ seen \in SUBSET Ids
  /\ counts \in [Tools -> Nat] /\ completed \in SUBSET Tools
  /\ affected \in SUBSET Writes /\ ws \in Contents
  /\ tried \in [Tools -> Nat] /\ applied \in [Tools -> Nat]

\* The positions of s where the message is an answer to a tool call.
AnswersIn(s) == {i \in DOMAIN s : s[i].role = "tool"}

\* Whenever the model is about to be called, and when the run is over, every
\* tool call of the last assistant message has exactly one answer under its
\* id, the answers are contiguous, and user feedback comes after all of them
\* (the comment at runtime.py:280-282), whichever mix of rejected, blocked,
\* executed, truncated and unexecuted calls the batch had.
BatchAnswered ==
  pc \in {"loop", "gate", "finalize", "done"} =>
    /\ AnswersIn(replies) = 1..Len(batch)
    /\ \A c \in Call :
         Cardinality({i \in DOMAIN batch : batch[i].id = c.id})
           = Cardinality({i \in AnswersIn(replies) : replies[i].id = c.id})

\* No execution path spends more tool steps or tool calls than granted, the
\* two counters agree, and the truncation of a batch (runtime.py:198-199)
\* makes the overrun branch of runtime.py:252 unreachable, which would leave
\* the rest of its batch unanswered.
ToolBudget ==
  /\ toolSteps = toolCalls
  /\ toolSteps <= MaxSteps /\ toolCalls <= MaxToolCalls
  /\ pc \in {"dispatch", "pending", "running", "commit", "committed", "close"}
       => stop # "budget_exceeded"

\* With the side-effect governance on, a call takes effect at most once in a
\* run, however often and in however many batches the model repeats it
\* (runtime.py:230-233).
AppliedAtMostOnce ==
  setup.governance => \A t \in Tools : applied[t] <= 1

\* What a call can leave in the workspace.
Leaves(t) == UNION {Leads[t][c] : c \in Contents}

\* The workspace is one that a write answered as a reused committed result
\* leaves (runtime.py:230): the agent's prompt takes the answers as the
\* evidence of what succeeded (context_manager.py:30).
ReuseTruthful ==
  pc = "commit" /\ outcome = "reused" /\ Current.tool \in Writes =>
    ws \in Leaves(Current.tool)

\* With the governance on, a call that keeps failing is tried at most twice,
\* plus twice for every repair the contract granted: forgetting its count
\* (runtime.py:222) cannot reopen an endless retry.
RetriesBounded ==
  /\ repairs <= setup.maxRepairs
  /\ setup.governance => \A t \in Tools : tried[t] <= 2 * (1 + repairs)

\* The write_file and patch_file calls of this run that took effect.
Made == {t \in Writes : applied[t] > 0}

\* The task phase is COMPLETE exactly when the stop reason is a success, and
\* then the demand was met: a configured verifier's checks pass on all the
\* workspace holds as the run left it, whoever changed it, and every
\* write_file and patch_file call was inside the allowed paths
\* (runtime.py:186-190, 265-272, 290-292).  Which paths a command changed
\* nobody checks: run_shell reports none (tools.py:149).
CompletionJustified ==
  /\ taskPhase = "COMPLETE" <=> stop \in Successes
  /\ taskPhase = "COMPLETE" =>
       /\ setup.required => setup.verifier
       /\ setup.verifier => ws \in Accepted /\ Made \subseteq Allowed

\* The report of a finished run is truthful: a failure category is named
\* exactly when the task is not complete, a limit is named only when it was
\* reached, and a limit is never reported over a passing verifier.
ReportTruthful ==
  pc = "done" =>
    /\ failure = "none" <=> taskPhase = "COMPLETE"
    /\ stop = "step_limit_reached" => toolSteps >= MaxSteps
    /\ stop = "retry_limit_reached" => attempts >= MaxAttempts
    /\ stop \in Limits => Verdict # "passed"

\* Whatever the model answers, the run ends (the bounds of the while loop at
\* runtime.py:167), unless the model, a tool or the verifier never returns.
Terminates == <>(pc = "done") \/ <>[]Awaiting

(***************************************************************************)
(* The loop implements TaskCompletion.                                     *)
(***************************************************************************)
Demand ==
  IF setup.verifier THEN "verified" ELSE IF setup.required THEN "never" ELSE "none"
OutcomeOfTask ==
  IF taskPhase = "COMPLETE" THEN "complete" ELSE IF pc = "done" THEN "failed" ELSE "open"

Task == INSTANCE TaskCompletion
          WITH demand <- Demand, content <- ws, changed <- Made, outcome <- OutcomeOfTask

\* Every run of the loop is a run of TaskCompletion: one decision, never
\* against the demand, and no work after it.
ImplementsTaskCompletion == Task!Spec
=============================================================================
