# A formal model of the Tifa agent harness

Tifa (`src/tifa`) is a local coding-agent harness: a loop that asks a language
model for its next step, runs the tool calls it returns under budgets, a
side-effect governance and a task contract, checkpoints its state, and leaves
evidence behind from which failed runs become reviewed *case cards*. This
directory holds TLA+ modules for its control logic, TLC configurations that
check them on small instances, and TLAPS proofs of the main safety properties
for every value of the constants.

Source lines below are of `src/tifa/<file>` unless a path says otherwise.

## 1. Inventory

The program is a single-process Python package. `Tifa.ask` is sequential; what
makes it hard is its environment: the model may answer anything, tools fail,
processes die between a tool's effect and its checkpoint, the stored state is
taken up again by another process, and several processes (agents, replays,
reviewers) share the files under `.tifa`.

| Component | State it keeps | Operations | Works with | Hard behaviour | Correct when |
|---|---|---|---|---|---|
| Agent loop (`runtime.py`, `models.py`) | messages, attempts, tool steps, budgets, repairs, seen ids, fingerprint counts, completed fingerprints, task phase | `ask`: model call, batch of tool calls, completion gate, finalization | provider, tools, verifier, stores, memory, cases | mixed batches, five limits, repetition control against repairs, four places that decide completion | every call answered once and in order, no effect twice, budgets kept, completion only on a passing verdict, the report agrees with itself, the loop ends |
| Sessions and checkpoints (`runtime.py`, `stores.py`, `cli.py`) | checkpoints, session files, workspace fingerprint | `_checkpoint`, `from_session`, `resume_run`, a further `ask` | agent loop, workspace index | crash between effect and record, resumption in the middle of a batch, a second request | nothing repeated over a lineage unless an older state is taken up, nothing committed lost, reused results really happened, requests reach the model |
| Contracts and verifier (`contracts.py`, `verifier.py`) | none (a function of workspace and paths) | `from_dict`, `verify_contract` | agent loop, execution backend | exceptions of checks, stale path lists | the verdict is about the workspace as it is left |
| Case store (`cases.py`, `cli.py`) | one JSON card per case | propose, verify, promote, reject, search, inspect | failed runs, replays, reviewers, prompt building | a promotion is two saves, replays overlap decisions, twins, freshness | verified means backed by a passing replay; no duplicates, no unacknowledged conflicts; decisions last |
| Provider clients (`providers.py`) | concurrency semaphore, last request metadata | `complete`, `_post` with retries, message mapping | HTTP APIs | retries, shared metadata, invented ids | bounded retries and concurrency, a response carries its own metadata |
| Run lock, lineage, GC, migration (`operations.py`) | lock files, run directories | `RunLock.acquire`, `release`, `continuation_lineage`, `collect_garbage`, `migrate_artifact` | `resume_run`, run stores | dying lock holders, overlapping collections, directories removed under a run | one process at a time loads a run, nobody waits, the newest directories stay |
| Evidence and replay (`replay.py`, `stores.py`) | evidence bundles, traces | `replay` in three modes, consistency and confounding reports | case store | redaction against digests, artifacts recorded mid-run, damaged bundles, edits during a replay | an untouched bundle is judged consistent and a damaged one is not; a replay differs from its source in what was overridden |
| Tool registry (`tools.py`) | allowed tools, approvals, write scope | availability, validation, approval, path guard, execution | execution backends | side effects before a refusal, commands that change files unreported | every change is reported and in scope, or a command made it |
| Execution backends (`execution.py`) | none | `execute`, `command_argv` | processes, containers | time-outs, processes that outlive them, splitting of commands | output classified as what happened |
| Workspace index and paths (`workspace.py`) | index of size, mtime, digest | `build`, `fingerprint`, `resolve` | sessions, cases, tools | several builders of one index file, files that vanish while they are read, unchanged size and mtime | the index file is whole, the fingerprint tells contents apart |
| Layered memory (`memory.py`) | task summary, file summaries, notes | remember, invalidate, render, save | prompt | several spellings of one path | no summary of a file that changed |
| Context budget (`context_manager.py`) | none | section budgets and reduction loop | prompt | floors, rounding | the request is never cut, the loop ends |
| Semantic index (`semantic_index.py`) | symbols | parse, rank | prompt | none of control | - |
| Evaluation (`evaluation.py`, `case_evaluation.py`, `result_contract.py`) | result files | stratified samples, release decision, paired comparison, schema validation | drivers | exhausted categories, every case excluded | samples balanced, exclusions and conclusions justified by the cases |
| Drivers (`eval_suite.py`, `live_eval.py`, `harness_ab.py`, `benchmark.py`) | task workspaces | build tasks, run arms, score | agent loop | the minimal runner's own small loop | arms differ only in what is compared |
| Reporting and diagnosis (`reporting.py`, `observability.py`, `doctor.py`, `performance.py`) | none | read and print | run directories | none of control | - |
| Command line (`cli.py`) | none | one command per operation, interactive loop | all | - | commands call what they say |

`PROJECT.json` repeats this list with its modelling status, and lists under
"hazards" what is hard to test, each at its line with the property that covers
it or the reason why none does yet.

## 2. Modules

| Module | What it is |
|---|---|
| `AgentLoop` | one `Tifa.ask`, every step of its control state |
| `TaskCompletion` | what an ask promises: it works, decides once, never against the demand, never works on afterwards |
| `AgentLoopProofs` | invariants of `AgentLoop` and its step simulation of `TaskCompletion`, proved |
| `AgentSession` | `AgentLoop` composed with checkpoints, sessions, crashes and resumptions |
| `AgentSessionProofs` | invariants of `AgentSession`, proved on top of those of `AgentLoopProofs` |
| `CaseLifecycle` | the case store shared by proposers, replays and a reviewer |
| `CaseReview` | what the store promises about its cards: every decision is taken at one moment, on what the store then holds |
| `CaseLifecycleProofs` | invariants of `CaseLifecycle` and its step simulation of `CaseReview`, proved |
| `ProviderClient` | one HTTP model client and the threads that call it |
| `ProviderClientProofs` | invariants of `ProviderClient`, proved |
| `AtomicFile` | a file replaced through a temporary name by several writers: the abstraction of every JSON file under `.tifa` |
| `AtomicFileProofs` | when such a file is never read torn, proved |
| `SharedWorkspace` | processes that continue runs in one directory: lock, index, checkpoints, session, garbage collection |
| `SharedWorkspaceProofs` | its safety properties, and that its two shared files implement `AtomicFile`, proved |
| `ToolRegistry` | the tools of a run, what they change and report, and what memory keeps |
| `RunEvidence` | extends `ToolRegistry` to the end of the run, its bundle and its replay |
| `RunEvidenceProofs` | invariants of `ToolRegistry`, and on top of them those of `RunEvidence`, proved |
| `HarnessAB` | the paired evaluation of the harness with the minimal runner's loop |
| `HarnessABProofs` | its invariants and its end, proved |
| `MCAgentLoop`, `MCAgentSession`, `MCCaseLifecycle`, `MCProviderClient`, `MCSharedWorkspace`, `MCRunEvidence`, `MCHarnessAB` | instances for TLC |

### AgentLoop

`pc` is the place in `ask`; the other variables carry the names of the code
(`attempts`, `tool_steps`, `repairs`, `fingerprint_counts`, `seen_call_ids`,
`completed_fingerprints`, `affected_paths`, `stop_reason`, `failure_category`,
`task_phase`). The actions follow the loop from top to bottom:

* head (`runtime.py:167-206`): `StopAtLimit`, `StopOverBudget`,
  `ProviderFails`, `ResponseOverruns`, `ReceiveFinal`, `ReceiveUnusable`,
  `ReceiveCalls`;
* completion gate (182-195): `GatePasses`, `GateAsksRepair`, `GateFails`;
* one call of a batch (207-275): `RejectId`, `AcceptId`, `BlockRepetition`,
  `PrepareTool`, `ReuseResult`, `RunTool`, `ToolRaises`, `CommitTool`,
  `VerifiedAfterTool`, `NextCall`, `BatchExecuted`;
* end of the batch and of the run (276-313): `CloseBatch`, `Finalize`.

A `setup` is what the caller passes: contract or not, verifier or not, whether
it is required, repairs, and the three harness controls that change the loop
(governance, immediate verification, recovery).

Abstractions. A call is its fingerprint (name and arguments). The workspace has
one of the `Contents`, and `Leads[t][c]` says what call `t` may leave of content
`c` when it returns: several calls may leave one content, a call may restore an
earlier one, and a call that can leave nothing (a patch whose text is absent) can
only raise. `Writes` are the calls that report their path, `write_file` and
`patch_file`; any other call, a shell command above all, may change the workspace
and reports nothing (`tools.py:149`), so `affected` does not know of it. The
verifier is the set of contents its checks accept plus the set of writes inside
`allowed_changed_paths`; it is deterministic, its own commands leave the
workspace alone here (they do not in `RunEvidence`), and nobody else edits the
workspace during an ask. A tool that raises leaves the workspace as it was.
A response may carry any ids: none, old ones, new ones, a new one twice; new ids
are numbered in the order of their first use. A textual tool call is a batch of
one call with a new id. Messages are kept from the last assistant message on.
History, traces, artifacts, answers, metrics and the label `state["phase"]` are
left out: no guard of the loop reads them. Time and token overruns may happen at
any moment. The branch at line 252 (tool budget overrun) is kept, and proved dead.
A delegated child agent is a tool call like any other.

### TaskCompletion, and the refinement

`AgentLoop!ImplementsTaskCompletion` instantiates the abstract module with
`content <- ws`, `changed <- ` the `write_file` and `patch_file` calls that took
effect, `demand <- ` what contract and verifier together require (`"never"` when
a verifier is required and none is configured) and `outcome <- ` the task phase,
`failed` once the run is over and not complete. In the abstract module a write is
noted (`Work`) and anything else that changes the workspace is not (`Command`):
what completion promises about changed paths is about the noted ones only, while
its promise about the content is about all the workspace holds.

### AgentSession

A step of the loop, taken by a living process (`LoopStep`), also writes what
that step writes to disk: a checkpoint after each commit (253-263), the session
at the end (308-309). `Crash` may happen in any state. `AskAgain` is the
interactive loop of `cli.py`, `FromSession` and `ResumeRun` take up a session
or a safe checkpoint whose workspace fingerprint matches. `StartAsk` is the
beginning of `ask` on restored state: counters and seen ids start afresh,
messages and completed fingerprints are kept, and the request is appended only
when there are no messages (149). `tried` and `applied` count over the whole
lineage. The model assumes the checkpoint control on (the default); any safe
checkpoint of the lineage may be resumed, since the caller may name one. A
fingerprint tells contents apart, and like the code's cannot tell whether a
content has come back. Five history variables follow that: `altered` counts the
times a call changed the workspace, `returned` says that a call brought an
earlier content back, `newest` is what the snapshot written last knows, `astray`
says that one which knows otherwise was taken up. The run lock is not part of it.

### CaseLifecycle

Agents that end a failed run and people propose (`Propose`, `SaveProposal`:
the list is read first, the card is saved later under a new id) or write cards
themselves (`Author`). `StartReplay` is `cases verify` up to the replay: it
settles the placeholder provider of a card with the value that is tried, whichever
variable that is a value of (`cli.py:110` does not look), and saves it. `Record`
loads the card again and replaces its verification; `ReplayFails` records nothing.
`ReplayApart` is a replay whose result is on no card: its caller may supply it to
`promote`, as `cases.py:128` and `tests/test_complete_spec.py:94-101` do. `Promote`
passes the three gates on such a replay or on the recorded one, and the search for
rivals, and saves the superseded card; `SavePromoted` saves the promoted one as it
was loaded before; `PromotionDies` is the process ending in between. `Reject` and
`Edit` (the workspace changes) may happen at any time.

Abstractions. An override is a variable with a value; whether a replay is good is
the conjunction of the gates on its report, bundle and provenance, none of which
asks which run was replayed, so `proved` keeps the override alone. Listing is one
step, as is loading and saving one card back to back. There is one reviewer. A
digest is the content tagged with the function that took it. No card is ever stored
as stale (no operation saves a card after assessing it), so the freshness gate of
`promote` is always open, as in the code. Expiry, tool schema and context policy
reasons and the ranking of `search` are left out.

### CaseReview, and the refinement

`CaseLifecycle!ImplementsCaseReview` instantiates the abstract module with four
views of the stored cards (status, task signature, override, superseded card) and
`helped <- proved`, the replays that have shown an override to help. Abstractly a
card is opened, settled, verified, superseded or rejected in one step each, by rules
about the store at that moment. A replay under way, a proposal not saved yet and a
promotion between its saves are invisible; the first save of a promotion is
`Supersede`, the second `Verify`, and a promotion that dies in between has still
made a decision that its rule allows.

### ProviderClient

Each thread runs `complete()`: `Call`, `Acquire` (the semaphore), then attempts
(`PostSucceeds`, `PostRetries`, `PostGivesUp`, `PostUndecodable`), and, with the
permit given back, the building of the response (`Malformed`, `ReadMeta`,
`ReadId`: `last_request_meta` is read twice). `Handle` is the caller. The
repository calls a client from one thread; the semaphore is there for several,
so the model has several. A payload is its request id. Categories of failures
are constants, as only whether they may be retried matters; time is left out,
and a thread keeps its permit between attempts, asleep or not. The two other
clients build their responses in the same way. Not modelled: the mapping of
messages, and errors that httpx does not class as HTTP errors.

### AtomicFile and SharedWorkspace

`AtomicFile` is one file and its writers: open under a temporary name (which
truncates what has the name), flush, rename. Its constant `tempOf` says which
name a writer uses: `atomic_json` puts the process id into it, the workspace
index, the memory file and `migrate_artifact` use one fixed name. A writer that
still has the file open when another renames it goes on writing into the final
file, or into a file that has no name any more; the two texts may mix.

`SharedWorkspace` instantiates it twice, as `Index` with one name for all and as
`Session` with a name of each process's own. A process goes through
`resume_run` and `ask`: it builds the index (`DigestFiles`, `FlushIndex`,
`ReplaceIndex`, or `LoseIndex` where its temporary file was renamed away by
another), takes the run's lock or is `Refused`, builds the index again and
loads the checkpoint (`Load`), releases the lock, and starts a run of its own
(`Start`, `ToolStep`, `Report`), with a checkpoint - and one more index - after
every step, then saves the session. A tool call of one process changes files under another
that is just reading them (`moved`); a file that is gone by then raises out of
`build` (`FileVanishes`), after releasing the lock where one is held. `Plan`,
`Remove` and `RemoveFails` are `gc --apply`: the directories are chosen by
modification time, then removed one by one, until one is found gone. Nothing
keeps two collections apart, so `Collectors` of them run at once. `Die` is the
end of a process at any of these steps.

Abstractions. What the digests say is left out, since no property tells one file
tree from another: `Load` may accept or reject any checkpoint that is there
(`AgentSession` has the comparison). The text of a file is whole, empty or torn. A
process starts one run, which bears its name. Modification times are the relation
`newer`; a run's directory is modified when an entry is made in it - the trace, the
report, and the folder `checkpoints` at the first checkpoint (`stores.py:28`), while
later checkpoints and events only change what is inside. The cutoff of
`--retain-days` may fall anywhere, as the caller may give any number. Single steps
are: all of `Start` up to the first checkpoint, one tool call with its events, the
choice of the directories by a collection, and the removal of one directory.
`revived` and `misled` are history: a directory written to since a collection chose
it, and a later collection that counted such a directory among the latest.

### ToolRegistry and RunEvidence

`ToolRegistry` follows `ToolRegistry.run`: availability (`Names`), validation,
approval, resolution of the path, scope, effect. A call that fails at any of
them is `Refuse`; `WriteFile` outside the scope still makes the parent
directory. Path arguments are spellings, several of which name one file
(`Canon`), and some are refused when normalization is off (`Plain`). `Remember`
and `Invalidate` are layered memory. A shell command may change any one file and
reports none; on POSIX a time-out kills the direct child only, so its children may
write later (`StrayWrites`). `behind` is history: the summaries whose file
changed by another way than a tool call under their spelling.

`RunEvidence` extends it. `ToolCall` is a tool of `ToolRegistry` with the
artifact its commit records; `VerifierCommand` is a command of the verifier
(`verifier.py:47-51`), which changes files as a shell command does, without
approval, report or tool step; `Finish` appends the end of the trace
(`runtime.py:296-298`); `Damage` loses, repeats or changes what is stored - what
is compared of an event (`text`) or the rest of it (`rest`); `OfflineReplay`
judges. `ForkStart`, `CopyFile`, `ForkResume`, `ForkEnd` are a
replay in a copy, with `Edit` by others between any two files copied.

Abstractions. Contents are model values, some with a secret that redaction
replaces. The trace of the run before its end is one event. The settings of a
run are context policy, memory and provider (the variables a replay may
override); they are chosen when a replay first reads them, since nothing
before depends on them, and so is whether the bundle is of an older schema
(`legacy`), whose contract replay does not rebuild. A replay with exactly one
override is taken for a counterfactual one. A damage changes no type, path or
sequence number of an event. The replayed run itself is a run of `AgentLoop` and
left out.

### HarnessAB

`Sample` and `Sampled` are `stratified_sample`, one turn of the cursor a step.
For each pair either arm may be first (`BeginPair`). `RunFull` is a whole
run of the full agent, of which only outcome and failure category matter. The
minimal runner is modelled step by step: `StartMinimal`, `OutOfTime`,
`ProviderFails`, `Answer`, `ToolCalls`, `Execute`, `EndBatch`, `LoopEnds`,
`Verify`. `Conclude` is `causal_paired_comparison`, claim gate and conclusion.
A failure category is `"infrastructure"` or another one; the confidence interval
and the safety counts are free booleans, constrained only by what they imply
(a positive interval needs a pair only the full agent passed). `hit` is history:
the provider failed in this run.

## 3. Model checking

All runs use TLC with `-workers 2`; each takes three minutes at most.
`CHECK_DEADLOCK FALSE` is set where the systems really stop: a run
is over when `ask` returns, a session when its asks and crashes are used up,
the case store when cards and replays are, an evaluation with its report, a
replay with its verdict. In `SharedWorkspace` every process may have ended;
`NeverStuck` says that no other process stops. The configuration of
`ProviderClient` checks deadlock: a client can always be called again.

| Run | Configuration | Shows |
|---|---|---|
| `agent_loop` | `AgentLoop.cfg` | type and safety invariants of one ask, that it ends, and that it implements `TaskCompletion` |
| `agent_session` | `AgentSession.cfg` | effects, reuse and recovery over a lineage with crashes and contents that come back |
| `case_store` | `CaseLifecycle.cfg` | what verified and superseded cards rest on |
| `provider_client` | `ProviderClient.cfg` | permits, retries and the metadata of responses |
| `stale_reuse` | `StaleReuse.cfg` | finding: a reused result that is no longer true |
| `resumed_batch` | `ResumedBatch.cfg` | finding: a resumption in the middle of a batch |
| `second_request` | `SecondRequest.cfg` | finding: a second request that is not delivered |
| `stale_dependencies` | `StaleDependencies.cfg` | finding: a dependency that did not change counts as changed |
| `shared_workspace` | `SharedWorkspace.cfg` | locks, shared files, run directories of processes that may die, beside garbage collections that overlap |
| `run_evidence` | `RunEvidence.cfg` | effects of tools, memory, artifacts, bundles and replays |
| `harness_ab` | `HarnessAB.cfg` | samples, exclusions and conclusions of the paired evaluation |
| `confounded_replay` | `ConfoundedReplay.cfg` | finding: a replay with a second difference is not called confounded |

**Bounds.** `AgentLoop.cfg`: a patch outside the allowed paths and a command that
reports no path and may put the workspace right, three contents of which one is
accepted, batches of one or two calls, four steps, three attempts, three model and
three tool calls, and six setups: with and without contract and verifier, and each
ablation of `harness_ab.py` that changes the loop. The interesting interplay needs
two different calls (one that spoils, one that repairs what the verifier sees), a
repetition of one of them (three identical calls are needed for the block, hence
three tool calls and more than one batch), and a batch whose second call is
truncated, rejected or left unexecuted; step limit and tool budget differ so that
each becomes the binding one (about 0.6 million states). `AgentSession.cfg`: a
patch and the patch that undoes it, so that the first checkpoint matches again;
batches of one call, two steps and attempts per ask, three asks, two crashes -
enough to crash, resume, crash in the resumed run and resume again from the older
or the newer checkpoint (2.2 million states); the finding on batches uses two
calls. `CaseLifecycle.cfg`: three cards are needed for "one superseded, one
promoted, a third that rivals either", one replay that is recorded and any number
that are not, one run, one signature (cards of different tasks do not interact), two
overrides: one of the provider and one of the context policy, whose value settles a
provider with what is none (0.4 million states). A card that supersedes one of two
rivals is reached; that two superseding cards both keep a contradiction needs more
signatures or overrides and is left to the theorem. Cards are symmetric (only safety
is checked there). `ProviderClient.cfg`: two threads and one permit so that they
compete, two retries so that there is a first, a middle and a last attempt, two
requests, and failures of two categories each that may and may not be retried (one
category is both); the proofs cover any number of each. `SharedWorkspace.cfg`: two
processes are enough for two builders of one index, one of which renames the other's
temporary file away, for two that want one lock, for one that continues the run of
the other, and for one that changes files the other reads; one tool step each, so
that a run makes a checkpoint after its directory was removed; one may die; two
collections that overlap, so that one removes what the other chose or counted.
Processes and collections are symmetric (2.1 million states). `RunEvidence.cfg`:
two files, one of them under two spellings, a path outside the workspace, one
content with a secret, two tool calls or commands of the verifier (a write and a
shell command on one file, a read and a write under another spelling, a write and a
command of the verifier), two damages (one that is undone by the second - the last
event lost and another stored twice - is what contiguous numbers must catch), one
edit during a replay, five setups and two modes (3.9 million states). The number
of recent files is bounded by 1 there. `ConfoundedReplay.cfg` makes no calls.
`HarnessAB.cfg`: one task three times (three pairs, so that one can be excluded and
two decide), a sample of three from four tasks in two categories of which one is
exhausted, and of three from five in three; two model and three tool calls,
responses of up to three calls, so that either budget may end the loop and a batch
is cut. Tasks of one category are symmetric.

**Fairness.** The loop runs on its own thread, but not every call it makes must
return. On POSIX a time-out kills only the command itself, and `communicate()` then
waits for whoever still holds its output, without a time-out
(`execution.py:104-107`); HTTP time-outs are per read; an approver may never answer.
`Awaiting` names these states, and `AgentLoop` has weak fairness of
`~Awaiting /\ Next` only: a step that waits for nobody is eventually taken.
`Terminates` says accordingly that the run ends unless it waits for the model, a
tool or the verifier for good. No fairness is assumed between alternatives: the
model may be as unhelpful as it likes. `ProviderClient` has weak fairness of each
thread's attempt - here the time-outs of httpx and a back-off that ends are assumed,
see section 7; no fairness of `Acquire`, as Python's semaphore promises none, so that
nothing is said about waiting threads.
`AgentSession`, `CaseLifecycle`, `RunEvidence` and `HarnessAB` have no fairness
and state no liveness: nobody has to resume a run, review a card or replay a
bundle. `SharedWorkspace` states instead that a process always has a step to
take (`NeverStuck`), which is what its code owes its scheduler.

**Mutants.** Each property of a passing run has a mutant: an operator `Mut...`
next to a definition that changes it the way a plausible slip would, and under
which the property fails.

## 4. What the properties say

*Agent loop.* `BatchAnswered`: whenever the model is about to be called, every
call of the last batch has exactly one answer, all answers come first, feedback
after them. `ToolBudget`: steps and tool calls agree and stay in their limits,
line 252's overrun never happens. `AppliedAtMostOnce` and `RetriesBounded`: the
governance. `CompletionJustified`: completion and success stops coincide, and
completion rests on checks that pass on the workspace as it was left, whoever
changed it, and on allowed paths for every write that is reported; where commands
wrote nobody checks. `ReportTruthful`: failure categories and limits in the report
are real. `Terminates`, `ImplementsTaskCompletion`.

*Session.* `AlteredTwiceOnlyAstray`: a call changes the workspace twice only if two
things happened that the fingerprint cannot see - a call brought an earlier content
back, and an older snapshot that matches it was taken up. Neither alone does:
without the first no older snapshot matches, without the second the agent knows what
it did. `ReuseGrounded`, `Recoverable` over all asks, crashes and resumptions.

*Cases.* `VerifiedOnEvidence`: by a passing replay, recorded on the card or supplied
to `promote`. `NoDuplicateVerified`, `ConflictOnlyBySuperseding`,
`SupersededForEvidence`, `ImplementsCaseReview`.

*Provider client.* `PermitsBalance`, `PermitsReturn`: no way out of a call loses
a permit, and each call under way ends. `RetriesUsedUp`: not one retry too many
or too few. `ResponseCorrelated`: a response not overtaken by another call is
about its own request.

*Shared workspace.* `LockMeansLoading`: the lock excludes as long as a checkpoint
is read, and a lock that stays is a dead process's. `FilesIntact`: what is never
torn, and for which three reasons alone a run fails. `KeepsLatest`,
`InProgressKept`: what garbage collections leave, whatever happens between
choosing and removing, but for a directory its run wrote to meanwhile. `NeverStuck`:
nobody waits for a lock, a file or a directory.

*Tools and evidence.* `RunAccounted`: a file differs from what the run began with
only where the run reports and the contract allows it, or a command ran, and not
at all without approval, as long as no command of the verifier ran.
`MemoryFresh`: what the prompt's file summaries can be relied on for.
`ArtifactsCurrent`: the same for artifacts. `BundleJudged`: up to two damages cannot
make a bundle pass that lost or gained an event, or in which something changed that
is compared (of the verifier's event passed and status only, `replay.py:102`), and
an untouched bundle passes exactly when no artifact held a secret. `ForkFaithful`:
what a replay that reports its source unchanged has run on, and with.

*Evaluation.* `SampleBalanced`, `NoOutageCounted`, `ConclusionSound`: no task twice
and categories in balance; no failure of the provider counted against an agent, and
no pair excluded without one; what a supported gain rests on, and when the report is
lost.

## 5. Findings

1. **Resumption in the middle of a batch** (`resumed_batch`, `runtime.py:262`).
   A checkpoint is written after each commit of a batch and is resumable; the
   resumed run calls the model with the rest of the batch unanswered, against
   the comment at `runtime.py:280-281`.
2. **A second request is not delivered** (`second_request`, `runtime.py:149`).
   `ask` appends the request only to empty messages, while the HTTP clients
   send the messages in place of the prompt.
3. **Stale reuse** (`stale_reuse`, `runtime.py:230`). A patch, a call that undoes
   it, the patch again: the third call is answered as a committed success while the
   file is without the patch. (The final verdict is still about the file as it is:
   `CompletionJustified` holds.)
4. **Dependencies are never fresh** (`stale_dependencies`, `cases.py:98`). A
   card stores the digest of a JSON text and compares it with the digest of a
   file's bytes, so a card with a dependency is always `dependency_changed`, and is
   never among the "verified, fresh cases" of `README.md:70`.
5. **A confounded replay is not called so** (`confounded_replay`,
   `replay.py:148`, against `README.md:68`). Overriding the provider of a run that
   had a minimal context policy or no memory changes that setting too, since a replay
   resumes with the defaults; only contract and provider are compared, and the
   contract is rebuilt from a v3 bundle. (A v1 or v2 bundle is always marked.)

In two more places a document promises more than the code does, and in one a report
is lost. The models have what the code does; the conclusions are drawn here, not
by a run:

* `README.md:26` says that the local backend terminates the process tree. On POSIX
  it kills the command alone (`execution.py:104-107`): its children may write later
  (`StrayWrites` in `ToolRegistry`) and may keep the loop waiting (`AwaitsTool` in
  `AgentLoop`). On Windows `taskkill /T` does what is said.
* `README.md:43`, and the limitation written at `harness_ab.py:267`, say that
  infrastructure-failed pairs are excluded. The minimal runner clears its failure
  category when its verifier passes (`harness_ab.py:139`), so a pair whose minimal arm
  had a provider failure after its work was done is counted; the full agent keeps the
  category, and its pair is excluded. Theorem `ExclusionIsExact` states which pairs
  are. What the sentence is for does hold: no failure is counted against an agent
  (`NoOutageCounted`).
* When every pair was excluded, `harness_ab.py:339` compares `None` with 0 and
  the report is not written; `ConclusionSound` says that this is the only way to
  lose it.

What the models show besides, without a promise of the repository that it
contradicts, or stated by a property exactly as the code has it:

* An older checkpoint matches again once a call restores its content; the agent
  resumed from it repeats the calls made since (`AlteredTwiceOnlyAstray` names both
  conditions).
* Commands are not held to `allowed_changed_paths`: they report no path
  (`tools.py:149`). Commands of the verifier change files without any record.
* `cases verify` settles an undecided provider with whatever value it is given,
  also that of another variable (`cli.py:110`); such a card can be verified by no
  recorded replay.
* Two collections that overlap can leave fewer directories than `--retain-latest`
  when a run writes to a directory one of them has chosen.
* Changed checks or a changed failure category in a stored verifier event go
  unnoticed (`replay.py:102`).
* A body that is no JSON raises without setting `last_request_meta`
  (`providers.py:125`), so the minimal runner records the metadata of the
  request before with the failure (`harness_ab.py:99`).
* The lock covers the loading of a checkpoint only. Two processes can continue
  one run one after the other and then work side by side; a process that dies
  under the lock leaves the run locked until somebody removes the file.
* Two processes that build the workspace index at once can leave it torn (it is
  then rebuilt: `workspace.py:72`) or raise `FileNotFoundError` out of `ask`, as
  does a file that another process removes while the index is built.
* Garbage collection can remove the directory of a run in progress; the run then
  fails at its next trace event, or finishes with a trace that lost its beginning.
* The request of a run is redacted in its checkpoints but not in their digest
  (`runtime.py:137`, `stores.py:30`): such a run cannot be resumed. An artifact
  with a secret makes an untouched bundle inconsistent.
* A replay resumes with approval policy `never` and all tools (`replay.py:131`),
  so the run of an agent with another policy or fewer tools raises
  `ResumeMismatch`.
* Two edits that cancel out between the digests of a replay's source go unnoticed.

Two weaknesses of promotion that contradict no promise of the repository, so
that no property states them: after a promotion dies between its saves, a retry
is refused since the superseded card is no longer verified; and a card that
supersedes *any* verified card is exempt from the conflict check against all
others (`ConflictOnlyBySuperseding` says exactly this much).

## 6. Proofs

TLAPS proves the following for all tools, setups, limits, crashes, cases, replays,
proposers, threads, retry policies, suites and evaluation budgets, from the named assumptions on the
constants (`ToolsAssumption`, `SetupsAssumption`, `LimitsAssumption`;
`CasesAssumption`; `ClientAssumption`; `SharedAssumption`; `ToolAssumption`,
`EvidenceAssumption`; `HarnessAssumption`), which TLC evaluates in the runs.

`AgentLoopProofs` is layered; each invariant is inductive relative to the ones
before it:

1. `TypeInv`: `TypeOK`, and a call in hand is one of the executable calls of
   the batch (needed to type `Current`). Theorem `TypeOKHolds`.
2. `BudgetInv`: what the open batch may still spend (`Reserved`) is within both
   limits, because the batch was cut when it arrived. `ToolBudgetHolds`.
3. `GovernanceInv`: a call that took effect is on record, so it is never run
   again; the tries of a call are paid for by its count (at most two) and, as a
   granted repair clears the count, by two for each repair.
   `AppliedAtMostOnceHolds`, `RetriesBoundedHolds`.
4. `CompletionInv`: the reported paths are the `write_file` and `patch_file` calls
   that took effect but for the one in flight, so the verdict that opens a gate covers
   all of them; the content it is about is the workspace's, whoever changed it.
   `CompletionJustifiedHolds`.
5. `ReportInv`: from the end of the loop on, a task that is not complete has a
   failure category and a named limit was reached. `ReportTruthfulHolds`.
6. `ReplyInv`: the first calls of an open batch are answered in order (`Given` of
   them). Closing it answers the truncated calls before those a passing verifier
   left unexecuted, so the answers are a permutation of the calls (`Place`), and
   the calls of an id are as many as its answers. `BatchAnsweredHolds`.
7. `RefinesTaskCompletion`: every step of the loop is a step of
   `TaskCompletion` or leaves its variables alone.
8. `LengthInv` and the measure `StepsLeft`: the attempts left, times the steps an
   attempt can take (`AttemptSteps`), plus what the place of the loop leaves of
   this one. Every step lowers it: `EveryStepCounts`. It starts at
   `MaxAttempts * (5 * MaxBatch + 5) + 2` at most: `AskIsBounded`. Together they
   are the safety half of `Terminates`, which TLC checks; what is left to
   fairness is that a step that waits for nobody is taken.
9. `EffectInv`: where the workspace is not one that a call which took effect leaves,
   another call that took effect can change the workspace; and a reused result is of
   a call that took effect. `StaleReuseDelimited`: the finding `stale_reuse` needs
   such another call.

`AgentSessionProofs` lifts `TypeStep` to sessions and adds, each over every ask,
crash and resumption:

1. `SessionTypeInv`: the types of the agent and of what is on disk.
   `SessionTypeOKHolds`.
2. `ReuseGrounded` is inductive as it stands. `ReuseGroundedHolds`.
3. `RecoveryInv`: except between effect and commit, some checkpoint matches the
   workspace and knows all the agent knows. `RecoverableHolds`.
4. `ForwardInv` and `LineInv`, one for each way to be safe. While no content came
   back, every snapshot that matches the workspace was written after the last change
   to it, so it knows all changes. While no older snapshot was taken up, the newest
   one knows every change but one not on record, and that one it no longer matches.
   Either way the agent knows every call that changed the workspace (`Aware`), and a
   call it knows is answered, not run. `AlteredTwiceOnlyAstrayHolds` follows from the
   two together. It assumes that every setup has the side-effect governance on
   (`Governed`), as `AppliedAtMostOnce` does.
5. `AskInv`: `BudgetInv`, `LengthInv`, `DueInv` and `ReportInv` are about one
   ask, which starts afresh after a resumption, so each survives every step of a
   session. `EveryAskWithinBudget`, `EveryAskReportsTruthfully`,
   `EveryAskIsBounded`, and `EveryAskJustified` in place of
   `CompletionJustified`: a completion rests on a verdict about the workspace as
   it is and the paths *this ask* reports. The stronger property is false over a
   session, as `affected_paths` starts empty (`runtime.py:147`).
6. `AnsweredInv`, under `BetweenBatchesSpec`, which leaves out one thing only: a
   resumption from a checkpoint written in the middle of a batch. There every
   call is answered in every ask (`AnsweredUnlessResumedInBatch`), so the finding
   `resumed_batch` has no other cause.
7. `EveryAskIsATask`: the refinement of `TaskCompletion` for a session. The task is
   that of the ask in hand, so its changes are what this ask reports and has in
   flight (`InFlight`). A step of the loop is a step of `TaskCompletion`
   (`LoopIsTask`, from `DueInv` at both ends of the step), a crash is none, and a
   new ask or a resumption opens another task on the workspace as it is
   (`NewTask`).

`CaseLifecycleProofs`:

1. `TypeInv`: the types, and that a promotion in hand still agrees with its
   card on task, override and supersession (nobody else may change them then).
   `CasesTypeCorrect`.
2. `CardsStable`: no step deletes a card, changes its task or what it
   supersedes, changes an override that is settled, or makes a decided card a
   candidate again. `DecisionsLastHolds`, which the refinement below replaces as
   the property of the run.
3. `EvidenceInv`: good evidence on a card, on the card held by a promotion and
   behind each supersession is of a replay that passed; a replay supplied to
   `promote` is one. `VerifiedOnEvidenceHolds`,
   `SupersededForEvidenceHolds`.
4. `RivalInv`: what the search for rivals found stays true until the promoted
   card is saved, as only that save makes a card verified (`VerifiedOrigin`).
   `NoDuplicateVerifiedHolds`, `ConflictOnlyBySupersedingHolds`.
5. The refinement, one step per action: what an action does to a card it does to
   the views (`ViewReplaced`, `ViewKept`). `EvidenceInv` gives the evidence behind a
   save, `RivalInv` that the rivals found when a promotion began are those of its
   last save. `ImplementsCaseReviewHolds`.
6. `DigestInv`: wherever a card is - stored, being proposed, held by a promotion -
   its dependency is the digest of a JSON text. `OnlyDependencyFreeIsFresh`: no
   card with a dependency is ever fresh, so the finding `stale_dependencies` is
   about all of them.

`ProviderClientProofs`:

1. `TypeInv`: the types, `PermitsBalance` (a step moves one thread into or out
   of the set of holders, whose cardinality follows), and `CallInv`, which ties
   attempts and errors to the place of the call. `ClientTypeCorrect`,
   `PermitsBalanceHolds`, `RetriesUsedUpHolds`.
2. `CorrelationInv`: while a thread is the last that set the metadata, it is
   about this thread's request. `ResponseCorrelatedHolds`. With one thread,
   which some request has made the last to set the metadata by the time a response is
   built (`WriterInv`), every response is about its own request:
   `SoleCallerCorrelated`.
3. The measure `PostsLeft`: an attempt of a thread lowers it, nothing else
   changes it while the thread holds its permit. `RequestsAreBounded`, the safety
   half of `PermitsReturn`.

`AtomicFileProofs`: while no two writers of one name overlapped, each name has at
most one writer at work, its file is under that name, empty until it flushed and
whole after (`Alone`); hence `FilesStayIntact`. With a name per writer no two
ever overlap (`OwnNamesSuffice`).

`SharedWorkspaceProofs`:

1. `SharedImplementsAtomicFile`: each step of the workspace is a step of the index
   file, or of the session file, or leaves them alone, so it implements
   `AtomicSpec` twice. The lemmas of `AtomicFileProofs` are instantiated for the
   two files rather than proved again (`FilesInv`).
2. `SharedInv`: types, `Busy` (what a process has in hand agrees with its place)
   and `LockMeansLoading`. `SharedTypes`, `LocksHold`.
3. `FailureCaused`: every failed run has one of its three excuses, and an excuse
   stays: only a run's own process makes its directory again, and that one is
   over. `FilesHold`.
4. `GarbageInv`: a directory that some collection has yet to remove has enough
   newer ones, or was written to since. `RunsInProgressKept`.
5. `LatestInv`: while no collection was misled, enough directories are chosen by
   none (`EnoughKept`), and each chosen one that its run left alone is older than that
   many of them, so that the next choice cannot count it among the latest. It needs
   that a set of directories has a newest one. Induction over finite sets is out
   of reach, so this is an invariant of the specification itself (`Ordered`): it
   holds at first, when all but one are equally old, and the directory touched
   last is newer than all. `LatestKept`.
6. The measure `StepsLeft` of a process: the steps of the phases, tool calls and
   file replacements it has ahead. Its own steps lower it, those of others leave
   it alone, and it is zero only where the process has ended
   (`ProcessesUndelayed`): nobody is made to work for ever, and with `NeverStuck`
   nobody waits.
7. `OrphanedLockStays`, an action property: a lock is only taken while free and only
   given up by its living holder (`LockMoves`), and the dead do not move
   (`StepOfLiving`), so after a crash during loading every process that wants the run
   is refused. The lock file names its owner, but nothing reads it.

`RunEvidenceProofs`, first part: `ChangesInv` adds to `ChangesAccounted` that no
command ran where every changing call is refused (both hold only while no command of the
verifier ran, which needs no approval); `MemoryInv` that summaries are of files in
the workspace. `OthersDistinct` is the lemma on `Others`: a list without
repetitions keeps its other entries and loses the one. `ChangesAreAccounted`,
`MemoryIsFresh`. The second part extends both to the whole of a run: each step
is one of `ToolRegistry`, an edit by others or leaves its variables alone.
`CopyInv`: a copied file is what the digest saw unless an edit came first, and
after one edit the source differs from the digest. `EvidenceTypes`,
`RunIsAccounted`, `RunMemoryFresh`, `ArtifactsAreCurrent`, `ReplaysFaithful`.
From the last follows `LegacyReplaysMarked`: the mark of a confounded replay is set
for bundles of v1 and v2 and for no other, whatever differs, which makes the finding
`confounded_replay` a statement about every replay of a v3 bundle.

The third part is about bundles. `BundleInv`: the stored trace consists of events
of the run in one order of the artifacts, some with a garbled payload, and is that
order as a whole while nothing was damaged (`StoredInv`); a judgement is that of
the bundle as it is (`JudgementInv`). The sequence number of an event says which
event of the run it is (`StoredEvent`), so contiguous numbers rule out a lost,
repeated or misplaced one, and the final report and verifier events rule out a lost
end (`ConsistentWhole`). `BundlesAreJudged`, for any number of files and damages.
`EvidenceAssumption` says for this that a garbled payload is no content, no digest
and no verdict, since `BundleJudged` asks that a change in what is compared be
noticed.

`HarnessABProofs`, seven arguments:

1. `RunnerInv`: the minimal runner runs only while it is due, and until its
   verifier has run it remembers a failure of the provider exactly when there was
   one. `HarnessTypes`, which bounds the calls of every run by its budgets.
2. `OutcomesExact`, from `RunnerInv`: what a recorded outcome says of the
   provider. `OutagesNotCounted`, and `ExclusionIsExact` for what the code excludes
   exactly.
3. `RoundInv`: after r whole rounds every category before the cursor has given at
   most r + 1 tasks, every other at most r, and exactly that many while it has
   tasks left; `SampleBalanced` alone does not know where the cursor is.
   `TakenAppend` says what one draw does to the counts. A suite the limit does
   not exceed is listed instead, and a listing onto as many tasks as it has
   places repeats none (`ListingEnumerates`). `SampleIsBalanced`.
4. `ConclusionInv`: a conclusion is reached once. With fewer than 50 pairs a rate
   of at most 2% is no failure at all (`NoFailureInFewPairs`), so nothing was
   excluded and the discordant pairs decide (`LargerByDifference`).
   `ConclusionIsSound`.
5. `SizeInv`: what is selected and what is left make up the suite, so a sample
   short of its limit finds a category with tasks left. `SampleIsFilled`.
6. `PairedInv`: the variants due and the outcomes recorded agree, one run apart at
   most. `ArmsAreComplete`.
7. A measure in lexicographic order (`Nearer`): the phases left, the tasks to draw,
   the exhausted categories the cursor passes before one that has tasks, the runs to
   record, the steps the budgets leave of a run. A turn that draws nothing removes
   the category at the cursor from those (`MissPasses`), as by `SizeInv` not all are
   empty. Each part is a natural number and each step lowers the whole, so an
   evaluation cannot go on for ever: `EvaluationRunsOut`.

Model-checked only, since out of the prover's reach: `NeverStuck` (stated with
ENABLED), and `Terminates`, `PermitsReturn` and the liveness part of
`ImplementsTaskCompletion`, whose safety halves are proved as bounds. The
properties of the runs that expect a violation are false; the theorems that say
where they fail are `StaleReuseDelimited`, `AnsweredUnlessResumedInBatch`,
`OnlyDependencyFreeIsFresh` and `LegacyReplaysMarked`. Of `second_request` nothing
more is said than the run shows.

## 7. What is not modelled

* **Messages and ids** (`providers.py:17-55, 175`): the mapping of messages to
  the provider formats and the ids invented for Ollama calls. `AgentLoop` covers
  what the loop does with repeated ids.
* **Context budget** (`context_manager.py`): the reduction loop over the sizes of
  prompt sections. No other part reads its outcome; it would be the next module.
* **Delegation**: a delegated child is one tool call; its budget is not related
  to its parent's (`runtime.py:83`).
* **The checks of the verifier** and their exceptions (`verifier.py`): a total
  verdict in `AgentLoop`. The verdicts over a lineage of runs, whose
  `affected_paths` start afresh (`runtime.py:147`), are covered by
  `EveryAskJustified` for each ask only; `self.max_steps`, which contracts lower
  for good (`runtime.py:144`), stays as it is in a session.
* **Lineage and migration** (`operations.py:22-28, 40-47`): they read reports and
  rename a schema; the file handling of migration is that of `AtomicFile`.
* **The index's reuse of digests** by size and modification time
  (`workspace.py:79`): fingerprints are taken to tell contents apart.
* **Real time**: httpx time-outs are per operation, a `retry-after` header is slept
  as it stands (`providers.py:129`); `PermitsReturn` assumes that both end.
* **Commands**: their splitting (`execution.py:63-91`) is a scanner without state
  that outlives it; containers are external.
* **Ablations and statistics** of the evaluation, `release_decision`, the other
  drivers, a second reviewer in `CaseLifecycle`.
* Changes by a verifier's command in `AgentLoop`, whose verdict leaves the
  workspace alone: `RunEvidence` has them, where files and artifacts are told apart.
* Liveness of `SharedWorkspace`: its state space with fairness is beyond a run of
  five minutes.

Left out for good: floating-point statistics (confidence intervals, latencies),
parsing of source files into symbols, HTML and console output, health probes,
and the task texts of the evaluation suites: data or pure input and output, no
protocol.
