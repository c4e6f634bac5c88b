---- MODULE SharedWorkspace ----
(***************************************************************************)
(* Processes that continue runs in one workspace directory: the run lock,  *)
(* the workspace index every process rebuilds through one temporary name,  *)
(* the checkpoints and reports of the runs, the session file, and garbage  *)
(* collections beside them, which may overlap.  A process may die at any   *)
(* step.  The run a process starts is named by the process.                *)
(***************************************************************************)
EXTENDS Naturals, FiniteSets

CONSTANTS Processes, Origin,   \* Origin: an interrupted run of an earlier process
          NoOwner,
          RetainLatest,        \* gc --retain-latest
          MaxSteps,            \* bound: tool steps of a process
          MaxDeaths,           \* bound: processes that die
          Collectors           \* bound: those that run gc --apply at once

Runs == Processes \cup {Origin}

ASSUME SharedAssumption ==
    /\ IsFiniteSet(Processes) /\ Origin \notin Processes /\ NoOwner \notin Processes
    /\ RetainLatest \in Nat /\ MaxSteps \in Nat /\ MaxDeaths \in Nat

VARIABLES pc, job,              \* job[p]: the run process p continues
          steps,
          moved,                \* the files changed while a process read them
          lock,                 \* holder of each run's lock file
          dir,                  \* directory of each run: "absent", "open", "reported"
          entries,              \* what a run directory holds, of Entries
          gap,                  \* the trace has lost its beginning
          newer,                \* runs whose directory was modified after that of a run
          created,              \* history: runs whose directory was ever made
          doomed,               \* directories a collection has yet to remove
          revived,              \* those of them written to since it planned
          misled,               \* history: a collection kept what another then removed
          indexTemp, indexFile, indexStage, indexRivals,
          sessionTemp, sessionFile, sessionStage, sessionRivals

runvars == <<dir, entries, gap, newer, created>>
gcvars == <<doomed, revived, misled>>
indexvars == <<indexTemp, indexFile, indexStage, indexRivals>>
sessionvars == <<sessionTemp, sessionFile, sessionStage, sessionRivals>>
vars == <<pc, job, steps, moved, lock, runvars, gcvars, indexvars, sessionvars>>

\* Mutant: one temporary name for every process's session.
MutOwnName == [p \in Processes |-> CHOOSE q \in Processes : TRUE]

\* workspace-index.tmp is one name for all; a session's temporary file carries
\* the process id.
OneName == [p \in Processes |-> "index.tmp"]
OwnName == [p \in Processes |-> p]
Index == INSTANCE AtomicFile WITH Writers <- Processes, Names <- {"index.tmp"},
    tempOf <- OneName,
    temp <- indexTemp, file <- indexFile, stage <- indexStage, rivals <- indexRivals
Session == INSTANCE AtomicFile WITH Writers <- Processes, Names <- Processes,
    tempOf <- OwnName,
    temp <- sessionTemp, file <- sessionFile, stage <- sessionStage, rivals <- sessionRivals

Indexing == {"building", "loading", "checkpointing", "fingerprinting"}
Locked == {"loading", "checking", "accepted", "rejected"}
Ended == {"done", "refused", "failed", "dead"}
PCs == {"idle", "built", "starting", "running", "saving"} \cup Indexing \cup Locked \cup Ended

Entries == {"trace", "checkpoints"}

SharedTypeOK ==
    /\ pc \in [Processes -> PCs]
    /\ job \in [Processes -> Runs \cup {NoOwner}]
    /\ moved \in [Processes -> BOOLEAN]
    /\ steps \in [Processes -> 0 .. MaxSteps]
    /\ lock \in [Runs -> Processes \cup {NoOwner}]
    /\ dir \in [Runs -> {"absent", "open", "reported"}]
    /\ entries \in [Runs -> SUBSET Entries]
    /\ gap \in [Runs -> BOOLEAN]
    /\ newer \in [Runs -> SUBSET Runs]
    /\ created \in SUBSET Runs
    /\ doomed \in [Collectors -> SUBSET Runs]
    /\ revived \in [Collectors -> SUBSET Runs] /\ misled \in BOOLEAN
    /\ Index!AtomicTypeOK /\ Session!AtomicTypeOK

Init ==
    /\ pc = [p \in Processes |-> "idle"] /\ job = [p \in Processes |-> NoOwner]
    /\ moved = [p \in Processes |-> FALSE] /\ steps = [p \in Processes |-> 0]
    /\ lock = [r \in Runs |-> NoOwner]
    /\ dir = [r \in Runs |-> IF r = Origin THEN "open" ELSE "absent"]
    /\ entries = [r \in Runs |-> IF r = Origin THEN Entries ELSE {}]
    /\ gap = [r \in Runs |-> FALSE]
    /\ newer = [r \in Runs |-> IF r = Origin THEN {} ELSE {Origin}]
    /\ created = {Origin}
    /\ doomed = [c \in Collectors |-> {}] /\ revived = [c \in Collectors |-> {}]
    /\ misled = FALSE
    /\ Index!AtomicInit /\ indexFile = "whole"      \* the origin's process wrote it
    /\ Session!AtomicInit /\ sessionFile = "absent" \* and died before its session

Goto(p, from, to) == pc[p] = from /\ pc' = [pc EXCEPT ![p] = to]

\* resume_run: the workspace index is built before the lock is taken.
Begin(p, r) ==
    /\ Goto(p, "idle", "building") /\ dir[r] # "absent"
    /\ job' = [job EXCEPT ![p] = r]
    /\ UNCHANGED <<steps, moved, lock, runvars, gcvars, indexvars, sessionvars>>

\* Entries of the run directory are made: it appears if a collection removed
\* it, and its modification time is now.
Touch(p, status, made) ==
    /\ dir' = [dir EXCEPT ![p] = status]
    /\ entries' = [entries EXCEPT ![p] = @ \cup made]
    /\ newer' = [r \in Runs |-> IF r = p THEN {} ELSE newer[r] \cup {p}]
    /\ revived' = [c \in Collectors |-> revived[c] \cup ({p} \cap doomed[c])]
    /\ created' = created \cup {p}

\* A process lists and digests the files one by one, before it opens its
\* temporary file.
Reading(p) == pc[p] \in Indexing /\ indexStage[p] = "idle"

\* WorkspaceContext.build: all files are digested, and the index is about to be
\* written.  If another process changed them meanwhile, the digests are of some
\* files from before and some from after.
DigestFiles(p) ==
    /\ pc[p] \in Indexing /\ Index!OpenTemp(p)
    /\ moved' = [moved EXCEPT ![p] = FALSE]
    /\ UNCHANGED <<pc, job, steps, lock, runvars, gcvars, sessionvars>>

\* What an error that leaves build does: resume_run's finally still releases
\* the lock, ask has no handler for it.
Raise(p) == pc' = [pc EXCEPT ![p] = IF pc[p] = "loading" THEN "rejected" ELSE "failed"]

\* A file is gone between its listing and its reading: FileNotFoundError.
FileVanishes(p) ==
    /\ Reading(p) /\ moved[p] /\ Raise(p)
    /\ UNCHANGED <<job, steps, moved, lock, runvars, gcvars, indexvars, sessionvars>>

FlushIndex(p) ==
    /\ Index!Flush(p)
    /\ UNCHANGED <<pc, job, steps, moved, lock, runvars, gcvars, sessionvars>>

AfterIndex == [building |-> "built", loading |-> "checking", checkpointing |-> "running",
               fingerprinting |-> "saving"]

\* The fingerprint goes to the caller; _checkpoint then writes the checkpoint.
\* The first one makes the folder checkpoints in the run's directory, and that
\* too where a collection removed it.
ReplaceIndex(p) ==
    /\ Index!Rename(p)
    /\ pc' = [pc EXCEPT ![p] = AfterIndex[pc[p]]]
    /\ \/ /\ pc[p] = "checkpointing"
          /\ gap' = [gap EXCEPT ![p] = @ \/ dir[p] = "absent"]
          /\ IF "checkpoints" \in entries[p]
             THEN UNCHANGED <<dir, entries, newer, revived, created>>
             ELSE Touch(p, "open", {"checkpoints"})
       \/ pc[p] # "checkpointing" /\ UNCHANGED <<runvars, revived>>
    /\ UNCHANGED <<job, steps, moved, lock, doomed, misled, sessionvars>>

LoseIndex(p) ==
    /\ Index!RenameFails(p) /\ Raise(p)
    /\ UNCHANGED <<job, steps, moved, lock, runvars, gcvars, sessionvars>>

\* Mutant: the lock file is opened without O_EXCL.
MutAcquire(p) ==
    /\ Goto(p, "built", "loading")
    /\ lock' = [lock EXCEPT ![job[p]] = p]
    /\ UNCHANGED <<job, steps, moved, runvars, gcvars, indexvars, sessionvars>>

\* RunLock.acquire: O_CREAT | O_EXCL.
Acquire(p) ==
    /\ Goto(p, "built", "loading") /\ lock[job[p]] = NoOwner
    /\ lock' = [lock EXCEPT ![job[p]] = p]
    /\ UNCHANGED <<job, steps, moved, runvars, gcvars, indexvars, sessionvars>>

\* Mutant: a process waits for the lock instead of raising.
MutRefused(p) == FALSE /\ UNCHANGED pc

Refused(p) ==
    /\ Goto(p, "built", "refused") /\ lock[job[p]] # NoOwner
    /\ UNCHANGED <<job, steps, moved, lock, runvars, gcvars, indexvars, sessionvars>>

\* _resume_unlocked: a checkpoint must be there, and agree with the runtime and
\* with the files just digested, which may be so or not (AgentSession).
Load(p) ==
    /\ \/ Goto(p, "checking", "rejected")
       \/ Goto(p, "checking", "accepted") /\ "checkpoints" \in entries[job[p]]
    /\ UNCHANGED <<job, steps, moved, lock, runvars, gcvars, indexvars, sessionvars>>

\* RunLock.release, in the finally clause.
Release(p) ==
    /\ Goto(p, "accepted", "starting") \/ Goto(p, "rejected", "failed")
    /\ lock' = [lock EXCEPT ![job[p]] = NoOwner]
    /\ UNCHANGED <<job, steps, moved, runvars, gcvars, indexvars, sessionvars>>

\* ask: the directory of the new run, its task state and trace, and the first
\* checkpoint.
Start(p) ==
    /\ Goto(p, "starting", "checkpointing") /\ Touch(p, "open", {"trace"})
    /\ UNCHANGED <<job, steps, moved, lock, gap, doomed, misled, indexvars, sessionvars>>

\* A call changes the workspace's files, under whoever reads them just then.
Changed ==
    moved' = [q \in Processes |-> moved[q] \/ Reading(q)]

\* A trace event cannot be appended without its directory; the first one there
\* makes the file.
AppendTrace(p) ==
    /\ dir[p] # "absent"
    /\ IF "trace" \in entries[p] THEN UNCHANGED <<dir, entries, newer, revived, created>>
       ELSE Touch(p, "open", {"trace"})
    /\ UNCHANGED gap

\* Mutant: the step limit is checked after the step.
MutToolStep(p) ==
    /\ steps[p] <= MaxSteps
    /\ Goto(p, "running", "checkpointing") /\ AppendTrace(p) /\ Changed
    /\ steps' = [steps EXCEPT ![p] = @ + 1]
    /\ UNCHANGED <<job, lock, doomed, misled, indexvars, sessionvars>>

\* A tool step: trace events around a call that may change the workspace, then
\* a checkpoint.
ToolStep(p) ==
    /\ steps[p] < MaxSteps
    /\ Goto(p, "running", "checkpointing") /\ AppendTrace(p) /\ Changed
    /\ steps' = [steps EXCEPT ![p] = @ + 1]
    /\ UNCHANGED <<job, lock, doomed, misled, indexvars, sessionvars>>

TraceFails(p) ==
    /\ Goto(p, "running", "failed") /\ dir[p] = "absent"
    /\ UNCHANGED <<job, steps, moved, lock, runvars, gcvars, indexvars, sessionvars>>

\* The report is written by atomic_json, which makes the directory if need be;
\* the session needs one more fingerprint.
Report(p) ==
    /\ Goto(p, "running", "fingerprinting") /\ Touch(p, "reported", {"trace"})
    /\ gap' = [gap EXCEPT ![p] = @ \/ dir[p] = "absent"]
    /\ UNCHANGED <<job, steps, moved, lock, doomed, misled, indexvars, sessionvars>>

\* SessionStore.save: processes that continue one run share its session id.
SaveSession(p) ==
    /\ pc[p] = "saving"
    /\ \/ Session!OpenTemp(p) /\ UNCHANGED pc
       \/ Session!Flush(p) /\ UNCHANGED pc
       \/ Session!Rename(p) /\ pc' = [pc EXCEPT ![p] = "done"]
       \/ Session!RenameFails(p) /\ pc' = [pc EXCEPT ![p] = "failed"]
    /\ UNCHANGED <<job, steps, moved, lock, runvars, gcvars, indexvars>>

\* The process dies; the files it was writing stay as they are, and so does
\* its lock.
Die(p) ==
    /\ Cardinality({q \in Processes : pc[q] = "dead"}) < MaxDeaths
    /\ pc[p] \notin Ended \cup {"idle"} /\ pc' = [pc EXCEPT ![p] = "dead"]
    /\ Index!Abandon(p) /\ Session!Abandon(p)
    /\ moved' = [moved EXCEPT ![p] = FALSE]
    /\ UNCHANGED <<job, steps, lock, runvars, gcvars>>

Existing == {r \in Runs : dir[r] # "absent"}

\* Mutants: one directory too few is retained; the oldest are.
MutPlan(k) == {r \in Existing : Cardinality(newer[r] \cap Existing) + 1 >= k}
MutPlanOldest(k) == {r \in Existing : Cardinality(Existing \ (newer[r] \cup {r})) >= k}

\* Of the directories sorted by modification time, newest first, those from
\* index k on.
From(k) == {r \in Existing : Cardinality(newer[r] \cap Existing) >= k}

\* A directory that a collection will remove was written to since it planned.
Revived == \E c \in Collectors : revived[c] \cap Existing # {}

\* collect_garbage --apply: the cutoff of --retain-days, any integer, falls at
\* any index that leaves the RetainLatest newest.  Nothing keeps two apart.
Plan(c) ==
    /\ doomed[c] = {} /\ UNCHANGED revived
    /\ \E k \in RetainLatest .. Cardinality(Existing) :
         From(k) # {} /\ doomed' = [doomed EXCEPT ![c] = From(k)]
    /\ misled' = (misled \/ Revived)
    /\ UNCHANGED <<pc, job, steps, moved, lock, runvars, indexvars, sessionvars>>

\* What a collection has yet to remove.
Left(c, D) ==
    /\ doomed' = [doomed EXCEPT ![c] = D]
    /\ revived' = [revived EXCEPT ![c] = @ \cap D]

\* shutil.rmtree.
Remove(c, r) ==
    /\ r \in doomed[c] /\ dir[r] # "absent" /\ Left(c, doomed[c] \ {r})
    /\ dir' = [dir EXCEPT ![r] = "absent"] /\ entries' = [entries EXCEPT ![r] = {}]
    /\ UNCHANGED <<pc, job, steps, moved, lock, gap, newer, created,
                   misled, indexvars, sessionvars>>

\* A directory another collection has removed: rmtree raises, and the
\* collection ends there.
RemoveFails(c, r) ==
    /\ r \in doomed[c] /\ dir[r] = "absent" /\ Left(c, {})
    /\ UNCHANGED <<pc, job, steps, moved, lock, runvars, misled, indexvars,
                   sessionvars>>

Step(p) ==
    \/ DigestFiles(p) \/ FileVanishes(p) \/ FlushIndex(p)
    \/ ReplaceIndex(p) \/ LoseIndex(p)
    \/ Acquire(p) \/ Refused(p) \/ Load(p) \/ Release(p)
    \/ Start(p) \/ ToolStep(p) \/ TraceFails(p) \/ Report(p) \/ SaveSession(p)

Collect(c) == Plan(c) \/ \E r \in Runs : Remove(c, r) \/ RemoveFails(c, r)

Next ==
    \/ \E p \in Processes : Step(p) \/ Die(p) \/ \E r \in Runs : Begin(p, r)
    \/ \E c \in Collectors : Collect(c)

Spec == Init /\ [][Next]_vars

\* While a process reads a checkpoint under the lock it is the only one that
\* does, and a lock that outlasts the reading belongs to a process that died
\* (RunLock, resume_run).
LockMeansLoading ==
    /\ \A p \in Processes : pc[p] \in Locked => lock[job[p]] = p
    /\ \A r \in Runs, p \in Processes :
         lock[r] = p => job[p] = r /\ pc[p] \in Locked \cup {"dead"}

\* The session file is never found torn.  The index file is torn, and a run is
\* lost to its temporary name, only where two processes built it at once; a run
\* fails for no other reason than that, files another process changed while it
\* read them, or the removal of its directory (WorkspaceContext.build,
\* atomic_json, RunStore.append_trace).
FilesIntact ==
    /\ Index!Intact /\ Session!Intact /\ ~sessionRivals
    /\ \A p \in Processes :
         pc[p] = "failed" /\ p \in created
           => indexRivals \/ moved[p] \/ dir[p] = "absent" \/ gap[p]

\* However collections interleave with each other and with runs that start,
\* finish or come back under them, the number of run directories
\* --retain-latest asks for is left, unless a collection counted among the
\* latest a directory that another was about to remove and that its run had
\* written to since that one planned (collect_garbage takes no lock).
KeepsLatest ==
    misled \/ Cardinality(Existing) >= RetainLatest \/ Existing = created

\* The directory of a run in progress is removed only when the directories of
\* RetainLatest other runs were written to after it, or when the run itself
\* wrote to it since the collection planned (collect_garbage plans by the
\* modification times, which later checkpoints do not renew).
InProgressKept ==
    [][\A c \in Collectors, r \in Runs :
         dir[r] = "open" /\ dir'[r] = "absent" /\ r \in doomed[c] \ doomed'[c]
           => r \in revived[c] \/ Cardinality(newer[r]) >= RetainLatest]_vars

\* A process that set out to continue a run always has a step to take until it
\* ends: no lock, file or directory another left behind makes it wait
\* (RunLock.acquire raises instead of waiting).
NeverStuck ==
    \A p \in Processes : pc[p] \in Ended \cup {"idle"} \/ ENABLED Step(p)
====
