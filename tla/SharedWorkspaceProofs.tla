---- MODULE SharedWorkspaceProofs ----
(***************************************************************************)
(* Proofs about SharedWorkspace, for any number of processes: both files   *)
(* it replaces are instances of AtomicFile, so that the theorems about     *)
(* AtomicFile hold of them, and the run lock means what resume_run takes   *)
(* it to mean.                                                             *)
(***************************************************************************)
EXTENDS SharedWorkspace, FiniteSetTheorems, TLAPS

IndexFacts == INSTANCE AtomicFileProofs WITH Writers <- Processes, Names <- {"index.tmp"},
    tempOf <- OneName,
    temp <- indexTemp, file <- indexFile, stage <- indexStage, rivals <- indexRivals
SessionFacts == INSTANCE AtomicFileProofs WITH Writers <- Processes, Names <- Processes,
    tempOf <- OwnName,
    temp <- sessionTemp, file <- sessionFile, stage <- sessionStage, rivals <- sessionRivals

USE SharedAssumption

(***************************************************************************)
(* The two files.                                                          *)
(***************************************************************************)

\* A step of one process is a step of at most one writer of each file.
LEMMA StepRefines ==
  ASSUME NEW p \in Processes, Step(p) \/ Die(p)
  PROVE  [Index!AtomicNext]_indexvars /\ [Session!AtomicNext]_sessionvars
<1>1. CASE DigestFiles(p)
  BY <1>1 DEF DigestFiles, Index!AtomicNext, sessionvars
<1>2. CASE FlushIndex(p)
  BY <1>2 DEF FlushIndex, Index!AtomicNext, sessionvars
<1>3. CASE ReplaceIndex(p)
  BY <1>3 DEF ReplaceIndex, Index!AtomicNext, sessionvars
<1>4. CASE LoseIndex(p)
  BY <1>4 DEF LoseIndex, Index!AtomicNext, sessionvars
<1>5. CASE SaveSession(p)
  BY <1>5 DEF SaveSession, Session!AtomicNext, indexvars
<1>6. CASE Die(p)
  BY <1>6 DEF Die, Index!AtomicNext, Session!AtomicNext
<1>7. CASE Acquire(p) \/ Refused(p) \/ Load(p) \/ Release(p)
  BY <1>7 DEF Acquire, Refused, Load, Release, indexvars, sessionvars
<1>8. CASE Start(p) \/ ToolStep(p) \/ TraceFails(p) \/ Report(p)
  BY <1>8 DEF Start, ToolStep, TraceFails, Report, indexvars, sessionvars
<1>9. CASE FileVanishes(p)
  BY <1>9 DEF FileVanishes, indexvars, sessionvars
<1> QED  BY <1>1, <1>2, <1>3, <1>4, <1>5, <1>6, <1>7, <1>8, <1>9 DEF Step

LEMMA NextRefines ==
  [Next]_vars => [Index!AtomicNext]_indexvars /\ [Session!AtomicNext]_sessionvars
<1>1. ASSUME NEW p \in Processes, NEW r \in Runs, Begin(p, r)
      PROVE  UNCHANGED <<indexvars, sessionvars>>
  BY <1>1 DEF Begin
<1>2. ASSUME NEW c \in Collectors, Collect(c) PROVE UNCHANGED <<indexvars, sessionvars>>
  BY <1>2 DEF Collect, Plan, Remove, RemoveFails
<1>3. UNCHANGED vars => UNCHANGED <<indexvars, sessionvars>>
  BY DEF vars
<1> QED  BY <1>1, <1>2, <1>3, StepRefines DEF Next

\* The workspace index and the session file are replaced as AtomicFile
\* describes, whatever the processes do between their steps, and whenever one
\* of them dies (WorkspaceContext.build, SessionStore.save).
THEOREM SharedImplementsAtomicFile == Spec => Index!AtomicSpec /\ Session!AtomicSpec
<1>1. Init => Index!AtomicInit /\ Session!AtomicInit
  BY DEF Init
<1>2. indexvars = Index!avars /\ sessionvars = Session!avars
  BY DEF indexvars, sessionvars, Index!avars, Session!avars
<1>3. [Next]_vars => [Index!AtomicNext]_(Index!avars) /\ [Session!AtomicNext]_(Session!avars)
  BY NextRefines, <1>2 DEF indexvars, sessionvars, Index!avars, Session!avars
<1> QED  BY <1>1, <1>3, PTL DEF Spec, Index!AtomicSpec, Session!AtomicSpec

\* AtomicFileProofs speaks of its own instances of the same definitions.
LEMMA SameIndex ==
  /\ Index!AtomicInit => IndexFacts!AtomicInit
  /\ Index!AtomicNext => IndexFacts!AtomicNext
  /\ Index!AtomicTypeOK <=> IndexFacts!AtomicTypeOK
  /\ IndexFacts!Intact => Index!Intact
  BY DEF Index!AtomicInit, IndexFacts!AtomicInit, Index!AtomicNext, IndexFacts!AtomicNext,
         Index!OpenTemp, IndexFacts!OpenTemp, Index!Flush, IndexFacts!Flush,
         Index!Over, IndexFacts!Over, Index!Rename, IndexFacts!Rename,
         Index!RenameFails, IndexFacts!RenameFails, Index!Abandon, IndexFacts!Abandon,
         Index!AtomicTypeOK, IndexFacts!AtomicTypeOK, Index!Texts, IndexFacts!Texts,
         Index!Stages, IndexFacts!Stages, Index!Intact, IndexFacts!Intact

LEMMA SameSession ==
  /\ Session!AtomicInit => SessionFacts!AtomicInit
  /\ Session!AtomicNext => SessionFacts!AtomicNext
  /\ Session!AtomicTypeOK <=> SessionFacts!AtomicTypeOK
  /\ SessionFacts!Intact => Session!Intact
  BY DEF Session!AtomicInit, SessionFacts!AtomicInit, Session!AtomicNext, SessionFacts!AtomicNext,
         Session!OpenTemp, SessionFacts!OpenTemp, Session!Flush, SessionFacts!Flush,
         Session!Over, SessionFacts!Over, Session!Rename, SessionFacts!Rename,
         Session!RenameFails, SessionFacts!RenameFails, Session!Abandon, SessionFacts!Abandon,
         Session!AtomicTypeOK, SessionFacts!AtomicTypeOK, Session!Texts, SessionFacts!Texts,
         Session!Stages, SessionFacts!Stages, Session!Intact, SessionFacts!Intact

\* A name for every writer; the session's is its own.
LEMMA NamesGiven ==
  IndexFacts!Assigned /\ SessionFacts!Assigned /\ SessionFacts!OwnNames
  BY DEF IndexFacts!Assigned, SessionFacts!Assigned, SessionFacts!OwnNames, OneName, OwnName

\* The files of the workspace: what they hold is a text, and the session file
\* and, without two processes building it at once, the index is whole.
FilesInv ==
    /\ Index!AtomicTypeOK /\ Session!AtomicTypeOK
    /\ Index!Intact /\ Session!Intact /\ ~sessionRivals

LEMMA FilesAlways == Spec => []FilesInv
<1>1. IndexFacts!AtomicSpec => []IndexFacts!AtomicInv
  <2>1. IndexFacts!AtomicInit => IndexFacts!AtomicInv
    BY NamesGiven, IndexFacts!AtomicInitInv
  <2>2. IndexFacts!AtomicInv /\ [IndexFacts!AtomicNext]_(IndexFacts!avars)
          => IndexFacts!AtomicInv'
    BY NamesGiven, IndexFacts!AtomicTypeStep, IndexFacts!AloneStep DEF IndexFacts!AtomicInv
  <2> QED  BY <2>1, <2>2, PTL DEF IndexFacts!AtomicSpec
<1>2. SessionFacts!AtomicSpec => []SessionFacts!AtomicInv
  <2>1. SessionFacts!AtomicInit => SessionFacts!AtomicInv
    BY NamesGiven, SessionFacts!AtomicInitInv
  <2>2. SessionFacts!AtomicInv /\ [SessionFacts!AtomicNext]_(SessionFacts!avars)
          => SessionFacts!AtomicInv'
    BY NamesGiven, SessionFacts!AtomicTypeStep, SessionFacts!AloneStep
    DEF SessionFacts!AtomicInv
  <2> QED  BY <2>1, <2>2, PTL DEF SessionFacts!AtomicSpec
<1>3. IndexFacts!AtomicSpec => []IndexFacts!Intact
  BY NamesGiven, IndexFacts!FilesStayIntact
<1>4. SessionFacts!AtomicSpec => []SessionFacts!Intact
  BY NamesGiven, SessionFacts!FilesStayIntact
<1>5. SessionFacts!AtomicSpec => []~sessionRivals
  <2>1. SessionFacts!AtomicSpec => [](~sessionRivals /\ sessionFile \in {"absent", "whole"})
    BY NamesGiven, SessionFacts!OwnNamesSuffice
  <2> QED  BY <2>1, PTL
<1>6. Init => IndexFacts!AtomicInit /\ SessionFacts!AtomicInit
  BY SameIndex, SameSession DEF Init
<1>7. [Next]_vars => /\ [IndexFacts!AtomicNext]_(IndexFacts!avars)
                     /\ [SessionFacts!AtomicNext]_(SessionFacts!avars)
  BY NextRefines, SameIndex, SameSession
  DEF indexvars, sessionvars, IndexFacts!avars, SessionFacts!avars
<1>8. IndexFacts!AtomicInv /\ SessionFacts!AtomicInv /\ IndexFacts!Intact
        /\ SessionFacts!Intact /\ ~sessionRivals => FilesInv
  BY SameIndex, SameSession DEF IndexFacts!AtomicInv, SessionFacts!AtomicInv, FilesInv
<1> QED  BY <1>1, <1>2, <1>3, <1>4, <1>5, <1>6, <1>7, <1>8, PTL
         DEF Spec, IndexFacts!AtomicSpec, SessionFacts!AtomicSpec

(***************************************************************************)
(* The processes and the locks.                                            *)
(***************************************************************************)

StateTypes ==
    /\ pc \in [Processes -> PCs]
    /\ job \in [Processes -> Runs \cup {NoOwner}]
    /\ moved \in [Processes -> BOOLEAN]
    /\ steps \in [Processes -> 0 .. MaxSteps]
    /\ lock \in [Runs -> Processes \cup {NoOwner}]
    /\ dir \in [Runs -> {"absent", "open", "reported"}]
    /\ entries \in [Runs -> SUBSET Entries]
    /\ gap \in [Runs -> BOOLEAN]
    /\ newer \in [Runs -> SUBSET Runs]
    /\ created \in SUBSET Runs
    /\ doomed \in [Collectors -> SUBSET Runs]
    /\ revived \in [Collectors -> SUBSET Runs] /\ misled \in BOOLEAN

Started == {"checkpointing", "running", "fingerprinting", "saving", "done", "failed", "dead"}

\* What a process has in hand agrees with where it is.
Busy ==
  \A p \in Processes :
    /\ pc[p] # "idle" => job[p] \in Runs
    /\ indexStage[p] # "idle" => pc[p] \in Indexing
    /\ sessionStage[p] # "idle" => pc[p] = "saving"
    /\ p \in created => pc[p] \in Started

SharedInv == StateTypes /\ Busy /\ LockMeansLoading

USE DEF PCs, Indexing, Locked, Ended, Runs

\* A step on a file by one process leaves the others idle that were.
LEMMA OthersIdle ==
  ASSUME Index!AtomicTypeOK, Session!AtomicTypeOK, NEW p \in Processes, Step(p) \/ Die(p),
         NEW q \in Processes, q # p
  PROVE  /\ indexStage[q] = "idle" => indexStage'[q] = "idle"
         /\ sessionStage[q] = "idle" => sessionStage'[q] = "idle"
<1> USE DEF Index!AtomicTypeOK, Session!AtomicTypeOK
<1>1. CASE DigestFiles(p) \/ FlushIndex(p) \/ ReplaceIndex(p) \/ LoseIndex(p)
  BY <1>1 DEF DigestFiles, FlushIndex, ReplaceIndex, LoseIndex, sessionvars,
              Index!OpenTemp, Index!Flush, Index!Rename, Index!RenameFails
<1>2. CASE SaveSession(p)
  BY <1>2 DEF SaveSession, indexvars, Session!OpenTemp, Session!Flush, Session!Rename,
              Session!RenameFails
<1>3. CASE Die(p)
  BY <1>3 DEF Die, Index!Abandon, Session!Abandon
<1>4. CASE Acquire(p) \/ Refused(p) \/ Load(p) \/ Release(p)
  BY <1>4 DEF Acquire, Refused, Load, Release, indexvars, sessionvars
<1>5. CASE Start(p) \/ ToolStep(p) \/ TraceFails(p) \/ Report(p) \/ FileVanishes(p)
  BY <1>5 DEF Start, ToolStep, TraceFails, Report, FileVanishes, indexvars, sessionvars
<1> QED  BY <1>1, <1>2, <1>3, <1>4, <1>5 DEF Step

\* Entries made in a directory leave the types as they are.
LEMMA TouchTypes ==
  ASSUME StateTypes, NEW p \in Processes, NEW status \in {"open", "reported"},
         NEW made \in SUBSET Entries, Touch(p, status, made)
  PROVE  /\ dir' \in [Runs -> {"absent", "open", "reported"}]
         /\ entries' \in [Runs -> SUBSET Entries] /\ newer' \in [Runs -> SUBSET Runs]
         /\ revived' \in [Collectors -> SUBSET Runs] /\ created' \in SUBSET Runs
<1> USE DEF Runs
<1>1. p \in Runs
  OBVIOUS
<1>2. dir' \in [Runs -> {"absent", "open", "reported"}] /\ created' \in SUBSET Runs
  BY <1>1 DEF Touch, StateTypes
<1>3. entries' \in [Runs -> SUBSET Entries]
  BY <1>1 DEF Touch, StateTypes
<1>4. newer' \in [Runs -> SUBSET Runs]
  BY <1>1 DEF Touch, StateTypes
<1>5. revived' \in [Collectors -> SUBSET Runs]
  BY <1>1 DEF Touch, StateTypes
<1> QED  BY <1>2, <1>3, <1>4, <1>5

\* The steps of a process on the workspace index.
LEMMA IndexKeeps ==
  ASSUME SharedInv, FilesInv, NEW p \in Processes,
         DigestFiles(p) \/ FileVanishes(p) \/ FlushIndex(p) \/ ReplaceIndex(p) \/ LoseIndex(p)
  PROVE  SharedInv'
<1> USE DEF SharedInv, StateTypes
<1>1. \A q \in Processes \ {p} :
        indexStage[q] = "idle" => indexStage'[q] = "idle"
  <2>1. Step(p) /\ Index!AtomicTypeOK /\ Session!AtomicTypeOK
    BY DEF Step, FilesInv
  <2> QED  BY <2>1, OthersIdle
<1>2. sessionStage' = sessionStage /\ pc[p] # "idle" /\ pc[p] \in Indexing
  BY DEF Busy, FilesInv, Index!AtomicTypeOK, DigestFiles, FileVanishes, Reading, FlushIndex,
         ReplaceIndex, LoseIndex, sessionvars, Index!Flush, Index!Rename, Index!RenameFails
<1>3. CASE DigestFiles(p) \/ FlushIndex(p)
  <2>1. pc' = pc /\ job' = job /\ created' = created /\ lock' = lock
    BY <1>3 DEF DigestFiles, FlushIndex, runvars
  <2>2. StateTypes'
    BY <1>3, <2>1 DEF DigestFiles, FlushIndex, runvars, gcvars
  <2>3. Busy' /\ LockMeansLoading'
    BY <1>1, <1>2, <2>1 DEF Busy, LockMeansLoading
  <2> QED  BY <2>2, <2>3
<1>4. CASE ReplaceIndex(p)
  <2>1. /\ pc' = [pc EXCEPT ![p] = AfterIndex[pc[p]]] /\ job' = job /\ lock' = lock
        /\ pc'[p] \in PCs
        /\ pc[p] \in Locked <=> pc'[p] \in Locked
        /\ pc[p] \in Started <=> pc'[p] \in Started
    BY <1>2, <1>4 DEF ReplaceIndex, AfterIndex, Started
  <2>2. created' \subseteq created \cup {p} /\ (created' # created => pc[p] \in Started)
    BY <1>4 DEF ReplaceIndex, Touch, runvars, Started
  <2>3. indexStage'[p] = "idle"
    BY <1>4 DEF ReplaceIndex, Index!Rename, FilesInv, Index!AtomicTypeOK
  <2>4. StateTypes'
    <3>1. /\ pc' \in [Processes -> PCs] /\ gap' \in [Runs -> BOOLEAN]
          /\ UNCHANGED <<job, moved, steps, lock, doomed, misled>>
      BY <1>4, <2>1 DEF ReplaceIndex, runvars
    <3>2. CASE UNCHANGED <<runvars, revived>>
      BY <3>1, <3>2 DEF runvars
    <3>3. CASE Touch(p, "open", {"checkpoints"})
      BY <3>1, <3>3, TouchTypes DEF Entries
    <3>4. CASE UNCHANGED <<dir, entries, newer, revived, created>>
      BY <3>1, <3>4
    <3> QED  BY <1>4, <3>2, <3>3, <3>4 DEF ReplaceIndex
  <2>5. Busy'
    BY <1>1, <1>2, <2>1, <2>2, <2>3, <2>4 DEF Busy
  <2>6. LockMeansLoading'
    BY <1>2, <2>1 DEF LockMeansLoading
  <2> QED  BY <2>4, <2>5, <2>6
<1>5. CASE LoseIndex(p) \/ FileVanishes(p)
  <2>1. /\ job' = job /\ lock' = lock /\ created' = created
        /\ pc' = [pc EXCEPT ![p] = IF pc[p] = "loading" THEN "rejected" ELSE "failed"]
    BY <1>5 DEF LoseIndex, FileVanishes, Raise, runvars
  <2>2. indexStage'[p] = "idle"
    BY <1>5 DEF LoseIndex, Index!RenameFails, FilesInv, Index!AtomicTypeOK, FileVanishes,
                Reading, indexvars
  <2>3. StateTypes'
    BY <1>5, <2>1 DEF LoseIndex, FileVanishes, runvars, gcvars
  <2>4. Busy'
    BY <1>1, <1>2, <2>1, <2>2 DEF Busy, Started
  <2>5. LockMeansLoading'
    BY <1>2, <2>1 DEF LockMeansLoading
  <2> QED  BY <2>3, <2>4, <2>5
<1> QED  BY <1>3, <1>4, <1>5

\* The steps around the lock.
LEMMA LockKeeps ==
  ASSUME SharedInv, NEW p \in Processes, Acquire(p) \/ Refused(p) \/ Load(p) \/ Release(p)
  PROVE  SharedInv'
<1> USE DEF SharedInv, StateTypes, Goto
<1>1. /\ UNCHANGED <<indexStage, sessionStage, created, job>>
      /\ pc[p] \in {"built", "checking", "accepted", "rejected"}
      /\ job[p] \in Runs
  BY DEF Acquire, Refused, Load, Release, Busy, indexvars, sessionvars, runvars
<1>2. StateTypes'
  BY DEF Acquire, Refused, Load, Release, runvars, gcvars
<1>3. Busy'
  <2>1. \A q \in Processes : q # p => pc'[q] = pc[q]
    BY DEF Acquire, Refused, Load, Release
  <2>2. indexStage[p] = "idle" /\ sessionStage[p] = "idle" /\ p \notin created
    BY <1>1 DEF Busy, Started
  <2> QED  BY <1>1, <2>1, <2>2 DEF Busy
<1>4. LockMeansLoading'
  <2>1. CASE Acquire(p)
    BY <1>1, <2>1 DEF Acquire, LockMeansLoading
  <2>2. CASE Refused(p)
    BY <1>1, <2>2 DEF Refused, LockMeansLoading
  <2>3. CASE Load(p)
    BY <1>1, <2>3 DEF Load, LockMeansLoading
  <2>4. CASE Release(p)
    <3>1. pc[p] \in Locked /\ lock[job[p]] = p
      BY <2>4 DEF Release, LockMeansLoading
    <3>2. \A q \in Processes \ {p} : pc[q] \in Locked => job[q] # job[p]
      BY <3>1 DEF LockMeansLoading
    <3> QED  BY <1>1, <2>4, <3>1, <3>2 DEF Release, LockMeansLoading
  <2> QED  BY <2>1, <2>2, <2>3, <2>4
<1> QED  BY <1>2, <1>3, <1>4

\* The steps of a run but for its fingerprints.
LEMMA RunKeeps ==
  ASSUME SharedInv, NEW p \in Processes, Start(p) \/ ToolStep(p) \/ TraceFails(p) \/ Report(p)
  PROVE  SharedInv'
<1> USE DEF SharedInv, StateTypes, Goto
<1>1. /\ UNCHANGED <<indexStage, sessionStage, job, lock>>
      /\ pc[p] \in {"starting", "running"}
      /\ pc'[p] \in Started \ {"dead", "saving"} /\ pc' = [pc EXCEPT ![p] = pc'[p]]
  BY DEF Start, ToolStep, TraceFails, Report, indexvars, sessionvars, Started
<1>2. StateTypes'
  <2>1. CASE Start(p)
    BY <2>1, TouchTypes DEF Start, Entries
  <2>2. CASE ToolStep(p)
    <3>1. /\ pc' \in [Processes -> PCs] /\ steps' \in [Processes -> 0 .. MaxSteps]
          /\ UNCHANGED <<job, lock, gap, doomed, misled>>
      BY <2>2 DEF ToolStep, AppendTrace
    <3>2. moved' \in [Processes -> BOOLEAN]
      BY <2>2, Zenon DEF ToolStep, Changed, Reading
    <3>3. CASE Touch(p, "open", {"trace"})
      BY <3>1, <3>2, <3>3, TouchTypes DEF Entries
    <3>4. CASE UNCHANGED <<dir, entries, newer, revived, created>>
      BY <3>1, <3>2, <3>4
    <3> QED  BY <2>2, <3>3, <3>4 DEF ToolStep, AppendTrace
  <2>3. CASE TraceFails(p)
    BY <2>3 DEF TraceFails, runvars, gcvars
  <2>4. CASE Report(p)
    BY <2>4, TouchTypes DEF Report, Entries
  <2> QED  BY <2>1, <2>2, <2>3, <2>4
<1>3. Busy'
  <2>1. created' \subseteq created \cup {p}
    BY DEF Start, ToolStep, AppendTrace, TraceFails, Report, Touch, runvars
  <2>2. indexStage[p] = "idle" /\ sessionStage[p] = "idle" /\ job[p] \in Runs
    BY <1>1 DEF Busy
  <2> QED  BY <1>1, <2>1, <2>2 DEF Busy
<1>4. LockMeansLoading'
  BY SMTT(30), <1>1 DEF LockMeansLoading, Started
<1> QED  BY <1>2, <1>3, <1>4

LEMMA SaveKeeps ==
  ASSUME SharedInv, FilesInv, NEW p \in Processes, SaveSession(p)
  PROVE  SharedInv'
<1> USE DEF SharedInv, StateTypes, Goto
<1>1. /\ UNCHANGED <<indexStage, job, lock, created>>
      /\ pc[p] = "saving" /\ indexStage[p] = "idle"
      /\ pc' = [pc EXCEPT ![p] = pc'[p]]
      /\ pc'[p] = "saving" \/ (pc'[p] \in {"done", "failed"} /\ sessionStage'[p] = "idle")
  BY DEF SaveSession, Busy, indexvars, runvars, FilesInv, Session!AtomicTypeOK,
         Session!Rename, Session!RenameFails
<1>2. \A q \in Processes \ {p} : sessionStage[q] = "idle" => sessionStage'[q] = "idle"
  BY OthersIdle DEF Step, FilesInv
<1>3. StateTypes'
  BY <1>1 DEF SaveSession, runvars, gcvars
<1>4. Busy'
  BY <1>1, <1>2 DEF Busy, Started
<1>5. LockMeansLoading'
  BY <1>1 DEF LockMeansLoading
<1> QED  BY <1>3, <1>4, <1>5

\* The death of a process: its lock, if it held one, is its own still.
LEMMA DieKeeps ==
  ASSUME SharedInv, FilesInv, NEW p \in Processes, Die(p)
  PROVE  SharedInv'
<1> USE DEF SharedInv, StateTypes
<1>1. /\ UNCHANGED <<job, lock, created>> /\ pc' = [pc EXCEPT ![p] = "dead"]
      /\ pc[p] # "idle"
  BY DEF Die, runvars
<1>2. /\ indexStage' = [indexStage EXCEPT ![p] = "idle"]
      /\ sessionStage' = [sessionStage EXCEPT ![p] = "idle"]
  BY DEF Die, Index!Abandon, Session!Abandon
<1>3. StateTypes'
  BY <1>1 DEF Die, runvars, gcvars
<1>4. Busy'
  BY <1>1, <1>2 DEF Busy, Started, FilesInv, Index!AtomicTypeOK, Session!AtomicTypeOK
<1>5. LockMeansLoading'
  BY <1>1 DEF LockMeansLoading
<1> QED  BY <1>3, <1>4, <1>5

\* A process that begins, and a garbage collection.
LEMMA OthersKeep ==
  ASSUME SharedInv,
         (\E p \in Processes, r \in Runs : Begin(p, r)) \/ \E c \in Collectors : Collect(c)
  PROVE  SharedInv'
<1> USE DEF SharedInv, StateTypes
<1>1. ASSUME NEW p \in Processes, NEW r \in Runs, Begin(p, r) PROVE SharedInv'
  <2>1. /\ pc[p] = "idle" /\ pc' = [pc EXCEPT ![p] = "building"]
        /\ job' = [job EXCEPT ![p] = r]
        /\ UNCHANGED <<lock, created, indexStage, sessionStage>>
    BY <1>1 DEF Begin, Goto, runvars, indexvars, sessionvars
  <2>2. StateTypes'
    BY <1>1, <2>1 DEF Begin, runvars, gcvars
  <2>3. Busy'
    BY <2>1 DEF Busy, Started
  <2>4. LockMeansLoading'
    BY <2>1 DEF LockMeansLoading
  <2> QED  BY <2>2, <2>3, <2>4
<1>2. ASSUME NEW c \in Collectors, Collect(c) PROVE SharedInv'
  <2>1. UNCHANGED <<pc, job, moved, steps, lock, gap, newer, created, indexStage, sessionStage>>
    BY <1>2 DEF Collect, Plan, Remove, RemoveFails, runvars, indexvars, sessionvars
  <2> DEFINE Types == /\ dir' \in [Runs -> {"absent", "open", "reported"}]
                      /\ entries' \in [Runs -> SUBSET Entries]
                      /\ doomed' \in [Collectors -> SUBSET Runs]
                      /\ revived' \in [Collectors -> SUBSET Runs] /\ misled' \in BOOLEAN
  <2>2. ASSUME Plan(c) PROVE Types
    <3>1. /\ UNCHANGED <<dir, entries, revived>> /\ misled' \in BOOLEAN
          /\ \E k \in RetainLatest .. Cardinality(Existing) :
               doomed' = [doomed EXCEPT ![c] = From(k)]
      BY <2>2 DEF Plan, runvars
    <3>2. \A k \in Nat : From(k) \in SUBSET Runs
      BY DEF From, Existing
    <3>3. Existing \in SUBSET Runs /\ IsFiniteSet(Runs)
      BY FS_AddElement DEF Existing
    <3>4. Cardinality(Existing) \in Nat
      BY <3>3, FS_Subset, FS_CardinalityType
    <3>5. doomed' \in [Collectors -> SUBSET Runs]
      BY <3>1, <3>2, <3>4
    <3> QED  BY <3>1, <3>5
  <2>3. ASSUME NEW r \in Runs, Remove(c, r) PROVE Types
    BY <2>3 DEF Remove, Left
  <2>4. ASSUME NEW r \in Runs, RemoveFails(c, r) PROVE Types
    BY <2>4 DEF RemoveFails, Left, runvars
  <2>5. Types
    BY <1>2, <2>2, <2>3, <2>4 DEF Collect
  <2> QED  BY <2>1, <2>5 DEF Busy, LockMeansLoading
<1> QED  BY <1>1, <1>2

LEMMA SharedStep == SharedInv /\ FilesInv /\ [Next]_vars => SharedInv'
<1> SUFFICES ASSUME SharedInv, FilesInv, [Next]_vars PROVE SharedInv'
    OBVIOUS
<1>1. ASSUME NEW p \in Processes, Step(p) PROVE SharedInv'
  BY <1>1, IndexKeeps, LockKeeps, RunKeeps, SaveKeeps DEF Step
<1>2. ASSUME NEW p \in Processes, Die(p) PROVE SharedInv'
  BY <1>2, DieKeeps
<1>3. CASE UNCHANGED vars
  BY <1>3 DEF vars, runvars, gcvars, indexvars, sessionvars, SharedInv, StateTypes, Busy,
              LockMeansLoading
<1> QED  BY <1>1, <1>2, <1>3, OthersKeep DEF Next

LEMMA SharedInit == Init => SharedInv
<1> SUFFICES ASSUME Init PROVE SharedInv
    OBVIOUS
<1>1. StateTypes
  <2>1. /\ entries \in [Runs -> SUBSET Entries] /\ newer \in [Runs -> SUBSET Runs]
        /\ dir \in [Runs -> {"absent", "open", "reported"}]
    BY DEF Init, Entries
  <2>2. moved \in [Processes -> BOOLEAN] /\ gap \in [Runs -> BOOLEAN] /\ misled \in BOOLEAN
    BY DEF Init
  <2>3. /\ pc \in [Processes -> PCs] /\ job \in [Processes -> Runs \cup {NoOwner}]
        /\ steps \in [Processes -> 0 .. MaxSteps]
        /\ lock \in [Runs -> Processes \cup {NoOwner}] /\ created \in SUBSET Runs
        /\ doomed \in [Collectors -> SUBSET Runs] /\ revived \in [Collectors -> SUBSET Runs]
    BY DEF Init
  <2> QED  BY <2>1, <2>2, <2>3 DEF StateTypes
<1>2. Busy /\ LockMeansLoading
  BY DEF Init, Busy, LockMeansLoading, Started, Index!AtomicInit, Session!AtomicInit
<1> QED  BY <1>1, <1>2 DEF SharedInv

LEMMA SharedAlways == Spec => []SharedInv
  BY SharedInit, SharedStep, FilesAlways, PTL DEF Spec

\* For any number of processes and deaths, a process that reads a checkpoint
\* holds that run's lock alone, and a lock that outlasts the reading is a dead
\* process's (RunLock, resume_run).
THEOREM LocksHold == Spec => []LockMeansLoading
<1>1. SharedInv => LockMeansLoading
  BY DEF SharedInv
<1> QED  BY <1>1, SharedAlways, PTL

\* Type correctness of the shared workspace (the processes, locks and files).
THEOREM SharedTypes == Spec => []SharedTypeOK
<1>1. SharedInv /\ FilesInv => SharedTypeOK
  BY DEF SharedInv, StateTypes, FilesInv, SharedTypeOK
<1> QED  BY <1>1, SharedAlways, FilesAlways, PTL

(***************************************************************************)
(* A lock whose owner died.                                                *)
(***************************************************************************)
Orphaned(r) == \E p \in Processes : lock[r] = p /\ pc[p] = "dead"

OrphansStay ==
    [][\A r \in Runs : Orphaned(r) =>
         /\ lock'[r] = lock[r] /\ Orphaned(r)'
         /\ \A q \in Processes :
              job[q] = r /\ pc[q] = "built" => pc'[q] \in {"built", "refused", "dead"}]_vars

\* A process that takes a step is alive, and the step moves only itself; one
\* that finds the lock of its run held can only give up.
LEMMA StepOfLiving ==
  ASSUME SharedInv, FilesInv, NEW q \in Processes, Step(q) \/ Die(q)
  PROVE  /\ pc[q] # "dead"
         /\ \A p \in Processes : p # q => pc'[p] = pc[p]
         /\ lock[job[q]] # NoOwner /\ pc[q] = "built" => pc'[q] \in {"built", "refused", "dead"}
<1> USE DEF SharedInv, StateTypes
<1>1. CASE DigestFiles(q) \/ FileVanishes(q) \/ FlushIndex(q) \/ ReplaceIndex(q) \/ LoseIndex(q)
  <2>1. pc[q] \in Indexing
    BY <1>1 DEF Busy, FilesInv, Index!AtomicTypeOK, DigestFiles, FileVanishes, Reading, FlushIndex,
                ReplaceIndex, LoseIndex, Index!Flush, Index!Rename, Index!RenameFails
  <2>2. \A p \in Processes : p # q => pc'[p] = pc[p]
    BY <1>1 DEF DigestFiles, FileVanishes, Raise, FlushIndex, ReplaceIndex, LoseIndex
  <2> QED  BY <2>1, <2>2
<1>2. CASE Acquire(q) \/ Refused(q) \/ Load(q) \/ Release(q)
  BY <1>2 DEF Acquire, Refused, Load, Release, Goto
<1>3. CASE Start(q) \/ ToolStep(q) \/ TraceFails(q) \/ Report(q)
  BY <1>3 DEF Start, ToolStep, TraceFails, Report, Goto
<1>4. CASE SaveSession(q)
  BY <1>4 DEF SaveSession
<1>5. CASE Die(q)
  BY <1>5 DEF Die
<1> QED  BY <1>1, <1>2, <1>3, <1>4, <1>5 DEF Step

\* A lock changes hands only by being taken when free and given up by its
\* holder.
LEMMA LockMoves ==
  ASSUME SharedInv, NEW q \in Processes, Step(q) \/ Die(q), NEW r \in Runs, lock'[r] # lock[r]
  PROVE  lock[r] = NoOwner \/ (lock[r] = q /\ pc[q] # "dead")
<1> USE DEF SharedInv, StateTypes
<1>1. CASE Acquire(q)
  BY <1>1 DEF Acquire, Goto
<1>2. CASE Release(q)
  BY <1>2 DEF Release, Goto, LockMeansLoading
<1>3. CASE ~Acquire(q) /\ ~Release(q)
  BY <1>3 DEF Step, DigestFiles, FileVanishes, FlushIndex, ReplaceIndex, LoseIndex, Refused,
              Load, Start, ToolStep, TraceFails, Report, SaveSession, Die
<1> QED  BY <1>1, <1>2, <1>3

\* The lock of a process that died while it held it is never given up, and
\* whoever wants the run is refused: what is in the run's directory can no
\* longer be resumed until somebody removes the lock file by hand (RunLock
\* writes the owner into the file and never reads it, operations.py:13-19).
THEOREM OrphanedLockStays == Spec => OrphansStay
<1>1. SharedInv /\ FilesInv /\ [Next]_vars =>
        [\A r \in Runs : Orphaned(r) =>
           /\ lock'[r] = lock[r] /\ Orphaned(r)'
           /\ \A q \in Processes :
                job[q] = r /\ pc[q] = "built" => pc'[q] \in {"built", "refused", "dead"}]_vars
  <2> SUFFICES ASSUME SharedInv, FilesInv, [Next]_vars, NEW r \in Runs,
                      NEW p \in Processes, lock[r] = p, pc[p] = "dead"
               PROVE  /\ lock'[r] = lock[r] /\ pc'[p] = "dead"
                      /\ \A q \in Processes :
                           job[q] = r /\ pc[q] = "built" => pc'[q] \in {"built", "refused", "dead"}
    BY DEF Orphaned
  <2> USE DEF SharedInv, StateTypes
  <2>1. p # NoOwner
    OBVIOUS
  <2>2. ASSUME NEW q \in Processes, Step(q) \/ Die(q)
        PROVE  /\ lock'[r] = lock[r] /\ pc'[p] = "dead"
               /\ \A s \in Processes :
                    job[s] = r /\ pc[s] = "built" => pc'[s] \in {"built", "refused", "dead"}
    <3>1. q # p /\ pc'[p] = "dead"
      BY <2>2, StepOfLiving
    <3>2. lock'[r] = lock[r]
      BY <2>1, <2>2, <3>1, LockMoves
    <3>3. ASSUME NEW s \in Processes, job[s] = r, pc[s] = "built"
          PROVE  pc'[s] \in {"built", "refused", "dead"}
      BY <2>1, <2>2, <3>3, StepOfLiving
    <3> QED  BY <3>1, <3>2, <3>3
  <2>3. CASE \E q \in Processes, s \in Runs : Begin(q, s)
    BY <2>3 DEF Begin, Goto
  <2>4. CASE (\E c \in Collectors : Collect(c)) \/ UNCHANGED vars
    BY <2>4 DEF Collect, Plan, Remove, RemoveFails, vars
  <2> QED  BY <2>2, <2>3, <2>4 DEF Next
<1> QED  BY <1>1, SharedAlways, FilesAlways, PTL DEF Spec, OrphansStay

(***************************************************************************)
(* Why a run fails.                                                        *)
(***************************************************************************)

Excused(q) == indexRivals \/ moved[q] \/ dir[q] = "absent" \/ gap[q]
FailureCaused == \A q \in Processes : pc[q] = "failed" /\ q \in created => Excused(q)

\* What excuses a failure stays: only a run's own process makes its directory
\* again, and it is over.
LEMMA ExcuseStays ==
  ASSUME SharedInv, FilesInv, [Next]_vars, NEW q \in Processes, pc[q] = "failed"
  PROVE  (q \in created' => q \in created) /\ (Excused(q) => Excused(q)')
<1> USE DEF SharedInv, StateTypes, Goto
<1>1. indexRivals => indexRivals'
  BY NextRefines
  DEF Index!AtomicNext, Index!OpenTemp, Index!Flush, Index!Rename, Index!RenameFails,
      Index!Abandon, indexvars
<1> DEFINE Stays == /\ pc'[q] = "failed" /\ (q \in created' => q \in created)
                    /\ (gap[q] => gap'[q]) /\ (moved[q] => moved'[q])
                    /\ dir[q] = "absent" => dir'[q] = "absent"
<1>2. Stays
  <2>1. indexStage[q] = "idle"
    BY DEF Busy
  <2>2. ASSUME NEW p \in Processes, ReplaceIndex(p) PROVE Stays
    <3>1. p # q
      BY <2>1, <2>2 DEF ReplaceIndex, Index!Rename
    <3> QED  BY <2>2, <3>1 DEF ReplaceIndex, Touch, runvars
  <2>3. ASSUME NEW p \in Processes, DigestFiles(p) \/ FlushIndex(p) PROVE Stays
    BY <2>3 DEF DigestFiles, FlushIndex, runvars
  <2>4. ASSUME NEW p \in Processes, LoseIndex(p) \/ FileVanishes(p) PROVE Stays
    <3>1. p # q
      BY <2>1, <2>4 DEF LoseIndex, Index!RenameFails, FileVanishes, Reading
    <3> QED  BY <2>4, <3>1 DEF LoseIndex, FileVanishes, Raise, runvars
  <2>5. ASSUME NEW p \in Processes, Acquire(p) \/ Refused(p) \/ Load(p) \/ Release(p)
        PROVE Stays
    BY <2>5 DEF Acquire, Refused, Load, Release, runvars
  <2>6. ASSUME NEW p \in Processes, Start(p) \/ ToolStep(p) \/ TraceFails(p) \/ Report(p)
        PROVE Stays
    BY <2>6 DEF Start, ToolStep, AppendTrace, Changed, TraceFails, Report, Touch, runvars
  <2>7. ASSUME NEW p \in Processes, SaveSession(p) \/ Die(p) PROVE Stays
    BY <2>7 DEF SaveSession, Die, runvars
  <2>8. ASSUME NEW p \in Processes, NEW r \in Runs, Begin(p, r) PROVE Stays
    BY <2>8 DEF Begin, runvars
  <2>9. ASSUME NEW c \in Collectors, Collect(c) PROVE Stays
    BY <2>9 DEF Collect, Plan, Remove, RemoveFails, runvars
  <2>10. CASE UNCHANGED vars
    BY <2>10 DEF vars, runvars
  <2> QED  BY <2>2, <2>3, <2>4, <2>5, <2>6, <2>7, <2>8, <2>9, <2>10 DEF Next, Step
<1> QED  BY <1>1, <1>2 DEF Excused

\* A run that fails does so on a lost index file, on files changed under it, or
\* without its directory.
LEMMA NewFailure ==
  ASSUME SharedInv, FilesInv, NEW q \in Processes, Step(q) \/ Die(q), pc'[q] = "failed",
         pc[q] # "failed", q \in created'
  PROVE  Excused(q)'
<1> USE DEF SharedInv, StateTypes, Goto
<1>1. CASE LoseIndex(q)
  <2>1. indexRivals /\ UNCHANGED indexRivals
    BY <1>1 DEF LoseIndex, FilesInv, Index!Intact, Index!RenameFails
  <2> QED  BY <2>1 DEF Excused
<1>2. CASE Release(q)
  <2>1. q \notin created /\ created' = created
    BY <1>2 DEF Release, Busy, Started, runvars
  <2> QED  BY <2>1
<1>3. CASE TraceFails(q)
  BY <1>3 DEF TraceFails, Excused, runvars
<1>4. CASE SaveSession(q)
  <2>1. ~Session!RenameFails(q)
    BY DEF FilesInv, Session!Intact, Session!RenameFails
  <2> QED  BY <1>4, <2>1 DEF SaveSession
<1>5. ~(DigestFiles(q) \/ FlushIndex(q) \/ ReplaceIndex(q))
  BY DEF DigestFiles, FlushIndex, ReplaceIndex, AfterIndex, Busy, FilesInv, Index!Rename
<1>6. ~(Acquire(q) \/ Refused(q) \/ Load(q) \/ Die(q))
  BY DEF Acquire, Refused, Load, Die
<1>7. ~(Start(q) \/ ToolStep(q) \/ Report(q))
  BY DEF Start, ToolStep, Report
<1>8. CASE FileVanishes(q)
  BY <1>8 DEF FileVanishes, Excused
<1> QED  BY <1>1, <1>2, <1>3, <1>4, <1>5, <1>6, <1>7, <1>8 DEF Step

\* Only a process's own step makes it fail.
LEMMA OwnFailure ==
  ASSUME SharedInv, [Next]_vars, NEW q \in Processes, pc'[q] = "failed", pc[q] # "failed"
  PROVE  Step(q) \/ Die(q)
<1> USE DEF SharedInv, StateTypes, Goto
<1>1. ASSUME NEW p \in Processes, Step(p) \/ Die(p) PROVE p = q
  BY <1>1 DEF Step, DigestFiles, FileVanishes, Raise, FlushIndex, ReplaceIndex, LoseIndex,
              Acquire, Refused, Load, Release, Start, ToolStep, TraceFails, Report, SaveSession, Die
<1>2. ~ \E p \in Processes, r \in Runs : Begin(p, r)
  BY DEF Begin
<1>3. ~((\E c \in Collectors : Collect(c)) \/ UNCHANGED vars)
  BY DEF Collect, Plan, Remove, RemoveFails, vars
<1> QED  BY <1>1, <1>2, <1>3 DEF Next

LEMMA FailureStep == SharedInv /\ FilesInv /\ FailureCaused /\ [Next]_vars => FailureCaused'
<1> SUFFICES ASSUME SharedInv, FilesInv, FailureCaused, [Next]_vars,
                    NEW q \in Processes, pc'[q] = "failed", q \in created'
             PROVE  Excused(q)'
    BY DEF FailureCaused
<1>1. CASE pc[q] = "failed"
  BY <1>1, ExcuseStays DEF FailureCaused
<1>2. CASE pc[q] # "failed"
  BY <1>2, OwnFailure, NewFailure
<1> QED  BY <1>1, <1>2

\* The session file is never torn, the index is only by two processes that
\* build it at once, and that, files that another process changes while the run
\* reads them, or the removal of its directory are the only reasons for which
\* it fails (atomic_json, WorkspaceContext.build, RunStore.append_trace).
THEOREM FilesHold == Spec => []FilesIntact
<1>1. Init => FailureCaused
  BY DEF Init, FailureCaused
<1>2. FilesInv /\ FailureCaused => FilesIntact
  BY DEF FilesInv, FailureCaused, Excused, FilesIntact
<1> QED  BY <1>1, <1>2, FailureStep, SharedAlways, FilesAlways, PTL DEF Spec

(***************************************************************************)
(* Garbage collection.                                                     *)
(***************************************************************************)

LEMMA RunsFinite ==
  \A S \in SUBSET Runs : IsFiniteSet(S) /\ Cardinality(S) \in Nat
<1>1. IsFiniteSet(Runs)
  BY FS_AddElement
<1> QED  BY <1>1, FS_Subset, FS_CardinalityType

\* Of two sets of runs, a set is no larger than one that contains it.
LEMMA NoLarger ==
  \A T \in SUBSET Runs : \A S \in SUBSET T : Cardinality(S) <= Cardinality(T)
  BY RunsFinite, FS_Subset

Touched(p) ==
    /\ newer' = [r \in Runs |-> IF r = p THEN {} ELSE newer[r] \cup {p}]
    /\ revived' = [c \in Collectors |-> revived[c] \cup ({p} \cap doomed[c])]
    /\ created' = created \cup {p} /\ UNCHANGED <<doomed, misled>>
    /\ Existing' = Existing \cup {p}
Still == UNCHANGED <<newer, created, gcvars>> /\ Existing' = Existing

\* Directories change by an entry made in one and by a collection only.
LEMMA DirectorySteps ==
  ASSUME SharedInv, [Next]_vars
  PROVE  Still \/ (\E p \in Processes : Touched(p)) \/ \E c \in Collectors : Collect(c)
<1> USE DEF SharedInv, StateTypes, Goto
<1>1. UNCHANGED <<runvars, gcvars>> => Still
  BY DEF Still, Existing, runvars
<1>2. UNCHANGED <<dir, entries, newer, revived, created, doomed, misled>> => Still
  BY DEF Still, Existing, gcvars
<1>3. ASSUME NEW p \in Processes, NEW status \in {"open", "reported"}, NEW made,
             Touch(p, status, made), UNCHANGED <<doomed, misled>>
      PROVE  Touched(p)
  <2>1. Existing' = Existing \cup {p}
    BY <1>3 DEF Touch, Existing
  <2> QED  BY <1>3, <2>1 DEF Touch, Touched
<1>4. ASSUME NEW p \in Processes, ReplaceIndex(p) PROVE Still \/ Touched(p)
  <2>1. CASE UNCHANGED <<runvars, revived>>
    BY <1>1, <1>4, <2>1 DEF ReplaceIndex, gcvars
  <2>2. CASE UNCHANGED <<dir, entries, newer, revived, created>>
    BY <1>2, <1>4, <2>2 DEF ReplaceIndex
  <2>3. CASE Touch(p, "open", {"checkpoints"})
    BY <1>3, <1>4, <2>3 DEF ReplaceIndex
  <2> QED  BY <1>4, <2>1, <2>2, <2>3 DEF ReplaceIndex
<1>5. ASSUME NEW p \in Processes, ToolStep(p) PROVE Still \/ Touched(p)
  <2>1. CASE UNCHANGED <<dir, entries, newer, revived, created>>
    BY <1>2, <1>5, <2>1 DEF ToolStep
  <2>2. CASE Touch(p, "open", {"trace"})
    BY <1>3, <1>5, <2>2 DEF ToolStep
  <2> QED  BY <1>5, <2>1, <2>2 DEF ToolStep, AppendTrace
<1>6. ASSUME NEW p \in Processes, Start(p) \/ Report(p) PROVE Touched(p)
  BY <1>3, <1>6 DEF Start, Report
<1>7. ASSUME NEW p \in Processes,
             DigestFiles(p) \/ FileVanishes(p) \/ FlushIndex(p) \/ LoseIndex(p) \/ Acquire(p)
             \/ Refused(p) \/ Load(p) \/ Release(p) \/ TraceFails(p) \/ SaveSession(p) \/ Die(p)
      PROVE  Still
  BY <1>1, <1>7 DEF DigestFiles, FileVanishes, FlushIndex, LoseIndex, Acquire, Refused, Load,
                    Release, TraceFails, SaveSession, Die
<1>8. ASSUME NEW p \in Processes, NEW r \in Runs, Begin(p, r) PROVE Still
  BY <1>1, <1>8 DEF Begin
<1>9. UNCHANGED vars => Still
  BY <1>1 DEF vars
<1> QED  BY <1>4, <1>5, <1>6, <1>7, <1>8, <1>9 DEF Next, Step

\* What a collection does to the directories once it has planned.
LEMMA RemovalSteps ==
  ASSUME SharedInv, NEW c \in Collectors, NEW r \in Runs, Remove(c, r) \/ RemoveFails(c, r)
  PROVE  /\ UNCHANGED <<newer, created, misled>> /\ doomed[c] # {}
         /\ Existing' \subseteq Existing /\ Existing \ {r} \subseteq Existing'
         /\ r \in Existing' => r \notin doomed[c]
         /\ \A d \in Collectors : /\ doomed'[d] \subseteq doomed[d]
                                  /\ doomed'[d] \cap revived[d] \subseteq revived'[d]
<1> USE DEF SharedInv, StateTypes
<1>1. CASE Remove(c, r)
  BY <1>1 DEF Remove, Left, Existing
<1>2. CASE RemoveFails(c, r)
  BY <1>2 DEF RemoveFails, Left, Existing, runvars
<1> QED  BY <1>1, <1>2

\* A directory planned for removal was older than enough others then, and is
\* still unless its run wrote to it since.
GarbageInv ==
  \A c \in Collectors : \A r \in doomed[c] :
    r \in revived[c] \/ Cardinality(newer[r]) >= RetainLatest

LEMMA GarbageStep == SharedInv /\ SharedInv' /\ GarbageInv /\ [Next]_vars => GarbageInv'
<1> SUFFICES ASSUME SharedInv, SharedInv', GarbageInv, [Next]_vars,
                    NEW c \in Collectors, NEW r \in doomed'[c]
             PROVE  r \in revived'[c] \/ Cardinality(newer'[r]) >= RetainLatest
    BY DEF GarbageInv
<1> USE DEF SharedInv, StateTypes
<1>1. CASE Still
  BY <1>1 DEF Still, gcvars, GarbageInv
<1>2. ASSUME NEW p \in Processes, Touched(p)
      PROVE  r \in revived'[c] \/ Cardinality(newer'[r]) >= RetainLatest
  <2>1. r \in doomed[c] /\ r \in Runs
    BY <1>2 DEF Touched
  <2>2. CASE r = p
    BY <1>2, <2>1, <2>2 DEF Touched
  <2>3. CASE r # p
    <3>1. newer[r] \subseteq newer'[r] /\ newer[r] \in SUBSET Runs /\ newer'[r] \in SUBSET Runs
      BY <1>2, <2>1, <2>3 DEF Touched
    <3>2. /\ Cardinality(newer[r]) <= Cardinality(newer'[r])
          /\ Cardinality(newer[r]) \in Nat /\ Cardinality(newer'[r]) \in Nat
      BY <3>1, NoLarger, RunsFinite
    <3>3. r \in revived[c] => r \in revived'[c]
      BY <1>2 DEF Touched
    <3> QED  BY <2>1, <3>2, <3>3 DEF GarbageInv
  <2> QED  BY <2>2, <2>3
<1>3. ASSUME NEW d \in Collectors, Plan(d)
      PROVE  r \in revived'[c] \/ Cardinality(newer'[r]) >= RetainLatest
  <2>1. revived' = revived /\ newer' = newer
    BY <1>3 DEF Plan, runvars
  <2>2. PICK k \in RetainLatest .. Cardinality(Existing) :
           doomed' = [doomed EXCEPT ![d] = From(k)]
    BY <1>3 DEF Plan
  <2>3. CASE r \in From(k)
    <3>1. /\ r \in Runs /\ newer[r] \in SUBSET Runs /\ newer[r] \cap Existing \in SUBSET newer[r]
          /\ Cardinality(newer[r] \cap Existing) >= k
      BY <2>3 DEF From, Existing
    <3>2. /\ Cardinality(newer[r] \cap Existing) <= Cardinality(newer[r])
          /\ Cardinality(newer[r] \cap Existing) \in Nat /\ Cardinality(newer[r]) \in Nat
      BY <3>1, NoLarger, RunsFinite
    <3>3. k \in Int /\ k >= RetainLatest
      BY RunsFinite DEF Existing
    <3> QED  BY <2>1, <3>1, <3>2, <3>3
  <2>4. CASE r \notin From(k)
    BY <2>1, <2>2, <2>4 DEF GarbageInv
  <2> QED  BY <2>3, <2>4
<1>4. ASSUME NEW d \in Collectors, NEW q \in Runs, Remove(d, q) \/ RemoveFails(d, q)
      PROVE  r \in revived'[c] \/ Cardinality(newer'[r]) >= RetainLatest
  BY <1>4, RemovalSteps DEF GarbageInv
<1> QED  BY <1>1, <1>2, <1>3, <1>4, DirectorySteps DEF Collect

LEMMA GarbageAlways == Spec => []GarbageInv
<1>1. Init => GarbageInv
  BY DEF Init, GarbageInv
<1> QED  BY <1>1, GarbageStep, SharedAlways, PTL DEF Spec

\* For any number of processes, directories and collections that overlap in any
\* way, the directory of a run in progress goes only once the directories of
\* RetainLatest others were written to after it, or when its run wrote to it
\* between the plan and the removal (collect_garbage).
THEOREM RunsInProgressKept == Spec => InProgressKept
<1> DEFINE Removes ==
      \A c \in Collectors, r \in Runs :
        dir[r] = "open" /\ dir'[r] = "absent" /\ r \in doomed[c] \ doomed'[c]
          => r \in revived[c] \/ Cardinality(newer[r]) >= RetainLatest
<1>1. GarbageInv /\ [Next]_vars => [Removes]_vars
  BY DEF GarbageInv
<1>2. Spec => [][Removes]_vars
  BY <1>1, GarbageAlways, PTL DEF Spec
<1> QED  BY <1>2 DEF InProgressKept

(***************************************************************************)
(* What collections leave.  That a set of directories has a newest one is  *)
(* itself an invariant: the directory touched last is it.  While no        *)
(* collection was misled, every directory one of them has yet to remove,   *)
(* and that its run left alone, is older than RetainLatest directories     *)
(* that none will remove: the next plan cannot count it among the latest.  *)
(***************************************************************************)

Ordered ==
  \A S \in SUBSET Runs : S # {} =>
    \E m \in S : newer[m] \cap S = {} /\ \A q \in S : newer[m] \subseteq newer[q]

Doomed == UNION {doomed[c] : c \in Collectors}
Kept == Existing \ Doomed

EnoughKept ==
    /\ Cardinality(Kept) >= RetainLatest
    /\ \A c \in Collectors : \A r \in doomed[c] \cap Existing :
         r \notin revived[c] => Cardinality(newer[r] \cap Kept) >= RetainLatest

LatestInv ==
    \/ misled
    \/ (\A c \in Collectors : doomed[c] = {}) /\ Existing = created
    \/ EnoughKept

LEMMA OrderedStep == SharedInv /\ Ordered /\ [Next]_vars => Ordered'
<1> SUFFICES ASSUME SharedInv, Ordered, [Next]_vars PROVE Ordered'
    OBVIOUS
<1>1. newer' = newer => Ordered'
  BY DEF Ordered
<1>2. ASSUME NEW p \in Processes, Touched(p) PROVE Ordered'
  <2> SUFFICES ASSUME NEW S \in SUBSET Runs, S # {}
               PROVE  \E m \in S : /\ newer'[m] \cap S = {}
                                   /\ \A q \in S : newer'[m] \subseteq newer'[q]
      BY DEF Ordered
  <2>1. \A q \in Runs : newer'[q] = IF q = p THEN {} ELSE newer[q] \cup {p}
    BY <1>2 DEF Touched
  <2>2. CASE p \in S
    <3>1. newer'[p] = {}
      BY <2>1
    <3> QED  BY <2>2, <3>1
  <2>3. CASE p \notin S
    <3>1. PICK m \in S : newer[m] \cap S = {} /\ \A q \in S : newer[m] \subseteq newer[q]
      BY DEF Ordered
    <3>2. \A q \in S : newer'[q] = newer[q] \cup {p}
      BY <2>1, <2>3
    <3>3. newer'[m] \cap S = {}
      BY <2>3, <3>1, <3>2
    <3>4. \A q \in S : newer'[m] \subseteq newer'[q]
      BY <3>1, <3>2
    <3> QED  BY <3>3, <3>4
  <2> QED  BY <2>2, <2>3
<1>3. ASSUME NEW c \in Collectors, Collect(c) PROVE newer' = newer
  BY <1>3 DEF Collect, Plan, Remove, RemoveFails, runvars
<1>4. Still => newer' = newer
  BY DEF Still
<1> QED  BY <1>1, <1>2, <1>3, <1>4, DirectorySteps

\* Enough stay kept where none is given up and what is doomed gets no newer.
LEMMA EnoughStays ==
  ASSUME SharedInv, SharedInv', EnoughKept, Kept \subseteq Kept',
         \A c \in Collectors : \A r \in doomed'[c] \cap Existing' :
           r \notin revived'[c] => /\ r \in doomed[c] \cap Existing /\ r \notin revived[c]
                                   /\ newer[r] \subseteq newer'[r]
  PROVE  EnoughKept'
<1> USE DEF SharedInv, StateTypes
<1>1. Kept \in SUBSET Kept' /\ Kept' \in SUBSET Runs /\ Kept \in SUBSET Runs
  BY DEF Kept, Existing
<1>2. /\ Cardinality(Kept) <= Cardinality(Kept')
      /\ Cardinality(Kept) \in Nat /\ Cardinality(Kept') \in Nat
  BY <1>1, NoLarger, RunsFinite
<1>3. Cardinality(Kept') >= RetainLatest
  BY <1>2 DEF EnoughKept
<1>4. ASSUME NEW c \in Collectors, NEW r \in doomed'[c] \cap Existing', r \notin revived'[c]
      PROVE  Cardinality(newer'[r] \cap Kept') >= RetainLatest
  <2>1. r \in doomed[c] \cap Existing /\ r \notin revived[c] /\ newer[r] \subseteq newer'[r]
    BY <1>4
  <2>2. Cardinality(newer[r] \cap Kept) >= RetainLatest
    BY <2>1 DEF EnoughKept
  <2>3. /\ newer[r] \cap Kept \in SUBSET (newer'[r] \cap Kept')
        /\ newer'[r] \cap Kept' \in SUBSET Runs /\ newer[r] \cap Kept \in SUBSET Runs
    BY <1>1, <2>1
  <2>4. /\ Cardinality(newer[r] \cap Kept) <= Cardinality(newer'[r] \cap Kept')
        /\ Cardinality(newer[r] \cap Kept) \in Nat /\ Cardinality(newer'[r] \cap Kept') \in Nat
    BY <2>3, NoLarger, RunsFinite
  <2> QED  BY <2>2, <2>4
<1> QED  BY <1>3, <1>4 DEF EnoughKept

\* A plan that is not misled leaves what is newer than the newest directory
\* planned for removal by anybody.
LEMMA PlanLeaves ==
  ASSUME SharedInv, SharedInv', Ordered, LatestInv, NEW c \in Collectors, Plan(c), ~misled'
  PROVE  EnoughKept'
<1> USE DEF SharedInv, StateTypes
<1>1. /\ UNCHANGED <<newer, created, revived>> /\ Existing' = Existing /\ ~misled /\ ~Revived
      /\ doomed[c] = {}
  BY DEF Plan, Existing, runvars
<1>2. PICK k \in RetainLatest .. Cardinality(Existing) :
        From(k) # {} /\ doomed' = [doomed EXCEPT ![c] = From(k)]
  BY DEF Plan
<1>3. k \in Nat /\ k >= RetainLatest
  BY RunsFinite DEF Existing
<1>4. /\ \A d \in Collectors : doomed'[d] = IF d = c THEN From(k) ELSE doomed[d]
      /\ From(k) \subseteq Existing /\ Existing \subseteq Runs
  BY <1>2 DEF From, Existing
<1> DEFINE Goes == Doomed' \cap Existing
<1>5. Goes \in SUBSET Runs /\ Goes # {}
  <2>1. From(k) \subseteq Doomed'
    BY <1>4 DEF Doomed
  <2> QED  BY <1>2, <1>4, <2>1
<1>6. PICK m \in Goes : newer[m] \cap Goes = {} /\ \A q \in Goes : newer[m] \subseteq newer[q]
  <2> HIDE DEF Goes
  <2> QED  BY <1>5 DEF Ordered
<1>7. m \in Runs /\ m \in Existing
  BY <1>5
<1> DEFINE Rest == newer[m] \cap Existing
<1>8. Rest \subseteq Kept' /\ Rest \in SUBSET Runs /\ Kept' \in SUBSET Runs
  BY <1>1, <1>4, <1>6, <1>7 DEF Kept
<1>9. Cardinality(Rest) >= RetainLatest /\ Cardinality(Rest) \in Nat
  <2>1. Cardinality(Rest) \in Nat
    BY <1>8, RunsFinite
  <2>2. CASE m \in From(k)
    BY <1>3, <2>1, <2>2 DEF From
  <2>3. ASSUME NEW d \in Collectors, m \in doomed[d] PROVE Cardinality(Rest) >= RetainLatest
    <3>1. EnoughKept /\ m \notin revived[d]
      BY <1>1, <1>7, <2>3 DEF LatestInv, Revived
    <3>2. Cardinality(newer[m] \cap Kept) >= RetainLatest
      BY <1>7, <2>3, <3>1 DEF EnoughKept
    <3>3. newer[m] \cap Kept \in SUBSET Rest /\ newer[m] \cap Kept \in SUBSET Runs
      BY <1>4 DEF Kept
    <3>4. /\ Cardinality(newer[m] \cap Kept) <= Cardinality(Rest)
          /\ Cardinality(newer[m] \cap Kept) \in Nat
      BY <1>8, <3>3, NoLarger, RunsFinite
    <3> HIDE DEF Rest
    <3> QED  BY <2>1, <3>2, <3>4
  <2>4. m \in From(k) \/ \E d \in Collectors : m \in doomed[d]
    <3>1. \E d \in Collectors : m \in doomed'[d]
      BY DEF Doomed
    <3> QED  BY <1>4, <3>1
  <2> QED  BY <2>1, <2>2, <2>3, <2>4
<1>10. ASSUME NEW S \in SUBSET Runs, Rest \subseteq S PROVE Cardinality(S) >= RetainLatest
  <2>1. /\ Cardinality(Rest) <= Cardinality(S) /\ Cardinality(S) \in Nat
    BY <1>10, NoLarger, RunsFinite
  <2> HIDE DEF Rest
  <2> QED  BY <1>9, <2>1
<1>11. ASSUME NEW d \in Collectors, NEW r \in doomed'[d] \cap Existing'
       PROVE  Cardinality(newer'[r] \cap Kept') >= RetainLatest
  <2>1. r \in Goes /\ r \in Runs
    BY <1>1, <1>4, <1>11 DEF Doomed
  <2>2. Rest \subseteq newer'[r] \cap Kept' /\ newer'[r] \cap Kept' \in SUBSET Runs
    BY <1>1, <1>6, <1>8, <2>1
  <2> QED  BY <1>10, <2>2
<1>12. Cardinality(Kept') >= RetainLatest
  BY <1>8, <1>10
<1> QED  BY <1>11, <1>12 DEF EnoughKept

LEMMA LatestStep ==
  SharedInv /\ SharedInv' /\ Ordered /\ LatestInv /\ [Next]_vars => LatestInv'
<1> SUFFICES ASSUME SharedInv, SharedInv', Ordered, LatestInv, [Next]_vars, ~misled'
             PROVE  LatestInv'
    BY DEF LatestInv
<1> USE DEF SharedInv, StateTypes
<1>1. CASE Still
  <2>1. Existing' = Existing /\ UNCHANGED <<newer, created, doomed, revived, misled>>
    BY <1>1 DEF Still, gcvars
  <2>2. Kept' = Kept
    BY <2>1 DEF Kept, Doomed
  <2>3. EnoughKept => EnoughKept'
    <3> HIDE DEF SharedInv, StateTypes
    <3> QED  BY <2>1, <2>2 DEF EnoughKept
  <2> HIDE DEF SharedInv, StateTypes
  <2> QED  BY <2>1, <2>3 DEF LatestInv
<1>2. ASSUME NEW p \in Processes, Touched(p) PROVE LatestInv'
  <2>1. CASE (\A c \in Collectors : doomed[c] = {}) /\ Existing = created
    BY <1>2, <2>1 DEF Touched, LatestInv
  <2>2. CASE EnoughKept
    <3>1. Kept \subseteq Kept'
      BY <1>2 DEF Touched, Kept, Doomed
    <3>2. ASSUME NEW c \in Collectors, NEW r \in doomed'[c] \cap Existing', r \notin revived'[c]
          PROVE  /\ r \in doomed[c] \cap Existing /\ r \notin revived[c]
                 /\ newer[r] \subseteq newer'[r]
      <4>1. r \in doomed[c] /\ r # p /\ r \notin revived[c] /\ r \in Runs
        BY <1>2, <3>2 DEF Touched
      <4> QED  BY <1>2, <3>2, <4>1 DEF Touched
    <3> QED  BY <2>2, <3>1, <3>2, EnoughStays DEF LatestInv
  <2> QED  BY <1>2, <2>1, <2>2 DEF Touched, LatestInv
<1>3. ASSUME NEW c \in Collectors, Plan(c) PROVE LatestInv'
  BY <1>3, PlanLeaves DEF LatestInv
<1>4. ASSUME NEW c \in Collectors, NEW r \in Runs, Remove(c, r) \/ RemoveFails(c, r)
      PROVE  LatestInv'
  <2>1. EnoughKept
    BY <1>4, RemovalSteps DEF LatestInv
  <2>2. Kept \subseteq Kept'
    <3>1. r \in doomed[c]
      BY <1>4 DEF Remove, RemoveFails
    <3>2. Doomed' \subseteq Doomed
      BY <1>4, RemovalSteps DEF Doomed
    <3>3. r \in Doomed
      BY <3>1 DEF Doomed
    <3> QED  BY <1>4, <3>2, <3>3, RemovalSteps DEF Kept
  <2>3. ASSUME NEW d \in Collectors, NEW q \in doomed'[d] \cap Existing', q \notin revived'[d]
        PROVE  /\ q \in doomed[d] \cap Existing /\ q \notin revived[d]
               /\ newer[q] \subseteq newer'[q]
    BY <1>4, <2>3, RemovalSteps
  <2> QED  BY <2>1, <2>2, <2>3, EnoughStays DEF LatestInv
<1> QED  BY <1>1, <1>2, <1>3, <1>4, DirectorySteps DEF Collect

\* For any number of processes, directories and collections, in whatever order
\* and however they overlap, --retain-latest directories are left, or all that
\* ever were, unless a collection took for one of the latest a directory that
\* another was about to remove and that its run wrote to since (collect_garbage
\* plans from one look at the directories and takes no lock).
THEOREM LatestKept == Spec => []KeepsLatest
<1>1. Init => Ordered /\ LatestInv
  <2>1. Init => Ordered
    BY DEF Init, Ordered
  <2>2. Init => LatestInv
    BY DEF Init, LatestInv, Existing
  <2> QED  BY <2>1, <2>2
<1>2. SharedInv /\ LatestInv => KeepsLatest
  <2> SUFFICES ASSUME SharedInv, EnoughKept PROVE Cardinality(Existing) >= RetainLatest
      BY DEF LatestInv, KeepsLatest
  <2>1. Existing \in SUBSET Runs /\ Kept \in SUBSET Existing
    BY DEF Existing, Kept
  <2>2. /\ Cardinality(Kept) <= Cardinality(Existing)
        /\ Cardinality(Kept) \in Nat /\ Cardinality(Existing) \in Nat
    BY <2>1, NoLarger, RunsFinite
  <2> QED  BY <2>2 DEF EnoughKept
<1> QED  BY <1>1, <1>2, OrderedStep, LatestStep, SharedAlways, PTL DEF Spec

(***************************************************************************)
(* No process keeps another from its end.                                  *)
(***************************************************************************)

\* What is left of a run but for its tool steps, at most; writing a file takes
\* three steps, and others may move the file under it between them.
PhaseLeft ==
    [idle |-> 21, building |-> 17, built |-> 17, loading |-> 13, checking |-> 13,
     accepted |-> 12, starting |-> 11, checkpointing |-> 7, running |-> 7,
     fingerprinting |-> 3, saving |-> 0, rejected |-> 1,
     done |-> 0, refused |-> 0, failed |-> 0, dead |-> 0]
WriteLeft(stage) == IF stage = "idle" THEN 3 ELSE IF stage = "written" THEN 1 ELSE 2
FilesLeft(p) ==
    IF pc[p] \in Indexing THEN WriteLeft(indexStage[p])
    ELSE IF pc[p] = "saving" THEN WriteLeft(sessionStage[p]) ELSE 0
ToolsLeft(p) ==
    IF pc[p] \in Ended \cup {"rejected", "fingerprinting", "saving"} THEN 0
    ELSE 4 * (MaxSteps - steps[p])
StepsLeft(p) == PhaseLeft[pc[p]] + ToolsLeft(p) + FilesLeft(p)

Own(p) == Step(p) \/ Die(p) \/ \E r \in Runs : Begin(p, r)

LEMMA StepsLeftBounds ==
  ASSUME SharedInv, NEW p \in Processes
  PROVE  /\ StepsLeft(p) \in 0 .. 4 * MaxSteps + 21
         /\ StepsLeft(p) = 0 <=> pc[p] \in Ended
<1>1. steps[p] \in 0 .. MaxSteps /\ pc[p] \in PCs
  BY DEF SharedInv, StateTypes
<1>2. /\ ToolsLeft(p) \in 0 .. 4 * MaxSteps
      /\ pc[p] \in Ended => ToolsLeft(p) = 0
  BY <1>1 DEF ToolsLeft
<1>3. /\ FilesLeft(p) \in 0 .. 3
      /\ pc[p] \in Indexing \cup {"saving"} => FilesLeft(p) >= 1
      /\ pc[p] \notin Indexing \cup {"saving"} => FilesLeft(p) = 0
  BY DEF FilesLeft, WriteLeft
<1>4. /\ PhaseLeft[pc[p]] \in 0 .. 21
      /\ pc[p] \in Indexing \cup {"saving"} => PhaseLeft[pc[p]] <= 17
      /\ PhaseLeft[pc[p]] = 0 <=> pc[p] \in Ended \cup {"saving"}
  BY <1>1 DEF PhaseLeft
<1> HIDE DEF PhaseLeft, Indexing, Ended
<1>5. "saving" \notin Ended /\ Ended \cap Indexing = {}
  BY DEF Ended, Indexing
<1> QED  BY <1>2, <1>3, <1>4, <1>5 DEF StepsLeft

\* A step of its own brings a process nearer to its end.
LEMMA OwnStepSpends ==
  ASSUME SharedInv, FilesInv, NEW p \in Processes, Own(p)
  PROVE  StepsLeft(p)' < StepsLeft(p)
<1> USE DEF SharedInv, StateTypes, Goto
<1>1. /\ steps[p] \in 0 .. MaxSteps /\ pc[p] \in PCs
      /\ pc[p] \notin Indexing => indexStage[p] = "idle"
      /\ pc[p] # "saving" => sessionStage[p] = "idle"
  BY DEF Busy
<1>2. CASE DigestFiles(p) \/ FlushIndex(p)
  <2>1. /\ pc' = pc /\ steps' = steps /\ pc[p] \in Indexing
        /\ \/ indexStage[p] = "idle" /\ indexStage'[p] = "temp"
           \/ indexStage[p] \notin {"idle", "written"} /\ indexStage'[p] = "written"
    BY <1>1, <1>2 DEF DigestFiles, FlushIndex, FilesInv, Index!AtomicTypeOK, Index!OpenTemp, Index!Flush
  <2>2. PhaseLeft[pc[p]]' = PhaseLeft[pc[p]] /\ PhaseLeft[pc[p]] \in Nat
    BY <1>1, <2>1 DEF PhaseLeft
  <2>3. ToolsLeft(p)' = ToolsLeft(p) /\ ToolsLeft(p) \in Nat
    BY <1>1, <2>1 DEF ToolsLeft
  <2>4. FilesLeft(p)' < FilesLeft(p) /\ FilesLeft(p) \in Nat /\ FilesLeft(p)' \in Nat
    BY <2>1 DEF FilesLeft, WriteLeft
  <2> QED  BY <2>2, <2>3, <2>4 DEF StepsLeft
<1>10. CASE FileVanishes(p)
  <2>1. /\ steps' = steps /\ indexStage' = indexStage /\ pc[p] \in Indexing
        /\ pc'[p] \in {"failed", "rejected"} /\ indexStage[p] = "idle"
        /\ pc'[p] = "rejected" => pc[p] = "loading"
    BY <1>10 DEF FileVanishes, Reading, Raise, indexvars
  <2> QED  BY <1>1, <2>1 DEF StepsLeft, PhaseLeft, ToolsLeft, FilesLeft, WriteLeft
<1>3. CASE ReplaceIndex(p) \/ LoseIndex(p)
  <2>1. /\ steps' = steps /\ pc[p] \in Indexing /\ sessionStage' = sessionStage
        /\ indexStage[p] = "written" /\ indexStage'[p] = "idle"
        /\ pc'[p] \in {AfterIndex[pc[p]], "failed"} \cup (IF pc[p] = "loading" THEN {"rejected"} ELSE {})
    BY <1>1, <1>3 DEF ReplaceIndex, LoseIndex, Raise, FilesInv, Index!AtomicTypeOK, Index!Rename,
                      Index!RenameFails, sessionvars
  <2>2. FilesLeft(p) = 1
    BY <2>1 DEF FilesLeft, WriteLeft
  <2>3. ToolsLeft(p) \in Nat /\ ToolsLeft(p)' \in {0, ToolsLeft(p)}
    BY <1>1, <2>1 DEF ToolsLeft, AfterIndex
  <2>4. PhaseLeft[pc'[p]] + FilesLeft(p)' < PhaseLeft[pc[p]] + 1
    BY <1>1, <2>1 DEF PhaseLeft, FilesLeft, WriteLeft, AfterIndex
  <2>5. /\ PhaseLeft[pc[p]] \in Nat /\ PhaseLeft[pc'[p]] \in Nat /\ FilesLeft(p)' \in Nat
    BY <1>1, <2>1 DEF PhaseLeft, AfterIndex, FilesLeft, WriteLeft
  <2> QED  BY <2>2, <2>3, <2>4, <2>5 DEF StepsLeft
<1>4. ASSUME steps' = steps, pc[p] \notin Indexing \cup {"saving"}, pc'[p] \in Ended
      PROVE  StepsLeft(p)' < StepsLeft(p) \/ pc[p] \in Ended
  <2>1. StepsLeft(p)' = 0
    BY <1>4 DEF StepsLeft, PhaseLeft, ToolsLeft, FilesLeft
  <2> QED  BY <2>1, StepsLeftBounds
<1>5. CASE Acquire(p) \/ Refused(p) \/ Load(p) \/ Release(p)
  <2>1. /\ steps' = steps /\ indexStage' = indexStage
        /\ <<pc[p], pc'[p]>> \in {<<"built", "loading">>, <<"built", "refused">>, <<"checking", "accepted">>,
             <<"checking", "rejected">>, <<"accepted", "starting">>, <<"rejected", "failed">>}
    BY <1>5 DEF Acquire, Refused, Load, Release, indexvars
  <2> QED  BY <1>1, <2>1 DEF StepsLeft, PhaseLeft, ToolsLeft, FilesLeft, WriteLeft
<1>6. CASE Start(p) \/ TraceFails(p) \/ Report(p) \/ \E r \in Runs : Begin(p, r)
  <2>1. /\ steps' = steps /\ indexStage' = indexStage
        /\ <<pc[p], pc'[p]>> \in {<<"idle", "building">>, <<"starting", "checkpointing">>,
             <<"running", "failed">>, <<"running", "fingerprinting">>}
    BY <1>6 DEF Start, TraceFails, Report, Begin, indexvars
  <2> QED  BY <1>1, <2>1 DEF StepsLeft, PhaseLeft, ToolsLeft, FilesLeft, WriteLeft
<1>7. CASE ToolStep(p)
  <2>1. /\ steps[p] < MaxSteps /\ steps'[p] = steps[p] + 1 /\ indexStage' = indexStage
        /\ pc[p] = "running" /\ pc'[p] = "checkpointing"
    BY <1>7 DEF ToolStep, indexvars
  <2> QED  BY <1>1, <2>1 DEF StepsLeft, PhaseLeft, ToolsLeft, FilesLeft, WriteLeft
<1>8. CASE SaveSession(p)
  <2>1. /\ pc[p] = "saving"
        /\ \/ pc' = pc /\ sessionStage[p] = "idle" /\ sessionStage'[p] = "temp"
           \/ pc' = pc /\ sessionStage[p] \notin {"idle", "written"} /\ sessionStage'[p] = "written"
           \/ pc'[p] \in {"done", "failed"}
    BY <1>1, <1>8 DEF SaveSession, FilesInv, Session!AtomicTypeOK, Session!OpenTemp, Session!Flush
  <2> QED  BY <2>1 DEF StepsLeft, PhaseLeft, ToolsLeft, FilesLeft, WriteLeft
<1>9. CASE Die(p)
  <2>1. pc[p] \notin Ended /\ pc'[p] = "dead"
    BY <1>9 DEF Die
  <2>2. StepsLeft(p)' = 0
    BY <2>1 DEF StepsLeft, PhaseLeft, ToolsLeft, FilesLeft
  <2> QED  BY <2>1, <2>2, StepsLeftBounds
<1> QED  BY <1>2, <1>3, <1>5, <1>6, <1>7, <1>8, <1>9, <1>10 DEF Own, Step

\* A step of another process or a collection takes nothing from it.
LEMMA OtherStepSpares ==
  ASSUME SharedInv, FilesInv, NEW p \in Processes,
         \/ \E q \in Processes \ {p} : Own(q)
         \/ (\E c \in Collectors : Collect(c)) \/ UNCHANGED vars
  PROVE  StepsLeft(p)' = StepsLeft(p)
<1> USE DEF SharedInv, StateTypes, Goto
<1> DEFINE Same(stage, stageNext) == WriteLeft(stageNext) = WriteLeft(stage)
<1>1. ASSUME pc'[p] = pc[p], steps'[p] = steps[p],
             Same(indexStage[p], indexStage'[p]), Same(sessionStage[p], sessionStage'[p])
      PROVE  StepsLeft(p)' = StepsLeft(p)
  BY <1>1 DEF StepsLeft, ToolsLeft, FilesLeft
<1>2. CASE (\E c \in Collectors : Collect(c)) \/ UNCHANGED vars
  BY <1>1, <1>2 DEF Collect, Plan, Remove, RemoveFails, vars, indexvars, sessionvars
<1>3. ASSUME NEW q \in Processes \ {p}, Own(q) PROVE StepsLeft(p)' = StepsLeft(p)
  <2>1. pc'[p] = pc[p] /\ steps'[p] = steps[p]
    BY <1>3 DEF Own, Step, Begin, Die, DigestFiles, FileVanishes, Raise, FlushIndex, ReplaceIndex,
                LoseIndex, Acquire, Refused, Load, Release, Start, ToolStep, TraceFails, Report, SaveSession
  <2>2. Same(indexStage[p], indexStage'[p])
    <3>1. CASE UNCHANGED indexStage
      BY <3>1
    <3>2. CASE DigestFiles(q) \/ FlushIndex(q) \/ ReplaceIndex(q) \/ LoseIndex(q) \/ Die(q)
      BY <1>3, <3>2 DEF DigestFiles, FlushIndex, ReplaceIndex, LoseIndex, Die, FilesInv,
                  Index!AtomicTypeOK, Index!Stages, Index!OpenTemp, Index!Flush, Index!Rename,
                  Index!RenameFails, Index!Abandon, WriteLeft
    <3> QED  BY <1>3, <3>1, <3>2 DEF Own, Step, Begin, Acquire, Refused, Load, Release, Start,
                  ToolStep, TraceFails, Report, SaveSession, FileVanishes, indexvars
  <2>3. Same(sessionStage[p], sessionStage'[p])
    <3>1. CASE UNCHANGED sessionStage
      BY <3>1
    <3>2. CASE SaveSession(q) \/ Die(q)
      BY <1>3, <3>2 DEF SaveSession, Die, FilesInv, Session!AtomicTypeOK, Session!Stages,
                  Session!OpenTemp, Session!Flush, Session!Rename, Session!RenameFails,
                  Session!Abandon, WriteLeft
    <3> QED  BY <1>3, <3>1, <3>2 DEF Own, Step, Begin, DigestFiles, FileVanishes, FlushIndex, ReplaceIndex,
                  LoseIndex, Acquire, Refused, Load, Release, Start, ToolStep, TraceFails, Report,
                  sessionvars
  <2> QED  BY <1>1, <2>1, <2>2, <2>3
<1> QED  BY <1>2, <1>3

\* Every process ends within 4 * MaxSteps + 21 steps of its own, however the
\* others, the collections and the deaths come between: each such step leaves
\* it fewer, no step of another changes how many, and none are left only at
\* its end (RunLock.acquire raises instead of waiting; a temporary name taken
\* away raises, too).  With NeverStuck, which the run checks, the processes
\* are free of waiting.
OwnStepsCount ==
    \A p \in Processes :
      /\ Own(p) => StepsLeft(p)' < StepsLeft(p)
      /\ ~Own(p) => StepsLeft(p)' = StepsLeft(p)
StepsEnd ==
    \A p \in Processes :
      /\ StepsLeft(p) \in 0 .. 4 * MaxSteps + 21
      /\ StepsLeft(p) = 0 <=> pc[p] \in Ended

THEOREM ProcessesUndelayed == Spec => []StepsEnd /\ [][OwnStepsCount]_vars
<1>1. SharedInv => StepsEnd
  BY StepsLeftBounds DEF StepsEnd
<1>2. SharedInv /\ FilesInv /\ [Next]_vars => [OwnStepsCount]_vars
  <2> SUFFICES ASSUME SharedInv, FilesInv, Next, NEW p \in Processes
               PROVE  /\ Own(p) => StepsLeft(p)' < StepsLeft(p)
                      /\ ~Own(p) => StepsLeft(p)' = StepsLeft(p)
      BY DEF OwnStepsCount
  <2>1. (\E q \in Processes : Own(q)) \/ \E c \in Collectors : Collect(c)
    BY DEF Next, Own
  <2> QED  BY <2>1, OwnStepSpends, OtherStepSpares
<1> QED  BY <1>1, <1>2, SharedAlways, FilesAlways, PTL DEF Spec
====
