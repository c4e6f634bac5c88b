--------------------------- MODULE CaseLifecycle ---------------------------
(***************************************************************************)
(* The store of case cards (src/tifa/cases.py): failed runs propose        *)
(* candidates, a counterfactual replay verifies a candidate's suggested    *)
(* override, a reviewer promotes, supersedes and rejects cards, and the    *)
(* agent injects the verified and fresh ones into its prompt.              *)
(*                                                                         *)
(* Who runs at the same time.  Agents and people propose, each listing the *)
(* cards first and saving a new one later.  Replays take long and end at   *)
(* any time.  One reviewer promotes and rejects; a promotion saves two     *)
(* cards, and the process may die in between.  Loading and saving one card *)
(* back to back is one step.                                               *)
(*                                                                         *)
(* Data abstraction.  A replay is good when the gates of promote on its    *)
(* report, its bundle and its provenance pass.  None of them asks which    *)
(* run was replayed, so a replay is told by its override alone.  The       *)
(* workspace is one file's content; a digest is the content under the      *)
(* function that took it.                                                  *)
(***************************************************************************)
EXTENDS FiniteSets

CONSTANTS
  Cases,        \* case ids
  Runs,         \* failed runs
  Proposers,    \* processes that may propose: agents ending a run, the CLI
  Replays,      \* verification processes, each runs one replay
  Signatures,   \* task signatures
  Variables,    \* what a replay may override
  Provider,     \* the one of them a person has to settle
  Values,       \* what a variable may be set to
  Undecided,    \* the value "review-required-provider"
  Overrides,    \* overrides a counterfactual replay may apply
  Contents,     \* contents of the workspace
  None, Ended

Placeholder == [variable |-> Provider, value |-> Undecided]
\* What cases verify makes of the placeholder when override o is tried.
Settled(o) == [variable |-> Provider, value |-> o.value]
Settlements == {Settled(o) : o \in Overrides}
\* What suggest_override may say of a failed run.
Suggestions == {o \in Overrides : o.variable # Provider} \cup {Placeholder, None}
Deltas == Overrides \cup Settlements \cup {Placeholder, None}
Statuses == {"candidate", "verified", "rejected", "superseded"}
Evidence == [override: Overrides, good: BOOLEAN]
Report == [sig: Signatures, delta: Suggestions, before: Contents, left: Contents]
Digest == [by: {"json", "bytes"}, of: Contents]
Card ==
  [status: Statuses, sig: Signatures, delta: Deltas, run: Runs,
   supersedes: Cases \cup {None}, evidence: Evidence \cup {None},
   snapshot: Contents \cup {None}, dependency: Digest \cup {None}]
Replay == [case: Cases, override: Overrides]

ASSUME CasesAssumption ==
  /\ Overrides \subseteq [variable: Variables, value: Values]
  /\ Undecided \notin Values
  /\ None \notin Overrides \cup Settlements \cup {Placeholder}
  /\ None \notin Cases \cup Contents \cup Evidence \cup Report \cup Card
  /\ {None, Ended} \cap Replay = {}

VARIABLES
  card,       \* the cards on disk, None where there is no file
  report,     \* report.json and bundle of a failed run, None before it ends
  proposing,  \* per proposer: the card it is about to save, or None
  replaying,  \* per replay: case and override; None before, Ended after
  promoting,  \* the case whose promotion has passed every check, or None
  held,       \* the card of that promotion as it was loaded
  workspace,  \* content of the workspace
  proved      \* overrides of the good replays that ended; whoever ran one has its result

vars == <<card, report, proposing, replaying, promoting, held, workspace, proved>>

Present == {c \in Cases : card[c] # None}

Init ==
  /\ card = [c \in Cases |-> None] /\ report = [r \in Runs |-> None]
  /\ proposing = [p \in Proposers |-> None] /\ replaying = [v \in Replays |-> None]
  /\ promoting = None /\ held = None
  /\ workspace \in Contents /\ proved = {}

----------------------------------------------------------------------------
(***************************************************************************)
(* Proposals.                                                              *)
(***************************************************************************)

\* A run whose verifier did not pass ends: its snapshot is the workspace as
\* the run found it, its artifact the content it left.
RunFails(r) ==
  /\ report[r] = None
  /\ \E sig \in Signatures, delta \in Suggestions, left \in Contents :
       /\ report' = [report EXCEPT ![r] =
            [sig |-> sig, delta |-> delta, before |-> workspace, left |-> left]]
       /\ workspace' = left
  /\ UNCHANGED <<card, proposing, replaying, promoting, held, proved>>

\* The digest of an artifact is taken over the JSON text of its content.
ArtifactDigest(content) == [by |-> "json", of |-> content]
\* file_digest: over the bytes of the file.
FileDigest(content) == [by |-> "bytes", of |-> content]

NewCard(r) ==
  [status |-> "candidate", sig |-> report[r].sig, delta |-> report[r].delta, run |-> r,
   supersedes |-> None, evidence |-> None, snapshot |-> report[r].before,
   dependency |-> IF report[r].left = report[r].before THEN None
                  ELSE ArtifactDigest(report[r].left)]

\* propose_from_run finds no candidate of the run.
Propose(p, r) ==
  /\ proposing[p] = None /\ report[r] # None
  /\ \A c \in Present : ~(card[c].run = r /\ card[c].status = "candidate")
  /\ proposing' = [proposing EXCEPT ![p] = NewCard(r)]
  /\ UNCHANGED <<card, report, replaying, promoting, held, workspace, proved>>

\* The new card is saved under a new id.
SaveProposal(p) ==
  /\ proposing[p] # None
  /\ \E c \in Cases \ Present : card' = [card EXCEPT ![c] = proposing[p]]
  /\ proposing' = [proposing EXCEPT ![p] = None]
  /\ UNCHANGED <<report, replaying, promoting, held, workspace, proved>>

\* A person writes a card about a run, possibly one that supersedes another.
Author(c) ==
  /\ card[c] = None
  /\ \E r \in Runs, sig \in Signatures, delta \in Overrides, old \in Present \cup {None} :
       /\ report[r] # None
       /\ card' = [card EXCEPT ![c] =
            [status |-> "candidate", sig |-> sig, delta |-> delta, run |-> r,
             supersedes |-> old, evidence |-> None, snapshot |-> None, dependency |-> None]]
  /\ UNCHANGED <<report, proposing, replaying, promoting, held, workspace, proved>>

----------------------------------------------------------------------------
(***************************************************************************)
(* Verification.                                                           *)
(***************************************************************************)

\* cases verify: an undecided provider is settled by the value that is tried,
\* whichever variable that is a value of (cli.py:110), and the card is saved
\* before the replay starts.
StartReplay(v, c, o) ==
  /\ replaying[v] = None /\ card[c] # None
  /\ card' = IF card[c].delta = Placeholder
               THEN [card EXCEPT ![c].delta = Settled(o)] ELSE card
  /\ replaying' = [replaying EXCEPT ![v] = [case |-> c, override |-> o]]
  /\ UNCHANGED <<report, proposing, promoting, held, workspace, proved>>

Running(v) == replaying[v] \notin {None, Ended}

\* Slip: the card is saved as it was read before any decision on it.
MutRecord(v, good) ==
  /\ Running(v)
  /\ LET c == replaying[v].case
         o == replaying[v].override
     IN  /\ card' = [card EXCEPT ![c].evidence = [override |-> o, good |-> good],
                                 ![c].status = "candidate"]
         /\ proved' = IF good THEN proved \cup {o} ELSE proved
  /\ replaying' = [replaying EXCEPT ![v] = Ended]
  /\ UNCHANGED <<report, proposing, promoting, held, workspace>>
\* record_verification loads the card again and replaces its verification.
Record(v, good) ==
  /\ Running(v)
  /\ LET c == replaying[v].case
         o == replaying[v].override
     IN  /\ card' = [card EXCEPT ![c].evidence = [override |-> o, good |-> good]]
         /\ proved' = IF good THEN proved \cup {o} ELSE proved
  /\ replaying' = [replaying EXCEPT ![v] = Ended]
  /\ UNCHANGED <<report, proposing, promoting, held, workspace>>

\* The replay raises, or its process dies: nothing is recorded.
ReplayFails(v) ==
  /\ Running(v)
  /\ replaying' = [replaying EXCEPT ![v] = Ended]
  /\ UNCHANGED <<card, report, proposing, promoting, held, workspace, proved>>

\* Somebody replays a failed run without recording the result on a card.
ReplayApart ==
  /\ \E r \in Runs : report[r] # None
  /\ \E o \in Overrides : proved' = proved \cup {o}
  /\ UNCHANGED <<card, report, proposing, replaying, promoting, held, workspace>>

----------------------------------------------------------------------------
(***************************************************************************)
(* Promotion and rejection.                                                *)
(***************************************************************************)

\* Slip: the replayed override is not compared with the card's.
MutGated(k) ==
  \E e \in {[override |-> o, good |-> TRUE] : o \in proved} \cup {k.evidence} :
    e # None /\ e.good
\* The three gates, on the replay the caller supplies or, without one, on the
\* verification recorded on the card.
Gated(k) ==
  \E e \in {[override |-> o, good |-> TRUE] : o \in proved} \cup {k.evidence} :
    e # None /\ e.override = k.delta /\ e.good

Rivals(c) ==
  {d \in Present : d # c /\ card[d].status = "verified" /\ card[d].sig = card[c].sig}

\* Slips: duplicates are not looked for; conflicts are not.
MutAdmissible(c) ==
  (card[c].supersedes = None) => \A d \in Rivals(c) : card[d].delta = card[c].delta
MutAdmissibleConflict(c) == \A d \in Rivals(c) : card[d].delta # card[c].delta
\* No verified card of the same task with the same override, and none with
\* another unless this card supersedes one.
Admissible(c) ==
  /\ \A d \in Rivals(c) : card[d].delta # card[c].delta
  /\ card[c].supersedes = None => Rivals(c) = {}

\* Slip: the old card is given up before the gates are passed.
MutPromote(c) ==
  /\ promoting = None /\ card[c] # None
  /\ LET old == card[c].supersedes
     IN  IF old = None
           THEN Gated(card[c]) /\ Admissible(c) /\ UNCHANGED card
                /\ promoting' = c /\ held' = card[c]
           ELSE /\ old \in Present /\ card[old].status = "verified"
                /\ card' = [card EXCEPT ![old].status = "superseded"]
                /\ IF Gated(card[c]) /\ Admissible(c)
                     THEN promoting' = c /\ held' = card[c]
                     ELSE UNCHANGED <<promoting, held>>
  /\ UNCHANGED <<report, proposing, replaying, workspace, proved>>
\* promote, up to its first save: a card that is superseded is saved first.
\* Whatever status the card itself has, it may be promoted; no card on disk
\* is marked stale.
Promote(c) ==
  /\ promoting = None /\ card[c] # None
  /\ Gated(card[c]) /\ Admissible(c)
  /\ LET old == card[c].supersedes
     IN  IF old = None THEN UNCHANGED card
         ELSE /\ old \in Present /\ card[old].status = "verified"
              /\ card' = [card EXCEPT ![old].status = "superseded"]
  /\ promoting' = c /\ held' = card[c]
  /\ UNCHANGED <<report, proposing, replaying, workspace, proved>>

\* The promoted card is saved, as it was loaded.
SavePromoted ==
  /\ promoting # None
  /\ card' = [card EXCEPT ![promoting] = [held EXCEPT !.status = "verified"]]
  /\ promoting' = None /\ held' = None
  /\ UNCHANGED <<report, proposing, replaying, workspace, proved>>

\* The reviewer's process dies between the two saves.
PromotionDies ==
  /\ promoting # None
  /\ promoting' = None /\ held' = None
  /\ UNCHANGED <<card, report, proposing, replaying, workspace, proved>>

\* Slip: a status that save refuses.
MutReject(c) ==
  /\ promoting = None /\ card[c] # None
  /\ card' = [card EXCEPT ![c].status = "refused"]
  /\ UNCHANGED <<report, proposing, replaying, promoting, held, workspace, proved>>
\* Any card may be rejected, and promoted again afterwards.
Reject(c) ==
  /\ promoting = None /\ card[c] # None
  /\ card' = [card EXCEPT ![c].status = "rejected"]
  /\ UNCHANGED <<report, proposing, replaying, promoting, held, workspace, proved>>

\* Somebody changes the workspace.
Edit ==
  /\ workspace' \in Contents
  /\ UNCHANGED <<card, report, proposing, replaying, promoting, held, proved>>

Next ==
  \/ \E r \in Runs : RunFails(r)
  \/ \E p \in Proposers, r \in Runs : Propose(p, r)
  \/ \E p \in Proposers : SaveProposal(p)
  \/ \E c \in Cases : Author(c) \/ Promote(c) \/ Reject(c)
  \/ \E v \in Replays, c \in Cases, o \in Overrides : StartReplay(v, c, o)
  \/ \E v \in Replays, good \in BOOLEAN : Record(v, good)
  \/ \E v \in Replays : ReplayFails(v)
  \/ ReplayApart
  \/ SavePromoted \/ PromotionDies \/ Edit

Spec == Init /\ [][Next]_vars

----------------------------------------------------------------------------
(***************************************************************************)
(* Properties.                                                             *)
(***************************************************************************)
CasesTypeOK ==
  /\ card \in [Cases -> Card \cup {None}]
  /\ report \in [Runs -> Report \cup {None}]
  /\ proposing \in [Proposers -> Card \cup {None}]
  /\ replaying \in [Replays -> Replay \cup {None, Ended}]
  /\ promoting \in Cases \cup {None} /\ held \in Card \cup {None}
  /\ workspace \in Contents /\ proved \subseteq Overrides

Verified == {c \in Present : card[c].status = "verified"}

\* A card is verified only for an override that a passing replay, one that
\* changed nothing else, has shown to help: whatever replays end before,
\* during or after its promotion, however late its provider is settled, and
\* whatever it is settled with (cases.py:128-136, cli.py:110).  The replay
\* need not be recorded on the card, nor be one of its run: promote judges
\* the one its caller supplies (cases.py:128).
VerifiedOnEvidence == \A c \in Verified : card[c].delta \in proved

\* Two verified cards never advise the same override for the same task
\* (cases.py:140-141), across interrupted promotions, rejected and
\* superseded cards promoted again, and providers settled late.
NoDuplicateVerified ==
  \A c, d \in Verified :
    c # d /\ card[c].sig = card[d].sig => card[c].delta # card[d].delta

\* Verified cards that advise different overrides for the same task exist
\* only where one of them supersedes some card (cases.py:142-143).
ConflictOnlyBySuperseding ==
  \A c, d \in Verified :
    c # d /\ card[c].sig = card[d].sig =>
      card[c].supersedes # None \/ card[d].supersedes # None

\* A card is given up only for one that names it and whose override a replay
\* has shown to help - even when the promotion dies half-way
\* (cases.py:144-149).
SupersededForEvidence ==
  \A c \in Present : card[c].status = "superseded" =>
    \E d \in Present : card[d].supersedes = c /\ card[d].delta \in proved

(***************************************************************************)
(* The store implements CaseReview: what it shows of a card are its        *)
(* status, its task, its override and what it supersedes.                  *)
(***************************************************************************)
StatusView == [c \in Cases |-> IF card[c] = None THEN "none" ELSE card[c].status]
TaskView == [c \in Cases |-> IF card[c] = None THEN None ELSE card[c].sig]
AdviceView == [c \in Cases |-> IF card[c] = None THEN None ELSE card[c].delta]
ReplacesView == [c \in Cases |-> IF card[c] = None THEN None ELSE card[c].supersedes]

Review == INSTANCE CaseReview
            WITH status <- StatusView, task <- TaskView, advice <- AdviceView,
                 replaces <- ReplacesView, helped <- proved

\* Every step of the store is one atomic, justified decision of CaseReview or
\* leaves no trace in it: what a promotion has checked still holds at its last
\* save, a promotion cut off half-way gave a card up for a worthy one, and no
\* replay that began before a decision undoes it (cases.py:120-149).
ImplementsCaseReview == Review!Spec

\* What assess_freshness says of a card in the present workspace, as ask
\* calls it.
StaleReasons(k) ==
  (IF k.snapshot # None /\ k.snapshot # workspace THEN {"repo_snapshot_changed"} ELSE {})
    \cup (IF k.dependency # None /\ k.dependency # FileDigest(workspace)
            THEN {"dependency_changed"} ELSE {})

\* A dependency is reported as changed only if the file is no longer what
\* the run left (cases.py:98 and 109-111, runtime.py:159 and 260).
ChangedOnlyIfChanged ==
  \A c \in Present :
    "dependency_changed" \in StaleReasons(card[c]) => workspace # report[card[c].run].left
=============================================================================
