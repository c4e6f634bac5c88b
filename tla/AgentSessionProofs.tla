------------------------- MODULE AgentSessionProofs -------------------------
(***************************************************************************)
(* Theorems about AgentSession, for every number of asks and crashes and   *)
(* every set of calls.  The types of a running loop are those of           *)
(* AgentLoopProofs; what a session adds is the relation between what took  *)
(* effect in the workspace, what the agent knows of it, and what each      *)
(* checkpoint on disk knows of it.                                         *)
(***************************************************************************)
EXTENDS AgentSession, AgentLoopProofs

Stored == safe \cup saved

SessionTypeInv == SessionTypeOK /\ TypeInv

----------------------------------------------------------------------------
(***************************************************************************)
(* What the steps of a session do to the three.                            *)
(***************************************************************************)

\* A step of the loop applies the call in hand, or changes neither the
\* workspace nor what is known of it.
LEMMA LoopEffect ==
  ASSUME TypeInv, Next
  PROVE  \/ /\ pc = "running" /\ pc' = "commit" /\ Current.tool \in Tools
            /\ ~Reused(Current.tool)
            /\ completed' = completed \cup {Current.tool}
            /\ ws' \in Contents
            /\ applied' = [applied EXCEPT ![Current.tool] = @ + 1]
         \/ UNCHANGED <<completed, ws, applied>>
<1>1. CASE RunTool
  <2>1. Current.tool \in Tools /\ ws \in Contents
    BY <1>1, CurrentIsCall DEF RunTool, InHand, TypeInv, TypeOK
  <2>2. ws' \in Contents
    BY <1>1, <2>1, LeadsToContents DEF RunTool
  <2>. QED  BY <1>1, <2>1, <2>2 DEF RunTool
<1>2. CASE ~RunTool
  BY <1>2 DEF Next, HeadStep, GateStep, CallStep, CloseStep, loopVars, batchVars, toolVars,
       effectVars, StopAtLimit, StopOverBudget, ProviderFails, ResponseOverruns, ReceiveFinal,
       ReceiveUnusable, ReceiveCalls, GatePasses, GateAsksRepair, GateFails, RejectId, AcceptId,
       BlockRepetition, PrepareTool, ReuseResult, ToolRaises, CommitTool, VerifiedAfterTool,
       NextCall, BatchExecuted, CloseBatch, Finalize
<1>. QED  BY <1>1, <1>2

\* Every ask starts from the agent's own state or from a stored snapshot that
\* matches the workspace.
Starts(from) == StartAsk(from) /\ Matches(from) /\ from \in Stored \cup {Snapshot}

LEMMA SessionSteps ==
  ASSUME [SessionNext]_allVars
  PROVE  \/ LoopStep \/ Crash \/ UNCHANGED allVars
         \/ \E from \in Stored : Starts(from)
         \/ alive /\ Starts(Snapshot)
<1>1. CASE AskAgain
  BY <1>1 DEF AskAgain, Starts, Matches, Snapshot
<1>2. CASE FromSession \/ ResumeRun
  BY <1>2 DEF FromSession, ResumeRun, Starts, Stored
<1>. QED  BY <1>1, <1>2 DEF SessionNext

----------------------------------------------------------------------------
(***************************************************************************)
(* Types.                                                                  *)
(***************************************************************************)
LEMMA SnapshotType ==
  ASSUME TypeOK
  PROVE  Snapshot \in Snapshots
BY DEF TypeOK, Snapshot, Snapshots

LEMMA KnowledgeType ==
  ASSUME NEW s \in Snapshots
  PROVE  Knowledge(s) \in [completed: SUBSET Tools, ws: Contents]
BY DEF Snapshots, Knowledge

LEMMA SessionTypeInit == SessionInit => SessionTypeInv
<1>. SUFFICES ASSUME SessionInit PROVE SessionTypeInv
  OBVIOUS
<1>1. TypeInv
  BY TypeInit DEF SessionInit
<1>2. Snapshot \in Snapshots /\ ws \in Contents
  BY <1>1, SnapshotType DEF TypeInv, TypeOK
<1>3. Knowledge(Snapshot) \in [completed: SUBSET Tools, ws: Contents]
  BY <1>2, KnowledgeType
<1>4. /\ safe \subseteq Snapshots /\ saved \subseteq Snapshots
      /\ asks \in Nat /\ delivered \in Nat /\ crashes \in Nat
      /\ altered \in [Tools -> Nat] /\ past \subseteq Contents
      /\ newest \in [completed: SUBSET Tools, ws: Contents]
  BY <1>2, <1>3 DEF SessionInit
<1>5. alive \in BOOLEAN /\ returned \in BOOLEAN /\ astray \in BOOLEAN
  BY Zenon DEF SessionInit
<1>. QED  BY <1>1, <1>4, <1>5, Zenon DEF SessionTypeInv, SessionTypeOK, TypeInv

LEMMA StartType ==
  ASSUME SessionTypeInv, NEW from \in Snapshots, StartAsk(from)
  PROVE  SessionTypeInv'
<1>1. from.batch \in Seq(Call) /\ from.replies \in Seq(Message) /\ from.completed \in SUBSET Tools
  BY DEF Snapshots
<1>2. UNCHANGED <<ws, tried, applied, saved, crashes>>
  BY DEF StartAsk, effectVars
<1>3. TypeOK'
  <2>1. /\ pc' \in PCs /\ taskPhase' \in TaskPhases /\ stop' \in Stops /\ failure' \in Failures
        /\ outcome' \in Outcomes
    BY DEF StartAsk, NewBatchState, PCs, TaskPhases, Stops, Limits, Failures, Outcomes
  <2>2. /\ setup' \in Setups
        /\ batch' \in Seq(Call) /\ nexec' \in 0..Len(batch') /\ idx' \in Nat \ {0}
        /\ replies' \in Seq(Message) /\ deferred' \in Nat
    BY <1>1 DEF StartAsk, NewBatchState
  <2>3. /\ attempts' \in Nat /\ modelCalls' \in Nat /\ repairs' \in Nat
        /\ toolSteps' \in Nat /\ toolCalls' \in Nat
        /\ seen' \in SUBSET Ids /\ counts' \in [Tools -> Nat]
        /\ completed' \in SUBSET Tools /\ affected' \in SUBSET Writes
    BY <1>1 DEF StartAsk
  <2>4. ws' \in Contents /\ tried' \in [Tools -> Nat] /\ applied' \in [Tools -> Nat]
    BY <1>2 DEF SessionTypeInv, TypeInv, TypeOK
  <2>. QED  BY <2>1, <2>2, <2>3, <2>4 DEF TypeOK
<1>4. CallInHand'
  BY DEF StartAsk, CallInHand, InHand
<1>5. [from EXCEPT !.ws = ws] \in Snapshots
  BY DEF Snapshots, SessionTypeInv, TypeInv, TypeOK
<1>6. safe' \subseteq Snapshots /\ saved' \subseteq Snapshots
  BY <1>2, <1>5 DEF StartAsk, SessionTypeInv, SessionTypeOK
<1>7. asks' \in Nat /\ delivered' \in Nat /\ crashes' \in Nat
  BY <1>2 DEF StartAsk, SessionTypeInv, SessionTypeOK
<1>8. altered' \in [Tools -> Nat] /\ past' \subseteq Contents
  BY DEF StartAsk, SessionTypeInv, SessionTypeOK
<1>9. newest' \in [completed: SUBSET Tools, ws: Contents]
  BY <1>5, KnowledgeType DEF StartAsk
<1>10. alive' \in BOOLEAN /\ returned' \in BOOLEAN /\ astray' \in BOOLEAN
  BY Zenon DEF StartAsk, SessionTypeInv, SessionTypeOK
<1>. QED  BY <1>3, <1>4, <1>6, <1>7, <1>8, <1>9, <1>10, Zenon DEF SessionTypeInv, SessionTypeOK, TypeInv

LEMMA SessionTypeStep == SessionTypeInv /\ [SessionNext]_allVars => SessionTypeInv'
<1>. SUFFICES ASSUME SessionTypeInv, [SessionNext]_allVars PROVE SessionTypeInv'
  OBVIOUS
<1>1. CASE LoopStep
  <2>1. TypeInv'
    BY <1>1, TypeStep DEF LoopStep, SessionTypeInv
  <2>2. Snapshot' \in Snapshots
    BY <2>1, SnapshotType DEF TypeInv, TypeOK, Snapshot, Snapshots, Message, Call
  <2>3. safe' \subseteq Snapshots /\ saved' \subseteq Snapshots
    BY <1>1, <2>2 DEF LoopStep, SessionTypeInv, SessionTypeOK
  <2>4. altered' \in [Tools -> Nat] /\ past' \subseteq Contents
    <3>1. ws' # ws => Current.tool \in Tools
      BY <1>1, LoopEffect DEF LoopStep, SessionTypeInv
    <3>2. ws' \in Contents
      BY <2>1 DEF TypeInv, TypeOK
    <3>. QED  BY <1>1, <3>1, <3>2 DEF LoopStep, NoteStep, SessionTypeInv, SessionTypeOK
  <2>5. newest' \in [completed: SUBSET Tools, ws: Contents]
    <3>1. Knowledge(Snapshot') \in [completed: SUBSET Tools, ws: Contents]
      BY <2>2, KnowledgeType
    <3>. QED  BY <1>1, <3>1 DEF LoopStep, NoteStep, SessionTypeInv, SessionTypeOK
  <2>6. asks' \in Nat /\ delivered' \in Nat /\ crashes' \in Nat
    BY <1>1 DEF LoopStep, SessionTypeInv, SessionTypeOK
  <2>7. alive' \in BOOLEAN /\ returned' \in BOOLEAN /\ astray' \in BOOLEAN
    BY <1>1, Zenon DEF LoopStep, NoteStep, SessionTypeInv, SessionTypeOK
  <2>. QED
    BY <2>1, <2>3, <2>4, <2>5, <2>6, <2>7, Zenon DEF SessionTypeInv, SessionTypeOK, TypeInv
<1>2. CASE Crash \/ UNCHANGED allVars
  <2>1. UNCHANGED vars
    BY <1>2 DEF Crash, allVars
  <2>2. TypeInv'
    BY <2>1, TypeStep DEF SessionTypeInv
  <2>3. UNCHANGED <<safe, saved, asks, delivered, altered, past, returned, newest, astray>>
    BY <1>2 DEF Crash, allVars, sessionVars, historyVars
  <2>4. alive \in BOOLEAN /\ crashes \in Nat
    BY DEF SessionTypeInv, SessionTypeOK
  <2>5. alive' \in BOOLEAN
    BY <1>2, <2>4, Zenon DEF Crash, allVars, sessionVars
  <2>6. crashes' \in Nat
    BY <1>2, <2>4 DEF Crash, allVars, sessionVars
  <2>7. /\ returned' \in BOOLEAN /\ astray' \in BOOLEAN
    BY <2>3, Zenon DEF SessionTypeInv, SessionTypeOK
  <2>8. /\ safe' \subseteq Snapshots /\ saved' \subseteq Snapshots
        /\ asks' \in Nat /\ delivered' \in Nat
        /\ altered' \in [Tools -> Nat] /\ past' \subseteq Contents
        /\ newest' \in [completed: SUBSET Tools, ws: Contents]
    BY <2>3 DEF SessionTypeInv, SessionTypeOK
  <2>. QED
    BY <2>2, <2>5, <2>6, <2>7, <2>8, Zenon DEF SessionTypeInv, SessionTypeOK, TypeInv
<1>3. ASSUME NEW from \in Stored \cup {Snapshot}, Starts(from)
      PROVE  SessionTypeInv'
  <2>1. from \in Snapshots
    BY SnapshotType DEF Stored, SessionTypeInv, SessionTypeOK, TypeInv
  <2>. QED  BY <1>3, <2>1, StartType DEF Starts
<1>. QED  BY <1>1, <1>2, <1>3, SessionSteps

LEMMA SessionTypes == SessionSpec => []SessionTypeInv
<1>. QED  BY SessionTypeInit, SessionTypeStep, PTL DEF SessionSpec

\* Whatever crashes and resumptions, the agent and everything on disk are
\* well typed, and no batch in hand survives the start of an ask.
THEOREM SessionTypeOKHolds == SessionSpec => []SessionTypeOK
<1>1. SessionTypeInv => SessionTypeOK
  BY DEF SessionTypeInv
<1>. QED  BY <1>1, SessionTypes, PTL

----------------------------------------------------------------------------
(***************************************************************************)
(* What is on record as done was done.                                     *)
(***************************************************************************)
LEMMA GroundedInit == SessionInit => ReuseGrounded
BY DEF SessionInit, Init, ReuseGrounded, Snapshot

LEMMA GroundedStep ==
  SessionTypeInv /\ ReuseGrounded /\ [SessionNext]_allVars => ReuseGrounded'
<1>. SUFFICES ASSUME SessionTypeInv, ReuseGrounded, [SessionNext]_allVars
              PROVE  ReuseGrounded'
  OBVIOUS
<1>a. TypeInv /\ applied \in [Tools -> Nat] /\ completed \subseteq Tools
      /\ \A s \in Stored : s.completed \subseteq Tools
  BY DEF SessionTypeInv, SessionTypeOK, TypeInv, TypeOK, Stored, Snapshots
<1>1. CASE LoopStep
  <2>1. /\ \A t \in Tools : applied[t] >= 1 => applied'[t] >= 1
        /\ \A t \in completed' : applied'[t] >= 1
    BY <1>1, <1>a, LoopEffect DEF LoopStep, ReuseGrounded
  <2>2. \A s \in Stored' : s \in Stored \/ s = Snapshot'
    BY <1>1 DEF LoopStep, Stored
  <2>3. Snapshot'.completed = completed'
    BY DEF Snapshot
  <2>. QED  BY <1>a, <2>1, <2>2, <2>3 DEF ReuseGrounded, Stored
<1>2. CASE Crash \/ UNCHANGED allVars
  BY <1>2 DEF Crash, allVars, vars, toolVars, effectVars, sessionVars, ReuseGrounded
<1>3. ASSUME NEW from \in Stored \cup {Snapshot}, Starts(from)
      PROVE  ReuseGrounded'
  <2>1. \A t \in from.completed : applied[t] >= 1
    BY <1>3 DEF ReuseGrounded, Stored, Snapshot
  <2>2. /\ completed' = from.completed /\ UNCHANGED <<applied, saved>>
        /\ safe' = safe \cup {[from EXCEPT !.ws = ws]}
    BY <1>3 DEF Starts, StartAsk, effectVars
  <2>3. [from EXCEPT !.ws = ws].completed = from.completed
    OBVIOUS
  <2>. QED  BY <2>1, <2>2, <2>3 DEF ReuseGrounded
<1>. QED  BY <1>1, <1>2, <1>3, SessionSteps

\* A result is reused only for a call that took effect, in this run or in one
\* the agent was resumed from.
THEOREM ReuseGroundedHolds == SessionSpec => []ReuseGrounded
<1>. QED  BY GroundedInit, GroundedStep, SessionTypes, PTL DEF SessionSpec

----------------------------------------------------------------------------
(***************************************************************************)
(* What was committed need not be done again.  Outside the window between  *)
(* a tool's effect and its commit, some checkpoint is up to date.          *)
(***************************************************************************)
UpToDate == \E s \in safe : Matches(s) /\ completed \subseteq s.completed

RecoveryInv == pc # "commit" => UpToDate

LEMMA RecoveryInit == SessionInit => RecoveryInv
BY DEF SessionInit, RecoveryInv, UpToDate, Matches, Snapshot

LEMMA RecoveryStep ==
  SessionTypeInv /\ RecoveryInv /\ [SessionNext]_allVars => RecoveryInv'
<1>. SUFFICES ASSUME SessionTypeInv, RecoveryInv, [SessionNext]_allVars, pc' # "commit"
              PROVE  UpToDate'
  BY DEF RecoveryInv
<1>1. CASE LoopStep
  <2>1. CASE pc = "commit"
    <3>1. Snapshot' \in safe'
      BY <1>1, <2>1 DEF LoopStep
    <3>2. Snapshot'.ws = ws' /\ Snapshot'.completed = completed'
      BY DEF Snapshot
    <3>. QED  BY <3>1, <3>2 DEF UpToDate, Matches
  <2>2. CASE pc # "commit"
    <3>1. UNCHANGED <<completed, ws>> /\ safe' = safe
      BY <1>1, <2>2, LoopEffect DEF LoopStep, SessionTypeInv
    <3>. QED  BY <2>2, <3>1 DEF RecoveryInv, UpToDate, Matches
  <2>. QED  BY <2>1, <2>2
<1>2. CASE Crash \/ UNCHANGED allVars
  BY <1>2 DEF Crash, allVars, vars, loopVars, toolVars, effectVars, sessionVars,
              RecoveryInv, UpToDate, Matches
<1>3. ASSUME NEW from \in Stored \cup {Snapshot}, Starts(from)
      PROVE  UpToDate'
  <2>1. /\ completed' = from.completed /\ ws' = ws
        /\ [from EXCEPT !.ws = ws] \in safe'
    BY <1>3 DEF Starts, StartAsk, effectVars
  <2>2. [from EXCEPT !.ws = ws].completed = from.completed
    OBVIOUS
  <2>3. [from EXCEPT !.ws = ws].ws = ws
    <3>1. from \in Snapshots
      BY SnapshotType DEF Stored, SessionTypeInv, SessionTypeOK, TypeInv
    <3>. QED  BY <3>1 DEF Snapshots
  <2>. QED  BY <2>1, <2>2, <2>3 DEF UpToDate, Matches
<1>. QED  BY <1>1, <1>2, <1>3, SessionSteps

\* A process that dies outside that window leaves a checkpoint from which
\* nothing it had committed is done again.
THEOREM RecoverableHolds == SessionSpec => []Recoverable
<1>1. RecoveryInv => Recoverable
  BY DEF RecoveryInv, UpToDate, Recoverable
<1>. QED  BY <1>1, RecoveryInit, RecoveryStep, SessionTypes, PTL DEF SessionSpec

----------------------------------------------------------------------------
(***************************************************************************)
(* Side effects over a whole session.  Altered holds the calls that        *)
(* changed the workspace.  As long as an agent that runs knows them all,   *)
(* none of them is executed again; each of two conditions keeps every      *)
(* resumption that way.                                                    *)
(***************************************************************************)
Governed == \A s \in Setups : s.governance

Altered == {t \in Tools : altered[t] > 0}

\* No call changed the workspace twice, and an agent that runs knows all that
\* did.
Aware ==
  /\ \A t \in Tools : altered[t] <= 1
  /\ alive => Altered \subseteq completed

\* What a step of the loop does to the history, when the agent knows all.
LEMMA AwareLoop ==
  ASSUME Governed, SessionTypeInv, LoopStep, Aware
  PROVE  /\ Aware' /\ Altered' \subseteq completed' /\ alive
         /\ ws' = ws => Altered' = Altered
         /\ ws' # ws => pc = "running"
<1>a. /\ TypeInv /\ altered \in [Tools -> Nat] /\ setup.governance /\ alive /\ Next
  BY DEF SessionTypeInv, SessionTypeOK, TypeInv, TypeOK, Governed, LoopStep
<1>1. CASE ws' = ws
  <2>1. altered' = altered /\ completed \subseteq completed'
    BY <1>1, <1>a, LoopEffect DEF LoopStep, NoteStep
  <2>. QED  BY <1>1, <1>a, <2>1 DEF Aware, Altered
<1>2. CASE ws' # ws
  <2> DEFINE t == Current.tool
  <2>1. /\ t \in Tools /\ t \notin completed /\ pc = "running"
        /\ completed' = completed \cup {t}
    BY <1>2, <1>a, LoopEffect DEF Reused
  <2>2. altered' = [altered EXCEPT ![t] = @ + 1]
    BY <1>2 DEF LoopStep, NoteStep
  <2> HIDE DEF t
  <2>3. altered[t] = 0
    BY <1>a, <2>1 DEF Aware, Altered
  <2>4. Altered' \subseteq Altered \cup {t}
    BY <1>a, <2>1, <2>2 DEF Altered
  <2>5. \A u \in Tools : altered'[u] <= 1
    BY <1>a, <2>1, <2>2, <2>3 DEF Aware
  <2>. QED  BY <1>2, <1>a, <2>1, <2>4, <2>5 DEF Aware
<1>. QED  BY <1>1, <1>2

\* What the start of an ask leaves of the history.
LEMMA AwareStart ==
  ASSUME SessionTypeInv, NEW from \in Stored \cup {Snapshot}, Starts(from)
  PROVE  /\ completed' = from.completed /\ ws' = ws /\ pc' = "loop"
         /\ altered' = altered /\ past' = past /\ (returned' <=> returned)
         /\ Altered' = Altered
         /\ newest' = [completed |-> from.completed, ws |-> ws]
         /\ astray' <=> astray \/ Knowledge(from) # newest
         /\ \A s \in Stored' : s \in Stored \/ (s.ws = ws /\ s.completed = from.completed)
<1>1. /\ completed' = from.completed /\ UNCHANGED <<ws, altered, past>> /\ pc' = "loop"
      /\ saved' = saved /\ safe' = safe \cup {[from EXCEPT !.ws = ws]}
      /\ newest' = Knowledge([from EXCEPT !.ws = ws])
  BY DEF Starts, StartAsk, effectVars
<1>2. (returned' <=> returned) /\ (astray' <=> astray \/ Knowledge(from) # newest)
  BY Zenon DEF Starts, StartAsk
<1>3. [from EXCEPT !.ws = ws].ws = ws /\ [from EXCEPT !.ws = ws].completed = from.completed
  <2>1. from \in Snapshots
    BY SnapshotType DEF Stored, SessionTypeInv, SessionTypeOK, TypeInv
  <2>. QED  BY <2>1 DEF Snapshots
<1>4. newest' = [completed |-> from.completed, ws |-> ws]
  BY <1>1, <1>3 DEF Knowledge
<1>5. Altered' = Altered
  BY <1>1 DEF Altered
<1>6. \A s \in Stored' : s \in Stored \/ (s.ws = ws /\ s.completed = from.completed)
  BY <1>1, <1>3 DEF Stored
<1>. QED  BY <1>1, <1>2, <1>4, <1>5, <1>6, Zenon

\* A crash, or no step at all.
LEMMA AwareRest ==
  ASSUME Crash \/ UNCHANGED allVars
  PROVE  /\ UNCHANGED <<ws, pc, completed, safe, saved, altered, past, newest>>
         /\ (returned' <=> returned) /\ (astray' <=> astray) /\ (alive' => alive)
         /\ Altered' = Altered
<1>1. UNCHANGED <<ws, pc, completed, safe, saved, altered, past, newest>>
  BY DEF Crash, allVars, vars, loopVars, toolVars, effectVars, sessionVars, historyVars
<1>2. (returned' <=> returned) /\ (astray' <=> astray) /\ (alive' => alive)
  BY DEF Crash, allVars, sessionVars, historyVars
<1>. QED  BY <1>1, <1>2 DEF Altered

(***************************************************************************)
(* First: no content has come back.  Then a snapshot that matches the      *)
(* workspace is no older than the last change to it.                       *)
(***************************************************************************)
ForwardInv ==
  /\ ws \in past /\ \A s \in Stored : s.ws \in past
  /\ ~returned => Aware /\ \A s \in Stored : s.ws = ws => Altered \subseteq s.completed

LEMMA ForwardInit == SessionInit => ForwardInv
<1>. SUFFICES ASSUME SessionInit PROVE ForwardInv
  OBVIOUS
<1>1. /\ \A t \in Tools : altered[t] = 0
      /\ past = {ws} /\ \A s \in Stored : s.ws = ws
  BY DEF SessionInit, Stored, Snapshot
<1>2. Altered = {} /\ \A t \in Tools : altered[t] <= 1
  BY <1>1 DEF Altered
<1>. QED  BY <1>1, <1>2 DEF ForwardInv, Aware

LEMMA ForwardStep ==
  ASSUME Governed
  PROVE  SessionTypeInv /\ ForwardInv /\ [SessionNext]_allVars => ForwardInv'
<1>. SUFFICES ASSUME SessionTypeInv, ForwardInv, [SessionNext]_allVars
              PROVE  ForwardInv'
  OBVIOUS
<1>1. CASE LoopStep
  <2>1. /\ past' = past \cup {ws'}
        /\ \A s \in Stored' : s \in Stored \/ s = Snapshot'
    BY <1>1 DEF LoopStep, NoteStep, Stored
  <2>2. Snapshot'.ws = ws' /\ Snapshot'.completed = completed'
    BY DEF Snapshot
  <2>3. ws' \in past' /\ \A s \in Stored' : s.ws \in past'
    BY <2>1, <2>2 DEF ForwardInv
  <2>4. ASSUME ~returned'
        PROVE  Aware' /\ \A s \in Stored' : s.ws = ws' => Altered' \subseteq s.completed
    <3>1. ~returned /\ (ws' = ws \/ ws' \notin past)
      BY <1>1, <2>4 DEF LoopStep, NoteStep
    <3>2. Aware' /\ Altered' \subseteq completed' /\ (ws' = ws => Altered' = Altered)
      BY <1>1, <3>1, AwareLoop DEF ForwardInv
    <3>3. ASSUME NEW s \in Stored, s.ws = ws' PROVE Altered' \subseteq s.completed
      BY <3>1, <3>2, <3>3 DEF ForwardInv
    <3>. QED  BY <2>1, <2>2, <3>2, <3>3
  <2>. QED  BY <2>3, <2>4 DEF ForwardInv
<1>2. CASE Crash \/ UNCHANGED allVars
  <2>1. Stored' = Stored
    BY <1>2, AwareRest DEF Stored
  <2>. QED  BY <1>2, <2>1, AwareRest DEF ForwardInv, Aware
<1>3. ASSUME NEW from \in Stored \cup {Snapshot}, Starts(from), from \in Stored \/ alive
      PROVE  ForwardInv'
  <2>1. ~returned => Altered \subseteq from.completed
    <3>1. CASE from \in Stored
      BY <1>3, <3>1 DEF Starts, Matches, ForwardInv
    <3>2. CASE from = Snapshot /\ alive
      BY <3>2 DEF Snapshot, ForwardInv, Aware
    <3>. QED  BY <1>3, <3>1, <3>2
  <2>. QED  BY <1>3, <2>1, AwareStart DEF ForwardInv, Aware
<1>. QED  BY <1>1, <1>2, <1>3, SessionSteps

(***************************************************************************)
(* Second: every snapshot taken up knows what the one written last knows.  *)
(* Whether that still matches the workspace decides if it may be taken up  *)
(* after a crash between an effect and its commit.                         *)
(***************************************************************************)
LineInv ==
  /\ alive /\ pc # "commit" => newest.ws = ws /\ newest.completed = completed
  /\ ~astray => Aware /\ (newest.ws = ws => Altered \subseteq newest.completed)

LEMMA LineInit == SessionInit => LineInv
<1>. SUFFICES ASSUME SessionInit PROVE LineInv
  OBVIOUS
<1>1. /\ \A t \in Tools : altered[t] = 0
      /\ newest.ws = ws /\ newest.completed = completed
  BY DEF SessionInit, Knowledge, Snapshot
<1>2. Altered = {} /\ \A t \in Tools : altered[t] <= 1
  BY <1>1 DEF Altered
<1>. QED  BY <1>1, <1>2 DEF LineInv, Aware

LEMMA LineStep ==
  ASSUME Governed
  PROVE  SessionTypeInv /\ LineInv /\ [SessionNext]_allVars => LineInv'
<1>. SUFFICES ASSUME SessionTypeInv, LineInv, [SessionNext]_allVars
              PROVE  LineInv'
  OBVIOUS
<1>1. CASE LoopStep
  <2>1. /\ newest' = IF pc \in {"commit", "finalize"}
                       THEN [completed |-> completed', ws |-> ws'] ELSE newest
        /\ alive /\ (astray' <=> astray)
    BY <1>1 DEF LoopStep, NoteStep, Knowledge, Snapshot
  <2>2. pc # "commit" /\ pc' # "commit" => UNCHANGED <<completed, ws>>
    BY <1>1, LoopEffect DEF LoopStep, SessionTypeInv
  <2>3. pc' # "commit" => newest'.ws = ws' /\ newest'.completed = completed'
    BY <2>1, <2>2 DEF LineInv
  <2>4. ASSUME ~astray'
        PROVE  Aware' /\ (newest'.ws = ws' => Altered' \subseteq newest'.completed)
    <3>1. /\ Aware' /\ Altered' \subseteq completed'
          /\ (ws' = ws => Altered' = Altered)
          /\ (ws' # ws => pc = "running")
      BY <1>1, <2>1, <2>4, AwareLoop DEF LineInv
    <3>2. CASE pc \in {"commit", "finalize"}
      BY <2>1, <3>1, <3>2
    <3>3. CASE pc \notin {"commit", "finalize"}
      BY <2>1, <2>4, <3>1, <3>3 DEF LineInv
    <3>. QED  BY <3>1, <3>2, <3>3
  <2>. QED  BY <2>3, <2>4 DEF LineInv
<1>2. CASE Crash \/ UNCHANGED allVars
  BY <1>2, AwareRest DEF LineInv, Aware
<1>3. ASSUME NEW from \in Stored \cup {Snapshot}, Starts(from), from \in Stored \/ alive
      PROVE  LineInv'
  <2>1. ~astray' => ~astray /\ Altered \subseteq from.completed
    <3>1. ~astray' => ~astray /\ newest = [completed |-> from.completed, ws |-> from.ws]
      BY <1>3, AwareStart DEF Knowledge
    <3>2. from.ws = ws
      BY <1>3 DEF Starts, Matches
    <3>. QED  BY <3>1, <3>2 DEF LineInv
  <2>. QED  BY <1>3, <2>1, AwareStart DEF LineInv, Aware
<1>. QED  BY <1>1, <1>2, <1>3, SessionSteps

\* With the side-effect governance on, no call changes the workspace twice in
\* a session - not by a repetition of the model, not by a crash between
\* effect and commit - unless a content came back and an older snapshot was
\* taken up over it.
THEOREM AlteredTwiceOnlyAstrayHolds ==
  ASSUME Governed
  PROVE  SessionSpec => []AlteredTwiceOnlyAstray
<1>1. SessionTypeInv /\ ForwardInv /\ LineInv => AlteredTwiceOnlyAstray
  <2>. SUFFICES ASSUME SessionTypeInv, ForwardInv, LineInv, NEW t \in Tools, altered[t] > 1
                PROVE  returned /\ astray
    BY DEF AlteredTwiceOnlyAstray
  <2>1. ~Aware
    BY DEF Aware, SessionTypeInv, SessionTypeOK
  <2>. QED  BY <2>1 DEF ForwardInv, LineInv
<1>2. SessionTypeInv /\ ForwardInv /\ [SessionNext]_allVars => ForwardInv'
  BY ForwardStep
<1>3. SessionTypeInv /\ LineInv /\ [SessionNext]_allVars => LineInv'
  BY LineStep
<1>. QED
  BY <1>1, <1>2, <1>3, ForwardInit, LineInit, SessionTypes, PTL DEF SessionSpec

----------------------------------------------------------------------------
(***************************************************************************)
(* The asks of a session.  Whatever an ask is started from, its own loop   *)
(* starts anew, so the budget, the length, the warrant of completion and   *)
(* the truth of the report proved of one ask hold of every ask of the      *)
(* session, before and after a crash.                                      *)
(***************************************************************************)
AskInv == BudgetInv /\ LengthInv /\ DueInv /\ ReportInv

LEMMA AskStep == SessionTypeInv /\ AskInv /\ [SessionNext]_allVars => AskInv'
<1>. SUFFICES ASSUME SessionTypeInv, AskInv, [SessionNext]_allVars PROVE AskInv'
  OBVIOUS
<1>a. TypeInv
  BY DEF SessionTypeInv
<1>1. CASE LoopStep
  BY <1>1, <1>a, BudgetStep, LengthStep, DueStep, ReportStep DEF LoopStep, AskInv
<1>2. CASE Crash \/ UNCHANGED allVars
  <2>1. UNCHANGED vars
    BY <1>2 DEF Crash, allVars
  <2>. QED  BY <2>1, <1>a, BudgetStep, LengthStep, DueStep, ReportStep DEF AskInv
<1>3. ASSUME NEW from \in Stored \cup {Snapshot}, Starts(from)
      PROVE  AskInv'
  <2>1. /\ pc' = "loop" /\ taskPhase' = "EXECUTE" /\ stop' = "retry_limit_reached"
        /\ attempts' = 0 /\ toolSteps' = 0 /\ toolCalls' = 0 /\ nexec' = 0
    BY <1>3 DEF Starts, StartAsk, NewBatchState
  <2>2. BudgetInv' /\ LengthInv'
    BY <2>1, LimitsAssumption DEF BudgetInv, Reserved, LengthInv
  <2>3. DueInv' /\ ReportInv'
    BY <2>1 DEF DueInv, Successes, ReportInv
  <2>. QED  BY <2>2, <2>3 DEF AskInv
<1>. QED  BY <1>1, <1>2, <1>3, SessionSteps

LEMMA AskInvariant == SessionSpec => []AskInv
<1>1. SessionInit => AskInv
  BY BudgetInit, LengthInit, DueInit, ReportInit DEF SessionInit, AskInv
<1>. QED  BY <1>1, AskStep, SessionTypes, PTL DEF SessionSpec

\* No ask of a session spends more tool steps or calls than it is granted,
\* the ones resumed from the middle of a batch included: what is left of that
\* batch is never executed, and no overrun leaves a batch unanswered.
THEOREM EveryAskWithinBudget == SessionSpec => []ToolBudget
<1>1. SessionTypeInv /\ AskInv => ToolBudget
  <2>. SUFFICES ASSUME SessionTypeInv, AskInv PROVE ToolBudget
    OBVIOUS
  <2>1. toolSteps \in Nat /\ toolCalls \in Nat /\ nexec \in Nat /\ idx \in Nat
    BY DEF SessionTypeInv, TypeInv, TypeOK
  <2>. QED  BY <2>1, LimitsAssumption DEF AskInv, BudgetInv, Reserved, ToolBudget
<1>. QED  BY <1>1, AskInvariant, SessionTypes, PTL

\* Each ask of a session reports the truth about itself, whatever it was
\* started from: the category and the reason the earlier run ended with are
\* never reported again.
THEOREM EveryAskReportsTruthfully == SessionSpec => []ReportTruthful
<1>1. AskInv => ReportTruthful
  BY DEF AskInv, DueInv, ReportInv, ReportTruthful
<1>. QED  BY <1>1, AskInvariant, PTL

\* Whether a session's ask is complete is decided by its own verdict: a
\* configured verifier passed on the workspace as the ask left it and on the
\* writes this ask reports.  CompletionJustified, which counts every write
\* of the lineage, does not follow: affected_paths starts empty
\* (runtime.py:147), so the writes of an interrupted run are not checked
\* against the allowed paths by the run that resumes it.
JustifiedByAsk ==
  /\ taskPhase = "COMPLETE" <=> stop \in Successes
  /\ taskPhase = "COMPLETE" =>
       /\ setup.required => setup.verifier
       /\ setup.verifier => ws \in Accepted /\ affected \subseteq Allowed

THEOREM EveryAskJustified == SessionSpec => []JustifiedByAsk
<1>1. AskInv => JustifiedByAsk
  BY DEF AskInv, DueInv, Warranted, JustifiedByAsk
<1>. QED  BY <1>1, AskInvariant, PTL

\* Every step of the loop in every ask of a session is one of the few that
\* ask has left: a crash or a resumption starts the count again, nothing else
\* raises it, and there are as many asks as requests.
StepsCount == LoopStep => StepsLeft' < StepsLeft

THEOREM EveryAskIsBounded == SessionSpec => [][StepsCount]_allVars
<1>1. SessionTypeInv /\ AskInv /\ SessionTypeInv' /\ AskInv' /\ [SessionNext]_allVars
        => [StepsCount]_allVars
  <2>. SUFFICES ASSUME SessionTypeInv, AskInv, SessionTypeInv', AskInv', LoopStep
                PROVE  StepsLeft' < StepsLeft
    BY DEF StepsCount
  <2>. QED  BY StepSpent DEF SessionTypeInv, AskInv, LoopStep
<1>. QED  BY <1>1, AskInvariant, SessionTypes, PTL DEF SessionSpec

----------------------------------------------------------------------------
(***************************************************************************)
(* TaskCompletion over a session.  What an ask changed is what it reports, *)
(* with the write whose call is not committed yet: Made, which counts over *)
(* the lineage, will not do here.                                          *)
(***************************************************************************)
AskTask == INSTANCE TaskCompletion
             WITH demand <- Demand, content <- ws, changed <- affected \cup InFlight,
                  outcome <- OutcomeOfTask

\* A request or a resumption: a new task, with a demand of its own, on the
\* workspace as it is found.
NewTask ==
  /\ Demand' \in {"none", "verified", "never"}
  /\ ws' = ws /\ (affected \cup InFlight)' = {}
  /\ OutcomeOfTask' = "open"

AskIsTask ==
  /\ LoopStep => [AskTask!Next]_(AskTask!tcVars)
  /\ ~LoopStep => [NewTask]_(AskTask!tcVars)

LEMMA AskTaskInit == SessionInit => AskTask!Init
BY DEF SessionInit, Init, AskTask!Init, Demand, OutcomeOfTask, InFlight

LEMMA ChangedByLoop ==
  ASSUME TypeInv, Next
  PROVE  \/ /\ pc = "running" /\ pc' = "commit" /\ taskPhase' = taskPhase
            /\ Current.tool \in Tools
            /\ ws' \in Contents
            /\ (affected \cup InFlight)' = affected \cup InFlight \cup ({Current.tool} \cap Writes)
         \/ ws' = ws /\ (affected \cup InFlight)' = affected \cup InFlight
<1>. USE DEF loopVars, batchVars, toolVars, effectVars
<1>1. CASE RunTool
  <2>1. Current.tool \in Tools /\ Current' = Current
    BY <1>1, CurrentIsCall DEF RunTool, InHand, Current
  <2>2. InFlight = {} /\ InFlight' = {Current.tool} \cap Writes
    BY <1>1, <2>1 DEF RunTool, InFlight
  <2>3. ws' \in Contents
    BY <1>1, <2>1, LeadsToContents DEF RunTool, TypeInv, TypeOK
  <2>. QED  BY <1>1, <2>1, <2>2, <2>3 DEF RunTool
<1>2. CASE CommitTool
  BY <1>2 DEF CommitTool, InFlight
<1>3. CASE ~RunTool /\ ~CommitTool
  <2>1. UNCHANGED <<ws, affected>> /\ pc # "commit" /\ (pc' # "commit" \/ outcome' # "ran")
    BY <1>3 DEF Next, HeadStep, GateStep, CallStep, CloseStep, StopAtLimit, StopOverBudget,
         AskModel, ProviderFails, ResponseOverruns, ReceiveFinal, ReceiveUnusable, ReceiveCalls,
         GatePasses, GateAsksRepair, GateFails, RejectId, AcceptId, BlockRepetition, PrepareTool,
         ReuseResult, ToolRaises, VerifiedAfterTool, NextCall, BatchExecuted, CloseBatch, Finalize
  <2>. QED  BY <2>1 DEF InFlight
<1>. QED  BY <1>1, <1>2, <1>3

LEMMA DecidedByLoop ==
  ASSUME TypeInv, DueInv, Next
  PROVE  /\ Demand' = Demand
         /\ taskPhase = "COMPLETE" => taskPhase' = "COMPLETE"
         /\ pc = "done" => UNCHANGED <<pc, taskPhase>>
<1>. USE DEF loopVars, batchVars, toolVars, effectVars, Next, HeadStep, GateStep, CallStep,
         CloseStep, StopAtLimit, StopOverBudget, ProviderFails, ResponseOverruns, ReceiveFinal,
         ReceiveUnusable, ReceiveCalls, GatePasses, GateAsksRepair, GateFails, RejectId, AcceptId,
         BlockRepetition, PrepareTool, ReuseResult, RunTool, ToolRaises, CommitTool,
         VerifiedAfterTool, NextCall, BatchExecuted, CloseBatch, Finalize
<1>1. Demand' = Demand
  BY DEF Demand
<1>2. ASSUME taskPhase = "COMPLETE" PROVE taskPhase' = "COMPLETE"
  <2>1. pc \in {"close", "finalize", "done"}
    BY <1>2 DEF DueInv
  <2>2. CloseBatch \/ Finalize
    BY <2>1 DEF AskModel
  <2>. QED  BY <1>2, <2>2
<1>3. pc = "done" => UNCHANGED <<pc, taskPhase>>
  BY DEF AskModel
<1>. QED  BY <1>1, <1>2, <1>3

LEMMA LoopIsTask ==
  ASSUME TypeInv, DueInv, DueInv', Next
  PROVE  [AskTask!Next]_(AskTask!tcVars)
<1>1. Demand' = Demand
  BY DecidedByLoop
<1>2. CASE ~(ws' = ws /\ (affected \cup InFlight)' = affected \cup InFlight)
  <2>1. /\ pc = "running" /\ pc' = "commit" /\ taskPhase' = taskPhase
        /\ ws' \in Contents
        /\ (affected \cup InFlight)' = affected \cup InFlight \cup ({Current.tool} \cap Writes)
    BY <1>2, ChangedByLoop
  <2>2. OutcomeOfTask = "open" /\ OutcomeOfTask' = "open"
    BY <2>1 DEF OutcomeOfTask, DueInv
  <2>3. CASE Current.tool \in Writes
    <3>1. AskTask!Work(Current.tool)
      BY <1>1, <2>1, <2>2, <2>3 DEF AskTask!Work
    <3>. QED  BY <2>3, <3>1 DEF AskTask!Next
  <2>4. CASE Current.tool \notin Writes
    <3>1. AskTask!Command
      BY <1>1, <2>1, <2>2, <2>4 DEF AskTask!Command
    <3>. QED  BY <3>1 DEF AskTask!Next
  <2>. QED  BY <2>3, <2>4
<1>3. CASE ws' = ws /\ (affected \cup InFlight)' = affected \cup InFlight
  <2>1. \/ OutcomeOfTask' = OutcomeOfTask
        \/ OutcomeOfTask = "open" /\ OutcomeOfTask' = "failed"
        \/ OutcomeOfTask = "open" /\ OutcomeOfTask' = "complete"
    BY DecidedByLoop DEF OutcomeOfTask
  <2>2. CASE OutcomeOfTask' = OutcomeOfTask
    BY <1>1, <1>3, <2>2 DEF AskTask!tcVars
  <2>3. CASE OutcomeOfTask = "open" /\ OutcomeOfTask' = "failed"
    BY <1>1, <1>3, <2>3 DEF AskTask!Next, AskTask!Fail
  <2>4. CASE OutcomeOfTask = "open" /\ OutcomeOfTask' = "complete"
    <3>1. taskPhase' = "COMPLETE"
      BY <2>4 DEF OutcomeOfTask
    <3>2. Warranted' /\ (affected \cup InFlight)' = affected'
      BY <3>1 DEF DueInv, InFlight
    <3>3. AskTask!Satisfied
      BY <1>1, <1>3, <3>2 DEF Warranted, AskTask!Satisfied, Demand
    <3>. QED  BY <1>1, <1>3, <2>4, <3>3 DEF AskTask!Next, AskTask!Complete
  <2>. QED  BY <2>1, <2>2, <2>3, <2>4
<1>. QED  BY <1>2, <1>3

LEMMA AskTaskStep ==
  SessionTypeInv /\ AskInv /\ AskInv' /\ [SessionNext]_allVars => [AskIsTask]_allVars
<1>. SUFFICES ASSUME SessionTypeInv, AskInv, AskInv', [SessionNext]_allVars
              PROVE  AskIsTask
  OBVIOUS
<1>1. CASE LoopStep
  BY <1>1, LoopIsTask DEF LoopStep, AskIsTask, AskInv, SessionTypeInv
<1>2. CASE ~LoopStep /\ (Crash \/ UNCHANGED allVars)
  <2>1. UNCHANGED vars
    BY <1>2 DEF Crash, allVars
  <2>2. UNCHANGED AskTask!tcVars
    BY <2>1 DEF vars, loopVars, batchVars, toolVars, effectVars, AskTask!tcVars, Demand,
                InFlight, Current, OutcomeOfTask
  <2>. QED  BY <1>2, <2>2 DEF AskIsTask
<1>3. ASSUME ~LoopStep, NEW from \in Stored \cup {Snapshot}, Starts(from)
      PROVE  AskIsTask
  <2>1. /\ ws' = ws /\ affected' = {} /\ pc' = "loop" /\ taskPhase' = "EXECUTE"
    BY <1>3 DEF Starts, StartAsk, effectVars
  <2>2. NewTask
    BY <2>1 DEF NewTask, Demand, InFlight, OutcomeOfTask
  <2>. QED  BY <1>3, <2>2 DEF AskIsTask
<1>. QED  BY <1>1, <1>2, <1>3, SessionSteps

\* Over a whole session, whatever crashes and resumptions: a step of the loop
\* works on the task in hand or decides it as TaskCompletion allows, a crash
\* changes nothing of it, and only a request or a resumption opens another
\* one, on the workspace as it is (runtime.py:129-167).  No write follows a
\* decision before the next ask, and no ask takes over the decision, or the
\* reported writes, of an earlier one.
THEOREM EveryAskIsATask ==
  SessionSpec => AskTask!Init /\ [][AskIsTask]_allVars
<1>. QED
  BY AskTaskInit, AskTaskStep, AskInvariant, SessionTypes, PTL DEF SessionSpec

----------------------------------------------------------------------------
(***************************************************************************)
(* The answers to a batch over a session.  A checkpoint written in the     *)
(* middle of a batch is resumed as it is, and its batch stays unanswered   *)
(* (ResumedBatch.cfg).  That is the only way: a session none of whose      *)
(* resumptions names such a checkpoint keeps BatchAnswered, because what   *)
(* the end of a run saves and what an agent goes on with are answered.     *)
(***************************************************************************)
Answered(s) ==
  /\ AnswersIn(s.replies) = 1..Len(s.batch)
  /\ \A c \in Call :
       Cardinality({i \in DOMAIN s.batch : s.batch[i].id = c.id})
         = Cardinality({i \in AnswersIn(s.replies) : s.replies[i].id = c.id})

\* resume_run from a checkpoint that was not written in the middle of a batch.
ResumeBetweenBatches == ~alive /\ \E s \in safe : Matches(s) /\ Answered(s) /\ StartAsk(s)

BetweenBatchesNext == LoopStep \/ Crash \/ AskAgain \/ FromSession \/ ResumeBetweenBatches
BetweenBatchesSpec == SessionInit /\ [][BetweenBatchesNext]_allVars

LEMMA BetweenBatchesIsSession == [BetweenBatchesNext]_allVars => [SessionNext]_allVars
BY DEF BetweenBatchesNext, SessionNext, ResumeBetweenBatches, ResumeRun

LEMMA AnsweredSnapshot ==
  BatchAnswered /\ pc \in {"loop", "gate", "finalize", "done"} => Answered(Snapshot)
BY DEF BatchAnswered, Answered, Snapshot

AnsweredInv == ReplyInv /\ \A s \in saved : Answered(s)

LEMMA AnsweredStart ==
  ASSUME AnsweredInv, NEW from, Answered(from), StartAsk(from)
  PROVE  AnsweredInv'
<1>1. /\ pc' = "loop" /\ batch' = from.batch /\ replies' = from.replies /\ saved' = saved
  BY DEF StartAsk
<1>2. BatchAnswered'
  BY <1>1 DEF Answered, BatchAnswered, AnswersIn
<1>3. ReplyInv'
  BY <1>1, <1>2 DEF ReplyInv, InBatch
<1>. QED  BY <1>1, <1>3 DEF AnsweredInv, Answered, AnswersIn

LEMMA AnsweredStep ==
  SessionTypeInv /\ AskInv /\ AnsweredInv /\ [BetweenBatchesNext]_allVars => AnsweredInv'
<1>. SUFFICES ASSUME SessionTypeInv, AskInv, AnsweredInv, [BetweenBatchesNext]_allVars
              PROVE  AnsweredInv'
  OBVIOUS
<1>a. TypeInv /\ BudgetInv /\ ReplyInv
  BY DEF SessionTypeInv, AskInv, AnsweredInv
<1>1. CASE LoopStep
  <2>1. ReplyInv'
    BY <1>1, <1>a, ReplyStep DEF LoopStep
  <2>2. ASSUME NEW s \in saved' PROVE Answered(s)
    <3>1. CASE s \in saved
      BY <3>1 DEF AnsweredInv
    <3>2. CASE s \notin saved
      <4>1. pc = "finalize" /\ s = Snapshot'
        BY <1>1, <2>2, <3>2 DEF LoopStep
      <4>2. pc' = "done"
        BY <1>1, <4>1 DEF LoopStep, Next, HeadStep, GateStep, CallStep, CloseStep, StopAtLimit,
             StopOverBudget, AskModel, ProviderFails, ResponseOverruns, ReceiveFinal,
             ReceiveUnusable, ReceiveCalls, GatePasses, GateAsksRepair, GateFails, RejectId,
             AcceptId, BlockRepetition, PrepareTool, ReuseResult, RunTool, ToolRaises, CommitTool,
             VerifiedAfterTool, NextCall, BatchExecuted, CloseBatch, Finalize
      <4>3. (BatchAnswered /\ pc \in {"loop", "gate", "finalize", "done"})'
        BY <2>1, <4>2 DEF ReplyInv
      <4>4. Answered(Snapshot)'
        BY <4>3, AnsweredSnapshot, PTL
      <4>. QED  BY <4>1, <4>4 DEF Answered, AnswersIn
    <3>. QED  BY <3>1, <3>2
  <2>. QED  BY <2>1, <2>2 DEF AnsweredInv, Answered, AnswersIn
<1>2. CASE Crash \/ UNCHANGED allVars
  <2>1. UNCHANGED vars /\ saved' = saved
    BY <1>2 DEF Crash, allVars, sessionVars
  <2>2. ReplyInv'
    BY <2>1, <1>a, ReplyStep
  <2>. QED  BY <2>1, <2>2 DEF AnsweredInv, Answered, AnswersIn
<1>3. CASE AskAgain
  <2>1. Answered(Snapshot) /\ StartAsk(Snapshot)
    BY <1>3, AnsweredSnapshot DEF AskAgain, AnsweredInv, ReplyInv
  <2>. QED  BY <2>1, AnsweredStart
<1>4. CASE FromSession \/ ResumeBetweenBatches
  <2>1. PICK from \in Stored : Answered(from) /\ StartAsk(from)
    BY <1>4 DEF FromSession, ResumeBetweenBatches, AnsweredInv, Stored
  <2>. QED  BY <2>1, AnsweredStart
<1>. QED  BY <1>1, <1>2, <1>3, <1>4 DEF BetweenBatchesNext

\* A conversation sent to the model answers every tool call it shows, unless
\* resume_run took up a checkpoint written in the middle of a batch: crashes,
\* later requests and saved sessions alone never leave a call unanswered.
THEOREM AnsweredUnlessResumedInBatch == BetweenBatchesSpec => []BatchAnswered
<1>1. SessionInit => AnsweredInv
  BY ReplyInit DEF SessionInit, AnsweredInv
<1>2. AnsweredInv => BatchAnswered
  BY DEF AnsweredInv, ReplyInv
<1>3. BetweenBatchesSpec => SessionSpec
  BY BetweenBatchesIsSession, PTL DEF BetweenBatchesSpec, SessionSpec
<1>. QED
  BY <1>1, <1>2, <1>3, AnsweredStep, AskInvariant, SessionTypes, PTL DEF BetweenBatchesSpec
=============================================================================
