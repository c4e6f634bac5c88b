---------------------------- MODULE AgentSession ----------------------------
(***************************************************************************)
(* A session: several asks on one agent, crashes of the process at any     *)
(* step, and the ways a conversation is taken up again - the same agent,   *)
(* Tifa.from_session, Tifa.resume_run - with the checkpoints the loop      *)
(* writes (src/tifa/runtime.py).  Every step of AgentLoop is one step of   *)
(* the running process; the checkpoint of tool_commit is part of it.       *)
(*                                                                         *)
(* tried and applied of AgentLoop are never reset here: they count over    *)
(* the whole lineage of runs.  The workspace fingerprint tells contents    *)
(* apart exactly, and cannot tell whether a content has come back; nobody  *)
(* but the agent changes the workspace.  The checkpoint control is on, as  *)
(* it is by default.                                                       *)
(***************************************************************************)
EXTENDS AgentLoop

CONSTANTS
  MaxAsks,     \* bound of the model: asks in the session, resumptions included
  MaxCrashes   \* bound of the model: crashes

ASSUME SessionLimitsAssumption == MaxAsks \in Nat \ {0} /\ MaxCrashes \in Nat

VARIABLES
  alive,      \* whether the process runs
  safe,       \* durable: checkpoints of phase MODEL_PENDING or TOOL_COMMITTED
  saved,      \* durable: the sessions written at the end of a run
  asks,       \* requests issued so far
  delivered,  \* requests that are in the messages
  crashes,    \* crashes so far
  altered,    \* history: times a call changed what the workspace holds
  past,       \* history: every content the workspace has had
  returned,   \* history: whether a call brought back an earlier content
  newest,     \* history: what the snapshot written last knows
  astray      \* history: whether a snapshot that knows otherwise was taken up

sessionVars == <<alive, safe, saved, asks, delivered, crashes>>
historyVars == <<altered, past, returned, newest, astray>>
allVars == <<vars, sessionVars, historyVars>>

\* What a checkpoint and a session record of the agent's state.
Snapshot == [batch |-> batch, replies |-> replies, completed |-> completed, ws |-> ws]
Snapshots ==
  [batch: Seq(Call), replies: Seq(Message), completed: SUBSET Tools, ws: Contents]

\* What a resumption depends on: the content to find and the calls known.
Knowledge(s) == [completed |-> s.completed, ws |-> s.ws]

----------------------------------------------------------------------------
SessionInit ==
  /\ Init
  /\ alive = TRUE
  /\ asks = 1 /\ delivered = 1 /\ crashes = 0
  /\ safe = {Snapshot} /\ saved = {}
  /\ altered = [t \in Tools |-> 0] /\ past = {ws} /\ returned = FALSE
  /\ newest = Knowledge(Snapshot) /\ astray = FALSE

\* The history of a step of the loop: an effect that changes the workspace is
\* the call's in hand; a commit and the end of a run write a snapshot.
NoteStep ==
  /\ altered' = IF ws' # ws THEN [altered EXCEPT ![Current.tool] = @ + 1] ELSE altered
  /\ past' = past \cup {ws'}
  /\ returned' = (returned \/ (ws' # ws /\ ws' \in past))
  /\ newest' = IF pc \in {"commit", "finalize"} THEN Knowledge(Snapshot') ELSE newest
  /\ UNCHANGED astray

\* Slip: the checkpoint is written before the call is executed.
MutLoopStep ==
  /\ alive /\ Next
  /\ safe' = IF pc = "pending" THEN safe \cup {Snapshot'} ELSE safe
  /\ saved' = IF pc = "finalize" THEN saved \cup {Snapshot'} ELSE saved
  /\ NoteStep
  /\ UNCHANGED <<alive, asks, delivered, crashes>>
\* One step of the loop.  A commit writes the TOOL_COMMITTED checkpoint, the
\* end of the run writes the session; a TOOL_PENDING checkpoint is never a
\* safe one and is left out.
LoopStep ==
  /\ alive /\ Next
  /\ safe' = IF pc = "commit" THEN safe \cup {Snapshot'} ELSE safe
  /\ saved' = IF pc = "finalize" THEN saved \cup {Snapshot'} ELSE saved
  /\ NoteStep
  /\ UNCHANGED <<alive, asks, delivered, crashes>>

\* The process dies; what is not on disk is lost.
Crash ==
  /\ alive /\ crashes < MaxCrashes
  /\ alive' = FALSE
  /\ crashes' = crashes + 1
  /\ UNCHANGED <<vars, safe, saved, asks, delivered, historyVars>>

\* Slip: what was executable of the interrupted batch is kept.
MutNewBatchState == UNCHANGED nexec /\ idx' = 1 /\ outcome' = "none" /\ deferred' = 0
\* No batch is open when a run starts.
NewBatchState == nexec' = 0 /\ idx' = 1 /\ outcome' = "none" /\ deferred' = 0

\* The beginning of ask, on an agent that holds the messages and fingerprints
\* of from.  The request is appended only when there are no messages yet.
StartAsk(from) ==
  /\ asks < MaxAsks
  /\ asks' = asks + 1
  /\ delivered' = IF delivered = 0 THEN 1 ELSE delivered
  /\ alive' = TRUE
  /\ batch' = from.batch /\ replies' = from.replies
  /\ completed' = from.completed
  /\ setup' \in Setups
  /\ pc' = "loop" /\ taskPhase' = "EXECUTE"
  /\ stop' = "retry_limit_reached" /\ failure' = "none"
  /\ attempts' = 0 /\ modelCalls' = 0 /\ toolSteps' = 0 /\ toolCalls' = 0
  /\ repairs' = 0 /\ NewBatchState
  /\ seen' = {} /\ counts' = [t \in Tools |-> 0] /\ affected' = {}
  /\ safe' = safe \cup {[from EXCEPT !.ws = ws]}
  /\ newest' = Knowledge([from EXCEPT !.ws = ws])
  /\ astray' = (astray \/ Knowledge(from) # newest)
  /\ UNCHANGED <<effectVars, saved, crashes, altered, past, returned>>

\* Another request to the agent that has just answered.
AskAgain == alive /\ pc = "done" /\ StartAsk(Snapshot)

\* Slip: the fingerprint is not compared.
MutMatches(s) == TRUE
\* The workspace fingerprint in the snapshot is the current one.
Matches(s) == s.ws = ws

\* Tifa.from_session in a new process.
FromSession == ~alive /\ \E s \in saved : Matches(s) /\ StartAsk(s)

\* Tifa.resume_run in a new process: the newest safe checkpoint, or the one
\* the caller names.
ResumeRun == ~alive /\ \E s \in safe : Matches(s) /\ StartAsk(s)

SessionNext == LoopStep \/ Crash \/ AskAgain \/ FromSession \/ ResumeRun

SessionSpec == SessionInit /\ [][SessionNext]_allVars

----------------------------------------------------------------------------
(***************************************************************************)
(* Properties.                                                             *)
(***************************************************************************)

SessionTypeOK ==
  /\ TypeOK
  /\ alive \in BOOLEAN
  /\ safe \subseteq Snapshots /\ saved \subseteq Snapshots
  /\ asks \in Nat /\ delivered \in Nat /\ crashes \in Nat
  /\ altered \in [Tools -> Nat] /\ past \subseteq Contents /\ returned \in BOOLEAN
  /\ newest \in [completed: SUBSET Tools, ws: Contents] /\ astray \in BOOLEAN

\* Over all asks, crashes and resumptions of a session a call changes the
\* workspace twice only if both went wrong that the fingerprint comparison
\* cannot see (runtime.py:100, 131, 230-233): a call brought back an earlier
\* content, and an older snapshot that matches it was taken up, whose agent
\* does not know what came after.  The window in which an effect is not yet
\* on record is closed by the comparison, and so is every older checkpoint of
\* a session that never goes back to a content.
AlteredTwiceOnlyAstray == \A t \in Tools : altered[t] > 1 => returned /\ astray

\* A call is answered with a reused result only if it once took effect: no
\* crash or resumption can make the agent skip work that was never done.
ReuseGrounded ==
  /\ \A t \in completed : applied[t] >= 1
  /\ \A s \in safe \cup saved : \A t \in s.completed : applied[t] >= 1

\* A crash anywhere but between a tool's effect and its commit leaves a safe
\* checkpoint that matches the workspace and knows every result the agent
\* knew: nothing that was committed has to be done again.
Recoverable ==
  ~alive /\ pc # "commit" =>
    \E s \in safe : Matches(s) /\ completed \subseteq s.completed

\* The request the model is asked to serve is among the messages it is sent
\* (the HTTP clients send the messages in place of the prompt,
\* providers.py:17-55; README.md:52 continues a session with a new request).
RequestDelivered == alive /\ pc = "loop" => delivered = asks
=============================================================================
