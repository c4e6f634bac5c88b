--------------------------- MODULE TaskCompletion ---------------------------
(***************************************************************************)
(* What an ask promises its caller, whatever the loop does inside: it      *)
(* works on the workspace for a while, then decides once whether the task  *)
(* is complete; it never declares completion against the demand it was     *)
(* given, and never works on after the decision.  Only writes are noted:   *)
(* the verdict sees what a command left, not where it wrote.               *)
(***************************************************************************)
CONSTANTS
  Writes,    \* the writes whose path is noted, each at its own
  Contents,  \* what the workspace may hold
  Initial,   \* the content before any work
  Accepted,  \* contents on which the verifier's checks pass
  Allowed    \* writes whose paths the verifier allows to change

VARIABLES
  demand,    \* "none", "verified", or "never": a verifier is required, none is configured
  content,   \* workspace content
  changed,   \* the noted writes made since the task began
  outcome    \* "open", "complete" or "failed"

tcVars == <<demand, content, changed, outcome>>

Init ==
  /\ demand \in {"none", "verified", "never"}
  /\ content = Initial /\ changed = {}
  /\ outcome = "open"

\* A write, whose path is noted.
Work(w) ==
  /\ outcome = "open"
  /\ content' \in Contents /\ changed' = changed \cup {w}
  /\ UNCHANGED <<demand, outcome>>

\* Anything else, a command say: it may change the workspace, and nothing
\* notes where.
Command ==
  /\ outcome = "open"
  /\ content' \in Contents
  /\ UNCHANGED <<demand, changed, outcome>>

Satisfied ==
  \/ demand = "none"
  \/ demand = "verified" /\ content \in Accepted /\ changed \subseteq Allowed

Complete ==
  /\ outcome = "open" /\ Satisfied
  /\ outcome' = "complete"
  /\ UNCHANGED <<demand, content, changed>>

Fail ==
  /\ outcome = "open"
  /\ outcome' = "failed"
  /\ UNCHANGED <<demand, content, changed>>

Next == Complete \/ Fail \/ Command \/ \E w \in Writes : Work(w)

Spec == Init /\ [][Next]_tcVars
=============================================================================
