----------------------------- MODULE CaseReview -----------------------------
(***************************************************************************)
(* What the case store promises those who rely on its cards: a card is     *)
(* reviewed as if every decision about it were taken at one moment, on     *)
(* what the store holds at that moment.  Nothing here has a promotion with *)
(* two saves, a replay that takes long, or a process that dies.            *)
(***************************************************************************)
CONSTANTS
  Cases, Signatures,   \* case ids, task signatures
  Overrides,           \* what a card may advise
  Placeholder,         \* the advice still to be settled
  Settlements,         \* what it may be settled with
  None

VARIABLES
  status,    \* per case: "none" when there is no card
  task,      \* its task signature
  advice,    \* the override it advises
  replaces,  \* the card it supersedes, or None
  helped     \* the overrides a replay has shown to help

crVars == <<status, task, advice, replaces, helped>>

Init ==
  /\ status = [c \in Cases |-> "none"]
  /\ task = [c \in Cases |-> None]
  /\ advice = [c \in Cases |-> None]
  /\ replaces = [c \in Cases |-> None]
  /\ helped = {}

Written(c) == status[c] # "none"

\* A new card is a candidate; it may name an older one it is to supersede.
Open(c) ==
  /\ ~Written(c)
  /\ status' = [status EXCEPT ![c] = "candidate"]
  /\ \E sig \in Signatures : task' = [task EXCEPT ![c] = sig]
  /\ \E o \in Overrides \cup {Placeholder, None} : advice' = [advice EXCEPT ![c] = o]
  /\ \E old \in Cases \cup {None} :
       /\ old # None => Written(old)
       /\ replaces' = [replaces EXCEPT ![c] = old]
  /\ UNCHANGED helped

Settle(c) ==
  /\ Written(c) /\ advice[c] = Placeholder
  /\ \E o \in Settlements : advice' = [advice EXCEPT ![c] = o]
  /\ UNCHANGED <<status, task, replaces, helped>>

Help ==
  /\ \E o \in Overrides : helped' = helped \cup {o}
  /\ UNCHANGED <<status, task, advice, replaces>>

Worthy(c) == Written(c) /\ advice[c] \in helped

Rivals(c) == {d \in Cases \ {c} : status[d] = "verified" /\ task[d] = task[c]}

\* At the moment a card becomes verified its advice has been shown to help,
\* no verified card says the same, and one that says otherwise is tolerated
\* only beside a card that supersedes another.
Verify(c) ==
  /\ Worthy(c)
  /\ \A d \in Rivals(c) : advice[d] # advice[c] /\ replaces[c] # None
  /\ status' = [status EXCEPT ![c] = "verified"]
  /\ UNCHANGED <<task, advice, replaces, helped>>

\* Only a verified card is given up, and only for one that names it and whose
\* advice has been shown to help.
Supersede(c) ==
  /\ status[c] = "verified"
  /\ \E d \in Cases : Worthy(d) /\ replaces[d] = c
  /\ status' = [status EXCEPT ![c] = "superseded"]
  /\ UNCHANGED <<task, advice, replaces, helped>>

Reject(c) ==
  /\ Written(c)
  /\ status' = [status EXCEPT ![c] = "rejected"]
  /\ UNCHANGED <<task, advice, replaces, helped>>

Next ==
  \/ Help
  \/ \E c \in Cases : Open(c) \/ Settle(c) \/ Verify(c) \/ Supersede(c) \/ Reject(c)

Spec == Init /\ [][Next]_crVars
=============================================================================
