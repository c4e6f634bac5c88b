------------------------ MODULE CaseLifecycleProofs ------------------------
(***************************************************************************)
(* Proofs about CaseLifecycle, for any number of cases, runs, proposers    *)
(* and replays.  Three invariants, each proved with the help of the ones   *)
(* before it: the types, with what a promotion in hand and a running       *)
(* replay know; the evidence behind every verified or superseded card; and *)
(* the rivals of the card being promoted.                                  *)
(***************************************************************************)
EXTENDS CaseLifecycle, TLAPS

(***************************************************************************)
(* Types.                                                                  *)
(***************************************************************************)

\* A promotion in hand is of a card that is there and keeps its task, its
\* override and what it supersedes; a running replay is of a card that is
\* there.
InHand ==
  /\ promoting # None =>
       /\ card[promoting] # None /\ held # None
       /\ held.sig = card[promoting].sig
       /\ held.supersedes = card[promoting].supersedes
       /\ held.delta = card[promoting].delta
       /\ held.delta \in Overrides
  /\ \A v \in Replays : Running(v) => card[replaying[v].case] # None

TypeInv == CasesTypeOK /\ InHand

\* What a card is settled with may stand on a card.
LEMMA SettledIsDelta == \A o \in Overrides : Settled(o) \in Deltas
BY DEF Settlements, Deltas

\* A function that maps a case to a card or to None still does after one of
\* its values is replaced by a card, which is not None.
LEMMA CardReplaced ==
  ASSUME NEW f \in [Cases -> Card \cup {None}], NEW c \in Cases, NEW k \in Card
  PROVE  /\ [f EXCEPT ![c] = k] \in [Cases -> Card \cup {None}]
         /\ [f EXCEPT ![c] = k][c] = k
         /\ k # None
         /\ \A d \in Cases : d # c => [f EXCEPT ![c] = k][d] = f[d]
BY CasesAssumption

\* What a replay may apply, or a card be settled with, is decided.
LEMMA PlaceholderApart ==
  /\ Placeholder \notin Overrides /\ Placeholder \notin Settlements
  /\ Placeholder # None /\ None \notin Overrides
<1>1. \A o \in Overrides : o.value # Undecided /\ Settled(o).value # Undecided
  BY CasesAssumption DEF Settled
<1>2. Placeholder.value = Undecided
  BY DEF Placeholder
<1>. QED  BY <1>1, <1>2, CasesAssumption DEF Settlements

LEMMA TypeInit == Init => TypeInv
BY DEF Init, TypeInv, CasesTypeOK, InHand, Running

LEMMA TypeStep == TypeInv /\ [Next]_vars => TypeInv'
<1> SUFFICES ASSUME TypeInv, [Next]_vars
             PROVE  TypeInv'
  OBVIOUS
<1> USE CasesAssumption
<1>a. CasesTypeOK /\ InHand
  BY DEF TypeInv
<1>b. \A c \in Cases : card[c] # None => card[c] \in Card
  BY <1>a DEF CasesTypeOK
<1>1. ASSUME NEW r \in Runs, RunFails(r)
      PROVE  TypeInv'
  BY <1>a, <1>1 DEF RunFails, TypeInv, CasesTypeOK, InHand, Running, Report
<1>2. ASSUME NEW p \in Proposers, NEW r \in Runs, Propose(p, r)
      PROVE  TypeInv'
  <2>1. report[r] \in Report
    BY <1>a, <1>2 DEF Propose, CasesTypeOK
  <2>2. NewCard(r) \in Card
    BY <2>1 DEF NewCard, Card, Report, Statuses, ArtifactDigest, Digest, Suggestions, Deltas
  <2>. QED  BY <1>a, <1>2, <2>2 DEF Propose, TypeInv, CasesTypeOK, InHand, Running
<1>3. ASSUME NEW p \in Proposers, SaveProposal(p)
      PROVE  TypeInv'
  <2>1. PICK c \in Cases \ Present : card' = [card EXCEPT ![c] = proposing[p]]
    BY <1>3 DEF SaveProposal
  <2>2. proposing[p] \in Card
    BY <1>a, <1>3 DEF SaveProposal, CasesTypeOK
  <2>3. card' \in [Cases -> Card \cup {None}] /\ card'[c] # None
        /\ \A d \in Cases : d # c => card'[d] = card[d]
    BY <1>a, <2>1, <2>2, CardReplaced DEF CasesTypeOK
  <2>4. card[c] = None
    BY <2>1 DEF Present
  <2>5. CasesTypeOK'
    BY <1>a, <1>3, <2>3 DEF SaveProposal, CasesTypeOK
  <2>6. InHand'
    BY <1>a, <1>3, <2>3, <2>4 DEF SaveProposal, CasesTypeOK, InHand, Running, Replay
  <2>. QED  BY <2>5, <2>6 DEF TypeInv
<1>4. ASSUME NEW c \in Cases, Author(c)
      PROVE  TypeInv'
  <2>1. PICK k \in Card : card' = [card EXCEPT ![c] = k]
    BY <1>4 DEF Author, Card, Statuses, Deltas, Present
  <2>2. card' \in [Cases -> Card \cup {None}] /\ card'[c] # None
        /\ \A d \in Cases : d # c => card'[d] = card[d]
    BY <1>a, <2>1, CardReplaced DEF CasesTypeOK
  <2>3. CasesTypeOK'
    BY <1>a, <1>4, <2>2 DEF Author, CasesTypeOK
  <2>4. InHand'
    BY <1>a, <1>4, <2>2 DEF Author, CasesTypeOK, InHand, Running, Replay
  <2>. QED  BY <2>3, <2>4 DEF TypeInv
<1>5. ASSUME NEW v \in Replays, NEW c \in Cases, NEW o \in Overrides, StartReplay(v, c, o)
      PROVE  TypeInv'
  <2>1. card[c] \in Card
    BY <1>b, <1>5 DEF StartReplay
  <2>2. PICK k \in Card :
          /\ card' = [card EXCEPT ![c] = k]
          /\ k.sig = card[c].sig /\ k.supersedes = card[c].supersedes
          /\ k.delta = card[c].delta \/ card[c].delta = Placeholder
    <3>1. CASE card[c].delta = Placeholder
      <4> DEFINE k == [card[c] EXCEPT !.delta = Settled(o)]
      <4>1. k \in Card /\ k.sig = card[c].sig /\ k.supersedes = card[c].supersedes
        BY <2>1, SettledIsDelta DEF Card
      <4>2. card' = [card EXCEPT ![c] = k]
        BY <1>5, <3>1 DEF StartReplay
      <4>. QED  BY <4>1, <4>2, <3>1
    <3>2. CASE card[c].delta # Placeholder
      <4>1. card' = [card EXCEPT ![c] = card[c]]
        BY <1>a, <1>5, <3>2 DEF StartReplay, CasesTypeOK
      <4>. QED  BY <2>1, <4>1
    <3>. QED  BY <3>1, <3>2
  <2>3. card' \in [Cases -> Card \cup {None}] /\ card'[c] = k /\ card'[c] # None
        /\ \A d \in Cases : d # c => card'[d] = card[d]
    BY <1>a, <2>2, CardReplaced DEF CasesTypeOK
  <2>4. [case |-> c, override |-> o] \in Replay
    BY DEF Replay
  <2>5. replaying' \in [Replays -> Replay \cup {None, Ended}]
    BY <1>a, <1>5, <2>4 DEF StartReplay, CasesTypeOK
  <2>6. CasesTypeOK'
    BY <1>a, <1>5, <2>3, <2>5 DEF StartReplay, CasesTypeOK
  <2>7. \A w \in Replays : Running(w)' => card'[replaying'[w].case] # None
    BY <1>a, <1>5, <2>3 DEF StartReplay, CasesTypeOK, InHand, Running, Replay
  <2>8. promoting # None =>
          /\ card'[promoting] # None
          /\ held.sig = card'[promoting].sig
          /\ held.supersedes = card'[promoting].supersedes
          /\ held.delta = card'[promoting].delta
    BY <1>a, <1>5, <2>2, <2>3, PlaceholderApart DEF InHand, CasesTypeOK
  <2>9. InHand'
    BY <1>a, <1>5, <2>7, <2>8 DEF StartReplay, InHand
  <2>. QED  BY <2>6, <2>9 DEF TypeInv
<1>6. ASSUME NEW v \in Replays, NEW good \in BOOLEAN, Record(v, good)
      PROVE  TypeInv'
  <2> DEFINE c == replaying[v].case
             o == replaying[v].override
             k == [card[c] EXCEPT !.evidence = [override |-> o, good |-> good]]
  <2>1. c \in Cases /\ o \in Overrides /\ card[c] # None
    BY <1>a, <1>6 DEF Record, Running, CasesTypeOK, Replay, InHand
  <2>2. card[c] \in Card
    BY <1>b, <2>1
  <2>3. /\ k \in Card
        /\ k.sig = card[c].sig /\ k.supersedes = card[c].supersedes
        /\ k.delta = card[c].delta
    BY <2>1, <2>2 DEF Card, Evidence
  <2>4. card' = [card EXCEPT ![c] = k]
    BY <1>6 DEF Record
  <2> HIDE DEF k, c, o
  <2>5. card' \in [Cases -> Card \cup {None}] /\ card'[c] = k /\ card'[c] # None
        /\ \A d \in Cases : d # c => card'[d] = card[d]
    BY <1>a, <2>1, <2>3, <2>4, CardReplaced DEF CasesTypeOK
  <2>6. proved' \subseteq Overrides
    BY <1>a, <1>6, <2>1 DEF Record, CasesTypeOK, c, o
  <2>7. CasesTypeOK'
    BY <1>a, <1>6, <2>5, <2>6 DEF Record, CasesTypeOK
  <2>8. InHand'
    BY <1>a, <1>6, <2>3, <2>5 DEF Record, InHand, CasesTypeOK, Running, Replay
  <2>. QED  BY <2>7, <2>8 DEF TypeInv
<1>7. ASSUME NEW v \in Replays, ReplayFails(v)
      PROVE  TypeInv'
  BY <1>a, <1>7 DEF ReplayFails, TypeInv, CasesTypeOK, InHand, Running
<1>8. ASSUME NEW c \in Cases, Promote(c)
      PROVE  TypeInv'
  <2>1. /\ card[c] \in Card /\ card[c].delta \in Overrides
        /\ card[c].supersedes \in Cases \cup {None}
    <3>1. card[c] \in Card
      BY <1>b, <1>8 DEF Promote
    <3>2. card[c].delta \in Overrides
      BY <1>a, <1>8, <3>1 DEF Promote, Gated, Card, Evidence, CasesTypeOK
    <3>. QED  BY <3>1, <3>2 DEF Card
  <2>2. /\ card' \in [Cases -> Card \cup {None}]
        /\ \A d \in Cases : /\ card[d] # None => card'[d] # None
                            /\ card'[d].sig = card[d].sig
                            /\ card'[d].supersedes = card[d].supersedes
                            /\ card'[d].delta = card[d].delta
    <3>1. CASE card[c].supersedes = None
      BY <1>a, <1>8, <3>1 DEF Promote, CasesTypeOK
    <3>2. CASE card[c].supersedes # None
      <4> DEFINE old == card[c].supersedes
                 k == [card[old] EXCEPT !.status = "superseded"]
      <4>1. old \in Cases /\ card[old] # None /\ card' = [card EXCEPT ![old] = k]
        BY <1>8, <2>1, <3>2 DEF Promote, Present
      <4>2. card[old] \in Card
        BY <1>b, <4>1
      <4>3. /\ k \in Card /\ k.sig = card[old].sig
            /\ k.supersedes = card[old].supersedes /\ k.delta = card[old].delta
        BY <4>2 DEF Card, Statuses
      <4>. HIDE DEF k
      <4>. QED  BY <1>a, <4>1, <4>3, CardReplaced DEF CasesTypeOK
    <3>. QED  BY <3>1, <3>2
  <2>3. CasesTypeOK'
    BY <1>a, <1>8, <2>1, <2>2 DEF Promote, CasesTypeOK
  <2>4. InHand'
    BY <1>a, <1>8, <2>1, <2>2 DEF Promote, InHand, Running, CasesTypeOK, Replay
  <2>. QED  BY <2>3, <2>4 DEF TypeInv
<1>9. ASSUME SavePromoted
      PROVE  TypeInv'
  <2> DEFINE k == [held EXCEPT !.status = "verified"]
  <2>1. promoting \in Cases /\ held \in Card
    BY <1>a, <1>9 DEF SavePromoted, CasesTypeOK, InHand
  <2>2. k \in Card /\ card' = [card EXCEPT ![promoting] = k]
    BY <1>9, <2>1 DEF SavePromoted, Card, Statuses
  <2> HIDE DEF k
  <2>3. card' \in [Cases -> Card \cup {None}] /\ card'[promoting] # None
        /\ \A d \in Cases : d # promoting => card'[d] = card[d]
    BY <1>a, <2>1, <2>2, CardReplaced DEF CasesTypeOK
  <2>. QED
    BY <1>a, <1>9, <2>3 DEF SavePromoted, TypeInv, CasesTypeOK, InHand, Running, Replay
<1>10. ASSUME PromotionDies
       PROVE  TypeInv'
  BY <1>a, <1>10 DEF PromotionDies, TypeInv, CasesTypeOK, InHand, Running
<1>11. ASSUME NEW c \in Cases, Reject(c)
       PROVE  TypeInv'
  <2>1. card[c] \in Card
    BY <1>b, <1>11 DEF Reject
  <2>2. PICK k \in Card : card' = [card EXCEPT ![c] = k]
    BY <1>11, <2>1 DEF Reject, Card, Statuses
  <2>3. card' \in [Cases -> Card \cup {None}] /\ card'[c] # None
        /\ \A d \in Cases : d # c => card'[d] = card[d]
    BY <1>a, <2>2, CardReplaced DEF CasesTypeOK
  <2>. QED
    BY <1>a, <1>11, <2>3 DEF Reject, TypeInv, CasesTypeOK, InHand, Running, Replay
<1>12. ASSUME Edit
       PROVE  TypeInv'
  BY <1>a, <1>12 DEF Edit, TypeInv, CasesTypeOK, InHand, Running
<1>13. CASE UNCHANGED vars
  BY <1>a, <1>13 DEF vars, TypeInv, CasesTypeOK, InHand, Running
<1>14. ASSUME ReplayApart
       PROVE  TypeInv'
  BY <1>a, <1>14 DEF ReplayApart, TypeInv, CasesTypeOK, InHand, Running
<1>. QED
  BY <1>14, <1>1, <1>2, <1>3, <1>4, <1>5, <1>6, <1>7, <1>8, <1>9, <1>10, <1>11, <1>12, <1>13 DEF Next

\* Every reachable store is well typed.
THEOREM CasesTypeCorrect == Spec => []CasesTypeOK
<1>1. TypeInv => CasesTypeOK
  BY DEF TypeInv
<1>. QED  BY <1>1, TypeInit, TypeStep, PTL DEF Spec

(***************************************************************************)
(* What a step may do to a card: never delete it, never change its task or *)
(* what it supersedes, settle its override at most once, and never make a  *)
(* decided card a candidate again.                                         *)
(***************************************************************************)
Kept(old, new) ==
  /\ new # None
  /\ new.sig = old.sig /\ new.supersedes = old.supersedes
  /\ new.delta = old.delta \/ old.delta = Placeholder
  /\ old.status # "candidate" => new.status # "candidate"

LEMMA CardsStable ==
  TypeInv /\ [Next]_vars =>
    /\ proved \subseteq proved'
    /\ \A c \in Present : Kept(card[c], card'[c])
<1> SUFFICES ASSUME TypeInv, [Next]_vars
             PROVE  /\ proved \subseteq proved'
                    /\ \A c \in Present : Kept(card[c], card'[c])
  OBVIOUS
<1> USE CasesAssumption
<1>a. CasesTypeOK /\ InHand
  BY DEF TypeInv
<1>b. \A c \in Present : card[c] \in Card
  BY <1>a DEF CasesTypeOK, Present
<1>c. CasesTypeOK'
  BY TypeStep DEF TypeInv
<1>1. ASSUME card' = card, proved \subseteq proved'
      PROVE  proved \subseteq proved' /\ \A c \in Present : Kept(card[c], card'[c])
  BY <1>1 DEF Kept, Present
<1>2. ASSUME NEW p \in Proposers, SaveProposal(p)
      PROVE  proved \subseteq proved' /\ \A c \in Present : Kept(card[c], card'[c])
  BY <1>a, <1>2 DEF SaveProposal, Kept, Present, CasesTypeOK
<1>3. ASSUME NEW c \in Cases, Author(c)
      PROVE  proved \subseteq proved' /\ \A d \in Present : Kept(card[d], card'[d])
  BY <1>a, <1>3 DEF Author, Kept, Present, CasesTypeOK
<1>4. ASSUME NEW v \in Replays, NEW c \in Cases, NEW o \in Overrides, StartReplay(v, c, o)
      PROVE  proved \subseteq proved' /\ \A d \in Present : Kept(card[d], card'[d])
  <2>1. card[c] \in Card /\ c \in Present
    BY <1>b, <1>4 DEF StartReplay, Present
  <2>2. [card[c] EXCEPT !.delta = Settled(o)] \in Card
    BY <2>1, SettledIsDelta DEF Card
  <2>3. proved' = proved
    BY <1>4 DEF StartReplay
  <2>4. card' = card \/ card' = [card EXCEPT ![c] = [card[c] EXCEPT !.delta = Settled(o)]]
    BY <1>4 DEF StartReplay
  <2>5. card' # card => card[c].delta = Placeholder
    BY <1>4 DEF StartReplay
  <2>. QED  BY <1>a, <1>1, <2>1, <2>2, <2>3, <2>4, <2>5 DEF Kept, Present, CasesTypeOK, Card
<1>5. ASSUME NEW v \in Replays, NEW good \in BOOLEAN, Record(v, good)
      PROVE  proved \subseteq proved' /\ \A d \in Present : Kept(card[d], card'[d])
  <2> DEFINE c == replaying[v].case
             e == [override |-> replaying[v].override, good |-> good]
  <2>1. c \in Cases /\ c \in Present /\ e \in Evidence
    BY <1>a, <1>5 DEF Record, Running, CasesTypeOK, Replay, InHand, Present, Evidence
  <2>2. [card[c] EXCEPT !.evidence = e] \in Card /\ card[c] \in Card
    BY <1>b, <2>1 DEF Card
  <2>3. card' = [card EXCEPT ![c] = [card[c] EXCEPT !.evidence = e]]
    BY <1>5 DEF Record
  <2>4. proved \subseteq proved'
    BY <1>5 DEF Record
  <2> HIDE DEF c, e
  <2>. QED  BY <1>a, <2>1, <2>2, <2>3, <2>4 DEF Kept, Present, CasesTypeOK, Card
<1>6. ASSUME NEW c \in Cases, Promote(c)
      PROVE  proved \subseteq proved' /\ \A d \in Present : Kept(card[d], card'[d])
  <2>1. CASE card' = card
    BY <1>6, <2>1, <1>1 DEF Promote
  <2>2. CASE card' # card
    <3> DEFINE old == card[c].supersedes
    <3>1. old \in Present /\ card' = [card EXCEPT ![old] = [card[old] EXCEPT !.status = "superseded"]]
      BY <1>6, <2>2 DEF Promote
    <3>2. card[old] \in Card /\ [card[old] EXCEPT !.status = "superseded"] \in Card
      BY <1>b, <3>1 DEF Card, Statuses
    <3>3. proved' = proved
      BY <1>6 DEF Promote
    <3> HIDE DEF old
    <3>. QED  BY <1>a, <3>1, <3>2, <3>3 DEF Kept, Present, CasesTypeOK, Card
  <2>. QED  BY <2>1, <2>2
<1>7. ASSUME SavePromoted
      PROVE  proved \subseteq proved' /\ \A d \in Present : Kept(card[d], card'[d])
  <2>1. held \in Card /\ [held EXCEPT !.status = "verified"] \in Card
    BY <1>a, <1>7 DEF SavePromoted, CasesTypeOK, InHand, Card, Statuses
  <2>. QED  BY <1>a, <1>7, <2>1 DEF SavePromoted, Kept, Present, CasesTypeOK, InHand, Card
<1>8. ASSUME NEW c \in Cases, Reject(c)
      PROVE  proved \subseteq proved' /\ \A d \in Present : Kept(card[d], card'[d])
  <2>1. card[c] \in Card /\ [card[c] EXCEPT !.status = "rejected"] \in Card
    BY <1>b, <1>8 DEF Reject, Present, Card, Statuses
  <2>. QED  BY <1>a, <1>8, <2>1 DEF Reject, Kept, Present, CasesTypeOK, Card
<1>9. \/ card' = card /\ proved \subseteq proved'
      \/ \E p \in Proposers : SaveProposal(p)
      \/ \E c \in Cases : Author(c) \/ Promote(c) \/ Reject(c)
      \/ \E v \in Replays, c \in Cases, o \in Overrides : StartReplay(v, c, o)
      \/ \E v \in Replays, good \in BOOLEAN : Record(v, good)
      \/ SavePromoted
  BY DEF Next, vars, RunFails, Propose, ReplayFails, PromotionDies, Edit, ReplayApart
<1>. QED  BY <1>1, <1>2, <1>3, <1>4, <1>5, <1>6, <1>7, <1>8, <1>9

\* A decision about a card is never undone by a replay that began before it
\* and ends after it (cases.py:120-125).
DecisionsLast ==
  [][\A c \in Present : card[c].status # "candidate" => card'[c].status # "candidate"]_vars

\* A card that was decided on never becomes a candidate again, whatever
\* replays were under way when it was decided.
THEOREM DecisionsLastHolds == Spec => DecisionsLast
<1>1. TypeInv /\ [Next]_vars =>
        [\A c \in Present : card[c].status # "candidate" => card'[c].status # "candidate"]_vars
  BY CardsStable DEF Kept
<1>. QED  BY <1>1, TypeInit, TypeStep, PTL DEF Spec, DecisionsLast

(***************************************************************************)
(* Evidence.  What a good replay has shown is on record for every card     *)
(* that is verified, superseded for another, or being promoted.            *)
(***************************************************************************)
Backed(k) ==
  k.evidence # None /\ k.evidence.good => k.evidence.override \in proved

\* Supplied or recorded, the replay that opens the gates shows that the
\* card's override helps.
LEMMA GatedHelps ==
  ASSUME NEW k, Backed(k), Gated(k)
  PROVE  k.delta \in proved
<1>1. PICK e \in {[override |-> o, good |-> TRUE] : o \in proved} \cup {k.evidence} :
        e # None /\ e.override = k.delta /\ e.good
  BY DEF Gated
<1>. QED  BY <1>1 DEF Backed

EvidenceInv ==
  /\ \A c \in Present : Backed(card[c])
  /\ promoting # None => Backed(held) /\ held.delta \in proved
  /\ \A p \in Proposers : proposing[p] # None =>
       proposing[p].status = "candidate" /\ proposing[p].evidence = None
  /\ VerifiedOnEvidence
  /\ SupersededForEvidence

LEMMA EvidenceInit == Init => EvidenceInv
BY DEF Init, EvidenceInv, Present, VerifiedOnEvidence, Verified, SupersededForEvidence

\* Who has been shown to help stays so, and keeps naming what it supersedes.
LEMMA SuccessorsKept ==
  ASSUME TypeInv, [Next]_vars, NEW c \in Cases,
         \E d \in Present : card[d].supersedes = c /\ card[d].delta \in proved
  PROVE  (\E d \in Present : card[d].supersedes = c /\ card[d].delta \in proved)'
<1>1. PICK d \in Present : card[d].supersedes = c /\ card[d].delta \in proved
  OBVIOUS
<1>2. card[d].delta \in Overrides
  BY <1>1 DEF TypeInv, CasesTypeOK
<1>3. d \in Present' /\ card'[d].supersedes = c /\ card'[d].delta \in proved'
  BY <1>1, <1>2, CardsStable, PlaceholderApart DEF Kept, Present
<1>. QED  BY <1>3

LEMMA EvidenceStep == TypeInv /\ EvidenceInv /\ [Next]_vars => EvidenceInv'
<1> SUFFICES ASSUME TypeInv, EvidenceInv, [Next]_vars
             PROVE  EvidenceInv'
  OBVIOUS
<1> USE CasesAssumption
<1>a. CasesTypeOK /\ InHand
  BY DEF TypeInv
<1>b. \A c \in Present : card[c] \in Card
  BY <1>a DEF CasesTypeOK, Present
<1>c. \A c \in Present : Backed(card[c])
  BY DEF EvidenceInv
<1>d. \A c \in Present : card[c].status = "verified" => card[c].delta \in proved
  BY DEF EvidenceInv, VerifiedOnEvidence, Verified
<1>e. \A c \in Cases :
        c \in Present /\ card[c].status = "superseded" =>
          (\E d \in Present : card[d].supersedes = c /\ card[d].delta \in proved)'
  BY SuccessorsKept DEF EvidenceInv, SupersededForEvidence, Present
\* It is enough to look at the cards the step changed.
<1>f. ASSUME \A c \in Present' : card'[c] # card[c] =>
               /\ Backed(card[c])'
               /\ card'[c].status = "verified" => card'[c].delta \in proved'
               /\ card'[c].status = "superseded" =>
                    \/ c \in Present /\ card[c].status = "superseded"
                    \/ \E d \in Present : /\ card[d].supersedes = c
                                          /\ card[d].delta \in proved,
             promoting' # None =>
               Backed(held)' /\ held'.delta \in proved',
             \A p \in Proposers : proposing'[p] # None =>
               proposing'[p].status = "candidate" /\ proposing'[p].evidence = None
      PROVE  EvidenceInv'
  <2>1. proved \subseteq proved'
    BY CardsStable
  <2>2. \A c \in Present' : Backed(card[c])'
    <3> SUFFICES ASSUME NEW c \in Present'
                 PROVE  Backed(card[c])'
      OBVIOUS
    <3>1. CASE card'[c] = card[c]
      <4>1. c \in Present
        BY <3>1 DEF Present
      <4>2. Backed(card[c])
        BY <1>c, <4>1
      <4>. QED  BY <3>1, <4>2, <2>1 DEF Backed
    <3>2. CASE card'[c] # card[c]
      BY <1>f, <3>2
    <3>. QED  BY <3>1, <3>2
  <2>3. VerifiedOnEvidence'
    <3>1. ASSUME NEW c \in Verified'
          PROVE  card'[c].delta \in proved'
      <4>1. c \in Present' /\ card'[c].status = "verified"
        BY DEF Verified
      <4>2. CASE card'[c] = card[c]
        <5>1. c \in Present
          BY <4>1, <4>2 DEF Present
        <5>. QED  BY <1>d, <2>1, <4>1, <4>2, <5>1
      <4>3. CASE card'[c] # card[c]
        BY <1>f, <4>1, <4>3
      <4>. QED  BY <4>2, <4>3
    <3>. QED  BY <3>1, Zenon DEF VerifiedOnEvidence
  <2>4. SupersededForEvidence'
    <3> SUFFICES ASSUME NEW c \in Present', card'[c].status = "superseded"
                 PROVE  (\E d \in Present : /\ card[d].supersedes = c
                                           /\ card[d].delta \in proved)'
      BY DEF SupersededForEvidence
    <3>1. c \in Cases
      BY DEF Present
    <3>2. CASE card'[c] = card[c]
      BY <1>e, <3>1, <3>2 DEF Present
    <3>3. CASE card'[c] # card[c]
      BY <1>e, <1>f, <3>1, <3>3, SuccessorsKept
    <3>. QED  BY <3>2, <3>3
  <2>. QED  BY <1>f, <2>2, <2>3, <2>4 DEF EvidenceInv
<1>1. ASSUME UNCHANGED <<card, proposing>>, promoting' = None \/ UNCHANGED <<promoting, held>>
      PROVE  EvidenceInv'
  BY <1>1, <1>f, CardsStable DEF EvidenceInv, Backed
<1>2. ASSUME NEW p \in Proposers, NEW r \in Runs, Propose(p, r)
      PROVE  EvidenceInv'
  <2>1. NewCard(r).status = "candidate" /\ NewCard(r).evidence = None
    BY DEF NewCard
  <2>2. \A q \in Proposers : proposing'[q] # None =>
          proposing'[q].status = "candidate" /\ proposing'[q].evidence = None
    BY <1>a, <1>2, <2>1 DEF Propose, EvidenceInv, CasesTypeOK
  <2>. QED  BY <1>2, <1>f, <2>2 DEF Propose, EvidenceInv, Backed
<1>3. ASSUME NEW p \in Proposers, SaveProposal(p)
      PROVE  EvidenceInv'
  <2>1. PICK c \in Cases \ Present : card' = [card EXCEPT ![c] = proposing[p]]
    BY <1>3 DEF SaveProposal
  <2>2. proposing[p].status = "candidate" /\ proposing[p].evidence = None
    BY <1>3 DEF SaveProposal, EvidenceInv
  <2>3. \A d \in Present' : card'[d] # card[d] =>
          card'[d].status = "candidate" /\ card'[d].evidence = None
    BY <1>a, <2>1, <2>2 DEF CasesTypeOK, Present
  <2>4. \A q \in Proposers : proposing'[q] # None =>
          proposing'[q].status = "candidate" /\ proposing'[q].evidence = None
    BY <1>a, <1>3 DEF SaveProposal, EvidenceInv, CasesTypeOK
  <2>. QED  BY <1>3, <1>f, <2>3, <2>4 DEF SaveProposal, EvidenceInv, Backed
<1>4. ASSUME NEW c \in Cases, Author(c)
      PROVE  EvidenceInv'
  <2>1. \A d \in Present' : card'[d] # card[d] =>
          card'[d].status = "candidate" /\ card'[d].evidence = None
    BY <1>a, <1>4 DEF Author, CasesTypeOK, Present
  <2>. QED  BY <1>4, <1>f, <2>1 DEF Author, EvidenceInv, Backed
<1>5. ASSUME NEW v \in Replays, NEW c \in Cases, NEW o \in Overrides, StartReplay(v, c, o)
      PROVE  EvidenceInv'
  <2>1. c \in Present /\ card[c] \in Card
    BY <1>b, <1>5 DEF StartReplay, Present
  <2>2. card' = card \/ card' = [card EXCEPT ![c] = [card[c] EXCEPT !.delta = Settled(o)]]
    BY <1>5 DEF StartReplay
  <2>3. card[c].delta = Placeholder => card[c].status # "verified"
    BY <1>a, <1>d, <2>1, PlaceholderApart DEF CasesTypeOK
  <2>4. card' # card => card[c].delta = Placeholder
    BY <1>5 DEF StartReplay
  <2>5. [card[c] EXCEPT !.delta = Settled(o)].evidence = card[c].evidence
        /\ [card[c] EXCEPT !.delta = Settled(o)].status = card[c].status
    BY <2>1 DEF Card
  <2>6. \A d \in Present' : card'[d] # card[d] =>
          /\ d = c
          /\ card'[d].status = card[c].status /\ card[c].status # "verified"
          /\ card'[d].evidence = card[c].evidence
    BY <1>a, <2>1, <2>2, <2>3, <2>4, <2>5 DEF CasesTypeOK, Present
  <2>7. UNCHANGED <<proposing, promoting, held, proved>>
    BY <1>5 DEF StartReplay
  <2>. QED  BY <1>c, <1>f, <2>1, <2>6, <2>7 DEF EvidenceInv, Backed
<1>6. ASSUME NEW v \in Replays, NEW good \in BOOLEAN, Record(v, good)
      PROVE  EvidenceInv'
  <2> DEFINE c == replaying[v].case
             e == [override |-> replaying[v].override, good |-> good]
  <2>1. c \in Present /\ e \in Evidence /\ card[c] \in Card
    BY <1>a, <1>b, <1>6 DEF Record, Running, CasesTypeOK, Replay, InHand, Present, Evidence
  <2>2. card' = [card EXCEPT ![c] = [card[c] EXCEPT !.evidence = e]]
    BY <1>6 DEF Record
  <2>3. e.good => e.override \in proved'
    BY <1>6 DEF Record
  <2>4. /\ [card[c] EXCEPT !.evidence = e].status = card[c].status
        /\ [card[c] EXCEPT !.evidence = e].delta = card[c].delta
        /\ [card[c] EXCEPT !.evidence = e].evidence = e
    BY <2>1 DEF Card
  <2>5. proved \subseteq proved' /\ UNCHANGED <<proposing, promoting, held>>
    BY <1>6 DEF Record
  <2> HIDE DEF c, e
  <2>6. \A d \in Present' : card'[d] # card[d] =>
          /\ d = c /\ card'[d].status = card[c].status /\ card'[d].delta = card[c].delta
          /\ card'[d].evidence = e
    BY <1>a, <2>1, <2>2, <2>4 DEF CasesTypeOK, Present
  <2>. QED  BY <1>d, <1>f, <2>1, <2>3, <2>5, <2>6 DEF EvidenceInv, Backed
<1>7. ASSUME NEW c \in Cases, Promote(c)
      PROVE  EvidenceInv'
  <2> DEFINE old == card[c].supersedes
             k == [card[old] EXCEPT !.status = "superseded"]
  <2>1. c \in Present /\ card[c].delta \in proved /\ Backed(card[c])
    BY <1>c, <1>7, GatedHelps DEF Promote, Present
  <2>2. \/ card' = card
        \/ old \in Present /\ card' = [card EXCEPT ![old] = k]
    BY <1>7 DEF Promote
  <2>3. old \in Present =>
          k.status = "superseded" /\ k.evidence = card[old].evidence
    BY <1>b DEF Card
  <2>4. promoting' = c /\ held' = card[c] /\ UNCHANGED <<proposing, proved>>
    BY <1>7 DEF Promote
  <2> HIDE DEF k
  <2>5. \A d \in Present' : card'[d] # card[d] =>
          /\ d = old /\ d \in Present /\ card'[d].status = "superseded"
          /\ card'[d].evidence = card[d].evidence
    BY <1>a, <2>2, <2>3 DEF CasesTypeOK, Present
  <2>. QED  BY <1>c, <1>f, <2>1, <2>4, <2>5 DEF EvidenceInv, Backed
<1>8. ASSUME SavePromoted
      PROVE  EvidenceInv'
  <2> DEFINE k == [held EXCEPT !.status = "verified"]
  <2>1. /\ promoting \in Cases /\ held \in Card
        /\ Backed(held) /\ held.delta \in proved
    BY <1>a, <1>8 DEF SavePromoted, CasesTypeOK, InHand, EvidenceInv
  <2>2. k.status = "verified" /\ k.delta = held.delta /\ k.evidence = held.evidence
    BY <2>1 DEF Card
  <2>3. /\ card' = [card EXCEPT ![promoting] = k]
        /\ promoting' = None /\ UNCHANGED <<proposing, proved>>
    BY <1>8 DEF SavePromoted
  <2> HIDE DEF k
  <2>4. \A d \in Present' : card'[d] # card[d] => d = promoting /\ card'[d] = k
    BY <1>a, <2>1, <2>3 DEF CasesTypeOK, Present
  <2>. QED  BY <1>f, <2>1, <2>2, <2>3, <2>4 DEF EvidenceInv, Backed
<1>9. ASSUME NEW c \in Cases, Reject(c)
      PROVE  EvidenceInv'
  <2> DEFINE k == [card[c] EXCEPT !.status = "rejected"]
  <2>1. c \in Present /\ card[c] \in Card
    BY <1>b, <1>9 DEF Reject, Present
  <2>2. k.status = "rejected" /\ k.evidence = card[c].evidence
    BY <2>1 DEF Card
  <2>3. card' = [card EXCEPT ![c] = k] /\ UNCHANGED <<proposing, promoting, held, proved>>
    BY <1>9 DEF Reject
  <2> HIDE DEF k
  <2>4. \A d \in Present' : card'[d] # card[d] => d = c /\ card'[d] = k
    BY <1>a, <2>1, <2>3 DEF CasesTypeOK, Present
  <2>. QED  BY <1>c, <1>f, <2>1, <2>2, <2>3, <2>4 DEF EvidenceInv, Backed
<1>10. \/ UNCHANGED <<card, proposing>>
             /\ (promoting' = None \/ UNCHANGED <<promoting, held>>)
       \/ \E p \in Proposers : SaveProposal(p)
       \/ \E p \in Proposers, r \in Runs : Propose(p, r)
       \/ \E c \in Cases : Author(c) \/ Promote(c) \/ Reject(c)
       \/ \E v \in Replays, c \in Cases, o \in Overrides : StartReplay(v, c, o)
       \/ \E v \in Replays, good \in BOOLEAN : Record(v, good)
       \/ SavePromoted
  BY DEF Next, vars, RunFails, ReplayFails, PromotionDies, Edit, ReplayApart
<1>. QED  BY <1>1, <1>2, <1>3, <1>4, <1>5, <1>6, <1>7, <1>8, <1>9, <1>10

LEMMA EvidenceInvariant == Spec => [](TypeInv /\ EvidenceInv)
<1>. QED  BY TypeInit, TypeStep, EvidenceInit, EvidenceStep, PTL DEF Spec

\* No interleaving of replays and promotions verifies a card for an override
\* that no passing replay has shown to help.
THEOREM VerifiedOnEvidenceHolds == Spec => []VerifiedOnEvidence
<1>1. EvidenceInv => VerifiedOnEvidence
  BY DEF EvidenceInv
<1>. QED  BY <1>1, EvidenceInvariant, PTL

\* A card is superseded only for one that names it and is so backed, even
\* when the promotion is cut off between its two saves.
THEOREM SupersededForEvidenceHolds == Spec => []SupersededForEvidence
<1>1. EvidenceInv => SupersededForEvidence
  BY DEF EvidenceInv
<1>. QED  BY <1>1, EvidenceInvariant, PTL

(***************************************************************************)
(* Rivals.  Between the checks of a promotion and its last save no other   *)
(* card becomes verified, so what the checks found still holds then.       *)
(***************************************************************************)
Clear(c, k) ==
  \A d \in Verified : d # c /\ card[d].sig = k.sig =>
    card[d].delta # k.delta /\ k.supersedes # None

RivalInv ==
  /\ NoDuplicateVerified
  /\ ConflictOnlyBySuperseding
  /\ promoting # None => Clear(promoting, held)

LEMMA RivalInit == Init => RivalInv
BY DEF Init, RivalInv, Present, Verified, NoDuplicateVerified, ConflictOnlyBySuperseding

\* Only the last save of a promotion makes a card verified.
LEMMA VerifiedOrigin ==
  ASSUME TypeInv, EvidenceInv, [Next]_vars, NEW d \in Verified', d \notin Verified
  PROVE  SavePromoted /\ d = promoting
<1> USE CasesAssumption
<1>a. CasesTypeOK /\ InHand
  BY DEF TypeInv
<1>b. d \in Cases /\ card'[d] # None /\ card'[d].status = "verified"
  BY DEF Verified, Present
<1>c. d \in Present => card[d] \in Card /\ card[d].status # "verified"
  BY <1>a, <1>b DEF CasesTypeOK, Verified, Present
<1>1. card' # card
  BY <1>b DEF Verified, Present
<1>2. ASSUME NEW c \in Cases, NEW k, card' = [card EXCEPT ![c] = k], k.status # "verified"
      PROVE  FALSE
  BY <1>a, <1>b, <1>2 DEF CasesTypeOK, Verified, Present
<1>3. ASSUME NEW c \in Present, NEW k, card' = [card EXCEPT ![c] = k],
             k.status = card[c].status
      PROVE  FALSE
  BY <1>a, <1>b, <1>3 DEF CasesTypeOK, Verified, Present
<1>4. ASSUME NEW p \in Proposers, SaveProposal(p)
      PROVE  FALSE
  BY <1>2, <1>4 DEF SaveProposal, EvidenceInv
<1>5. ASSUME NEW c \in Cases, Author(c)
      PROVE  FALSE
  <2>1. \A b \in Present' : card'[b] # card[b] => card'[b].status = "candidate"
    BY <1>a, <1>5 DEF Author, CasesTypeOK, Present
  <2>. QED  BY <1>b, <1>c, <2>1 DEF Present
<1>6. ASSUME NEW c \in Cases, Promote(c)
      PROVE  FALSE
  <2> DEFINE old == card[c].supersedes
             k == [card[old] EXCEPT !.status = "superseded"]
  <2>1. old \in Present /\ card' = [card EXCEPT ![old] = k]
    BY <1>1, <1>6 DEF Promote
  <2>2. k.status = "superseded"
    BY <1>a, <2>1 DEF CasesTypeOK, Present, Card
  <2>3. old \in Cases
    BY <2>1 DEF Present
  <2> HIDE DEF k, old
  <2>. QED  BY <1>2, <2>1, <2>2, <2>3
<1>7. ASSUME NEW c \in Cases, Reject(c)
      PROVE  FALSE
  <2> DEFINE k == [card[c] EXCEPT !.status = "rejected"]
  <2>1. card' = [card EXCEPT ![c] = k] /\ card[c] # None
    BY <1>7 DEF Reject
  <2>2. k.status = "rejected"
    BY <1>a, <2>1 DEF CasesTypeOK, Card
  <2> HIDE DEF k
  <2>. QED  BY <1>2, <2>1, <2>2
<1>8. ASSUME NEW v \in Replays, NEW c \in Cases, NEW o \in Overrides, StartReplay(v, c, o)
      PROVE  FALSE
  <2> DEFINE k == [card[c] EXCEPT !.delta = Settled(o)]
  <2>1. c \in Present /\ card' = [card EXCEPT ![c] = k]
    BY <1>1, <1>8 DEF StartReplay, Present
  <2>2. k.status = card[c].status
    BY <1>a, <2>1 DEF CasesTypeOK, Present, Card
  <2> HIDE DEF k
  <2>. QED  BY <1>3, <2>1, <2>2
<1>9. ASSUME NEW v \in Replays, NEW good \in BOOLEAN, Record(v, good)
      PROVE  FALSE
  <2> DEFINE c == replaying[v].case
             e == [override |-> replaying[v].override, good |-> good]
             k == [card[c] EXCEPT !.evidence = e]
  <2>1. c \in Present
    BY <1>a, <1>9 DEF Record, Running, CasesTypeOK, Replay, InHand, Present
  <2>2. card' = [card EXCEPT ![c] = k]
    BY <1>9 DEF Record
  <2>3. k.status = card[c].status
    BY <1>a, <2>1 DEF CasesTypeOK, Present, Card
  <2> HIDE DEF c, e, k
  <2>. QED  BY <1>3, <2>1, <2>2, <2>3
<1>10. SavePromoted
  BY <1>1, <1>4, <1>5, <1>6, <1>7, <1>8, <1>9
     DEF Next, vars, RunFails, Propose, ReplayFails, PromotionDies, Edit, ReplayApart
<1>11. d = promoting
  BY <1>a, <1>b, <1>10 DEF SavePromoted, CasesTypeOK, Verified, Present
<1>. QED  BY <1>10, <1>11

\* A promotion in flight stays as it is or ends; a new one has been checked.
LEMMA PromotionOrigin ==
  ASSUME [Next]_vars, promoting' # None
  PROVE  \/ promoting' = promoting /\ held' = held
         \/ promoting' \in Cases /\ Promote(promoting')
BY DEF Next, vars, RunFails, Propose, SaveProposal, Author, StartReplay, Record,
       ReplayFails, ReplayApart, Promote, SavePromoted, PromotionDies, Reject, Edit

LEMMA RivalStep == TypeInv /\ EvidenceInv /\ RivalInv /\ [Next]_vars => RivalInv'
<1> SUFFICES ASSUME TypeInv, EvidenceInv, RivalInv, [Next]_vars
             PROVE  RivalInv'
  OBVIOUS
<1> USE CasesAssumption
<1>a. CasesTypeOK /\ InHand /\ (CasesTypeOK /\ InHand)'
  BY TypeStep DEF TypeInv
<1>b. \A d \in Verified : d \in Present /\ card[d].delta \in Overrides
  <2> SUFFICES ASSUME NEW d \in Verified PROVE d \in Present /\ card[d].delta \in Overrides
    OBVIOUS
  <2>1. card[d].delta \in proved
    BY DEF EvidenceInv, VerifiedOnEvidence
  <2>2. proved \subseteq Overrides
    BY <1>a DEF CasesTypeOK
  <2>. QED  BY <2>1, <2>2 DEF Verified
\* What a verified card says stays what it was.
<1>c. \A d \in Verified : /\ card'[d].sig = card[d].sig /\ card'[d].delta = card[d].delta
                          /\ card'[d].supersedes = card[d].supersedes
  BY <1>b, CardsStable, PlaceholderApart DEF Kept
\* The two ways a card comes to be verified after the step.
<1>d. CASE \A d \in Verified' : d \in Verified
  <2>1. NoDuplicateVerified'
    BY <1>c, <1>d DEF RivalInv, NoDuplicateVerified
  <2>2. ConflictOnlyBySuperseding'
    BY <1>c, <1>d DEF RivalInv, ConflictOnlyBySuperseding
  <2>3. ASSUME promoting' # None
        PROVE  Clear(promoting, held)'
    <3>1. CASE promoting' = promoting /\ held' = held
      BY <1>c, <1>d, <2>3, <3>1 DEF RivalInv, Clear
    <3>2. CASE promoting' \in Cases /\ Promote(promoting')
      <4>1. Admissible(promoting') /\ held' = card[promoting']
        BY <3>2 DEF Promote
      <4>2. \A d \in Verified : d # promoting' /\ card[d].sig = held'.sig =>
              d \in Rivals(promoting')
        BY <4>1 DEF Verified, Rivals, Present
      <4>. QED  BY <1>c, <1>d, <4>1, <4>2 DEF Clear, Admissible
    <3>. QED  BY <2>3, <3>1, <3>2, PromotionOrigin
  <2>. QED  BY <2>1, <2>2, <2>3 DEF RivalInv
<1>e. CASE \E d \in Verified' : d \notin Verified
  <2>1. SavePromoted
    BY <1>e, VerifiedOrigin
  <2>2. \A d \in Verified' : d \in Verified \/ d = promoting
    BY VerifiedOrigin
  <2>3. promoting # None /\ promoting \in Cases /\ held \in Card /\ Clear(promoting, held)
    BY <1>a, <2>1 DEF SavePromoted, CasesTypeOK, InHand, RivalInv
  <2> DEFINE k == [held EXCEPT !.status = "verified"]
  <2>4. k.sig = held.sig /\ k.delta = held.delta /\ k.supersedes = held.supersedes
    BY <2>3 DEF Card
  <2>5. card'[promoting] = k
    BY <1>a, <2>1, <2>3 DEF SavePromoted, CasesTypeOK
  <2> HIDE DEF k
  <2>6. NoDuplicateVerified'
    <3> SUFFICES ASSUME NEW c \in Verified', NEW d \in Verified',
                        c # d, card'[c].sig = card'[d].sig
                 PROVE  card'[c].delta # card'[d].delta
      BY DEF NoDuplicateVerified
    <3>1. CASE c \in Verified /\ d \in Verified
      BY <1>c, <3>1 DEF RivalInv, NoDuplicateVerified
    <3>2. CASE c = promoting /\ d \in Verified
      BY <1>c, <2>3, <2>4, <2>5, <3>2 DEF Clear
    <3>3. CASE c \in Verified /\ d = promoting
      BY <1>c, <2>3, <2>4, <2>5, <3>3 DEF Clear
    <3>. QED  BY <2>2, <3>1, <3>2, <3>3
  <2>7. ConflictOnlyBySuperseding'
    <3> SUFFICES ASSUME NEW c \in Verified', NEW d \in Verified',
                        c # d, card'[c].sig = card'[d].sig
                 PROVE  card'[c].supersedes # None \/ card'[d].supersedes # None
      BY DEF ConflictOnlyBySuperseding
    <3>1. CASE c \in Verified /\ d \in Verified
      BY <1>c, <3>1 DEF RivalInv, ConflictOnlyBySuperseding
    <3>2. CASE c = promoting /\ d \in Verified
      BY <1>c, <2>3, <2>4, <2>5, <3>2 DEF Clear
    <3>3. CASE c \in Verified /\ d = promoting
      BY <1>c, <2>3, <2>4, <2>5, <3>3 DEF Clear
    <3>. QED  BY <2>2, <3>1, <3>2, <3>3
  <2>8. promoting' = None
    BY <2>1 DEF SavePromoted
  <2>. QED  BY <2>6, <2>7, <2>8 DEF RivalInv
<1>. QED  BY <1>d, <1>e

LEMMA RivalInvariant == Spec => []RivalInv
<1>. QED  BY TypeInit, TypeStep, EvidenceInit, EvidenceStep, RivalInit, RivalStep, PTL DEF Spec

\* No sequence of interrupted promotions, rejections and replays leaves two
\* verified cards with the same advice for one task.
THEOREM NoDuplicateVerifiedHolds == Spec => []NoDuplicateVerified
<1>1. RivalInv => NoDuplicateVerified
  BY DEF RivalInv
<1>. QED  BY <1>1, RivalInvariant, PTL

\* Verified cards contradict each other only where one supersedes a card.
THEOREM ConflictOnlyBySupersedingHolds == Spec => []ConflictOnlyBySuperseding
<1>1. RivalInv => ConflictOnlyBySuperseding
  BY DEF RivalInv
<1>. QED  BY <1>1, RivalInvariant, PTL

(***************************************************************************)
(* The store implements CaseReview.                                        *)
(***************************************************************************)
View == <<StatusView, TaskView, AdviceView, ReplacesView>>

LEMMA CardView ==
  ASSUME NEW c \in Cases, card[c] \in Card
  PROVE  /\ card[c] # None
         /\ StatusView[c] = card[c].status /\ StatusView[c] # "none"
         /\ TaskView[c] = card[c].sig
         /\ AdviceView[c] = card[c].delta
         /\ ReplacesView[c] = card[c].supersedes
<1>1. card[c] # None
  BY CasesAssumption
<1>2. card[c].status # "none"
  BY DEF Card, Statuses
<1>. QED  BY <1>1, <1>2 DEF StatusView, TaskView, AdviceView, ReplacesView

\* Two functions of the cases that differ at one of them.
LEMMA OneDiffers ==
  ASSUME NEW f, f = [d \in Cases |-> f[d]], NEW g, g = [d \in Cases |-> g[d]],
         NEW c \in Cases, \A d \in Cases : d # c => g[d] = f[d]
  PROVE  g = [f EXCEPT ![c] = g[c]]
OBVIOUS

\* Replacing a card changes what is shown of this card only.
LEMMA ViewReplaced ==
  ASSUME CasesTypeOK, NEW c \in Cases, NEW k \in Card, card' = [card EXCEPT ![c] = k]
  PROVE  /\ StatusView' = [StatusView EXCEPT ![c] = k.status]
         /\ TaskView' = [TaskView EXCEPT ![c] = k.sig]
         /\ AdviceView' = [AdviceView EXCEPT ![c] = k.delta]
         /\ ReplacesView' = [ReplacesView EXCEPT ![c] = k.supersedes]
<1>1. card'[c] = k /\ k # None /\ \A d \in Cases : d # c => card'[d] = card[d]
  BY CardReplaced DEF CasesTypeOK
<1>2. /\ StatusView'[c] = k.status /\ TaskView'[c] = k.sig
      /\ AdviceView'[c] = k.delta /\ ReplacesView'[c] = k.supersedes
  BY <1>1 DEF StatusView, TaskView, AdviceView, ReplacesView
<1>3. ASSUME NEW d \in Cases, d # c
      PROVE  /\ StatusView'[d] = StatusView[d] /\ TaskView'[d] = TaskView[d]
             /\ AdviceView'[d] = AdviceView[d] /\ ReplacesView'[d] = ReplacesView[d]
  <2>1. card'[d] = card[d]
    BY <1>1, <1>3
  <2>. QED  BY <2>1 DEF StatusView, TaskView, AdviceView, ReplacesView
<1>4. StatusView' = [StatusView EXCEPT ![c] = StatusView'[c]]
  <2>1. /\ StatusView = [d \in Cases |-> StatusView[d]]
        /\ StatusView' = [d \in Cases |-> StatusView'[d]]
    BY DEF StatusView
  <2>. QED  BY <1>3, <2>1, OneDiffers
<1>5. TaskView' = [TaskView EXCEPT ![c] = TaskView'[c]]
  <2>1. /\ TaskView = [d \in Cases |-> TaskView[d]]
        /\ TaskView' = [d \in Cases |-> TaskView'[d]]
    BY DEF TaskView
  <2>. QED  BY <1>3, <2>1, OneDiffers
<1>6. AdviceView' = [AdviceView EXCEPT ![c] = AdviceView'[c]]
  <2>1. /\ AdviceView = [d \in Cases |-> AdviceView[d]]
        /\ AdviceView' = [d \in Cases |-> AdviceView'[d]]
    BY DEF AdviceView
  <2>. QED  BY <1>3, <2>1, OneDiffers
<1>7. ReplacesView' = [ReplacesView EXCEPT ![c] = ReplacesView'[c]]
  <2>1. /\ ReplacesView = [d \in Cases |-> ReplacesView[d]]
        /\ ReplacesView' = [d \in Cases |-> ReplacesView'[d]]
    BY DEF ReplacesView
  <2>. QED  BY <1>3, <2>1, OneDiffers
<1>. QED  BY <1>2, <1>4, <1>5, <1>6, <1>7

\* Replacing one of the four parts by what it is leaves the view alone.
LEMMA ViewKept ==
  ASSUME CasesTypeOK, NEW c \in Cases, card[c] \in Card, NEW k \in Card,
         card' = [card EXCEPT ![c] = k]
  PROVE  /\ k.status = card[c].status => StatusView' = StatusView
         /\ k.sig = card[c].sig => TaskView' = TaskView
         /\ k.delta = card[c].delta => AdviceView' = AdviceView
         /\ k.supersedes = card[c].supersedes => ReplacesView' = ReplacesView
<1>1. /\ StatusView[c] = card[c].status /\ TaskView[c] = card[c].sig
      /\ AdviceView[c] = card[c].delta /\ ReplacesView[c] = card[c].supersedes
  BY CardView
<1>2. /\ StatusView = [d \in Cases |-> StatusView[d]]
      /\ TaskView = [d \in Cases |-> TaskView[d]]
      /\ AdviceView = [d \in Cases |-> AdviceView[d]]
      /\ ReplacesView = [d \in Cases |-> ReplacesView[d]]
  BY DEF StatusView, TaskView, AdviceView, ReplacesView
<1>3. /\ StatusView' = [StatusView EXCEPT ![c] = k.status]
      /\ TaskView' = [TaskView EXCEPT ![c] = k.sig]
      /\ AdviceView' = [AdviceView EXCEPT ![c] = k.delta]
      /\ ReplacesView' = [ReplacesView EXCEPT ![c] = k.supersedes]
  BY ViewReplaced
<1>4. ASSUME NEW f, f = [d \in Cases |-> f[d]]
      PROVE  [f EXCEPT ![c] = f[c]] = f
  BY <1>4
<1>. QED  BY <1>1, <1>2, <1>3, <1>4

\* A card about to be saved supersedes nothing, and nobody has settled it.
ProposalInv ==
  \A p \in Proposers : proposing[p] # None =>
    proposing[p].supersedes = None /\ proposing[p].delta \in Overrides \cup {Placeholder, None}

LEMMA ProposalInit == Init => ProposalInv
BY DEF Init, ProposalInv

LEMMA ProposalStep == TypeInv /\ ProposalInv /\ [Next]_vars => ProposalInv'
<1>. SUFFICES ASSUME TypeInv, ProposalInv, [Next]_vars PROVE ProposalInv'
  OBVIOUS
<1>1. ASSUME NEW p \in Proposers, NEW r \in Runs, Propose(p, r)
      PROVE  ProposalInv'
  <2>1. NewCard(r).supersedes = None /\ NewCard(r).delta \in Suggestions
    BY <1>1 DEF NewCard, Propose, TypeInv, CasesTypeOK, Report
  <2>. QED  BY <1>1, <2>1 DEF Propose, ProposalInv, TypeInv, CasesTypeOK, Suggestions
<1>2. ASSUME NEW p \in Proposers, SaveProposal(p)
      PROVE  ProposalInv'
  BY <1>2 DEF SaveProposal, ProposalInv, TypeInv, CasesTypeOK
<1>3. CASE proposing' = proposing
  BY <1>3 DEF ProposalInv
<1>. QED
  BY <1>1, <1>2, <1>3 DEF Next, vars, RunFails, Author, StartReplay, Record, ReplayFails,
     ReplayApart, Promote, SavePromoted, PromotionDies, Reject, Edit

LEMMA ReviewInit == Init => Review!Init
BY DEF Init, Review!Init, StatusView, TaskView, AdviceView, ReplacesView

LEMMA ReviewStep ==
  TypeInv /\ EvidenceInv /\ RivalInv /\ ProposalInv /\ [Next]_vars
    => [Review!Next]_(Review!crVars)
<1>. SUFFICES ASSUME TypeInv, EvidenceInv, RivalInv, ProposalInv, [Next]_vars
              PROVE  [Review!Next]_(Review!crVars)
  OBVIOUS
<1>a. CasesTypeOK /\ InHand
  BY DEF TypeInv
<1>b. \A c \in Present : c \in Cases /\ card[c] \in Card
  BY <1>a DEF CasesTypeOK, Present
<1>0. ASSUME UNCHANGED <<View, proved>>
      PROVE  [Review!Next]_(Review!crVars)
  BY <1>0 DEF View, Review!crVars
<1>1. ASSUME NEW c \in Cases, card[c] = None, NEW k \in Card, card' = [card EXCEPT ![c] = k],
             k.status = "candidate", k.supersedes = None \/ k.supersedes \in Present,
             k.delta \in Overrides \cup {Placeholder, None},
             proved' = proved
      PROVE  Review!Next
  <2>1. StatusView[c] = "none"
    BY <1>1 DEF StatusView
  <2>2. k.sig \in Signatures /\ k.supersedes \in Cases \cup {None}
    BY DEF Card
  <2>3. k.supersedes # None => StatusView[k.supersedes] # "none"
    BY <1>1, <1>b, CardView
  <2>4. Review!Open(c)
    BY <1>1, <1>a, <2>1, <2>2, <2>3, ViewReplaced DEF Review!Open, Review!Written
  <2>. QED  BY <2>4 DEF Review!Next
<1>2. ASSUME NEW p \in Proposers, SaveProposal(p)
      PROVE  Review!Next
  <2>1. PICK c \in Cases \ Present : card' = [card EXCEPT ![c] = proposing[p]]
    BY <1>2 DEF SaveProposal
  <2>2. proposing[p] \in Card /\ proposing[p].status = "candidate"
        /\ proposing[p].supersedes = None
        /\ proposing[p].delta \in Overrides \cup {Placeholder, None}
    BY <1>2, <1>a DEF SaveProposal, CasesTypeOK, EvidenceInv, ProposalInv
  <2>3. card[c] = None /\ proved' = proved
    BY <1>2, <2>1 DEF Present, SaveProposal
  <2>. QED  BY <1>1, <2>1, <2>2, <2>3
<1>3. ASSUME NEW c \in Cases, Author(c)
      PROVE  Review!Next
  <2>1. PICK k \in Card : card' = [card EXCEPT ![c] = k]
    BY <1>3 DEF Author, Card, Statuses, Deltas, Present
  <2>2. card'[c] = k
    BY <1>a, <2>1 DEF CasesTypeOK
  <2>3. card'[c].status = "candidate"
    BY <1>a, <1>3 DEF Author, CasesTypeOK
  <2>4. card'[c].supersedes = None \/ card'[c].supersedes \in Present
    BY <1>a, <1>3 DEF Author, CasesTypeOK
  <2>5. card[c] = None /\ proved' = proved
    BY <1>3 DEF Author
  <2>6. card'[c].delta \in Overrides
    BY <1>a, <1>3 DEF Author, CasesTypeOK
  <2>. QED  BY <1>1, <2>1, <2>2, <2>3, <2>4, <2>5, <2>6
<1>4. ASSUME NEW v \in Replays, NEW c \in Cases, NEW o \in Overrides, StartReplay(v, c, o)
      PROVE  [Review!Next]_(Review!crVars)
  <2> DEFINE x == Settled(o)
             k == [card[c] EXCEPT !.delta = x]
  <2>1. card[c] \in Card /\ proved' = proved
    BY <1>4, <1>b DEF StartReplay, Present
  <2>2. CASE card' = card
    BY <1>0, <2>1, <2>2 DEF View, StatusView, TaskView, AdviceView, ReplacesView
  <2>3. CASE card' # card
    <3>1. x \in Settlements /\ card[c].delta = Placeholder /\ card' = [card EXCEPT ![c] = k]
      BY <1>4, <2>3 DEF StartReplay, Settlements
    <3>0. x \in Deltas
      BY SettledIsDelta
    <3> HIDE DEF x
    <3>2. /\ k \in Card /\ k.status = card[c].status /\ k.sig = card[c].sig
          /\ k.supersedes = card[c].supersedes /\ k.delta = x
      BY <2>1, <3>0 DEF Card
    <3> HIDE DEF k
    <3>3. /\ UNCHANGED <<StatusView, TaskView, ReplacesView>>
          /\ AdviceView' = [AdviceView EXCEPT ![c] = x]
      BY <1>a, <2>1, <3>1, <3>2, ViewKept, ViewReplaced
    <3>4. StatusView[c] # "none" /\ AdviceView[c] = Placeholder
      BY <2>1, <3>1, CardView
    <3>5. Review!Settle(c)
      BY <2>1, <3>1, <3>3, <3>4 DEF Review!Settle, Review!Written
    <3>. QED  BY <3>5 DEF Review!Next
  <2>. QED  BY <2>2, <2>3
<1>5. ASSUME NEW v \in Replays, NEW good \in BOOLEAN, Record(v, good)
      PROVE  [Review!Next]_(Review!crVars)
  <2> DEFINE c == replaying[v].case
             o == replaying[v].override
             k == [card[c] EXCEPT !.evidence = [override |-> o, good |-> good]]
  <2>1. c \in Cases /\ o \in Overrides /\ card[c] \in Card
    BY <1>5, <1>a DEF Record, Running, CasesTypeOK, Replay, InHand
  <2>2. card' = [card EXCEPT ![c] = k] /\ proved' = IF good THEN proved \cup {o} ELSE proved
    BY <1>5 DEF Record
  <2>3. /\ k \in Card /\ k.status = card[c].status /\ k.sig = card[c].sig
        /\ k.supersedes = card[c].supersedes /\ k.delta = card[c].delta
    BY <2>1 DEF Card, Evidence
  <2> HIDE DEF c, o, k
  <2>4. UNCHANGED View
    BY <1>a, <2>1, <2>2, <2>3, ViewKept DEF View
  <2>5. CASE good
    <3>1. Review!Help
      BY <2>1, <2>2, <2>4, <2>5 DEF View, Review!Help
    <3>. QED  BY <3>1 DEF Review!Next
  <2>6. CASE ~good
    BY <1>0, <2>2, <2>4, <2>6
  <2>. QED  BY <2>5, <2>6
<1>6. ASSUME NEW c \in Cases, Promote(c)
      PROVE  [Review!Next]_(Review!crVars)
  <2> DEFINE old == card[c].supersedes
             k == [card[old] EXCEPT !.status = "superseded"]
  <2>1. card[c] \in Card /\ proved' = proved /\ card[c].delta \in proved
    <3>1. card[c] \in Card /\ proved' = proved /\ c \in Present
      BY <1>6, <1>b DEF Promote, Present
    <3>2. card[c].delta \in proved
      BY <1>6, <3>1, GatedHelps DEF Promote, EvidenceInv
    <3>. QED  BY <3>1, <3>2
  <2>2. CASE card' = card
    BY <1>0, <2>1, <2>2 DEF View, StatusView, TaskView, AdviceView, ReplacesView
  <2>3. CASE card' # card
    <3>1. old \in Present /\ card[old].status = "verified" /\ card' = [card EXCEPT ![old] = k]
      BY <1>6, <2>3 DEF Promote
    <3>2. old \in Cases /\ card[old] \in Card
      BY <1>b, <3>1
    <3>3. /\ k \in Card /\ k.status = "superseded" /\ k.sig = card[old].sig
          /\ k.supersedes = card[old].supersedes /\ k.delta = card[old].delta
      BY <3>2 DEF Card, Statuses
    <3>4. StatusView[old] = "verified"
      BY <3>1, <3>2, CardView
    <3>5. StatusView[c] # "none" /\ AdviceView[c] \in proved /\ ReplacesView[c] = old
      BY <2>1, CardView
    <3> HIDE DEF old, k
    <3>6. /\ UNCHANGED <<TaskView, AdviceView, ReplacesView>>
          /\ StatusView' = [StatusView EXCEPT ![old] = "superseded"]
      <4>1. UNCHANGED <<TaskView, AdviceView, ReplacesView>>
        BY <1>a, <3>1, <3>2, <3>3, ViewKept
      <4>2. StatusView' = [StatusView EXCEPT ![old] = k.status]
        BY <1>a, <3>1, <3>2, <3>3, ViewReplaced
      <4>. QED  BY <4>1, <4>2, <3>3
    <3>7. Review!Worthy(c)
      BY <3>5 DEF Review!Worthy, Review!Written
    <3>8. Review!Supersede(old)
      BY <2>1, <3>4, <3>5, <3>6, <3>7 DEF Review!Supersede
    <3>9. \E d \in Cases : Review!Supersede(d)
      BY <3>2, <3>8
    <3>10. Review!Next
      BY <3>9 DEF Review!Next
    <3>. QED  BY <3>10
  <2>. QED  BY <2>2, <2>3
<1>7. ASSUME SavePromoted
      PROVE  Review!Next
  <2> DEFINE c == promoting
             k == [held EXCEPT !.status = "verified"]
  <2>1. /\ c \in Cases /\ card[c] \in Card /\ held \in Card
        /\ held.sig = card[c].sig /\ held.supersedes = card[c].supersedes
        /\ held.delta = card[c].delta
    BY <1>7, <1>a DEF SavePromoted, CasesTypeOK, InHand
  <2>2. card[c].delta \in proved /\ Clear(c, held)
    BY <1>7, <2>1 DEF SavePromoted, EvidenceInv, RivalInv
  <2>3. card' = [card EXCEPT ![c] = k] /\ proved' = proved
    BY <1>7 DEF SavePromoted
  <2>4. /\ k \in Card /\ k.status = "verified" /\ k.sig = card[c].sig
        /\ k.supersedes = card[c].supersedes /\ k.delta = card[c].delta
    BY <2>1 DEF Card, Statuses
  <2>5. ASSUME NEW d \in Cases \ {c}, StatusView[d] = "verified", TaskView[d] = TaskView[c]
        PROVE  AdviceView[d] # AdviceView[c] /\ ReplacesView[c] # None
    <3>1. card[d] # None /\ card[d].status = "verified" /\ card[d] \in Card
      BY <1>a, <2>5 DEF StatusView, CasesTypeOK
    <3>2. d \in Verified /\ card[d].sig = held.sig
      BY <2>1, <2>5, <3>1, CardView DEF Verified, Present
    <3>3. card[d].delta # held.delta /\ held.supersedes # None
      BY <2>2, <2>5, <3>2 DEF Clear
    <3>. QED  BY <2>1, <3>1, <3>3, CardView
  <2>6. StatusView[c] # "none" /\ AdviceView[c] \in proved
    BY <2>1, <2>2, CardView
  <2> HIDE DEF c, k
  <2>7. /\ UNCHANGED <<TaskView, AdviceView, ReplacesView>>
        /\ StatusView' = [StatusView EXCEPT ![c] = "verified"]
    <3>1. UNCHANGED <<TaskView, AdviceView, ReplacesView>>
      BY <1>a, <2>1, <2>3, <2>4, ViewKept
    <3>2. StatusView' = [StatusView EXCEPT ![c] = k.status]
      BY <1>a, <2>1, <2>3, <2>4, ViewReplaced
    <3>. QED  BY <3>1, <3>2, <2>4
  <2>8. Review!Worthy(c)
    BY <2>6 DEF Review!Worthy, Review!Written
  <2>9. \A d \in Review!Rivals(c) : AdviceView[d] # AdviceView[c] /\ ReplacesView[c] # None
    BY <2>5 DEF Review!Rivals
  <2>10. Review!Verify(c)
    BY <2>3, <2>7, <2>8, <2>9 DEF Review!Verify
  <2>11. \E d \in Cases : Review!Verify(d)
    BY <2>1, <2>10
  <2>. QED  BY <2>11 DEF Review!Next
<1>8. ASSUME NEW c \in Cases, Reject(c)
      PROVE  Review!Next
  <2> DEFINE k == [card[c] EXCEPT !.status = "rejected"]
  <2>1. card[c] \in Card /\ proved' = proved /\ card' = [card EXCEPT ![c] = k]
    BY <1>8, <1>b DEF Reject, Present
  <2>2. /\ k \in Card /\ k.status = "rejected" /\ k.sig = card[c].sig
        /\ k.supersedes = card[c].supersedes /\ k.delta = card[c].delta
    BY <2>1 DEF Card, Statuses
  <2> HIDE DEF k
  <2>3. /\ UNCHANGED <<TaskView, AdviceView, ReplacesView>>
        /\ StatusView' = [StatusView EXCEPT ![c] = "rejected"]
    <3>1. UNCHANGED <<TaskView, AdviceView, ReplacesView>>
      BY <1>a, <2>1, <2>2, ViewKept
    <3>2. StatusView' = [StatusView EXCEPT ![c] = k.status]
      BY <1>a, <2>1, <2>2, ViewReplaced
    <3>. QED  BY <3>1, <3>2, <2>2
  <2>4. StatusView[c] # "none"
    BY <2>1, CardView
  <2>5. Review!Reject(c)
    BY <2>1, <2>3, <2>4 DEF Review!Reject, Review!Written
  <2>. QED  BY <2>5 DEF Review!Next
<1>9. CASE card' = card /\ proved' = proved
  BY <1>0, <1>9 DEF View, StatusView, TaskView, AdviceView, ReplacesView
<1>10. ASSUME ReplayApart
       PROVE  Review!Next
  <2>1. UNCHANGED View /\ \E o \in Overrides : proved' = proved \cup {o}
    BY <1>10 DEF ReplayApart, View, StatusView, TaskView, AdviceView, ReplacesView
  <2>2. Review!Help
    BY <2>1 DEF View, Review!Help
  <2>. QED  BY <2>2 DEF Review!Next
<1>. QED
  BY <1>10, <1>2, <1>3, <1>4, <1>5, <1>6, <1>7, <1>8, <1>9
     DEF Next, vars, RunFails, Propose, ReplayFails, PromotionDies, Edit

\* Promotions in two saves, long replays and processes that die add nothing a
\* user of the store could see: each step is one atomic decision of
\* CaseReview, justified at the moment it is taken, or no decision at all.
THEOREM ImplementsCaseReviewHolds == Spec => ImplementsCaseReview
<1>. QED
  BY TypeInit, TypeStep, EvidenceInit, EvidenceStep, RivalInit, RivalStep, ProposalInit,
     ProposalStep, ReviewInit, ReviewStep, PTL DEF Spec, ImplementsCaseReview, Review!Spec

(***************************************************************************)
(* Dependencies.  A dependency on record has the digest of an artifact,    *)
(* and it is compared with the digest of a file: the two never agree.      *)
(***************************************************************************)
OfArtifact(k) == k.dependency # None => k.dependency.by = "json"

DigestInv ==
  /\ \A c \in Present : OfArtifact(card[c])
  /\ \A p \in Proposers : proposing[p] # None => OfArtifact(proposing[p])
  /\ promoting # None => OfArtifact(held)

LEMMA DigestInit == Init => DigestInv
BY DEF Init, DigestInv, Present

\* A change of its status, its override or its evidence leaves the dependency.
LEMMA DependencyKept ==
  ASSUME NEW k \in Card, NEW x
  PROVE  /\ OfArtifact([k EXCEPT !.status = x]) <=> OfArtifact(k)
         /\ OfArtifact([k EXCEPT !.delta = x]) <=> OfArtifact(k)
         /\ OfArtifact([k EXCEPT !.evidence = x]) <=> OfArtifact(k)
BY DEF Card, OfArtifact

LEMMA DigestStep == TypeInv /\ DigestInv /\ [Next]_vars => DigestInv'
<1> SUFFICES ASSUME TypeInv, DigestInv, [Next]_vars PROVE DigestInv'
  OBVIOUS
<1> USE CasesAssumption
<1>a. CasesTypeOK /\ InHand
  BY DEF TypeInv
<1>b. \A c \in Present : card[c] \in Card /\ OfArtifact(card[c])
  BY <1>a DEF CasesTypeOK, Present, DigestInv
\* One card is replaced by one of which it holds too.
<1>0. ASSUME NEW c \in Cases, NEW k, OfArtifact(k), card' = [card EXCEPT ![c] = k]
      PROVE  \A d \in Present' : OfArtifact(card'[d])
  <2>1. \A d \in Cases : card'[d] = IF d = c THEN k ELSE card[d]
    BY <1>0, <1>a DEF CasesTypeOK
  <2>. QED  BY <1>0, <1>b, <2>1 DEF Present
<1>1. ASSUME card' = card
      PROVE  \A d \in Present' : OfArtifact(card'[d])
  BY <1>1, <1>b DEF Present
<1>2. ASSUME NEW p \in Proposers, NEW r \in Runs, Propose(p, r)
      PROVE  DigestInv'
  <2>1. OfArtifact(NewCard(r))
    BY DEF OfArtifact, NewCard, ArtifactDigest
  <2>. QED  BY <1>1, <1>2, <1>a, <2>1 DEF Propose, DigestInv, CasesTypeOK
<1>3. ASSUME NEW p \in Proposers, SaveProposal(p)
      PROVE  DigestInv'
  <2>1. OfArtifact(proposing[p])
    BY <1>3 DEF SaveProposal, DigestInv
  <2>2. \A d \in Present' : OfArtifact(card'[d])
    BY <1>0, <1>3, <2>1 DEF SaveProposal
  <2>. QED  BY <1>3, <1>a, <2>2 DEF SaveProposal, DigestInv, CasesTypeOK
<1>4. ASSUME NEW c \in Cases, Author(c)
      PROVE  DigestInv'
  <2>1. \A d \in Cases : d # c => card'[d] = card[d]
    BY <1>4, <1>a DEF Author, CasesTypeOK
  <2>2. card'[c].dependency = None
    BY <1>4, <1>a DEF Author, CasesTypeOK
  <2>3. \A d \in Present' : OfArtifact(card'[d])
    BY <1>b, <2>1, <2>2 DEF OfArtifact, Present
  <2>. QED  BY <1>4, <2>3 DEF Author, DigestInv
<1>5. ASSUME NEW v \in Replays, NEW c \in Cases, NEW o \in Overrides, StartReplay(v, c, o)
      PROVE  DigestInv'
  <2>1. c \in Present
    BY <1>5 DEF StartReplay, Present
  <2>2. OfArtifact([card[c] EXCEPT !.delta = Settled(o)])
    BY <1>b, <2>1, DependencyKept
  <2>3. card' = card \/ card' = [card EXCEPT ![c] = [card[c] EXCEPT !.delta = Settled(o)]]
    BY <1>5 DEF StartReplay
  <2>4. \A d \in Present' : OfArtifact(card'[d])
    BY <1>0, <1>1, <2>2, <2>3
  <2>. QED  BY <1>5, <2>4 DEF StartReplay, DigestInv
<1>6. ASSUME NEW v \in Replays, NEW good \in BOOLEAN, Record(v, good)
      PROVE  DigestInv'
  <2> DEFINE c == replaying[v].case
             e == [override |-> replaying[v].override, good |-> good]
  <2>1. c \in Present
    BY <1>6, <1>a DEF Record, Running, CasesTypeOK, Replay, InHand, Present
  <2>2. card' = [card EXCEPT ![c] = [card[c] EXCEPT !.evidence = e]]
    BY <1>6 DEF Record
  <2> HIDE DEF c, e
  <2>3. OfArtifact([card[c] EXCEPT !.evidence = e]) /\ c \in Cases
    BY <1>b, <2>1, DependencyKept DEF Present
  <2>4. \A d \in Present' : OfArtifact(card'[d])
    BY <1>0, <2>2, <2>3
  <2>. QED  BY <1>6, <2>4 DEF Record, DigestInv
<1>7. ASSUME NEW c \in Cases, Promote(c)
      PROVE  DigestInv'
  <2>1. c \in Present /\ held' = card[c]
    BY <1>7 DEF Promote, Present
  <2>2. \A d \in Present' : OfArtifact(card'[d])
    <3>1. CASE card' = card
      BY <1>1, <3>1
    <3>2. CASE card' # card
      <4> DEFINE old == card[c].supersedes
      <4>1. old \in Present /\ card' = [card EXCEPT ![old] = [card[old] EXCEPT !.status = "superseded"]]
        BY <1>7, <3>2 DEF Promote
      <4> HIDE DEF old
      <4>2. OfArtifact([card[old] EXCEPT !.status = "superseded"]) /\ old \in Cases
        BY <1>b, <4>1, DependencyKept DEF Present
      <4>. QED  BY <1>0, <4>1, <4>2
    <3>. QED  BY <3>1, <3>2
  <2>3. OfArtifact(held')
    BY <1>b, <2>1
  <2>. QED  BY <1>7, <2>2, <2>3 DEF Promote, DigestInv
<1>8. CASE SavePromoted
  <2>1. held \in Card /\ OfArtifact(held) /\ promoting \in Cases
    BY <1>8, <1>a DEF SavePromoted, InHand, CasesTypeOK, DigestInv
  <2>2. OfArtifact([held EXCEPT !.status = "verified"])
    BY <2>1, DependencyKept
  <2>3. \A d \in Present' : OfArtifact(card'[d])
    BY <1>0, <1>8, <2>1, <2>2 DEF SavePromoted
  <2>. QED  BY <1>8, <2>3 DEF SavePromoted, DigestInv
<1>9. ASSUME NEW c \in Cases, Reject(c)
      PROVE  DigestInv'
  <2>1. OfArtifact([card[c] EXCEPT !.status = "rejected"])
    BY <1>9, <1>b, DependencyKept DEF Reject, Present
  <2>2. \A d \in Present' : OfArtifact(card'[d])
    BY <1>0, <1>9, <2>1 DEF Reject
  <2>. QED  BY <1>9, <2>2 DEF Reject, DigestInv
<1>10. ASSUME UNCHANGED <<card, proposing>>, UNCHANGED <<promoting, held>> \/ promoting' = None
       PROVE  DigestInv'
  BY <1>1, <1>10 DEF DigestInv
<1>11. ASSUME \/ \E r \in Runs : RunFails(r)
              \/ \E v \in Replays : ReplayFails(v)
              \/ PromotionDies \/ Edit \/ ReplayApart \/ UNCHANGED vars
       PROVE  DigestInv'
  BY <1>10, <1>11 DEF ReplayApart, RunFails, ReplayFails, PromotionDies, Edit, vars
<1>. QED  BY <1>2, <1>3, <1>4, <1>5, <1>6, <1>7, <1>8, <1>9, <1>11 DEF Next

\* What assess_freshness passes depends on no file.
FreshWithoutDependency ==
  \A c \in Present : StaleReasons(card[c]) = {} => card[c].dependency = None

\* Every card that records a dependency is reported as changed in every
\* workspace, the one its run left included, and so is never injected: the
\* only fresh cards are those a person wrote and those of runs that changed
\* nothing (cases.py:98 and 111).  StaleDependencies.cfg shows one such card;
\* this is all of them.
THEOREM OnlyDependencyFreeIsFresh == Spec => []FreshWithoutDependency
<1>1. DigestInv => FreshWithoutDependency
  <2> SUFFICES ASSUME DigestInv, NEW c \in Present, card[c].dependency # None
               PROVE  StaleReasons(card[c]) # {}
    BY DEF FreshWithoutDependency
  <2>1. card[c].dependency.by = "json"
    BY DEF DigestInv, OfArtifact
  <2>2. FileDigest(workspace).by = "bytes"
    BY DEF FileDigest
  <2>3. card[c].dependency # FileDigest(workspace)
    BY <2>1, <2>2
  <2>. QED  BY <2>3 DEF StaleReasons
<1>. QED  BY <1>1, TypeInit, TypeStep, DigestInit, DigestStep, PTL DEF Spec
=============================================================================
