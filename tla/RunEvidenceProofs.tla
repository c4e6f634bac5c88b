---- MODULE RunEvidenceProofs ----
(***************************************************************************)
(* Proofs about ToolRegistry, and on top of them about RunEvidence, for    *)
(* any files, spellings, contents, configuration and number of calls,      *)
(* damages and edits: what the run says it changed, what memory shows of   *)
(* it, what its artifacts hold, and what a replay ran on.                  *)
(***************************************************************************)
EXTENDS RunEvidence, SequenceTheorems, FiniteSetTheorems, TLAPS

----------------------------------------------------------------------------
(***************************************************************************)
(* What a stored bundle holds.                                             *)
(***************************************************************************)
Artifacts == Cardinality(Recorded)
Orders ==
    {order \in [1 .. Artifacts -> Recorded] : \A f \in Recorded : \E i \in 1 .. Artifacts : order[i] = f}

\* The event the run stores at a place.
Expected(order, outcome, m) ==
    IF m = 1 THEN Event("run", Outside, "true", m)
    ELSE IF m = 2 THEN Event("state_patch", Outside, "true", m)
    ELSE IF m <= Artifacts + 2 THEN Event("artifact", order[m - 2], Redact(artifact[order[m - 2]]), m)
    ELSE IF m = Artifacts + 3 THEN Event("report", Outside, "true", m)
    ELSE Event("verifier", Outside, outcome, m)

\* An event altered in what is compared of it, or in the rest.
Spoiled(event) == [event EXCEPT !.text = Garbled]
Marred(event) == [event EXCEPT !.rest = Garbled]
Versions(event) == {event, Spoiled(event), Marred(event), Marred(Spoiled(event))}
Storable(order) == UNION {Versions(Expected(order, verdict, m)) : m \in 1 .. Artifacts + 4}
Undamaged(order) ==
    Len(trace) = Artifacts + 4 /\ \A m \in 1 .. Artifacts + 4 : trace[m] = Expected(order, verdict, m)

LEMMA RecordedFinite == ASSUME IsFiniteSet(Recorded) PROVE Artifacts \in Nat
  BY FS_CardinalityType DEF Artifacts

\* What the run stores is what is expected.
LEMMA TailExpected ==
  ASSUME IsFiniteSet(Recorded), NEW order \in Orders, NEW outcome
  PROVE  LET T == Tail4(order, outcome)
         IN  /\ T \in Seq({Expected(order, outcome, m) : m \in 1 .. Artifacts + 4})
             /\ Len(T) = Artifacts + 4
             /\ \A m \in 1 .. Artifacts + 4 : T[m] = Expected(order, outcome, m)
<1> DEFINE n == Artifacts
           E(m) == Expected(order, outcome, m)
           S == {E(m) : m \in 1 .. n + 4}
           first == <<Event("run", Outside, "true", 1), Event("state_patch", Outside, "true", 2)>>
           middle == [i \in 1 .. n |-> Event("artifact", order[i], Redact(artifact[order[i]]), i + 2)]
           last == <<Event("report", Outside, "true", n + 3), Event("verifier", Outside, outcome, n + 4)>>
<1>1. n \in Nat
  BY RecordedFinite
<1>2. first \in Seq(S) /\ Len(first) = 2 /\ first[1] = E(1) /\ first[2] = E(2)
  <2>1. E(1) = Event("run", Outside, "true", 1) /\ E(2) = Event("state_patch", Outside, "true", 2)
    BY DEF Expected
  <2>2. E(1) \in S /\ E(2) \in S
    BY <1>1
  <2> HIDE DEF S, E
  <2> QED  BY <2>1, <2>2
<1>3. middle \in Seq(S) /\ Len(middle) = n /\ \A i \in 1 .. n : middle[i] = E(i + 2)
  <2>1. \A i \in 1 .. n : middle[i] = E(i + 2)
    BY <1>1 DEF Expected
  <2>2. \A i \in 1 .. n : E(i + 2) \in S
    BY <1>1
  <2> HIDE DEF S, E
  <2> QED  BY <1>1, <2>1, <2>2
<1>4. last \in Seq(S) /\ Len(last) = 2 /\ last[1] = E(n + 3) /\ last[2] = E(n + 4)
  <2>1. /\ E(n + 3) = Event("report", Outside, "true", n + 3)
        /\ E(n + 4) = Event("verifier", Outside, outcome, n + 4)
    BY <1>1 DEF Expected
  <2>2. E(n + 3) \in S /\ E(n + 4) \in S
    BY <1>1
  <2> HIDE DEF S, E
  <2> QED  BY <2>1, <2>2
<1>5. Tail4(order, outcome) = (first \o middle) \o last
  BY DEF Tail4, Artifacts
<1> HIDE DEF first, middle, last, S
<1>6. /\ first \o middle \in Seq(S) /\ Len(first \o middle) = n + 2
      /\ \A m \in 1 .. n + 2 : (first \o middle)[m] = E(m)
  <2>1. /\ first \o middle \in Seq(S) /\ Len(first \o middle) = 2 + n
        /\ \A i \in 1 .. 2 + n : (first \o middle)[i] = IF i <= 2 THEN first[i] ELSE middle[i - 2]
    <3>1. first \in Seq(S) /\ middle \in Seq(S) /\ Len(first) = 2 /\ Len(middle) = n
      BY <1>2, <1>3
    <3>2. /\ first \o middle \in Seq(S) /\ Len(first \o middle) = Len(first) + Len(middle)
          /\ \A i \in 1 .. Len(first) + Len(middle) :
               (first \o middle)[i] = IF i <= Len(first) THEN first[i] ELSE middle[i - Len(first)]
      BY <3>1, ConcatProperties
    <3> QED  BY <3>1, <3>2
  <2> HIDE DEF E
  <2>2. ASSUME NEW m \in 1 .. n + 2 PROVE (first \o middle)[m] = E(m)
    <3>1. CASE m <= 2
      BY <1>1, <1>2, <2>1, <3>1
    <3>2. CASE m > 2
      <4>1. m - 2 \in 1 .. n /\ (m - 2) + 2 = m /\ m \in 1 .. 2 + n /\ ~(m <= 2)
        BY <1>1, <3>2
      <4>2. (first \o middle)[m] = middle[m - 2]
        BY <2>1, <4>1
      <4>3. middle[m - 2] = E((m - 2) + 2)
        BY <1>3, <4>1
      <4>4. E((m - 2) + 2) = E(m)
        BY <4>1
      <4> QED  BY <4>2, <4>3, <4>4
    <3>3. m <= 2 \/ m > 2
      BY <1>1
    <3> QED  BY <3>1, <3>2, <3>3
  <2> QED  BY <1>1, <2>1, <2>2
<1>7. LET T == (first \o middle) \o last
      IN  /\ T \in Seq(S) /\ Len(T) = (n + 2) + 2
          /\ \A i \in 1 .. (n + 2) + 2 :
               T[i] = IF i <= n + 2 THEN (first \o middle)[i] ELSE last[i - (n + 2)]
  <2> DEFINE front == first \o middle
  <2>1. front \in Seq(S) /\ last \in Seq(S) /\ Len(front) = n + 2 /\ Len(last) = 2
    BY <1>4, <1>6
  <2> HIDE DEF front
  <2>2. /\ front \o last \in Seq(S) /\ Len(front \o last) = Len(front) + Len(last)
        /\ \A i \in 1 .. Len(front) + Len(last) :
             (front \o last)[i] = IF i <= Len(front) THEN front[i] ELSE last[i - Len(front)]
    BY <2>1, ConcatProperties
  <2>3. /\ front \o last \in Seq(S) /\ Len(front \o last) = (n + 2) + 2
        /\ \A i \in 1 .. (n + 2) + 2 : (front \o last)[i] = IF i <= n + 2 THEN front[i] ELSE last[i - (n + 2)]
    BY <2>1, <2>2
  <2> QED  BY <2>3 DEF front
<1>8. ASSUME NEW m \in 1 .. n + 4 PROVE ((first \o middle) \o last)[m] = E(m)
  <2> HIDE DEF E
  <2>1. CASE m <= n + 2
    BY <1>1, <1>6, <1>7, <2>1
  <2>2. CASE m = n + 3
    <3>1. m - (n + 2) = 1
      BY <1>1, <2>2
    <3> QED  BY <1>1, <1>4, <1>7, <2>2, <3>1
  <2>3. CASE m = n + 4
    <3>1. m - (n + 2) = 2
      BY <1>1, <2>3
    <3> QED  BY <1>1, <1>4, <1>7, <2>3, <3>1
  <2>4. m <= n + 2 \/ m = n + 3 \/ m = n + 4
    BY <1>1
  <2> QED  BY <2>1, <2>2, <2>3, <2>4
<1>9. (n + 2) + 2 = n + 4
  BY <1>1
<1> QED  BY <1>5, <1>7, <1>8, <1>9 DEF S

\* In a contiguous bundle the sequence numbers are those up to its length,
\* each of one event.
LEMMA ContiguousOnce ==
  ASSUME NEW S, trace \in Seq(S), Contiguous
  PROVE  /\ \A i \in 1 .. Len(trace) : trace[i].sequence \in 1 .. Len(trace)
         /\ \A i, j \in 1 .. Len(trace) : trace[i].sequence = trace[j].sequence => i = j
<1> DEFINE L == Len(trace)
           I == 1 .. L
           N == {trace[i].sequence : i \in I}
           f == [i \in I |-> trace[i].sequence]
<1>1. L \in Nat
  BY LenProperties
<1>2. f \in Surjection(I, N)
  BY DEF Surjection
<1>3. I \subseteq N
  BY DEF Contiguous
<1>4. IsFiniteSet(I)
  <2> HIDE DEF L
  <2> QED  BY <1>1, FS_Interval
<1> HIDE DEF I, N, f
<1>5. IsFiniteSet(N) /\ Cardinality(N) <= Cardinality(I) /\ (Cardinality(N) = Cardinality(I) <=> f \in Injection(I, N))
  BY <1>2, <1>4, FS_Surjection
<1>6. Cardinality(I) <= Cardinality(N) /\ (Cardinality(N) = Cardinality(I) => N = I)
  BY <1>3, <1>5, FS_Subset
<1>7. Cardinality(I) \in Nat /\ Cardinality(N) \in Nat
  BY <1>4, <1>5, FS_CardinalityType
<1>8. N = I /\ f \in Injection(I, N)
  BY <1>5, <1>6, <1>7
<1>9. \A i \in I : trace[i].sequence \in I
  BY <1>8 DEF N
<1>10. \A i, j \in I : trace[i].sequence = trace[j].sequence => i = j
  BY <1>8, Zenon DEF f, Injection, IsInjective
<1> QED  BY <1>9, <1>10 DEF I
----------------------------------------------------------------------------
(***************************************************************************)
(* The tools by themselves.                                                *)
(***************************************************************************)
USE ToolAssumption

RecentDistinct ==
    /\ Len(recent) <= MaxRecent
    /\ \A i, j \in 1 .. Len(recent) : recent[i] = recent[j] => i = j

SummariesTrue ==
    \A s \in Spellings :
      summary[s] # Unknown /\ s \notin behind => summary[s] = content[Canon[s]]

\* There are summaries of files of the workspace only, and with memory only.
SummariesResolve ==
    \A s \in Spellings : summary[s] # Unknown => Canon[s] \in Files /\ setup.memory

\* Runs whose every changing call is refused.
Barred == setup.depth > 0 \/ (setup.policy # "never" /\ ~setup.approver)

MemoryInv == RecentDistinct /\ SummariesTrue /\ SummariesResolve
ChangesInv == ChangesAccounted /\ (Barred => ~shelled)
ToolCore == ToolTypeOK /\ MemoryInv
ToolInv == ToolCore /\ ChangesInv

\* What every call keeps, whether or not a command outside the tools ran before.
ToolsKept == ToolCore' /\ (ChangesInv => ChangesInv')

\* Taking the first occurrence of a path out of a list that names no path
\* twice leaves the other paths, in a list that names none twice.
LEMMA OthersDistinct ==
  ASSUME recent \in Seq(Spellings), RecentDistinct, NEW s \in Spellings
  PROVE  /\ Others(s) \in Seq(Spellings)
         /\ Len(Others(s)) <= MaxRecent
         /\ \A i \in 1 .. Len(Others(s)) : Others(s)[i] # s
         /\ \A i, j \in 1 .. Len(Others(s)) : Others(s)[i] = Others(s)[j] => i = j
<1>1. CASE \A i \in 1 .. Len(recent) : recent[i] # s
  BY <1>1 DEF Others, RecentDistinct
<1>2. CASE \E i \in 1 .. Len(recent) : recent[i] = s
  <2>1. PICK i \in 1 .. Len(recent) : recent[i] = s
    BY <1>2
  <2>2. \A j \in 1 .. Len(recent) : recent[j] = s => j = i
    BY <2>1 DEF RecentDistinct
  <2> DEFINE rest == [j \in 1 .. Len(recent) - 1 |-> recent[IF j < i THEN j ELSE j + 1]]
  <2>3. Others(s) = rest
    <3>1. \E k \in 1 .. Len(recent) : recent[k] = s /\ \A j \in 1 .. k - 1 : recent[j] # s
      BY <2>1, <2>2
    <3>2. (CHOOSE k \in 1 .. Len(recent) :
             recent[k] = s /\ \A j \in 1 .. k - 1 : recent[j] # s) = i
      BY <2>2, <3>1
    <3> QED  BY <2>1, <3>2, Zenon DEF Others
  <2>4. Len(recent) \in Nat /\ Len(recent) - 1 \in Nat
    BY <2>1
  <2>5. \A j \in 1 .. Len(recent) - 1 :
          /\ rest[j] = recent[IF j < i THEN j ELSE j + 1]
          /\ (IF j < i THEN j ELSE j + 1) \in (1 .. Len(recent)) \ {i}
          /\ rest[j] \in Spellings
    BY <2>1, <2>4
  <2>6. rest \in Seq(Spellings) /\ Len(rest) = Len(recent) - 1
    BY <2>4, <2>5
  <2>7. \A j \in 1 .. Len(rest) : rest[j] # s
    BY <2>2, <2>5, <2>6
  <2>8. \A j, k \in 1 .. Len(rest) : rest[j] = rest[k] => j = k
    BY <2>5, <2>6 DEF RecentDistinct
  <2> HIDE DEF rest
  <2> QED  BY <2>3, <2>4, <2>6, <2>7, <2>8 DEF RecentDistinct
<1> QED  BY <1>1, <1>2

LEMMA RememberKeeps ==
  ASSUME recent \in Seq(Spellings), RecentDistinct, NEW s \in Spellings, Remember(s)
  PROVE  recent' \in Seq(Spellings) /\ RecentDistinct'
<1> DEFINE kept == Append(Others(s), s)
<1>1. /\ kept \in Seq(Spellings) /\ Len(kept) <= MaxRecent + 1
      /\ \A i, j \in 1 .. Len(kept) : kept[i] = kept[j] => i = j
  BY OthersDistinct
<1>2. CASE recent' = recent
  BY <1>2 DEF RecentDistinct
<1>3. CASE recent' = kept /\ Len(kept) <= MaxRecent
  BY <1>1, <1>3 DEF RecentDistinct
<1>4. CASE recent' = Tail(kept) /\ Len(kept) > MaxRecent
  <2> HIDE DEF kept
  <2>1. Len(kept) \in Nat /\ kept # <<>>
    BY <1>1, <1>4
  <2>2. /\ Tail(kept) \in Seq(Spellings) /\ Len(Tail(kept)) = Len(kept) - 1
        /\ \A i \in 1 .. Len(kept) - 1 : Tail(kept)[i] = kept[i + 1]
    BY <1>1, <2>1
  <2> QED  BY <1>1, <1>4, <2>1, <2>2 DEF RecentDistinct
<1> HIDE DEF kept
<1> QED  BY <1>1, <1>2, <1>3, <1>4 DEF Remember, kept

\* What can be changed, can be changed in this run.
LEMMA HighRiskFree ==
  ASSUME ToolTypeOK, NEW t \in HighRisk, Admitted(t)
  PROVE  ~Barred
<1>1. setup \in Setups /\ setup.depth \in 0 .. 1 /\ setup.policy \in {"never", "on-risk", "always"}
  BY DEF ToolTypeOK
<1>2. t \notin ReadOnly
  BY DEF HighRisk, ReadOnly
<1> QED  BY <1>1, <1>2 DEF Admitted, Names, Approved, Barred

LEMMA ResolvedFile ==
  ASSUME NEW s \in Spellings, Resolved(s) \in Files
  PROVE  Canon[s] = Resolved(s)
  BY DEF Resolved

\* Calls that leave the workspace and memory alone.
LEMMA QuietKeeps ==
  ASSUME ToolCore, calls' \in 0 .. MaxCalls,
         UNCHANGED <<setup, original, content, affected, shelled, strays, recent, summary, behind>>,
         folder' \in SUBSET Files
  PROVE  ToolsKept
  BY DEF ToolsKept, ToolCore, ToolTypeOK, ChangesInv, ChangesAccounted, MemoryInv, RecentDistinct,
         SummariesTrue, SummariesResolve, Barred, InScope

\* read_file summarises the file as it is.
LEMMA ReadKeeps ==
  ASSUME ToolCore, NEW s \in Spellings, ReadFile(s)
  PROVE  ToolsKept
<1>1. Resolved(s) \in Files /\ Canon[s] = Resolved(s) /\ content[Canon[s]] \in Contents
  BY ResolvedFile DEF ReadFile, ToolCore, ToolTypeOK
<1>2. /\ UNCHANGED <<setup, original, content, folder, affected, shelled, strays>>
      /\ calls' \in 0 .. MaxCalls
      /\ summary' = IF setup.memory THEN [summary EXCEPT ![s] = content[Canon[s]]] ELSE summary
      /\ behind' = behind \ {s}
  BY <1>1 DEF ReadFile, Call, ToolCore, ToolTypeOK
<1>3. recent' \in Seq(Spellings) /\ RecentDistinct'
  BY RememberKeeps DEF ReadFile, ToolCore, ToolTypeOK, MemoryInv
<1>4. ToolTypeOK'
  BY <1>1, <1>2, <1>3 DEF ToolCore, ToolTypeOK
<1>5. ChangesInv => ChangesInv'
  BY <1>2 DEF ToolCore, ChangesInv, ChangesAccounted, Barred, InScope
<1>6. SummariesTrue' /\ SummariesResolve'
  BY <1>1, <1>2 DEF ToolCore, ToolTypeOK, MemoryInv, SummariesTrue, SummariesResolve
<1> QED  BY <1>3, <1>4, <1>5, <1>6 DEF ToolsKept, ToolCore, MemoryInv

\* A write accounts for its file and drops what memory held of it.
LEMMA WriteKeeps ==
  ASSUME ToolCore, NEW s \in Spellings, NEW c \in Contents, Resolved(s) \in Files,
         InScope(Resolved(s)), ~Barred, Write(Resolved(s), c), Invalidate(s),
         calls' \in 0 .. MaxCalls, folder' \in SUBSET Files
  PROVE  ToolsKept
<1>1. Canon[s] = Resolved(s)
  BY ResolvedFile
<1>2. /\ content' = [content EXCEPT ![Canon[s]] = c] /\ affected' = affected \cup {Canon[s]}
      /\ UNCHANGED <<setup, original, shelled, strays>>
      /\ summary' = IF setup.memory THEN [summary EXCEPT ![s] = Unknown] ELSE summary
      /\ behind' = (behind \cup SameFile(s)) \ {s}
  BY <1>1 DEF Write, Invalidate
<1>3. recent' \in Seq(Spellings) /\ RecentDistinct'
  BY RememberKeeps DEF Invalidate, ToolCore, ToolTypeOK, MemoryInv
<1>4. ToolTypeOK'
  BY <1>1, <1>2, <1>3 DEF ToolCore, ToolTypeOK, SameFile
<1>5. ChangesInv => ChangesInv'
  BY <1>1, <1>2 DEF ToolCore, ToolTypeOK, ChangesInv, ChangesAccounted, Barred, InScope
<1>6. SummariesTrue' /\ SummariesResolve'
  BY <1>1, <1>2 DEF ToolCore, ToolTypeOK, MemoryInv, SummariesTrue, SummariesResolve, SameFile
<1> QED  BY <1>3, <1>4, <1>5, <1>6 DEF ToolsKept, ToolCore, MemoryInv

\* A change by another process is one a shell command accounts for.
LEMMA ForeignKeeps ==
  ASSUME ToolCore, NEW f \in Files, Foreign(f), ChangesInv => ~Barred /\ shelled' = TRUE,
         shelled' \in BOOLEAN, strays' \in BOOLEAN,
         calls' \in 0 .. MaxCalls, UNCHANGED <<setup, original, affected, recent, summary>>
  PROVE  ToolsKept
<1>1. PICK c \in Contents \cup {Absent} : content' = [content EXCEPT ![f] = c]
  BY DEF Foreign
<1>2. ToolTypeOK'
  BY <1>1 DEF ToolCore, ToolTypeOK, Foreign
<1>3. ChangesInv => ChangesInv'
  BY DEF ChangesInv, ChangesAccounted, Barred
<1>4. MemoryInv'
  BY <1>1 DEF ToolCore, ToolTypeOK, MemoryInv, RecentDistinct, SummariesTrue, SummariesResolve,
              Foreign
<1> QED  BY <1>2, <1>3, <1>4 DEF ToolsKept, ToolCore

LEMMA ToolStep == ToolCore /\ [ToolNext]_toolvars => ToolsKept
<1> SUFFICES ASSUME ToolCore, [ToolNext]_toolvars PROVE ToolsKept
    OBVIOUS
<1>1. ASSUME NEW t \in Tools, Refuse(t) \/ Look(t) PROVE ToolsKept
  BY <1>1, QuietKeeps DEF Refuse, Look, Call, ToolCore, ToolTypeOK
<1>2. ASSUME NEW s \in Spellings, ReadFile(s) PROVE ToolsKept
  BY <1>2, ReadKeeps
<1>3. ASSUME NEW s \in Spellings, NEW c \in Contents, WriteFile(s, c) PROVE ToolsKept
  <2>1. calls' \in 0 .. MaxCalls /\ folder' \in SUBSET Files /\ ~Barred /\ Resolved(s) \in Files
    BY <1>3, HighRiskFree DEF WriteFile, Call, ToolCore, ToolTypeOK, HighRisk
  <2>2. CASE InScope(Resolved(s)) /\ Write(Resolved(s), c) /\ Invalidate(s)
    BY <2>1, <2>2, WriteKeeps
  <2>3. CASE UNCHANGED <<setup, original, content, affected, shelled, strays, recent, summary,
                         behind>>
    BY <2>1, <2>3, QuietKeeps
  <2> QED  BY <1>3, <2>2, <2>3 DEF WriteFile
<1>4. ASSUME NEW s \in Spellings, NEW c \in Contents, PatchFile(s, c) PROVE ToolsKept
  <2>1. calls' \in 0 .. MaxCalls /\ folder' \in SUBSET Files /\ ~Barred /\ Resolved(s) \in Files
    BY <1>4, HighRiskFree DEF PatchFile, Call, ToolCore, ToolTypeOK, HighRisk
  <2> QED  BY <1>4, <2>1, WriteKeeps DEF PatchFile
<1>5. ASSUME NEW f \in Files, NEW t \in BOOLEAN, RunShell(f, t) PROVE ToolsKept
  <2>1. calls' \in 0 .. MaxCalls /\ ~Barred /\ strays' \in BOOLEAN
    BY <1>5, HighRiskFree DEF RunShell, Call, ToolCore, ToolTypeOK, HighRisk
  <2> QED  BY <1>5, <2>1, ForeignKeeps DEF RunShell
<1>6. ASSUME NEW f \in Files, StrayWrites(f) PROVE ToolsKept
  BY <1>6, ForeignKeeps DEF StrayWrites, ToolCore, ToolTypeOK, ChangesInv, ChangesAccounted
<1>7. CASE UNCHANGED toolvars
  BY <1>7, QuietKeeps DEF toolvars, ToolCore, ToolTypeOK
<1> QED  BY <1>1, <1>2, <1>3, <1>4, <1>5, <1>6, <1>7 DEF ToolNext

LEMMA ToolInvStep == ToolInv /\ [ToolNext]_toolvars => ToolInv'
  BY ToolStep DEF ToolsKept, ToolInv

LEMMA ToolStart == ToolInit => ToolInv
<1> SUFFICES ASSUME ToolInit PROVE ToolInv
    OBVIOUS
<1>1. ToolTypeOK
  <2>1. original \in [Files -> Contents \cup {Absent}] /\ content = original
    BY Zenon DEF ToolInit
  <2>2. recent = <<>> /\ summary = [s \in Spellings |-> Unknown] /\ behind = {}
    BY DEF ToolInit
  <2>3. /\ setup \in Setups /\ folder \subseteq Files /\ affected = {}
        /\ shelled = FALSE /\ strays = FALSE /\ calls = 0
    BY DEF ToolInit
  <2>4. recent \in Seq(Spellings) /\ calls \in 0 .. MaxCalls
    BY <2>2, <2>3
  <2>5. summary \in [Spellings -> Contents \cup {Unknown}]
    BY <2>2
  <2> QED  BY <2>1, <2>2, <2>3, <2>4, <2>5, Zenon DEF ToolTypeOK
<1>2. ChangesInv
  BY DEF ToolInit, ChangesInv, ChangesAccounted
<1>3. MemoryInv
  BY DEF ToolInit, MemoryInv, RecentDistinct, SummariesTrue, SummariesResolve
<1> QED  BY <1>1, <1>2, <1>3 DEF ToolInv, ToolCore

\* For any files, spellings, contracts and calls: a file changes only where
\* the run says so within the contract's write scope, or a shell command ran,
\* and a run whose changes all need an absent approver, or a delegated one,
\* changes nothing (ToolRegistry.run, _approve, _check_write_path).
THEOREM ChangesAreAccounted == ToolSpec => []ChangesAccounted
<1>1. ToolInv => ChangesAccounted
  BY DEF ToolInv, ChangesInv
<1> QED  BY <1>1, ToolStart, ToolInvStep, PTL DEF ToolSpec

\* Memory never shows a file as it no longer is but for a change by a shell
\* command or under another spelling, and lists no path twice
\* (LayeredMemory.after_tool, remember_file, invalidate_file).
THEOREM MemoryIsFresh == ToolSpec => []MemoryFresh
<1>1. ToolInv => MemoryFresh
  BY DEF ToolInv, ToolCore, MemoryInv, MemoryFresh, RecentDistinct, SummariesTrue
<1> QED  BY <1>1, ToolStart, ToolInvStep, PTL DEF ToolSpec

----------------------------------------------------------------------------
(***************************************************************************)
(* The run, its evidence and its replay.                                   *)
(***************************************************************************)
USE EvidenceAssumption

Phases == {"running", "stored", "judged", "copying", "copied", "replayed", "mismatch"}

OwnTypes ==
    /\ phase \in Phases
    /\ mode \in Modes /\ checked \in BOOLEAN /\ legacy \in BOOLEAN
    /\ artifact \in [Files -> Contents \cup {Unknown}]
    /\ verdict \in {"passed", "failed", "not_configured"}
    /\ damages \in 0 .. MaxDamages /\ edits \in 0 .. MaxEdits
    /\ judged \in {"none", "error", "consistent", "inconsistent"}
    /\ override \in SUBSET Settings /\ DOMAIN used = Settings
    /\ before \in [Files -> Contents \cup {Absent, Unknown}]
    /\ copy \in [Files -> Contents \cup {Absent, Unknown}]

\* Before a replay only the run, its verifier and strays change the workspace.
Quiet == phase \in {"running", "stored", "judged"} => edits = 0

\* The tools: what ToolStep keeps, but for the edits of others and the
\* commands of the verifier; strays are of the one or the other.
ToolsInv ==
    /\ ToolCore
    /\ edits = 0 /\ ~checked => ChangesInv
    /\ strays => shelled \/ checked

\* The digest of the source, the copy, and one edit.
CopyInv ==
    phase \in {"copying", "copied", "replayed"} =>
      /\ edits = 0 => content = before /\ \A f \in Files : copy[f] \in {Unknown, before[f]}
      /\ edits = 1 => content # before
      /\ phase # "copying" => \A f \in Files : copy[f] # Unknown

\* Nothing is copied before the digest.
Uncopied == phase \in {"running", "stored", "judged"} => \A f \in Files : copy[f] = Unknown

SettingsInv ==
    phase \in {"copied", "replayed"} =>
      \A k \in Settings : used[k] # mode[k] =>
         k \in override \/ (k # "provider" /\ mode[k] # Usual[k])

EvidenceInv ==
    /\ OwnTypes /\ Quiet /\ ToolsInv
    /\ Uncopied /\ CopyInv /\ SettingsInv /\ ArtifactsCurrent

\* Processes are left by a shell command only, and what ran has run.
LEMMA ToolsCommand ==
  ASSUME [ToolNext]_toolvars, ToolTypeOK
  PROVE  (shelled => shelled') /\ (strays' => strays \/ shelled')
  BY DEF ToolNext, toolvars, Refuse, Look, ReadFile, WriteFile, PatchFile, Write, RunShell,
         StrayWrites

\* While the run runs the tools keep what ToolStep says they keep.
LEMMA ToolsKeep ==
  ASSUME OwnTypes, Quiet, ToolsInv, phase = "running", [ToolNext]_toolvars,
         UNCHANGED <<edits, checked>>
  PROVE  ToolsInv'
<1>1. (shelled => shelled') /\ (strays' => strays \/ shelled')
  BY ToolsCommand DEF ToolsInv, ToolCore
<1> QED  BY <1>1, ToolStep DEF ToolsInv, ToolsKept, Quiet

\* Where the tools rest the rest of them does.
LEMMA ToolsRest ==
  ASSUME ToolsInv, UNCHANGED toolvars, edits' = edits \/ edits' = 0, edits = 0 \/ UNCHANGED edits,
         UNCHANGED checked
  PROVE  ToolsInv'
<1>1. ToolTypeOK' /\ MemoryInv' /\ (ChangesInv => ChangesInv') /\ UNCHANGED <<shelled, strays>>
  BY DEF toolvars, ToolsInv, ToolCore, ToolTypeOK, MemoryInv, RecentDistinct, SummariesTrue,
         SummariesResolve, ChangesInv, ChangesAccounted, Barred, InScope
<1> QED  BY <1>1 DEF ToolsInv, ToolCore

\* A command of the verifier changes a file, which nothing reports.
LEMMA VerifierKeeps ==
  ASSUME EvidenceInv, NEW f \in Files, VerifierCommand(f)
  PROVE  EvidenceInv'
<1>1. /\ phase = "running" /\ Call /\ Foreign(f) /\ checked' = TRUE /\ strays' \in {strays, TRUE}
      /\ UNCHANGED <<setup, original, affected, shelled, recent, summary>>
      /\ UNCHANGED <<phase, mode, legacy, artifact, verdict, trace, damages, judged, override,
                     used, before, copy, edits>>
  BY DEF VerifierCommand
<1>2. calls' \in 0 .. MaxCalls /\ strays' \in BOOLEAN
  <2>1. calls \in 0 .. MaxCalls /\ strays \in BOOLEAN
    BY DEF EvidenceInv, ToolsInv, ToolCore, ToolTypeOK
  <2>2. strays' \in BOOLEAN
    BY <1>1, <2>1, Zenon
  <2>3. calls' \in 0 .. MaxCalls
    BY <1>1, <2>1 DEF Call
  <2> QED  BY <2>2, <2>3
<1>3. ToolCore'
  <2>1. PICK c \in Contents \cup {Absent} : content' = [content EXCEPT ![f] = c]
    BY <1>1 DEF Foreign
  <2>2. ToolTypeOK'
    BY <1>1, <1>2, <2>1 DEF EvidenceInv, ToolsInv, ToolCore, ToolTypeOK, Foreign
  <2>3. MemoryInv'
    BY <1>1, <2>1 DEF EvidenceInv, ToolsInv, ToolCore, ToolTypeOK, MemoryInv, RecentDistinct,
                      SummariesTrue, SummariesResolve, Foreign
  <2> QED  BY <2>2, <2>3 DEF ToolCore
<1>4. ToolsInv'
  BY <1>1, <1>3 DEF ToolsInv
<1> QED  BY <1>1, <1>4
         DEF EvidenceInv, OwnTypes, Quiet, Uncopied, CopyInv, SettingsInv, ArtifactsCurrent

\* An artifact is recorded of the text just written.
LEMMA CallKeeps == EvidenceInv /\ ToolCall => EvidenceInv'
<1> SUFFICES ASSUME EvidenceInv, ToolCall PROVE EvidenceInv'
    OBVIOUS
<1>1. /\ phase = "running"
      /\ UNCHANGED <<phase, mode, checked, legacy, verdict, trace, damages, judged, override, used,
                     before, copy, edits>>
  BY DEF ToolCall
<1>2. [ToolNext]_toolvars
  BY DEF ToolCall, ToolNext
<1>3. ToolsInv'
  BY <1>1, <1>2, ToolsKeep DEF EvidenceInv
<1>4. artifact' \in [Files -> Contents \cup {Unknown}] /\ ArtifactsCurrent'
  <2>1. ASSUME NEW s \in Spellings, NEW c \in Contents, WriteFile(s, c) \/ PatchFile(s, c),
               InScope(Resolved(s)), Record(Resolved(s))
        PROVE  artifact' \in [Files -> Contents \cup {Unknown}] /\ ArtifactsCurrent'
    <3>1. /\ Resolved(s) \in Files /\ content' = [content EXCEPT ![Resolved(s)] = c]
          /\ shelled' = shelled
      BY <2>1 DEF WriteFile, PatchFile, Write
    <3>2. content \in [Files -> Contents \cup {Absent}]
      BY DEF EvidenceInv, ToolsInv, ToolCore, ToolTypeOK
    <3>3. artifact' = [artifact EXCEPT ![Resolved(s)] = c]
      BY <2>1, <3>1, <3>2 DEF Record
    <3> QED  BY <1>1, <3>1, <3>2, <3>3 DEF EvidenceInv, OwnTypes, ArtifactsCurrent
  <2>2. ASSUME NEW s \in Spellings, NEW c \in Contents, WriteFile(s, c) \/ PatchFile(s, c),
               ~InScope(Resolved(s)), UNCHANGED artifact
        PROVE  artifact' \in [Files -> Contents \cup {Unknown}] /\ ArtifactsCurrent'
    <3>1. UNCHANGED <<content, shelled>>
      BY <2>2 DEF WriteFile, PatchFile
    <3> QED  BY <1>1, <2>2, <3>1 DEF EvidenceInv, OwnTypes, ArtifactsCurrent
  <2>3. ASSUME UNCHANGED artifact,
               \/ \E t \in Tools : Refuse(t) \/ Look(t)
               \/ \E s \in Spellings : ReadFile(s)
               \/ \E f \in Files, t \in BOOLEAN : RunShell(f, t)
        PROVE  artifact' \in [Files -> Contents \cup {Unknown}] /\ ArtifactsCurrent'
    <3>1. shelled' = TRUE \/ UNCHANGED <<content, shelled>>
      BY <2>3 DEF Refuse, Look, ReadFile, RunShell
    <3> QED  BY <1>1, <2>3, <3>1 DEF EvidenceInv, OwnTypes, ArtifactsCurrent
  <2> QED  BY <2>1, <2>2, <2>3 DEF ToolCall
<1> QED  BY <1>1, <1>3, <1>4
         DEF EvidenceInv, OwnTypes, Quiet, Uncopied, CopyInv, SettingsInv

\* The end of the run, the judgement of its bundle, damages to it.
LEMMA BundleKeeps ==
  ASSUME EvidenceInv, Finish \/ OfflineReplay \/ \E i \in 1 .. Len(trace) : Damage(i)
  PROVE  EvidenceInv'
<1>1. /\ UNCHANGED <<toolvars, mode, checked, legacy, artifact, override, used, before, copy,
                     edits>>
      /\ phase' \in {"stored", "judged"} /\ phase \in {"running", "stored"}
      /\ verdict' \in {"passed", "failed", "not_configured"}
      /\ damages' \in 0 .. MaxDamages
      /\ judged' \in {"none", "error", "consistent", "inconsistent"}
  BY DEF EvidenceInv, OwnTypes, Finish, OfflineReplay, Damage
<1>2. ToolsInv'
  BY <1>1, ToolsRest DEF EvidenceInv
<1>3. ArtifactsCurrent'
  BY <1>1 DEF EvidenceInv, ArtifactsCurrent, toolvars
<1> QED  BY <1>1, <1>2, <1>3 DEF EvidenceInv, OwnTypes, Phases, Quiet, Uncopied, CopyInv, SettingsInv

\* The digest of the source is taken, then the files are copied.
LEMMA CopyKeeps ==
  ASSUME EvidenceInv, ForkStart \/ \E f \in Files : CopyFile(f)
  PROVE  EvidenceInv'
<1>1. /\ UNCHANGED <<toolvars, mode, checked, legacy, artifact, verdict, damages, judged,
                     override, used>>
      /\ phase' = "copying"
  BY DEF ForkStart, CopyFile
<1>2. content \in [Files -> Contents \cup {Absent}] /\ content' = content
  BY <1>1 DEF EvidenceInv, ToolsInv, ToolCore, ToolTypeOK, toolvars
<1>3. CASE ForkStart
  <2>1. phase = "judged" /\ before' = content /\ edits' = 0 /\ edits = 0 /\ copy' = copy
    BY <1>3 DEF ForkStart, EvidenceInv, Quiet
  <2>2. ToolsInv'
    BY <1>1, <2>1, ToolsRest DEF EvidenceInv
  <2>3. \A f \in Files : copy[f] = Unknown
    BY <2>1 DEF EvidenceInv, Uncopied
  <2> QED  BY <1>1, <1>2, <2>1, <2>2, <2>3
           DEF EvidenceInv, OwnTypes, Phases, Quiet, Uncopied, CopyInv, SettingsInv, ArtifactsCurrent
<1>4. ASSUME NEW f \in Files, CopyFile(f) PROVE EvidenceInv'
  <2>1. /\ phase = "copying" /\ copy' = [copy EXCEPT ![f] = content[f]]
        /\ UNCHANGED <<before, edits>>
    BY <1>4 DEF CopyFile
  <2>2. ToolsInv'
    BY <1>1, <2>1, ToolsRest DEF EvidenceInv
  <2>3. CopyInv'
    BY <1>1, <1>2, <2>1 DEF EvidenceInv, CopyInv, OwnTypes
  <2> QED  BY <1>1, <1>2, <2>1, <2>2, <2>3
           DEF EvidenceInv, OwnTypes, Phases, Quiet, Uncopied, SettingsInv, ArtifactsCurrent
<1> QED  BY <1>3, <1>4

\* A checkpoint is resumed with the settings asked for, or not at all.
LEMMA ResumeKeeps ==
  ASSUME EvidenceInv, ForkResume \/ ForkEnd
  PROVE  EvidenceInv'
<1>1. /\ UNCHANGED <<toolvars, checked, artifact, verdict, damages, judged, before, copy, edits>>
      /\ phase' \in {"copied", "mismatch", "replayed"} /\ phase \in {"copying", "copied"}
      /\ phase = "copying" => \A f \in Files : copy[f] # Unknown
  BY DEF ForkResume, ForkEnd
<1>2. ToolsInv'
  BY <1>1, ToolsRest DEF EvidenceInv
<1>3. CopyInv'
  BY <1>1 DEF EvidenceInv, CopyInv, toolvars
<1>4. CASE ForkResume
  <2>1. PICK keys \in SUBSET Settings, source \in Modes, client \in Modes,
             secretRequest \in BOOLEAN, checkpoints \in BOOLEAN, old \in BOOLEAN :
          \/ /\ Resumable(source, client, keys, secretRequest, checkpoints)
             /\ phase' = "copied" /\ mode' = source /\ override' = keys /\ legacy' = old
             /\ used' = [k \in Settings |->
                           IF k \in keys \cup {"provider"} THEN client[k] ELSE Usual[k]]
          \/ phase' = "mismatch" /\ UNCHANGED <<mode, override, legacy, used>>
    BY <1>4 DEF ForkResume
  <2>2. SettingsInv'
    BY <2>1 DEF SettingsInv, Resumable, Settings
  <2>3. mode' \in Modes /\ override' \in SUBSET Settings /\ DOMAIN used' = Settings /\ legacy' \in BOOLEAN
    BY <2>1 DEF EvidenceInv, OwnTypes
  <2> QED  BY <1>1, <1>2, <1>3, <2>2, <2>3
           DEF EvidenceInv, OwnTypes, Phases, Quiet, Uncopied, ArtifactsCurrent
<1>5. CASE ForkEnd
  BY <1>1, <1>2, <1>3, <1>5
  DEF ForkEnd, EvidenceInv, OwnTypes, Phases, Quiet, Uncopied, SettingsInv, ArtifactsCurrent
<1> QED  BY <1>4, <1>5

\* A stray writes during the run; an edit changes one file during a replay.
LEMMA EditKeeps ==
  ASSUME EvidenceInv, NEW f \in Files, Edit(f)
  PROVE  EvidenceInv'
<1>1. UNCHANGED <<phase, mode, checked, legacy, artifact, verdict, damages, judged, override, used,
                  before, copy>>
  BY DEF Edit
<1>2. CASE phase = "running" /\ StrayWrites(f) /\ UNCHANGED edits
  <2>1. [ToolNext]_toolvars
    BY <1>2 DEF ToolNext
  <2>2. ToolsInv'
    BY <1>1, <1>2, <2>1, ToolsKeep DEF EvidenceInv
  <2>3. (shelled \/ checked) /\ shelled' = shelled
    BY <1>2 DEF StrayWrites, EvidenceInv, ToolsInv
  <2> QED  BY <1>1, <1>2, <2>2, <2>3
           DEF EvidenceInv, OwnTypes, Quiet, Uncopied, CopyInv, SettingsInv, ArtifactsCurrent
<1>3. CASE /\ phase \in {"copying", "copied"} /\ edits < MaxEdits /\ edits' = edits + 1
           /\ Foreign(f) /\ content' # content
           /\ UNCHANGED <<setup, original, affected, shelled, strays, recent, summary, calls>>
  <2>1. edits' \in 1 .. MaxEdits
    BY <1>3 DEF EvidenceInv, OwnTypes
  <2>2. ToolTypeOK' /\ MemoryInv'
    <3>1. PICK c \in Contents \cup {Absent} : content' = [content EXCEPT ![f] = c]
      BY <1>3 DEF Foreign
    <3>2. ToolTypeOK'
      BY <1>3, <3>1 DEF EvidenceInv, ToolsInv, ToolCore, ToolTypeOK, Foreign
    <3>3. MemoryInv'
      BY <1>3, <3>1 DEF EvidenceInv, ToolsInv, ToolCore, ToolTypeOK, MemoryInv, RecentDistinct,
                        SummariesTrue, SummariesResolve, Foreign
    <3> QED  BY <3>2, <3>3
  <2>3. CopyInv'
    BY <1>1, <1>3, <2>1 DEF EvidenceInv, OwnTypes, CopyInv
  <2> QED  BY <1>1, <1>3, <2>1, <2>2, <2>3
           DEF EvidenceInv, OwnTypes, Quiet, Uncopied, ToolsInv, ToolCore, SettingsInv, ArtifactsCurrent
<1> QED  BY <1>2, <1>3 DEF Edit

LEMMA EvidenceStep == EvidenceInv /\ [Next]_vars => EvidenceInv'
<1> SUFFICES ASSUME EvidenceInv, [Next]_vars PROVE EvidenceInv'
    OBVIOUS
<1>1. CASE UNCHANGED vars
  <2>1. UNCHANGED toolvars /\ UNCHANGED evars
    BY <1>1 DEF vars
  <2>2. ToolsInv'
    BY <2>1, ToolsRest DEF EvidenceInv, evars
  <2> QED  BY <2>1, <2>2 DEF evars, toolvars, EvidenceInv, OwnTypes, Quiet, Uncopied, CopyInv,
                             SettingsInv, ArtifactsCurrent
<1> QED  BY <1>1, CallKeeps, BundleKeeps, CopyKeeps, ResumeKeeps, EditKeeps, VerifierKeeps DEF Next

LEMMA EvidenceStart == Init => EvidenceInv
<1> SUFFICES ASSUME Init PROVE EvidenceInv
    OBVIOUS
<1>1. ToolInv
  BY ToolStart DEF Init
<1>2. OwnTypes
  <2>1. mode \in Modes /\ used = mode /\ DOMAIN used = Settings
    BY DEF Init, Settings
  <2>2. /\ artifact = Untouched /\ before = Untouched /\ copy = Untouched
        /\ Untouched \in [Files -> Contents \cup {Unknown}]
        /\ Untouched \in [Files -> Contents \cup {Absent, Unknown}]
    BY DEF Init, Untouched
  <2>3. /\ phase = "running" /\ verdict = "not_configured" /\ judged = "none"
        /\ damages = 0 /\ edits = 0 /\ override = {}
    BY DEF Init
  <2>4. checked \in BOOLEAN /\ legacy \in BOOLEAN
    BY Zenon DEF Init
  <2>5. damages \in 0 .. MaxDamages /\ edits \in 0 .. MaxEdits
    BY <2>3
  <2> QED  BY <2>1, <2>2, <2>3, <2>4, <2>5, Zenon DEF OwnTypes, Phases
<1> QED  BY <1>1, <1>2 DEF Init, EvidenceInv, Quiet, ToolsInv, ToolInv, Uncopied, CopyInv, SettingsInv,
                           ArtifactsCurrent, Untouched, ToolInit

LEMMA EvidenceAlways == Spec => []EvidenceInv
  BY EvidenceStart, EvidenceStep, PTL DEF Spec

\* Type correctness of the evidence and the tools.
THEOREM EvidenceTypes == Spec => []EvidenceTypeOK
<1>1. EvidenceInv => EvidenceTypeOK
  BY DEF EvidenceInv, ToolsInv, ToolCore, OwnTypes, Phases, EvidenceTypeOK
<1> QED  BY <1>1, EvidenceAlways, PTL

\* Whatever is recorded, damaged or replayed of it, a run changed no file but
\* as it reports, within its scope, unless by a shell command or one of the
\* verifier (ToolRegistry.run, Tifa.ask).
THEOREM RunIsAccounted == Spec => []RunAccounted
<1>1. EvidenceInv => RunAccounted
  BY DEF EvidenceInv, ToolsInv, ToolCore, ChangesInv, RunAccounted
<1> QED  BY <1>1, EvidenceAlways, PTL

\* Memory stays fresh through a run, its verifier, its strays and what follows.
THEOREM RunMemoryFresh == Spec => []MemoryFresh
<1>1. EvidenceInv => MemoryFresh
  BY DEF EvidenceInv, ToolsInv, ToolCore, MemoryInv, MemoryFresh, RecentDistinct, SummariesTrue
<1> QED  BY <1>1, EvidenceAlways, PTL

\* An artifact holds the last text of its file unless a shell command or one of
\* the verifier ran (the commit of a tool call in Tifa.ask).
THEOREM ArtifactsAreCurrent == Spec => []ArtifactsCurrent
<1>1. EvidenceInv => ArtifactsCurrent
  BY DEF EvidenceInv
<1> QED  BY <1>1, EvidenceAlways, PTL

\* A replay that finds its source unchanged, after one edit at most, ran on a
\* copy of what it digested, and with no other settings than it may
\* (ReplayRunner.replay).
THEOREM ReplaysFaithful == Spec => []ForkFaithful
<1>1. EvidenceInv => ForkFaithful
  <2> SUFFICES ASSUME EvidenceInv, phase = "replayed"
               PROVE  /\ SourceUnchanged /\ edits <= 1 => copy = before
                      /\ \A k \in Settings : used[k] # mode[k] =>
                            k \in override \/ (k # "provider" /\ mode[k] # Usual[k])
      BY DEF ForkFaithful
  <2>1. ASSUME SourceUnchanged, edits <= 1 PROVE copy = before
    <3>1. edits = 0
      BY <2>1 DEF SourceUnchanged, EvidenceInv, OwnTypes, CopyInv
    <3>2. \A f \in Files : copy[f] = before[f]
      BY <3>1 DEF EvidenceInv, CopyInv
    <3> QED  BY <3>2 DEF EvidenceInv, OwnTypes
  <2> QED  BY <2>1 DEF EvidenceInv, SettingsInv
<1> QED  BY <1>1, EvidenceAlways, PTL

\* A counterfactual replay is marked confounded exactly when its bundle is of
\* schema v1 or v2, whatever else differs: resume_run refuses a source of another
\* provider before replay compares the two (runtime.py:127, replay.py:146), and
\* the contract, the other thing compared, is rebuilt from a v3 bundle and never
\* from an older one (replay.py:135).
OnlyLegacyMarked == phase = "replayed" => (Confounded <=> legacy /\ Cardinality(override) = 1)

THEOREM LegacyReplaysMarked == Spec => []OnlyLegacyMarked
<1>1. ForkFaithful => OnlyLegacyMarked
  <2> SUFFICES ASSUME ForkFaithful, phase = "replayed", Confounded, ~legacy
               PROVE  FALSE
      BY DEF OnlyLegacyMarked, Confounded
  <2>1. used["provider"] # mode["provider"] /\ "provider" \notin override
    BY DEF Confounded
  <2>2. "provider" \in Settings
    BY DEF Settings
  <2> QED  BY <2>1, <2>2 DEF ForkFaithful
<1> QED  BY <1>1, ReplaysFaithful, PTL

----------------------------------------------------------------------------
(***************************************************************************)
(* The judgement of the stored bundle.                                     *)
(***************************************************************************)
StoredInv ==
    phase # "running" =>
      \E order \in Orders : trace \in Seq(Storable(order)) /\ (damages = 0 => Undamaged(order))

Judgement == IF ~Contiguous THEN "error" ELSE IF Consistent THEN "consistent" ELSE "inconsistent"
JudgementInv ==
    /\ phase \in {"running", "stored"} => judged = "none"
    /\ judged # "none" => judged = Judgement

BundleInv == IsFiniteSet(Recorded) /\ StoredInv /\ JudgementInv


LEMMA BundleStart == Init => BundleInv
<1> SUFFICES ASSUME Init PROVE BundleInv
    OBVIOUS
<1>1. Recorded = {}
  BY DEF Init, Untouched, Recorded
<1> QED  BY <1>1, FS_EmptySet DEF Init, BundleInv, StoredInv, JudgementInv

\* A call adds one file at most to those that have an artifact.
LEMMA CallRecords ==
  ASSUME EvidenceInv, BundleInv, ToolCall
  PROVE  BundleInv'
<1>1. phase = "running" /\ phase' = phase /\ judged' = judged
  BY DEF ToolCall
<1>2. CASE artifact' = artifact
  BY <1>1, <1>2 DEF BundleInv, StoredInv, JudgementInv, Recorded
<1>3. ASSUME NEW f \in Files, Record(f)
      PROVE  IsFiniteSet(Recorded')
  <2>1. Recorded' \in SUBSET (Recorded \cup {f})
    BY <1>3 DEF Record, Recorded, EvidenceInv, OwnTypes
  <2>2. IsFiniteSet(Recorded \cup {f})
    BY FS_AddElement DEF BundleInv
  <2> QED  BY <2>1, <2>2, FS_Subset
<1>4. CASE IsFiniteSet(Recorded')
  BY <1>1, <1>4 DEF BundleInv, StoredInv, JudgementInv
<1>5. artifact' = artifact \/ \E s \in Spellings : Resolved(s) \in Files /\ Record(Resolved(s))
  BY DEF ToolCall, WriteFile, PatchFile
<1> QED  BY <1>2, <1>3, <1>4, <1>5

LEMMA FinishStores ==
  ASSUME BundleInv, Finish
  PROVE  BundleInv'
<1>1. PICK outcome \in {"passed", "failed", "not_configured"},
           order \in [1 .. Artifacts -> Recorded] :
        /\ \A f \in Recorded : \E i \in DOMAIN order : order[i] = f
        /\ verdict' = outcome /\ trace' = Tail4(order, outcome)
  BY DEF Finish, Artifacts
<1>2. /\ phase = "running" /\ phase' = "stored"
      /\ artifact' = artifact /\ judged' = judged /\ damages' = damages
  BY DEF Finish
<1>3. order \in Orders
  BY <1>1 DEF Orders
<1>4. /\ Recorded' = Recorded /\ Artifacts' = Artifacts /\ Orders' = Orders
      /\ \A m : Expected(order, outcome, m)' = Expected(order, outcome, m)
  BY <1>2 DEF Recorded, Artifacts, Orders, Expected
<1> DEFINE S == {Expected(order, outcome, m) : m \in 1 .. Artifacts + 4}
<1>5. /\ trace' \in Seq(S) /\ Len(trace') = Artifacts + 4
      /\ \A m \in 1 .. Artifacts + 4 : trace'[m] = Expected(order, outcome, m)
  BY <1>1, <1>3, TailExpected DEF BundleInv
<1>6. Undamaged(order)'
  BY <1>1, <1>4, <1>5 DEF Undamaged
<1>7. trace' \in Seq(Storable(order)')
  <2>1. S \subseteq Storable(order)'
    BY <1>1, <1>4 DEF Storable, Versions
  <2> HIDE DEF S
  <2> QED  BY <1>5, <2>1, SeqMonotonic
<1>8. StoredInv'
  BY <1>3, <1>4, <1>6, <1>7 DEF StoredInv
<1> QED  BY <1>2, <1>4, <1>8 DEF BundleInv, JudgementInv

\* Altering a version of an event of the run gives a version of it.
LEMMA VersionsClosed ==
  ASSUME NEW order, NEW m, NEW e \in Versions(Expected(order, verdict, m))
  PROVE  /\ Spoiled(e) \in Versions(Expected(order, verdict, m))
         /\ Marred(e) \in Versions(Expected(order, verdict, m))
<1>1. PICK k, p, t, n : Expected(order, verdict, m) = Event(k, p, t, n)
  BY DEF Expected
<1>2. \A u, v : LET x == [kind |-> k, path |-> p, text |-> u, rest |-> v, sequence |-> n]
                   IN  /\ Spoiled(x) = [kind |-> k, path |-> p, text |-> Garbled, rest |-> v, sequence |-> n]
                       /\ Marred(x) = [kind |-> k, path |-> p, text |-> u, rest |-> Garbled, sequence |-> n]
  BY DEF Spoiled, Marred
<1> DEFINE x(u, v) == [kind |-> k, path |-> p, text |-> u, rest |-> v, sequence |-> n]
<1>3. /\ \A u, v : Spoiled(x(u, v)) = x(Garbled, v)
      /\ \A u, v : Marred(x(u, v)) = x(u, Garbled)
      /\ Expected(order, verdict, m) = x(t, "true")
  BY <1>1, <1>2 DEF Event
<1> HIDE DEF x
<1>4. Versions(Expected(order, verdict, m)) =
        {x(t, "true"), x(Garbled, "true"), x(t, Garbled), x(Garbled, Garbled)}
  BY <1>3 DEF Versions
<1> QED  BY <1>3, <1>4

\* Damage leaves a sequence of events of the run, some with another payload.
LEMMA DamageStores ==
  ASSUME BundleInv, NEW i \in 1 .. Len(trace), Damage(i), damages \in Nat
  PROVE  BundleInv'
<1>1. /\ phase = "stored" /\ phase' = phase /\ damages' = damages + 1
      /\ artifact' = artifact /\ judged' = judged /\ verdict' = verdict
  BY DEF Damage
<1>2. PICK order \in Orders : trace \in Seq(Storable(order))
  BY <1>1 DEF BundleInv, StoredInv
<1> DEFINE S == Storable(order)
<1>3. \A e \in S : Spoiled(e) \in S /\ Marred(e) \in S
  BY VersionsClosed DEF Storable
<1> HIDE DEF S
<1>4. trace \in Seq(S) /\ Len(trace) \in Nat /\ trace[i] \in S /\ trace \in [1 .. Len(trace) -> S]
  BY <1>2 DEF S
<1>5. trace' \in Seq(S)
  <2>1. SubSeq(trace, 1, i - 1) \in Seq(S)
    BY <1>4, SubSeqProperties
  <2>2. SubSeq(trace, i + 1, Len(trace)) \in Seq(S)
    BY <1>4, SubSeqProperties
  <2>3. Without(i) \in Seq(S)
    BY <2>1, <2>2, ConcatProperties DEF Without
  <2>4. [trace EXCEPT ![i].text = Garbled] \in Seq(S)
    <3>1. [trace EXCEPT ![i].text = Garbled] = [trace EXCEPT ![i] = Spoiled(trace[i])]
      BY <1>4 DEF Spoiled
    <3>2. Spoiled(trace[i]) \in S
      BY <1>3, <1>4
    <3> HIDE DEF S
    <3> QED  BY <1>4, <3>1, <3>2, ExceptSeq
  <2>5. [trace EXCEPT ![i].rest = Garbled] \in Seq(S)
    <3>1. [trace EXCEPT ![i].rest = Garbled] = [trace EXCEPT ![i] = Marred(trace[i])]
      BY <1>4 DEF Marred
    <3>2. Marred(trace[i]) \in S
      BY <1>3, <1>4
    <3> HIDE DEF S
    <3> QED  BY <1>4, <3>1, <3>2, ExceptSeq
  <2>6. Append(trace, trace[i]) \in Seq(S)
    BY <1>4, AppendProperties
  <2> QED  BY <2>1, <2>3, <2>4, <2>5, <2>6 DEF Damage
<1>6. /\ Recorded' = Recorded /\ Orders' = Orders /\ S = Storable(order)'
  BY <1>1 DEF Recorded, Artifacts, Orders, Expected, S, Storable, Versions
<1>7. damages' # 0
  BY <1>1
<1>8. StoredInv'
  BY <1>5, <1>6, <1>7 DEF StoredInv
<1> QED  BY <1>1, <1>6, <1>8 DEF BundleInv, JudgementInv

\* What the judgement rests on is left alone by everything else.
LEMMA BundleRests ==
  ASSUME BundleInv, UNCHANGED <<artifact, verdict, trace, damages>>,
         \/ UNCHANGED <<phase, judged>>
         \/ phase' \notin {"running", "stored"} /\ phase # "running"
            /\ judged' \in {judged, Judgement}
  PROVE  BundleInv'
<1>1. /\ Recorded' = Recorded /\ Judgement' = Judgement /\ Orders' = Orders
      /\ \A order : Storable(order)' = Storable(order)
      /\ \A order : Undamaged(order)' = Undamaged(order)
  BY DEF Recorded, Orders, Artifacts, Storable, Versions, Undamaged, Expected, Judgement, Contiguous,
         Consistent, Replayed, ArtifactsMatch, VerifierMatches
<1>2. StoredInv'
  BY <1>1 DEF BundleInv, StoredInv
<1> QED  BY <1>1, <1>2 DEF BundleInv, JudgementInv

LEMMA BundleStep == EvidenceInv /\ BundleInv /\ [Next]_vars => BundleInv'
<1> SUFFICES ASSUME EvidenceInv, BundleInv, [Next]_vars PROVE BundleInv'
    OBVIOUS
<1>1. CASE ToolCall
  BY <1>1, CallRecords
<1>2. CASE Finish
  BY <1>2, FinishStores
<1>3. ASSUME NEW i \in 1 .. Len(trace), Damage(i) PROVE BundleInv'
  BY <1>3, DamageStores DEF EvidenceInv, OwnTypes
<1>4. CASE OfflineReplay
  BY <1>4, BundleRests DEF OfflineReplay, Judgement
<1>5. CASE ForkStart \/ ForkResume \/ ForkEnd
  BY <1>5, BundleRests DEF ForkStart, ForkResume, ForkEnd
<1>6. ASSUME NEW f \in Files, CopyFile(f) \/ Edit(f) \/ VerifierCommand(f) PROVE BundleInv'
  BY <1>6, BundleRests DEF CopyFile, Edit, VerifierCommand
<1>7. CASE UNCHANGED vars
  BY <1>7, BundleRests DEF vars, evars
<1> QED  BY <1>1, <1>2, <1>3, <1>4, <1>5, <1>6, <1>7 DEF Next

LEMMA BundleAlways == Spec => [](EvidenceInv /\ BundleInv)
<1>1. Init => EvidenceInv /\ BundleInv
  BY EvidenceStart, BundleStart
<1>2. (EvidenceInv /\ BundleInv) /\ [Next]_vars => (EvidenceInv /\ BundleInv)'
  BY EvidenceStep, BundleStep
<1> QED  BY <1>1, <1>2, PTL DEF Spec

\* An event of the stored bundle is the one its sequence number says, but for
\* a changed payload.
LEMMA StoredEvent ==
  ASSUME IsFiniteSet(Recorded), NEW order \in Orders, trace \in Seq(Storable(order)),
         NEW i \in 1 .. Len(trace)
  PROVE  LET m == trace[i].sequence
             e == Expected(order, verdict, m)
         IN  /\ m \in 1 .. Artifacts + 4
             /\ trace[i].kind = e.kind /\ trace[i].path = e.path
             /\ trace[i].text \in {e.text, Garbled}
<1>1. PICK m \in 1 .. Artifacts + 4 :
        trace[i] \in Versions(Expected(order, verdict, m))
  <2>1. trace[i] \in Storable(order)
    BY ElementOfSeq
  <2> QED  BY <2>1 DEF Storable
<1>2. PICK k, p, t : Expected(order, verdict, m) = Event(k, p, t, m)
  BY DEF Expected
<1>3. \A e \in Versions(Event(k, p, t, m)) :
        e.kind = k /\ e.path = p /\ e.sequence = m /\ e.text \in {t, Garbled}
  <2>1. \A u, v : LET x == [kind |-> k, path |-> p, text |-> u, rest |-> v, sequence |-> m]
                  IN  /\ Spoiled(x) = [kind |-> k, path |-> p, text |-> Garbled, rest |-> v, sequence |-> m]
                      /\ Marred(x) = [kind |-> k, path |-> p, text |-> u, rest |-> Garbled, sequence |-> m]
    BY DEF Spoiled, Marred
  <2> DEFINE x(u, v) == [kind |-> k, path |-> p, text |-> u, rest |-> v, sequence |-> m]
  <2>2. Versions(x(t, "true")) = {x(t, "true"), x(Garbled, "true"), x(t, Garbled), x(Garbled, Garbled)}
    BY <2>1, Zenon DEF Versions
  <2>3. \A u, v : x(u, v).kind = k /\ x(u, v).path = p /\ x(u, v).sequence = m /\ x(u, v).text = u
    OBVIOUS
  <2>4. Event(k, p, t, m) = x(t, "true")
    BY DEF Event
  <2> HIDE DEF x
  <2> QED  BY <2>2, <2>3, <2>4
<1> QED  BY <1>1, <1>2, <1>3 DEF Event

LEMMA ExpectedEvents ==
  ASSUME IsFiniteSet(Recorded), NEW order \in Orders, NEW m \in 1 .. Artifacts + 4
  PROVE  LET e == Expected(order, verdict, m)
         IN  /\ e.sequence = m
             /\ m = 1 => e.kind = "run"
             /\ m = 2 => e.kind = "state_patch" /\ e.path = Outside /\ e.text = "true"
             /\ m \in 3 .. Artifacts + 2 =>
                  /\ e.kind = "artifact" /\ order[m - 2] \in Recorded
                  /\ e.path = order[m - 2] /\ e.text = Redact(artifact[order[m - 2]])
             /\ m = Artifacts + 3 => e.kind = "report" /\ e.path = Outside /\ e.text = "true"
             /\ m = Artifacts + 4 => e.kind = "verifier" /\ e.path = Outside /\ e.text = verdict
<1>1. Artifacts \in Nat
  BY RecordedFinite
<1>2. ASSUME m \in 3 .. Artifacts + 2 PROVE order[m - 2] \in Recorded
  BY <1>1, <1>2 DEF Orders
<1> QED  BY <1>1, <1>2 DEF Expected, Event

\* What has been judged consistent was contiguous and matched.
LEMMA ConsistentWhole ==
  ASSUME EvidenceInv, BundleInv, judged = "consistent"
  PROVE  /\ Len(trace) = Artifacts + 4 \/ (Len(trace) = Artifacts + 3 /\ verdict = "not_configured")
         /\ \A i, j \in 1 .. Len(trace) : trace[i].sequence = trace[j].sequence => i = j
         /\ \A i \in 1 .. Len(trace) : trace[i].text = Garbled => trace[i].kind = "run"
<1>1. Contiguous /\ Consistent /\ phase # "running" /\ IsFiniteSet(Recorded) /\ Artifacts \in Nat
  BY RecordedFinite DEF BundleInv, JudgementInv, Judgement
<1>2. PICK order \in Orders : trace \in Seq(Storable(order))
  BY <1>1 DEF BundleInv, StoredInv
<1> DEFINE L == Len(trace)
<1>3. L \in Nat
  BY <1>2, LenProperties
<1>4. /\ \A i \in 1 .. L : trace[i].sequence \in 1 .. L
      /\ \A i, j \in 1 .. L : trace[i].sequence = trace[j].sequence => i = j
  BY <1>1, <1>2, ContiguousOnce
<1>5. ASSUME NEW i \in 1 .. L
      PROVE  LET m == trace[i].sequence
                 e == Expected(order, verdict, m)
             IN  /\ m \in 1 .. Artifacts + 4
                 /\ trace[i].kind = e.kind /\ trace[i].path = e.path
                 /\ trace[i].text \in {e.text, Garbled}
  BY <1>1, <1>2, StoredEvent
<1>6. L <= Artifacts + 4
  <2>1. CASE L = 0
    BY <1>1, <2>1
  <2>2. CASE L # 0
    <3>1. L \in 1 .. L
      BY <1>3, <2>2
    <3>2. PICK i \in 1 .. L : trace[i].sequence = L
      BY <1>1, <3>1 DEF Contiguous
    <3> QED  BY <1>5, <3>2
  <2> QED  BY <2>1, <2>2
<1>7. L >= Artifacts + 3
  <2>1. PICK i \in 1 .. L : trace[i].kind = "report"
    BY <1>1 DEF Consistent, Replayed
  <2>2. trace[i].sequence = Artifacts + 3
    <3> DEFINE m == trace[i].sequence
    <3>1. m \in 1 .. Artifacts + 4 /\ Expected(order, verdict, m).kind = "report"
      BY <1>5, <2>1
    <3> HIDE DEF m
    <3>2. m \notin 3 .. Artifacts + 2 /\ m \notin {1, 2, Artifacts + 4}
      BY <1>1, <3>1, ExpectedEvents
    <3>3. m = Artifacts + 3
      BY <1>1, <3>1, <3>2
    <3> QED  BY <3>3 DEF m
  <2> QED  BY <1>1, <1>3, <1>4, <2>2
<1>8. ASSUME L = Artifacts + 3 PROVE verdict = "not_configured"
  <2>1. \A i \in 1 .. L : trace[i].kind # "verifier"
    <3> SUFFICES ASSUME NEW i \in 1 .. L PROVE trace[i].kind # "verifier"
        OBVIOUS
    <3>1. trace[i].sequence \in 1 .. Artifacts + 3
      BY <1>4, <1>8
    <3> QED  BY <1>1, <1>2, <1>5, <3>1, ExpectedEvents
  <2>2. Replayed("verifier", Outside) = {}
    BY <2>1 DEF Replayed
  <2> QED  BY <1>1, <2>2 DEF Consistent, VerifierMatches
<1>9. ASSUME NEW i \in 1 .. L, trace[i].text = Garbled PROVE trace[i].kind = "run"
  <2> DEFINE m == trace[i].sequence
  <2>1. m \in 1 .. Artifacts + 4
    BY <1>5
  <2>2. \A k, p : trace[i].kind = k /\ trace[i].path = p => Garbled \in Replayed(k, p)
    BY <1>9 DEF Replayed
  <2>3. Garbled \notin {"true", "passed", "failed", "not_configured"} /\ Garbled \notin Contents
    BY DEF EvidenceAssumption
  <2>4. m # 2 /\ m # Artifacts + 3
    <3>1. Garbled \notin Replayed("state_patch", Outside) /\ Garbled \notin Replayed("report", Outside)
      BY <1>1, <2>3 DEF Consistent
    <3> QED  BY <1>1, <1>2, <1>5, <2>1, <2>2, <3>1, ExpectedEvents
  <2>5. m # Artifacts + 4
    <3>1. Garbled \notin Replayed("verifier", Outside)
      BY <1>1, <2>3 DEF Consistent, VerifierMatches, EvidenceInv, OwnTypes
    <3> QED  BY <1>1, <1>2, <1>5, <2>1, <2>2, <3>1, ExpectedEvents
  <2>6. m \notin 3 .. Artifacts + 2
    <3>1. \A f \in Recorded : Garbled \notin Replayed("artifact", f)
      <4>1. \A f \in Recorded : artifact[f] \in Contents
        BY DEF Recorded, EvidenceInv, OwnTypes
      <4> QED  BY <1>1, <2>3, <4>1 DEF Consistent, ArtifactsMatch
    <3> SUFFICES ASSUME m \in 3 .. Artifacts + 2 PROVE FALSE
        OBVIOUS
    <3>2. trace[i].kind = "artifact" /\ trace[i].path \in Recorded
      <4>1. /\ trace[i].kind = Expected(order, verdict, m).kind
            /\ trace[i].path = Expected(order, verdict, m).path
        BY <1>5
      <4> HIDE DEF m
      <4>2. /\ Expected(order, verdict, m).kind = "artifact"
            /\ Expected(order, verdict, m).path \in Recorded
        BY <1>1, <2>1, ExpectedEvents
      <4> QED  BY <4>1, <4>2
    <3> QED  BY <2>2, <3>1, <3>2
  <2>7. m = 1
    BY <1>1, <2>1, <2>4, <2>5, <2>6
  <2> QED  BY <1>1, <1>2, <1>5, <2>1, <2>7, ExpectedEvents
<1> QED  BY <1>1, <1>3, <1>4, <1>6, <1>7, <1>8, <1>9

\* A bundle nobody damaged replays everything the run stored.
LEMMA UndamagedReplay ==
  ASSUME EvidenceInv, BundleInv, phase # "running", damages = 0
  PROVE  Contiguous /\ (Consistent <=> \A f \in Recorded : artifact[f] \notin Secrets)
<1>1. IsFiniteSet(Recorded) /\ Artifacts \in Nat
  BY RecordedFinite DEF BundleInv
<1>2. PICK order \in Orders : Undamaged(order)
  BY DEF BundleInv, StoredInv
<1>3. Len(trace) = Artifacts + 4 /\ \A m \in 1 .. Artifacts + 4 : trace[m] = Expected(order, verdict, m)
  BY <1>2 DEF Undamaged
<1>4. Contiguous
  <2>1. \A m \in 1 .. Artifacts + 4 : trace[m].sequence = m
    BY <1>1, <1>3, ExpectedEvents
  <2> QED  BY <1>3, <2>1 DEF Contiguous
<1>5. ASSUME NEW m \in 1 .. Artifacts + 4, trace[m].kind = "artifact" PROVE m \in 3 .. Artifacts + 2
  BY <1>1, <1>3, <1>5, ExpectedEvents
<1>6. /\ Replayed("state_patch", Outside) = {"true"} /\ Replayed("report", Outside) = {"true"}
      /\ Replayed("verifier", Outside) = {verdict}
  <2>1. \A m \in 1 .. Artifacts + 4 :
          /\ trace[m].kind = "state_patch" /\ trace[m].path = Outside <=> m = 2
          /\ trace[m].kind = "report" /\ trace[m].path = Outside <=> m = Artifacts + 3
          /\ trace[m].kind = "verifier" /\ trace[m].path = Outside <=> m = Artifacts + 4
    BY <1>1, <1>3, ExpectedEvents
  <2>2. /\ trace[2].text = "true" /\ trace[Artifacts + 3].text = "true"
        /\ trace[Artifacts + 4].text = verdict
    BY <1>1, <1>3, ExpectedEvents
  <2>3. {2, Artifacts + 3, Artifacts + 4} \subseteq 1 .. Len(trace)
    BY <1>1, <1>3
  <2> QED  BY <1>3, <2>1, <2>2, <2>3 DEF Replayed
<1>7. ASSUME NEW f \in Recorded PROVE Replayed("artifact", f) = {Redact(artifact[f])}
  <2>1. PICK i \in 1 .. Artifacts : order[i] = f
    BY DEF Orders
  <2>2. i + 2 \in 3 .. Artifacts + 2 /\ i + 2 \in 1 .. Artifacts + 4 /\ (i + 2) - 2 = i
    BY <1>1
  <2>3. /\ trace[i + 2].kind = "artifact" /\ trace[i + 2].path = f
        /\ trace[i + 2].text = Redact(artifact[f])
    BY <1>1, <1>3, <2>1, <2>2, ExpectedEvents
  <2>4. \A m \in 1 .. Artifacts + 4 :
          trace[m].kind = "artifact" /\ trace[m].path = f => trace[m].text = Redact(artifact[f])
    BY <1>1, <1>3, <1>5, ExpectedEvents
  <2> QED  BY <1>3, <2>2, <2>3, <2>4 DEF Replayed
<1>8. ArtifactsMatch <=> \A f \in Recorded : artifact[f] \notin Secrets
  <2>1. \A f \in Recorded : artifact[f] \in Contents
    BY DEF Recorded, EvidenceInv, OwnTypes
  <2>2. \A f \in Recorded : Redact(artifact[f]) = artifact[f] <=> artifact[f] \notin Secrets
    BY <2>1 DEF Redact, EvidenceAssumption
  <2> QED  BY <1>7, <2>2 DEF ArtifactsMatch
<1> QED  BY <1>4, <1>6, <1>8 DEF Consistent, VerifierMatches

\* A bundle judged consistent has every event of the run, once, except perhaps
\* the end of an unconfigured verifier; the state, the report, the content of the
\* artifacts and passed and status of the verifier are as the run stored them,
\* the rest of an event need not be; a bundle nobody damaged is judged consistent
\* unless an artifact held a secret (ReplayRunner._offline, RunStore.append_trace).
THEOREM BundlesAreJudged == Spec => []BundleJudged
<1>1. EvidenceInv /\ BundleInv => BundleJudged
  <2> SUFFICES ASSUME EvidenceInv, BundleInv PROVE BundleJudged
      OBVIOUS
  <2>1. Artifacts \in Nat
    BY RecordedFinite DEF BundleInv
  <2>2. ASSUME judged # "none", damages = 0
        PROVE  judged = "consistent" <=> \A f \in Recorded : artifact[f] \notin Secrets
    <3>1. phase # "running" /\ judged = Judgement
      BY <2>2 DEF BundleInv, JudgementInv
    <3> QED  BY <2>2, <3>1, UndamagedReplay DEF Judgement
  <2>3. ASSUME judged = "consistent"
        PROVE  /\ Len(trace) = Artifacts + 4 \/ (Len(trace) = (Artifacts + 4) - 1 /\ verdict = "not_configured")
               /\ \A i, j \in 1 .. Len(trace) : trace[i].sequence = trace[j].sequence => i = j
               /\ \A i \in 1 .. Len(trace) : trace[i].text = Garbled => trace[i].kind = "run"
    <3>1. (Artifacts + 4) - 1 = Artifacts + 3
      BY <2>1
    <3> QED  BY <2>3, <3>1, ConsistentWhole
  <2> QED  BY <2>2, <2>3, Zenon DEF BundleJudged, Artifacts
<1> QED  BY <1>1, BundleAlways, PTL
====
