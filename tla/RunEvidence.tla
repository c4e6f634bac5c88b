---- MODULE RunEvidence ----
(***************************************************************************)
(* The evidence of a run and its replay.  While the tools of ToolRegistry  *)
(* work, an artifact is recorded for every path a call reports; at the end *)
(* the trace gets the state, the artifacts, the report and the verifier's  *)
(* outcome, and the evidence bundle the digests of them.  A stored bundle  *)
(* may be damaged; offline replay judges it.  A forked or counterfactual   *)
(* replay resumes the run in a copy of the workspace, which others may     *)
(* edit meanwhile.  Text is redacted on its way to the trace.  Commands of *)
(* the verifier change files as a shell command does, outside the tools.   *)
(***************************************************************************)
EXTENDS ToolRegistry

CONSTANTS Secrets,      \* contents with something the redaction replaces
          Redacted,     \* what it leaves of them
          Garbled,      \* a payload a damaged bundle holds
          Modes,        \* context_policy, memory_enabled and provider of a run
          Usual,        \* context_policy and memory_enabled of a replay without overrides
          MaxDamages,   \* bound: damages to the stored bundle
          MaxEdits      \* bound: edits of the workspace after the run

ASSUME EvidenceAssumption ==
    /\ Secrets \subseteq Contents
    /\ Redacted \notin Contents \cup {Absent, Unknown, Garbled}
    /\ Garbled \notin Contents \cup {Absent, Unknown, "true", "passed", "failed", "not_configured"}
    /\ Modes # {} /\ \A m \in Modes : DOMAIN m = {"context_policy", "memory_enabled", "provider"}
    /\ DOMAIN Usual = {"context_policy", "memory_enabled"}
    /\ MaxDamages \in Nat /\ MaxEdits \in Nat

VARIABLES phase,        \* "running", "stored", "judged", "copying", "copied" or an end
          mode,         \* settings of the source run, told once a replay asks for them
          checked,      \* history: a command of the verifier ran
          legacy,       \* the bundle replayed is of schema v1 or v2, not of this program
          artifact,     \* content an artifact was recorded with
          verdict,      \* what the verifier found
          trace,        \* events of the stored bundle
          damages,
          judged,       \* verdict of the offline replay
          override, used,       \* settings overridden, settings of the replay
          before, copy, edits   \* digest of the source, the copy, edits since the digest

evars == <<phase, mode, checked, legacy, artifact, verdict, trace, damages, judged, override,
           used, before, copy, edits>>
vars == <<toolvars, evars>>

Settings == {"context_policy", "memory_enabled", "provider"}
Untouched == [f \in Files |-> Unknown]

EvidenceTypeOK ==
    /\ ToolTypeOK
    /\ phase \in {"running", "stored", "judged", "copying", "copied", "replayed", "mismatch"}
    /\ mode \in Modes /\ checked \in BOOLEAN /\ legacy \in BOOLEAN
    /\ artifact \in [Files -> Contents \cup {Unknown}]
    /\ verdict \in {"passed", "failed", "not_configured"}
    /\ damages \in 0 .. MaxDamages /\ edits \in 0 .. MaxEdits
    /\ judged \in {"none", "error", "consistent", "inconsistent"}
    /\ override \in SUBSET Settings /\ DOMAIN used = Settings
    /\ before \in [Files -> Contents \cup {Absent, Unknown}]
    /\ copy \in [Files -> Contents \cup {Absent, Unknown}]

Init ==
    /\ ToolInit
    /\ phase = "running" /\ mode = CHOOSE m \in Modes : TRUE
    /\ checked = FALSE /\ legacy = FALSE
    /\ artifact = Untouched /\ verdict = "not_configured" /\ trace = <<>>
    /\ damages = 0 /\ judged = "none" /\ override = {} /\ used = mode
    /\ before = Untouched /\ copy = Untouched /\ edits = 0

\* Mutant: a path that has an artifact is not recorded again.
MutRecord(f) ==
    artifact' = IF artifact[f] = Unknown THEN [artifact EXCEPT ![f] = content'[f]] ELSE artifact

\* The commit of a tool call records the affected paths as they then are.
Record(f) == artifact' = [artifact EXCEPT ![f] = content'[f]]

ToolCall ==
    /\ phase = "running"
    /\ \/ \E s \in Spellings, c \in Contents :
            /\ WriteFile(s, c) \/ PatchFile(s, c)
            /\ IF InScope(Resolved(s)) THEN Record(Resolved(s)) ELSE UNCHANGED artifact
       \/ /\ \/ \E t \in Tools : Refuse(t) \/ Look(t)
             \/ \E s \in Spellings : ReadFile(s)
             \/ \E f \in Files, t \in BOOLEAN : RunShell(f, t)
          /\ UNCHANGED artifact
    /\ UNCHANGED <<phase, mode, checked, legacy, verdict, trace, damages, judged, override,
                   used, before, copy, edits>>

\* A gate of the run, or its end, checks the contract: the commands of the
\* verifier may change files, need no approval and report nothing.  One that
\* times out leaves strays as a shell command does.  A delegated run has none.
\* MaxCalls bounds these commands and the calls together.
VerifierCommand(f) ==
    /\ phase = "running" /\ setup.depth = 0 /\ Call /\ Foreign(f)
    /\ checked' = TRUE /\ strays' \in {strays, TRUE}
    /\ UNCHANGED <<setup, original, affected, shelled, recent, summary, phase, mode, legacy,
                   artifact, verdict, trace, damages, judged, override, used, before, copy,
                   edits>>

Redact(text) == IF text \in Secrets THEN Redacted ELSE text

Recorded == {f \in Files : artifact[f] # Unknown}

\* `text` is what _offline compares of an event: the payload of the state and
\* the report, the content of an artifact, passed and status of the verifier.
\* `rest` is all else: its time, the checks and failure category of the verifier.
Event(kind, path, text, n) ==
    [kind |-> kind, path |-> path, text |-> text, rest |-> "true", sequence |-> n]

\* ask after its loop: state_patch, the artifacts, report, verifier, after the
\* trace of the run itself.
Tail4(order, outcome) ==
    LET n == Cardinality(Recorded)
    IN  <<Event("run", Outside, "true", 1), Event("state_patch", Outside, "true", 2)>>
        \o [i \in 1 .. n |-> Event("artifact", order[i], Redact(artifact[order[i]]), i + 2)]
        \o <<Event("report", Outside, "true", n + 3), Event("verifier", Outside, outcome, n + 4)>>

Finish ==
    /\ phase = "running" /\ phase' = "stored"
    /\ \E outcome \in {"passed", "failed", "not_configured"},
          order \in [1 .. Cardinality(Recorded) -> Recorded] :
         /\ \A f \in Recorded : \E i \in DOMAIN order : order[i] = f
         /\ checked => outcome # "not_configured"
         /\ verdict' = outcome /\ trace' = Tail4(order, outcome)
    /\ UNCHANGED <<toolvars, mode, checked, legacy, artifact, damages, judged, override, used,
                   before, copy, edits>>

Without(i) == SubSeq(trace, 1, i - 1) \o SubSeq(trace, i + 1, Len(trace))

\* The stored bundle loses its end or one event, or what is compared of an
\* event changes, or the rest of it, or an event is stored twice.
Damage(i) ==
    /\ phase = "stored" /\ damages < MaxDamages /\ damages' = damages + 1
    /\ \/ trace' = SubSeq(trace, 1, i - 1)
       \/ trace' = Without(i)
       \/ trace' = [trace EXCEPT ![i].text = Garbled]
       \/ trace' = [trace EXCEPT ![i].rest = Garbled]
       \/ trace' = Append(trace, trace[i])
    /\ UNCHANGED <<toolvars, phase, mode, checked, legacy, artifact, verdict, judged,
                   override, used, before, copy, edits>>

\* Mutant: sequence numbers need only be distinct.
MutContiguous ==
    \A i, j \in 1 .. Len(trace) : trace[i].sequence = trace[j].sequence => i = j

Contiguous == \A n \in 1 .. Len(trace) : \E i \in 1 .. Len(trace) : trace[i].sequence = n

\* What _offline gathers from the events of a kind; nothing if there is none.
Replayed(kind, path) ==
    {trace[i].text : i \in {j \in 1 .. Len(trace) : trace[j].kind = kind /\ trace[j].path = path}}

\* Of the verifier's outcome passed and status are compared; an absent event
\* passes for a verifier that was not configured.
VerifierMatches ==
    Replayed("verifier", Outside) = {verdict}
    \/ (Replayed("verifier", Outside) = {} /\ verdict = "not_configured")

\* Artifact digests are taken before redaction, the events are redacted.
ArtifactsMatch == \A f \in Recorded : Replayed("artifact", f) = {artifact[f]}

Consistent ==
    /\ Replayed("state_patch", Outside) = {"true"} /\ Replayed("report", Outside) = {"true"}
    /\ ArtifactsMatch /\ VerifierMatches

\* ReplayRunner._offline.
OfflineReplay ==
    /\ phase = "stored" /\ phase' = "judged"
    /\ judged' = IF ~Contiguous THEN "error" ELSE IF Consistent THEN "consistent" ELSE "inconsistent"
    /\ UNCHANGED <<toolvars, mode, checked, legacy, artifact, verdict, trace, damages,
                   override, used, before, copy, edits>>

\* ReplaySpec.validate and replay: an unreadable bundle raises, an
\* inconsistent one does not; forked takes any overrides, counterfactual one,
\* and a replay with one override is taken for counterfactual here.
\* The provider is that of the client the caller supplies.
ForkStart ==
    /\ phase = "judged" /\ judged # "error" /\ phase' = "copying"
    /\ damages = 0              \* bound: a damaged bundle is only judged
    /\ before' = content /\ edits' = 0
    /\ UNCHANGED <<toolvars, mode, checked, legacy, artifact, verdict, trace, damages,
                   judged, override, used, copy>>

\* copytree takes the files one by one.
CopyFile(f) ==
    /\ phase = "copying" /\ copy[f] = Unknown
    /\ copy' = [copy EXCEPT ![f] = content[f]]
    /\ UNCHANGED <<toolvars, phase, mode, checked, legacy, artifact, verdict, trace,
                   damages, judged, override, used, before, edits>>

\* Mutant: a client of another provider is let through.
MutResumable(source, client, keys, secretRequest, checkpoints) ==
    checkpoints /\ ~secretRequest /\ setup.policy = "never" /\ setup.depth = 0 /\ Names = Tools

\* _resume_unlocked on the copy, as replay calls it: a run that wrote no
\* checkpoint, as one without the checkpoint control, raises; the checkpoint's digest
\* is taken before its request is redacted, its identity compared with an
\* agent of approval policy "never" and the full set of tools, of the same
\* provider unless that is overridden.
Resumable(source, client, keys, secretRequest, checkpoints) ==
    /\ checkpoints
    /\ source.provider = client.provider \/ "provider" \in keys
    /\ ~secretRequest
    /\ setup.policy = "never" /\ setup.depth = 0
    /\ Names = Tools

ForkResume ==
    /\ phase = "copying" /\ \A f \in Files : copy[f] # Unknown
    /\ \E keys \in SUBSET Settings, source, client \in Modes,
          secretRequest, checkpoints, old \in BOOLEAN :
         \/ /\ Resumable(source, client, keys, secretRequest, checkpoints)
            /\ phase' = "copied" /\ mode' = source /\ override' = keys /\ legacy' = old
            /\ used' = [k \in Settings |->
                          IF k \in keys \cup {"provider"} THEN client[k] ELSE Usual[k]]
         \/ /\ ~Resumable(source, client, keys, secretRequest, checkpoints)
            /\ phase' = "mismatch" /\ UNCHANGED <<mode, override, legacy, used>>
    /\ UNCHANGED <<toolvars, checked, artifact, verdict, trace, damages, judged, before, copy, edits>>

\* The replayed ask ran in the copy; the source is digested again.
ForkEnd ==
    /\ phase = "copied" /\ phase' = "replayed"
    /\ UNCHANGED <<toolvars, mode, checked, legacy, artifact, verdict, trace, damages,
                   judged, override, used, before, copy, edits>>

\* The report of a replay.  The contract is rebuilt from a v3 bundle, so it
\* never differs; of a v1 or v2 bundle none is taken and the replay's own, which
\* has another id, always does.  Of the settings only the provider is compared.
SourceUnchanged == before = content
Confounded ==
    /\ Cardinality(override) = 1
    /\ legacy \/ (used.provider # mode.provider /\ "provider" \notin override)

\* The workspace is edited while a run is copied or replayed, and by strays of
\* a command while it runs.
Edit(f) ==
    /\ \/ phase = "running" /\ StrayWrites(f) /\ UNCHANGED edits
       \/ /\ phase \in {"copying", "copied"} /\ edits < MaxEdits /\ edits' = edits + 1
          /\ Foreign(f) /\ content' # content
          /\ UNCHANGED <<setup, original, affected, shelled, strays, recent, summary, calls>>
    /\ UNCHANGED <<phase, mode, checked, legacy, artifact, verdict, trace, damages, judged,
                   override, used, before, copy>>

Next ==
    \/ ToolCall \/ Finish \/ OfflineReplay \/ ForkStart \/ ForkResume \/ ForkEnd
    \/ \E i \in 1 .. Len(trace) : Damage(i)
    \/ \E f \in Files : CopyFile(f) \/ Edit(f) \/ VerifierCommand(f)

Spec == Init /\ [][Next]_vars

\* Unless a command of the verifier ran, the changes of the run itself are those
\* of ChangesAccounted.
RunAccounted == edits = 0 /\ ~checked => ChangesAccounted

\* A path has one artifact, of the text it has unless a shell command or one of
\* the verifier ran (Tifa.ask records it at the commit that reports the path).
ArtifactsCurrent ==
    phase \in {"running", "stored"} =>
      \A f \in Files : artifact[f] # Unknown =>
         artifact[f] = content[f] \/ shelled \/ checked

\* A bundle judged consistent still has every event of the run, except perhaps
\* the end of an unconfigured verifier, and outside the run's own steps nothing
\* that is compared of an event is altered, though the rest of it may be: the
\* checks and the failure category of the verifier too; a bundle nobody damaged
\* is judged consistent exactly when no artifact held a secret
\* (ReplayRunner._offline, RunStore.append_trace).
BundleJudged ==
    LET whole == Cardinality(Recorded) + 4
    IN  /\ judged = "consistent" =>
             /\ Len(trace) = whole \/ (Len(trace) = whole - 1 /\ verdict = "not_configured")
             /\ \A i, j \in 1 .. Len(trace) : trace[i].sequence = trace[j].sequence => i = j
             /\ \A i \in 1 .. Len(trace) : trace[i].text = Garbled => trace[i].kind = "run"
        /\ judged # "none" /\ damages = 0 =>
             (judged = "consistent" <=> \A f \in Recorded : artifact[f] \notin Secrets)

\* A replay that reports its source unchanged ran on a copy of exactly what the
\* source was, provided at most one edit happened meanwhile; and it ran with
\* the settings of the source run but for the overrides and the settings the
\* source run had changed from the usual ones (ReplayRunner.replay).
ForkFaithful ==
    phase = "replayed" =>
      /\ SourceUnchanged /\ edits <= 1 => copy = before
      /\ \A k \in Settings : used[k] # mode[k] =>
            k \in override \/ (k # "provider" /\ mode[k] # Usual[k])

\* README.md:68: "Counterfactual replay permits one registered override; extra
\* differences are `confounded`."
ExtraDifferencesConfounded ==
    phase = "replayed" /\ Cardinality(override) = 1
      => Confounded \/ \A k \in Settings \ override : used[k] = mode[k]
====
