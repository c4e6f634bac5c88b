---- MODULE ToolRegistry ----
(***************************************************************************)
(* The tools of one run: what a call may do to the workspace, what it      *)
(* reports as changed, and what layered memory keeps of it.  A call        *)
(* passes, in the order of the code, availability, argument validation,    *)
(* approval, path resolution and the write scope of the contract; a call   *)
(* that stops at any of these raises and changes nothing but, for          *)
(* write_file, the parent directory made before the scope is checked.      *)
(* Paths in a call are spellings: several resolve to one file.             *)
(***************************************************************************)
EXTENDS Integers, Sequences, FiniteSets

CONSTANTS Files,        \* canonical paths
          Spellings,    \* path arguments
          Plain,        \* spellings that are POSIX-style and relative
          Canon,        \* file a spelling resolves to, or Outside
          Outside,
          Contents, Absent, Unknown,
          MaxRecent,    \* length of recent_files (12)
          Setups,       \* how the runs are configured
          Workspaces,   \* the files the runs begin with
          MaxCalls      \* bound: tool calls of a run

HighRisk == {"run_shell", "write_file", "patch_file"}
ReadOnly == {"list_files", "read_file", "search", "delegate"}
Tools == HighRisk \cup ReadOnly

ASSUME ToolAssumption ==
    /\ Outside \notin Files /\ Plain \subseteq Spellings
    /\ Canon \in [Spellings -> Files \cup {Outside}]
    /\ Absent \notin Contents /\ Unknown \notin Contents \cup {Absent}
    /\ Workspaces \subseteq [Files -> Contents \cup {Absent}]
    /\ MaxRecent \in Nat /\ MaxCalls \in Nat
    /\ Setups \subseteq
         [policy : {"never", "on-risk", "always"}, approver : BOOLEAN, depth : 0 .. 1,
          delegate : BOOLEAN, allowed : SUBSET Tools, scope : SUBSET Files,
          normalize : BOOLEAN, memory : BOOLEAN]

VARIABLES setup,
          original,     \* history: the files when the run began
          content,      \* the files
          folder,       \* files whose parent directory exists
          affected,     \* affected_paths of the run
          shelled,      \* history: a shell command ran
          strays,       \* processes of a timed-out command live on
          recent,       \* memory: recent_files, oldest first
          summary,      \* memory: file_summaries
          behind,       \* history: summaries whose file changed by another way
          calls

toolvars == <<setup, original, content, folder, affected, shelled, strays, recent, summary,
              behind, calls>>

ToolTypeOK ==
    /\ setup \in Setups
    /\ original \in [Files -> Contents \cup {Absent}]
    /\ content \in [Files -> Contents \cup {Absent}]
    /\ folder \in SUBSET Files /\ affected \in SUBSET Files
    /\ shelled \in BOOLEAN /\ strays \in BOOLEAN
    /\ recent \in Seq(Spellings)
    /\ summary \in [Spellings -> Contents \cup {Unknown}]
    /\ behind \in SUBSET Spellings
    /\ calls \in 0 .. MaxCalls

ToolInit ==
    /\ setup \in Setups
    /\ original \in Workspaces /\ content = original
    /\ folder = {f \in Files : original[f] # Absent}
    /\ affected = {} /\ shelled = FALSE /\ strays = FALSE
    /\ recent = <<>> /\ summary = [s \in Spellings |-> Unknown] /\ behind = {}
    /\ calls = 0

\* ToolRegistry.names: a delegated investigation has the reading tools only.
Names ==
    {t \in setup.allowed :
       IF setup.depth > 0 THEN t \in ReadOnly /\ t # "delegate"
       ELSE t = "delegate" => setup.delegate}

\* Mutant: a risky tool needs no approver under "on-risk".
MutApproved(t) == setup.policy = "always" => setup.approver

\* _approve: "never" never asks; otherwise an approver must be there and agree.
Approved(t) ==
    (setup.policy = "always" \/ (setup.policy = "on-risk" /\ t \in HighRisk)) => setup.approver

Admitted(t) == t \in Names /\ Approved(t)

\* WorkspaceContext.resolve, to Outside where it raises.
Resolved(s) == IF setup.normalize \/ s \in Plain THEN Canon[s] ELSE Outside

\* _check_write_path: no writable_paths, no restriction.
InScope(f) == setup.scope = {} \/ f \in setup.scope

\* Mutant: one call too many.
MutCall == calls <= MaxCalls /\ calls' = calls + 1

Call == calls < MaxCalls /\ calls' = calls + 1

\* recent.remove(path) takes the first occurrence out.
Others(s) ==
    IF \A i \in 1 .. Len(recent) : recent[i] # s THEN recent
    ELSE LET first == CHOOSE i \in 1 .. Len(recent) :
                        recent[i] = s /\ \A j \in 1 .. i - 1 : recent[j] # s
         IN  [j \in 1 .. Len(recent) - 1 |-> recent[IF j < first THEN j ELSE j + 1]]

\* remember_file: the path moves to the end, the oldest is dropped.
Remember(s) ==
    LET kept == Append(Others(s), s)
    IN  recent' = IF setup.memory
                  THEN IF Len(kept) > MaxRecent THEN Tail(kept) ELSE kept
                  ELSE recent

SameFile(s) == {p \in Spellings \ {s} : Canon[p] = Canon[s]}

\* An unavailable tool, invalid arguments, a refusal, an unusable path, a
\* failing command: the call is answered with an error.
Refuse(t) ==
    /\ Call
    /\ UNCHANGED <<setup, original, content, folder, affected, shelled, strays, recent,
                   summary, behind>>

\* list_files, search and delegate leave the workspace and memory alone: the
\* delegate works on a copy of the memory with the tools of depth 1.
Look(t) ==
    /\ Call /\ t \in {"list_files", "search", "delegate"} /\ Admitted(t)
    /\ UNCHANGED <<setup, original, content, folder, affected, shelled, strays, recent,
                   summary, behind>>

ReadFile(s) ==
    LET f == Resolved(s)
    IN  /\ Call /\ Admitted("read_file") /\ f \in Files /\ content[f] # Absent
        /\ Remember(s)
        /\ summary' = IF setup.memory THEN [summary EXCEPT ![s] = content[f]] ELSE summary
        /\ behind' = behind \ {s}
        /\ UNCHANGED <<setup, original, content, folder, affected, shelled, strays>>

\* Mutant: a write only moves its path to the end of the recent files.
MutInvalidate(s) ==
    Remember(s) /\ behind' = (behind \cup SameFile(s)) \ {s} /\ UNCHANGED summary

\* after_tool of a write: the summary is dropped under the spelling of the call.
Invalidate(s) ==
    /\ Remember(s)
    /\ summary' = IF setup.memory THEN [summary EXCEPT ![s] = Unknown] ELSE summary
    /\ behind' = (behind \cup SameFile(s)) \ {s}

Write(f, c) ==
    /\ content' = [content EXCEPT ![f] = c]
    /\ affected' = affected \cup {f}
    /\ UNCHANGED <<setup, original, shelled, strays>>

WriteFile(s, c) ==
    LET f == Resolved(s)
    IN  /\ Call /\ Admitted("write_file") /\ f \in Files
        /\ folder' = folder \cup {f}
        /\ \/ InScope(f) /\ Write(f, c) /\ Invalidate(s)
           \/ ~InScope(f) /\ UNCHANGED <<setup, original, content, affected, shelled, strays,
                                         recent, summary, behind>>

\* patch_file: the text replaced must occur exactly once, so the file is there.
PatchFile(s, c) ==
    LET f == Resolved(s)
    IN  /\ Call /\ Admitted("patch_file") /\ f \in Files /\ content[f] # Absent
        /\ InScope(f) /\ Write(f, c) /\ Invalidate(s)
        /\ UNCHANGED folder

\* A process other than the tools changes, makes or removes a file.
Foreign(f) ==
    /\ \E c \in Contents \cup {Absent} : content' = [content EXCEPT ![f] = c]
    /\ folder' = folder \cup {f}
    /\ behind' = behind \cup {s \in Spellings : Canon[s] = f}

\* run_shell: the command may change any file and reports none.  Where it
\* times out on POSIX only the direct child is killed.
RunShell(f, timedOut) ==
    /\ Call /\ Admitted("run_shell") /\ Foreign(f)
    /\ shelled' = TRUE /\ strays' = (strays \/ timedOut)
    /\ UNCHANGED <<setup, original, affected, recent, summary>>

StrayWrites(f) ==
    /\ strays /\ Foreign(f)
    /\ UNCHANGED <<setup, original, affected, shelled, strays, recent, summary, calls>>

ToolNext ==
    \/ \E t \in Tools : Refuse(t) \/ Look(t)
    \/ \E s \in Spellings : ReadFile(s) \/ \E c \in Contents : WriteFile(s, c) \/ PatchFile(s, c)
    \/ \E f \in Files : StrayWrites(f) \/ \E t \in BOOLEAN : RunShell(f, t)

ToolSpec == ToolInit /\ [][ToolNext]_toolvars

\* A file differs from what the run began with only where the run reports it
\* in affected_paths and the contract lets it be written, or a shell command
\* ran; with no approver where one is needed, or in a delegated investigation,
\* neither happens (ToolRegistry.run).
ChangesAccounted ==
    /\ \A f \in Files : content[f] # original[f] => shelled \/ (f \in affected /\ InScope(f))
    /\ (setup.depth > 0 \/ (setup.policy # "never" /\ ~setup.approver))
         => content = original /\ affected = {}
    /\ strays => shelled

\* Memory shows the file as it is, unless the file was changed by a shell
\* command or under another spelling since it was read; and its list of recent
\* files names no path twice (LayeredMemory.after_tool).
MemoryFresh ==
    /\ \A s \in Spellings :
         summary[s] # Unknown /\ s \notin behind => summary[s] = content[Canon[s]]
    /\ Len(recent) <= MaxRecent
    /\ \A i, j \in 1 .. Len(recent) : recent[i] = recent[j] => i = j
====
