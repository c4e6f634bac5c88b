---- MODULE AtomicFile ----
(***************************************************************************)
(* A JSON file replaced as a whole: written under a temporary name, then   *)
(* renamed onto the file.  atomic_json names the temporary file after the  *)
(* process; the workspace index, the memory file and migrate_artifact use  *)
(* one fixed name.  tempOf gives the name each writer uses, so the two     *)
(* designs are two values of one constant.  POSIX semantics: opening for   *)
(* writing truncates the file that has the name, a rename moves the file   *)
(* an open descriptor writes to, and a file whose name is taken by another *)
(* lives on unnamed.                                                       *)
(***************************************************************************)
CONSTANTS Writers, Names, tempOf

Assigned == tempOf \in [Writers -> Names]

VARIABLES temp,     \* the text under each temporary name
          file,     \* the text under the file's own name
          stage,    \* how far each writer is; an open writer: where its file now is
          rivals    \* history: two writers of one temporary name overlapped

avars == <<temp, file, stage, rivals>>

\* "empty": created or truncated, nothing flushed; "torn": two texts mixed.
Texts == {"absent", "empty", "whole", "torn"}
Stages == {"idle", "temp", "file", "unnamed", "written"}

AtomicTypeOK ==
    /\ temp \in [Names -> Texts]
    /\ file \in Texts
    /\ stage \in [Writers -> Stages]
    /\ rivals \in BOOLEAN

AtomicInit ==
    /\ temp = [n \in Names |-> "absent"]
    /\ file \in {"absent", "whole"}
    /\ stage = [w \in Writers |-> "idle"]
    /\ rivals = FALSE

\* What a whole text written over the given text leaves: two texts of
\* different lengths may mix.
Over(text) == IF text = "empty" THEN {"whole"} ELSE {"whole", "torn"}

OpenTemp(w) ==
    /\ stage[w] = "idle"
    /\ temp' = [temp EXCEPT ![tempOf[w]] = "empty"]
    /\ stage' = [stage EXCEPT ![w] = "temp"]
    /\ rivals' = (rivals \/ \E v \in Writers \ {w} : tempOf[v] = tempOf[w] /\ stage[v] # "idle")
    /\ UNCHANGED file

Flush(w) ==
    /\ \/ stage[w] = "temp" /\ (\E text \in Over(temp[tempOf[w]]) :
              temp' = [temp EXCEPT ![tempOf[w]] = text]) /\ UNCHANGED file
       \/ stage[w] = "file" /\ file' \in Over(file) /\ UNCHANGED temp
       \/ stage[w] = "unnamed" /\ UNCHANGED <<temp, file>>
    /\ stage' = [stage EXCEPT ![w] = "written"]
    /\ UNCHANGED rivals

\* temp.replace(path): every descriptor open on the temporary file follows it.
Rename(w) ==
    /\ stage[w] = "written" /\ temp[tempOf[w]] # "absent"
    /\ file' = temp[tempOf[w]]
    /\ temp' = [temp EXCEPT ![tempOf[w]] = "absent"]
    /\ stage' = [v \in Writers |->
                   IF v = w THEN "idle"
                   ELSE IF stage[v] = "file" THEN "unnamed"
                   ELSE IF stage[v] = "temp" /\ tempOf[v] = tempOf[w] THEN "file"
                   ELSE stage[v]]
    /\ UNCHANGED rivals

\* The temporary name is gone: FileNotFoundError, raised to the caller.
RenameFails(w) ==
    /\ stage[w] = "written" /\ temp[tempOf[w]] = "absent"
    /\ stage' = [stage EXCEPT ![w] = "idle"]
    /\ UNCHANGED <<temp, file, rivals>>

\* The writer's process ends: what it wrote stays under whatever name it has.
Abandon(w) ==
    /\ stage' = [stage EXCEPT ![w] = "idle"]
    /\ UNCHANGED <<temp, file, rivals>>

AtomicNext == \E w \in Writers :
    OpenTemp(w) \/ Flush(w) \/ Rename(w) \/ RenameFails(w) \/ Abandon(w)

AtomicSpec == AtomicInit /\ [][AtomicNext]_avars

\* Without two overlapping writers of one temporary name no reader finds a
\* partial or mixed text, and no writer loses its temporary file before the
\* rename (atomic_json; WorkspaceContext.build and DurableMemoryStore.save when
\* alone).
Intact ==
    rivals \/ /\ file \in {"absent", "whole"}
              /\ \A w \in Writers : stage[w] = "written" => temp[tempOf[w]] = "whole"

\* With a name of its own for every writer, two never overlap on one.
OwnNames == \A v, w \in Writers : tempOf[v] = tempOf[w] => v = w
====
