---- MODULE AtomicFileProofs ----
(***************************************************************************)
(* Why a JSON file replaced under a temporary name is never found partial: *)
(* without two overlapping writers of one name every open writer still     *)
(* writes to its temporary file, which is its own.  Proved for any number  *)
(* of writers and any assignment of temporary names to them.               *)
(***************************************************************************)
EXTENDS AtomicFile, TLAPS

\* What holds while no two writers of one name overlapped.
Alone ==
    /\ file \in {"absent", "whole"}
    /\ \A w \in Writers : stage[w] \in {"idle", "temp", "written"}
    /\ \A w \in Writers : stage[w] = "temp" => temp[tempOf[w]] = "empty"
    /\ \A w \in Writers : stage[w] = "written" => temp[tempOf[w]] = "whole"
    /\ \A v, w \in Writers :
         stage[v] # "idle" /\ stage[w] # "idle" /\ tempOf[v] = tempOf[w] => v = w

AtomicInv == AtomicTypeOK /\ (rivals \/ Alone)

\* A whole text or a mixture is a text.
LEMMA OverType == \A text \in Texts : Over(text) \subseteq Texts
  BY DEF Over, Texts

\* Every operation on the file keeps the types (stores.atomic_json).
LEMMA AtomicTypeStep ==
  Assigned /\ AtomicTypeOK /\ [AtomicNext]_avars => AtomicTypeOK'
<1> SUFFICES ASSUME Assigned, AtomicTypeOK, [AtomicNext]_avars
             PROVE  AtomicTypeOK'
    OBVIOUS
<1> USE DEF Assigned
<1>1. ASSUME NEW w \in Writers, OpenTemp(w) PROVE AtomicTypeOK'
  BY <1>1 DEF AtomicTypeOK, OpenTemp, Texts, Stages
<1>2. ASSUME NEW w \in Writers, Flush(w) PROVE AtomicTypeOK'
  <2>1. stage' \in [Writers -> Stages] /\ rivals' \in BOOLEAN
    BY <1>2 DEF AtomicTypeOK, Flush, Stages
  <2>2. CASE \E text \in Over(temp[tempOf[w]]) :
               temp' = [temp EXCEPT ![tempOf[w]] = text] /\ UNCHANGED file
    BY <2>1, <2>2, OverType DEF AtomicTypeOK
  <2>3. CASE file' \in Over(file) /\ UNCHANGED temp
    BY <2>1, <2>3, OverType DEF AtomicTypeOK
  <2>4. CASE UNCHANGED <<temp, file>>
    BY <2>1, <2>4 DEF AtomicTypeOK
  <2> QED  BY <1>2, <2>2, <2>3, <2>4 DEF Flush
<1>3. ASSUME NEW w \in Writers, Rename(w) PROVE AtomicTypeOK'
  BY <1>3 DEF AtomicTypeOK, Rename, Texts, Stages
<1>4. ASSUME NEW w \in Writers, RenameFails(w) \/ Abandon(w) PROVE AtomicTypeOK'
  BY <1>4 DEF AtomicTypeOK, RenameFails, Abandon, Stages
<1>5. CASE UNCHANGED avars
  BY <1>5 DEF AtomicTypeOK, avars
<1> QED  BY <1>1, <1>2, <1>3, <1>4, <1>5 DEF AtomicNext

\* One operation of a lone writer leaves it alone, or makes it a rival.
LEMMA AloneStep ==
  Assigned /\ AtomicTypeOK /\ (rivals \/ Alone) /\ [AtomicNext]_avars
    => rivals' \/ Alone'
<1> SUFFICES ASSUME Assigned, AtomicTypeOK, rivals \/ Alone, [AtomicNext]_avars, ~rivals'
             PROVE  Alone'
    OBVIOUS
<1> USE DEF Assigned
<1>1. ASSUME NEW w \in Writers, OpenTemp(w) PROVE Alone'
  <2>1. Alone /\ \A v \in Writers \ {w} : tempOf[v] = tempOf[w] => stage[v] = "idle"
    BY <1>1 DEF OpenTemp
  <2>2. \A v \in Writers : v # w => stage'[v] = stage[v]
    BY <1>1 DEF OpenTemp, AtomicTypeOK
  <2>3. stage'[w] = "temp" /\ temp'[tempOf[w]] = "empty" /\ file' = file
    BY <1>1 DEF OpenTemp, AtomicTypeOK
  <2>4. \A v \in Writers : v # w /\ stage[v] # "idle" => temp'[tempOf[v]] = temp[tempOf[v]]
    BY <1>1, <2>1 DEF OpenTemp, AtomicTypeOK
  <2> QED  BY <2>1, <2>2, <2>3, <2>4 DEF Alone
<1>2. ASSUME NEW w \in Writers, Flush(w) PROVE Alone'
  <2>1. Alone /\ stage[w] = "temp"
    BY <1>2 DEF Flush, Alone
  <2>2. temp' = [temp EXCEPT ![tempOf[w]] = "whole"] /\ file' = file
    BY <1>2, <2>1 DEF Flush, Alone, Over
  <2>3. stage' = [stage EXCEPT ![w] = "written"]
    BY <1>2 DEF Flush
  <2>4. \A v \in Writers : v # w /\ stage[v] # "idle" => tempOf[v] # tempOf[w]
    BY <2>1 DEF Alone
  <2> QED  BY <2>1, <2>2, <2>3, <2>4 DEF Alone, AtomicTypeOK
<1>3. ASSUME NEW w \in Writers, Rename(w) PROVE Alone'
  <2>1. Alone /\ stage[w] = "written" /\ temp[tempOf[w]] = "whole"
    BY <1>3 DEF Rename, Alone
  <2>2. \A v \in Writers : v # w /\ stage[v] # "idle" => tempOf[v] # tempOf[w]
    BY <2>1 DEF Alone
  <2>3. stage'[w] = "idle" /\ \A v \in Writers : v # w => stage'[v] = stage[v]
    BY <1>3, <2>1, <2>2 DEF Rename, Alone
  <2>4. file' = "whole" /\ \A v \in Writers : v # w /\ stage[v] # "idle"
                              => temp'[tempOf[v]] = temp[tempOf[v]]
    BY <1>3, <2>1, <2>2 DEF Rename, AtomicTypeOK
  <2> QED  BY <2>1, <2>2, <2>3, <2>4 DEF Alone
<1>4. ASSUME NEW w \in Writers, RenameFails(w) \/ Abandon(w) PROVE Alone'
  BY <1>4 DEF AtomicTypeOK, Alone, RenameFails, Abandon
<1>5. CASE UNCHANGED avars
  BY <1>5 DEF Alone, avars
<1> QED  BY <1>1, <1>2, <1>3, <1>4, <1>5 DEF AtomicNext

\* The file starts whole or absent, with no writer.
LEMMA AtomicInitInv == Assigned /\ AtomicInit => AtomicInv
  BY DEF Assigned, AtomicInit, AtomicInv, AtomicTypeOK, Alone, Texts, Stages

\* A file is found partial, and a writer loses its temporary file, only where
\* two writers of one temporary name overlapped: for any number of writers and
\* names (stores.atomic_json, WorkspaceContext.build, DurableMemoryStore.save).
THEOREM FilesStayIntact == ASSUME Assigned PROVE AtomicSpec => []Intact
<1>1. AtomicInv /\ [AtomicNext]_avars => AtomicInv'
  BY Assigned, AtomicTypeStep, AloneStep DEF AtomicInv
<1>2. AtomicInv => Intact
  BY DEF AtomicInv, Alone, Intact
<1>3. AtomicInit => AtomicInv
  BY Assigned, AtomicInitInv
<1> QED  BY <1>1, <1>2, <1>3, PTL DEF AtomicSpec

\* Where every writer has a temporary name of its own no two ever overlap, so
\* that the file is never found partial at all: the process id in the name is
\* what makes atomic_json atomic (stores.atomic_json).
THEOREM OwnNamesSuffice ==
  ASSUME Assigned, OwnNames PROVE AtomicSpec => [](~rivals /\ file \in {"absent", "whole"})
<1> DEFINE Lone == AtomicInv /\ ~rivals
<1>1. AtomicInit => Lone
  BY Assigned, AtomicInitInv DEF AtomicInit
<1>2. Lone /\ [AtomicNext]_avars => Lone'
  <2> SUFFICES ASSUME Lone, [AtomicNext]_avars PROVE Lone'
    OBVIOUS
  <2>1. AtomicInv'
    BY Assigned, AtomicTypeStep, AloneStep DEF AtomicInv
  <2>2. ~rivals'
    BY OwnNames DEF OwnNames, AtomicNext, OpenTemp, Flush, Rename, RenameFails, Abandon, avars
  <2> QED  BY <2>1, <2>2
<1>3. Lone => ~rivals /\ file \in {"absent", "whole"}
  BY DEF AtomicInv, Alone
<1> QED  BY <1>1, <1>2, <1>3, PTL DEF AtomicSpec
====
