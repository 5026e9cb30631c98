------------------------- MODULE EditorFiles_proofs -------------------------
(***************************************************************************)
(* Proofs about EditorFiles, for every set of files and of texts.          *)
(***************************************************************************)
EXTENDS EditorFiles, TLAPS

(* A file with no unsaved mark holds what was last loaded or saved.        *)
CleanMeansKept == \A f \in Files : ~ files[f].dirty => files[f].src = kept[f]

IInv == TypeOK /\ InSync /\ CleanMeansKept

-----------------------------------------------------------------------------
(* A reload of F changes the texts of F's files that exist, to what is on  *)
(* disk (Editor::ReloadFile).                                              *)
LEMMA ReloadTypes ==
  ASSUME TypeOK, NEW F, ReloadFiles(F)
  PROVE  /\ shown' \in [Files -> Texts] /\ kept' \in [Files -> Texts]
         /\ touched' \subseteq Files
         /\ last' \in [Files -> {"ours", "theirs", "answer"}]
         /\ TextAfter(F) \in [Files -> Texts]
BY SMT DEF TypeOK, ReloadFiles, TextAfter, Reloadable

(* Which file is reloaded, and what that gives it.                         *)
LEMMA ReloadEffect ==
  ASSUME TypeOK, NEW F, ReloadFiles(F), NEW f \in Files
  PROVE  \/ /\ f \in F /\ disk[f] # Missing /\ f \notin touched'
            /\ TextAfter(F)[f] = disk[f] /\ kept'[f] = disk[f] /\ last'[f] = "ours"
         \/ /\ f \notin F \/ disk[f] = Missing
            /\ (f \in touched' <=> f \in touched)
            /\ TextAfter(F)[f] = files[f].src /\ kept'[f] = kept[f]
            /\ last'[f] = last[f]
BY SMT DEF TypeOK, ReloadFiles, TextAfter, Reloadable

(* The initial states satisfy the invariant (SourceFile's constructor).    *)
LEMMA InitIInv == Init => IInv
<1> SUFFICES ASSUME Init PROVE IInv
  OBVIOUS
<1>1. files \in [Files -> [src : Texts, dirty : BOOLEAN, check : BOOLEAN]]
  BY SMT DEF Init
<1>2. kept = disk /\ \A f \in Files : files[f].src = disk[f]
  BY Zenon DEF Init
<1>3. TypeOK
  <2>1. shown \in [Files -> Texts] /\ kept \in [Files -> Texts]
    BY Zenon DEF Init
  <2>2. disk \in [Files -> Texts \cup {Missing}]
    BY SMT DEF Init
  <2>3. last \in [Files -> {"ours", "theirs", "answer"}]
    BY SMT DEF Init
  <2>4. touched = {} /\ prompt = {} /\ dialog = FALSE
    BY DEF Init
  <2> QED BY <1>1, <2>1, <2>2, <2>3, <2>4 DEF TypeOK
<1> QED BY <1>2, <1>3 DEF IInv, InSync, CleanMeansKept

(* The file that is checked is reloaded, or only asked about, or neither.  *)
LEMMA CheckEffect ==
  ASSUME NEW f \in Files
  PROVE  /\ ReloadedUnasked(f) \subseteq {f}
         /\ f \in ReloadedUnasked(f) => ~ files[f].dirty
BY DEF ReloadedUnasked, Asks

(* A step of the check keeps the invariant.                                *)
LEMMA CheckKeepsIInv ==
  ASSUME IInv, NEW f \in Files, CheckForFileChanges(f)
  PROVE  IInv'
<1> DEFINE F == ReloadedUnasked(f)
           text == TextAfter(F)[f]
<1>1. /\ F \subseteq {f} /\ ReloadFiles(F)
      /\ files' = [files EXCEPT ![f] = [check |-> FALSE, dirty |-> @.dirty, src |-> text]]
      /\ prompt' = prompt \/ prompt' = prompt \cup {f}
      /\ disk' = disk /\ dialog' = dialog
  BY CheckEffect DEF CheckForFileChanges
<1>2. text \in Texts
  BY <1>1, ReloadTypes DEF IInv
<1> HIDE DEF F, text
<1>3. TypeOK'
  <2>1. files' \in [Files -> [src : Texts, dirty : BOOLEAN, check : BOOLEAN]]
    BY <1>1, <1>2, SMT DEF IInv, TypeOK
  <2> QED BY <1>1, <2>1, ReloadTypes, SMT DEF IInv, TypeOK
<1>4. ASSUME NEW g \in Files
      PROVE  /\ files'[g].dirty = files[g].dirty
             /\ files'[g].src = TextAfter(F)[g]
  <2>1. CASE g = f
    BY <1>1, <2>1, SMT DEF IInv, TypeOK, text
  <2>2. CASE g # f
    <3>1. TextAfter(F)[g] = files[g].src
      BY <1>1, <2>2, ReloadEffect DEF IInv
    <3> QED BY <1>1, <2>2, <3>1, SMT DEF IInv, TypeOK
  <2> QED BY <2>1, <2>2
<1>5. ASSUME NEW g \in Files, ~ files'[g].dirty
      PROVE  /\ files'[g].src = kept'[g]
             /\ g \notin touched' /\ disk'[g] # Missing /\ last'[g] # "answer"
                  => files'[g].src = disk'[g]
  <2>1. CASE g \in F /\ disk[g] # Missing
    BY <1>1, <1>4, <2>1, ReloadEffect DEF IInv
  <2>2. CASE g \notin F \/ disk[g] = Missing
    <3>1. /\ g \in touched' <=> g \in touched
          /\ TextAfter(F)[g] = files[g].src
          /\ kept'[g] = kept[g] /\ last'[g] = last[g]
      BY <1>1, <2>2, ReloadEffect DEF IInv
    <3>2. ~ files[g].dirty /\ files'[g].src = files[g].src /\ disk'[g] = disk[g]
      BY <1>1, <1>4, <1>5, <3>1
    <3> QED BY <3>1, <3>2 DEF IInv, InSync, CleanMeansKept
  <2> QED BY <2>1, <2>2
<1> QED BY <1>3, <1>5 DEF IInv, InSync, CleanMeansKept

(* The dialog's Reload keeps the invariant: what it replaces it replaces   *)
(* in the SourceFile as well.                                              *)
LEMMA ReloadAllKeepsIInv == IInv /\ ReloadAll => IInv'
<1> SUFFICES ASSUME IInv, ReloadAll PROVE IInv'
  OBVIOUS
<1>1. ReloadFiles(prompt) /\ disk' = disk
  BY DEF ReloadAll
<1>2. ASSUME NEW g \in Files
      PROVE  /\ files'[g].dirty = files[g].dirty
             /\ files'[g].src = TextAfter(prompt)[g]
  BY SMT DEF IInv, TypeOK, ReloadAll
<1>3. TypeOK'
  <2>1. TextAfter(prompt) \in [Files -> Texts]
    BY <1>1, ReloadTypes DEF IInv
  <2>2. files' \in [Files -> [src : Texts, dirty : BOOLEAN, check : BOOLEAN]]
    BY <2>1, SMT DEF IInv, TypeOK, ReloadAll
  <2>3. prompt' = {} /\ dialog' = FALSE
    BY DEF ReloadAll
  <2>4. TypeOK
    BY DEF IInv
  <2> QED BY <1>1, <2>2, <2>3, <2>4, ReloadTypes, Zenon DEF TypeOK
<1>4. ASSUME NEW g \in Files, ~ files'[g].dirty
      PROVE  /\ files'[g].src = kept'[g]
             /\ g \notin touched' /\ disk'[g] # Missing /\ last'[g] # "answer"
                  => files'[g].src = disk'[g]
  <2>1. CASE g \in prompt /\ disk[g] # Missing
    BY <1>1, <1>2, <2>1, ReloadEffect DEF IInv
  <2>2. CASE g \notin prompt \/ disk[g] = Missing
    <3>1. /\ g \in touched' <=> g \in touched
          /\ TextAfter(prompt)[g] = files[g].src
          /\ kept'[g] = kept[g] /\ last'[g] = last[g]
      BY <1>1, <2>2, ReloadEffect DEF IInv
    <3>2. ~ files[g].dirty /\ files'[g].src = files[g].src /\ disk'[g] = disk[g]
      BY <1>1, <1>2, <1>4, <3>1
    <3> QED BY <3>1, <3>2 DEF IInv, InSync, CleanMeansKept
  <2> QED BY <2>1, <2>2
<1> QED BY <1>3, <1>4 DEF IInv, InSync, CleanMeansKept

-----------------------------------------------------------------------------
(* Every step keeps the invariant. *)
LEMMA NextIInv == IInv /\ [Next]_vars => IInv'
<1> SUFFICES ASSUME IInv, [Next]_vars PROVE IInv'
  OBVIOUS
<1> USE DEF IInv
<1>1. CASE OnWindowFocusGained
  <2>1. files' \in [Files -> [src : Texts, dirty : BOOLEAN, check : BOOLEAN]]
    <3>1. ASSUME NEW f \in Files
          PROVE  [files[f] EXCEPT !.check = TRUE] \in [src : Texts, dirty : BOOLEAN, check : BOOLEAN]
      <4>1. files[f] \in [src : Texts, dirty : BOOLEAN, check : BOOLEAN]
        BY DEF TypeOK
      <4> QED BY <4>1, Zenon
    <3> QED BY <1>1, <3>1, Zenon DEF OnWindowFocusGained
  <2>2. \A f \in Files : files'[f].src = files[f].src /\ files'[f].dirty = files[f].dirty
    BY <1>1, SMT DEF OnWindowFocusGained, TypeOK
  <2>3. UNCHANGED <<disk, touched, shown, prompt, dialog, kept, last>>
    BY <1>1 DEF OnWindowFocusGained
  <2> QED BY <2>1, <2>2, <2>3 DEF TypeOK, InSync, CleanMeansKept
<1>2. CASE OpenDialog
  BY <1>2, SMT DEF OpenDialog, TypeOK, InSync, CleanMeansKept
<1>3. CASE ReloadAll
  BY <1>3, ReloadAllKeepsIInv
<1>4. CASE KeepChanges
  <2>1. last' \in [Files -> {"ours", "theirs", "answer"}]
    BY <1>4, SMT DEF KeepChanges, TypeOK
  <2>2. \A f \in Files : last'[f] # "answer" =>
          last[f] # "answer" /\ (f \in touched' <=> f \in touched)
    BY <1>4, SMT DEF KeepChanges, Reloadable, TypeOK
  <2>3. /\ UNCHANGED <<disk, files, shown, kept>>
        /\ touched' \subseteq touched /\ prompt' = {} /\ dialog' = FALSE
    BY <1>4 DEF KeepChanges
  <2> QED BY <2>1, <2>2, <2>3 DEF TypeOK, InSync, CleanMeansKept
<1>5. ASSUME NEW f \in Files, CheckForFileChanges(f) PROVE IInv'
  BY <1>5, CheckKeepsIInv
<1>6. ASSUME NEW f \in Files, Save(f) PROVE IInv'
  <2>1. files' \in [Files -> [src : Texts, dirty : BOOLEAN, check : BOOLEAN]]
    <3>1. [files[f] EXCEPT !.dirty = FALSE] \in [src : Texts, dirty : BOOLEAN, check : BOOLEAN]
      <4>1. files[f] \in [src : Texts, dirty : BOOLEAN, check : BOOLEAN]
        BY DEF TypeOK
      <4> QED BY <4>1, Zenon
    <3>2. files' = [files EXCEPT ![f] = [files[f] EXCEPT !.dirty = FALSE]]
      BY <1>6, SMT DEF Save, TypeOK
    <3> QED BY <3>1, <3>2, Zenon DEF TypeOK
  <2>2. /\ disk' \in [Files -> Texts \cup {Missing}] /\ kept' \in [Files -> Texts]
        /\ last' \in [Files -> {"ours", "theirs", "answer"}]
        /\ touched' = touched \cup {f} /\ UNCHANGED <<shown, prompt, dialog>>
    BY <1>6, SMT DEF Save, TypeOK
  <2>3. kept'[f] = files[f].src /\ files'[f].src = files[f].src
    BY <1>6, SMT DEF Save, TypeOK
  <2>4. \A g \in Files \ {f} : /\ files'[g] = files[g] /\ disk'[g] = disk[g]
                              /\ kept'[g] = kept[g] /\ last'[g] = last[g]
    BY <1>6, SMT DEF Save, TypeOK
  <2>5. TypeOK'
    BY <2>1, <2>2 DEF TypeOK
  <2>6. InSync' /\ CleanMeansKept'
    BY <2>2, <2>3, <2>4 DEF InSync, CleanMeansKept
  <2> QED BY <2>5, <2>6
<1>7. ASSUME NEW f \in Files, DeleteOutside(f) PROVE IInv'
  BY <1>7, SMT DEF DeleteOutside, TypeOK, InSync, CleanMeansKept
<1>8. ASSUME NEW f \in Files, NEW t \in Texts, WriteOutside(f, t) PROVE IInv'
  BY <1>8, SMT DEF WriteOutside, TypeOK, InSync, CleanMeansKept
<1>9. ASSUME NEW f \in Files, NEW t \in Texts, Typed(f, t) PROVE IInv'
  <2>1. CASE files[f].src = t
    BY <1>9, <2>1, SMT DEF Typed, SetText, TypeOK, InSync, CleanMeansKept
  <2>2. CASE files[f].src # t
    <3>1. /\ files' = [files EXCEPT ![f] = [@ EXCEPT !.src = t, !.dirty = TRUE]]
          /\ shown' = [shown EXCEPT ![f] = t]
          /\ UNCHANGED <<disk, touched, prompt, dialog, kept, last>>
      BY <1>9, <2>2 DEF Typed, SetText
    <3>2. files' \in [Files -> [src : Texts, dirty : BOOLEAN, check : BOOLEAN]]
      <4>1. [files[f] EXCEPT !.src = t, !.dirty = TRUE] \in [src : Texts, dirty : BOOLEAN, check : BOOLEAN]
        <5>1. files[f] \in [src : Texts, dirty : BOOLEAN, check : BOOLEAN]
          BY DEF TypeOK
        <5> QED BY <5>1, Zenon
      <4> QED BY <3>1, <4>1, Zenon DEF TypeOK
    <3>3. files'[f].dirty /\ \A g \in Files \ {f} : files'[g] = files[g]
      BY <3>1, SMT DEF TypeOK
    <3>4. TypeOK'
      BY <3>1, <3>2, SMT DEF TypeOK
    <3>5. InSync' /\ CleanMeansKept'
      BY <3>1, <3>3 DEF InSync, CleanMeansKept
    <3> QED BY <3>4, <3>5
  <2> QED BY <2>1, <2>2
<1>10. ASSUME NEW f \in Files, NEW t \in Texts, MenuEdit(f, t) PROVE IInv'
  BY <1>10, SMT DEF MenuEdit, TypeOK, InSync, CleanMeansKept
<1>11. CASE UNCHANGED vars
  BY <1>11 DEF vars, TypeOK, InSync, CleanMeansKept
<1> QED
  BY <1>1, <1>2, <1>3, <1>4, <1>5, <1>6, <1>7, <1>8, <1>9, <1>10, <1>11 DEF Next

(* The invariant of the editor's files.                                    *)
THEOREM Invariance == Spec => []IInv
BY InitIInv, NextIInv, PTL DEF Spec

(* SourceFile's fields, the dialog's set and the disk keep their shape     *)
(* through every edit, save, reload and answer.                            *)
THEOREM FilesTyped == Spec => []TypeOK
<1>1. IInv => TypeOK
  BY DEF IInv
<1> QED BY <1>1, Invariance, PTL

(* No outside change is taken for seen (hasFileChangedOnDisk,              *)
(* updateLastWriteTime), but for an answer of the user's.                  *)
THEOREM FilesInSync == Spec => []InSync
<1>1. IInv => InSync
  BY DEF IInv
<1> QED BY <1>1, Invariance, PTL

(* A file that the check reloads without a question held text that was     *)
(* loaded or saved (Editor::CheckForFileChanges).                          *)
THEOREM NothingDiscardedSilently == Spec => NoSilentDiscard
<1> DEFINE Safe == \A f \in Files :
             CheckForFileChanges(f) /\ files'[f].src # files[f].src
               => files[f].src = kept[f]
<1>1. IInv /\ [Next]_vars => [Safe]_vars
  <2> SUFFICES ASSUME IInv, NEW f \in Files,
                      CheckForFileChanges(f), files'[f].src # files[f].src
               PROVE  files[f].src = kept[f]
    OBVIOUS
  <2>1. ReloadFiles(ReloadedUnasked(f))
    BY DEF CheckForFileChanges
  <2>2. files'[f].src = TextAfter(ReloadedUnasked(f))[f]
    BY SMT DEF IInv, TypeOK, CheckForFileChanges
  <2>3. f \in ReloadedUnasked(f)
    BY <2>1, <2>2, ReloadEffect DEF IInv
  <2> QED BY <2>3, CheckEffect DEF IInv, CleanMeansKept
<1> QED BY <1>1, Invariance, PTL DEF Spec, NoSilentDiscard
=============================================================================
