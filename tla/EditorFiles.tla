---------------------------- MODULE EditorFiles -----------------------------
(***************************************************************************)
(* The editor's files (src/editor/Editor.cpp, src/slides/Presentation.cpp) *)
(* against a disk that other programs write to: what a file's text is in   *)
(* the text widget, in its SourceFile and on disk, the check for outside   *)
(* changes when the window regains the focus, and the dialog.              *)
(*                                                                         *)
(* Modification times are only compared with last_write_time, so that      *)
(* whether they differ (`touched`) is all there is of both.                *)
(***************************************************************************)
CONSTANTS
  Files,     \* "setup", "slide0", ...
  Texts,     \* file contents
  Missing    \* the content of a file that was deleted

ASSUME EditorAssumption == Missing \notin Texts

VARIABLES
  disk,      \* contents on disk
  touched,   \* files whose modification time is not their last_write_time
  files,     \* SourceFiles: src, dirty, needs_reload_check
  shown,     \* contents of the text widgets
  prompt,    \* files_to_reload
  dialog,    \* is the modal "File Changed" open
  kept,      \* history: text the editor last loaded or saved
  last       \* history: who last decided on the file: "ours" (loaded, saved),
             \* "theirs" (changed outside), "answer" (Keep Changes)

vars == <<disk, touched, files, shown, prompt, dialog, kept, last>>

Init ==
  /\ disk \in [Files -> Texts]
  /\ touched = {} /\ prompt = {} /\ dialog = FALSE
  /\ files = [f \in Files |-> [src |-> disk[f], dirty |-> FALSE, check |-> FALSE]]
  /\ shown = disk /\ kept = disk
  /\ last = [f \in Files |-> "ours"]

-----------------------------------------------------------------------------
(* Other programs, and the window.                                         *)

WriteOutside(f, t) ==
  /\ disk[f] # t
  /\ disk' = [disk EXCEPT ![f] = t] /\ touched' = touched \cup {f}
  /\ last' = [last EXCEPT ![f] = "theirs"]
  /\ UNCHANGED <<files, shown, prompt, dialog, kept>>

DeleteOutside(f) ==
  /\ disk[f] # Missing
  /\ disk' = [disk EXCEPT ![f] = Missing]
  /\ last' = [last EXCEPT ![f] = "theirs"]
  /\ UNCHANGED <<touched, files, shown, prompt, dialog, kept>>

OnWindowFocusGained ==
  /\ files' = [f \in Files |-> [files[f] EXCEPT !.check = TRUE]]
  /\ UNCHANGED <<disk, touched, shown, prompt, dialog, kept, last>>

-----------------------------------------------------------------------------
(* Rendering a file's tab: first the check for outside changes, then the   *)
(* widget with the keyboard, then Ctrl+S.                                  *)

hasFileChangedOnDisk(f) == disk[f] = Missing \/ f \in touched

(* A file that is gone cannot be reloaded, and the exception leaves all as *)
(* it was.  (Mutant: the open is not checked.)                             *)
ReloadsMissing(F) == F
Reloadable(F) == {f \in F : disk[f] # Missing}

(* The SourceFile's text after the reload of F; dirty stays.  (Mutant: the *)
(* text goes to the widget alone.)                                         *)
KeepsSource(F) == [f \in Files |-> files[f].src]
TextAfter(F) == [f \in Files |-> IF f \in Reloadable(F) THEN disk[f] ELSE files[f].src]

ReloadFiles(F) ==
  LET R == Reloadable(F)
      OnDisk(text) == [f \in Files |-> IF f \in R THEN disk[f] ELSE text[f]]
  IN  /\ shown' = OnDisk(shown) /\ kept' = OnDisk(kept)
      /\ touched' = touched \ R
      /\ last' = [f \in Files |-> IF f \in R THEN "ours" ELSE last[f]]

(* (Mutant: unsaved changes are not asked about.)                          *)
NeverAsks(f) == FALSE
Asks(f) == files[f].dirty

ReloadedUnasked(f) == IF hasFileChangedOnDisk(f) /\ ~ Asks(f) THEN {f} ELSE {}

CheckForFileChanges(f) ==
  /\ files[f].check
  /\ ReloadFiles(ReloadedUnasked(f))
  /\ files' = [files EXCEPT ![f] = [check |-> FALSE, dirty |-> @.dirty,
                                    src |-> TextAfter(ReloadedUnasked(f))[f]]]
  /\ prompt' = IF hasFileChangedOnDisk(f) /\ Asks(f) THEN prompt \cup {f} ELSE prompt
  /\ UNCHANGED <<disk, dialog>>

(* setText: the same text leaves a file clean.                             *)
SetText(file, t) ==
  IF file.src = t THEN file ELSE [file EXCEPT !.src = t, !.dirty = TRUE]

(* The open dialog keeps keys and menus from the widgets.                  *)
Typed(f, t) ==
  /\ ~ dialog /\ ~ files[f].check /\ shown[f] # t
  /\ shown' = [shown EXCEPT ![f] = t]
  /\ files' = [files EXCEPT ![f] = SetText(@, t)]
  /\ UNCHANGED <<disk, touched, prompt, dialog, kept, last>>

(* Undo, Redo, Cut, Delete and Paste from the menu run outside the         *)
(* widget's Render, which starts by clearing the flag they set: the        *)
(* SourceFile does not hear of the change.                                 *)
MenuEdit(f, t) ==
  /\ ~ dialog /\ shown[f] # t
  /\ shown' = [shown EXCEPT ![f] = t]
  /\ UNCHANGED <<disk, touched, files, prompt, dialog, kept, last>>

(* Ctrl+S and Ctrl+Enter, which the dialog does not stop, and the menu's   *)
(* Save, which comes before the check.  last_write_time stays as it was.   *)
Save(f) ==
  /\ ~ files[f].check \/ ~ dialog
  /\ disk' = [disk EXCEPT ![f] = files[f].src] /\ touched' = touched \cup {f}
  /\ files' = [files EXCEPT ![f].dirty = FALSE]
  /\ kept' = [kept EXCEPT ![f] = files[f].src]
  /\ last' = [last EXCEPT ![f] = "ours"]
  /\ UNCHANGED <<shown, prompt, dialog>>

-----------------------------------------------------------------------------
(* The dialog, opened at the end of a frame (RenderPopups).                *)

OpenDialog ==
  /\ prompt # {} /\ ~ dialog /\ dialog' = TRUE
  /\ UNCHANGED <<disk, touched, files, shown, prompt, kept, last>>

ReloadAll ==
  /\ dialog /\ dialog' = FALSE /\ prompt' = {}
  /\ ReloadFiles(prompt)
  /\ files' = [f \in Files |-> [files[f] EXCEPT !.src = TextAfter(prompt)[f]]]
  /\ UNCHANGED disk

KeepChanges ==
  /\ dialog /\ dialog' = FALSE /\ prompt' = {}
  /\ touched' = touched \ Reloadable(prompt)
  /\ last' = [f \in Files |-> IF f \in prompt THEN "answer" ELSE last[f]]
  /\ UNCHANGED <<disk, files, shown, kept>>

Next ==
  \/ OnWindowFocusGained \/ OpenDialog \/ ReloadAll \/ KeepChanges
  \/ \E f \in Files :
       \/ CheckForFileChanges(f) \/ Save(f) \/ DeleteOutside(f)
       \/ \E t \in Texts : WriteOutside(f, t) \/ Typed(f, t) \/ MenuEdit(f, t)

Spec == Init /\ [][Next]_vars

-----------------------------------------------------------------------------
(* Properties. *)

(* Type correctness; the dialog is open only over files to ask about       *)
(* (Editor::RenderPopups).                                                 *)
TypeOK ==
  /\ disk \in [Files -> Texts \cup {Missing}]
  /\ touched \subseteq Files /\ prompt \subseteq Files
  /\ files \in [Files -> [src : Texts, dirty : BOOLEAN, check : BOOLEAN]]
  /\ shown \in [Files -> Texts] /\ kept \in [Files -> Texts]
  /\ dialog \in BOOLEAN /\ (dialog => prompt # {})
  /\ last \in [Files -> {"ours", "theirs", "answer"}]

(* A file with no unsaved mark and an agreeing modification time is, in    *)
(* its SourceFile, what is on disk: no outside change is ever taken for    *)
(* seen (hasFileChangedOnDisk, updateLastWriteTime), unless the user       *)
(* answered Keep Changes.                                                  *)
InSync ==
  \A f \in Files :
    ~ files[f].dirty /\ f \notin touched /\ disk[f] # Missing /\ last[f] # "answer"
      => files[f].src = disk[f]

(* No text is discarded without a question: a check on regaining the focus *)
(* (Editor::CheckForFileChanges) replaces only a source text that was      *)
(* itself loaded or saved.                                                 *)
NoSilentDiscard ==
  [][\A f \in Files :
       CheckForFileChanges(f) /\ files'[f].src # files[f].src
         => files[f].src = kept[f]]_vars
=============================================================================
