------------------------------- MODULE ObFstab -------------------------------
(***************************************************************************)
(* obInitFstab, obUpdateFstab (lib/src/ObFstab.c) and obDeinitFstab: the   *)
(* fstab of the overlay gets the root entry of the mtab, and the file as   *)
(* it was is kept beside it, both in the upper layer.                      *)
(*                                                                         *)
(* An fstab is its text and the device of its root entry, which is all the *)
(* rewriting changes.  The task runs in steps, because the power may fail  *)
(* between them.                                                           *)
(***************************************************************************)
EXTENDS ObLayers, ObFstabLines

CONSTANTS
  Text,        \* what users write into the fstab
  Original     \* the text on the root file system

NoText == ""
Mark(m)  == [text |-> NoText, root |-> m]
Nothing  == Mark("nothing")    \* the layer has no such file
Whiteout == Mark("whiteout")   \* the file of the layers below is deleted
Empty    == Mark("empty")      \* a file that was truncated and is not whole again

ASSUME FstabAssumption == Original \in Text /\ NoText \notin Text

VARIABLES
  files,    \* the two files in the root, the layers and the upper layers
  dirty,    \* the fstab that obinit wrote may not be on the disk yet
  \* history
  before,   \* the fstab that this pass has renamed, or Nothing
  edited    \* the user's text that the persistent upper layer has to keep, or NoText

fstabVars == <<files, dirty, before, edited>>

Content == [text: Text, root: {"disk", "overlay"}] \cup {Empty}
Place == Layer \cup {Root, Upper, Ram}
NoFiles == [fstab |-> Nothing, orig |-> Nothing]
RootFiles == [NoFiles EXCEPT !.fstab = [text |-> Original, root |-> "disk"]]

\* What overlayfs shows: the file of the upper layer in use, or the first one
\* that the layers below have, unless it is a whiteout.
Top == IF cfg.useTmpfs THEN Ram ELSE Upper

Visible(file) == IF file = Whiteout THEN Nothing ELSE file

Topmost(i, f) ==
  files[lower[i]][f] # Nothing /\ \A j \in 1..(i - 1) : files[lower[j]][f] = Nothing

Below(f) ==
  IF \E i \in DOMAIN lower : Topmost(i, f)
    THEN Visible(files[lower[CHOOSE i \in DOMAIN lower : Topmost(i, f)]][f])
    ELSE Nothing

View(f) == IF files[Top][f] = Nothing THEN Below(f) ELSE Visible(files[Top][f])

\* rename(2) in the overlay: a file of the layers below gets a whiteout.
Removed(f) == IF Below(f) = Nothing THEN Nothing ELSE Whiteout
Rename(from, to) ==
  files' = [files EXCEPT ![Top] = [@ EXCEPT ![to] = View(from), ![from] = Removed(from)]]

At(s) == pc = s
GoTo(s) == pc' = s
MayLogError == UNCHANGED error \/ error' = TRUE

FstabFrame == UNCHANGED <<layer, cfg, cursor, chain, lower>>

------------------------------------------------------------------------------
\* getRootMtabEntry finds no entry of the new root, or no mtab.
NoMtabEntry ==
  /\ At("fstab")
  /\ Fault("mtab")
  /\ GoTo("undo")
  /\ MayLogError
  /\ FstabFrame /\ UNCHANGED fstabVars

\* There is no fstab to be renamed.
NoFstab ==
  /\ At("fstab")
  /\ View("fstab") = Nothing
  /\ GoTo("undo")
  /\ error' = TRUE
  /\ FstabFrame /\ UNCHANGED fstabVars

\* Mutant of RenameFstab: the failure to keep the file is ignored.
MutRenameFstab ==
  /\ At("fstab")
  /\ View("fstab") # Nothing
  /\ before' = View("fstab")
  /\ GoTo("truncate")
  /\ FstabFrame /\ UNCHANGED <<files, error, dirty, edited>>

\* Whatever fstab.orig there is, it is replaced.
RenameFstab ==
  /\ At("fstab")
  /\ View("fstab") # Nothing
  /\ Rename("fstab", "orig")
  /\ before' = View("fstab")
  /\ GoTo("truncate")
  /\ FstabFrame /\ UNCHANGED <<error, dirty, edited>>

\* fopen of the new fstab for writing.
TruncateFstab ==
  /\ At("truncate")
  /\ \/ /\ files' = [files EXCEPT ![Top].fstab = Empty]
        /\ dirty' = (Top = Upper)
        /\ GoTo("rewrite")
        /\ UNCHANGED error
     \/ Fault("open") /\ GoTo("undo") /\ error' = TRUE /\ UNCHANGED <<files, dirty>>
  /\ FstabFrame /\ UNCHANGED <<before, edited>>

\* Mutant of Rewritten: the root entry is copied like the others.
MutRewritten(content) == content

\* Every root entry of the text is replaced by that of the mtab.
Rewritten(content) ==
  IF content = Empty THEN Empty ELSE [content EXCEPT !.root = "overlay"]

\* It is not looked at why getline ends, nor what fputs and fclose return, so that
\* a file that cannot be read or written to its end stays cut off, and nobody
\* notices.
RewriteFstab ==
  /\ At("rewrite")
  /\ \/ files' = [files EXCEPT ![Top].fstab = Rewritten(View("orig"))]
     \/ Fault("write") /\ UNCHANGED files
  /\ GoTo("durables")
  /\ FstabFrame /\ UNCHANGED <<error, dirty, before, edited>>

\* Mutant of UndoFstab: the fstab that was written is taken for the original.
MutUndoFstab ==
  /\ At("undo")
  /\ IF View("fstab") # Nothing THEN Rename("fstab", "orig") ELSE UNCHANGED files
  /\ GoTo("restored")
  /\ dirty' = FALSE
  /\ FstabFrame /\ UNCHANGED <<error, before, edited>>

\* obDeinitFstab, also of a task that has renamed nothing: what it finds then is
\* the fstab.orig of an earlier boot.  That there is none is not logged.
UndoFstab ==
  /\ At("undo")
  /\ IF View("orig") # Nothing
       THEN Rename("orig", "fstab") /\ dirty' = FALSE
       ELSE UNCHANGED <<files, dirty>>
  /\ edited' = IF before = Nothing /\ View("fstab") # Nothing /\ View("orig") # Nothing
                 THEN NoText ELSE edited
  /\ GoTo("restored")
  /\ FstabFrame /\ UNCHANGED <<error, before>>

FstabStep ==
  NoMtabEntry \/ NoFstab \/ RenameFstab \/ TruncateFstab \/ RewriteFstab \/ UndoFstab
==============================================================================
