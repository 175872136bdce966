---------------------------- MODULE SetDocument ----------------------------
(***************************************************************************)
(* A set in its window: the user puts images into its fields, undoes and   *)
(* redoes, saves, exports copies and closes, and the program may crash     *)
(* (src/src/gui/set/window.cpp, src/src/gui/value/image.cpp).  The files   *)
(* are those of module Package; the history is the one that ActionStack is *)
(* proved to be, a sequence of documents with a cursor.                    *)
(*                                                                         *)
(*   UndoAcrossSave   the user undoes and redoes what is older than the    *)
(*                    last save; otherwise the history starts there.       *)
(*   UnpackToDirectory   the user saves a zip file as a directory, which   *)
(*                    the code cannot do when a file in it is unchanged.   *)
(***************************************************************************)
EXTENDS Package, Sequences

CONSTANTS UndoAcrossSave, UnpackToDirectory, MayCrash

ASSUME UserAssumption == {UndoAcrossSave, UnpackToDirectory, MayCrash} \subseteq BOOLEAN

VARIABLES hist, pos,        \* the documents of the history, the one shown
          savedPos,         \* the save point
          images,           \* how many images the user has chosen
          mode, closing,    \* of the window; the close dialog waits for a save
          discarded,        \* the user chose not to save when asked
          saved,            \* for each path, the document last committed to it
          torn              \* the paths where something else was since: what a
                            \* save left of which a write had failed

package == <<inside, outside, progress>>
history == <<hist, pos, savedPos, images>>
window == <<mode, closing, discarded>>
commits == <<saved, torn>>
vars == <<package, history, window, commits>>

doc == hist[pos]
Zips == Paths \ DirPaths
Idle == mode = "open" /\ pc = "idle"

-----------------------------------------------------------------------------
\* Edits.  A new image goes to a new file of the package at once, and the
\* field gets its name by an action.
Do(d) == /\ hist' = Append(SubSeq(hist, 1, pos), d)
         /\ pos' = pos + 1
         /\ savedPos' = IF savedPos > pos THEN 0 ELSE savedPos

assign(f) ==
  /\ Idle
  /\ images < MaxImage /\ Names \ Known # {}
  /\ images' = images + 1
  /\ WriteOut(UnusedName, ImageFile(images'))
  /\ Do([doc EXCEPT ![f] = [name |-> UnusedName, image |-> images']])
  /\ UNCHANGED <<filename, stream, outside, progress, window, commits>>

clear(f) ==
  /\ Idle /\ doc[f] # Empty
  /\ Do([doc EXCEPT ![f] = Empty])
  /\ UNCHANGED <<package, images, window, commits>>

\* undo and redo
move(i) == /\ Idle /\ i \in DOMAIN hist /\ i \in {pos - 1, pos + 1}
           /\ pos' = i
           /\ UNCHANGED <<package, hist, savedPos, images, window, commits>>

-----------------------------------------------------------------------------
\* Saving: onFileSave, onFileSaveAs, and the copies write_set_file exports,
\* which go to files of their own
AtSavePoint == savedPos = pos
Targets == IF filename = NoPath THEN Paths ELSE {filename}

save(p, copy) ==
  /\ Idle
  /\ copy => p # filename
  /\ filename \in Paths \ DirPaths /\ p \in DirPaths => UnpackToDirectory
  /\ startSave(p, copy, doc)
  /\ UNCHANGED <<history, window, commits>>

\* An archive arrives at its path, with the document unless a write of this
\* save has failed.
Renewed(p) == disk'[p] \notin {disk[p], None}
Arrived ==
  /\ saved' = [p \in Zips |-> IF Renewed(p) /\ ~job.cut THEN disk'[p][Data].doc ELSE saved[p]]
  /\ torn' = {p \in Zips : IF Renewed(p) THEN job.cut ELSE p \in torn}

\* An Error that ends the save keeps the window open.
saveStep == /\ mode = "open" /\ SaveStep /\ Arrived
            /\ closing' = (closing /\ pc' # "idle")
            /\ UNCHANGED <<history, mode, discarded>>

saveDone == /\ mode = "open" /\ finishSave
            /\ mode' = IF closing THEN "closed" ELSE "open"
            /\ hist' = IF UndoAcrossSave THEN hist ELSE <<doc>>
            /\ pos' = IF UndoAcrossSave THEN pos ELSE 1
            /\ savedPos' = pos'
            /\ closing' = FALSE
            /\ UNCHANGED <<images, discarded, commits>>

-----------------------------------------------------------------------------
\* onClose and askSaveAndContinue: nothing to save, "no", or "yes"
MayCloseAtOnceIfNamed == AtSavePoint \/ filename # NoPath
MayCloseAtOnce == AtSavePoint

close ==
  /\ Idle
  /\ \/ /\ MayCloseAtOnce
        /\ mode' = "closed" /\ UNCHANGED <<package, closing, discarded>>
     \/ /\ ~MayCloseAtOnce
        /\ mode' = "closed" /\ discarded' = TRUE /\ UNCHANGED <<package, closing>>
     \/ /\ ~MayCloseAtOnce
        /\ \E p \in Targets : startSave(p, FALSE, doc)
        /\ closing' = (pc' # "idle")
        /\ UNCHANGED <<mode, discarded>>
  /\ UNCHANGED <<history, commits>>

crash ==
  /\ MayCrash /\ mode = "open"
  /\ mode' = "crashed" /\ pc' = "idle"
  /\ UNCHANGED <<inside, outside, job, todo, history, closing, discarded, commits>>

\* The program is started again and a set opened: a window with a new history.
reopenSet(p) ==
  /\ mode # "open" /\ open(p)
  /\ hist' = <<disk[p][Data].doc>> /\ pos' = 1 /\ savedPos' = 1
  /\ mode' = "open" /\ closing' = FALSE /\ discarded' = FALSE
  /\ todo' = {}
  /\ UNCHANGED <<pc, job, images, commits>>

Init ==
  /\ PackageInit
  /\ hist = <<[f \in Fields |-> Empty]>> /\ pos = 1 /\ savedPos = 1
  /\ images = 0
  /\ mode = "open" /\ closing = FALSE /\ discarded = FALSE
  /\ saved = [p \in Zips |-> None] /\ torn = {}

Next == \/ \E f \in Fields : assign(f) \/ clear(f)
        \/ \E i \in DOMAIN hist : move(i)
        \/ \E p \in Paths, copy \in BOOLEAN : save(p, copy)
        \/ saveStep \/ saveDone \/ close \/ crash
        \/ \E p \in Paths : reopenSet(p)

Spec == Init /\ [][Next]_vars

-----------------------------------------------------------------------------
\* Each field shows the image the user put there: between edits, saves under
\* this and other names, exports, undo and redo, and after a restart, no file
\* is dropped too early, read from the wrong place, or given another's name
\* (package.cpp:130-145, 214-230, 263-282).
ImagesIntact ==
  Idle => \A n \in Refers(doc) : /\ Readable(n)
                                 /\ \A f \in Fields : doc[f].name = n => ReadIn(n) = ImageFile(doc[f].image)

\* If the window says there is nothing to save, the disk has the document with
\* all its images (window.cpp:440, 457).
CleanMeansSaved ==
  Idle /\ AtSavePoint /\ filename # NoPath =>
    /\ Complete(disk[filename], doc)
    /\ \A f \in Fields : doc[f] # Empty => disk[filename][doc[f].name] = ImageFile(doc[f].image)

\* Once committed to a zip file a document stays on disk, its data file whole
\* and its images there, until the next is: at its path, or while that is
\* missing as its .bak.  Whatever cannot be opened, read or renamed, and
\* wherever the program crashes (package.cpp:486-497), this ends only when a
\* write fails in a save to this path: nothing looks (package.cpp:472, 478;
\* package.hpp:190), and what was written is committed.  It holds again from
\* the next save on in which no write fails.
SavedSurvives ==
  \A p \in Zips : saved[p] # None /\ p \notin torn =>
    \/ Complete(disk[p], saved[p])
    \/ disk[p] = None /\ Complete(bak[p], saved[p])

\* What one would like, and the code breaks when a write fails: the document is
\* at its path or as its .bak also when something else came after it.
SavedSurvivesFailedWrites ==
  \A p \in Zips : saved[p] # None =>
    Complete(disk[p], saved[p]) \/ Complete(bak[p], saved[p])

\* A window that closes without having been told to drop its changes leaves
\* them on disk (window.cpp:387-470).
ClosedMeansSaved ==
  mode = "closed" /\ ~discarded /\ doc # [f \in Fields |-> Empty] =>
    filename # NoPath /\ Complete(disk[filename], doc)
=============================================================================
