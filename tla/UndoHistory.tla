---------------------------- MODULE UndoHistory ----------------------------
(***************************************************************************)
(* What an ActionStack promises its user: a linear history of documents    *)
(* with a cursor.  Doing something drops the future and adds a document,   *)
(* or replaces the newest one (a merged edit, such as the next letter      *)
(* typed into a field); undo and redo move the cursor; saving marks the    *)
(* document under the cursor, and "clean" says that the cursor is there.   *)
(***************************************************************************)
EXTENDS Naturals, Sequences

CONSTANT Docs          \* the documents

VARIABLES hist,        \* the documents of the history, oldest first
          pos,         \* the cursor
          savedPos,    \* where the saved document is, 0 once it is dropped
          doc,         \* the document the user sees
          clean        \* what the title bar and the close dialog are told

vars == <<hist, pos, savedPos, doc, clean>>

\* The user always sees the document under the cursor, and is told that
\* everything is saved exactly when the cursor is on the saved document.
Shown == doc' = hist'[pos'] /\ clean' = (savedPos' = pos')

Init == /\ hist \in {<<d>> : d \in Docs}
        /\ pos = 1
        /\ savedPos = 1
        /\ doc = hist[1]
        /\ clean = TRUE

Do(d) == /\ hist' = Append(SubSeq(hist, 1, pos), d)
         /\ pos' = pos + 1
         /\ savedPos' = IF savedPos > pos THEN 0 ELSE savedPos
         /\ Shown

\* A merged edit may never replace the saved document, nor the first one.
Extend(d) == /\ pos = Len(hist) /\ pos > 1 /\ savedPos # pos
             /\ hist' = [hist EXCEPT ![pos] = d]
             /\ UNCHANGED <<pos, savedPos>>
             /\ Shown

Undo == /\ pos > 1
        /\ pos' = pos - 1
        /\ UNCHANGED <<hist, savedPos>>
        /\ Shown

Redo == /\ pos < Len(hist)
        /\ pos' = pos + 1
        /\ UNCHANGED <<hist, savedPos>>
        /\ Shown

Save == /\ savedPos' = pos
        /\ UNCHANGED <<hist, pos>>
        /\ Shown

Next == \/ \E d \in Docs : Do(d) \/ Extend(d)
        \/ Undo
        \/ Redo
        \/ Save

Spec == Init /\ [][Next]_vars
=============================================================================
