---------------------------- MODULE ActionStack ----------------------------
(***************************************************************************)
(* The undo/redo stack every editor of the program shares                  *)
(* (src/src/util/action_stack.cpp), with the action class that carries     *)
(* most edits, SimpleValueAction (src/src/data/action/value.cpp): an       *)
(* action keeps the value it is about to exchange with the field's, so     *)
(* performing and undoing are the same swap.                               *)
(*                                                                         *)
(* Actions are raw owning pointers, so they are modelled as addresses of a *)
(* heap.  Two faults of the environment are switched by constants:         *)
(*   AddressReuse     operator new may hand out a freed address again;     *)
(*   ListenersThrow   a listener's onAction may throw (a script error in   *)
(*                    SetScriptManager::updateValue is not caught there;   *)
(*                    MSE::HandleEvent catches it and the program goes on).*)
(*                                                                         *)
(* A definition placed right before another whose name it extends          *)
(* (PopBackForgotten, mergeAnyField...) is a mistake the code does not     *)
(* make; it is used by no action and shows which property would notice.    *)
(***************************************************************************)
EXTENDS Naturals, Sequences

CONSTANTS Addr,            \* addresses an Action can be allocated at
          NULL,            \* the null pointer
          Fields,          \* the fields of the document
          Values,          \* what a field can hold
          AddressReuse,
          ListenersThrow

\* "performed" is what perform was last called with; "held" is new_value.
Action == [field : Fields, held : Values, performed : {"do", "undo"}]

ASSUME NullAssumption == NULL \notin Addr /\ NULL \notin Action
ASSUME FaultsAssumption == AddressReuse \in BOOLEAN /\ ListenersThrow \in BOOLEAN

VARIABLES doc,             \* the edited object: the value of every field
          heap,            \* the action at every address, NULL if there is none
          used,            \* the addresses ever handed out
          undo_actions,    \* top of the stack last
          redo_actions,
          save_point,
          last_was_add,
          hist,            \* history variables: the documents the stacks lead
          savedAt,         \*   through, which of them was saved (0: dropped),
          disk             \*   and what the last save wrote

vars == <<doc, heap, used, undo_actions, redo_actions, save_point,
          last_was_add, hist, savedAt, disk>>
stacks == <<undo_actions, redo_actions>>
history == <<hist, savedAt, disk>>

Doc == [Fields -> Values]

OnUndo == {undo_actions[i] : i \in 1..Len(undo_actions)}
OnRedo == {redo_actions[i] : i \in 1..Len(redo_actions)}
Live == {p \in Addr : heap[p] # NULL}
Back(s) == s[Len(s)]
PopBackForgotten(s) == s
PopBack(s) == SubSeq(s, 1, Len(s) - 1)

-----------------------------------------------------------------------------
\* Action::perform: exchange the field's value with the one the action holds.
Performed(d, a) == [d EXCEPT ![a.field] = a.held]
Swapped(d, a, how) == [a EXCEPT !.held = d[a.field], !.performed = how]

\* delete: the objects at the addresses S are gone
Deleted(h, S) == [q \in Addr |-> IF q \in S THEN NULL ELSE h[q]]

canUndo == undo_actions # <<>>
canRedo == redo_actions # <<>>

\* back() of an empty vector is undefined; the word the code reads there is
\* never the address of an action, so the comparison is false.
atSavePoint == \/ undo_actions = <<>> /\ save_point = NULL
               \/ undo_actions # <<>> /\ Back(undo_actions) = save_point

\* operator new: some address that is not in use
Allocatable == IF AddressReuse THEN Addr \ Live ELSE Addr \ used

\* A merge needs the top action's consent: SimpleValueAction::merge wants the
\* same field and its own flag, TextValueAction::merge the same field and a
\* selection that continues the last one.  "joins" is that second half and
\* the allow_merge argument of addAction.
mergeAnyField(f, joins) == joins
merge(f, joins) == heap[Back(undo_actions)].field = f /\ joins

MayMergeSavePoint(f, joins) == /\ redo_actions = <<>> /\ undo_actions # <<>>
                               /\ last_was_add /\ merge(f, joins)
MayMerge(f, joins) == /\ redo_actions = <<>>
                      /\ undo_actions # <<>>
                      /\ last_was_add
                      /\ Back(undo_actions) # save_point
                      /\ merge(f, joins)

\* addAction up to tellListeners: the document after the new action's perform
\* and the action as it is then.
AddedDoc(f, v) == [doc EXCEPT ![f] = v]
AddedActionMoved(f) == [field |-> f, held |-> NULL, performed |-> "do"]
AddedAction(f) == [field |-> f, held |-> doc[f], performed |-> "do"]

addAction(p, f, v, joins) ==
  /\ doc' = AddedDoc(f, v)
  /\ used' = used \cup {p}
  /\ redo_actions' = <<>>
  /\ last_was_add' = TRUE
  /\ IF MayMerge(f, joins)
     THEN /\ hist' = [hist EXCEPT ![Len(undo_actions) + 1] = doc']
          /\ UNCHANGED <<undo_actions, heap, savedAt>>
     ELSE /\ undo_actions' = Append(undo_actions, p)
          /\ heap' = [Deleted(heap, OnRedo) EXCEPT ![p] = AddedAction(f)]
          /\ hist' = Append(SubSeq(hist, 1, Len(undo_actions) + 1), doc')
          /\ savedAt' = IF savedAt > Len(undo_actions) + 1 THEN 0 ELSE savedAt
  /\ UNCHANGED <<save_point, disk>>

undo ==
  LET p == Back(undo_actions) IN
  /\ canUndo
  /\ doc' = Performed(doc, heap[p])
  /\ heap' = [heap EXCEPT ![p] = Swapped(doc, heap[p], "undo")]
  /\ undo_actions' = PopBack(undo_actions)
  /\ redo_actions' = Append(redo_actions, p)
  /\ last_was_add' = FALSE
  /\ UNCHANGED <<used, save_point, history>>

redo ==
  LET p == Back(redo_actions) IN
  /\ canRedo
  /\ doc' = Performed(doc, heap[p])
  /\ heap' = [heap EXCEPT ![p] = Swapped(doc, heap[p], "do")]
  /\ redo_actions' = PopBack(redo_actions)
  /\ undo_actions' = Append(undo_actions, p)
  /\ last_was_add' = FALSE
  /\ UNCHANGED <<used, save_point, history>>

\* Saving writes the document and calls setSavePoint (onFileSave, exportSet).
setSavePointNeverNull ==
  /\ save_point' = IF undo_actions = <<>> THEN save_point ELSE Back(undo_actions)
  /\ disk' = doc
  /\ savedAt' = Len(undo_actions) + 1
  /\ UNCHANGED <<doc, heap, used, stacks, last_was_add, hist>>
setSavePoint ==
  /\ save_point' = IF undo_actions = <<>> THEN NULL ELSE Back(undo_actions)
  /\ disk' = doc
  /\ savedAt' = Len(undo_actions) + 1
  /\ UNCHANGED <<doc, heap, used, stacks, last_was_add, hist>>

-----------------------------------------------------------------------------
\* A listener throws out of tellListeners: the action was performed, and
\* nothing after that happens.  In addAction the new action is leaked.
addActionThrows(p, f, v) ==
  /\ ListenersThrow
  /\ doc' = AddedDoc(f, v)
  /\ heap' = [heap EXCEPT ![p] = AddedAction(f)]
  /\ used' = used \cup {p}
  /\ UNCHANGED <<stacks, save_point, last_was_add, history>>

undoThrows ==
  LET p == Back(undo_actions) IN
  /\ ListenersThrow /\ canUndo
  /\ doc' = Performed(doc, heap[p])
  /\ heap' = [heap EXCEPT ![p] = Swapped(doc, heap[p], "undo")]
  /\ UNCHANGED <<used, stacks, save_point, last_was_add, history>>

redoThrows ==
  LET p == Back(redo_actions) IN
  /\ ListenersThrow /\ canRedo
  /\ doc' = Performed(doc, heap[p])
  /\ heap' = [heap EXCEPT ![p] = Swapped(doc, heap[p], "do")]
  /\ UNCHANGED <<used, stacks, save_point, last_was_add, history>>

-----------------------------------------------------------------------------
Init == /\ doc \in Doc
        /\ heap = [p \in Addr |-> NULL]
        /\ used = {}
        /\ undo_actions = <<>>
        /\ redo_actions = <<>>
        /\ save_point = NULL
        /\ last_was_add = FALSE
        /\ hist = <<doc>>
        /\ savedAt = 1
        /\ disk = doc

Next == \/ \E p \in Allocatable, f \in Fields, v \in Values :
             \/ \E joins \in BOOLEAN : addAction(p, f, v, joins)
             \/ addActionThrows(p, f, v)
        \/ undo
        \/ redo
        \/ setSavePoint
        \/ undoThrows
        \/ redoThrows

Spec == Init /\ [][Next]_vars

-----------------------------------------------------------------------------
TypeOK == /\ doc \in Doc
          /\ heap \in [Addr -> Action \cup {NULL}]
          /\ used \in SUBSET Addr
          /\ undo_actions \in Seq(Addr)
          /\ redo_actions \in Seq(Addr)
          /\ save_point \in Addr \cup {NULL}
          /\ last_was_add \in BOOLEAN
          /\ hist \in Seq(Doc)
          /\ savedAt \in Nat
          /\ disk \in Doc

\* Everything on the two stacks is a live action and is there once, whatever
\* the listeners and the allocator do: ~ActionStack and the clearing of the
\* redo list (action_stack.cpp:26-27, 36) delete nothing twice.
NoDoubleFree ==
  /\ OnUndo \cup OnRedo \subseteq Live
  /\ \A i, j \in 1..Len(undo_actions) : undo_actions[i] = undo_actions[j] => i = j
  /\ \A i, j \in 1..Len(redo_actions) : redo_actions[i] = redo_actions[j] => i = j
  /\ OnUndo \cap OnRedo = {}

\* "Perform will only ever be called alternatingly with to_undo = true/false,
\* the first time with to_undo = false" (action_stack.hpp:36-37).
PerformAlternates ==
  [][\A p \in Live : heap'[p] # NULL /\ heap'[p] # heap[p]
                       => heap'[p].performed # heap[p].performed]_vars

\* The document is what the history says: undoing every action of one stack
\* or redoing every action of the other leads through exactly the documents
\* that were shown before, though each action keeps only one field's value.
HistoryLinked ==
  LET n == Len(undo_actions)
      m == Len(redo_actions)
  IN /\ Len(hist) = n + m + 1
     /\ doc = hist[n + 1]
     /\ \A i \in 1..n :
          hist[i] = Performed(hist[i + 1], heap[undo_actions[i]])
     /\ \A j \in 1..m :
          hist[n + m - j + 2] = Performed(hist[n + m - j + 1], heap[redo_actions[j]])

\* When the program believes that nothing needs saving (it then closes the
\* window without asking, SetWindow::askSaveAndContinue), the document is the
\* one that was saved.
SavePointHonest == atSavePoint => doc = disk

\* Without the two faults the stack is the history of module UndoHistory: in
\* particular undo and redo are inverse and "clean" is neither too optimistic
\* nor too pessimistic.
Abstract == INSTANCE UndoHistory
  WITH Docs <- Doc, pos <- Len(undo_actions) + 1, savedPos <- savedAt,
       clean <- atSavePoint
ImplementsUndoHistory == Abstract!Spec
=============================================================================
