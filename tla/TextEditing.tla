----------------------------- MODULE TextEditing -----------------------------
(***************************************************************************)
(* The editor of a text field (TextValueEditor, src/src/gui/value/text.cpp)*)
(* with the actions it makes (src/src/data/action/value.cpp) and their     *)
(* history (src/src/util/action_stack.cpp).  The field is a combined one:  *)
(* its parts are joined by separators, and its script splits and joins     *)
(* them again after each edit (src/src/script/functions/editor.cpp).       *)
(*                                                                         *)
(* The editor keeps the selection twice: as cursor positions, which count  *)
(* what the user sees, and as indices of the string with tags.             *)
(*                                                                         *)
(* Left out: drop down lists, spelling, searching, auto replace, and what  *)
(* the layout knows: a click, a line or a word boundary is any index.      *)
(***************************************************************************)
EXTENDS TaggedString

CONSTANTS InitialTexts,      \* values the field can have
          Insertions,        \* what is typed or pasted: [text, name]
          Parts,             \* number of parts of the combined value
          Separator,         \* what is shown between them
          DrawnFirst,        \* is the text drawn before a format is chosen?
          MaxEdits           \* bound: actions by the user

\* Texts have all their tags closed, and blocks only where the field had them:
\* what is typed or pasted is escaped (text.cpp:508, 787).
ASSUME TextsAssumption ==
    /\ \A text \in InitialTexts \cup {insertion.text : insertion \in Insertions} :
          text \in Seq(Kinds \X STRING) /\ Balanced(text)
    /\ \A text \in InitialTexts : BlocksWhole(text)
    /\ \A insertion \in Insertions : \A n \in 1..Len(insertion.text) :
          ~IsBlockTag(insertion.text[n])

VARIABLES value,             \* TextValue::value
          seen,              \* history variable: what the user sees of it
          selection,         \* start, end: cursors; start_i, end_i: indices
          undo_actions, redo_actions, last_was_add,
          edits              \*   (an action also notes what was seen of the value it holds)
vars == <<value, seen, selection, undo_actions, redo_actions, last_was_add, edits>>
Stay == UNCHANGED <<value, seen, undo_actions, redo_actions, last_was_add, edits>>

-----------------------------------------------------------------------------
\* What the user sees of a string.
Units(str) ==
    LET starts == Ascending(ItemStarts(str))
    IN  [n \in 1..Len(starts) |->
            [item |-> Sub(str, starts[n], ItemEnd(str, starts[n])),
             formats |-> {f \in Formats : Level(str, f, starts[n]) > 0}]]
TypedAt(str) ==
    [place \in 0..CursorCount(str) |->
        {f \in Formats : Level(str, f, cursor_to_index(str, place, "mid")) > 0}]
Seen(str) == [units |-> Units(str), typing |-> TypedAt(str)]

-----------------------------------------------------------------------------
(* TextValueEditor::fixSelection.                                            *)

direction_of(a, b) == IF a < b THEN "left_opt" ELSE IF a > b THEN "right_opt" ELSE "mid"

SeparatorsOf(str) == Ascending({pos \in Positions(str) : At(str, pos) = Open("sep")})

\* The end of the selection is moved to a place that is there.
EndAt(str, sel, cursor) ==
    [sel EXCEPT !.end = cursor,
                !.end_i = cursor_to_index(str, cursor, direction_of(sel.start, cursor))]

\* Start and end must be on the same side of a separator.
SameSide(str, sel, seppos, sepend, dir) ==
    IF sel.start_i <= seppos /\ sel.end_i > seppos
    THEN EndAt(str, sel, index_to_cursor(str, seppos, dir))
    ELSE IF sel.start_i >= sepend /\ sel.end_i < sepend
    THEN EndAt(str, sel, index_to_cursor(str, sepend, dir))
    ELSE sel

\* Mistaken variant: the ends may be on two sides of a separator.
IndicesOnly(str, start, end, dir) ==
    [start |-> start, end |-> end,
     start_i |-> cursor_to_index(str, start, direction_of(end, start)),
     end_i |-> cursor_to_index(str, end, direction_of(start, end))]
fixCursors(str, start, end, dir) ==
    LET seps == SeparatorsOf(str)
        fixed[n \in 0..Len(seps)] ==
            IF n = 0 THEN IndicesOnly(str, start, end, dir)
            ELSE SameSide(str, fixed[n - 1], seps[n], match_close_tag_end(str, seps[n]), dir)
    IN  fixed[Len(seps)]
fixIndices(str, start_i, end_i, dir) ==
    fixCursors(str, index_to_cursor(str, start_i, dir), index_to_cursor(str, end_i, dir), dir)

Fixed == fixCursors(value, selection.start, selection.end, "mid")

\* moveSelectionNoRedraw, by cursor and by index.
MoveTo(str, sel, cursor, also_move_start, dir) ==
    fixCursors(str, IF also_move_start THEN cursor ELSE sel.start, cursor, dir)
MoveToIndex(str, sel, index, also_move_start, dir) ==
    fixIndices(str, IF also_move_start THEN index ELSE sel.start_i, index, dir)

-----------------------------------------------------------------------------
(* The actions: TextValueAction with its stack.                              *)

Action(start, end, new_end, new_value, name) ==
    [start |-> start, end |-> end, new_end |-> new_end,
     held |-> new_value, seen |-> Seen(new_value), name |-> name]

\* An action holds the value to exchange; selection_end and new_selection_end
\* have been exchanged when it is on the undo stack.
Exchanged(action) ==
    [action EXCEPT !.end = action.new_end, !.new_end = action.end, !.held = value, !.seen = seen]

merge(old, new) ==
    IF old.name # new.name THEN <<>>
    ELSE IF new.start = old.end THEN <<[old EXCEPT !.end = new.end]>>
    ELSE IF new.new_end = old.start /\ old.name = "backspace"
    THEN <<[old EXCEPT !.start = new.start, !.end = new.end]>>
    ELSE <<>>

\* What becomes of the undo stack; a merged action keeps the older value.
Pushed(action) ==
    LET merged == IF redo_actions = <<>> /\ undo_actions # <<>> /\ last_was_add
                  THEN merge(Last(undo_actions), action) ELSE <<>>
    IN  IF merged # <<>> THEN Front(undo_actions) \o merged ELSE Append(undo_actions, action)

\* addAction: perform, the listeners (the script of the value gives it back as
\* it is, see SeparatorsKept, and the editor takes the selection of the action),
\* then the stack.
addAction(action) ==
    /\ value' = action.held /\ seen' = action.seen
    /\ undo_actions' = Pushed(Exchanged(action))
    /\ redo_actions' = <<>> /\ last_was_add' = TRUE

\* onAction of the editor.
Shown(action) == fixCursors(value', action.start, action.end, "mid")

undo ==
    /\ undo_actions # <<>>
    /\ LET action == Exchanged(Last(undo_actions))
       IN  /\ value' = Last(undo_actions).held /\ seen' = Last(undo_actions).seen
           /\ redo_actions' = Append(redo_actions, action)
           /\ selection' = Shown(action)
    /\ undo_actions' = Front(undo_actions) /\ last_was_add' = FALSE
    /\ UNCHANGED edits
redo ==
    /\ redo_actions # <<>>
    /\ LET action == Exchanged(Last(redo_actions))
       IN  /\ value' = Last(redo_actions).held /\ seen' = Last(redo_actions).seen
           /\ undo_actions' = Append(undo_actions, action)
           /\ selection' = Shown(action)
    /\ redo_actions' = Front(redo_actions) /\ last_was_add' = FALSE
    /\ UNCHANGED edits

-----------------------------------------------------------------------------
(* Typing.                                                                   *)

Edit == edits < MaxEdits /\ edits' = edits + 1
Low(sel) == Min({sel.start, sel.end})
Ordered(sel) ==
    IF sel.start <= sel.end THEN sel
    ELSE [start |-> sel.end, end |-> sel.start, start_i |-> sel.end_i, end_i |-> sel.start_i]

\* typing_action: the selected part of the string is replaced.
typing_action(sel, range, replacement, name) ==
    Action(sel.start, sel.end, range.start + Len(OfKind(replacement, {"char"})),
           tagged_substr_replace(value, range.start_i, range.end_i, replacement), name)

addChange(action) == IF action.held = value THEN Stay ELSE Edit /\ addAction(action)

\* replaceSelection: the cursor goes behind the text.  (The script leaves the
\* text as it is, so the best place is the one that is expected.)
ReplaceWith(action, cursor) ==
    /\ addChange(action)
    /\ IF action.held = value
       THEN selection' = fixCursors(value, action.end, action.end, "mid")
       ELSE selection' = fixCursors(value', cursor, cursor, "right")
replaceIn(sel, replacement, name) ==
    ReplaceWith(typing_action(sel, Ordered(sel), replacement, name),
                Low(sel) + CursorCount(replacement))
Unreversed(sel) == fixCursors(value, Low(sel), sel.start + sel.end - Low(sel), "mid")
replaceSelection(sel, replacement, name) ==
    IF replacement = <<>> /\ sel.start = sel.end
    THEN selection' = sel /\ Stay
    ELSE replaceIn(Unreversed(sel), replacement, name)

prevCharBoundary(cursor) == Max({0, cursor - 1})
nextCharBoundary(cursor) == Min({CursorCount(value), cursor + 1})

typeText(insertion) == replaceSelection(Fixed, insertion.text, insertion.name)
doDelete == selection.start # selection.end /\ replaceSelection(selection, <<>>, "cut")

\* Backspace and delete select the character next to the cursor; if that is
\* a separator they walk over it.
EraseSelected(selected, cursor, dir, name) ==
    IF selected.start = selected.end
    THEN selection' = fixCursors(value, cursor, cursor, dir) /\ Stay
    ELSE replaceSelection(selected, <<>>, name)
Erase(sel, cursor, dir, name) ==
    EraseSelected(IF sel.start # sel.end THEN sel ELSE MoveTo(value, sel, cursor, FALSE, "mid"),
                  cursor, dir, name)
eraseBack(sel) == Erase(sel, prevCharBoundary(sel.end), "left", "backspace")
eraseNext(sel) == Erase(sel, nextCharBoundary(sel.end), "right", "delete")
backspace == eraseBack(Fixed)
delete == eraseNext(Fixed)

-----------------------------------------------------------------------------
(* Formats, moving, drawing.                                                 *)

\* toggle_format_action: tags around the selection, or the opposite tags if it is
\* in that tag.  Without a selection the new tags are left as they are.
Toggled(range, tag) ==
    LET inner_end == IF range.start_i <= range.end_i THEN range.end_i ELSE Len(value)
        between(before) ==
            Sub(value, 0, range.start_i) \o <<before>> \o Sub(value, range.start_i, inner_end)
              \o <<anti_tag(before)>> \o Sub(value, range.end_i, Len(value))
    IN  between(IF is_in_tag(value, tag, range.start_i, range.end_i)
                THEN Close(tag) ELSE Open(tag))
toggle_format_action(range, tag) ==
    LET simplified(str) == IF range.start = range.end THEN str ELSE simplify_tagged(str)
    IN  Action(range.start, range.end, range.end, simplified(Toggled(range, tag)), tag)

\* doFormat works with the indices as they are.  They may be inverted by
\* fixSelection, which does not look at the start again when it moved the end
\* before a separator, until the text is drawn.
doFormat(tag) ==
    /\ DrawnFirst => selection = Fixed
    /\ addChange(toggle_format_action(Ordered(selection), tag))
    /\ selection' = fixCursors(value', selection.start, selection.end, "mid")

\* (After the last edit it does not matter where the cursor goes.)
moveCursor(step, shift, dir) ==
    /\ edits < MaxEdits
    /\ selection' = MoveTo(value, Fixed, step, ~shift, dir)
    /\ Stay
moveIndex(index, shift, dir) ==
    /\ edits < MaxEdits
    /\ selection' = MoveToIndex(value, Fixed, index, ~shift, dir)
    /\ Stay
draw == selection' = Fixed /\ Stay

-----------------------------------------------------------------------------
Init ==
    /\ value \in InitialTexts /\ seen = Seen(value)
    /\ selection = [start |-> 0, end |-> 0, start_i |-> 0, end_i |-> 0]
    /\ undo_actions = <<>> /\ redo_actions = <<>> /\ last_was_add = FALSE
    /\ edits = 0

Next == \/ \E insertion \in Insertions : typeText(insertion)
        \/ doDelete
        \/ backspace
        \/ delete
        \/ \E tag \in Formats : doFormat(tag)
        \/ \E shift \in BOOLEAN : moveCursor(prevCharBoundary(Fixed.end), shift, "left")
        \/ \E shift \in BOOLEAN : moveCursor(nextCharBoundary(Fixed.end), shift, "right")
        \/ \E index \in 0..Len(value), shift \in BOOLEAN : moveIndex(index, shift, "mid")
        \/ \E shift \in BOOLEAN : moveIndex(0, shift, "left_opt")
        \/ \E shift \in BOOLEAN : moveIndex(Len(value), shift, "right_opt")
        \/ draw
        \/ undo
        \/ redo

Spec == Init /\ [][Next]_vars

-----------------------------------------------------------------------------
(* The script of the field: split at the separators, and joined again.       *)

\* Each part ends where the next separator begins, or the text ends.
NextSeparator(str, pos) ==
    Min({sep \in pos..Len(str) - 1 : At(str, sep) = Open("sep")} \cup {Len(str)})
AfterSeparator(str, sep) == IF sep = Len(str) THEN sep ELSE match_close_tag_end(str, sep)
PartStart(str, part) ==
    LET start[n \in 1..part] == IF n = 1 THEN 0
                                ELSE AfterSeparator(str, NextSeparator(str, start[n - 1]))
    IN  start[part]
PartAt(str, start) == Sub(str, start, NextSeparator(str, start))
Part(str, n) == PartAt(str, PartStart(str, n))
SeparatorItem == <<Open("sep")>> \o Separator \o <<Close("sep")>>
combined_editor(str) ==
    FlattenSeq([n \in 1..Parts |-> (IF n > 1 THEN SeparatorItem ELSE <<>>) \o Part(str, n)])

\* A separator has no formats and no blocks, and in it tags are closed behind a
\* character, as in <line>\n</line>; the field begins with what its script gives.
ASSUME SeparatorsAssumption ==
    /\ Parts \in Nat \ {0} /\ Separator \in Seq(Kinds \X STRING)
    /\ \A n \in 1..Len(Separator) : ~IsFormat(Separator[n]) /\ ~IsBlockTag(Separator[n])
    /\ \A n \in 2..Len(SeparatorItem) : SeparatorItem[n][1] = "close" => SeparatorItem[n - 1][1] # "open"
    /\ \A text \in InitialTexts : combined_editor(text) = text

-----------------------------------------------------------------------------
\* Every tag is closed where it was opened or later, at every moment and in
\* every text that undo can bring back: no edit takes one half of a pair.
TagsBalanced == /\ Balanced(value)
                /\ \A n \in 1..Len(undo_actions) : Balanced(undo_actions[n].held)

\* The script of the field gives every edited text back as it is: an edit never
\* takes, doubles or breaks a separator, after which text would move to another
\* part or be dropped.
SeparatorsKept == combined_editor(value) = value

\* After every event the two ways the selection is kept agree, it lies within the
\* text, and on one side of each separator, as text.hpp:126 says of fixSelection.
SelectionValid ==
    LET sel == selection IN
    /\ {sel.start, sel.end} \subseteq 0..CursorCount(value)
    /\ index_to_cursor(value, sel.start_i, "mid") = sel.start
    /\ index_to_cursor(value, sel.end_i, "mid") = sel.end
    /\ \A n \in 1..CursorCount(value) :
          Head(untag_for_cursor(value)[n]) = Open("sep") => (sel.start < n <=> sel.end < n)

AllTexts == InitialTexts \cup {insertion.text : insertion \in Insertions}
AllItems == UNION {Range(untag_for_cursor(text)) : text \in AllTexts}

Rich == INSTANCE RichText WITH
    Items <- AllItems, Separators <- {SeparatorItem},
    Insertions <- {[items |-> untag_for_cursor(i.text), name |-> i.name] : i \in Insertions},
    units <- seen.units, typing <- seen.typing,
    anchor <- selection.start, caret <- selection.end,
    past <- [n \in 1..Len(undo_actions) |-> undo_actions[n].seen],
    future <- [n \in 1..Len(redo_actions) |-> Reverse(redo_actions)[n].seen],
    last <- IF undo_actions = <<>> \/ ~last_was_add THEN "none" ELSE Last(undo_actions).name

\* Whatever the tags in the string and the indices of the selection, the editor
\* behaves as rich text: an edit changes what is selected and nothing else, text
\* gets the formats of its surroundings, and undo brings back what was there.
ImplementsRichText == Rich!Spec
=============================================================================
