----------------------------- MODULE CardList -----------------------------
(***************************************************************************)
(* The card list of the cards panel and the panels around it, as the user  *)
(* edits a set with them (src/src/gui/control/item_list.cpp, card_list.cpp *)
(* and image_card_list.cpp, src/src/gui/set/cards_panel.cpp,               *)
(* style_panel.cpp and random_pack_panel.cpp).  The list keeps its own     *)
(* sorted copy of the cards and is told of every action the set performs   *)
(* or undoes (onAction); what it does for an action is part of the step.   *)
(*                                                                         *)
(* The list is virtual: the rows the control has selected are positions.   *)
(* A selection event reaches every panel before the handler goes on, and   *)
(* comes back to the list as setCard of the card it already has, so it     *)
(* adds nothing but selecting that card's row.                             *)
(***************************************************************************)
EXTENDS SetEditing

CONSTANTS MaxClipboard,        \* bounds: cards copied at once,
          MaxCopies            \*   and how often something is copied

VARIABLES list,                \* what the list shows and has selected
          sort,                \* is it sorted, and is that ascending
          filter,              \* the value searched for, NULL for all cards
          out_of_range,        \* a vector was indexed outside its bounds
          copies               \* how often something was copied

view == <<list, sort, filter, out_of_range, copies>>
vars == <<editing, view>>

allowModify == TRUE

NONE == 0
NoItem == NULL
Unsorted == [by_column |-> FALSE, ascending |-> TRUE]

-----------------------------------------------------------------------------
(* ItemList: from one state of the list to the next.                         *)

PositionOf(sorted_list, item) == SelectInSeq(sorted_list, LAMBDA c : c = item)

findSelectedItemPos(l) == [l EXCEPT !.selected_item_pos = PositionOf(l.sorted_list, l.selected_item)]

focusNone(l) == [l EXCEPT !.focused = {}]

\* Without a selected item in the list, the first selected row is deselected.
focusSelectedItem(l) ==
    IF l.sorted_list = <<>> THEN l
    ELSE IF l.selected_item_pos = NONE
         THEN [l EXCEPT !.focused = {p \in @ : \E q \in @ : q < p}]
         ELSE [l EXCEPT !.focused = @ \cup {l.selected_item_pos}]

selectItem(l, item, focus) ==
    LET unfocused == IF item # l.selected_item /\ focus THEN focusNone(l) ELSE l
        found == findSelectedItemPos([unfocused EXCEPT !.selected_item = item])
    IN  IF focus THEN focusSelectedItem(found) ELSE found

\* The event that selecting sends comes back as setCard.
selectItemEvent(l, item) ==
    selectItem(selectItem([l EXCEPT !.selected_item = item], item, TRUE), item, FALSE)

\* Mistaken variant: past the end of the list nothing is selected.
selectItemPosNoBack(l, pos, focus) ==
    LET item == IF InRange(l.sorted_list, pos) THEN l.sorted_list[pos] ELSE NoItem
        moved == IF item # l.selected_item THEN selectItemEvent(l, item) ELSE l
    IN  IF focus THEN focusSelectedItem(moved) ELSE moved
selectItemPos(l, pos, focus) ==
    LET item == IF InRange(l.sorted_list, pos) THEN l.sorted_list[pos]
                ELSE IF l.sorted_list # <<>> THEN Last(l.sorted_list)
                ELSE NoItem
        moved == IF item # l.selected_item THEN selectItemEvent(l, item) ELSE l
    IN  IF focus THEN focusSelectedItem(moved) ELSE moved

\* The cards the list gets from the set s with the cards cs, in its order:
\* stable_sort by value, or the set's own order.
getItems(s, cs, f) ==
    Only(s.cards, {p \in 1..Len(s.cards) : f = NULL \/ cs[s.cards[p]].value = f})

\* Which of two rows comes first.
Precedes(items, cs, so, p, q) ==
    LET v == cs[items[p]].value
        w == cs[items[q]].value
    IN  IF v = w THEN p < q ELSE IF so.ascending THEN v < w ELSE w < v
SortedPlace(items, cs, so, p) ==
    Cardinality({q \in 1..Len(items) : Precedes(items, cs, so, q, p)}) + 1
Sorted(items, cs, so) ==
    IF ~so.by_column THEN items
    ELSE [n \in 1..Len(items) |->
            items[CHOOSE p \in 1..Len(items) : SortedPlace(items, cs, so, p) = n]]

refreshList(l, s, cs, so, f, refresh_current_only) ==
    LET items == Sorted(getItems(s, cs, f), cs, so)
        fresh == findSelectedItemPos([l EXCEPT !.sorted_list = items])
    IN  IF refresh_current_only /\ items = l.sorted_list THEN l
        ELSE focusSelectedItem(focusNone(fresh))

-----------------------------------------------------------------------------
(* CardListBase::onAction, for the set as the action left it.                *)

\* Mistaken variant: nothing else is selected when the selected card goes.
OnAddCardUnselected(l, a, undone) == refreshList(l, set', card', sort, filter, FALSE)
OnAddCard(l, a, undone) ==
    IF a.adding # undone
    THEN LET selected == selectItemEvent(focusNone(l), a.steps[1].item)
             shown == refreshList(selected, set', card', sort, filter, FALSE)
         IN  [shown EXCEPT !.focused = @ \cup
                 {p \in 1..Len(shown.sorted_list) : shown.sorted_list[p] \in CardsOf(a)}]
    ELSE LET shown == refreshList(l, set', card', sort, filter, FALSE)
         IN  IF shown.selected_item_pos = NONE /\ allowModify
             THEN selectItemPos(shown, l.selected_item_pos, TRUE)
             ELSE shown

\* Only card_id2 is compared with the length of the list, which a filter may
\* have made shorter since the action was made.
ReorderMovesSelected(l, a) ==
    /\ ~sort.by_column /\ a.card_id2 <= Len(l.sorted_list)
    /\ l.selected_item_pos \in {a.card_id1, a.card_id2}
ReorderOutOfRange(l, a) ==
    ReorderMovesSelected(l, a) /\ ~({a.card_id1, a.card_id2} \subseteq 1..Len(l.sorted_list))
OnReorderCards(l, a) ==
    IF ~ReorderMovesSelected(l, a) \/ ReorderOutOfRange(l, a) THEN l
    ELSE focusSelectedItem(
        [l EXCEPT !.sorted_list[a.card_id1] = l.sorted_list[a.card_id2],
                  !.sorted_list[a.card_id2] = l.sorted_list[a.card_id1],
                  !.selected_item_pos = IF @ = a.card_id1 THEN a.card_id2 ELSE a.card_id1])

onAction(a, undone) ==
    /\ out_of_range' = (a.type = "Reorder" /\ ReorderOutOfRange(list, a))
    /\ list' = CASE a.type = "AddCard" -> OnAddCard(list, a, undone)
              [] a.type = "Reorder" -> OnReorderCards(list, a)
              [] a.type = "Value"   -> refreshList(list, set', card', sort, filter, TRUE)
              [] OTHER              -> list

-----------------------------------------------------------------------------
(* The commands of the user.                                                 *)

OtherSettings == UNCHANGED <<sort, filter, copies>>

\* What every command that makes an action does.
Perform_and_tell(a) == /\ addAction(a)
                       /\ onAction(a, FALSE)
                       /\ OtherSettings
                       /\ UNCHANGED clipboard

NewCards(cs, contents) ==
    /\ Len(set.cards) + Len(cs) <= MaxCards
    /\ LET made == [c \in CardIds |-> IF \E i \in 1..Len(cs) : cs[i] = c
                                      THEN contents[PositionOf(cs, c)] ELSE card[c]]
           a == AddCardAction(cs)
       IN  addActionWith(made, a) /\ onAction(a, FALSE)
    /\ OtherSettings
    /\ UNCHANGED clipboard

addCard == \E c \in Unused : NewCards(<<c>>, <<NewCard>>)

doPaste == /\ clipboard # <<>>
           /\ \E cs \in [1..Len(clipboard) -> Unused] :
                 IsInjective(cs) /\ NewCards(cs, clipboard)

CardSelected == list.selected_item \in CardIds

getSelection == Only(list.sorted_list, list.focused)

doCopy == /\ list.focused # {} /\ Cardinality(list.focused) <= MaxClipboard
          /\ copies < MaxCopies /\ copies' = copies + 1
          /\ clipboard' = [i \in 1..Len(getSelection) |-> Written(card[getSelection[i]])]
          /\ UNCHANGED <<set, card, undo_actions, redo_actions, hist,
                         list, sort, filter, out_of_range>>

doDelete == /\ allowModify /\ list.focused # {}
            /\ Perform_and_tell(RemoveCardAction(Range(getSelection)))

\* The value of the selected card, in the card editor.
editValue(v) == /\ CardSelected /\ card[list.selected_item].value # v
                /\ Perform_and_tell(ValueAction(list.selected_item, v))

\* Dragging the selected card over the row item.  When the selected card is
\* not in the list, its position in the action is out of range.
onDrag(item) ==
    /\ allowModify /\ CardSelected /\ ~sort.by_column
    /\ InRange(list.sorted_list, item)
    /\ LET found == findSelectedItemPos(list)
           a == ReorderCardsAction(item, found.selected_item_pos)
       IN  /\ found.selected_item_pos # item
           /\ addAction(a)
           /\ list' = OnReorderCards(found, a)
           /\ out_of_range' = (~InRange(set.cards, a.card_id2) \/ ReorderOutOfRange(found, a))
    /\ UNCHANGED <<sort, filter, copies, clipboard>>

\* The style panel: the same style as the set's counts as no style.
onStyleSelect(sheet) ==
    /\ CardSelected
    /\ Perform_and_tell(ChangeCardStyleAction(list.selected_item,
                            IF sheet = set.stylesheet THEN NULL ELSE sheet))
onUseForAll ==
    /\ CardSelected
    /\ card[list.selected_item].stylesheet # NULL
    /\ Perform_and_tell(ChangeSetStyleAction(list.selected_item))
onUseCustom == /\ CardSelected
               /\ Perform_and_tell(ChangeCardHasStylingAction(list.selected_item))

\* The random pack panel.
addPack(p) == /\ Len(set.pack_types) < MaxPacks /\ p \notin Range(set.pack_types)
              /\ Perform_and_tell(AddPackAction(p))
removePack(pos) == /\ InRange(set.pack_types, pos)
                   /\ Perform_and_tell(RemovePackAction(pos))
changePack(pos, p) == /\ InRange(set.pack_types, pos) /\ p \notin Range(set.pack_types)
                      /\ Perform_and_tell(ChangePackAction(pos, p))

Undo == undo /\ onAction(Last(undo_actions), TRUE) /\ OtherSettings
Redo == redo /\ onAction(Last(redo_actions), FALSE) /\ OtherSettings

\* A click on a row, which with a modifier key leaves the other rows selected.
onItemFocus(pos, others) ==
    /\ InRange(list.sorted_list, pos)
    /\ list' = selectItemPos([list EXCEPT !.focused = {pos} \cup (IF others THEN @ ELSE {})],
                             pos, FALSE)
    /\ UNCHANGED <<editing, sort, filter, out_of_range, copies>>

selectPrevious ==
    /\ list.selected_item_pos > 1
    /\ list' = selectItemPos(focusNone(list), list.selected_item_pos - 1, TRUE)
    /\ UNCHANGED <<editing, sort, filter, out_of_range, copies>>
selectNext ==
    /\ list.selected_item_pos # NONE /\ list.selected_item_pos < Len(list.sorted_list)
    /\ list' = selectItemPos(focusNone(list), list.selected_item_pos + 1, TRUE)
    /\ UNCHANGED <<editing, sort, filter, out_of_range, copies>>

\* The header of the column: ascending, descending, not sorted.
onColumnClick ==
    /\ sort' = IF ~sort.by_column THEN [by_column |-> TRUE, ascending |-> TRUE]
               ELSE IF sort.ascending THEN [sort EXCEPT !.ascending = FALSE]
               ELSE [sort EXCEPT !.by_column = FALSE]
    /\ list' = refreshList(list, set, card, sort', filter, FALSE)
    /\ UNCHANGED <<editing, filter, out_of_range, copies>>

\* Searching rebuilds the list, with the order of the settings: clicking the
\* header does not change those.
setFilter(f) ==
    /\ filter' = f
    /\ sort' = Unsorted
    /\ list' = refreshList([list EXCEPT !.selected_item_pos = NONE, !.focused = {}],
                           set, card, sort', f, FALSE)
    /\ UNCHANGED <<editing, out_of_range, copies>>

-----------------------------------------------------------------------------
\* The set that was opened has a card with styling of its own; the first card
\* of the list is selected.
Init ==
    /\ \E cs \in [1..MaxCards - 1 -> CardIds], sheet \in Sheets :
          /\ IsInjective(cs)
          /\ set = [cards |-> cs, stylesheet |-> sheet, pack_types |-> <<>>]
          /\ card = [c \in CardIds |-> IF c = cs[1]
                        THEN [NewCard EXCEPT !.has_styling = TRUE, !.styling_data = sheet]
                        ELSE NewCard]
    /\ undo_actions = <<>> /\ redo_actions = <<>> /\ clipboard = <<>>
    /\ hist = <<Document(set, card)>>
    /\ list = [sorted_list |-> set.cards, selected_item |-> set.cards[1],
               selected_item_pos |-> 1, focused |-> {1}]
    /\ sort = Unsorted
    /\ copies = 0
    /\ filter = NULL
    /\ out_of_range = FALSE

Next ==
    \* a program that wrote out of range can do anything; nothing is said of it
    /\ ~out_of_range
    /\ \/ addCard \/ doPaste \/ doCopy \/ doDelete
       \/ \E v \in Values : editValue(v)
       \/ \E i \in 1..MaxCards : onDrag(i)
       \/ \E sheet \in Sheets : onStyleSelect(sheet)
       \/ onUseForAll \/ onUseCustom
       \/ \E p \in PackTypes : addPack(p)
       \/ \E pos \in 1..MaxPacks : removePack(pos)
       \/ \E pos \in 1..MaxPacks, p \in PackTypes : changePack(pos, p)
       \/ Undo \/ Redo
       \/ \E i \in 1..MaxCards, others \in BOOLEAN : onItemFocus(i, others)
       \/ selectPrevious \/ selectNext
       \/ onColumnClick
       \/ \E f \in Values \cup {NULL} : setFilter(f)

Spec == Init /\ [][Next]_vars

-----------------------------------------------------------------------------
\* The panels edit the selected card (editor, style panel): it is a card of the
\* set; the list shows every card that passes the filter exactly once, and the
\* position it keeps is that of the selected card.
SelectionShown ==
    /\ \A c \in CardIds :
          (\E i \in 1..Len(list.sorted_list) : list.sorted_list[i] = c)
              <=> c \in Range(getItems(set, card, filter))
    /\ IsInjective(list.sorted_list)
    /\ list.selected_item # NoItem => list.selected_item \in Range(set.cards)
    /\ list.selected_item_pos = PositionOf(list.sorted_list, list.selected_item)

\* While the list shows a card, one is selected once one was: deleting the
\* selected card, or undoing that it was added, selects another one
\* (selectItemPos past the end of the list takes the last).
SelectionKept ==
    [][list.selected_item # NoItem /\ list'.sorted_list # <<>>
          => list'.selected_item # NoItem]_vars

\* "assert(card_id2 < set.cards.size())" (src/src/data/action/set.cpp:60): the
\* positions of the cards to swap are positions of cards of the set.
ReorderInRange == ~out_of_range
=============================================================================
