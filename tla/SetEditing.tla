---------------------------- MODULE SetEditing ----------------------------
(***************************************************************************)
(* A set as the user edits it (src/src/data/set.hpp), and the actions that *)
(* change its cards, styles and pack types (src/src/data/action/set.cpp,   *)
(* src/src/data/action/generic.hpp, src/src/data/action/value.cpp).  Every *)
(* action keeps what it needs to be undone, often by exchanging it with    *)
(* the set; perform therefore gives back a set and an action.              *)
(*                                                                         *)
(* Positions are counted from 1; 0 stands for the code's -1, which as a    *)
(* size_t is larger than every position.  Styling data is abstracted to    *)
(* the stylesheet whose fields it has values for, NULL when it is empty.   *)
(* The stack itself is the module ActionStack; merging and deleting        *)
(* actions are left to it.                                                 *)
(***************************************************************************)
EXTENDS Naturals, SequencesExt, Positions

CONSTANTS CardIds,         \* the cards that can exist
          Sheets,          \* the stylesheets of the game
          Values,          \* what the field of a card can hold
          PackTypes,
          NULL,
          MaxCards,        \* bounds: cards of the set,
          MaxHistory,      \*   actions on the two stacks
          MaxPacks         \*   and pack types

ASSUME ValuesAssumption == Values \subseteq Nat /\ Values # {}
ASSUME BoundsAssumption == {MaxCards, MaxHistory, MaxPacks} \subseteq Nat /\ MaxCards > 1
ASSUME NullAssumption == NULL \notin CardIds \cup Sheets \cup PackTypes

VARIABLES set,             \* the set: cards, stylesheet and pack types
          card,            \* every card: its value, stylesheet and styling
          undo_actions,    \* top of the stack last
          redo_actions,
          clipboard,       \* the cards it holds, written out
          hist             \* history variable: the documents the stacks lead through

editing == <<set, card, undo_actions, redo_actions, clipboard, hist>>

Card == [value : Values, stylesheet : Sheets \cup {NULL},
         has_styling : BOOLEAN, styling_data : Sheets \cup {NULL}]

NewCard == [value |-> Min(Values), stylesheet |-> NULL,
            has_styling |-> FALSE, styling_data |-> NULL]

InRange(s, pos) == pos \in 1..Len(s)

-----------------------------------------------------------------------------
(* GenericAddAction: what adding and removing items have in common.          *)

AddSteps(items, container) ==
    [i \in 1..Len(items) |-> [pos |-> Len(container) + i, item |-> items[i]]]

\* The positions are those before anything is removed, in ascending order.
RemoveSteps(items, container) ==
    LET at == {p \in 1..Len(container) : container[p] \in items}
    IN  [i \in 1..Cardinality(at) |->
            [pos |-> Place(at, i), item |-> container[Place(at, i)]]]

InsertSteps(container, steps) ==
    LET after[n \in 0..Len(steps)] ==
            IF n = 0 THEN container
            ELSE InsertAt(after[n - 1], steps[n].pos, steps[n].item)
    IN  after[Len(steps)]

\* Mistaken variant: the steps are undone in the order they were made.
EraseStepsAscending(container, steps) ==
    LET after[n \in 0..Len(steps)] ==
            IF n = 0 THEN container
            ELSE IF InRange(after[n - 1], steps[n].pos) THEN RemoveAt(after[n - 1], steps[n].pos)
            ELSE after[n - 1]
    IN  after[Len(steps)]
EraseSteps(container, steps) ==
    LET after[n \in 0..Len(steps)] ==
            IF n = 0 THEN container
            ELSE RemoveAt(after[n - 1], steps[Len(steps) + 1 - n].pos)
    IN  after[Len(steps)]

GenericAdd(container, a, to_undo) ==
    IF a.adding # to_undo THEN InsertSteps(container, a.steps)
                          ELSE EraseSteps(container, a.steps)

-----------------------------------------------------------------------------
(* Set::stylesheetFor; the set of cards of an action; what each perform does.*)
(* doc is a record of the set, its cards and the action.                     *)

StylesheetFor(s, c) == IF c.stylesheet = NULL THEN s.stylesheet ELSE c.stylesheet

PerformAddCard(doc, a, to_undo) ==
    [doc EXCEPT !.set.cards = GenericAdd(@, a, to_undo)]

\* The condition on card_id2 is the wrong way around, so two positions of the
\* set are never swapped; what happens out of range is up to the caller.
PerformReorderCards(doc, a, to_undo) == doc

PerformValue(doc, a, to_undo) ==
    [doc EXCEPT !.card[a.card].value = a.new_value,
                !.action.new_value = doc.card[a.card].value]

PerformChangeCardStyle(doc, a, to_undo) ==
    LET c == doc.card[a.card]
    IN  [doc EXCEPT !.card[a.card] = [c EXCEPT !.stylesheet = a.stylesheet,
                                               !.has_styling = a.has_styling,
                                               !.styling_data = a.styling_data],
                    !.action = [a EXCEPT !.stylesheet = c.stylesheet,
                                         !.has_styling = c.has_styling,
                                         !.styling_data = c.styling_data]]

\* A card with styling of its own for the set's stylesheet loses it: the
\* styling data stays where it is, and only has_styling is kept for undo.
PerformChangeSetStyle(doc, a, to_undo) ==
    LET s == doc.set
        At(c) == CHOOSE i \in 1..Len(s.cards) : s.cards[i] = c
        InSet(c) == \E i \in 1..Len(s.cards) : s.cards[i] = c
        Do == [doc EXCEPT
            !.card = [c \in CardIds |->
                [doc.card[c] EXCEPT
                    !.has_styling = @ /\ ~(InSet(c) /\ doc.card[c].stylesheet = NULL),
                    !.stylesheet = IF c = a.card THEN NULL ELSE @]],
            !.set.stylesheet = doc.card[a.card].stylesheet,
            !.action.stylesheet = s.stylesheet,
            !.action.has_styling = [i \in 1..Len(s.cards) |-> doc.card[s.cards[i]].has_styling]]
        Undo == [doc EXCEPT
            !.card = [c \in CardIds |->
                [doc.card[c] EXCEPT
                    !.has_styling = IF InSet(c) THEN a.has_styling[At(c)] ELSE @,
                    !.stylesheet = IF c = a.card THEN s.stylesheet ELSE @]],
            !.set.stylesheet = a.stylesheet]
    IN  IF to_undo THEN Undo ELSE Do

PerformChangeCardHasStyling(doc, a, to_undo) ==
    LET c == doc.card[a.card]
    IN  [doc EXCEPT !.card[a.card] = [c EXCEPT !.has_styling = ~@,
                                               !.styling_data = a.styling_data],
                    !.action.styling_data = c.styling_data]

PerformAddPack(doc, a, to_undo) ==
    [doc EXCEPT !.set.pack_types = GenericAdd(@, a, to_undo)]

PerformChangePack(doc, a, to_undo) ==
    [doc EXCEPT !.set.pack_types[a.pos] = a.pack,
                !.action.pack = doc.set.pack_types[a.pos]]

Perform(s, cs, a, to_undo) ==
    LET doc == [set |-> s, card |-> cs, action |-> a]
    IN  CASE a.type = "AddCard"     -> PerformAddCard(doc, a, to_undo)
          [] a.type = "Reorder"     -> PerformReorderCards(doc, a, to_undo)
          [] a.type = "Value"       -> PerformValue(doc, a, to_undo)
          [] a.type = "CardStyle"   -> PerformChangeCardStyle(doc, a, to_undo)
          [] a.type = "SetStyle"    -> PerformChangeSetStyle(doc, a, to_undo)
          [] a.type = "HasStyling"  -> PerformChangeCardHasStyling(doc, a, to_undo)
          [] a.type = "AddPack"     -> PerformAddPack(doc, a, to_undo)
          [] a.type = "ChangePack"  -> PerformChangePack(doc, a, to_undo)

-----------------------------------------------------------------------------
(* The constructors, each for the set as it is when the action is made.      *)

AddCardAction(cs) == [type |-> "AddCard", adding |-> TRUE, steps |-> AddSteps(cs, set.cards)]
RemoveCardAction(cs) ==
    [type |-> "AddCard", adding |-> FALSE, steps |-> RemoveSteps(cs, set.cards)]
ReorderCardsAction(id1, id2) == [type |-> "Reorder", card_id1 |-> id1, card_id2 |-> id2]
ValueAction(c, v) == [type |-> "Value", card |-> c, new_value |-> v]
ChangeCardStyleAction(c, sheet) ==
    [type |-> "CardStyle", card |-> c, stylesheet |-> sheet,
     has_styling |-> FALSE, styling_data |-> NULL]
ChangeSetStyleAction(c) ==
    [type |-> "SetStyle", card |-> c, stylesheet |-> NULL, has_styling |-> <<>>]

\* Mistaken variant: the styling is copied from the set's own stylesheet.
ChangeCardHasStylingActionOfSet(c) ==
    [type |-> "HasStyling", card |-> c,
     styling_data |-> IF card[c].has_styling THEN NULL ELSE set.stylesheet]
\* The card's own styling starts as a copy of what the set has for its stylesheet.
ChangeCardHasStylingAction(c) ==
    [type |-> "HasStyling", card |-> c,
     styling_data |-> IF card[c].has_styling THEN NULL ELSE StylesheetFor(set, card[c])]
AddPackAction(p) ==
    [type |-> "AddPack", adding |-> TRUE, steps |-> AddSteps(<<p>>, set.pack_types)]
RemovePackAction(pos) ==
    [type |-> "AddPack", adding |-> FALSE,
     steps |-> <<[pos |-> pos, item |-> set.pack_types[pos]]>>]
ChangePackAction(pos, p) == [type |-> "ChangePack", pos |-> pos, pack |-> p]

-----------------------------------------------------------------------------
(* The history: ActionStack without merging.                                 *)

\* What the user can see of the set; removed cards do not count.
Document(s, cs) == [set |-> s, cards |-> [i \in 1..Len(s.cards) |-> cs[s.cards[i]]]]

Apply(doc) == set' = doc.set /\ card' = doc.card

\* cs is the cards, those the action was made with included.
addActionWith(cs, a) ==
    LET doc == Perform(set, cs, a, FALSE)
    IN  /\ Len(undo_actions) < MaxHistory
        /\ Apply(doc)
        /\ undo_actions' = Append(undo_actions, doc.action)
        /\ redo_actions' = <<>>
        /\ hist' = Append(SubSeq(hist, 1, Len(undo_actions) + 1),
                          Document(doc.set, doc.card))
addAction(a) == addActionWith(card, a)

undo ==
    /\ undo_actions # <<>>
    /\ LET doc == Perform(set, card, Last(undo_actions), TRUE)
       IN  /\ Apply(doc)
           /\ undo_actions' = Front(undo_actions)
           /\ redo_actions' = Append(redo_actions, doc.action)
    /\ UNCHANGED <<clipboard, hist>>

redo ==
    /\ redo_actions # <<>>
    /\ LET doc == Perform(set, card, Last(redo_actions), FALSE)
       IN  /\ Apply(doc)
           /\ redo_actions' = Front(redo_actions)
           /\ undo_actions' = Append(undo_actions, doc.action)
    /\ UNCHANGED <<clipboard, hist>>

\* Cards nothing refers to: a card that is made is none of the others.
CardsOf(a) == CASE a.type = "AddCard" -> {a.steps[i].item : i \in 1..Len(a.steps)}
                [] a.type \in {"Value", "CardStyle", "SetStyle", "HasStyling"} -> {a.card}
                [] OTHER -> {}
Unused == CardIds \ (Range(set.cards)
                     \cup UNION {CardsOf(a) : a \in Range(undo_actions) \cup Range(redo_actions)})

\* A card with styling for the set's stylesheet is written with that stylesheet.
Written(c) == IF c.has_styling THEN [c EXCEPT !.stylesheet = StylesheetFor(set, c)]
                               ELSE [c EXCEPT !.styling_data = NULL]

-----------------------------------------------------------------------------
(* The properties of the set.                                                *)

\* Undo and redo lead back through exactly the sets the user had: the cards in
\* their order, their values and styles, the set's stylesheet and pack types,
\* whatever mix of actions is undone (perform(true) of every action class).
HistoryCorrect == Document(set, card) = hist[Len(undo_actions) + 1]

\* "If stylesheet is set then contains data for the this->stylesheet, otherwise
\* for set->stylesheet" (src/src/data/card.hpp:47), also after the stylesheet of
\* the whole set has changed and changed back: Set::stylingDataFor hands the
\* styling of a card to the fields of the stylesheet it is shown with.
StylingFits ==
    \A c \in Range(set.cards) :
        card[c].has_styling => card[c].styling_data = StylesheetFor(set, card[c])
=============================================================================
