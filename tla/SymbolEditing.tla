--------------------------- MODULE SymbolEditing ---------------------------
(***************************************************************************)
(* The symbol editor (src/src/gui/symbol): the parts of a symbol are       *)
(* selected in the drawing or in the list of parts, and what the user does *)
(* to the selection, or drags in the list, is an action on the stack of    *)
(* the symbol.  Undo is refused while something is dragged, so a drag is   *)
(* one step.  Every command is given with its own tool: taking up a tool   *)
(* selects nothing that a click could not select.                          *)
(*                                                                         *)
(* Undo, redo and most commands leave the selection as it is, so it may    *)
(* hold parts that are no longer, or not again, part of the symbol.        *)
(*                                                                         *)
(* Careless is what the user does although the code does not get it right: *)
(*   "shear"   redo a shear;                                               *)
(*   "drop"    drag the only part of a group to a place behind the group;  *)
(*   "select"  undo or redo what takes a selected part into or out of a    *)
(*             selected group.                                             *)
(***************************************************************************)
EXTENDS SymbolParts

CONSTANTS MaxEdits,        \* bound: the actions the user adds
          Careless

ASSUME CarelessAssumption == Careless \subseteq {"shear", "drop", "select"}

VARIABLES symbol,
          selection,
          undo_actions,    \* top of the stack last
          redo_actions,
          last_was_add,
          edits,           \* the actions that were added
          hist             \* history variable: the symbols the stacks lead through

vars == <<symbol, selection, undo_actions, redo_actions, last_was_add, edits, hist>>

Document(s) == [p \in Within(s, Root) |-> s[p]]

-----------------------------------------------------------------------------
(* The action stack.                                                         *)

\* A part is gone with the last one that refers to it.
PartsOf(a) ==
    CASE a.type \in {"Move", "Rotate", "Shear"} -> a.parts
      [] a.type = "Combine"        -> Range(a.shapes)
      [] a.type \in {"Name", "Add"} -> {a.part}
      [] a.type = "Remove"         -> {r.removed : r \in Range(a.removals)} \cup {r.parent : r \in Range(a.removals)}
      [] a.type = "Duplicate"      -> {d.part : d \in Range(a.duplications)}
      [] a.type = "Reorder"        -> {a.old_parent, a.new_parent}
      [] a.type = "UngroupReorder" -> {a.group, a.group_parent, a.target_parent}
      [] a.type = "Group"          -> Range(a.old_part_list)
Kept(s, parts) ==
    LET kept == UNION {Within(s, p) : p \in parts}
    IN  [p \in DOMAIN s |-> IF p \in kept THEN s[p] ELSE Nothing]

\* What the new action keeps is older than what it is merged with.
merges(a) == /\ last_was_add /\ redo_actions = <<>> /\ undo_actions # <<>>
             /\ a.type = "Name"
             /\ Last(undo_actions).type = "Name" /\ Last(undo_actions).part = a.part

\* Listeners see the symbol an action was first performed on; a drag changes
\* the action on top of the stack further.
addPerformed(doc) ==
    /\ edits < MaxEdits
    /\ edits' = edits + 1
    /\ undo_actions' = IF merges(doc.action) THEN undo_actions
                                            ELSE Append(undo_actions, doc.action)
    /\ redo_actions' = <<>>
    /\ symbol' = Kept(doc.symbol, {Root} \cup selection \cup selection'
                                  \cup UNION {PartsOf(a) : a \in Range(undo_actions')})
    /\ last_was_add' = TRUE
    /\ hist' = Append(SubSeq(hist, 1, Len(undo_actions')), Document(symbol'))

addAction(doc) == addPerformed(Perform(doc, FALSE))

\* Is no selected part inside of another one?
NoneInside(s, sel) == \A p, q \in sel : p # q => ~isAncestor(s, p, q)
StillApart == "select" \in Careless \/ NoneInside(symbol', selection)

undo ==
    /\ undo_actions # <<>>
    /\ LET doc == Perform([symbol |-> symbol, action |-> Last(undo_actions)], TRUE)
       IN  /\ symbol' = doc.symbol
           /\ redo_actions' = Append(redo_actions, doc.action)
    /\ StillApart
    /\ undo_actions' = Front(undo_actions)
    /\ last_was_add' = FALSE
    /\ UNCHANGED <<selection, edits, hist>>

redo ==
    /\ redo_actions # <<>>
    /\ Last(redo_actions).type = "Shear" => "shear" \in Careless
    /\ LET doc == Perform([symbol |-> symbol, action |-> Last(redo_actions)], FALSE)
       IN  /\ symbol' = doc.symbol
           /\ undo_actions' = Append(undo_actions, doc.action)
    /\ StillApart
    /\ redo_actions' = Front(redo_actions)
    /\ last_was_add' = FALSE
    /\ UNCHANGED <<selection, edits, hist>>

-----------------------------------------------------------------------------
(* The selection.                                                            *)

\* Mistaken variant: a group takes the place of its own members only.
clearMembers(s, sel, p) == sel \ Range(s[p].parts)
clearChildren(s, sel, p) == sel \ (Within(s, p) \ {p})

Selected(s, sel, p, mode) ==
    IF mode # "override" /\ \E q \in sel : q # p /\ isAncestor(s, q, p) THEN sel
    ELSE IF mode = "toggle"
         THEN IF p \in sel THEN sel \ {p} ELSE clearChildren(s, sel \cup {p}, p)
         ELSE {p}

\* A click on a part of the list, or on a shape of the drawing; a rectangle
\* toggles every part that gets into or out of it, in the order of the list.
select(p, mode) ==
    /\ edits < MaxEdits
    /\ selection' = Selected(symbol, selection, p, mode)
    /\ UNCHANGED <<symbol, undo_actions, redo_actions, last_was_add, edits, hist>>

clear == /\ edits < MaxEdits
         /\ selection' = {}
         /\ UNCHANGED <<symbol, undo_actions, redo_actions, last_was_add, edits, hist>>

-----------------------------------------------------------------------------
(* The commands of the select, shape and symmetry tools.                     *)

\* an arrow key, or a drag of the selection
move(delta) == UNCHANGED selection /\ addAction(MoveAction(symbol, selection, delta))

\* Drags of a handle: the action is added before it does anything.
rotateTo(angle) ==
    /\ selection # {}
    /\ UNCHANGED selection
    /\ LET doc == Perform(RotateAction(symbol, selection), FALSE)
       IN  addPerformed([symbol |-> rotateBy(doc.symbol, selection, angle),
                         action |-> [doc.action EXCEPT !.angle = angle]])

shearTo(shear) ==
    /\ selection # {}
    /\ UNCHANGED selection
    /\ LET doc == Perform(ShearAction(symbol, selection), FALSE)
       IN  addPerformed([symbol |-> shearBy(doc.symbol, selection, shear),
                         action |-> [doc.action EXCEPT !.moved = shear]])

combine(mode) ==
    /\ \E p \in selection : symbol[p].kind = "shape"
    /\ UNCHANGED selection
    /\ addAction(CombineAction(symbol, selection, mode))

duplicate ==
    /\ selection # {}
    /\ Room(symbol, Cardinality(UNION {Within(symbol, p) : p \in selection}))
    /\ UNCHANGED selection
    /\ addAction(DuplicateAction(symbol, selection))

group ==
    /\ Cardinality(selection) >= 2 /\ Room(symbol, 1)
    /\ UNCHANGED selection
    /\ addAction(GroupAction(symbol, selection, "group"))

ungroup ==
    /\ \E p \in selection : symbol[p].kind = "group"
    /\ UNCHANGED selection
    /\ addAction(UngroupAction(symbol, selection))

addSymmetry ==
    /\ Room(symbol, 1)
    /\ selection' = {Fresh(symbol)}
    /\ addAction(GroupAction(symbol, selection, "symmetry"))

removeSymmetry ==
    /\ \E p \in selection : symbol[p].kind = "symmetry"
    /\ UNCHANGED selection
    /\ addAction(UngroupAction(symbol, selection))

addShape ==
    /\ Room(symbol, 1)
    /\ selection' = {Fresh(symbol)}
    /\ addAction(AddAction(symbol, <<1, 0>>))

remove == selection' = {} /\ addAction(RemoveAction(symbol, selection))

-----------------------------------------------------------------------------
(* The list of parts.                                                        *)

\* typing a name for the part that is selected
typeName(name) ==
    /\ UNCHANGED selection
    /\ \E p \in Tree(symbol) : selection = {p} /\ addAction(NameAction(symbol, p, name))

\* What is dragged out of drag_parent is dropped in a group next to one it is
\* in, or right in the symbol; from a place deeper down it moves up.
RECURSIVE DropTarget(_, _, _)
DropTarget(s, drag_parent, place) ==
    LET up == findParent(s, place.parent)
    IN  IF place.parent = Root THEN place
        ELSE IF isAncestor(s, up, drag_parent) THEN place
        ELSE DropTarget(s, drag_parent, [parent |-> up, pos |-> Position(s, place.parent)])

\* anywhere but inside of the part that is dragged
DropPlaces(s, part) ==
    UNION {{[parent |-> g, pos |-> pos] : pos \in 1..Len(s[g].parts) + 1} :
              g \in {h \in Within(s, Root) \ Within(s, part) : isSymbolGroup(s, h)}}

drag(part, place) ==
    LET s == symbol
        from == findParent(s, part)
        old == Position(s, part)
        target == DropTarget(s, from, place)
        to == target.parent
        new == IF to = from /\ old < target.pos THEN target.pos - 1 ELSE target.pos
        Emptied == to # from /\ Len(s[from].parts) = 1 /\ s[from].kind # "symmetry"
    IN  /\ selection' = {part}
        /\ IF to = from /\ new = old
           THEN UNCHANGED <<symbol, undo_actions, redo_actions, last_was_add, edits, hist>>
           ELSE IF Emptied
                THEN /\ to = findParent(s, from) /\ new > Position(s, from) => "drop" \in Careless
                     /\ addAction(UngroupReorderAction(s, findParent(s, from), Position(s, from), to, new))
                ELSE addAction(ReorderAction(s, from, old, to, new))

-----------------------------------------------------------------------------
\* a symbol of a file: a group of two shapes, on top of another shape
Init ==
    /\ symbol = [p \in {Root} \cup Parts |->
                    CASE p = Root -> Group("group", <<4, 3>>)
                      [] p = 4    -> Group("group", <<1, 2>>)
                      [] p < 4    -> Shape(<<p, 0>>)
                      [] OTHER    -> Nothing]
    /\ selection = {}
    /\ undo_actions = <<>> /\ redo_actions = <<>> /\ last_was_add = FALSE /\ edits = 0
    /\ hist = <<Document(symbol)>>

Next ==
    \/ undo \/ redo \/ clear
    \/ \E p \in Tree(symbol), mode \in {"override", "toggle"} : select(p, mode)
    \/ move(<<0, 1>>) \/ rotateTo(1) \/ shearTo(<<1, 0>>)
    \/ \E mode \in Modes \ {Nothing.combine} : combine(mode)
    \/ duplicate \/ group \/ ungroup \/ addSymmetry \/ removeSymmetry \/ addShape \/ remove
    \/ \E name \in PartNames \ {Nothing.name} : typeName(name)
    \/ \E part \in Tree(symbol) : \E place \in DropPlaces(symbol, part) : drag(part, place)

Spec == Init /\ [][Next]_vars

-----------------------------------------------------------------------------
\* Undo and redo lead back through exactly the symbols the user had, whatever
\* is selected in between: actions keep positions and lists of parts that are
\* right only for the symbol they were made for.
UndoRestores == Document(symbol) = hist[Len(undo_actions) + 1]

\* The parts are a tree: no part is in the symbol twice, or inside of itself,
\* however often it was grouped, dragged, copied and brought back.
PartsOnce ==
    LET lists == {symbol[g].parts : g \in Within(symbol, Root)}
    IN  /\ \A l \in lists : IsInjective(l)
        /\ \A g, h \in Within(symbol, Root) :
              g # h => Range(symbol[g].parts) \cap Range(symbol[h].parts) = {}
        /\ \A g \in Within(symbol, Root) : Root \notin Range(symbol[g].parts)

\* "make sure part is not the decendent of a part that is already selected"
\* (selection.cpp:31): nothing the user does, undo and redo aside, selects a
\* part together with a group it is in; such a part would be moved twice, and
\* undoing a change of its mode would not change it back.
SelectionApart ==
    [][NoneInside(symbol, selection) /\ ~undo /\ ~redo => NoneInside(symbol', selection')]_vars
=============================================================================
