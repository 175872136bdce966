---------------------------- MODULE SymbolParts ----------------------------
(***************************************************************************)
(* The parts of a symbol (src/src/data/symbol.hpp), a tree of shapes,      *)
(* groups and symmetries, and the actions on whole parts                   *)
(* (src/src/data/action/symbol.cpp).  As in module SetEditing an action    *)
(* keeps what it needs to be undone, and perform gives back a symbol and   *)
(* an action.                                                              *)
(*                                                                         *)
(* A symbol is a function from parts to what they hold; Root is the symbol *)
(* itself, which is a group.  Parts outside the tree are those that only   *)
(* actions or the selection refer to.  Positions are counted from 1.  A    *)
(* shape is abstracted to one of its points, its combining mode and its    *)
(* name, a symmetry to its center; groups have no place of their own.      *)
(***************************************************************************)
EXTENDS Integers, SequencesExt

CONSTANTS MaxPart,         \* bound: the parts that are ever made
          Modes,           \* how shapes are combined with those below
          PartNames

ASSUME MaxPartAssumption == MaxPart \in Nat \ {0}

Root == 0
Parts == 1..MaxPart

Plus(v, w) == <<v[1] + w[1], v[2] + w[2]>>
Minus(v) == <<-v[1], -v[2]>>

Nothing == [kind |-> "none", parts |-> <<>>, at |-> <<0, 0>>,
            combine |-> CHOOSE m \in Modes : TRUE, name |-> CHOOSE n \in PartNames : TRUE]
Shape(at) == [Nothing EXCEPT !.kind = "shape", !.at = at]
Group(kind, parts) == [Nothing EXCEPT !.kind = kind, !.parts = parts]
Fresh(s) == CHOOSE p \in Parts : s[p].kind = "none" /\ \A q \in 1..p - 1 : s[q].kind # "none"
Room(s, n) == Cardinality({p \in Parts : s[p].kind = "none"}) >= n

isSymbolGroup(s, p) == s[p].kind \in {"group", "symmetry"}

\* All parts that p isAncestor of, p itself among them.
RECURSIVE Within(_, _)
Within(s, p) == {p} \cup UNION {Within(s, q) : q \in Range(s[p].parts)}
isAncestor(s, p, q) == q \in Within(s, p)

\* The tree, and the group a part of it is in.
Tree(s) == Within(s, Root) \ {Root}
findParent(s, p) == CHOOSE g \in Tree(s) \cup {Root} : Contains(s[g].parts, p)
Position(s, p) == SelectInSeq(s[findParent(s, p)].parts, LAMBDA q : q = p)

Each(S) == SetToSeq(S)

-----------------------------------------------------------------------------
(* Moving and transforming: a part that is given together with a group it is *)
(* in is moved once for each of them.                                        *)

HasPlace(s, p) == s[p].kind \in {"shape", "symmetry"}
Times(s, parts, p) == Cardinality({q \in parts : p \in Within(s, q)})
Repeat(f(_), n, v) == FoldLeft(LAMBDA w, i : f(w), v, [i \in 1..n |-> i])

OnPlaces(s, parts, f(_)) ==
    [p \in DOMAIN s |-> IF HasPlace(s, p) THEN [s[p] EXCEPT !.at = Repeat(f, Times(s, parts, p), @)]
                                          ELSE s[p]]

\* In quarters of a turn, and sheared, about the origin: the center the action
\* was made with lies outside of every part.
Turned(v, angle) == CASE angle = 0  -> v
                      [] angle = 1  -> <<-v[2], v[1]>>
                      [] angle = -1 -> <<v[2], -v[1]>>
Sheared(v, shear) == <<v[1] + shear[1] * v[2], shear[2] * v[1] + v[2]>>

rotateBy(s, parts, angle) == OnPlaces(s, parts, LAMBDA v : Turned(v, angle))
shearBy(s, parts, shear) == OnPlaces(s, parts, LAMBDA v : Sheared(v, shear))

PerformMove(doc, a) ==
    [symbol |-> OnPlaces(doc.symbol, a.parts, LAMBDA v : Plus(v, Minus(a.moved))),
     action |-> [a EXCEPT !.moved = Minus(@)]]

PerformRotate(doc, a) ==
    [symbol |-> rotateBy(doc.symbol, a.parts, -a.angle), action |-> [a EXCEPT !.angle = -@]]

\* Unlike the others this keeps its sign: performed again it shears on.
PerformShear(doc, a) == [doc EXCEPT !.symbol = shearBy(@, a.parts, Minus(a.moved))]

-----------------------------------------------------------------------------
(* Properties of parts; the modes of a shape given twice are exchanged twice. *)

RECURSIVE ShapesIn(_, _)
ShapesIn(s, p) == IF s[p].kind = "shape" THEN <<p>>
                  ELSE FlattenSeq([i \in DOMAIN s[p].parts |-> ShapesIn(s, s[p].parts[i])])

PerformCombine(doc, a) ==
    FoldLeft(LAMBDA d, i : [d EXCEPT !.symbol[a.shapes[i]].combine = d.action.modes[i],
                                     !.action.modes[i] = d.symbol[a.shapes[i]].combine],
             doc, [i \in DOMAIN a.shapes |-> i])

PerformName(doc, a) == [doc EXCEPT !.symbol[a.part].name = a.name,
                                   !.action.name = doc.symbol[a.part].name]

-----------------------------------------------------------------------------
(* The lists of parts.                                                       *)

PerformAdd(doc, a, to_undo) ==
    [doc EXCEPT !.symbol[Root].parts = IF to_undo THEN Tail(@) ELSE <<a.part>> \o @]

\* The removals, in ascending order in every group; what is inside of a part
\* that is removed goes with it.
RECURSIVE Removals(_, _, _)
Removals(s, g, parts) ==
    FlattenSeq([i \in DOMAIN s[g].parts |->
        LET p == s[g].parts[i]
        IN  IF p \in parts THEN <<[parent |-> g, pos |-> i, removed |-> p]>>
                           ELSE Removals(s, p, parts)])

\* Mistaken variant: earlier removals shift what is removed later.
PerformRemoveAscending(doc, a, to_undo) ==
    [doc EXCEPT !.symbol =
        IF to_undo
        THEN FoldLeft(LAMBDA s, r : [s EXCEPT ![r.parent].parts = InsertAt(@, r.pos, r.removed)],
                      doc.symbol, a.removals)
        ELSE FoldLeft(LAMBDA s, r : [s EXCEPT ![r.parent].parts =
                                        IF r.pos \in DOMAIN @ THEN RemoveAt(@, r.pos) ELSE @],
                      doc.symbol, a.removals)]
PerformRemove(doc, a, to_undo) ==
    [doc EXCEPT !.symbol =
        IF to_undo
        THEN FoldLeft(LAMBDA s, r : [s EXCEPT ![r.parent].parts = InsertAt(@, r.pos, r.removed)],
                      doc.symbol, a.removals)
        ELSE FoldRight(LAMBDA r, s : [s EXCEPT ![r.parent].parts = RemoveAt(@, r.pos)],
                       a.removals, doc.symbol)]

PerformDuplicate(doc, a, to_undo) ==
    [doc EXCEPT !.symbol[Root].parts =
        IF to_undo THEN FoldRight(LAMBDA d, ps : RemoveAt(ps, d.pos), a.duplications, @)
        ELSE FoldLeft(LAMBDA ps, d : InsertAt(ps, d.pos, d.part), @, a.duplications)]

PerformReorder(doc, a) ==
    LET part == doc.symbol[a.old_parent].parts[a.old_position]
        Removed == [doc.symbol EXCEPT ![a.old_parent].parts = RemoveAt(@, a.old_position)]
    IN  [symbol |-> [Removed EXCEPT ![a.new_parent].parts = InsertAt(@, a.new_position, part)],
         action |-> [a EXCEPT !.old_parent = a.new_parent, !.old_position = a.new_position,
                              !.new_parent = a.old_parent, !.new_position = a.old_position]]

PerformUngroupReorder(doc, a, to_undo) ==
    LET s == doc.symbol
        parts == s[a.group].parts
        Erased == [s EXCEPT ![a.group_parent].parts = RemoveAt(@, a.group_pos)]
        Taken == [s EXCEPT ![a.target_parent].parts =
                     SubSeq(@, 1, a.target_pos - 1)
                       \o SubSeq(@, a.target_pos + Len(parts), Len(@))]
    IN  [doc EXCEPT !.symbol =
            IF to_undo
            THEN [Taken EXCEPT ![a.group_parent].parts = InsertAt(@, a.group_pos, a.group)]
            ELSE [Erased EXCEPT ![a.target_parent].parts =
                     SubSeq(@, 1, a.target_pos - 1) \o parts \o SubSeq(@, a.target_pos, Len(@))]]

\* grouping and ungrouping exchange the whole list of the symbol
PerformGroup(doc, a) == [doc EXCEPT !.symbol[Root].parts = a.old_part_list,
                                    !.action.old_part_list = doc.symbol[Root].parts]

Perform(doc, to_undo) ==
    LET a == doc.action
    IN  CASE a.type = "Move"           -> PerformMove(doc, a)
          [] a.type = "Rotate"         -> PerformRotate(doc, a)
          [] a.type = "Shear"          -> PerformShear(doc, a)
          [] a.type = "Combine"        -> PerformCombine(doc, a)
          [] a.type = "Name"           -> PerformName(doc, a)
          [] a.type = "Add"            -> PerformAdd(doc, a, to_undo)
          [] a.type = "Remove"         -> PerformRemove(doc, a, to_undo)
          [] a.type = "Duplicate"      -> PerformDuplicate(doc, a, to_undo)
          [] a.type = "Reorder"        -> PerformReorder(doc, a)
          [] a.type = "UngroupReorder" -> PerformUngroupReorder(doc, a, to_undo)
          [] a.type = "Group"          -> PerformGroup(doc, a)

-----------------------------------------------------------------------------
(* The constructors; those that make parts give a symbol that has them.      *)

Made(s, a) == [symbol |-> s, action |-> a]

MoveAction(s, parts, delta) ==
    Made(s, [type |-> "Move", parts |-> parts, moved |-> Minus(delta)])
RotateAction(s, parts) == Made(s, [type |-> "Rotate", parts |-> parts, angle |-> 0])
ShearAction(s, parts) == Made(s, [type |-> "Shear", parts |-> parts, moved |-> <<0, 0>>])

CombineAction(s, parts, mode) ==
    LET shapes == FlattenSeq([i \in DOMAIN Each(parts) |-> ShapesIn(s, Each(parts)[i])])
    IN  Made(s, [type |-> "Combine", shapes |-> shapes, modes |-> [i \in DOMAIN shapes |-> mode]])

NameAction(s, p, name) == Made(s, [type |-> "Name", part |-> p, name |-> name])

AddAction(s, at) ==
    LET p == Fresh(s) IN Made([s EXCEPT ![p] = Shape(at)], [type |-> "Add", part |-> p])

RemoveAction(s, parts) ==
    Made(s, [type |-> "Remove", removals |-> Removals(s, Root, parts)])

\* Mistaken variant: the copy of a group shares the parts of the group.
ShallowClone(s, p) == [symbol |-> [s EXCEPT ![Fresh(s)] = s[p]], part |-> Fresh(s)]
RECURSIVE clone(_, _)
clone(s, p) ==
    LET copy == [symbol |-> [s EXCEPT ![Fresh(s)] = [s[p] EXCEPT !.parts = <<>>]],
                 part |-> Fresh(s)]
        Child(c, q) == LET d == clone(c.symbol, q)
                       IN  [c EXCEPT !.symbol = [d.symbol EXCEPT ![c.part].parts = Append(@, d.part)]]
    IN  FoldLeft(Child, copy, s[p].parts)

\* a clone goes right behind the part, and takes up space as well
DuplicateAction(s, parts) ==
    LET Step(d, i) ==
            LET p == s[Root].parts[i]
                c == clone(d.symbol, p)
            IN  IF p \notin parts THEN d
                ELSE Made(c.symbol, [d.action EXCEPT !.duplications =
                        Append(@, [part |-> c.part, pos |-> i + Len(@) + 1])])
    IN  FoldLeft(Step, Made(s, [type |-> "Duplicate", duplications |-> <<>>]),
                 [i \in DOMAIN s[Root].parts |-> i])

ReorderAction(s, old_parent, old_position, new_parent, new_position) ==
    Made(s, [type |-> "Reorder", old_parent |-> old_parent, old_position |-> old_position,
             new_parent |-> new_parent, new_position |-> new_position])

UngroupReorderAction(s, group_parent, group_pos, target_parent, target_pos) ==
    Made(s, [type |-> "UngroupReorder", group_parent |-> group_parent, group_pos |-> group_pos,
             group |-> s[group_parent].parts[group_pos],
             target_parent |-> target_parent, target_pos |-> target_pos])

\* Only parts right in the symbol are grouped, in the place of the first; a
\* group of none of them is not put anywhere.
GroupAction(s, parts, kind) ==
    LET g == Fresh(s)
        list == s[Root].parts
        first == SelectInSeq(list, LAMBDA p : p \in parts)
        Kept == FlattenSeq([i \in DOMAIN list |-> IF i = first THEN <<g>>
                                                  ELSE IF list[i] \in parts THEN <<>>
                                                  ELSE <<list[i]>>])
    IN  Made([s EXCEPT ![g] = Group(kind, SelectSeq(list, LAMBDA p : p \in parts))],
             [type |-> "Group", old_part_list |-> Kept])

UngroupAction(s, parts) ==
    LET list == s[Root].parts
        BrokenUp(p) == IF p \in parts /\ isSymbolGroup(s, p) THEN s[p].parts ELSE <<p>>
    IN  Made(s, [type |-> "Group", old_part_list |->
                    FlattenSeq([i \in DOMAIN list |-> BrokenUp(list[i])])])
=============================================================================
