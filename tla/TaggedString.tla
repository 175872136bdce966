---------------------------- MODULE TaggedString ----------------------------
(***************************************************************************)
(* Strings with tags (src/src/util/tagged_string.cpp): the values of text  *)
(* fields.  A string is a sequence of tokens: a character, an opening tag  *)
(* or a closing tag.  Positions are those of the code, from 0; they are    *)
(* always between two tokens, since the program never stops inside a tag.  *)
(*                                                                         *)
(* <b> and <i> are formats.  <atom> and <sep>, with what they contain,     *)
(* count as one character: a parameter of a keyword, and the separator     *)
(* between the parts of a combined value.  <sym>, <prefix> and <suffix>    *)
(* are left out.                                                           *)
(***************************************************************************)
EXTENDS Integers, SequencesExt, Positions

Formats == {"b", "i"}
Blocks == {"atom", "sep"}

Char(c) == <<"char", c>>
Open(tag) == <<"open", tag>>
Close(tag) == <<"close", tag>>
Kinds == {"char", "open", "close"}
OfKind(str, kinds) == Filter(str, {t \in Range(str) : t[1] \in kinds})
IsChar(t) == t[1] = "char"
IsTag(t) == ~IsChar(t)
IsFormat(t) == IsTag(t) /\ t[2] \in Formats
OpensBlock(t) == t[1] = "open" /\ t[2] \in Blocks
IsBlockTag(t) == IsTag(t) /\ t[2] \in Blocks

At(str, pos) == str[pos + 1]
Positions(str) == 0..Len(str) - 1
\* str.substr(start, end - start), with the ends clipped to the string
Sub(str, start, end) == SubSeq(str, start + 1, Min({end, Len(str)}))

anti_tag(t) == IF t[1] = "open" THEN Close(t[2]) ELSE Open(t[2])

-----------------------------------------------------------------------------
(* Finding tags.                                                             *)

\* How many tags are open at a position.
Level(str, tag, pos) ==
    Cardinality({p \in 1..pos : str[p] = Open(tag)})
      - Cardinality({p \in 1..pos : str[p] = Close(tag)})

\* A tag that is not closed extends to the end.
match_close_tag_end(str, start) ==
    LET closed(tag) == {end \in start + 2..Len(str) :
                          /\ At(str, end - 1) = Close(tag)
                          /\ Level(Sub(str, start, end), tag, end - start) = 0}
    IN  Min(closed(At(str, start)[2]) \cup {Len(str)})

\* Is the range from start to end inside of the tag?
\* Mistaken variant: only its start is.
is_in_tag_at_start(str, tag, start, end) == Level(str, tag, start) > 0
is_in_tag(str, tag, start, end) ==
    \A pos \in {end} \cup start..end : Level(str, tag, pos) > 0

-----------------------------------------------------------------------------
(* Cursor positions: the places between the items of a string, which are its *)
(* characters and blocks.                                                    *)

Within(str, block, pos) == block < pos /\ pos < match_close_tag_end(str, block)
BlocksOf(str) == {pos \in Positions(str) : OpensBlock(At(str, pos))}
ItemStarts(str) ==
    LET blocks == BlocksOf(str)
    IN  {pos \in Positions(str) :
            /\ IsChar(At(str, pos)) \/ OpensBlock(At(str, pos))
            /\ ~\E block \in blocks : Within(str, block, pos)}
Ascending(positions) ==
    [n \in 1..Cardinality(positions) |-> Place({pos + 1 : pos \in positions}, n) - 1]
ItemEnd(str, pos) ==
    IF IsChar(At(str, pos)) THEN pos + 1 ELSE match_close_tag_end(str, pos)

\* The characters and blocks, in order.
untag_for_cursor(str) ==
    LET starts == Ascending(ItemStarts(str))
    IN  [n \in 1..Len(starts) |-> Sub(str, starts[n], ItemEnd(str, starts[n]))]
CursorCount(str) == Cardinality(ItemStarts(str))

\* The number of items before the index; in a block the direction decides, or
\* the side with less characters.
CharsIn(str, start, end) == Len(OfKind(Sub(str, start, end), {"char"}))
Passed(dir, chars_before, chars_after) ==
    CASE dir = "left" -> FALSE
      [] dir = "right" -> TRUE
      [] dir = "left_opt" -> chars_after = 0 /\ chars_before > 0
      [] dir = "right_opt" -> chars_before > 0
      [] dir = "mid" -> chars_before > chars_after
index_to_cursor(str, index, dir) ==
    LET before == {pos \in ItemStarts(str) : ItemEnd(str, pos) <= index}
        passed == {block \in BlocksOf(str) :
                      /\ Within(str, block, index)
                      /\ Passed(dir, CharsIn(str, block, index),
                                CharsIn(str, index, match_close_tag_end(str, block)))}
    IN  Cardinality(before \cup passed)

\* The first and the last index of a cursor position; an index before the end of
\* the last tag of the string would be inside of that tag.
InsideTag == -1
RangeOf(str, starts, cursor) ==
    LET from(first) == [first |-> first,
                        last |-> IF cursor < Len(starts) THEN starts[cursor + 1]
                                 ELSE IF first = Len(str) THEN first ELSE InsideTag]
    IN  IF cursor > Len(starts) THEN [first |-> Len(str), last |-> Len(str)]
        ELSE from(IF cursor = 0 THEN 0 ELSE ItemEnd(str, starts[cursor]))
cursor_to_index_range(str, cursor) == RangeOf(str, Ascending(ItemStarts(str)), cursor)

\* In the middle, if there is an opening tag next to its closing tag.
Middle(str, first, end) ==
    LET pair(pos) == pos < Len(str) /\ IsTag(At(str, pos)) /\ At(str, pos - 1) = anti_tag(At(str, pos))
        first_pair(pairs) == IF pairs = {} THEN first ELSE Min(pairs)
    IN  first_pair({pos \in first + 1..end : pair(pos)})
IndexIn(str, range, dir) ==
    CASE dir \in {"right", "right_opt"} -> range.last
      [] dir \in {"left", "left_opt"} -> range.first
      [] dir = "mid" -> Middle(str, range.first,
                               IF range.last = InsideTag THEN Len(str) ELSE range.last)
cursor_to_index(str, cursor, dir) == IndexIn(str, cursor_to_index_range(str, cursor), dir)

-----------------------------------------------------------------------------
(* Changing a string.                                                        *)

\* A tag is cancelled by its opposite; next to each other </x><x> is kept,
\* unless x is a format, and <x></x> never.
add_or_cancel_tag(t, stack, all) ==
    LET found == SelectInSeq(stack, LAMBDA s : s = anti_tag(t))
    IN  IF (all \/ t[1] = "close" \/ IsFormat(t)) /\ found # 0
        THEN RemoveAt(stack, found) ELSE Append(stack, t)

\* What is written so far, and the tags that wait for the next character.
Merge(done, t, all) ==
    IF IsTag(t) THEN [done EXCEPT !.waiting = add_or_cancel_tag(t, @, all)]
    ELSE [ret |-> Append(done.ret \o done.waiting, t), waiting |-> <<>>]
Written(done) == done.ret \o done.waiting
simplify_tagged_merge(str, all) ==
    LET done[n \in 0..Len(str)] == IF n = 0 THEN [ret |-> <<>>, waiting |-> <<>>]
                                   ELSE Merge(done[n - 1], str[n], all)
    IN  Written(done[Len(str)])

\* A format in itself has no effect: only the first that opens and the last that
\* closes are kept.
OverlapFormat(done, t, open_tags) ==
    [ret |-> IF t \in Range(done.open_tags) \/ anti_tag(t) \in Range(open_tags)
             THEN done.ret ELSE Append(done.ret, t),
     open_tags |-> open_tags]
Overlap(done, t) ==
    IF IsFormat(t) THEN OverlapFormat(done, t, add_or_cancel_tag(t, done.open_tags, TRUE))
    ELSE [done EXCEPT !.ret = Append(@, t)]
simplify_tagged_overlap(str) ==
    LET done[n \in 0..Len(str)] == IF n = 0 THEN [ret |-> <<>>, open_tags |-> <<>>]
                                   ELSE Overlap(done[n - 1], str[n])
    IN  done[Len(str)].ret

simplify_tagged(str) == simplify_tagged_overlap(simplify_tagged_merge(str, FALSE))

get_tags(str, kinds) == OfKind(str, kinds)

\* Mistaken variant: the tags in the part that is replaced are lost.
substr_replace(str, start, end, replacement) ==
    simplify_tagged(Sub(str, 0, start) \o replacement \o Sub(str, end, Len(str)))
\* The tags in the part that is replaced stay, unless they cancel out.
tagged_substr_replace(str, start, end, replacement) ==
    LET around(tags) == get_tags(tags, {"close"}) \o replacement \o get_tags(tags, {"open"})
        collected == simplify_tagged_merge(get_tags(Sub(str, start, end), {"open", "close"}), TRUE)
    IN  simplify_tagged(Sub(str, 0, start) \o around(collected) \o Sub(str, end, Len(str)))

-----------------------------------------------------------------------------
(* Well formed strings.                                                      *)

\* Every tag is closed where it was opened or later.
Balanced(str) ==
    \A tag \in {t[2] : t \in {u \in Range(str) : IsTag(u)}} :
        /\ \A pos \in 0..Len(str) : Level(str, tag, pos) >= 0
        /\ Level(str, tag, Len(str)) = 0

\* A block is closed, and has a character and no other block in it.
IsBlock(str, first, last) ==
    /\ OpensBlock(str[first]) /\ str[last] = Close(str[first][2])
    /\ \A n \in first + 1..last - 1 : ~IsBlockTag(str[n])
    /\ \E n \in first + 1..last - 1 : IsChar(str[n])
BlocksWhole(str) ==
    \A n \in 1..Len(str) : IsBlockTag(str[n]) =>
        \E first, last \in 1..Len(str) : n \in {first, last} /\ IsBlock(str, first, last)
=============================================================================
