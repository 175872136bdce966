------------------------------ MODULE RichText ------------------------------
(***************************************************************************)
(* What the editor of a text field promises: text of which every character *)
(* has its formats, a selection between an anchor and a caret, and a       *)
(* history.  Typing replaces the selection and nothing else, a format      *)
(* changes the selected characters and no other, and undo brings the text  *)
(* of before back.  Separators, between the parts of a combined value, are *)
(* never selected, so nothing can remove them.                             *)
(***************************************************************************)
EXTENDS Integers, Sequences

CONSTANTS Formats, Items, Separators,
          Insertions           \* what is typed or pasted, and how that is called

VARIABLES units,       \* the items of the text, each with its formats
          typing,      \* for each place, the formats that text typed there gets
          anchor, caret,
          past, future,   \* the texts that undo and redo lead to
          last            \* what was done last, if it can be continued
vars == <<units, typing, anchor, caret, past, future, last>>

Unit == [item : Items, formats : SUBSET Formats]
Low == IF anchor < caret THEN anchor ELSE caret
High == IF anchor < caret THEN caret ELSE anchor

\* Text continues in the formats of what is before it.
Continued(text) ==
    [place \in 0..Len(text) |-> IF place = 0 THEN {} ELSE text[place].formats]

\* The ends of a selection are places of the text, with no separator in between.
Selectable(text, a, c) ==
    /\ {a, c} \subseteq 0..Len(text)
    /\ \A n \in 1..Len(text) : text[n].item \in Separators => (a < n <=> c < n)
SelectAnything == Selectable(units', anchor', caret')
Select(a, c) == anchor' = a /\ caret' = c /\ SelectAnything

\* A step of the history, or one more of the same kind, which undo takes back
\* together with those before it.
Remember(kind) ==
    /\ last' = kind /\ future' = <<>>
    /\ \/ past' = Append(past, [units |-> units, typing |-> typing])
       \/ last = kind /\ future = <<>> /\ past' = past
Forget == UNCHANGED <<units, typing, past, future, last>>

ReplaceText(from, to, new, kind) ==
    /\ units' = SubSeq(units, 1, from) \o new \o SubSeq(units, to + 1, Len(units))
    /\ typing' = Continued(units')
    /\ Select(from + Len(new), from + Len(new))
    /\ Remember(kind)

-----------------------------------------------------------------------------
\* Text that replaces a selection has the formats both of its ends have.
FormatsTyped == IF Low = High THEN typing[caret]
                ELSE units[Low + 1].formats \cap units[High].formats
Typed(items) == [n \in 1..Len(items) |-> [item |-> items[n], formats |-> FormatsTyped]]

\* A text that is replaced by itself is no change.
Insert(insertion) ==
    \/ ReplaceText(Low, High, Typed(insertion.items), insertion.name)
    \/ /\ SubSeq(units, Low + 1, High) = Typed(insertion.items)
       /\ Forget /\ Select(High, High)

Remove(kind) == Low < High /\ ReplaceText(Low, High, <<>>, kind)

\* Backspace and delete without a selection take one item; they only walk over
\* a separator.
Erase(n, kind) ==
    /\ Low = High
    /\ n \in 1..Len(units)
    /\ IF units[n].item \in Separators
       THEN Forget /\ Select(IF n = caret THEN n - 1 ELSE n, anchor')
       ELSE ReplaceText(n - 1, n, <<>>, kind)
Backspace == Remove("backspace") \/ Erase(caret, "backspace")
Delete == Remove("delete") \/ Erase(caret + 1, "delete")

\* The format is given to the whole selection, or taken from it if all of it has
\* it, the places in between included.
Formatted(text, selected, between, f) ==
    LET all == /\ \A n \in selected : f \in text[n].formats
               /\ \A place \in between : f \in typing[place]
    IN  [n \in 1..Len(text) |->
            IF n \in selected
            THEN [text[n] EXCEPT !.formats = IF all THEN @ \ {f} ELSE @ \cup {f}]
            ELSE text[n]]
Format(f) ==
    /\ Low < High
    /\ units' = Formatted(units, Low + 1..High, Low + 1..High - 1, f)
    /\ typing' = Continued(units')
    /\ Select(anchor, caret)
    /\ Remember(f)

\* Without a selection it is switched for what is typed at the caret next.  A
\* format that was switched there already may stay as it is.
Switch(f) ==
    /\ Low = High
    /\ UNCHANGED units
    /\ LET switched == (typing[caret] \cup {f}) \ (typing[caret] \cap {f})
       IN  \/ typing' = [typing EXCEPT ![caret] = switched]
           \/ typing[caret] # Continued(units)[caret] /\ typing' = typing
    /\ Select(anchor, caret)
    /\ Remember(f)

Move == Forget /\ SelectAnything

\* Undo and redo select what they changed, or what they did not.
Undo == /\ past # <<>>
        /\ units' = past[Len(past)].units /\ typing' = past[Len(past)].typing
        /\ past' = SubSeq(past, 1, Len(past) - 1)
        /\ future' = <<[units |-> units, typing |-> typing]>> \o future
        /\ last' = "none"
        /\ SelectAnything
Redo == /\ future # <<>>
        /\ units' = future[1].units /\ typing' = future[1].typing
        /\ past' = Append(past, [units |-> units, typing |-> typing])
        /\ future' = Tail(future)
        /\ last' = "none"
        /\ SelectAnything

Init == /\ units \in Seq(Unit)
        /\ typing = Continued(units)
        /\ anchor = 0 /\ caret = 0
        /\ past = <<>> /\ future = <<>> /\ last = "none"

Next == \/ \E insertion \in Insertions : Insert(insertion)
        \/ Remove("cut") \/ Backspace \/ Delete
        \/ \E f \in Formats : Format(f) \/ Switch(f)
        \/ Move \/ Undo \/ Redo

Spec == Init /\ [][Next]_vars
=============================================================================
