----------------------------- MODULE Keywords -----------------------------
(***************************************************************************)
(* The keywords of a set and of its game (src/src/data/keyword.cpp): the   *)
(* database that finds them in a text, the tags that expand_keywords leaves*)
(* in the text (src/src/script/functions/basic.cpp), and the edits that    *)
(* make the database stale (src/src/data/action/keyword.cpp,               *)
(* src/src/script/script_manager.cpp).                                     *)
(*                                                                         *)
(* A text is a sequence of tokens: characters, the tags <kw-x> and </kw-x> *)
(* with x one of 0, 1, a, A, and the block of a reminder text.  A match    *)
(* string is a sequence of characters and parameters: PARAM is a parameter *)
(* type of the game, written as one or more digits, UNKNOWN one the game   *)
(* does not have.  Separators, placeholders of optional parameters, the    *)
(* comparison of upper and lower case and the text of a reminder are left  *)
(* out.                                                                    *)
(***************************************************************************)
EXTENDS Integers, SequencesExt, Positions

CONSTANTS SetKeywords,       \* keywords the set can have
          GameKeywords,      \* sequence of the keywords of the game, which are fixed
          MatchStrings,      \* what the user types as a match string
          GameMatch,         \* the match strings of the game's keywords
          ShownByDefault,    \* keywords default_expand is true for
          Refused,           \* keywords match_condition is false for
          InitialTexts,      \* what the text field may hold at first
          Typed,             \* characters the user types
          MaxEdits           \* bound: edits by the user

VARIABLES keywords,          \* Set::keywords
          keyword,           \* every keyword: match string, match_re and valid
          db,                \* Set::keyword_db: the keywords that were added, with
                             \*   the match string they were added with
          text,              \* the value of a text field of a card
          plain,             \* history variable: what the user typed in it
          delay,             \* is DELAY_KEYWORDS set?
          edits

vars == <<keywords, keyword, db, text, plain, delay, edits>>

PARAM == "<atom-param>number</atom-param>"
UNKNOWN == "<atom-param>other</atom-param>"
Digits == {"1"}
Space == " "
UNSET == <<"unset">>         \* match_re.empty()
Ids == SetKeywords \cup Range(GameKeywords)
Fixed(id) == id \in Range(GameKeywords)

ASSUME KeywordsAssumption ==
    /\ IsFiniteSet(SetKeywords) /\ GameKeywords \in Seq(Range(GameKeywords))
    /\ MatchStrings \subseteq Seq(STRING)
    /\ \A id \in Range(GameKeywords) : GameMatch[id] \in Seq(STRING)
    /\ InitialTexts \subseteq Seq(STRING) /\ Typed \subseteq STRING

Char(c) == <<"char", c>>
Open(x) == <<"open", x>>
Close(x) == <<"close", x>>
Reminder == <<"reminder", "">>
IsChar(t) == t[1] = "char"
IsKw(t) == t[1] \in {"open", "close"}

OfKind(s, kinds) == Filter(s, kinds \X STRING)

RemoveReminders(s) == OfKind(s, {"char", "open", "close"})
RemoveKwTags(s) == OfKind(s, {"char", "reminder"})
\* untag_no_escape, for a text without reminders
Untag(s) == LET chars == OfKind(s, {"char"}) IN [i \in 1..Len(chars) |-> chars[i][2]]
Chars(s) == [i \in 1..Len(s) |-> Char(s[i])]

-----------------------------------------------------------------------------
(* Keyword::prepare and the regular expression it makes.                     *)

prepare(kw, force) ==
    IF ~force /\ kw.match_re # UNSET THEN kw
    ELSE IF UNKNOWN \in Range(kw.match) THEN [kw EXCEPT !.valid = FALSE]
    ELSE [kw EXCEPT !.match_re = kw.match, !.valid = TRUE]

\* Only whole words: "\<" before and "(?=$|[^a-zA-Z0-9\(])" after.
WordStart(u, s) == s <= Len(u) /\ u[s] # Space /\ (s > 1 => u[s - 1] = Space)
WordEnd(u, e) == e > Len(u) \/ u[e] = Space

\* Where the rest of a match ends from each position on, 0 if nowhere, for a rest
\* that begins with c, when ends says so for what comes after c: a parameter takes
\* as many digits as it can.
EndsFrom(c, ends, u) ==
    LET digits(p) == {q \in p + 1..Len(u) + 1 : ends[q] # 0 /\ \A k \in p..q - 1 : u[k] \in Digits}
    IN  [p \in 1..Len(u) + 1 |->
            IF c = PARAM THEN IF digits(p) = {} THEN 0 ELSE ends[Max(digits(p))]
            ELSE IF p <= Len(u) /\ u[p] = c THEN ends[p + 1] ELSE 0]
MatchEnd(re, u, s) ==
    LET ends[n \in 0..Len(re)] ==     \* for the last n elements of the pattern
            IF n = 0 THEN [p \in 1..Len(u) + 1 |-> IF WordEnd(u, p) THEN p ELSE 0]
            ELSE EndsFrom(re[Len(re) + 1 - n], ends[n - 1], u)
    IN  ends[Len(re)][s]

NoMatch == [start |-> 0, end |-> 0]
RegexMatch(re, u) ==
    LET starts == {s \in 1..Len(u) : WordStart(u, s) /\ MatchEnd(re, u, s) # 0}
    IN  IF starts = {} THEN NoMatch
        ELSE [start |-> Min(starts), end |-> MatchEnd(re, u, Min(starts))]

-----------------------------------------------------------------------------
(* KeywordDatabase: the trie.  A node is the path that leads to it; STAR is  *)
(* a step over any characters, from the root and from a node after STAR it   *)
(* leads to the node itself.                                                 *)

STAR == "any"
Root == <<>>

\* The part of a match string that add puts in the trie: parameters at the
\* beginning lead back to the root, another one is the last that is looked at.
Path(match) ==
    LET text_from == SelectInSeq(match, LAMBDA c : c # PARAM)
        rest == SubSeq(match, text_from, Len(match))
        param == SelectInSeq(rest, LAMBDA c : c = PARAM)
    IN  IF text_from = 0 THEN Root
        ELSE IF param = 0 THEN rest
        ELSE Append(SubSeq(rest, 1, param - 1), STAR)

\* An entry of the database: a keyword as it was when it was added.
Entries(ids, kws) ==
    LET usable == Filter(ids, {id \in Ids : kws[id].match # <<>> /\ kws[id].valid})
    IN  [i \in 1..Len(usable) |-> [id |-> usable[i], match |-> kws[usable[i]].match]]

Nodes(d) == {Root} \cup UNION {{SubSeq(Path(d[i].match), 1, n) : n \in 1..Len(Path(d[i].match))} :
                               i \in 1..Len(d)}

OnAnyStar(d, node) == IF node = Root \/ Last(node) = STAR THEN <<node>>
                      ELSE SelectSeq(<<Append(node, STAR)>>, LAMBDA n : n \in Nodes(d))
OnChar(d, node, c) == SelectSeq(<<Append(node, c)>>, LAMBDA n : n \in Nodes(d))

\* Every node once, where it comes first: a second visit only meets keywords
\* that were already investigated.
Once(s) == FoldLeft(LAMBDA r, x : IF x \in Range(r) THEN r ELSE Append(r, x), <<>>, s)
closure(d, state) == Once(state \o FlattenSeq([i \in 1..Len(state) |-> OnAnyStar(d, state[i])]))

Step(d, current, c) ==
    closure(d, Once(FlattenSeq([i \in 1..Len(current) |->
                        OnChar(d, current[i], c) \o OnAnyStar(d, current[i])])))

\* The entries that end in one of the nodes and whose keywords were not tried
\* before, and the order they are tried in: those of the set before the game's.
Candidates(d, current, used) ==
    {c \in [node : 1..Len(current), entry : 1..Len(d)] :
        Path(d[c.entry].match) = current[c.node] /\ d[c.entry].id \notin used}
Sooner(d, b, c) ==
    LET later(x) == Fixed(d[x.entry].id)
    IN  IF later(b) # later(c) THEN later(c)
        ELSE b.node < c.node \/ (b.node = c.node /\ b.entry < c.entry)

-----------------------------------------------------------------------------
(* KeywordDatabase::expand.                                                  *)

\* untagged_to_index: the token where the text with pos characters before it
\* begins; tags of that place that open (inside) or close (not inside) are passed.
UntaggedToIndex(s, pos, inside) ==
    Min({i \in 1..Len(s) + 1 :
            /\ Len(Untag(SubSeq(s, 1, i - 1))) = pos
            /\ i <= Len(s) => IsChar(s[i]) \/ (s[i][1] = "close") = inside})

\* The kind of expansion in force at the end of the tokens from first to last.
KindAfter(s, first, last, kind) ==
    FoldLeft(LAMBDA k, t : CASE t[1] = "open" -> t[2] [] t[1] = "close" -> "a" [] OTHER -> k,
             kind, SubSeq(s, first, last))

combine(total, expand) == IF expand THEN Append(total, Reminder) ELSE total

\* What comes before a keyword is copied, its own tags are left out.
\* Mistaken variant: the character next to the keyword is lost.
BeforeLosesOne(tagged, start) == RemoveKwTags(SubSeq(tagged, 1, start - 2))
Before(tagged, start) == RemoveKwTags(SubSeq(tagged, 1, start - 1))

\* A part of a keyword: left over closing tags are stripped.
Part(s) == OfKind(s, {"char", "open", "reminder"})

\* Is the reminder text shown, and the tag that says so: what the user chose
\* stays, "a" and "A" are decided again.
Expanded(known, id) == known = "1" \/ (known # "0" /\ id \in ShownByDefault)
\* Mistaken variant: what default_expand decided counts as a choice of the user.
KindShownChosen(known, shown) ==
    IF known = "a" THEN (IF shown THEN "A" ELSE "a") ELSE IF shown THEN "1" ELSE "0"
\* Mistaken variant: the tags of the default state are exchanged.
KindShownExchanged(known, shown) ==
    IF known \in {"0", "1"} THEN known ELSE IF shown THEN "a" ELSE "A"
KindShown(known, shown) ==
    IF known \in {"0", "1"} THEN known ELSE IF shown THEN "A" ELSE "a"

\* tryExpand: what is added to the result and what is left, or nothing.  Tags
\* that were not met yet are looked for from one token too far.
NoExpansion == [matched |-> FALSE]
Region(part, x, shown) == <<Open(x)>> \o combine(Part(part), shown) \o <<Close(x)>>
Expansion(id, upto, tagged, rest, kind, start, end) ==
    LET region(known, shown) ==
            Region(SubSeq(tagged, start, end - 1), KindShown(known, shown), shown)
        decided(known) == region(known, Expanded(known, id))
    IN  [matched |-> TRUE,
         result |-> Before(tagged, start) \o decided(KindAfter(tagged, upto + 2, start - 1, kind)),
         tagged |-> SubSeq(tagged, end, Len(tagged)),
         untagged |-> rest]
ExpandFrom(id, upto, tagged, rest, kind, start, end) ==
    IF start = end \/ id \in Refused THEN NoExpansion
    ELSE Expansion(id, upto, tagged, rest, kind, start, end)
ExpandMatch(id, upto, tagged, untagged, kind, m) ==
    IF m = NoMatch THEN NoExpansion
    ELSE ExpandFrom(id, upto, tagged, SubSeq(untagged, m.end, Len(untagged)), kind,
                    UntaggedToIndex(tagged, m.start - 1, TRUE),
                    UntaggedToIndex(tagged, m.end - 1, FALSE))
tryExpand(id, kw, upto, tagged, untagged, kind) ==
    ExpandMatch(id, upto, tagged, untagged, kind, RegexMatch(kw.match_re, untagged))

\* The search for the next keyword: the token it is at, the text, from which tags
\* are taken out on the way, where it is in the trie, what was tried, the kind of
\* expansion in force, and what was found.
Start(d, tagged) == [i |-> 1, tagged |-> tagged, current |-> closure(d, <<Root>>),
                     used |-> {}, kind |-> "a", hit |-> NoExpansion]
Passed(t) == [t EXCEPT !.tagged = RemoveAt(@, t.i), !.kind = KindAfter(t.tagged, t.i, t.i, @)]
Tried(d, kws, untagged, t, c) ==
    tryExpand(d[c.entry].id, kws[d[c.entry].id], t.i, t.tagged, untagged, t.kind)
Hits(d, kws, untagged, t, tries) == {c \in tries : Tried(d, kws, untagged, t, c).matched}
Soonest(d, hits) == CHOOSE c \in hits : \A b \in hits \ {c} : Sooner(d, c, b)
TryEach(d, kws, untagged, t, next, tries) ==
    LET hits == Hits(d, kws, untagged, t, tries)
    IN  IF hits # {} THEN [t EXCEPT !.hit = Tried(d, kws, untagged, t, Soonest(d, hits))]
        ELSE [t EXCEPT !.i = @ + 1, !.current = next,
                       !.used = @ \cup {d[c.entry].id : c \in tries}]
Enter(d, kws, untagged, t, next) == TryEach(d, kws, untagged, t, next, Candidates(d, next, t.used))
Searched(d, kws, untagged, t) == Enter(d, kws, untagged, t, Step(d, t.current, t.tagged[t.i][2]))
SearchStep(d, kws, untagged, t) ==
    IF t.hit.matched \/ t.i > Len(t.tagged) THEN t
    ELSE IF IsKw(t.tagged[t.i]) THEN Passed(t)
    ELSE Searched(d, kws, untagged, t)
Search(d, kws, tagged, untagged) ==
    LET at[n \in 0..Len(tagged)] == IF n = 0 THEN Start(d, tagged)
                                    ELSE SearchStep(d, kws, untagged, at[n - 1])
    IN  at[Len(tagged)]

\* After a keyword the search begins anew in what is left, until nothing is.
Continue(t, end) ==
    IF end.hit.matched
    THEN [result |-> t.result \o end.hit.result,
          tagged |-> end.hit.tagged, untagged |-> end.hit.untagged]
    ELSE [result |-> t.result \o end.tagged, tagged |-> <<>>, untagged |-> <<>>]
NextKeyword(d, kws, t) == Continue(t, Search(d, kws, t.tagged, t.untagged))
ExpandAll(d, kws, tagged) ==
    LET after[n \in 0..Len(tagged)] ==
            IF n = 0 THEN [result |-> <<>>, tagged |-> tagged, untagged |-> Untag(tagged)]
            ELSE NextKeyword(d, kws, after[n - 1])
    IN  after[Len(tagged)].result

\* Without a keyword there is no trie, and the tags are left alone.
Rewritten(d, kws, tagged) == IF d = <<>> THEN tagged ELSE ExpandAll(d, kws, tagged)
expand(d, kws, s) == Rewritten(d, kws, RemoveReminders(s))

-----------------------------------------------------------------------------
(* The script function expand_keywords of the text field, and the edits that *)
(* make it run.                                                              *)

AllKeywords(ks) == ks \o GameKeywords

\* db.empty(): the keywords are prepared, unless they were, and added.
Expanding(kws, d, s) == keyword' = kws /\ db' = d /\ text' = expand(d, kws, s)
Adding(ks, prepared, s) == Expanding(prepared, Entries(AllKeywords(ks), prepared), s)
expand_keywords(ks, kws, d, s) ==
    IF d # <<>> THEN Expanding(kws, d, s)
    ELSE Adding(ks, [id \in Ids |-> IF id \in Range(AllKeywords(ks)) THEN prepare(kws[id], FALSE)
                                    ELSE kws[id]], s)

Edit == edits < MaxEdits /\ edits' = edits + 1

\* An edited text without the pairs of tags that nothing is left between.
EmptyPairs(s) == {i \in 1..Len(s) - 1 : s[i][1] = "open" /\ s[i + 1] = Close(s[i][2])}
WithoutPair(s) ==
    IF EmptyPairs(s) = {} THEN s
    ELSE SubSeq(s, 1, Min(EmptyPairs(s)) - 1) \o SubSeq(s, Min(EmptyPairs(s)) + 2, Len(s))
Simplified(s) ==
    LET less[n \in 0..Len(s)] == IF n = 0 THEN s ELSE WithoutPair(less[n - 1])
    IN  less[Len(s)]

CharsBefore(s, i) == Len(Untag(RemoveReminders(SubSeq(s, 1, i - 1))))

\* Typing at a place of the text, or deleting a character.
typeChar(i, c) ==
    /\ Edit /\ i \in 1..Len(text) + 1
    /\ plain' = InsertAt(plain, CharsBefore(text, i) + 1, c)
    /\ expand_keywords(keywords, keyword, db, InsertAt(text, i, Char(c)))
    /\ UNCHANGED <<keywords, delay>>
deleteChar(i) ==
    /\ Edit /\ i \in 1..Len(text) /\ IsChar(text[i])
    /\ plain' = RemoveAt(plain, CharsBefore(text, i) + 1)
    /\ expand_keywords(keywords, keyword, db, Simplified(RemoveAt(text, i)))
    /\ UNCHANGED <<keywords, delay>>

\* TextToggleReminderAction: the user shows or hides a reminder text.
\* match_close_tag: where the tag at i is closed, if it is.
Partner(s, i) ==
    LET level(j, kind) == Cardinality({k \in i..j : s[k][1] = kind})
        closing == {j \in i + 1..Len(s) : s[j][1] = "close" /\ level(j, "open") = level(j, "close")}
    IN  {j \in closing : \A k \in closing : j <= k}
toggleReminder(i) ==
    /\ Edit /\ i \in 1..Len(text) /\ text[i][1] = "open"
    /\ LET x == IF text[i][2] \in {"1", "A"} THEN "0" ELSE "1"
       IN  expand_keywords(keywords, keyword, db,
               [k \in 1..Len(text) |-> IF k = i THEN Open(x)
                                       ELSE IF k \in Partner(text, i) THEN Close(x) ELSE text[k]])
    /\ UNCHANGED <<keywords, plain, delay>>

\* AddKeywordAction, for a new keyword that has no match string yet or one that
\* is pasted, and to remove one; it clears the database, and the values that
\* depend on the keywords are updated.
addKeyword(id, m) ==
    /\ Edit /\ id \in SetKeywords \ Range(keywords)
    /\ keywords' = Append(keywords, id)
    /\ expand_keywords(keywords', [keyword EXCEPT ![id] = [match |-> m, match_re |-> UNSET,
                                                         valid |-> FALSE]], <<>>, text)
    /\ UNCHANGED <<plain, delay>>
\* Mistaken variant: the database keeps the keyword that is removed.
removeKeywordKeepsDb(id) ==
    /\ Edit /\ id \in Range(keywords)
    /\ keywords' = Filter(keywords, SetKeywords \ {id})
    /\ expand_keywords(keywords', keyword, db, text)
    /\ UNCHANGED <<plain, delay>>
removeKeyword(id) ==
    /\ Edit /\ id \in Range(keywords)
    /\ keywords' = Filter(keywords, SetKeywords \ {id})
    /\ expand_keywords(keywords', keyword, <<>>, text)
    /\ UNCHANGED <<plain, delay>>

\* The match string of a keyword is edited: it is prepared again and the
\* database cleared at once, the texts follow when the keyword panel is left.
editMatch(id, m) ==
    /\ Edit /\ id \in Range(keywords) /\ keyword[id].match # m
    /\ keyword' = [keyword EXCEPT ![id] = prepare([@ EXCEPT !.match = m], TRUE)]
    /\ db' = <<>>
    /\ delay' = TRUE
    /\ UNCHANGED <<keywords, text, plain>>
updateDelayed ==
    /\ delay /\ delay' = FALSE
    /\ expand_keywords(keywords, keyword, db, text)
    /\ UNCHANGED <<keywords, plain, edits>>

-----------------------------------------------------------------------------
Init ==
    /\ \E s \in InitialTexts, ms \in [SetKeywords -> MatchStrings] :
          /\ keywords = SetToSeq(SetKeywords)
          /\ LET loaded == [id \in Ids |->
                    prepare([match |-> IF Fixed(id) THEN GameMatch[id] ELSE ms[id],
                             match_re |-> UNSET, valid |-> FALSE], FALSE)]
             IN  /\ keyword = loaded
                 /\ db = Entries(AllKeywords(keywords), loaded)
                 /\ text = expand(db, loaded, Chars(s))
          /\ plain = s
    /\ delay = FALSE /\ edits = 0

Next == \/ \E i \in 1..Len(text) + 1, c \in Typed : typeChar(i, c)
        \/ \E i \in 1..Len(text) : deleteChar(i)
        \/ \E i \in 1..Len(text) : toggleReminder(i)
        \/ \E id \in SetKeywords : \E m \in {<<>>, keyword[id].match} : addKeyword(id, m)
        \/ \E id \in SetKeywords : removeKeyword(id)
        \/ \E id \in SetKeywords, m \in MatchStrings : editMatch(id, m)
        \/ updateDelayed

Spec == Init /\ [][Next]_vars

-----------------------------------------------------------------------------
\* Expanding keywords never changes what the user typed: without the tags and
\* the reminder texts, the field holds exactly the characters typed into it,
\* however its keywords overlap, come and go.
PlainTextKept == Untag(RemoveReminders(text)) = plain

\* The database is either cleared or holds exactly the valid keywords of the
\* set and the game with their present match strings, and the regular
\* expressions they are found with are those of their match strings.
DatabaseCurrent ==
    db # <<>> => /\ db = Entries(AllKeywords(keywords), keyword)
                 /\ \A i \in 1..Len(db) : keyword[db[i].id].match_re = db[i].match

\* A region is an opening tag, its characters, the reminder text if it is shown,
\* and the closing tag.
RegionAt(i, j) ==
    LET shown == text[i][2] \in {"1", "A"}
        inside == SubSeq(text, i + 1, IF shown THEN j - 2 ELSE j - 1)
    IN  /\ j > i + 1 /\ text[j] = Close(text[i][2])
        /\ \A k \in 1..Len(inside) : IsChar(inside[k])
        /\ shown => text[j - 1] = Reminder
        /\ \E n \in 1..Len(db) :
              RegexMatch(db[n].match, Untag(inside)) = [start |-> 1, end |-> Len(inside) + 1]

\* Once the texts have followed the keywords, every tag belongs to a region of
\* one whole keyword, regions do not overlap, and a reminder text is there
\* exactly when its tag says so.
RegionsAreKeywords ==
    ~delay /\ db # <<>> =>
        /\ \A i \in 1..Len(text) : text[i][1] = "open" => \E j \in i + 1..Len(text) : RegionAt(i, j)
        /\ Len(SelectSeq(text, LAMBDA t : t[1] = "close"))
             = Len(SelectSeq(text, LAMBDA t : t[1] = "open"))

\* Running the script once more changes nothing: a text that depends on the
\* keywords is updated again whenever another value changes, and an update that
\* changed it again would never come to rest or turn a default into a choice.
Settled == ~delay /\ db # <<>> => expand(db, keyword, text) = text
=============================================================================
