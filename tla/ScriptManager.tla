---------------------------- MODULE ScriptManager ----------------------------
(***************************************************************************)
(* The script manager of a set (script/script_manager.cpp): after every    *)
(* action it runs the scripts of the values that may have changed, and of  *)
(* the values that read those, until nothing changes any more.             *)
(*                                                                         *)
(* Every value has a last_modified age.  A round of updates begins with a  *)
(* new age, and a value that already has it is not run again: that is what *)
(* makes a round end, and also what a value loses that was run too early.  *)
(* The same ages decide the two way traffic of a combined editor, a field  *)
(* that shows several fields as one (script/functions/editor.cpp): a part  *)
(* older than the combined value is overwritten by it, a newer one is not. *)
(*                                                                         *)
(* A field's script is abstracted to what it reads; it returns a sum of    *)
(* that, so that each input can change the result.  The manager's part of  *)
(* a style is only that the style is invalid; styles are not modelled.     *)
(*                                                                         *)
(* A definition whose name goes on after that of the one it stands before, *)
(* as TakePartNotNewer does, is a mistake the code does not make: it shows *)
(* which property notices it.                                              *)
(***************************************************************************)
EXTENDS Integers, FiniteSets, FiniteSetsExt, Sequences, SequencesExt

CONSTANTS
    Cards,      \* the cards there can be in the set
    NoCard,     \* CardP(), where a set value is meant
    CardFields, \* game.card_fields, in index order
    SetFields,  \* game.set_fields, in index order
    Script,     \* what kind of script each field has
    Reads,      \* the fields, of the same card or the set, a script reads
    ReadsAll,   \* the card fields it reads from every card of the set
    Parts,      \* the fields a combined editor shows, in order
    Base        \* values are 0 .. Base - 1

CardField == ToSet(CardFields)
SetField  == ToSet(SetFields)
Fields    == CardField \cup SetField

PartsOf == [f \in Fields |-> ToSet(Parts[f])]

Kinds == {"none", "default", "computed", "position", "combined"}

(***************************************************************************)
(* A combined editor and its parts belong to the same card; its parts are  *)
(* not combined themselves.  A field can read its card, or every card.     *)
(***************************************************************************)
ASSUME GameAssumption ==
    /\ NoCard \notin Cards /\ Base \in Nat \ {0}
    /\ CardField \cap SetField = {}
    /\ Script \in [Fields -> Kinds]
    /\ Reads \in [Fields -> SUBSET (Fields \cup {"keywords"})]
    /\ ReadsAll \in [Fields -> SUBSET CardField]
    /\ \A f \in Fields :
        /\ Reads[f] \cap ReadsAll[f] = {}
        /\ Script[f] = "position" =>
                f \in CardField /\ Cardinality(ReadsAll[f]) = 1
        /\ f \in SetField => Reads[f] \cap CardField = {}
        /\ Script[f] = "combined" <=> Parts[f] # << >>
        /\ \A p \in ToSet(Parts[f]) :
            p \in CardField /\ Script[p] \in {"none", "default"}

VARIABLES
    set,     \* the set: cards, keywords, and each value with its age
    queue,   \* the deque to_update of the round that runs
    delay,   \* DELAY_KEYWORDS is set
    loaded,  \* Set::validate has been called
    edited   \* history: the value whose edit began this round, if any

vars == << set, queue, delay, loaded, edited >>

Values == 0 .. Base - 1

Slots == ({NoCard} \X SetField) \cup (Cards \X CardField)

SlotOf(c, f) == << IF f \in SetField THEN NoCard ELSE c, f >>

InSet(s) == ({NoCard} \X SetField) \cup (ToSet(s.cards) \X CardField)

NoOrder == << >>

Now == Cardinality(Fields) + 1   \* the age of the round that runs

NoEdit == [slot |-> << >>]

-----------------------------------------------------------------------------
(***************************************************************************)
(* What one script does                                                    *)
(***************************************************************************)

Input(s, c, f) == IF f = "keywords" THEN s.keywords ELSE s.value[SlotOf(c, f)]

Sum(s, v) ==
    ( MapThenSumSet(LAMBDA f : Input(s, v[1], f), Reads[v[2]])
    + MapThenSumSet(LAMBDA f :
            MapThenSumSet(LAMBDA c : s.value[<< c, f >>], ToSet(s.cards)),
        ReadsAll[v[2]]) ) % Base

(***************************************************************************)
(* The order cache: the cards sorted by a field, -1 for a card that is not *)
(* in the set.  std::sort keeps the order of equal cards in so short a     *)
(* list.                                                                   *)
(***************************************************************************)
OrderCache(s, f) ==
    LET key(i) == << s.value[<< s.cards[i], f >>], i >>
        before(i, j) == \/ key(i)[1] < key(j)[1]
                        \/ key(i)[1] = key(j)[1] /\ i < j
    IN  [c \in Cards |->
            IF c \notin ToSet(s.cards) THEN -1
            ELSE LET j == CHOOSE j \in DOMAIN s.cards : s.cards[j] = c
                 IN  Cardinality({i \in DOMAIN s.cards : before(i, j)})]

SortKey(f) == CHOOSE k \in ReadsAll[f] : TRUE

(***************************************************************************)
(* Set::positionOfCard looks the order up, and makes it if it is not there *)
(***************************************************************************)
positionOfCard(s, v) ==
    LET order == IF s.order[v[2]] # NoOrder THEN s.order[v[2]]
                 ELSE OrderCache(s, SortKey(v[2]))
    IN  [s EXCEPT !.order[v[2]] = order, !.value[v] = order[v[1]]]

(***************************************************************************)
(* Value::update, of a value that is not a combined editor: a default      *)
(* script runs only as long as the value is the default.                   *)
(***************************************************************************)
PlainUpdate(s, v) ==
    CASE Script[v[2]] = "position" -> positionOfCard(s, v)
      [] Script[v[2]] = "computed" -> [s EXCEPT !.value[v] = Sum(s, v)]
      [] Script[v[2]] = "default" /\ s.isDefault[v] ->
                                      [s EXCEPT !.value[v] = Sum(s, v)]
      [] OTHER -> s

(***************************************************************************)
(* combined_editor: a part that is older than the combined value v takes   *)
(* its share of it, and is then run itself; v is put together again.       *)
(***************************************************************************)
TakePartNotNewer(s, v, p) ==
    LET u == << v[1], p >>
    IN  IF s.age[u] > s.age[v] THEN s
        ELSE PlainUpdate(
                [s EXCEPT !.value[u] = s.value[v][p],
                          !.isDefault[u] = @ /\ s.value[u] = s.value[v][p],
                          !.age[u] = s.age[v]], u)

TakePartAsExplicit(s, v, p) ==
    LET u == << v[1], p >>
    IN  IF s.age[u] >= s.age[v] THEN s
        ELSE PlainUpdate([s EXCEPT !.value[u] = s.value[v][p],
                                   !.isDefault[u] = FALSE,
                                   !.age[u] = s.age[v]], u)

TakePart(s, v, p) ==
    LET u == << v[1], p >>
    IN  IF s.age[u] >= s.age[v] THEN s
        ELSE PlainUpdate(
                [s EXCEPT !.value[u] = s.value[v][p],
                          !.isDefault[u] = @ /\ s.value[u] = s.value[v][p],
                          !.age[u] = s.age[v]], u)

Update(s, v) ==
    IF Script[v[2]] # "combined" THEN PlainUpdate(s, v)
    ELSE LET t == FoldLeft(LAMBDA r, p : TakePart(r, v, p), s, Parts[v[2]])
         IN  [t EXCEPT !.value[v] =
                [p \in PartsOf[v[2]] |-> t.value[<< v[1], p >>]]]

UpdateEach(s, vs) == FoldLeft(Update, s, vs)

-----------------------------------------------------------------------------
(***************************************************************************)
(* Which scripts depend on a field, on the cards or on the keywords.  A    *)
(* combined editor also passes on a change to what depends on its parts.   *)
(***************************************************************************)
Dependency(type, f) == [type |-> type, field |-> f]

FieldType(f) == IF f \in SetField THEN "set" ELSE "card"

InitDependencies(x) ==
    LET marks(g) ==
          (IF \/ x \in Reads[g] \cup PartsOf[g]
              \/ x = "cards" /\ ReadsAll[g] # {}
              \/ x \in ReadsAll[g] /\ g \in SetField
           THEN << Dependency(FieldType(g), g) >> ELSE << >>)
          \o (IF x \in ReadsAll[g] /\ g \in CardField
              THEN << Dependency("cards", g) >> ELSE << >>)
          \o (IF g # x THEN << >>
              ELSE [i \in DOMAIN Parts[g] |-> Dependency("copy", Parts[g][i])])
    IN  FoldLeft(LAMBDA ds, g : ds \o marks(g), << >>, CardFields \o SetFields)

Dependents == [x \in Fields \cup {"cards", "keywords"} |-> InitDependencies(x)]

(***************************************************************************)
(* alsoUpdate: a card dependency means this card if there is one, else all *)
(***************************************************************************)
ToUpdate(s, d, c) ==
    IF d.type = "set" THEN << << NoCard, d.field >> >>
    ELSE IF d.type = "card" /\ c # NoCard THEN << << c, d.field >> >>
    ELSE [i \in DOMAIN s.cards |-> << s.cards[i], d.field >>]

alsoUpdate(s, ds, c) ==
    LET copied(d) == IF d.type = "copy" THEN Dependents[d.field] ELSE << d >>
        all == FlattenSeq([i \in DOMAIN ds |-> copied(ds[i])])
    IN  FlattenSeq([i \in DOMAIN all |-> ToUpdate(s, all[i], c)])

(***************************************************************************)
(* Age::next() gives a round an age larger than all there are.  Ages are   *)
(* only compared with that of the round, and between a combined editor and *)
(* its parts; so Now stands for the new age, and when a round is over the  *)
(* ages are renumbered within each card, below it.                         *)
(***************************************************************************)
Compared == UNION {{f} \cup PartsOf[f] :
                        f \in {g \in Fields : Script[g] = "combined"}}

Renumber(s) ==
    [s EXCEPT !.age = [v \in Slots |->
        IF v[2] \notin Compared THEN 0
        ELSE Cardinality({s.age[<< v[1], f >>] : f \in
                {g \in Compared : s.age[<< v[1], g >>] < s.age[v]}})]]

Continue(s, q) ==
    /\ set' = IF q = << >> THEN Renumber(s) ELSE s
    /\ queue' = q

clearOrderCache(s) == [s EXCEPT !.order = [f \in Fields |-> NoOrder]]

(***************************************************************************)
(* updateRecursive: the caches are cleared, if there is something to do    *)
(***************************************************************************)
BeginRoundKeepingOrders(s, q) == Continue(s, q)

BeginRound(s, q) == Continue(IF q = << >> THEN s ELSE clearOrderCache(s), q)

updateAllDependend(s, x) == BeginRound(s, alsoUpdate(s, Dependents[x], NoCard))

-----------------------------------------------------------------------------
(***************************************************************************)
(* The values of a card as they come from a file, the clipboard, or a card *)
(* whose removal is undone: those of plain fields are anything, those of   *)
(* the others may be what another version of the scripts gave them, and    *)
(* none is newer than another.                                             *)
(***************************************************************************)
Fill(s, vs, n, default) ==
    [s EXCEPT
        !.value = [v \in Slots |->
            IF v \notin vs THEN s.value[v]
            ELSE IF Script[v[2]] = "combined" THEN [p \in PartsOf[v[2]] |-> 0]
            ELSE n],
        !.isDefault = [v \in Slots |->
            IF v \notin vs THEN s.isDefault[v]
            ELSE Script[v[2]] = "default" /\ default],
        !.age = [v \in Slots |-> IF v \in vs THEN 0 ELSE s.age[v]]]

Blank(s, vs) == Fill(s, vs, 0, TRUE)

SlotsOf(c) == {v \in Slots : v[1] = c}

(***************************************************************************)
(* The set of a file that has been read, before it is validated            *)
(***************************************************************************)
Empty == [cards     |-> << >>,
          keywords  |-> 0,
          value     |-> [v \in Slots |-> 0],
          isDefault |-> [v \in Slots |-> FALSE],
          age       |-> [v \in Slots |-> 0],
          order     |-> [f \in Fields |-> NoOrder]]

Init ==
    /\ \E c \in Cards, n \in Values, default \in BOOLEAN :
        set = Fill([Blank(Empty, Slots) EXCEPT !.cards = << c >>],
                   SlotsOf(c) \cup SlotsOf(NoCard), n, default)
    /\ queue = << >>
    /\ delay = FALSE
    /\ loaded = FALSE
    /\ edited = NoEdit

CardSlots(c) == [i \in DOMAIN CardFields |-> << c, CardFields[i] >>]

SetSlots == [i \in DOMAIN SetFields |-> << NoCard, SetFields[i] >>]

(***************************************************************************)
(* updateAll, at the end of validate: each value once, the set's first,    *)
(* then what depends on the cards.                                         *)
(***************************************************************************)
updateAll ==
    /\ ~loaded
    /\ loaded' = TRUE
    /\ LET ofCards == [i \in DOMAIN set.cards |-> CardSlots(set.cards[i])]
       IN  updateAllDependend(
                UpdateEach(set, SetSlots \o FlattenSeq(ofCards)), "cards")
    /\ UNCHANGED << delay, edited >>

(***************************************************************************)
(* Actions are handled one after the other, each with all its updates      *)
(***************************************************************************)
Idle == loaded /\ queue = << >>

(***************************************************************************)
(* A ValueAction, performed or undone, gives v the value x or makes it the *)
(* default again.  updateValue gives v the age of the round, so that the   *)
(* round does not run it again; runs it; then what depends on it.          *)
(***************************************************************************)
Editable(v) == Script[v[2]] \in {"none", "default", "combined"}

Contents(v) ==
    IF Script[v[2]] = "combined" THEN [PartsOf[v[2]] -> Values] ELSE Values

updateValue(v, x, default) ==
    /\ \E s \in {Update([set EXCEPT !.value[v] = x, !.isDefault[v] = default,
                                     !.age[v] = Now], v)} :
        BeginRound(s, alsoUpdate(s, Dependents[v[2]], v[1]))
    /\ edited' = IF default THEN NoEdit ELSE [slot |-> v, value |-> x]
    /\ UNCHANGED << delay, loaded >>

EditValue ==
    /\ Idle
    /\ \E v \in {u \in InSet(set) : Editable(u)} :
        \E x \in Contents(v) : updateValue(v, x, FALSE)

ResetValue ==
    /\ Idle
    /\ \E v \in InSet(set) :
        /\ Script[v[2]] = "default" /\ ~set.isDefault[v]
        /\ updateValue(v, set.value[v], TRUE)

(***************************************************************************)
(* AddCardAction: the values of an added card are run once each, in index  *)
(* order, and then what depends on the cards; when the action is one that  *)
(* removes cards, only the latter.  A new card comes last; one that is     *)
(* back because its removal is undone comes where it was.                  *)
(***************************************************************************)
AddCard(c, i, n, default) ==
    /\ Idle /\ c \in Cards \ ToSet(set.cards) /\ i \in 1 .. Len(set.cards) + 1
    /\ updateAllDependend(
            UpdateEach(Fill([set EXCEPT !.cards = InsertAt(@, i, c)],
                            SlotsOf(c), n, default), CardSlots(c)),
            "cards")
    /\ edited' = NoEdit
    /\ UNCHANGED << delay, loaded >>

RemoveCard(c) ==
    /\ Idle /\ c \in ToSet(set.cards)
    /\ updateAllDependend(
            Blank([set EXCEPT !.cards = Remove(@, c)], SlotsOf(c)), "cards")
    /\ edited' = NoEdit
    /\ UNCHANGED << delay, loaded >>

(***************************************************************************)
(* ReorderCardsAction: perform returns before it swaps two cards of the    *)
(* set, so the order is what it was; what depends on it is run all the     *)
(* same.                                                                   *)
(***************************************************************************)
ReorderCards ==
    /\ Idle /\ set.cards # << >>
    /\ updateAllDependend(set, "cards")
    /\ edited' = NoEdit
    /\ UNCHANGED << delay, loaded >>

(***************************************************************************)
(* An edit of a keyword's text, or its undoing, only notes that dependents *)
(* are to run; updateDelayed runs them, when the keywords panel is left.   *)
(***************************************************************************)
EditKeyword(k) ==
    /\ Idle /\ k # set.keywords
    /\ set' = [set EXCEPT !.keywords = k]
    /\ delay' = TRUE
    /\ edited' = NoEdit
    /\ UNCHANGED << queue, loaded >>

updateDelayed ==
    /\ Idle /\ delay
    /\ updateAllDependend(set, "keywords")
    /\ delay' = FALSE
    /\ edited' = NoEdit
    /\ UNCHANGED loaded

(***************************************************************************)
(* Adding or removing a keyword, or its mode: dependents run at once       *)
(***************************************************************************)
KeywordList(k) ==
    /\ Idle /\ k # set.keywords
    /\ updateAllDependend([set EXCEPT !.keywords = k], "keywords")
    /\ edited' = NoEdit
    /\ UNCHANGED << delay, loaded >>

(***************************************************************************)
(* What is to be run because v has become another value in s               *)
(***************************************************************************)
Changed(s, v) ==
    IF s.value[v] = set.value[v] THEN << >>
    ELSE alsoUpdate(s, Dependents[v[2]], v[1])

(***************************************************************************)
(* updateToUpdate: the first value in the queue is run, unless it has been *)
(* in this round; if it changes, so may what depends on it.                *)
(***************************************************************************)
updateToUpdateAgain ==
    /\ queue # << >>
    /\ \E s \in {Update([set EXCEPT !.age[Head(queue)] = Now], Head(queue))} :
        Continue(s, Tail(queue) \o Changed(s, Head(queue)))
    /\ edited' = IF queue' = << >> THEN NoEdit ELSE edited
    /\ UNCHANGED << delay, loaded >>

updateToUpdate ==
    /\ queue # << >>
    /\ \E s \in {IF set.age[Head(queue)] >= Now THEN set ELSE
                 Update([set EXCEPT !.age[Head(queue)] = Now], Head(queue))} :
        Continue(s, Tail(queue) \o Changed(s, Head(queue)))
    /\ edited' = IF queue' = << >> THEN NoEdit ELSE edited
    /\ UNCHANGED << delay, loaded >>

Next ==
    \/ updateAll
    \/ EditValue
    \/ ResetValue
    \/ \E c \in Cards, i \in 1 .. Cardinality(Cards) :
        \E n \in Values, default \in BOOLEAN : AddCard(c, i, n, default)
    \/ \E c \in Cards : RemoveCard(c)
    \/ ReorderCards
    \/ \E k \in Values : EditKeyword(k) \/ KeywordList(k)
    \/ updateDelayed
    \/ updateToUpdate

(***************************************************************************)
(* A round is one call on the main thread: the code comes back from it     *)
(***************************************************************************)
Spec == Init /\ [][Next]_vars /\ WF_vars(updateToUpdate)

-----------------------------------------------------------------------------
(***************************************************************************)
(* Properties                                                              *)
(***************************************************************************)

(***************************************************************************)
(* The value that the script of v would give it now, from the values there *)
(* are and not from any cache.                                             *)
(***************************************************************************)
Current(v) ==
    CASE Script[v[2]] = "computed" -> Sum(set, v)
      [] Script[v[2]] = "default" /\ set.isDefault[v] -> Sum(set, v)
      [] Script[v[2]] = "position" -> OrderCache(set, SortKey(v[2]))[v[1]]
      [] Script[v[2]] = "combined" ->
            [p \in PartsOf[v[2]] |-> set.value[<< v[1], p >>]]
      [] OTHER -> set.value[v]

(***************************************************************************)
(* A field whose script, in the end, reads itself has no value to settle   *)
(* on.  ReadBy is what a field's script reads, directly or indirectly.     *)
(***************************************************************************)
ReadBy(f) ==
    LET more(fs) == fs \cup UNION {(Reads[g] \cup ReadsAll[g]) \cap Fields :
                                        g \in fs}
    IN  FoldLeft(LAMBDA fs, i : more(fs),
                 (Reads[f] \cup ReadsAll[f]) \cap Fields,
                 [i \in 1 .. Cardinality(Fields) |-> i])

Settles == {f \in Fields : \A g \in ReadBy(f) \cup {f} : g \notin ReadBy(g)}

(***************************************************************************)
(* The manager "keeps scripts up to date" (script_manager.hpp:49): between *)
(* two actions every value in the set is what its script gives, in         *)
(* whatever order the round ran them, and positions are those in the       *)
(* present order of the cards.  Only what reads the keywords may wait, as  *)
(* long as delay is set.                                                   *)
(***************************************************************************)
UpToDate ==
    Idle => \A v \in InSet(set) :
                \/ v[2] \notin Settles
                \/ delay /\ "keywords" \in Reads[v[2]]
                \/ set.value[v] = Current(v)

(***************************************************************************)
(* What the user typed stays: no script of the round that an edit begins,  *)
(* its own or that of a combined editor that shows it, gives the edited    *)
(* value another content than it was given.                                *)
(***************************************************************************)
EditsKept ==
    [][/\ edited # NoEdit /\ queue # << >> =>
            set'.value[edited.slot] = edited.value
       /\ edited' # NoEdit => set'.value[edited'.slot] = edited'.value]_vars

(***************************************************************************)
(* A value that is the default follows its default script until the user   *)
(* edits it: only an edit of it, or of a combined editor that shows it,    *)
(* may turn it into a value of its own.                                    *)
(***************************************************************************)
DefaultsKept ==
    [][\A v \in InSet(set) \cap InSet(set') :
        set.isDefault[v] /\ ~set'.isDefault[v] =>
            /\ edited' # NoEdit
            /\ \/ edited'.slot = v
               \/ /\ edited'.slot[1] = v[1]
                  /\ v[2] \in PartsOf[edited'.slot[2]]]_vars

(***************************************************************************)
(* Every round ends, even if scripts read each other in a circle and never *)
(* agree: no value is run twice in a round.                                *)
(***************************************************************************)
RoundsEnd == queue # << >> ~> queue = << >>

=============================================================================
