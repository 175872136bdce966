------------------------------ MODULE MCScripts -----------------------------
(* Instances of Scripts: families of small programs. *)
EXTENDS Scripts

MCVariables == {"a", "card", "x", "y", "f", "input", "_1", "_2", "condition"}
MCGlobals == [v \in MCVariables |-> CASE v = "a"    -> Str(<<"a">>)
                                      [] v = "card" -> Obj("card")
                                      [] OTHER      -> Unset]
\* Two texts and a condition that depend on the card.
MCWorlds == {[card |-> [c |-> BoolV(c), p |-> Str(<<"p">>), q |-> q]] :
               c \in BOOLEAN, q \in {Str(<<"q">>), Str(<<>>)}}
Card(m) == MemberE(VarE("card"), m)
S(t)    == StringE(<<t>>)

-----------------------------------------------------------------------------
(* Conditions, operators and assignments within each other. *)

Texts0 == {S("s"), VarE("x"), Card("p")}
Conds0 == {Card("c"), BinE("==", Card("q"), StringE(<<>>))}
Texts1 == Texts0 \cup {BinE("+", VarE("a"), t) : t \in Texts0}
  \cup {IfE(Card("c"), t, u) : t \in Texts0, u \in {Card("q"), NoElse}}
  \cup {BinE("orelse", Card("none"), Card("q"))}
  \cup {SetE("x", t) : t \in Texts0 \ {VarE("x")}}
  \cup {SeqE(SetE("y", Card("q")), VarE("y"))}
Conds1 == Conds0 \cup {NotE(b) : b \in Conds0} \cup {ConstE("nil")}
  \cup {BinE(o, b, d) : o \in {"and", "or", "xor"}, b \in Conds0, d \in Conds0}

Expressions ==
  {IfE(b, t, u) : b \in Conds1, t \in Texts1, u \in {Card("q"), NoElse}}
  \cup {BinE(o, t, u) : o \in {"+", "==", "orelse"}, t \in Texts1, u \in Texts1}
  \cup {SeqE(SetE("x", t), u) : t \in Texts1, u \in Texts1}
  \cup {NotE(BinE(o, b, d)) : o \in {"and", "or", "xor"}, b \in Conds1, d \in Conds1}
  \cup {MemberE(IfE(Card("c"), VarE("card"), u), "p") : u \in {VarE("card"), NoElse, S("s")}}
MCExpressions == {Program(t, FALSE) : t \in Expressions}
  \cup {Program(SeqE(SetE("x", t), u), TRUE) : t \in Texts1, u \in Texts1}

-----------------------------------------------------------------------------
(* Functions: arguments, defaults, variables of the caller, composition. *)

X(t)   == <<"x", t>>
In(t)  == <<"input", t>>
Args   == {<<>>, <<X(S("s"))>>, <<X(Card("p")), In(Card("q"))>>, <<In(SetE("y", S("s")))>>}
Bodies == {VarE("x"), BinE("+", VarE("x"), VarE("input")), Card("p"),
           IfE(Card("c"), VarE("x"), VarE("input")),
           SeqE(SetE("x", Card("q")), BinE("+", VarE("x"), VarE("y"))),
           CallE(VarE("x"), <<In(Card("p"))>>)}
Functions1 == {FunE(b) : b \in Bodies}
  \cup {DefaultE(FunE(b), <<X(Card("q"))>>) : b \in Bodies}
Nested     == DefaultE(DefaultE(FunE(VarE("x")), <<X(S("s"))>>), <<X(S("t"))>>)
\* A card that reaches its member through arguments, results and variables.
Member1    == FunE(MemberE(VarE("input"), "q"))
Branches(x) == IfE(Card("c"), MemberE(VarE(x), "p"), MemberE(VarE(x), "q"))
\* One that calls its argument, and one that calls itself for ever or not.
Apply1     == FunE(CallE(VarE("y"), <<In(Card("q"))>>))
Recursive1 == FunE(IfE(Card("c"), CallE(VarE("f"), <<X(Card("p"))>>), S("s")))
Let(x, t, u) == SeqE(SetE(x, t), u)

Calls ==
  {Let("f", f, CallE(VarE("f"), as)) : f \in Functions1 \cup {Nested}, as \in Args}
  \cup {Let("x", S("s"), Let("f", f, BinE("+", CallE(VarE("f"), as), VarE("x")))) :
          f \in Functions1, as \in Args}
  \cup {CallE(BinE("+", f, g), <<In(S("s"))>>) : f \in Functions1, g \in Functions1}
  \cup {CallE(Apply1, <<<<"y", f>>>>) : f \in Functions1 \cup {S("s"), ConstE("nil")}}
  \cup {CallE(m, <<In(t)>>) : m \in {Member1, BinE("+", FunE(VarE("input")), Member1)},
          t \in {VarE("card"), IfE(Card("c"), VarE("card"), NoElse), BinE("or", Card("c"), VarE("card"))}}
  \cup {Let("x", S("s"), Let("y", VarE("card"), Branches("y")))}
  \cup {CallE(IfE(Card("c"), f, g), <<X(S("s"))>>) : f \in Functions1, g \in Functions1}

-----------------------------------------------------------------------------
(* Loops, smart strings, assertions. *)

Lists   == {ListE(<<>>), ListE(<<S("s")>>), ListE(<<Card("p"), Card("q")>>), Card("p")}
Loops   == {SeqE(ForE("x", l, b), t) : l \in Lists, b \in Texts1, t \in {VarE("x"), VarE("y")}}
  \cup {BinE("+", VarE("a"), ForE("x", l, ForE("y", m, BinE("+", VarE("x"), VarE("y"))))) :
           l \in Lists, m \in Lists}
Ends    == {<<>>, <<"t">>}
Strings == {SmartE(<<s, t, u>>) : s \in Ends, t \in Texts1, u \in Ends}
  \cup {SmartE(<<s, t, <<"m">>, u, v>>) : s \in Ends, t \in Texts1, u \in Texts1, v \in Ends}
\* Two holes with nothing in between.
Joined(Holes) == {SmartE(<<s, t, <<>>, u, v>>) : s \in Ends, t \in Holes, u \in Texts1, v \in Ends}
Asserts == {SeqE(AssertE(b), VarE("a")) : b \in Conds0 \cup {NotE(b) : b \in Conds0}
              \cup {BinE(o, b, Card("c")) : o \in {"and", "or"}, b \in Conds0}
              \cup {BinE("==", Card("q"), t) : t \in Texts1}}

\* Statements, alone and within other things, assigned, and returned by a function.
Statements == {AssertE(Card("c"))} \cup {IfE(Card("c"), t, NoElse) : t \in Texts0}
Within(t) == {t, NotE(t), SeqE(VarE("a"), t), SeqE(t, VarE("a")), ListE(<<t>>), CallE(t, <<>>),
              IfE(Card("c"), t, S("s")), IfE(Card("c"), S("s"), t), MemberE(t, "p"),
              BinE("+", t, S("s")), BinE("+", S("s"), t), BinE("or", t, Card("c")),
              ForE("y", ListE(<<S("s")>>), t), SmartE(<< <<"s">>, t, <<"t">> >>)}
Misuses == UNION {{SeqE(SetE("x", w), VarE("x")), CallE(FunE(w), <<X(Card("p"))>>)} :
                    w \in UNION {Within(t) : t \in Statements}}

MCPrograms == MCExpressions
  \cup {Program(t, FALSE) : t \in Calls \cup Loops \cup Strings \cup Asserts \cup Misuses
                               \cup Joined({t \in Texts1 : t.k # "if"})}
  \cup {[Program(Let("f", Recursive1, CallE(VarE("f"), <<>>)), FALSE) EXCEPT !.recursive = TRUE]}
\* The first variable a script sets is a card, whose members it reads.
MCBranches == {Program(Let("y", t, Branches("y")), FALSE) : t \in {VarE("card")}}
\* A function of which a default was replaced by another, composed.
MCCompositions == {Program(CallE(BinE("+", f, FunE(VarE("input"))), <<>>), FALSE) :
                     f \in Functions1 \cup {Nested}}
\* Assertions of which a comparison is only the last operand.
MCAssertions == {Program(SeqE(AssertE(BinE(o, Card("c"), BinE("==", Card("q"), S("q")))), VarE("a")), FALSE) :
                   o \in {"and", "or"}}
\* Branches of a conditional that end with an empty text, or none.
MCStrings == {Program(t, FALSE) : t \in Joined({IfE(Card("c"), Card("p"), u) :
                                                  u \in {NoElse, StringE(<<>>)}})}
=============================================================================
