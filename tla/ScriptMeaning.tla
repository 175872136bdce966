--------------------------- MODULE ScriptMeaning ---------------------------
(***************************************************************************)
(* What scripts mean: the reference that parsing and evaluation are        *)
(* checked against.  It follows the manual (doc/script: control            *)
(* structures, operators, functions, default arguments) and is written on  *)
(* syntax trees, without instructions, a stack, levels or jumps.           *)
(* Tokens gives the tokens of a tree, with parentheses only where the table *)
(* of precedence in doc/script/operators.txt asks for them.                *)
(***************************************************************************)
EXTENDS ScriptContext, SequencesExt

\* Syntax trees.
StringE(s)      == [k |-> "string", s |-> s]
ConstE(word)    == [k |-> "constant", word |-> word]      \* true, false, nil
VarE(x)         == [k |-> "var", x |-> x]
SetE(x, e)      == [k |-> "set", x |-> x, e |-> e]
SeqE(a, b)      == [k |-> "seq", a |-> a, b |-> b]
IfE(c, a, b)    == [k |-> "if", c |-> c, a |-> a, b |-> b]
NoElse          == [k |-> "no else"]
NotE(e)         == [k |-> "not", e |-> e]
BinE(o, a, b)   == [k |-> "binary", o |-> o, a |-> a, b |-> b]
ForE(x, e, body) == [k |-> "for", x |-> x, e |-> e, body |-> body]
ListE(items)    == [k |-> "list", items |-> items]
MemberE(e, m)   == [k |-> "member", e |-> e, m |-> m]
FunE(body)      == [k |-> "fun", body |-> body]
CallE(f, args)  == [k |-> "call", f |-> f, args |-> args]  \* <<name, tree>>s
DefaultE(f, args) == [k |-> "default", f |-> f, args |-> args]
SmartE(parts)   == [k |-> "smart", parts |-> parts]  \* string, tree, ..., string
AssertE(e)      == [k |-> "assert", e |-> e]

-----------------------------------------------------------------------------
(* Printing. *)

\* How tightly a tree binds, and how tightly the operands have to.
OperatorLevel == [orelse |-> 4, and |-> 4, or |-> 4, xor |-> 4]
Level(e) ==
  CASE e.k = "seq"                   -> 2
    [] e.k \in {"set", "if", "for"}  -> 3
    [] e.k = "binary"                -> CASE e.o \in {"==", "!="} -> 5
                                          [] e.o = "+"            -> 6
                                          [] OTHER                -> 4
    [] e.k = "not"                   -> 9
    [] e.k \in {"member", "call", "default"} -> 10
    [] OTHER                         -> 11
Name(v) == <<[t |-> "name", v |-> v, nl |-> FALSE]>>
Oper(v) == <<[t |-> "oper", v |-> v, nl |-> FALSE]>>
Open(v) == <<[t |-> "open", v |-> v, nl |-> FALSE]>>
Shut(v) == <<[t |-> "close", v |-> v, nl |-> FALSE]>>
Text(v) == <<[t |-> "string", v |-> v, nl |-> FALSE]>>
OnNewLine(tokens) == <<[tokens[1] EXCEPT !.nl = TRUE]>> \o Tail(tokens)

RECURSIVE Tokens(_, _, _), ArgTokens(_, _), ItemTokens(_, _)

\* lines: are statements separated by newlines instead of semicolons?
Tokens(e, min, lines) ==
  LET P(sub, level) == Tokens(sub, level, lines)
      right == [o \in {"orelse", "and", "or", "xor", "==", "!=", "+"} |->
                 CASE o \in {"and", "or", "xor"} -> 5
                   [] o = "+"                    -> 7
                   [] OTHER                      -> 6]
      word(o) == IF o \in {"==", "!=", "+"} THEN Oper(o) ELSE Name(o)
      level == IF e.k = "seq" /\ lines THEN 1 ELSE Level(e)
  IN IF level < min THEN Open("(") \o P(e, 0) \o Shut(")")
     ELSE CASE e.k = "string"   -> Text(e.s)
            [] e.k = "constant" -> Name(e.word)
            [] e.k = "var"      -> Name(e.x)
            [] e.k = "set"      -> Name(e.x) \o Oper(":=") \o P(e.e, 3)
            [] e.k = "seq"      -> P(e.a, IF e.a.k = "seq" THEN level ELSE 3)
                                   \o (IF lines THEN OnNewLine(P(e.b, 3))
                                       ELSE Oper(";") \o P(e.b, 3))
            [] e.k = "if"       -> Name("if") \o P(e.c, 4) \o Name("then")
                                   \o P(e.a, IF e.b = NoElse THEN 3 ELSE 4)
                                   \o (IF e.b = NoElse THEN <<>>
                                       ELSE Name("else") \o P(e.b, 3))
            [] e.k = "not"      -> Name("not") \o P(e.e, 9)
            [] e.k = "binary"   -> P(e.a, level) \o word(e.o) \o P(e.b, right[e.o])
            [] e.k = "for"      -> Name("for") \o Name("each") \o Name(e.x) \o Name("in")
                                   \o P(e.e, 4) \o Name("do") \o P(e.body, 3)
            [] e.k = "list"     -> Open("[") \o ItemTokens(e.items, lines) \o Shut("]")
            [] e.k = "member"   -> P(e.e, 10) \o Oper(".") \o Name(e.m)
            [] e.k = "fun"      -> Open("{") \o P(e.body, 0) \o Shut("}")
            [] e.k = "call"     -> P(e.f, 10) \o Open("(") \o ArgTokens(e.args, lines) \o Shut(")")
            [] e.k = "default"  -> P(e.f, 10) \o Oper("@") \o Open("(")
                                   \o ArgTokens(e.args, lines) \o Shut(")")
            [] e.k = "assert"   -> Name("assert") \o Open("(") \o P(e.e, 0) \o Shut(")")
            [] e.k = "smart"    ->
                 FlattenSeq([i \in 1 .. Len(e.parts) |->
                   IF i % 2 = 1 THEN Text(e.parts[i])
                   ELSE Open("\"{") \o P(e.parts[i], 0) \o Shut("}\"")])

ItemTokens(items, lines) ==
  FlattenSeq([i \in 1 .. Len(items) |->
    (IF i = 1 THEN <<>> ELSE Oper(",")) \o Tokens(items[i], 4, lines)])
ArgTokens(args, lines) ==
  FlattenSeq([i \in 1 .. Len(args) |->
    (IF i = 1 THEN <<>> ELSE Oper(",")) \o Name(args[i][1]) \o Oper(":")
    \o Tokens(args[i][2], 2, lines)])

-----------------------------------------------------------------------------
(* Mistakes.  A conditional without else and an assertion are statements:  *)
(* there is not a value in all cases.  Of what consists of several things  *)
(* the one that is evaluated last decides, and an operator or a call after *)
(* a statement does not make an expression of it.                          *)

RECURSIVE IsStatement(_), Mistaken(_)

IsStatement(e) ==
  CASE e.k \in {"assert", "no else"} -> TRUE
    [] e.k = "if"                    -> IsStatement(e.a) \/ IsStatement(e.b)
    [] e.k = "seq"                   -> IsStatement(e.b)
    [] e.k = "binary"                -> IsStatement(e.a)
    [] e.k \in {"set", "member"}     -> IsStatement(e.e)
    [] e.k \in {"call", "default"}   -> IsStatement(e.f)
    [] OTHER                         -> FALSE

\* The trees a tree consists of.
ArgTrees(args) == {args[i][2] : i \in 1 .. Len(args)}
Subtrees(e) ==
  CASE e.k \in {"set", "not", "member", "assert"} -> {e.e}
    [] e.k \in {"seq", "binary"}     -> {e.a, e.b}
    [] e.k = "if"                    -> {e.c, e.a, e.b}
    [] e.k = "for"                   -> {e.e, e.body}
    [] e.k = "list"                  -> Range(e.items)
    [] e.k = "fun"                   -> {e.body}
    [] e.k \in {"call", "default"}   -> {e.f} \cup ArgTrees(e.args)
    [] e.k = "smart"                 -> {e.parts[i] : i \in {j \in 1 .. Len(e.parts) : j % 2 = 0}}
    [] OTHER                         -> {}

\* What is assigned and what a function returns has to be a value in all cases.
Mistaken(e) ==
  \/ e.k = "set" /\ IsStatement(e.e)
  \/ e.k = "fun" /\ IsStatement(e.body)
  \/ \E t \in Subtrees(e) : Mistaken(t)

-----------------------------------------------------------------------------
(* Meaning.  A state has the values of the variables, the members read,    *)
(* whether an assertion failed, and the value v of what was evaluated      *)
(* last, which is no value after an error; then nothing more happens.      *)
(* depth counts the calls in progress.                                     *)

Raise(st)     == [st EXCEPT !.v = Unset]
Ok(st)        == st.v # Unset
Yield(st, v)  == IF Ok(st) THEN [st EXCEPT !.v = v] ELSE st
Assign(st, x) == IF Ok(st) THEN [st EXCEPT !.env[x] = st.v] ELSE st
\* Variables get other values: names(x) is the value of x.
Bind(st, names) == [st EXCEPT !.env = [x \in DOMAIN @ |->
                                         IF x \in DOMAIN names THEN names[x] ELSE @[x]]]
IsTrue(st)    == Ok(st) /\ HasBool(st.v) /\ ToBool(st.v)
NeedsBool(st) == IF Ok(st) /\ ~HasBool(st.v) THEN Raise(st) ELSE st
Combine(op, x, y) == IF ~Ok(y) THEN y
                     ELSE IF CanBinary(op, x.v, y.v) THEN Yield(y, Binary(op, x.v, y.v))
                     ELSE Raise(y)
Operations == [orelse |-> "OR_ELSE", xor |-> "XOR"] @@ ("==" :> "EQ") @@ ("!=" :> "NEQ")
             @@ ("+" :> "ADD")

RECURSIVE Meaning(_, _, _), Apply(_, _, _, _), MeaningAll(_, _, _, _), MeaningLoop(_, _, _, _, _),
          MeaningParts(_, _, _, _)

\* members: the members of the objects.
Meaning(e, st, members) ==
  LET M(sub, s)       == Meaning(sub, s, members)
      First           == NeedsBool(M(e.a, st))
      Either(r, a, b) == M(IF IsTrue(r) THEN a ELSE b, NeedsBool(r))
      All(args)       == MeaningAll([i \in 1 .. Len(args) |-> args[i][2]], <<>>, M(e.f, st), members)
      Named(as)       == [x \in {e.args[i][1] : i \in 1 .. Len(e.args)} |->
                            as.v.items[CHOOSE i \in 1 .. Len(e.args) : e.args[i][1] = x]]
  IN IF ~Ok(st) THEN st ELSE
     CASE e.k = "string"   -> Yield(st, Str(e.s))
       [] e.k = "constant" -> Yield(st, IF e.word = "nil" THEN Nil ELSE BoolV(e.word = "true"))
       [] e.k = "no else"  -> Yield(st, Nil)
       [] e.k = "var"      -> Yield(st, st.env[e.x])
       [] e.k = "set"      -> Assign(M(e.e, st), e.x)
       [] e.k = "seq"      -> M(e.b, M(e.a, st))
       [] e.k = "if"       -> Either(M(e.c, st), e.a, e.b)
       [] e.k = "not"      -> Either(M(e.e, st), ConstE("false"), ConstE("true"))
       [] e.k = "fun"      -> Yield(st, Func(e.body))
       [] e.k = "binary"   ->
            CASE e.o = "and" -> IF IsTrue(First) THEN M(e.b, First) ELSE First
              [] e.o = "or"  -> IF IsTrue(First) THEN First ELSE M(e.b, First)
              [] OTHER       -> LET x == M(e.a, st) IN Combine(Operations[e.o], x, M(e.b, x))
       [] e.k = "member"   ->
            LET r == M(e.e, st)
            IN IF ~Ok(r) THEN r
               ELSE IF r.v.t = "obj" /\ e.m \in DOMAIN members[r.v.o]
               THEN [r EXCEPT !.v = members[r.v.o][e.m], !.reads = @ \cup {e.m}]
               ELSE Yield(r, DelayedError)
       [] e.k = "list"     -> MeaningAll(e.items, <<>>, st, members)
       [] e.k = "for"      ->
            LET r == M(e.e, st)
            IN IF ~Ok(r) THEN r
               ELSE IF r.v.t # "list" THEN Raise(r)
               ELSE MeaningLoop(e, r.v.items, Nil, r, members)
       \* Arguments hide variables of the caller until the call has returned.
       [] e.k = "call"     ->
            LET as == All(e.args)
            IN IF ~Ok(as) THEN as
               ELSE [Apply(M(e.f, st).v, [Bind(as, Named(as)) EXCEPT !.depth = @ + 1],
                           DOMAIN Named(as), members)
                       EXCEPT !.env = as.env, !.depth = as.depth]
       [] e.k = "default"  ->
            LET as == All(e.args)
            IN Yield(as, Closure(M(e.f, st).v, [i \in 1 .. Len(e.args) |->
                                                  <<e.args[i][1], as.v.items[i]>>]))
       [] e.k = "smart"    -> MeaningParts(e.parts, 1, Yield(st, Str(<<>>)), members)
       [] e.k = "assert"   ->
            LET r == NeedsBool(M(e.e, st))
            IN IF ~Ok(r) THEN r
               ELSE Yield([r EXCEPT !.warned = @ \/ ~IsTrue(r)], Nil)

\* A list of the values of the trees.
MeaningAll(trees, done, st, members) ==
  IF trees = <<>> \/ ~Ok(st) THEN Yield(st, List(done))
  ELSE LET r == Meaning(trees[1], st, members)
       IN MeaningAll(Tail(trees), Append(done, r.v), r, members)

\* The results of the body are combined using +.
MeaningLoop(e, items, sum, st, members) ==
  IF items = <<>> \/ ~Ok(st) THEN Yield(st, sum)
  ELSE LET r == Meaning(e.body, Assign(Yield(st, items[1]), e.x), members)
           next == Combine("ADD", Yield(r, sum), r)
       IN MeaningLoop(e, Tail(items), next.v, next, members)

\* A smart string is the sum of its parts; empty strings add nothing.
MeaningParts(parts, i, st, members) ==
  LET hole  == i % 2 = 0
      r     == IF hole THEN Meaning(parts[i], st, members) ELSE Yield(st, Str(parts[i]))
      first == \A j \in 1 .. i - 1 : j % 2 = 1 /\ parts[j] = <<>>
  IN IF i > Len(parts) \/ ~Ok(st) THEN st
     ELSE IF ~hole /\ parts[i] = <<>> THEN MeaningParts(parts, i + 1, st, members)
     ELSE MeaningParts(parts, i + 1, IF first THEN r ELSE Combine("ADD", st, r), members)

\* A call of the value f, with the arguments set; given are their names.
Apply(f, st, given, members) ==
  CASE f.t = "fun"     -> IF st.depth > MaxLevel THEN Raise(st)
                          ELSE Meaning(f.code, st, members)
    [] f.t = "closure" ->
         LET binds == {i \in 1 .. Len(f.binds) : f.binds[i][1] \notin given}
             names == [x \in {f.binds[i][1] : i \in binds} |->
                         f.binds[CHOOSE i \in binds : f.binds[i][1] = x][2]]
         IN Apply(f.fun, Bind(st, names), given \cup DOMAIN names, members)
    \* (f + g)() == g(input: f())
    [] f.t = "compose" ->
         LET r == Apply(f.a, st, {}, members)
         IN IF ~Ok(r) THEN r
            ELSE Apply(f.b, Assign([r EXCEPT !.env = st.env], "input"),
                       given \cup {"input"}, members)
    [] f.t = "nil"     -> Yield(st, st.env["input"])
    [] OTHER           -> Yield(st, DelayedError)

StartMeaning(globals) ==
  [v |-> Nil, env |-> globals, reads |-> {}, warned |-> FALSE, depth |-> 1]
MeaningOf(e, globals, members) == Meaning(e, StartMeaning(globals), members)
=============================================================================
