---------------------------- MODULE ScriptParser ----------------------------
(***************************************************************************)
(* From tokens to instructions (script/parser.cpp): an operator precedence *)
(* parser that emits code while it reads.  Its state p has the input that  *)
(* is left, the code so far, the kind of the last expression and whether   *)
(* errors were added to the list; the operators below map such a state to  *)
(* the next.                                                               *)
(*                                                                         *)
(* A token is [t: kind, v: text, nl: is there a newline before it].  The   *)
(* placeholders after CALL and CLOSURE that hold the names of arguments    *)
(* are the argument of the instruction, and a constant is in its           *)
(* instruction instead of in a table.  Addresses count from 1.             *)
(***************************************************************************)
EXTENDS ScriptContext, SequencesExt

\* Precedence levels: higher is tighter.
PREC_ALL     == 0
PREC_NEWLINE == 1
PREC_SEQ     == 2
PREC_SET     == 3
PREC_AND     == 4
PREC_CMP     == 5
PREC_ADD     == 6
PREC_MUL     == 7
PREC_UNARY   == 9
PREC_FUN     == 10
PREC_STRING  == 11
PREC_NONE    == 12

\* The level an operator needs, the level of its right side, the instruction.
BinaryOperators ==
  [o \in {"orelse", "xor", "==", "!=", "+"} |->
     CASE o = "orelse" -> [level |-> PREC_AND, right |-> PREC_ADD, op |-> "OR_ELSE"]
       [] o = "xor"    -> [level |-> PREC_AND, right |-> PREC_CMP, op |-> "XOR"]
       [] o = "=="     -> [level |-> PREC_CMP, right |-> PREC_ADD, op |-> "EQ"]
       [] o = "!="     -> [level |-> PREC_CMP, right |-> PREC_ADD, op |-> "NEQ"]
       [] o = "+"      -> [level |-> PREC_ADD, right |-> PREC_MUL, op |-> "ADD"]]
ShortCircuits == [and |-> "JUMP_SC_AND", or |-> "JUMP_SC_OR"]

Instr(op, arg) == [op |-> op, arg |-> arg]
NoClose        == Instr("NOP", 0)

Eof           == [t |-> "eof", v |-> "", nl |-> FALSE]
Peek(p, n)    == IF n <= Len(p.in) THEN p.in[n] ELSE Eof
Read(p, n)    == [p EXCEPT !.in = SubSeq(@, n + 1, Len(@))]
Is(tok, text) == tok.t # "string" /\ tok.v = text
At(p, text)   == Is(Peek(p, 1), text)
Error(p)      == [p EXCEPT !.errors = TRUE]
\* A token that is not the expected one is skipped all the same.
Expect(p, text) == IF At(p, text) THEN Read(p, 1) ELSE Error(Read(p, 1))

Emit(p, op, arg) == [p EXCEPT !.code = Append(@, Instr(op, arg))]
CloseWith(p, i)  == IF i = NoClose THEN p ELSE [p EXCEPT !.code = Append(@, i)]
Unemit(p)        == [p EXCEPT !.code = Front(@)]
\* The jump at pos goes to the current position.
ComeFrom(p, pos) == [p EXCEPT !.code[pos].arg = Len(p.code) + 1]
Typed(p, type)   == [p EXCEPT !.type = type]

EndsIn(p, op) == p.code # <<>> /\ Last(p.code).op = op
EndsInEmptyString(p) == EndsIn(p, "PUSH_CONST") /\ Last(p.code).arg \in {Str(<<>>), Nil}

StartParse(tokens) == [in |-> tokens, code |-> <<>>, type |-> "other", errors |-> FALSE]

RECURSIVE ParseExpr(_, _), ParseOper(_, _, _), Operators(_, _), CallArguments(_, _),
          Items(_, _)

-----------------------------------------------------------------------------
(* A first operand. *)

Constant(p, v) == Typed(Emit(p, "PUSH_CONST", v), "other")

\* Mistaken variant: nothing is said of it.
StatementUnreported(p) == p

\* What has to give a value may not be a statement; the code is kept all the same.
NoStatement(p) == IF p.type = "statement" THEN Error(p) ELSE p

\* { } is a script of its own, which becomes a constant.
FunctionBlock(p) ==
  LET body == NoStatement(ParseOper([p EXCEPT !.code = <<>>], PREC_ALL, NoClose))
  IN Constant([Expect(body, "}") EXCEPT !.code = p.code], Func(body.code))

IfThenElse(p) ==
  LET cond  == Emit(ParseOper(p, PREC_AND, NoClose), "JUMP_IF_NOT", 0)
      yes   == Emit(ParseOper(Expect(cond, "then"), PREC_SET, NoClose), "JUMP", 0)
      no    == ComeFrom(yes, Len(cond.code))
      last  == IF At(no, "else") THEN ParseOper(Read(no, 1), PREC_SET, NoClose)
               ELSE Typed(Constant(no, Nil), "statement")
      types == {yes.type, last.type}
  IN Typed(ComeFrom(last, Len(yes.code)), IF "statement" \in types THEN "statement" ELSE "other")

\* The results of the body are added up, starting from nil.
ForEach(p) ==
  LET name  == Peek(p, 2).v
      coll  == ParseOper(Expect(Read(p, 2), "in"), PREC_AND, Instr("ITERATOR_C", 0))
      start == Expect(Emit(Constant(coll, Nil), "LOOP", 0), "do")
      loop  == Len(start.code)
      bound == Emit(Emit(start, "SET_VAR", name), "POP", 0)
      body  == ParseOper(bound, PREC_SET, Instr("ADD", 0))
  IN Typed(ComeFrom(Emit(body, "JUMP", loop), loop), "other")

\* assert(x == y) compares inside of the warning, to show both sides.
Assertion(p) ==
  LET fun  == Len(p.code) + 1
      cond == ParseOper(Emit(Expect(p, "("), "PUSH_CONST", Warning), PREC_ALL, NoClose)
      done == Expect(cond, ")")
      call == IF EndsIn(done, "EQ")
              THEN Emit(Constant([Unemit(done) EXCEPT !.code[fun].arg = WarningIfNeq],
                                 Str(<<"message">>)),
                        "CALL", <<"_1", "_2", "input">>)
              ELSE Emit(Constant(Emit(done, "NOT", 0), Str(<<"message">>)),
                        "CALL", <<"condition", "input">>)
  IN Typed(call, "statement")

\* The elements of a list; each has a nil in the place of a key.
Items(p, n) ==
  IF At(p, "]") \/ Peek(p, 1).t = "eof" THEN Emit(Expect(p, "]"), "MAKE_OBJECT", n)
  ELSE LET item == ParseOper(Emit(p, "PUSH_CONST", Nil), PREC_AND, NoClose)
       IN Items(IF At(item, ",") THEN Read(item, 1) ELSE item, n + 1)

ParseExpr(p, min) ==
  LET tok  == Peek(p, 1)
      rest == Read(p, 1)
      name == tok.t = "name"
  IN CASE Is(tok, "(")             -> Expect(ParseOper(rest, PREC_ALL, NoClose), ")")
       [] Is(tok, "{")             -> FunctionBlock(rest)
       [] Is(tok, "[")             -> Typed(Items(rest, 0), "other")
       [] name /\ tok.v = "not" /\ min <= PREC_UNARY
                                   -> Typed(ParseOper(rest, PREC_UNARY, Instr("NOT", 0)), "other")
       [] name /\ tok.v \in {"true", "false"}
                                   -> Constant(rest, BoolV(tok.v = "true"))
       [] name /\ tok.v = "nil"    -> Constant(rest, Nil)
       [] name /\ tok.v = "if"     -> IfThenElse(rest)
       [] name /\ tok.v = "for"    -> ForEach(rest)
       [] name /\ tok.v = "assert" -> Assertion(rest)
       [] name /\ tok.v \notin {"true", "false", "nil", "if", "for", "assert"}
          /\ ~(tok.v = "not" /\ min <= PREC_UNARY)
                                   -> Typed(Emit(rest, "GET_VAR", tok.v), "variable")
       [] tok.t = "string"         -> Constant(rest, Str(tok.v))
       [] OTHER                    -> Typed(Error(Constant(rest, Nil)), "failed")

-----------------------------------------------------------------------------
(* The operators after it. *)

ParseOper(p, min, close) == CloseWith(Operators(ParseExpr(p, min), min), close)

\* Is the token one that can continue an expression?
Continues(tok, min) ==
  \/ tok.t \in {"oper", "name", "open"}
  \/ tok.t = "string" /\ min <= PREC_NEWLINE /\ tok.nl

IsOperator(tok) ==
  \/ /\ tok.t \in {"oper", "name"}
     /\ tok.v \in {";", ":=", ".", "@"} \cup DOMAIN BinaryOperators \cup DOMAIN ShortCircuits
  \/ Is(tok, "\"{")
  \/ Is(tok, "(") /\ ~tok.nl

\* Arguments of a call, of which the names are collected.
CallArguments(p, names) ==
  IF At(p, ")") \/ Peek(p, 1).t = "eof" THEN [p |-> Expect(p, ")"), names |-> names]
  ELSE LET named == Peek(p, 1).t = "name" /\ Is(Peek(p, 2), ":")
           arg   == ParseOper(IF named THEN Read(p, 2) ELSE p, PREC_SEQ, NoClose)
       IN CallArguments(IF At(arg, ",") THEN Read(arg, 1) ELSE arg,
                     Append(names, IF named THEN Peek(p, 1).v ELSE "input"))
ParseCallArguments(p, op) ==
  LET args == CallArguments(p, <<>>) IN Emit(args.p, op, args.names)

\* The variable before := was taken for an expression: remove its instruction.
Assignment(p) ==
  IF p.type # "variable" \/ ~EndsIn(p, "GET_VAR") THEN Typed(Error(p), "failed")
  ELSE NoStatement(ParseOper(Read(Unemit(p), 1), PREC_SET, Instr("SET_VAR", Last(p.code).arg)))

ShortCircuit(p, op) ==
  LET jump == Emit(Read(p, 1), op, 0)
  IN ComeFrom(ParseOper(jump, PREC_CMP, NoClose), Len(jump.code))

\* In "x{e}y" an empty string is not added.
SmartString(p) ==
  LET rest == Read(p, 1)
      hole == IF EndsInEmptyString(p) THEN ParseOper(Unemit(rest), PREC_ALL, NoClose)
              ELSE ParseOper(rest, PREC_ALL, Instr("ADD", 0))
      tail == ParseOper(Expect(hole, "}\""), PREC_NONE, NoClose)
  IN IF ~At(hole, "}\"") THEN Expect(hole, "}\"")
     ELSE IF EndsInEmptyString(tail) THEN Unemit(tail) ELSE Emit(tail, "ADD", 0)

Operators(p, min) ==
  LET tok  == Peek(p, 1)
      rest == Read(p, 1)
      More(q)  == Operators(Typed(q, IF q.type = "variable" THEN "other" ELSE q.type), min)
      Plain(q) == More(Typed(q, p.type))       \* the kind is not that of the right side
      oper == tok.t \in {"oper", "name"} /\ tok.v \in DOMAIN BinaryOperators
  IN CASE ~Continues(tok, min) -> p
       [] Is(tok, ";") /\ min <= PREC_SEQ ->
            IF Peek(p, 2).t \in {"close", "eof"} THEN rest
            ELSE More(ParseOper(Emit(rest, "POP", 0), PREC_SET, NoClose))
       [] Is(tok, ":=") /\ min <= PREC_SET ->
            LET q == Assignment(p) IN IF q.type = "failed" THEN q ELSE More(q)
       [] oper /\ min <= BinaryOperators[tok.v].level ->
            LET o == BinaryOperators[tok.v]
            IN Plain(ParseOper(rest, o.right, Instr(o.op, 0)))
       [] tok.t = "name" /\ tok.v \in DOMAIN ShortCircuits /\ min <= PREC_AND ->
            Plain(ShortCircuit(p, ShortCircuits[tok.v]))
       [] Is(tok, ".") /\ min <= PREC_FUN ->
            Plain(IF Peek(p, 2).t = "name" THEN Emit(Read(p, 2), "MEMBER_C", Peek(p, 2).v)
                  ELSE Error(Read(p, 2)))
       [] Is(tok, "(") /\ min <= PREC_FUN /\ ~tok.nl ->
            Plain(ParseCallArguments(rest, "CALL"))
       [] Is(tok, "@") /\ min <= PREC_FUN ->
            Plain(ParseCallArguments(Expect(rest, "("), "CLOSURE"))
       [] Is(tok, "\"{") /\ min <= PREC_STRING -> Plain(SmartString(p))
       [] min <= PREC_NEWLINE /\ tok.nl /\ ~IsOperator(tok) ->
            More(ParseOper(Emit(p, "POP", 0), PREC_SET, NoClose))
       [] OTHER -> p

\* parse: the script of the tokens, and whether there were errors.
Parse(tokens) ==
  LET p == ParseOper(StartParse(tokens), PREC_ALL, NoClose)
  IN [code |-> p.code, errors |-> p.errors \/ Peek(p, 1).t # "eof"]
=============================================================================
