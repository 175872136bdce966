---------------------------- MODULE ScriptMachine ---------------------------
(***************************************************************************)
(* Evaluating a script (script/context.cpp, Context::eval), one            *)
(* instruction per step.  The recursion of the C++ code is the sequence    *)
(* frames: a "script" frame is a running Context::eval, a "scope" frame a  *)
(* LocalScope that lives until what was started above it has finished, a   *)
(* "compose" frame waits for the first of two composed functions, and an   *)
(* "eval" frame is a value about to be evaluated.  An exception takes the  *)
(* frames off one by one, as destructors and catch blocks do.              *)
(***************************************************************************)
EXTENDS ScriptContext

CONSTANTS Programs,      \* the scripts: records with the code, among others
          Worlds,        \* what the members of the objects can be
          Globals        \* the values of the variables before the script

VARIABLES program,   \* the script being evaluated
          world,     \* the members of the objects while it is
          ctx,       \* the context
          frames,    \* evaluations in progress, the innermost last
          status,    \* "running", "returning", "throwing", "done" or "failed"
          result,    \* the value being returned
          reads,     \* members of objects read (a history variable)
          warned     \* has an assertion failed? (a history variable)

vars == <<program, world, ctx, frames, status, result, reads, warned>>

NoScope == -1
EvalFrame(v, open)     == [kind |-> "eval", v |-> v, open |-> open]
ScopeFrame(mark)       == [kind |-> "scope", scope |-> mark]
ComposeFrame(b, open)  == [kind |-> "compose", b |-> b, open |-> open]
ScriptFrame(code, c, mark) ==
  [kind |-> "script", code |-> code, pc |-> 1, base |-> Len(c.stack), scope |-> mark]

InitialContext == Context([x \in Variables |-> [val |-> Globals[x], level |-> 0]])

InitWith(p) ==
  /\ program = p
  /\ world \in Worlds
  /\ ctx = InitialContext
  /\ frames = <<EvalFrame(Func(p.code), TRUE)>>
  /\ status = "running"
  /\ result = Unset
  /\ reads = {}
  /\ warned = FALSE
Init == \E p \in Programs : InitWith(p)

Frame == frames[Len(frames)]
Outer == SubSeq(frames, 1, Len(frames) - 1)

Throw     == /\ status' = "throwing"
             /\ UNCHANGED <<program, world, ctx, frames, result, reads, warned>>
Return(v, c, fs) ==
             /\ status' = "returning" /\ result' = v /\ ctx' = c /\ frames' = fs
             /\ UNCHANGED <<program, world, reads>>

-----------------------------------------------------------------------------
(* Starting to evaluate a value: ScriptValue::eval. *)

Evaluating(t) == status = "running" /\ frames # <<>> /\ Frame.kind = "eval"
                 /\ Frame.v.t \in t

\* Context::eval of a script: only here is the depth of the scopes limited.
EnterScript ==
  /\ Evaluating({"fun"})
  /\ IF ctx.level > MaxLevel THEN Throw
     ELSE /\ ctx' = IF Frame.open THEN OpenScope(ctx) ELSE ctx
          /\ frames' = Append(Outer,
               ScriptFrame(Frame.v.code, ctx, IF Frame.open THEN ScopeOf(ctx) ELSE NoScope))
          /\ UNCHANGED <<program, world, status, result, reads, warned>>

EnterClosure ==
  /\ Evaluating({"closure"})
  /\ ctx' = ApplyBindings(IF Frame.open THEN OpenScope(ctx) ELSE ctx, Frame.v.binds)
  /\ frames' = (IF Frame.open THEN Append(Outer, ScopeFrame(ScopeOf(ctx))) ELSE Outer)
               \o <<EvalFrame(Frame.v.fun, Frame.open)>>
  /\ UNCHANGED <<program, world, status, result, reads, warned>>

\* The first function always gets a scope of its own.
EnterCompose ==
  /\ Evaluating({"compose"})
  /\ frames' = Outer \o <<ComposeFrame(Frame.v.b, Frame.open), EvalFrame(Frame.v.a, TRUE)>>
  /\ UNCHANGED <<program, world, ctx, status, result, reads, warned>>

\* nil(input) == input; an error stays one; the rest are no functions.
EnterOther ==
  /\ Evaluating({"nil", "bool", "str", "obj", "list", "iterator", "error"})
  /\ IF Frame.v.t = "nil" /\ Value(ctx, "input") = Unset THEN Throw
     ELSE /\ Return(IF Frame.v.t = "nil" THEN Value(ctx, "input") ELSE DelayedError, ctx, Outer)
          /\ UNCHANGED warned

\* The functions that assertions are compiled into.
EnterWarning ==
  /\ Evaluating({"warning", "warning if neq"})
  /\ LET neq    == Frame.v.t = "warning if neq"
         x      == Value(ctx, "_1")
         y      == Value(ctx, "_2")
         cond   == Value(ctx, "condition")
         usable == IF neq THEN CanCompare(x, y) ELSE HasBool(cond)
     IN IF ~usable THEN Throw
        ELSE /\ Return(Nil, ctx, Outer)
             /\ warned' = (warned \/ (IF neq THEN ~Equal(x, y) ELSE ToBool(cond)))

-----------------------------------------------------------------------------
(* The instructions of the script on top. *)

InScript == status = "running" /\ frames # <<>> /\ Frame.kind = "script"
Running(op) == /\ InScript
               /\ Frame.pc <= Len(Frame.code)
               /\ Frame.code[Frame.pc].op = op
Arg == Frame.code[Frame.pc].arg

\* The context after an instruction, which continues at pc.
Continue(c, pc) ==
  /\ ctx' = c
  /\ frames' = [frames EXCEPT ![Len(frames)].pc = pc]
  /\ UNCHANGED <<program, world, status, result, warned>>
Step(c) == Continue(c, Frame.pc + 1) /\ UNCHANGED reads

Push       == Running("PUSH_CONST") /\ Step(PushValue(ctx, Arg))
PopTop     == Running("POP") /\ Step(PopValues(ctx, 1))
Jump       == Running("JUMP") /\ Continue(ctx, Arg) /\ UNCHANGED reads

JumpIfNot  ==
  /\ Running("JUMP_IF_NOT")
  /\ IF ~HasBool(Top(ctx)) THEN Throw
     ELSE /\ Continue(PopValues(ctx, 1), IF ToBool(Top(ctx)) THEN Frame.pc + 1 ELSE Arg)
          /\ UNCHANGED reads

\* Short circuit: the value stays on the stack when the jump is taken.
JumpShort  ==
  \E op \in {"JUMP_SC_AND", "JUMP_SC_OR"} :
    /\ Running(op)
    /\ IF ~HasBool(Top(ctx)) THEN Throw
       ELSE /\ IF ToBool(Top(ctx)) <=> op = "JUMP_SC_OR"
               THEN Continue(ctx, Arg)
               ELSE Continue(PopValues(ctx, 1), Frame.pc + 1)
            /\ UNCHANGED reads

GetVar     ==
  /\ Running("GET_VAR")
  /\ IF Value(ctx, Arg) = Unset THEN Throw ELSE Step(PushValue(ctx, Value(ctx, Arg)))
SetVar     == Running("SET_VAR") /\ Step(SetVariable(ctx, Arg, Top(ctx)))

Member(v, name) ==
  IF v.t = "obj" /\ name \in DOMAIN world[v.o] THEN world[v.o][name] ELSE DelayedError
MemberC    ==
  /\ Running("MEMBER_C")
  /\ Continue(Replace(ctx, 1, Member(Top(ctx), Arg)), Frame.pc + 1)
  /\ reads' = IF Top(ctx).t = "obj" /\ Arg \in DOMAIN world[Top(ctx).o]
              THEN reads \cup {Arg} ELSE reads

MakeIterator ==
  /\ Running("ITERATOR_C")
  /\ Step(Replace(ctx, 1, CASE Top(ctx).t = "list"     -> Iter(Top(ctx).items)
                            [] Top(ctx).t = "iterator" -> Top(ctx)
                            [] OTHER                   -> DelayedError))

\* The iterator is below the result so far; when it is at its end it goes.
Loop       ==
  /\ Running("LOOP")
  /\ LET it == Nth(ctx, 1) IN
     IF it.t # "iterator" THEN Throw
     ELSE IF it.items = <<>>
     THEN /\ Continue(Replace(ctx, 2, Top(ctx)), Arg) /\ UNCHANGED reads
     ELSE Step([ctx EXCEPT !.stack =
                  Append([@ EXCEPT ![Len(@) - 1] = Iter(Tail(it.items))], Head(it.items))])

MakeList   == Running("MAKE_OBJECT") /\ Step(MakeObject(ctx, Arg))
MakeDefaults == Running("CLOSURE") /\ Step(MakeClosure(ctx, Arg))

Not        ==
  /\ Running("NOT")
  /\ IF ~HasBool(Top(ctx)) THEN Throw
     ELSE Step(Replace(ctx, 1, BoolV(~ToBool(Top(ctx)))))

BinaryOps == {"ADD", "EQ", "NEQ", "XOR", "OR_ELSE"}
BinaryOp   ==
  \E op \in BinaryOps :
    /\ Running(op)
    /\ IF ~CanBinary(op, Nth(ctx, 1), Top(ctx)) THEN Throw
       ELSE Step(Replace(ctx, 2, Binary(op, Nth(ctx, 1), Top(ctx))))

\* The arguments are set in a scope that lasts until the call has returned.
Call       ==
  /\ Running("CALL")
  /\ LET names == Arg
         inner == PopValues(SetAll(OpenScope(ctx), Arguments(ctx, names)), Len(names))
     IN /\ ctx' = inner
        /\ frames' = Append(Outer, [Frame EXCEPT !.pc = @ + 1])
                     \o <<ScopeFrame(ScopeOf(ctx)), EvalFrame(Top(inner), FALSE)>>
  /\ UNCHANGED <<program, world, status, result, reads, warned>>

\* The end of the script: its result is on top of the stack.
Finish     ==
  /\ InScript /\ Frame.pc > Len(Frame.code)
  /\ LET closed == IF Frame.scope = NoScope THEN ctx ELSE CloseScope(ctx, Frame.scope)
     IN Return(Top(ctx), PopValues(closed, 1), Outer)
  /\ UNCHANGED warned

-----------------------------------------------------------------------------
(* What waited for a value gets it. *)

Returning(kind) == status = "returning" /\ frames # <<>> /\ Frame.kind = kind

LeaveScope ==
  /\ Returning("scope")
  /\ ctx' = CloseScope(ctx, Frame.scope)
  /\ frames' = Outer
  /\ UNCHANGED <<program, world, status, result, reads, warned>>

Composed   ==
  /\ Returning("compose")
  /\ ctx' = SetVariable(ctx, "input", result)
  /\ frames' = Append(Outer, EvalFrame(Frame.b, Frame.open))
  /\ status' = "running"
  /\ UNCHANGED <<program, world, result, reads, warned>>

\* The value of the call takes the place of the function on the stack.
Called     ==
  /\ Returning("script")
  /\ ctx' = Replace(ctx, 1, result)
  /\ status' = "running"
  /\ UNCHANGED <<program, world, frames, result, reads, warned>>

Done       ==
  /\ status = "returning" /\ frames = <<>>
  /\ status' = "done"
  /\ UNCHANGED <<program, world, ctx, frames, result, reads, warned>>

-----------------------------------------------------------------------------
(* An exception: scopes are closed and the stack is cut back on the way out.*)

\* Mistaken variant: the stack is not cut back.
UnwindScopes ==
  /\ status = "throwing" /\ frames # <<>>
  /\ ctx' = IF Frame.kind \in {"script", "scope"} /\ Frame.scope # NoScope
            THEN CloseScope(ctx, Frame.scope) ELSE ctx
  /\ frames' = Outer
  /\ UNCHANGED <<program, world, status, result, reads, warned>>

Unwind     ==
  /\ status = "throwing" /\ frames # <<>>
  /\ LET closed == IF Frame.kind \in {"script", "scope"} /\ Frame.scope # NoScope
                   THEN CloseScope(ctx, Frame.scope) ELSE ctx
     IN ctx' = IF Frame.kind = "script"
               THEN [closed EXCEPT !.stack = SubSeq(@, 1, Frame.base)] ELSE closed
  /\ frames' = Outer
  /\ UNCHANGED <<program, world, status, result, reads, warned>>

Fail       ==
  /\ status = "throwing" /\ frames = <<>>
  /\ status' = "failed"
  /\ UNCHANGED <<program, world, ctx, frames, result, reads, warned>>

Enter == EnterScript \/ EnterClosure \/ EnterCompose \/ EnterOther \/ EnterWarning
Instruction ==
  \/ Push \/ PopTop \/ Jump \/ JumpIfNot \/ JumpShort \/ GetVar \/ SetVar
  \/ MemberC \/ MakeIterator \/ Loop \/ MakeList \/ MakeDefaults \/ Not
  \/ BinaryOp \/ Call \/ Finish
Leave == LeaveScope \/ Composed \/ Called \/ Done \/ Unwind \/ Fail

Next == Enter \/ Instruction \/ Leave
Spec == Init /\ [][Next]_vars

-----------------------------------------------------------------------------
(* Code that keeps its stack: before every instruction, however it is      *)
(* reached, as many values have been left on the stack since the script    *)
(* began, and at its end there is one, the result.                         *)

Jumps == {"JUMP", "JUMP_IF_NOT", "JUMP_SC_AND", "JUMP_SC_OR", "LOOP"}

\* How many values an instruction takes, how many it leaves for the next one,
\* and how many where it jumps to.
Takes(i) ==
  CASE i.op \in {"PUSH_CONST", "GET_VAR", "JUMP"} -> 0
    [] i.op \in {"POP", "SET_VAR", "MEMBER_C", "ITERATOR_C", "NOT",
                 "JUMP_IF_NOT", "JUMP_SC_AND", "JUMP_SC_OR"} -> 1
    [] i.op \in BinaryOps \cup {"LOOP"} -> 2
    [] i.op = "MAKE_OBJECT" -> 2 * i.arg
    [] i.op \in {"CALL", "CLOSURE"} -> Len(i.arg) + 1
Leaves(i) ==
  CASE i.op \in {"POP", "JUMP", "JUMP_IF_NOT", "JUMP_SC_AND", "JUMP_SC_OR"} -> 0
    [] i.op = "LOOP" -> 3
    [] OTHER -> 1
LeavesThere(i) == IF i.op \in {"JUMP", "JUMP_IF_NOT"} THEN 0 ELSE 1

Heights(code) ==
  LET h[pc \in 1 .. Len(code) + 1] ==
        LET from == {j \in 1 .. pc - 1 : code[j].op \in Jumps /\ code[j].arg = pc}
            source == CHOOSE j \in from : TRUE
        IN CASE pc = 1 -> 0
             [] pc > 1 /\ code[pc - 1].op # "JUMP" ->
                  h[pc - 1] - Takes(code[pc - 1]) + Leaves(code[pc - 1])
             [] pc > 1 /\ code[pc - 1].op = "JUMP" /\ from # {} ->
                  h[source] - Takes(code[source]) + LeavesThere(code[source])
             [] OTHER -> 0
  IN h

HasArgument(i) ==
  /\ i.op \in {"GET_VAR", "SET_VAR"} => i.arg \in Variables
  /\ i.op \in {"CALL", "CLOSURE"} => i.arg \in Seq(Variables)
  /\ i.op = "MAKE_OBJECT" => i.arg \in Nat

HeightsFit(code, h) ==
  /\ h \in [1 .. Len(code) + 1 -> Nat]
  /\ h[1] = 0 /\ h[Len(code) + 1] = 1
  /\ \A pc \in 1 .. Len(code) :
       /\ HasArgument(code[pc])
       /\ h[pc] >= Takes(code[pc])
       /\ code[pc].op # "JUMP" =>
            h[pc + 1] = h[pc] - Takes(code[pc]) + Leaves(code[pc])
       /\ code[pc].op \in Jumps =>
            /\ code[pc].arg \in 1 .. Len(code) + 1
            /\ h[code[pc].arg] = h[pc] - Takes(code[pc]) + LeavesThere(code[pc])

Balanced(code) == HeightsFit(code, Heights(code))

-----------------------------------------------------------------------------
(* What an evaluation leaves behind. *)

Ended == status \in {"done", "failed"}

(* After a script has run, also after one that failed in the middle of     *)
(* nested calls or by nesting too deep, every variable has the value and   *)
(* the level it had before, and no scope is left open.  And the stack is   *)
(* as it was: a script leaves nothing on it, takes nothing from its        *)
(* caller, and an error cuts it back to where the script started.          *)
ContextRestored ==
  /\ Ended => /\ ctx.vars = InitialContext.vars
              /\ ctx.shadowed = <<>>
              /\ ctx.level = 0
              /\ ctx.stack = <<>>
  /\ \A i \in 1 .. Len(frames) :
       frames[i].kind = "script" => frames[i].base <= Len(ctx.stack)
=============================================================================
