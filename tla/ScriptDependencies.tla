-------------------------- MODULE ScriptDependencies ------------------------
(***************************************************************************)
(* Which members of objects can a script read (script/dependency.cpp)?     *)
(* The script is run on values without following conditions: at a jump     *)
(* the state is recorded, the code before its target is run first, and at  *)
(* the target the two states are united.  The result of a comparison or a  *)
(* calculation is a dummy.                                                 *)
(*                                                                         *)
(* An analysis s has the context, the members marked, the instruction, the *)
(* postponed jumps, and ok, which an exception makes false.                *)
(***************************************************************************)
EXTENDS ScriptContext, SequencesExt

Dummy       == [t |-> "dummy"]
Missing     == [t |-> "missing"]        \* the value of a variable without one
Union(a, b) == [t |-> "union", a |-> a, b |-> b]
Unified(a, b) == IF a = b THEN a ELSE Union(a, b)

RECURSIVE MakeIterators(_), MarkMember(_, _, _), ValueDependencies(_, _, _),
          RunAnalysis(_, _, _)

MakeIterators(v) ==
  CASE v.t = "list"                  -> Iter(v.items)
    [] v.t \in {"iterator", "dummy"} -> v
    [] v.t = "union"                 -> Unified(MakeIterators(v.a), MakeIterators(v.b))
    [] OTHER                         -> DelayedError

\* Mistaken variant: only the second of two possible values is marked.
MarkSecond(v, name, members) ==
  CASE v.t = "obj"   -> IF name \in DOMAIN members[v.o]
                        THEN [v |-> members[v.o][name], marks |-> {name}]
                        ELSE [v |-> DelayedError, marks |-> {}]
    [] v.t = "union" -> MarkMember(v.b, name, members)
    [] OTHER         -> [v |-> Dummy, marks |-> {}]

\* dependencyMember: the value of the member, and the mark it leaves.
MarkMember(v, name, members) ==
  CASE v.t = "obj"   -> IF name \in DOMAIN members[v.o]
                        THEN [v |-> members[v.o][name], marks |-> {name}]
                        ELSE [v |-> DelayedError, marks |-> {}]
    [] v.t = "union" -> LET a == MarkMember(v.a, name, members)
                            b == MarkMember(v.b, name, members)
                        IN [v |-> Unified(a.v, b.v), marks |-> a.marks \cup b.marks]
    [] v.t = "error" -> [v |-> v, marks |-> {}]
    [] OTHER         -> [v |-> Dummy, marks |-> {}]

-----------------------------------------------------------------------------
(* Jumps. *)

\* The bindings made since the scope was opened, but for the first of them.
GetBindings(ctx, scope) ==
  [i \in 1 .. Len(ctx.shadowed) - scope - 1 |->
     LET x == ctx.shadowed[scope + 1 + i].var IN <<x, Value(ctx, x)>>]
ResetBindings(ctx, scope) == OpenScope(CloseScope(ctx, scope))

\* frame: the code, the height of the stack and the scope at its start.
Postpone(s, frame, target) ==
  [s EXCEPT !.jumps = Append(@,
     [target |-> target,
      stack  |-> SubSeq(s.ctx.stack, frame.base + 1, Len(s.ctx.stack)),
      bindings |-> GetBindings(s.ctx, frame.scope)])]

\* Mistaken variant: the value is popped first, as for a condition.
ShortCircuitPop(s, frame, target) ==
  Postpone([s EXCEPT !.ctx = PopValues(@, 1), !.pc = @ + 1], frame, target)

\* The value is popped after the jump was recorded: it is kept when jumping.
ShortCircuitJump(s, frame, target) ==
  [Postpone(s, frame, target) EXCEPT !.ctx = PopValues(@, 1), !.pc = @ + 1]

FirstJump(jumps) ==
  CHOOSE i \in 1 .. Len(jumps) :
    \A j \in 1 .. Len(jumps) : jumps[i].target <= jumps[j].target

\* Go on at the jump with the lowest target, in the state it was made in.
TakeFirst(s, frame) ==
  LET i == FirstJump(s.jumps)
      j == s.jumps[i]
      c == ResetBindings([s.ctx EXCEPT !.stack = SubSeq(@, 1, frame.base)], frame.scope)
  IN [s EXCEPT !.ctx = SetAll([c EXCEPT !.stack = @ \o j.stack], j.bindings),
               !.pc = j.target,
               !.jumps = RemoveAt(@, i)]

\* A jump arrives here: its state is united with the current one.
Unify(s, frame) ==
  LET i == CHOOSE i \in 1 .. Len(s.jumps) : s.jumps[i].target = s.pc
      j == s.jumps[i]
      stack == [k \in 1 .. Len(s.ctx.stack) |->
                  IF k > frame.base /\ k - frame.base <= Len(j.stack)
                  THEN Unified(s.ctx.stack[k], j.stack[k - frame.base])
                  ELSE s.ctx.stack[k]]
      after[n \in 0 .. Len(j.bindings)] ==
        IF n = 0 THEN [s.ctx EXCEPT !.stack = stack]
        ELSE LET x == j.bindings[n][1]
                 c == after[n - 1]
             IN IF Value(c, x) = Unset THEN c
                ELSE SetVariable(c, x, Unified(Value(c, x), j.bindings[n][2]))
  IN [s EXCEPT !.ctx = after[Len(j.bindings)],
               !.jumps = RemoveAt(@, i),
               !.level = @ /\ frame.base + Len(j.stack) = Len(s.ctx.stack)]

-----------------------------------------------------------------------------
(* Running a script, and calling a value. *)

AnalyseInstr(s, frame, members) ==
  LET i       == frame.code[s.pc]
      next    == [s EXCEPT !.pc = @ + 1]
      With(c) == [next EXCEPT !.ctx = c]
      top     == Top(s.ctx)
  IN CASE i.op = "PUSH_CONST"  -> With(PushValue(s.ctx, i.arg))
       [] i.op = "POP"         -> With(PopValues(s.ctx, 1))
       [] i.op = "JUMP"        -> IF i.arg > s.pc
                                  THEN TakeFirst(Postpone(s, frame, i.arg), frame)
                                  ELSE [s EXCEPT !.pc = i.arg]
       [] i.op = "JUMP_IF_NOT" -> Postpone(With(PopValues(s.ctx, 1)), frame, i.arg)
       [] i.op \in {"JUMP_SC_AND", "JUMP_SC_OR"} ->
            ShortCircuitJump(s, frame, i.arg)
       [] i.op = "MEMBER_C"    ->
            LET m == MarkMember(top, i.arg, members)
            IN [With(Replace(s.ctx, 1, m.v)) EXCEPT !.marks = @ \cup m.marks]
       [] i.op = "GET_VAR"     -> With(PushValue(s.ctx,
            IF Value(s.ctx, i.arg) = Unset THEN Missing ELSE Value(s.ctx, i.arg)))
       [] i.op = "SET_VAR"     -> With(SetVariable(s.ctx, i.arg, top))
       \* The body of a loop is run once, with the first element.
       [] i.op = "LOOP"        ->
            LET it == Nth(s.ctx, 1)
            IN CASE it.t = "dummy" \/ (it.t = "iterator" /\ it.items = <<>>) ->
                      [s EXCEPT !.ctx = Replace(@, 2, top), !.pc = i.arg]
                 [] it.t = "iterator" /\ it.items # <<>> ->
                      With(PushValue(PushValue(Replace(s.ctx, 2, Dummy), top), Head(it.items)))
                 [] OTHER -> [s EXCEPT !.ok = FALSE]
       [] i.op = "ITERATOR_C"  -> With(Replace(s.ctx, 1, MakeIterators(top)))
       [] i.op = "MAKE_OBJECT" -> With(MakeObject(s.ctx, i.arg))
       [] i.op = "CLOSURE"     -> With(MakeClosure(s.ctx, i.arg))
       [] i.op = "ADD"         -> With(Replace(s.ctx, 2, Unified(Nth(s.ctx, 1), top)))
       [] i.op = "NOT"         -> With(Replace(s.ctx, 1, Dummy))
       [] i.op \in {"EQ", "NEQ", "XOR", "OR_ELSE"} -> With(Replace(s.ctx, 2, Dummy))
       [] i.op = "CALL"        ->
            LET scope == ScopeOf(s.ctx)
                args  == PopValues(SetAll(OpenScope(s.ctx), Arguments(s.ctx, i.arg)), Len(i.arg))
                r     == ValueDependencies([next EXCEPT !.ctx = args], Top(args), members)
            IN IF ~r.ok THEN [s EXCEPT !.ok = FALSE]
               ELSE [next EXCEPT !.ctx = CloseScope(Replace(r.ctx, 1, r.v), scope),
                                 !.marks = r.marks, !.level = r.level]

RunAnalysis(s, frame, members) ==
  IF ~s.ok THEN s
  ELSE IF \E i \in 1 .. Len(s.jumps) : s.jumps[i].target = s.pc
       THEN RunAnalysis(Unify(s, frame), frame, members)
  ELSE IF s.pc > Len(frame.code) THEN s
  ELSE RunAnalysis(AnalyseInstr(s, frame, members), frame, members)

\* The value v.dependencies(ctx) in s.v.
ValueDependencies(s, v, members) ==
  CASE v.t = "fun"     ->
         LET frame == [code |-> v.code, base |-> Len(s.ctx.stack), scope |-> ScopeOf(s.ctx)]
             r == RunAnalysis([s EXCEPT !.ctx = OpenScope(@), !.pc = 1, !.jumps = <<>>],
                              frame, members)
             done == CloseScope(r.ctx, frame.scope)
         IN IF ~r.ok THEN r
            ELSE [r EXCEPT !.ctx = PopValues(done, 1), !.v = Top(done)]
    [] v.t = "closure" ->
         LET r == ValueDependencies([s EXCEPT !.ctx = ApplyBindings(OpenScope(@), v.binds)],
                                    v.fun, members)
         IN IF ~r.ok THEN r ELSE [r EXCEPT !.ctx = CloseScope(@, ScopeOf(s.ctx))]
    [] v.t = "compose" ->
         LET r == ValueDependencies(s, v.a, members)
         IN IF ~r.ok THEN r
            ELSE ValueDependencies([r EXCEPT !.ctx = SetVariable(@, "input", r.v)], v.b, members)
    [] v.t = "union"   ->
         LET a == ValueDependencies(s, v.a, members)
             b == ValueDependencies(a, v.b, members)
         IN IF ~a.ok THEN a ELSE IF ~b.ok THEN b ELSE [b EXCEPT !.v = Unified(a.v, b.v)]
    [] v.t = "error"   -> [s EXCEPT !.v = v]
    [] OTHER           -> [s EXCEPT !.v = Dummy]

StartAnalysis(globals) ==
  [ctx |-> Context([x \in Variables |-> [val |-> globals[x], level |-> 0]]),
   marks |-> {}, pc |-> 1, jumps |-> <<>>, v |-> Unset, ok |-> TRUE, level |-> TRUE]

\* ok: no exception; level: the stacks united were of the same height.
Dependencies(code, globals, members) ==
  ValueDependencies(StartAnalysis(globals), Func(code), members)
=============================================================================
