--------------------------- MODULE ScriptContext ---------------------------
(***************************************************************************)
(* The context in which scripts are evaluated (script/context): a stack of *)
(* values, the variables with the level they were set at, the shadowed     *)
(* bindings to restore when a scope is closed, and the current level.      *)
(* Everything here is a function on contexts; the evaluation itself is in  *)
(* ScriptMachine, the search for dependencies in ScriptDependencies.       *)
(*                                                                         *)
(* Values are records with a field t for their type.  A string is a        *)
(* sequence of atoms, of which a few strings convert to booleans.         *)
(* Numbers, colours, images and keys in list literals are left out.        *)
(***************************************************************************)
EXTENDS Integers, Sequences

CONSTANTS Variables,      \* the names that can be variables
          MaxLevel        \* how deep calls can be nested, 500 in the code

ASSUME LevelAssumption == MaxLevel \in Nat \ {0}
ASSUME VariablesAssumption == "input" \in Variables

Unset         == [t |-> "unset"]    \* no value: a null pointer
Nil           == [t |-> "nil"]
BoolV(b)      == [t |-> "bool", b |-> b]
Str(s)        == [t |-> "str", s |-> s]
Obj(o)        == [t |-> "obj", o |-> o]
List(s)       == [t |-> "list", items |-> s]
Iter(s)       == [t |-> "iterator", items |-> s]
Func(code)    == [t |-> "fun", code |-> code]
Closure(f, b) == [t |-> "closure", fun |-> f, binds |-> b]
Compose(a, b) == [t |-> "compose", a |-> a, b |-> b]
Warning       == [t |-> "warning"]  \* the built-in functions behind assert
WarningIfNeq  == [t |-> "warning if neq"]
DelayedError  == [t |-> "error"]    \* raised when it is used, not before

IsFunction(v) == v.t \in {"fun", "closure", "compose", "warning", "warning if neq"}

TrueStrings  == {<<"yes">>, <<"true">>}
FalseStrings == {<<"no">>, <<"false">>, <<>>}
HasBool(v) == \/ v.t \in {"nil", "bool"}
              \/ v.t = "str" /\ v.s \in TrueStrings \cup FalseStrings
ToBool(v)  == CASE v.t = "nil" -> FALSE
                [] v.t = "bool" -> v.b
                [] v.t = "str" -> v.s \in TrueStrings

HasString(v) == v.t \in {"nil", "bool", "str"}
AsString(v)  == CASE v.t = "nil"  -> <<>>
                  [] v.t = "bool" -> IF v.b THEN <<"true">> ELSE <<"false">>
                  [] v.t = "str"  -> v.s

-----------------------------------------------------------------------------
(* Variables and scopes. *)

Context(vars) == [stack |-> <<>>, vars |-> vars, shadowed |-> <<>>, level |-> 0]

Value(ctx, x) == ctx.vars[x].val

\* Mistaken variant: a variable without a value is not kept.
SetVariableKeepValues(ctx, x, v) ==
  [ctx EXCEPT !.shadowed = IF ctx.vars[x].level < ctx.level /\ Value(ctx, x) # Unset
                           THEN Append(@, [var |-> x, old |-> ctx.vars[x]])
                           ELSE @,
              !.vars[x] = [val |-> v, level |-> ctx.level]]

\* A variable of an outer level is kept, to be restored when the scope closes.
SetVariable(ctx, x, v) ==
  [ctx EXCEPT !.shadowed = IF ctx.vars[x].level < ctx.level
                           THEN Append(@, [var |-> x, old |-> ctx.vars[x]])
                           ELSE @,
              !.vars[x] = [val |-> v, level |-> ctx.level]]

\* How many scopes out the variable was set, -1 when it has no value.
VariableScope(ctx, x) ==
  IF Value(ctx, x) = Unset THEN -1 ELSE ctx.level - ctx.vars[x].level

OpenScope(ctx) == [ctx EXCEPT !.level = @ + 1]
ScopeOf(ctx)   == Len(ctx.shadowed)

\* The bindings above the mark are undone from the last to the first, so the
\* first one of a variable decides what it becomes again.
FirstShadow(ctx, scope, x) ==
  CHOOSE i \in scope + 1 .. Len(ctx.shadowed) :
    /\ ctx.shadowed[i].var = x
    /\ \A j \in scope + 1 .. i - 1 : ctx.shadowed[j].var # x
CloseScope(ctx, scope) ==
  [ctx EXCEPT
     !.level = @ - 1,
     !.vars = [x \in DOMAIN @ |->
                 IF \E i \in scope + 1 .. Len(ctx.shadowed) : ctx.shadowed[i].var = x
                 THEN ctx.shadowed[FirstShadow(ctx, scope, x)].old
                 ELSE @[x]],
     !.shadowed = SubSeq(@, 1, scope)]

\* Set the variables of bs in order: arguments, or defaults of a closure.
SetAll(ctx, bs) ==
  LET after[i \in 0 .. Len(bs)] ==
        IF i = 0 THEN ctx ELSE SetVariable(after[i - 1], bs[i][1], bs[i][2])
  IN after[Len(bs)]

\* Defaults of a closure: an argument in the current scope overrides them.
ApplyBindings(ctx, bs) ==
  LET after[i \in 0 .. Len(bs)] ==
        IF i = 0 THEN ctx
        ELSE IF VariableScope(after[i - 1], bs[i][1]) = 0 THEN after[i - 1]
        ELSE SetVariable(after[i - 1], bs[i][1], bs[i][2])
  IN after[Len(bs)]

-----------------------------------------------------------------------------
(* The stack. *)

Top(ctx)        == ctx.stack[Len(ctx.stack)]
Nth(ctx, n)     == ctx.stack[Len(ctx.stack) - n]      \* n below the top
PushValue(ctx, v) == [ctx EXCEPT !.stack = Append(@, v)]
PopValues(ctx, n) == [ctx EXCEPT !.stack = SubSeq(@, 1, Len(@) - n)]
Replace(ctx, n, v) == PushValue(PopValues(ctx, n), v)

\* Mistaken variant: the first name is given the value on top.
ArgumentsInOrder(ctx, names) ==
  [i \in 1 .. Len(names) |-> <<names[i], Nth(ctx, i - 1)>>]

\* The last argument is on top and is taken first; names[n] belongs to it.
Arguments(ctx, names) ==
  [i \in 1 .. Len(names) |-> <<names[Len(names) + 1 - i], Nth(ctx, i - 1)>>]

\* Every element has a key below it, nil for those of a list.
MakeObject(ctx, n) ==
  LET base == Len(ctx.stack) - 2 * n
  IN Replace(ctx, 2 * n, List([i \in 1 .. n |-> ctx.stack[base + 2 * i]]))

MakeClosure(ctx, names) ==
  LET n == Len(names) IN
  Replace(ctx, n + 1, Closure(Nth(ctx, n), Arguments(ctx, names)))

-----------------------------------------------------------------------------
(* Simple instructions on two values. *)

Add(a, b) ==
  CASE a.t = "nil"                      -> b
    [] a.t # "nil" /\ b.t = "nil"       -> a
    [] IsFunction(a) /\ IsFunction(b)   -> Compose(a, b)
    [] a.t = "list" /\ b.t = "list"     -> List(a.items \o b.items)
    [] HasString(a) /\ HasString(b) /\ a.t # "nil" /\ b.t # "nil"
                                        -> Str(AsString(a) \o AsString(b))
CanAdd(a, b) == \/ a.t = "nil" \/ b.t = "nil"
                \/ IsFunction(a) /\ IsFunction(b)
                \/ a.t = "list" /\ b.t = "list"
                \/ HasString(a) /\ HasString(b)

\* Lists are equal when their elements are; the rest is compared as code, in
\* which a string has quotes.  Comparing objects or functions is left out.
CanCompare(a, b) == {a.t, b.t} \subseteq {"nil", "bool", "str", "list"}
Equal(a, b)      == a.t = b.t /\ a = b

CanBinary(op, a, b) == CASE op = "ADD"           -> CanAdd(a, b)
                         [] op \in {"EQ", "NEQ"} -> CanCompare(a, b)
                         [] op = "XOR"           -> HasBool(a) /\ HasBool(b)
                         [] op = "OR_ELSE"       -> TRUE
Binary(op, a, b)    == CASE op = "ADD"     -> Add(a, b)
                         [] op = "EQ"      -> BoolV(Equal(a, b))
                         [] op = "NEQ"     -> BoolV(~Equal(a, b))
                         [] op = "XOR"     -> BoolV(ToBool(a) # ToBool(b))
                         [] op = "OR_ELSE" -> IF a.t = "error" THEN b ELSE a
=============================================================================
