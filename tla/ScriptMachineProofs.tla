------------------------- MODULE ScriptMachineProofs ------------------------
(***************************************************************************)
(* Proofs about ScriptMachine: whatever a script does, calls, composes or  *)
(* fails at, the context is afterwards what it was before.                 *)
(*                                                                         *)
(* The scripts may be any whose code keeps its stack (Balanced), and that  *)
(* goes for the functions in their constants, in the variables and in the  *)
(* members of objects: Values is the set of all values built from those.   *)
(***************************************************************************)
EXTENDS ScriptMachine, PositionsProofs

-----------------------------------------------------------------------------
(* The values a script can meet: level 0 has those that contain no others,   *)
(* a level adds what can be made of the values of the level below.           *)

Objects == UNION {DOMAIN w : w \in Worlds}
Atoms   == STRING \cup {"true", "false"}    \* of which strings are made
Simple  == {Unset, Nil, Warning, WarningIfNeq, DelayedError}
             \cup {BoolV(b) : b \in BOOLEAN} \cup {Str(s) : s \in Seq(Atoms)}
             \cup {Obj(o) : o \in Objects}

Codes(V) ==
  {code \in Seq([op : STRING, arg : V \cup Nat \cup STRING \cup Variables \cup Seq(Variables)]) :
     /\ Balanced(code)
     /\ \A pc \in 1 .. Len(code) : code[pc].op = "PUSH_CONST" => code[pc].arg \in V}
Binds(V) == Seq(Variables \X V)

Made(V) == {List(s) : s \in Seq(V)} \cup {Iter(s) : s \in Seq(V)}
             \cup {Func(code) : code \in Codes(V)}
             \cup {Closure(f, b) : f \in V, b \in Binds(V)}
             \cup {Compose(a, b) : a \in V, b \in V}
UpToLevel(n) ==
  LET level[i \in 0 .. n] == IF i = 0 THEN Simple ELSE level[i - 1] \cup Made(level[i - 1])
  IN level[n]
Values == UNION {UpToLevel(n) : n \in Nat}

Chain(g, n) == /\ g = [i \in 0 .. n |-> g[i]]
               /\ g[0] = Simple
               /\ \A i \in 1 .. n : g[i] = g[i - 1] \cup Made(g[i - 1])

\* There is a chain of levels of every length.
LEMMA ChainExists ==
  ASSUME NEW n \in Nat
  PROVE  \E g : Chain(g, n)
  <1> DEFINE T == {m \in Nat : \E g : Chain(g, m)}
  <1>1. 0 \in T
    <2> DEFINE g == [i \in 0 .. 0 |-> Simple]
    <2>1. Chain(g, 0)
      BY DEF Chain
    <2> HIDE DEF g
    <2> QED BY <2>1
  <1>2. ASSUME NEW m \in 0 .. n - 1, m \in T PROVE m + 1 \in T
    <2>1. PICK g : Chain(g, m)
      BY <1>2
    <2> DEFINE h == [i \in 0 .. m + 1 |-> IF i = m + 1 THEN g[m] \cup Made(g[m]) ELSE g[i]]
    <2>2. h = [i \in 0 .. m + 1 |-> h[i]] /\ h[0] = Simple
      BY <2>1 DEF Chain
    <2>3. ASSUME NEW i \in 1 .. m + 1 PROVE h[i] = h[i - 1] \cup Made(h[i - 1])
      <3>1. CASE i = m + 1
        <4>1. h[i] = g[m] \cup Made(g[m]) /\ h[i - 1] = g[m]
          BY <3>1
        <4> QED BY <4>1
      <3>2. CASE i # m + 1
        <4>1. i \in 1 .. m /\ h[i] = g[i] /\ h[i - 1] = g[i - 1]
          BY <3>2
        <4> QED BY <2>1, <4>1 DEF Chain
      <3> QED BY <3>1, <3>2
    <2>4. Chain(h, m + 1)
      BY <2>2, <2>3 DEF Chain
    <2> HIDE DEF h
    <2> QED BY <2>4
  <1>3. 0 .. n \subseteq T
    <2> HIDE DEF T
    <2> QED BY <1>1, <1>2, UpTo
  <1> QED BY <1>3

\* A chain ends in UpToLevel.
LEMMA ChainEnd ==
  ASSUME NEW n \in Nat, NEW g, Chain(g, n)
  PROVE  UpToLevel(n) = g[n]
  <1> DEFINE body(h) == [i \in 0 .. n |-> IF i = 0 THEN Simple ELSE h[i - 1] \cup Made(h[i - 1])]
             level == CHOOSE h : h = body(h)
  <1>1. g = body(g)
    <2>1. \A i \in 0 .. n : g[i] = IF i = 0 THEN Simple ELSE g[i - 1] \cup Made(g[i - 1])
      BY DEF Chain
    <2> QED BY <2>1 DEF Chain
  <1>2. level = body(level)
    BY <1>1
  <1>3. UpToLevel(n) = level[n]
    BY DEF UpToLevel
  <1> HIDE DEF level
  <1> DEFINE T == {i \in 0 .. n : level[i] = g[i]}
  <1>4. 0 \in T
    BY <1>2 DEF Chain
  <1>5. ASSUME NEW i \in 0 .. n - 1, i \in T PROVE i + 1 \in T
    <2>1. i + 1 \in 0 .. n /\ i + 1 \in 1 .. n /\ i + 1 # 0 /\ (i + 1) - 1 = i
      OBVIOUS
    <2>2. level[i + 1] = level[i] \cup Made(level[i])
      BY <1>2, <2>1
    <2>3. g[i + 1] = g[i] \cup Made(g[i])
      BY <2>1 DEF Chain
    <2> QED BY <1>5, <2>1, <2>2, <2>3
  <1>6. 0 .. n \subseteq T
    <2> HIDE DEF T
    <2> QED BY <1>4, <1>5, UpTo
  <1> QED BY <1>3, <1>6

LEMMA Levels ==
  /\ UpToLevel(0) = Simple
  /\ \A n \in Nat : UpToLevel(n + 1) = UpToLevel(n) \cup Made(UpToLevel(n))
  <1>1. UpToLevel(0) = Simple
    BY ChainExists, ChainEnd DEF Chain
  <1>2. ASSUME NEW n \in Nat PROVE UpToLevel(n + 1) = UpToLevel(n) \cup Made(UpToLevel(n))
    <2>1. PICK g : Chain(g, n + 1)
      BY ChainExists
    <2> DEFINE h == [i \in 0 .. n |-> g[i]]
    <2>2. Chain(h, n)
      BY <2>1 DEF Chain
    <2>3. h[n] = g[n]
      OBVIOUS
    <2> HIDE DEF h
    <2>4. UpToLevel(n) = g[n]
      BY <2>2, <2>3, ChainEnd
    <2>5. UpToLevel(n + 1) = g[n + 1]
      BY <2>1, ChainEnd
    <2>6. g[n + 1] = g[n] \cup Made(g[n])
      <3>1. n + 1 \in 1 .. n + 1 /\ (n + 1) - 1 = n
        OBVIOUS
      <3> QED BY <2>1, <3>1 DEF Chain
    <2> QED BY <2>4, <2>5, <2>6
  <1> QED BY <1>1, <1>2

\* Finitely many values are all in one level.
LEMMA OneLevel ==
  ASSUME NEW k \in Nat, NEW g, \A i \in 1 .. k : g[i] \in Values
  PROVE  \E n \in Nat : \A i \in 1 .. k : g[i] \in UpToLevel(n)
  <1>1. ASSUME NEW m \in Nat, NEW d \in Nat PROVE UpToLevel(m) \subseteq UpToLevel(m + d)
    <2> DEFINE T == {e \in Nat : UpToLevel(m) \subseteq UpToLevel(m + e)}
    <2>1. 0 \in T
      OBVIOUS
    <2>2. ASSUME NEW e \in 0 .. d - 1, e \in T PROVE e + 1 \in T
      <3>1. UpToLevel((m + e) + 1) = UpToLevel(m + e) \cup Made(UpToLevel(m + e))
        BY Levels
      <3>2. (m + e) + 1 = m + (e + 1) /\ e + 1 \in Nat
        OBVIOUS
      <3> QED BY <2>2, <3>1, <3>2
    <2>3. 0 .. d \subseteq T
      <3> HIDE DEF T
      <3> QED BY <2>1, <2>2, UpTo
    <2> QED BY <2>3
  <1>2. ASSUME NEW m \in Nat, NEW n \in Nat, m <= n PROVE UpToLevel(m) \subseteq UpToLevel(n)
    <2>1. n - m \in Nat /\ m + (n - m) = n
      BY <1>2
    <2> QED BY <1>1, <2>1
  <1> DEFINE T == {j \in 0 .. k : \E n \in Nat : \A i \in 1 .. j : g[i] \in UpToLevel(n)}
  <1>3. 0 \in T
    OBVIOUS
  <1>4. ASSUME NEW j \in 0 .. k - 1, j \in T PROVE j + 1 \in T
    <2>1. PICK n \in Nat : \A i \in 1 .. j : g[i] \in UpToLevel(n)
      BY <1>4
    <2>2. j + 1 \in 1 .. k /\ j + 1 \in 0 .. k
      OBVIOUS
    <2>3. PICK m \in Nat : g[j + 1] \in UpToLevel(m)
      BY <2>2 DEF Values
    <2>4. PICK l \in Nat : m <= l /\ n <= l
      <3>1. CASE m <= n
        BY <3>1
      <3>2. CASE n <= m
        BY <3>2
      <3> QED BY <3>1, <3>2
    <2>5. UpToLevel(m) \subseteq UpToLevel(l) /\ UpToLevel(n) \subseteq UpToLevel(l)
      BY <1>2, <2>4
    <2>6. \A i \in 1 .. j + 1 : i \in 1 .. j \/ i = j + 1
      OBVIOUS
    <2>7. \A i \in 1 .. j + 1 : g[i] \in UpToLevel(l)
      BY <2>1, <2>3, <2>5, <2>6
    <2> QED BY <2>2, <2>7
  <1>5. 0 .. k \subseteq T
    <2> HIDE DEF T
    <2> QED BY <1>3, <1>4, UpTo
  <1>6. k \in T
    <2> HIDE DEF T
    <2> QED BY <1>5
  <1> QED BY <1>6

\* What values there are.
LEMMA ValueCases ==
  ASSUME NEW v \in Values
  PROVE  v \in Simple \/ v \in Made(Values)
  <1>1. \A n \in Nat : UpToLevel(n) \subseteq Values
    BY DEF Values
  <1>2. ASSUME NEW V, V \subseteq Values PROVE Made(V) \subseteq Made(Values)
    <2>1. \A s \in Seq(V) : s \in Seq(Values)
      BY <1>2, SeqMonotonic
    <2>2. ASSUME NEW b \in Binds(V) PROVE b \in Binds(Values)
      <3>1. Variables \X V \subseteq Variables \X Values
        BY <1>2
      <3> QED BY <3>1, SeqMonotonic DEF Binds
    <2>3. ASSUME NEW code \in Codes(V) PROVE code \in Codes(Values)
      <3> DEFINE I(W) == [op : STRING, arg : W \cup Nat \cup STRING \cup Variables \cup Seq(Variables)]
      <3>1. I(V) \subseteq I(Values)
        BY <1>2
      <3>2. code \in Seq(I(V)) /\ Balanced(code)
            /\ \A pc \in 1 .. Len(code) : code[pc].op = "PUSH_CONST" => code[pc].arg \in V
        BY DEF Codes
      <3>3. code \in Seq(I(Values))
        <4> HIDE DEF I
        <4> QED BY <3>1, <3>2, SeqMonotonic
      <3> QED BY <1>2, <3>2, <3>3 DEF Codes
    <2>4. ASSUME NEW w \in Made(V) PROVE w \in Made(Values)
      BY <1>2, <2>1, <2>2, <2>3 DEF Made
    <2> QED BY <2>4
  <1> DEFINE T == {n \in Nat : \A w \in UpToLevel(n) : w \in Simple \/ w \in Made(Values)}
  <1>3. 0 \in T
    BY Levels
  <1>4. ASSUME NEW n \in Nat, n \in T PROVE n + 1 \in T
    <2>1. UpToLevel(n + 1) = UpToLevel(n) \cup Made(UpToLevel(n))
      BY Levels
    <2>2. Made(UpToLevel(n)) \subseteq Made(Values)
      BY <1>1, <1>2
    <2> QED BY <1>4, <2>1, <2>2
  <1>5. PICK n \in Nat : v \in UpToLevel(n)
    BY DEF Values
  <1>6. n \in T
    <2>1. 0 .. n \subseteq T
      <3> HIDE DEF T
      <3> QED BY <1>3, <1>4, UpTo
    <2> QED BY <2>1
  <1> QED BY <1>5, <1>6

\* What a value of each type holds.
LEMMA Parts ==
  ASSUME NEW v \in Values
  PROVE  /\ v.t = "bool" => v.b \in BOOLEAN
         /\ v.t = "str" => v.s \in Seq(Atoms)
         /\ v.t = "obj" => v.o \in Objects
         /\ v.t \in {"list", "iterator"} => v.items \in Seq(Values)
         /\ v.t = "fun" => v.code \in Codes(Values)
         /\ v.t = "closure" => v.fun \in Values /\ v.binds \in Binds(Values)
         /\ v.t = "compose" => v.a \in Values /\ v.b \in Values
  <1>1. CASE v \in Simple
    <2>1. CASE v \in {Unset, Nil, Warning, WarningIfNeq, DelayedError}
      <3>1. /\ Unset.t = "unset" /\ Nil.t = "nil" /\ Warning.t = "warning"
            /\ WarningIfNeq.t = "warning if neq" /\ DelayedError.t = "error"
        BY DEF Unset, Nil, Warning, WarningIfNeq, DelayedError
      <3>2. v.t \in {"unset", "nil", "warning", "warning if neq", "error"}
        BY <2>1, <3>1
      <3> QED BY <3>2
    <2>2. CASE v \in {BoolV(b) : b \in BOOLEAN}
      BY <2>2 DEF BoolV
    <2>3. CASE v \in {Str(s) : s \in Seq(Atoms)}
      BY <2>3 DEF Str
    <2>4. CASE v \in {Obj(o) : o \in Objects}
      BY <2>4 DEF Obj
    <2> QED BY <1>1, <2>1, <2>2, <2>3, <2>4 DEF Simple
  <1>2. CASE v \in Made(Values)
    <2>1. CASE v \in {List(s) : s \in Seq(Values)} \cup {Iter(s) : s \in Seq(Values)}
      BY <2>1 DEF List, Iter
    <2>2. CASE v \in {Func(code) : code \in Codes(Values)}
      BY <2>2 DEF Func
    <2>3. CASE v \in {Closure(f, b) : f \in Values, b \in Binds(Values)}
      BY <2>3 DEF Closure
    <2>4. CASE v \in {Compose(a, b) : a \in Values, b \in Values}
      BY <2>4 DEF Compose
    <2> QED BY <1>2, <2>1, <2>2, <2>3, <2>4 DEF Made
  <1> QED BY <1>1, <1>2, ValueCases

\* What can be made of values is a value.
LEMMA MadeOf ==
  ASSUME NEW n \in Nat, NEW v \in Made(UpToLevel(n))
  PROVE  v \in Values
  <1>1. v \in UpToLevel(n + 1) /\ n + 1 \in Nat
    BY Levels
  <1> QED BY <1>1 DEF Values

LEMMA SimpleValues ==
  /\ Unset \in Values /\ Nil \in Values /\ DelayedError \in Values
  /\ \A b \in BOOLEAN : BoolV(b) \in Values
  /\ \A s \in Seq(Atoms) : Str(s) \in Values
  <1>1. Simple \subseteq Values
    BY Levels DEF Values
  <1> QED BY <1>1 DEF Simple

LEMMA Lists ==
  ASSUME NEW s \in Seq(Values)
  PROVE  List(s) \in Values /\ Iter(s) \in Values
  <1>1. Len(s) \in Nat /\ \A i \in 1 .. Len(s) : s[i] \in Values
    OBVIOUS
  <1>2. PICK n \in Nat : \A i \in 1 .. Len(s) : s[i] \in UpToLevel(n)
    BY <1>1, OneLevel
  <1>3. s \in Seq(UpToLevel(n))
    BY <1>2
  <1>4. List(s) \in Made(UpToLevel(n)) /\ Iter(s) \in Made(UpToLevel(n))
    BY <1>3 DEF Made
  <1> QED BY <1>4, MadeOf

LEMMA Compositions ==
  ASSUME NEW a \in Values, NEW b \in Values
  PROVE  Compose(a, b) \in Values
  <1> DEFINE g == [i \in 1 .. 2 |-> IF i = 1 THEN a ELSE b]
  <1>1. \A i \in 1 .. 2 : g[i] \in Values
    OBVIOUS
  <1>2. g[1] = a /\ g[2] = b
    OBVIOUS
  <1> HIDE DEF g
  <1>3. PICK n \in Nat : \A i \in 1 .. 2 : g[i] \in UpToLevel(n)
    BY <1>1, OneLevel
  <1>4. a \in UpToLevel(n) /\ b \in UpToLevel(n)
    BY <1>2, <1>3
  <1>5. Compose(a, b) \in Made(UpToLevel(n))
    BY <1>4 DEF Made
  <1> QED BY <1>5, MadeOf

LEMMA Closures ==
  ASSUME NEW f \in Values, NEW b \in Binds(Values)
  PROVE  Closure(f, b) \in Values
  <1> DEFINE k == Len(b)
             g == [i \in 1 .. k + 1 |-> IF i = k + 1 THEN f ELSE b[i][2]]
  <1>1. /\ k \in Nat /\ b = [i \in 1 .. k |-> b[i]]
        /\ \A i \in 1 .. k : b[i] \in Variables \X Values
    BY DEF Binds
  <1>2. \A i \in 1 .. k + 1 : g[i] \in Values
    BY <1>1
  <1>3. g[k + 1] = f /\ \A i \in 1 .. k : g[i] = b[i][2]
    BY <1>1
  <1> HIDE DEF g, k
  <1>4. PICK n \in Nat : \A i \in 1 .. k + 1 : g[i] \in UpToLevel(n)
    <2>1. k + 1 \in Nat
      BY <1>1
    <2> QED BY <1>2, <2>1, OneLevel
  <1>5. f \in UpToLevel(n)
    BY <1>1, <1>3, <1>4
  <1>6. ASSUME NEW i \in 1 .. k PROVE b[i] \in Variables \X UpToLevel(n)
    <2>1. i \in 1 .. k + 1 /\ b[i][2] \in UpToLevel(n)
      BY <1>1, <1>3, <1>4
    <2> QED BY <1>1, <2>1
  <1>7. b \in Binds(UpToLevel(n))
    <2> DEFINE P == Variables \X UpToLevel(n)
    <2>1. \A i \in 1 .. k : b[i] \in P
      BY <1>6
    <2> HIDE DEF P
    <2>2. b \in [1 .. k -> P]
      BY <1>1, <2>1
    <2>3. b \in Seq(P)
      BY <1>1, <2>2, SeqDef
    <2> QED BY <2>3 DEF P, Binds
  <1>8. Closure(f, b) \in Made(UpToLevel(n))
    BY <1>5, <1>7 DEF Made
  <1> QED BY <1>8, MadeOf

-----------------------------------------------------------------------------
(* Contexts: undoing all shadowed bindings gives back the first context.     *)

Bindings == [val : Values, level : Nat]
Contexts == [stack    : Seq(Values),
             vars     : [Variables -> Bindings],
             shadowed : Seq([var : Variables, old : Bindings]),
             level    : Nat]

\* A variable that is not shadowed is as it was; of one that is, the first
\* shadowed binding is as it was.
Undone(c) ==
  \A x \in Variables :
    /\ (\A i \in 1 .. Len(c.shadowed) : c.shadowed[i].var # x) =>
         c.vars[x] = InitialContext.vars[x]
    /\ \A i \in 1 .. Len(c.shadowed) :
         c.shadowed[i].var = x /\ (\A j \in 1 .. i - 1 : c.shadowed[j].var # x) =>
           c.shadowed[i].old = InitialContext.vars[x]

\* d has the stack and the level of c, and nothing that was shadowed is lost.
Kept(c, d) == /\ d \in Contexts /\ Undone(d)
              /\ d.stack = c.stack /\ d.level = c.level
              /\ Len(c.shadowed) <= Len(d.shadowed)

GlobalsSound == Globals \in [Variables -> Values]

\* Before the script no variable has a level.
LEMMA Initially ==
  ASSUME GlobalsSound
  PROVE  /\ InitialContext \in Contexts /\ Undone(InitialContext)
         /\ InitialContext.stack = <<>> /\ InitialContext.shadowed = <<>>
         /\ InitialContext.level = 0
         /\ \A x \in Variables : InitialContext.vars[x].level = 0
  <1>1. [x \in Variables |-> [val |-> Globals[x], level |-> 0]] \in [Variables -> Bindings]
    BY DEF GlobalsSound, Bindings
  <1>2. InitialContext \in Contexts /\ InitialContext.shadowed = <<>>
    BY <1>1 DEF InitialContext, Context, Contexts
  <1>3. Undone(InitialContext)
    BY <1>2 DEF Undone
  <1>4. InitialContext.vars = [x \in Variables |-> [val |-> Globals[x], level |-> 0]]
    BY DEF InitialContext, Context
  <1> QED BY <1>2, <1>3, <1>4 DEF InitialContext, Context

\* The parts of a context after setting a variable and after closing a scope.
LEMMA SetVariableParts ==
  ASSUME NEW c \in Contexts, NEW x \in Variables, NEW v,
         NEW d, d = SetVariable(c, x, v)
  PROVE  /\ d.stack = c.stack /\ d.level = c.level
         /\ d.vars = [c.vars EXCEPT ![x] = [val |-> v, level |-> c.level]]
         /\ d.shadowed = IF c.vars[x].level < c.level
                         THEN Append(c.shadowed, [var |-> x, old |-> c.vars[x]])
                         ELSE c.shadowed
         /\ d.shadowed \in Seq([var : Variables, old : Bindings])
              /\ d.vars \in [Variables -> Bindings] => d \in Contexts
  <1>1. d.stack = c.stack /\ d.level = c.level
    BY DEF SetVariable, Contexts
  <1>2. d.vars = [c.vars EXCEPT ![x] = [val |-> v, level |-> c.level]]
    BY DEF SetVariable, Contexts
  <1>3. d.shadowed = IF c.vars[x].level < c.level
                     THEN Append(c.shadowed, [var |-> x, old |-> c.vars[x]])
                     ELSE c.shadowed
    BY DEF SetVariable, Contexts
  <1>4. d.shadowed \in Seq([var : Variables, old : Bindings])
          /\ d.vars \in [Variables -> Bindings] => d \in Contexts
    BY DEF SetVariable, Contexts
  <1> QED BY <1>1, <1>2, <1>3, <1>4

LEMMA CloseScopeParts ==
  ASSUME NEW c \in Contexts, NEW m, NEW d, d = CloseScope(c, m)
  PROVE  /\ d.stack = c.stack /\ d.level = c.level - 1
         /\ d.vars = [x \in Variables |->
                        IF \E i \in m + 1 .. Len(c.shadowed) : c.shadowed[i].var = x
                        THEN c.shadowed[FirstShadow(c, m, x)].old ELSE c.vars[x]]
         /\ d.shadowed = SubSeq(c.shadowed, 1, m)
         /\ d.shadowed \in Seq([var : Variables, old : Bindings])
              /\ d.vars \in [Variables -> Bindings] /\ d.level \in Nat => d \in Contexts
  <1>1. d.stack = c.stack /\ d.level = c.level - 1 /\ d.shadowed = SubSeq(c.shadowed, 1, m)
    BY DEF CloseScope, Contexts
  <1>2. d.vars = [x \in Variables |->
                    IF \E i \in m + 1 .. Len(c.shadowed) : c.shadowed[i].var = x
                    THEN c.shadowed[FirstShadow(c, m, x)].old ELSE c.vars[x]]
    BY DEF CloseScope, Contexts
  <1>3. d.shadowed \in Seq([var : Variables, old : Bindings])
          /\ d.vars \in [Variables -> Bindings] /\ d.level \in Nat => d \in Contexts
    BY DEF CloseScope, Contexts
  <1> QED BY <1>1, <1>2, <1>3

\* Inside of a scope, setting a variable can be undone.
LEMMA SettingOne ==
  ASSUME GlobalsSound, NEW c \in Contexts, Undone(c), c.level >= 1,
         NEW x \in Variables, NEW v \in Values
  PROVE  Kept(c, SetVariable(c, x, v))
  <1> DEFINE d == SetVariable(c, x, v)
             n == Len(c.shadowed)
             entry == [var |-> x, old |-> c.vars[x]]
  <1>1. /\ c.vars[x] \in Bindings /\ c.level \in Nat /\ n \in Nat
        /\ c.shadowed \in Seq([var : Variables, old : Bindings])
        /\ entry \in [var : Variables, old : Bindings]
    BY DEF Contexts
  <1>2. [val |-> v, level |-> c.level] \in Bindings
    BY <1>1 DEF Bindings
  <1>3. /\ d.stack = c.stack /\ d.level = c.level
        /\ d.vars = [c.vars EXCEPT ![x] = [val |-> v, level |-> c.level]]
        /\ d.shadowed = IF c.vars[x].level < c.level THEN Append(c.shadowed, entry) ELSE c.shadowed
        /\ d.shadowed \in Seq([var : Variables, old : Bindings])
             /\ d.vars \in [Variables -> Bindings] => d \in Contexts
    BY SetVariableParts
  <1>4. d.vars \in [Variables -> Bindings] /\ \A y \in Variables : y # x => d.vars[y] = c.vars[y]
    BY <1>2, <1>3 DEF Contexts
  <1> HIDE DEF d
  <1>5. CASE c.vars[x].level < c.level
    <2>1. d.shadowed = Append(c.shadowed, entry)
      BY <1>3, <1>5
    <2>2. /\ d.shadowed \in Seq([var : Variables, old : Bindings]) /\ Len(d.shadowed) = n + 1
          /\ \A i \in 1 .. n : d.shadowed[i] = c.shadowed[i]
          /\ d.shadowed[n + 1] = entry
      BY <1>1, <2>1
    <2>3. Undone(d)
      <3> SUFFICES ASSUME NEW y \in Variables
                   PROVE  /\ (\A i \in 1 .. n + 1 : d.shadowed[i].var # y) =>
                               d.vars[y] = InitialContext.vars[y]
                          /\ \A i \in 1 .. n + 1 :
                               d.shadowed[i].var = y /\ (\A j \in 1 .. i - 1 : d.shadowed[j].var # y) =>
                                 d.shadowed[i].old = InitialContext.vars[y]
        BY <2>2 DEF Undone
      <3>1. ASSUME \A i \in 1 .. n + 1 : d.shadowed[i].var # y
            PROVE  d.vars[y] = InitialContext.vars[y]
        <4>1. y # x
          BY <1>1, <2>2, <3>1
        <4>2. \A i \in 1 .. n : c.shadowed[i].var # y
          BY <1>1, <2>2, <3>1
        <4> QED BY <1>4, <4>1, <4>2 DEF Undone
      <3>2. ASSUME NEW i \in 1 .. n + 1, d.shadowed[i].var = y,
                   \A j \in 1 .. i - 1 : d.shadowed[j].var # y
            PROVE  d.shadowed[i].old = InitialContext.vars[y]
        <4>1. CASE i = n + 1
          <5>1. y = x /\ d.shadowed[i].old = c.vars[x]
            BY <2>2, <3>2, <4>1
          <5>2. \A j \in 1 .. n : c.shadowed[j].var # y
            BY <1>1, <2>2, <3>2, <4>1
          <5> QED BY <5>1, <5>2 DEF Undone
        <4>2. CASE i # n + 1
          <5>1. i \in 1 .. n /\ d.shadowed[i] = c.shadowed[i]
            BY <1>1, <2>2, <4>2
          <5>2. \A j \in 1 .. i - 1 : j \in 1 .. n /\ c.shadowed[j].var # y
            BY <1>1, <2>2, <3>2, <5>1
          <5> QED BY <3>2, <5>1, <5>2 DEF Undone
        <4> QED BY <4>1, <4>2
      <3> QED BY <3>1, <3>2
    <2>4. n <= Len(d.shadowed)
      BY <1>1, <2>2
    <2> QED BY <1>3, <1>4, <2>2, <2>3, <2>4 DEF Kept, d
  <1>6. CASE ~(c.vars[x].level < c.level)
    <2>1. d.shadowed = c.shadowed
      BY <1>3, <1>6
    <2>2. c.vars[x] # InitialContext.vars[x]
      <3>1. c.vars[x].level \in Nat /\ c.vars[x].level # 0
        BY <1>1, <1>6 DEF Bindings
      <3> QED BY <3>1, Initially
    <2>3. \E i \in 1 .. n : c.shadowed[i].var = x
      BY <2>2 DEF Undone
    <2>4. Undone(d)
      BY <1>4, <2>1, <2>3 DEF Undone
    <2>5. n <= Len(d.shadowed)
      BY <1>1, <2>1
    <2> QED BY <1>1, <1>3, <1>4, <2>1, <2>4, <2>5 DEF Kept, d
  <1> QED BY <1>5, <1>6

\* Closing a scope undoes what was set in it.
LEMMA Closing ==
  ASSUME GlobalsSound, NEW c \in Contexts, Undone(c), c.level >= 1,
         NEW m \in 0 .. Len(c.shadowed)
  PROVE  LET d == CloseScope(c, m) IN
         /\ d \in Contexts /\ Undone(d)
         /\ d.stack = c.stack /\ d.level = c.level - 1 /\ Len(d.shadowed) = m
  <1> DEFINE d == CloseScope(c, m)
             n == Len(c.shadowed)
             S == [var : Variables, old : Bindings]
             In(x) == \E i \in m + 1 .. n : c.shadowed[i].var = x
  <1>1. n \in Nat /\ m \in Nat /\ m <= n /\ c.level \in Nat /\ c.shadowed \in Seq(S)
    BY DEF Contexts
  <1>2. /\ d.stack = c.stack /\ d.level = c.level - 1
        /\ d.vars = [x \in Variables |-> IF In(x) THEN c.shadowed[FirstShadow(c, m, x)].old
                                         ELSE c.vars[x]]
        /\ d.shadowed = SubSeq(c.shadowed, 1, m)
        /\ d.shadowed \in Seq(S) /\ d.vars \in [Variables -> Bindings] /\ d.level \in Nat => d \in Contexts
    BY CloseScopeParts
  <1>3. /\ d.shadowed \in Seq(S) /\ Len(d.shadowed) = m
        /\ \A i \in 1 .. m : d.shadowed[i] = c.shadowed[i]
    <2> HIDE DEF S, d
    <2>1. \A i \in 1 .. m : c.shadowed[i] \in S
      BY <1>1
    <2>2. /\ SubSeq(c.shadowed, 1, m) \in Seq(S) /\ Len(SubSeq(c.shadowed, 1, m)) = m
          /\ \A i \in 1 .. m : SubSeq(c.shadowed, 1, m)[i] = c.shadowed[i]
      BY <1>1, <2>1, SubSeqProperties
    <2> QED BY <1>2, <2>2
  <1> HIDE DEF d
  <1>4. ASSUME NEW x \in Variables, In(x)
        PROVE  \E k \in m + 1 .. n : /\ c.shadowed[k].var = x
                                     /\ \A j \in m + 1 .. k - 1 : c.shadowed[j].var # x
                                     /\ d.vars[x] = c.shadowed[k].old
    <2> DEFINE K == {i \in m + 1 .. n : c.shadowed[i].var = x}
    <2>1. K \in SUBSET Nat /\ K # {}
      BY <1>1, <1>4
    <2>2. PICK i \in K : \A j \in K : i <= j
      <3> HIDE DEF K
      <3> QED BY <2>1, Least
    <2>3. i \in m + 1 .. n /\ c.shadowed[i].var = x /\ \A j \in m + 1 .. i - 1 : c.shadowed[j].var # x
      BY <1>1, <2>2
    <2> DEFINE k == FirstShadow(c, m, x)
    <2>4. k \in m + 1 .. n /\ c.shadowed[k].var = x /\ \A j \in m + 1 .. k - 1 : c.shadowed[j].var # x
      BY <2>3 DEF FirstShadow
    <2>5. d.vars[x] = c.shadowed[k].old
      BY <1>2, <1>4
    <2> HIDE DEF k
    <2> QED BY <2>4, <2>5
  <1>5. d.vars \in [Variables -> Bindings]
    <2>1. ASSUME NEW x \in Variables PROVE d.vars[x] \in Bindings
      <3>1. CASE In(x)
        <4>1. PICK k \in m + 1 .. n : d.vars[x] = c.shadowed[k].old
          BY <1>4, <3>1
        <4>2. c.shadowed[k] \in S
          <5>1. k \in 1 .. n
            BY <1>1
          <5> HIDE DEF S
          <5> QED BY <1>1, <5>1, ElementOfSeq
        <4> QED BY <4>1, <4>2
      <3>2. CASE ~In(x)
        BY <1>2, <3>2 DEF Contexts
      <3> QED BY <3>1, <3>2
    <2> QED BY <1>2, <2>1
  <1>6. Undone(d)
    <2> SUFFICES ASSUME NEW x \in Variables
                 PROVE  /\ (\A i \in 1 .. m : d.shadowed[i].var # x) =>
                             d.vars[x] = InitialContext.vars[x]
                        /\ \A i \in 1 .. m :
                             d.shadowed[i].var = x /\ (\A j \in 1 .. i - 1 : d.shadowed[j].var # x) =>
                               d.shadowed[i].old = InitialContext.vars[x]
      BY <1>3 DEF Undone
    <2>1. ASSUME \A i \in 1 .. m : c.shadowed[i].var # x
          PROVE  d.vars[x] = InitialContext.vars[x]
      <3>1. CASE In(x)
        <4>1. PICK k \in m + 1 .. n : /\ c.shadowed[k].var = x
                                      /\ \A j \in m + 1 .. k - 1 : c.shadowed[j].var # x
                                      /\ d.vars[x] = c.shadowed[k].old
          BY <1>4, <3>1
        <4>2. \A j \in 1 .. k - 1 : c.shadowed[j].var # x
          BY <1>1, <2>1, <4>1
        <4>3. k \in 1 .. n
          BY <1>1
        <4> QED BY <4>1, <4>2, <4>3 DEF Undone
      <3>2. CASE ~In(x)
        <4>1. \A i \in 1 .. n : c.shadowed[i].var # x
          BY <1>1, <2>1, <3>2
        <4>2. d.vars[x] = c.vars[x]
          BY <1>2, <3>2
        <4> QED BY <4>1, <4>2 DEF Undone
      <3> QED BY <3>1, <3>2
    <2>2. ASSUME NEW i \in 1 .. m, d.shadowed[i].var = x,
                 \A j \in 1 .. i - 1 : d.shadowed[j].var # x
          PROVE  d.shadowed[i].old = InitialContext.vars[x]
      <3>1. i \in 1 .. n /\ \A j \in 1 .. i - 1 : j \in 1 .. m
        BY <1>1
      <3>2. d.shadowed[i] = c.shadowed[i] /\ \A j \in 1 .. i - 1 : c.shadowed[j].var # x
        BY <1>3, <2>2, <3>1
      <3> QED BY <2>2, <3>1, <3>2 DEF Undone
    <2> QED BY <1>3, <2>1, <2>2
  <1>7. c.level - 1 \in Nat
    BY <1>1
  <1>8. d \in Contexts
    BY <1>1, <1>2, <1>3, <1>5, <1>7 DEF Contexts
  <1> QED BY <1>2, <1>3, <1>6, <1>8 DEF d

LEMMA KeptOn ==
  ASSUME NEW c \in Contexts, NEW d, NEW e, Kept(c, d), Kept(d, e)
  PROVE  Kept(c, e)
  <1>1. Len(c.shadowed) \in Nat /\ Len(d.shadowed) \in Nat /\ Len(e.shadowed) \in Nat
    BY DEF Kept, Contexts
  <1> QED BY <1>1 DEF Kept

LEMMA KeptFirst ==
  ASSUME NEW c \in Contexts, Undone(c)
  PROVE  Kept(c, c)
  <1>1. Len(c.shadowed) \in Nat
    BY DEF Contexts
  <1> QED BY <1>1 DEF Kept

\* Contexts from c on, each made from the one before by a step.
StepsFrom(g, c, n, step) ==
  /\ g = [i \in 0 .. n |-> g[i]] /\ g[0] = c
  /\ \A i \in 1 .. n : g[i] = step[i][g[i - 1]] /\ g[i - 1] \in Contexts
  /\ Kept(c, g[n])
KeepsAt(s) == \A e \in Contexts : Undone(e) /\ e.level >= 1 => Kept(e, s[e])

\* So can any number of steps, each of which can.
LEMMA KeptChain ==
  ASSUME GlobalsSound, NEW c \in Contexts, Undone(c), c.level >= 1, NEW n \in Nat,
         NEW step, \A i \in 1 .. n : KeepsAt(step[i])
  PROVE  \E g : StepsFrom(g, c, n, step)
  <1> DEFINE Sound(g, m) == /\ g = [i \in 0 .. m |-> g[i]] /\ g[0] = c
                            /\ \A i \in 1 .. m : g[i] = step[i][g[i - 1]]
                            /\ \A i \in 0 .. m : Kept(c, g[i])
             T == {m \in 0 .. n : \E g : Sound(g, m)}
  <1>1. 0 \in T
    <2> DEFINE g == [i \in 0 .. 0 |-> c]
    <2>1. Sound(g, 0)
      BY KeptFirst
    <2> HIDE DEF g, Sound
    <2> QED BY <2>1
  <1>2. ASSUME NEW m \in 0 .. n - 1, m \in T PROVE m + 1 \in T
    <2>1. PICK g : Sound(g, m)
      BY <1>2
    <2> DEFINE e == step[m + 1][g[m]]
               h == [i \in 0 .. m + 1 |-> IF i = m + 1 THEN e ELSE g[i]]
    <2>2. m \in Nat /\ m + 1 \in 1 .. n /\ m + 1 \in 0 .. n /\ m \in 0 .. m /\ m + 1 # 0
      OBVIOUS
    <2>3. Kept(c, g[m])
      BY <2>1, <2>2
    <2>4. Kept(g[m], e)
      <3>1. g[m] \in Contexts /\ Undone(g[m]) /\ g[m].level >= 1
        BY <2>3 DEF Kept
      <3> QED BY <2>2, <3>1 DEF KeepsAt
    <2>5. Kept(c, e)
      BY <2>3, <2>4, KeptOn
    <2> HIDE DEF e
    <2>6. h = [i \in 0 .. m + 1 |-> h[i]] /\ h[0] = c
      BY <2>1, <2>2
    <2>7. \A i \in 0 .. m + 1 : h[i] = IF i = m + 1 THEN e ELSE g[i]
      OBVIOUS
    <2> HIDE DEF h
    <2>8. ASSUME NEW i \in 1 .. m + 1 PROVE h[i] = step[i][h[i - 1]]
      <3>1. CASE i = m + 1
        <4>1. h[i] = e /\ h[i - 1] = g[m]
          BY <2>2, <2>7, <3>1
        <4> QED BY <3>1, <4>1 DEF e
      <3>2. CASE i # m + 1
        <4>1. i \in 1 .. m /\ h[i] = g[i] /\ h[i - 1] = g[i - 1]
          BY <2>2, <2>7, <3>2
        <4> QED BY <2>1, <4>1
      <3> QED BY <3>1, <3>2
    <2>9. ASSUME NEW i \in 0 .. m + 1 PROVE Kept(c, h[i])
      <3>1. CASE i = m + 1
        BY <2>5, <2>7, <3>1
      <3>2. CASE i # m + 1
        <4>1. i \in 0 .. m /\ h[i] = g[i]
          BY <2>2, <2>7, <3>2
        <4> QED BY <2>1, <4>1
      <3> QED BY <3>1, <3>2
    <2>10. Sound(h, m + 1)
      BY <2>6, <2>8, <2>9
    <2> HIDE DEF Sound
    <2> QED BY <2>2, <2>10
  <1>3. n \in T
    <2> HIDE DEF T
    <2>1. 0 .. n \subseteq T
      BY <1>1, <1>2, UpTo
    <2> QED BY <2>1
  <1>4. PICK g : Sound(g, n)
    BY <1>3
  <1>5. ASSUME NEW i \in 1 .. n PROVE g[i - 1] \in Contexts
    <2>1. i - 1 \in 0 .. n
      OBVIOUS
    <2> QED BY <1>4, <2>1 DEF Kept
  <1>6. n \in 0 .. n
    OBVIOUS
  <1>7. StepsFrom(g, c, n, step)
    BY <1>4, <1>5, <1>6 DEF StepsFrom
  <1> QED BY <1>7

\* A function defined step by step is the only one with those steps.
LEMMA OnlyChain ==
  ASSUME NEW n \in Nat, NEW f, NEW g, f[0] = g[0],
         \A i \in 1 .. n : f[i - 1] = g[i - 1] => f[i] = g[i]
  PROVE  f[n] = g[n]
  <1> DEFINE U == {i \in 0 .. n : f[i] = g[i]}
  <1>1. 0 \in U
    OBVIOUS
  <1>2. ASSUME NEW i \in 0 .. n - 1, i \in U PROVE i + 1 \in U
    <2>1. i + 1 \in 0 .. n /\ i + 1 \in 1 .. n /\ (i + 1) - 1 = i
      OBVIOUS
    <2>2. f[i + 1] = g[i + 1]
      BY <1>2, <2>1
    <2> QED BY <2>1, <2>2
  <1>3. 0 .. n \subseteq U
    <2> HIDE DEF U
    <2> QED BY <1>1, <1>2, UpTo
  <1>4. n \in 0 .. n
    OBVIOUS
  <1> QED BY <1>3, <1>4

\* Setting several variables: for arguments all of them, for the defaults of a
\* closure those that no argument of the same scope overrides.
LEMMA SettingAll ==
  ASSUME GlobalsSound, NEW c \in Contexts, Undone(c), c.level >= 1, NEW bs \in Binds(Values)
  PROVE  Kept(c, SetAll(c, bs))
  <1> DEFINE n == Len(bs)
             step == [i \in 1 .. n |-> [e \in Contexts |-> SetVariable(e, bs[i][1], bs[i][2])]]
             body(h) == [i \in 0 .. n |-> IF i = 0 THEN c ELSE SetVariable(h[i - 1], bs[i][1], bs[i][2])]
             after == CHOOSE h : h = body(h)
  <1>1. n \in Nat /\ \A i \in 1 .. n : bs[i][1] \in Variables /\ bs[i][2] \in Values
    BY DEF Binds
  <1>2. \A i \in 1 .. n : \A e \in Contexts : step[i][e] = SetVariable(e, bs[i][1], bs[i][2])
    OBVIOUS
  <1>3. \A i \in 1 .. n : KeepsAt(step[i])
    BY <1>1, <1>2, SettingOne DEF KeepsAt
  <1> HIDE DEF step
  <1>4a. PICK g : StepsFrom(g, c, n, step)
    BY <1>1, <1>3, KeptChain
  <1>4. /\ g = [i \in 0 .. n |-> g[i]] /\ g[0] = c
        /\ \A i \in 1 .. n : g[i] = step[i][g[i - 1]] /\ g[i - 1] \in Contexts
        /\ Kept(c, g[n])
    BY <1>4a DEF StepsFrom
  <1>5. \A i \in 1 .. n : g[i] = SetVariable(g[i - 1], bs[i][1], bs[i][2])
    BY <1>2, <1>4
  <1>6. g = body(g)
    <2>1. \A i \in 0 .. n : i = 0 \/ i \in 1 .. n
      BY <1>1
    <2>2. \A i \in 0 .. n : g[i] = IF i = 0 THEN c ELSE SetVariable(g[i - 1], bs[i][1], bs[i][2])
      BY <1>4, <1>5, <2>1
    <2> QED BY <1>4, <2>2
  <1>7. after = body(after)
    BY <1>6
  <1>8. SetAll(c, bs) = after[n]
    BY DEF SetAll
  <1> HIDE DEF after
  <1>9. after[0] = g[0]
    BY <1>1, <1>4, <1>7
  <1>10. ASSUME NEW i \in 1 .. n, after[i - 1] = g[i - 1] PROVE after[i] = g[i]
    <2>1. i \in 0 .. n /\ i # 0
      BY <1>1
    <2> QED BY <1>5, <1>7, <1>10, <2>1
  <1>11. after[n] = g[n]
    <2> HIDE DEF n, body
    <2> QED BY <1>1, <1>9, <1>10, OnlyChain
  <1> QED BY <1>4, <1>8, <1>11

LEMMA ApplyingBindings ==
  ASSUME GlobalsSound, NEW c \in Contexts, Undone(c), c.level >= 1, NEW bs \in Binds(Values)
  PROVE  Kept(c, ApplyBindings(c, bs))
  <1> DEFINE n == Len(bs)
             set(e, i) == IF VariableScope(e, bs[i][1]) = 0 THEN e
                          ELSE SetVariable(e, bs[i][1], bs[i][2])
             step == [i \in 1 .. n |-> [e \in Contexts |-> set(e, i)]]
             body(h) == [i \in 0 .. n |-> IF i = 0 THEN c
                                          ELSE IF VariableScope(h[i - 1], bs[i][1]) = 0 THEN h[i - 1]
                                          ELSE SetVariable(h[i - 1], bs[i][1], bs[i][2])]
             after == CHOOSE h : h = body(h)
  <1>1. n \in Nat /\ \A i \in 1 .. n : bs[i][1] \in Variables /\ bs[i][2] \in Values
    BY DEF Binds
  <1>2. \A i \in 1 .. n : \A e \in Contexts : step[i][e] = set(e, i)
    OBVIOUS
  <1>3. \A i \in 1 .. n : KeepsAt(step[i])
    BY <1>1, <1>2, SettingOne, KeptFirst DEF KeepsAt
  <1> HIDE DEF step
  <1>4a. PICK g : StepsFrom(g, c, n, step)
    BY <1>1, <1>3, KeptChain
  <1>4. /\ g = [i \in 0 .. n |-> g[i]] /\ g[0] = c
        /\ \A i \in 1 .. n : g[i] = step[i][g[i - 1]] /\ g[i - 1] \in Contexts
        /\ Kept(c, g[n])
    BY <1>4a DEF StepsFrom
  <1>5. \A i \in 1 .. n : g[i] = set(g[i - 1], i)
    BY <1>2, <1>4
  <1>6. g = body(g)
    <2>1. \A i \in 0 .. n : i = 0 \/ i \in 1 .. n
      BY <1>1
    <2>2. \A i \in 0 .. n : g[i] = IF i = 0 THEN c ELSE set(g[i - 1], i)
      BY <1>4, <1>5, <2>1
    <2> QED BY <1>4, <2>2
  <1>7. after = body(after)
    BY <1>6
  <1>8. ApplyBindings(c, bs) = after[n]
    BY DEF ApplyBindings
  <1> HIDE DEF after
  <1>9. after[0] = g[0]
    BY <1>1, <1>4, <1>7
  <1>10. ASSUME NEW i \in 1 .. n, after[i - 1] = g[i - 1] PROVE after[i] = g[i]
    <2>1. i \in 0 .. n /\ i # 0
      BY <1>1
    <2> QED BY <1>5, <1>7, <1>10, <2>1
  <1>11. after[n] = g[n]
    <2> HIDE DEF n, body
    <2> QED BY <1>1, <1>9, <1>10, OnlyChain
  <1> QED BY <1>4, <1>8, <1>11

-----------------------------------------------------------------------------
(* Frames: what is outside of each, the height of the stack, the level and   *)
(* the number of shadowed bindings, follows from the frames below it.        *)

EvalFrames    == {EvalFrame(v, open) : v \in Values, open \in BOOLEAN}
ScopeFrames   == {ScopeFrame(mark) : mark \in Nat}
ComposeFrames == {ComposeFrame(b, open) : b \in Values, open \in BOOLEAN}
ScriptFrames  == [kind : {"script"}, code : Codes(Values), pc : Nat, base : Nat,
                  scope : Nat \cup {NoScope}]
Frames == EvalFrames \cup ScopeFrames \cup ComposeFrames \cup ScriptFrames

Outsides == [height : Nat, level : Nat, mark : Nat]
Bottom   == [height |-> 0, level |-> 0, mark |-> 0]

Scoped(f)   == f.kind \in {"script", "scope"} /\ f.scope # NoScope
HeightIn(f) == IF f.kind = "script" THEN Heights(f.code)[f.pc] ELSE 0

\* x is outside of the frame f, After(f, x) inside of it.
After(f, x) == [height |-> x.height + HeightIn(f),
                level  |-> IF Scoped(f) THEN x.level + 1 ELSE x.level,
                mark   |-> IF Scoped(f) THEN f.scope ELSE x.mark]
Stands(f, x) == /\ f.kind = "script" => f.base = x.height /\ f.pc \in 1 .. Len(f.code) + 1
                /\ Scoped(f) => x.mark <= f.scope /\ (x.level = 0 => f.scope = 0)
\* A frame with others above it is in a scope, and a script that waits for a
\* call has the function that is called on the stack.
Waits(f, y) == y.level >= 1 /\ (f.kind = "script" => HeightIn(f) >= 1)

Fits(fs, o) ==
  /\ o \in [1 .. Len(fs) + 1 -> Outsides] /\ o[1] = Bottom
  /\ \A i \in 1 .. Len(fs) : Stands(fs[i], o[i]) /\ o[i + 1] = After(fs[i], o[i])
  /\ \A i \in 2 .. Len(fs) : Waits(fs[i - 1], o[i])
  /\ \A i \in 1 .. Len(fs) : o[i].height <= o[Len(fs) + 1].height
Reaches(fs, x) == \E o : Fits(fs, o) /\ x = o[Len(fs) + 1]

LEMMA FrameParts ==
  ASSUME NEW f \in Frames
  PROVE  /\ f.kind \in {"eval", "scope", "compose", "script"}
         /\ f.kind = "eval" => f.v \in Values /\ f.open \in BOOLEAN
         /\ f.kind = "scope" => f.scope \in Nat
         /\ f.kind = "compose" => f.b \in Values /\ f.open \in BOOLEAN
         /\ f.kind = "script" => f \in ScriptFrames
  <1>1. CASE f \in EvalFrames
    BY <1>1 DEF EvalFrames, EvalFrame
  <1>2. CASE f \in ScopeFrames
    BY <1>2 DEF ScopeFrames, ScopeFrame
  <1>3. CASE f \in ComposeFrames
    BY <1>3 DEF ComposeFrames, ComposeFrame
  <1>4. CASE f \in ScriptFrames
    BY <1>4 DEF ScriptFrames
  <1> QED BY <1>1, <1>2, <1>3, <1>4 DEF Frames

LEMMA ScriptFrameParts ==
  ASSUME NEW f \in ScriptFrames
  PROVE  /\ f.kind = "script" /\ f.code \in Codes(Values) /\ f.pc \in Nat /\ f.base \in Nat
         /\ f.scope \in Nat \cup {NoScope}
         /\ f \in Frames
  BY DEF ScriptFrames, Frames

\* The code of a script frame has heights.
LEMMA CodeHeights ==
  ASSUME NEW code \in Codes(Values)
  PROVE  /\ Len(code) \in Nat
         /\ Heights(code) \in [1 .. Len(code) + 1 -> Nat]
         /\ Heights(code)[1] = 0 /\ Heights(code)[Len(code) + 1] = 1
  BY DEF Codes, Balanced, HeightsFit

LEMMA AfterType ==
  ASSUME NEW f \in Frames, NEW x \in Outsides, Stands(f, x)
  PROVE  /\ After(f, x) \in Outsides /\ x.height <= After(f, x).height
         /\ HeightIn(f) \in Nat
  <1>1. HeightIn(f) \in Nat
    <2>1. CASE f.kind = "script"
      <3>1. f.code \in Codes(Values) /\ f.pc \in 1 .. Len(f.code) + 1
        BY <2>1, FrameParts, ScriptFrameParts DEF Stands
      <3> QED BY <2>1, <3>1, CodeHeights DEF HeightIn
    <2>2. CASE f.kind # "script"
      BY <2>2 DEF HeightIn
    <2> QED BY <2>1, <2>2
  <1>2. Scoped(f) => f.scope \in Nat
    BY FrameParts, ScriptFrameParts DEF Scoped
  <1> QED BY <1>1, <1>2 DEF After, Outsides

\* With no frames nothing is left.
LEMMA NoFrames ==
  /\ Reaches(<<>>, Bottom)
  /\ \A x : Reaches(<<>>, x) => x = Bottom
  <1> DEFINE o == [i \in 1 .. 1 |-> Bottom]
  <1>1. Fits(<<>>, o)
    BY DEF Fits, Bottom, Outsides
  <1>2. o[1] = Bottom /\ Len(<<>>) + 1 = 1
    OBVIOUS
  <1> HIDE DEF o
  <1> QED BY <1>1, <1>2 DEF Reaches, Fits

\* A frame is added on top.
LEMMA Pushed ==
  ASSUME NEW fs \in Seq(Frames), NEW f \in Frames, NEW x, Reaches(fs, x), Stands(f, x),
         fs # <<>> => Waits(fs[Len(fs)], x)
  PROVE  Reaches(Append(fs, f), After(f, x)) /\ x \in Outsides
  <1> DEFINE n == Len(fs)
             gs == Append(fs, f)
  <1>1. PICK o : Fits(fs, o) /\ x = o[n + 1]
    BY DEF Reaches
  <1>2. n \in Nat
    OBVIOUS
  <1>3. x \in Outsides
    BY <1>1, <1>2 DEF Fits
  <1>4. After(f, x) \in Outsides /\ x.height <= After(f, x).height
    BY <1>3, AfterType
  <1>5. Len(gs) = n + 1 /\ gs[n + 1] = f /\ \A i \in 1 .. n : gs[i] = fs[i]
    BY <1>2
  <1> DEFINE p == [i \in 1 .. n + 2 |-> IF i = n + 2 THEN After(f, x) ELSE o[i]]
  <1>6. /\ p \in [1 .. n + 2 -> Outsides] /\ p[n + 2] = After(f, x)
        /\ \A i \in 1 .. n + 1 : p[i] = o[i]
    BY <1>1, <1>2, <1>4 DEF Fits
  <1> HIDE DEF p, gs
  <1>7. p[1] = Bottom
    BY <1>1, <1>2, <1>6 DEF Fits
  <1>8. ASSUME NEW i \in 1 .. n + 1 PROVE Stands(gs[i], p[i]) /\ p[i + 1] = After(gs[i], p[i])
    <2>1. CASE i = n + 1
      <3>1. p[i] = x /\ gs[i] = f /\ p[i + 1] = After(f, x)
        BY <1>1, <1>2, <1>5, <1>6, <2>1
      <3> QED BY <3>1
    <2>2. CASE i # n + 1
      <3>1. i \in 1 .. n /\ i + 1 \in 1 .. n + 1
        BY <1>2, <2>2
      <3>2. gs[i] = fs[i] /\ p[i] = o[i] /\ p[i + 1] = o[i + 1]
        BY <1>5, <1>6, <3>1
      <3> QED BY <1>1, <3>1, <3>2 DEF Fits
    <2> QED BY <2>1, <2>2
  <1>9. ASSUME NEW i \in 2 .. n + 1 PROVE Waits(gs[i - 1], p[i])
    <2>1. CASE i = n + 1
      <3>1. p[i] = x /\ i - 1 = n /\ gs[i - 1] = fs[n] /\ fs # <<>>
        BY <1>1, <1>2, <1>5, <1>6, <2>1
      <3> QED BY <3>1
    <2>2. CASE i # n + 1
      <3>1. i \in 2 .. n /\ i - 1 \in 1 .. n
        BY <1>2, <2>2
      <3>2. gs[i - 1] = fs[i - 1] /\ p[i] = o[i]
        BY <1>2, <1>5, <1>6, <3>1
      <3> QED BY <1>1, <3>1, <3>2 DEF Fits
    <2> QED BY <2>1, <2>2
  <1>10. ASSUME NEW i \in 1 .. n + 1 PROVE p[i].height <= p[n + 2].height
    <2>1. p[i].height <= x.height
      <3>1. CASE i = n + 1
        <4>1. p[i] = x /\ x.height \in Nat
          BY <1>1, <1>3, <1>6, <3>1 DEF Outsides
        <4> QED BY <4>1
      <3>2. CASE i # n + 1
        <4>1. i \in 1 .. n
          BY <1>2, <3>2
        <4> QED BY <1>1, <1>6, <4>1 DEF Fits
      <3> QED BY <3>1, <3>2
    <2>2. p[i].height \in Nat /\ x.height \in Nat /\ After(f, x).height \in Nat
      <3>1. p[i] \in Outsides
        BY <1>2, <1>6
      <3> QED BY <1>3, <1>4, <3>1 DEF Outsides
    <2> QED BY <1>4, <1>6, <2>1, <2>2
  <1>11. Len(gs) + 1 = n + 2
    BY <1>2, <1>5
  <1>12. Fits(gs, p)
    BY <1>5, <1>6, <1>7, <1>8, <1>9, <1>10, <1>11 DEF Fits
  <1> QED BY <1>3, <1>6, <1>11, <1>12 DEF Reaches, gs

\* The frame on top is taken off.
LEMMA Popped ==
  ASSUME NEW fs \in Seq(Frames), fs # <<>>, NEW x, Reaches(fs, x)
  PROVE  LET top == fs[Len(fs)]
             gs == SubSeq(fs, 1, Len(fs) - 1)
         IN /\ top \in Frames /\ gs \in Seq(Frames)
            /\ fs = Append(gs, top) /\ Len(gs) = Len(fs) - 1
            /\ \E y \in Outsides :
                 /\ Reaches(gs, y) /\ Stands(top, y) /\ x = After(top, y)
                 /\ gs # <<>> => Waits(gs[Len(gs)], y)
  <1> DEFINE n == Len(fs)
             top == fs[n]
             gs == SubSeq(fs, 1, n - 1)
  <1>1. n \in Nat /\ n >= 1 /\ n \in 1 .. n
    OBVIOUS
  <1>2. top \in Frames
    BY <1>1, ElementOfSeq
  <1>3. gs \in Seq(Frames) /\ Len(gs) = n - 1 /\ \A i \in 1 .. n - 1 : gs[i] = fs[i]
    <2>1. \A i \in 1 .. n - 1 : fs[i] \in Frames
      BY <1>1, ElementOfSeq
    <2>2. /\ SubSeq(fs, 1, n - 1) \in Seq(Frames)
          /\ Len(SubSeq(fs, 1, n - 1)) = IF 1 <= n - 1 THEN (n - 1) - 1 + 1 ELSE 0
          /\ \A i \in 1 .. (n - 1) - 1 + 1 : SubSeq(fs, 1, n - 1)[i] = fs[1 + i - 1]
      <3>1. 1 \in Int /\ n - 1 \in Int
        BY <1>1
      <3> HIDE DEF n
      <3> QED BY <2>1, <3>1, SubSeqProperties
    <2> HIDE DEF n
    <2>3. (n - 1) - 1 + 1 = n - 1 /\ \A i \in 1 .. n - 1 : 1 + i - 1 = i
      BY <1>1
    <2> QED BY <1>1, <2>2, <2>3
  <1>4. fs = Append(gs, top)
    <2> HIDE DEF gs, top
    <2>1. /\ Append(gs, top) \in Seq(Frames) /\ Len(Append(gs, top)) = n
          /\ \A i \in 1 .. n : Append(gs, top)[i] = IF i = n THEN top ELSE gs[i]
      BY <1>1, <1>2, <1>3
    <2>2. \A i \in 1 .. n : fs[i] = IF i = n THEN top ELSE gs[i]
      <3>1. \A i \in 1 .. n : i = n \/ i \in 1 .. n - 1
        BY <1>1
      <3> QED BY <1>3, <3>1 DEF top
    <2>3. \A i \in 1 .. n : Append(gs, top)[i] = fs[i]
      BY <2>1, <2>2
    <2> QED BY <2>1, <2>3, SeqEqual
  <1>5. PICK o : Fits(fs, o) /\ x = o[n + 1]
    BY DEF Reaches
  <1> DEFINE y == o[n]
             q == [i \in 1 .. n |-> o[i]]
  <1>6. y \in Outsides /\ Stands(top, y) /\ x = After(top, y)
    BY <1>1, <1>5 DEF Fits
  <1>7. q \in [1 .. n -> Outsides] /\ \A i \in 1 .. n : q[i] = o[i]
    BY <1>1, <1>5 DEF Fits
  <1> HIDE DEF q, gs
  <1>8. \A i \in 1 .. n - 1 : Stands(gs[i], q[i]) /\ q[i + 1] = After(gs[i], q[i])
    <2>1. \A i \in 1 .. n - 1 : i \in 1 .. n /\ i + 1 \in 1 .. n
      BY <1>1
    <2> QED BY <1>3, <1>5, <1>7, <2>1 DEF Fits
  <1>9. \A i \in 2 .. n - 1 : Waits(gs[i - 1], q[i])
    <2>1. \A i \in 2 .. n - 1 : i \in 2 .. n /\ i \in 1 .. n /\ i - 1 \in 1 .. n - 1
      BY <1>1
    <2> QED BY <1>3, <1>5, <1>7, <2>1 DEF Fits
  <1>10. \A i \in 1 .. n - 1 : q[i].height <= q[n].height
    <2> DEFINE U == {i \in 0 .. n - 1 : \A j \in 1 .. i : q[j].height <= q[i + 1].height}
    <2>1. 0 \in U
      BY <1>1
    <2>2. ASSUME NEW i \in 0 .. (n - 1) - 1, i \in U PROVE i + 1 \in U
      <3>1. i + 1 \in 1 .. n - 1 /\ (i + 1) + 1 \in 1 .. n /\ i + 1 \in 0 .. n - 1 /\ i + 1 \in 1 .. n
        BY <1>1
      <3>2. gs[i + 1] \in Frames /\ q[i + 1] \in Outsides /\ q[(i + 1) + 1] \in Outsides
        BY <1>3, <1>7, <3>1
      <3>3. q[i + 1].height <= q[(i + 1) + 1].height
        BY <1>8, <3>1, <3>2, AfterType
      <3>4. ASSUME NEW j \in 1 .. i + 1 PROVE q[j].height <= q[(i + 1) + 1].height
        <4>1. j = i + 1 \/ j \in 1 .. i
          BY <1>1
        <4>2. q[j].height <= q[i + 1].height \/ j = i + 1
          BY <2>2, <4>1
        <4>3. j \in 1 .. n
          BY <1>1
        <4>4. q[j].height \in Nat /\ q[i + 1].height \in Nat /\ q[(i + 1) + 1].height \in Nat
          BY <1>7, <3>2, <4>3 DEF Outsides
        <4> QED BY <3>3, <4>2, <4>4
      <3> QED BY <3>1, <3>4
    <2>3. n - 1 \in U
      <3>1. n - 1 \in Nat /\ n - 1 \in 0 .. n - 1
        BY <1>1
      <3> HIDE DEF U
      <3>2. 0 .. n - 1 \subseteq U
        BY <2>1, <2>2, <3>1, UpTo
      <3> QED BY <3>1, <3>2
    <2>4. (n - 1) + 1 = n
      BY <1>1
    <2> QED BY <2>3, <2>4
  <1>11. Len(gs) + 1 = n /\ q[1] = Bottom
    BY <1>1, <1>3, <1>5, <1>7 DEF Fits
  <1>12. Fits(gs, q)
    BY <1>3, <1>7, <1>8, <1>9, <1>10, <1>11 DEF Fits
  <1>13. Reaches(gs, y)
    BY <1>1, <1>7, <1>11, <1>12 DEF Reaches
  <1>14. gs # <<>> => Waits(gs[Len(gs)], y)
    <2> SUFFICES ASSUME gs # <<>> PROVE Waits(gs[Len(gs)], y)
      OBVIOUS
    <2>1. n \in 2 .. n /\ n - 1 \in 1 .. n - 1
      BY <1>1, <1>3
    <2> QED BY <1>3, <1>5, <2>1 DEF Fits
  <1> QED BY <1>2, <1>3, <1>4, <1>6, <1>13, <1>14 DEF gs

\* Frames other than a script that are put on top.
LEMMA PushedEval ==
  ASSUME NEW fs \in Seq(Frames), NEW x, Reaches(fs, x), NEW v \in Values, NEW open \in BOOLEAN,
         fs # <<>> => Waits(fs[Len(fs)], x)
  PROVE  /\ EvalFrame(v, open) \in Frames
         /\ Reaches(Append(fs, EvalFrame(v, open)), x)
  <1> DEFINE f == EvalFrame(v, open)
  <1>1. f \in Frames /\ f.kind = "eval"
    BY DEF EvalFrame, EvalFrames, Frames
  <1> HIDE DEF f
  <1>2. Stands(f, x) /\ ~Scoped(f) /\ HeightIn(f) = 0
    BY <1>1 DEF Stands, Scoped, HeightIn
  <1>3. Reaches(Append(fs, f), After(f, x)) /\ x \in Outsides
    BY <1>1, <1>2, Pushed
  <1>4. After(f, x) = x
    BY <1>2, <1>3 DEF After, Outsides
  <1> QED BY <1>1, <1>3, <1>4 DEF f

LEMMA PushedCompose ==
  ASSUME NEW fs \in Seq(Frames), NEW x, Reaches(fs, x), NEW b \in Values, NEW open \in BOOLEAN,
         fs # <<>> => Waits(fs[Len(fs)], x)
  PROVE  /\ ComposeFrame(b, open) \in Frames
         /\ Reaches(Append(fs, ComposeFrame(b, open)), x)
         /\ x.level >= 1 => Waits(ComposeFrame(b, open), x)
  <1> DEFINE f == ComposeFrame(b, open)
  <1>1. f \in Frames /\ f.kind = "compose"
    BY DEF ComposeFrame, ComposeFrames, Frames
  <1> HIDE DEF f
  <1>2. Stands(f, x) /\ ~Scoped(f) /\ HeightIn(f) = 0
    BY <1>1 DEF Stands, Scoped, HeightIn
  <1>3. Reaches(Append(fs, f), After(f, x)) /\ x \in Outsides
    BY <1>1, <1>2, Pushed
  <1>4. After(f, x) = x
    BY <1>2, <1>3 DEF After, Outsides
  <1> QED BY <1>1, <1>3, <1>4 DEF f, Waits

LEMMA PushedScope ==
  ASSUME NEW fs \in Seq(Frames), NEW x, Reaches(fs, x), NEW mark \in Nat,
         x.mark <= mark, x.level = 0 => mark = 0,
         fs # <<>> => Waits(fs[Len(fs)], x)
  PROVE  LET y == [height |-> x.height, level |-> x.level + 1, mark |-> mark] IN
         /\ ScopeFrame(mark) \in Frames
         /\ Reaches(Append(fs, ScopeFrame(mark)), y)
         /\ Waits(ScopeFrame(mark), y)
  <1> DEFINE f == ScopeFrame(mark)
             y == [height |-> x.height, level |-> x.level + 1, mark |-> mark]
  <1>1. f \in Frames /\ f.kind = "scope" /\ f.scope = mark
    BY DEF ScopeFrame, ScopeFrames, Frames
  <1> HIDE DEF f
  <1>2. Stands(f, x) /\ Scoped(f) /\ HeightIn(f) = 0
    BY <1>1 DEF Stands, Scoped, HeightIn, NoScope
  <1>3. Reaches(Append(fs, f), After(f, x)) /\ x \in Outsides
    BY <1>1, <1>2, Pushed
  <1>4. After(f, x) = y
    BY <1>1, <1>2, <1>3 DEF After, Outsides
  <1>5. Waits(f, y)
    BY <1>1, <1>3 DEF Waits, Outsides
  <1> QED BY <1>1, <1>3, <1>4, <1>5 DEF f

-----------------------------------------------------------------------------
(* The invariant of the machine.                                             *)

Statuses == {"running", "returning", "throwing", "done", "failed"}

Outside(c, fs, x) == /\ Reaches(fs, x)
                     /\ x.height = Len(c.stack) /\ x.level = c.level
                     /\ x.mark <= Len(c.shadowed)

\* Only before the first script has its scope is there no scope.
Unscoped(fs, st) ==
  \/ fs = <<>>
  \/ Len(fs) = 1 /\ fs[1].kind = "eval" /\ fs[1].v.t = "fun" /\ fs[1].open /\ st # "returning"

Sound(w, c, fs, st, r) ==
  /\ w \in Worlds /\ c \in Contexts /\ Undone(c) /\ fs \in Seq(Frames)
  /\ st \in Statuses /\ r \in Values
  /\ \E x : Outside(c, fs, x) /\ (st = "returning" /\ fs # <<>> => Waits(fs[Len(fs)], x))
  /\ c.level = 0 => c.shadowed = <<>> /\ Unscoped(fs, st)
  /\ st \in {"done", "failed"} => fs = <<>>

MachineInv == Sound(world, ctx, frames, status, result)

\* The scripts, the members of objects and the variables are values.
ProgramsSound == \A p \in Programs : Func(p.code) \in Values
WorldsSound   == \A w \in Worlds : \A o \in Objects : \A name \in DOMAIN w[o] : w[o][name] \in Values

LEMMA InitSound ==
  ASSUME GlobalsSound, ProgramsSound, Init
  PROVE  MachineInv
  <1>1. PICK p \in Programs : InitWith(p)
    BY DEF Init
  <1> DEFINE f == EvalFrame(Func(p.code), TRUE)
  <1>2. Func(p.code) \in Values /\ Func(p.code).t = "fun"
    BY <1>1 DEF ProgramsSound, Func
  <1>3. frames = <<f>> /\ ctx = InitialContext /\ world \in Worlds /\ status = "running"
        /\ result = Unset
    BY <1>1 DEF InitWith
  <1>4. <<>> \in Seq(Frames) /\ Reaches(<<>>, Bottom) /\ Append(<<>>, f) = <<f>>
    BY NoFrames
  <1>5. f \in Frames /\ Reaches(<<f>>, Bottom)
    <2> HIDE DEF f
    <2>1. EvalFrame(Func(p.code), TRUE) \in Frames
          /\ Reaches(Append(<<>>, EvalFrame(Func(p.code), TRUE)), Bottom)
      BY <1>2, <1>4, PushedEval
    <2> QED BY <1>4, <2>1 DEF f
  <1>6. f.kind = "eval" /\ f.v = Func(p.code) /\ f.open
    BY DEF EvalFrame
  <1> HIDE DEF f
  <1>7. /\ ctx \in Contexts /\ Undone(ctx) /\ ctx.stack = <<>> /\ ctx.shadowed = <<>>
        /\ ctx.level = 0
    BY <1>3, Initially
  <1>8. Outside(ctx, frames, Bottom)
    BY <1>3, <1>5, <1>7 DEF Outside, Bottom
  <1>9. frames \in Seq(Frames) /\ Len(frames) = 1 /\ frames[1] = f
    BY <1>3, <1>5
  <1>10. Unscoped(frames, status)
    BY <1>2, <1>3, <1>6, <1>9 DEF Unscoped
  <1>11. result \in Values
    BY <1>3, SimpleValues
  <1> QED BY <1>3, <1>7, <1>8, <1>9, <1>10, <1>11 DEF MachineInv, Sound, Statuses

\* What the frame on top knows of the context.
LEMMA OnTop ==
  ASSUME MachineInv, frames # <<>>
  PROVE  /\ Frame \in Frames /\ Outer \in Seq(Frames) /\ frames = Append(Outer, Frame)
         /\ Len(Outer) = Len(frames) - 1
         /\ \E y \in Outsides :
              /\ Reaches(Outer, y) /\ Stands(Frame, y)
              /\ Outer # <<>> => Waits(Outer[Len(Outer)], y)
              /\ Len(ctx.stack) = y.height + HeightIn(Frame)
              /\ Scoped(Frame) => ctx.level = y.level + 1 /\ Frame.scope <= Len(ctx.shadowed)
              /\ ~Scoped(Frame) => ctx.level = y.level /\ y.mark <= Len(ctx.shadowed)
              /\ status = "returning" => Waits(Frame, After(Frame, y))
  <1>1. PICK x : Outside(ctx, frames, x) /\ (status = "returning" => Waits(Frame, x))
    BY DEF MachineInv, Sound, Frame
  <1>2. frames \in Seq(Frames) /\ Reaches(frames, x)
    BY <1>1 DEF MachineInv, Sound, Outside
  <1>3. /\ Frame \in Frames /\ Outer \in Seq(Frames) /\ frames = Append(Outer, Frame)
        /\ Len(Outer) = Len(frames) - 1
        /\ \E y \in Outsides :
             /\ Reaches(Outer, y) /\ Stands(Frame, y) /\ x = After(Frame, y)
             /\ Outer # <<>> => Waits(Outer[Len(Outer)], y)
    BY <1>2, Popped DEF Frame, Outer
  <1>4. PICK y \in Outsides : /\ Reaches(Outer, y) /\ Stands(Frame, y) /\ x = After(Frame, y)
                              /\ Outer # <<>> => Waits(Outer[Len(Outer)], y)
    BY <1>3
  <1>5. /\ Len(ctx.stack) = y.height + HeightIn(Frame)
        /\ Scoped(Frame) => ctx.level = y.level + 1 /\ Frame.scope <= Len(ctx.shadowed)
        /\ ~Scoped(Frame) => ctx.level = y.level /\ y.mark <= Len(ctx.shadowed)
    BY <1>1, <1>4 DEF Outside, After
  <1>6. status = "returning" => Waits(Frame, After(Frame, y))
    BY <1>1, <1>4
  <1> QED BY <1>3, <1>4, <1>5, <1>6

-----------------------------------------------------------------------------
(* Changes of the stack alone.                                               *)

SameScopes(c, d) == /\ d \in Contexts
                    /\ d.vars = c.vars /\ d.shadowed = c.shadowed /\ d.level = c.level

LEMMA StackOnly ==
  ASSUME NEW c \in Contexts, NEW s \in Seq(Values), NEW d, d = [c EXCEPT !.stack = s]
  PROVE  SameScopes(c, d) /\ d.stack = s
  BY DEF SameScopes, Contexts

LEMMA StillUndone ==
  ASSUME NEW c \in Contexts, Undone(c), NEW d, SameScopes(c, d)
  PROVE  Undone(d)
  BY DEF SameScopes, Undone

LEMMA SameTwice ==
  ASSUME NEW c, NEW d, NEW e, SameScopes(c, d), SameScopes(d, e)
  PROVE  SameScopes(c, e)
  BY DEF SameScopes

LEMMA Reading ==
  ASSUME NEW c \in Contexts, NEW n \in 0 .. Len(c.stack) - 1
  PROVE  Nth(c, n) \in Values /\ Top(c) \in Values
  <1>1. c.stack \in Seq(Values) /\ Len(c.stack) \in Nat
    BY DEF Contexts
  <1>2. Len(c.stack) - n \in 1 .. Len(c.stack) /\ Len(c.stack) \in 1 .. Len(c.stack)
    BY <1>1
  <1> QED BY <1>1, <1>2, ElementOfSeq DEF Nth, Top

LEMMA Pushing ==
  ASSUME NEW c \in Contexts, NEW v \in Values
  PROVE  /\ SameScopes(c, PushValue(c, v))
         /\ Len(PushValue(c, v).stack) = Len(c.stack) + 1
  <1>1. c.stack \in Seq(Values)
    BY DEF Contexts
  <1>2. Append(c.stack, v) \in Seq(Values) /\ Len(Append(c.stack, v)) = Len(c.stack) + 1
    BY <1>1
  <1> QED BY <1>2, StackOnly DEF PushValue

LEMMA Popping ==
  ASSUME NEW c \in Contexts, NEW n \in 0 .. Len(c.stack)
  PROVE  /\ SameScopes(c, PopValues(c, n))
         /\ PopValues(c, n).stack = SubSeq(c.stack, 1, Len(c.stack) - n)
         /\ Len(PopValues(c, n).stack) = Len(c.stack) - n
  <1> DEFINE k == Len(c.stack)
             s == SubSeq(c.stack, 1, k - n)
  <1>1. c.stack \in Seq(Values) /\ k \in Nat
    BY DEF Contexts
  <1>2. \A i \in 1 .. k - n : c.stack[i] \in Values
    <2>1. \A i \in 1 .. k - n : i \in 1 .. k
      BY <1>1
    <2> QED BY <1>1, <2>1, ElementOfSeq
  <1>3. s \in Seq(Values) /\ Len(s) = k - n
    <2>1. 1 \in 1 .. k + 1 /\ k - n \in 0 .. k
      BY <1>1
    <2> QED BY <1>1, <1>2, <2>1, SubSeqProperties
  <1>4. PopValues(c, n) = [c EXCEPT !.stack = s]
    BY DEF PopValues
  <1> HIDE DEF s
  <1>5. SameScopes(c, PopValues(c, n)) /\ PopValues(c, n).stack = s
    BY <1>3, <1>4, StackOnly
  <1> QED BY <1>3, <1>5 DEF s

LEMMA Replacing ==
  ASSUME NEW c \in Contexts, NEW n \in 0 .. Len(c.stack), NEW v \in Values
  PROVE  /\ SameScopes(c, Replace(c, n, v))
         /\ Len(Replace(c, n, v).stack) = Len(c.stack) - n + 1
  <1> DEFINE d == PopValues(c, n)
  <1>1. SameScopes(c, d) /\ Len(d.stack) = Len(c.stack) - n
    BY Popping
  <1> HIDE DEF d
  <1>2. d \in Contexts
    BY <1>1 DEF SameScopes
  <1>3. SameScopes(d, PushValue(d, v)) /\ Len(PushValue(d, v).stack) = Len(d.stack) + 1
    BY <1>2, Pushing
  <1> QED BY <1>1, <1>3, SameTwice DEF Replace, d

-----------------------------------------------------------------------------
(* A script that goes on.                                                    *)

\* How many values there are before the instruction at pc.
Depth(pc) == Frame.base + Heights(Frame.code)[pc]

LEMMA ScriptOnTop ==
  ASSUME MachineInv, frames # <<>>, Frame.kind = "script"
  PROVE  /\ Frame \in ScriptFrames /\ Frame.code \in Codes(Values)
         /\ Len(Frame.code) \in Nat /\ Frame.pc \in 1 .. Len(Frame.code) + 1
         /\ Frame.base \in Nat /\ Heights(Frame.code) \in [1 .. Len(Frame.code) + 1 -> Nat]
         /\ Len(ctx.stack) = Depth(Frame.pc)
         /\ ctx \in Contexts /\ Undone(ctx) /\ ctx.level \in Nat /\ ctx.level >= 1
         /\ world \in Worlds /\ result \in Values
  <1>1. PICK y \in Outsides : Stands(Frame, y) /\ Len(ctx.stack) = y.height + HeightIn(Frame)
    BY OnTop
  <1>2. Frame \in ScriptFrames
    BY OnTop, FrameParts
  <1>3. /\ Frame.code \in Codes(Values) /\ Frame.pc \in 1 .. Len(Frame.code) + 1
        /\ Frame.base = y.height /\ Frame.base \in Nat
    BY <1>1, <1>2, ScriptFrameParts DEF Stands
  <1>4. Len(ctx.stack) = Depth(Frame.pc)
    BY <1>1, <1>3 DEF HeightIn, Depth
  <1>5. ctx \in Contexts /\ Undone(ctx) /\ ctx.level \in Nat /\ world \in Worlds /\ result \in Values
    BY DEF MachineInv, Sound, Contexts
  <1>6. ctx.level # 0
    <2> SUFFICES ASSUME ctx.level = 0 PROVE FALSE
      OBVIOUS
    <2>1. Unscoped(frames, status)
      BY DEF MachineInv, Sound
    <2>2. Frame.kind = "eval"
      BY <2>1 DEF Unscoped, Frame
    <2> QED BY <2>2
  <1> QED BY <1>2, <1>3, <1>4, <1>5, <1>6, CodeHeights

\* It is one that may have been anywhere in its code, with as much on the stack.
LEMMA Moved ==
  ASSUME MachineInv, frames # <<>>, Frame.kind = "script",
         NEW c \in Contexts, c.level = ctx.level, Len(ctx.shadowed) <= Len(c.shadowed),
         NEW pc \in 1 .. Len(Frame.code) + 1, Len(c.stack) = Depth(pc)
  PROVE  LET f == [Frame EXCEPT !.pc = pc] IN
         /\ f \in Frames /\ Append(Outer, f) \in Seq(Frames)
         /\ [frames EXCEPT ![Len(frames)].pc = pc] = Append(Outer, f)
         /\ \E x : /\ Outside(c, Append(Outer, f), x)
                   /\ Heights(Frame.code)[pc] >= 1 => Waits(f, x)
  <1> DEFINE f == [Frame EXCEPT !.pc = pc]
             n == Len(frames)
  <1>1. PICK y \in Outsides :
          /\ Reaches(Outer, y) /\ Stands(Frame, y)
          /\ Outer # <<>> => Waits(Outer[Len(Outer)], y)
          /\ Scoped(Frame) => ctx.level = y.level + 1 /\ Frame.scope <= Len(ctx.shadowed)
          /\ ~Scoped(Frame) => ctx.level = y.level /\ y.mark <= Len(ctx.shadowed)
    BY OnTop
  <1>2. /\ Outer \in Seq(Frames) /\ frames = Append(Outer, Frame) /\ Len(Outer) = n - 1
        /\ frames \in Seq(Frames) /\ n \in Nat
    BY OnTop DEF MachineInv, Sound
  <1>3. /\ Frame \in ScriptFrames /\ Frame.base \in Nat /\ Len(Frame.code) \in Nat
        /\ Heights(Frame.code)[pc] \in Nat /\ ctx.level \in Nat /\ ctx.level >= 1
        /\ ctx \in Contexts
    BY ScriptOnTop
  <1>4. /\ f \in ScriptFrames /\ f.pc = pc /\ f.kind = "script" /\ f.code = Frame.code
        /\ f.base = Frame.base /\ f.scope = Frame.scope
    BY <1>3 DEF ScriptFrames
  <1>5. [frames EXCEPT ![n].pc = pc] = Append(Outer, f)
    <2> HIDE DEF f
    <2>1. [frames EXCEPT ![n].pc = pc] = [frames EXCEPT ![n] = f]
      BY DEF f, Frame
    <2>2. n \in 1 .. n /\ f \in Frames /\ Frame \in Frames
      BY <1>2, <1>4, <1>3, ScriptFrameParts
    <2>3. /\ [frames EXCEPT ![n] = f] \in Seq(Frames) /\ Len([frames EXCEPT ![n] = f]) = n
          /\ \A i \in 1 .. n : [frames EXCEPT ![n] = f][i] = IF i = n THEN f ELSE frames[i]
      <3> DEFINE T == Frames
      <3>1. frames \in Seq(T) /\ n \in 1 .. Len(frames) /\ f \in T
        BY <1>2, <2>2
      <3> HIDE DEF T
      <3>2. /\ [frames EXCEPT ![n] = f] \in Seq(T)
            /\ Len([frames EXCEPT ![n] = f]) = Len(frames)
            /\ \A i \in 1 .. Len(frames) :
                 [frames EXCEPT ![n] = f][i] = IF i = n THEN f ELSE frames[i]
        BY <3>1, ExceptSeq
      <3> QED BY <3>2 DEF T
    <2>4. /\ Append(Outer, f) \in Seq(Frames) /\ Len(Append(Outer, f)) = n
          /\ \A i \in 1 .. n : Append(Outer, f)[i] = IF i = n THEN f ELSE Outer[i]
      <3>1. Outer \in Seq(Frames) /\ f \in Frames /\ Len(Outer) = n - 1 /\ n \in Nat
        BY <1>2, <2>2
      <3> HIDE DEF n
      <3> QED BY <3>1
    <2>5. \A i \in 1 .. n : i # n => frames[i] = Outer[i]
      <3>1. /\ Outer \in Seq(Frames) /\ Frame \in Frames /\ Len(Outer) = n - 1
            /\ frames = Append(Outer, Frame) /\ n \in Nat
        BY <1>2, <2>2
      <3> HIDE DEF n
      <3> QED BY <3>1
    <2> DEFINE g == [frames EXCEPT ![n] = f]
    <2>6. \A i \in 1 .. Len(g) : g[i] = Append(Outer, f)[i]
      <3> HIDE DEF n
      <3> QED BY <2>3, <2>4, <2>5
    <2>7. g \in Seq(Frames) /\ Len(g) = Len(Append(Outer, f))
      BY <2>3, <2>4
    <2> HIDE DEF g
    <2>8. g = Append(Outer, f)
      BY <2>4, <2>6, <2>7, SeqEqual
    <2> QED BY <2>1, <2>8 DEF g
  <1> HIDE DEF f
  <1>6. f \in Frames /\ Append(Outer, f) \in Seq(Frames)
    BY <1>2, <1>4, ScriptFrameParts
  <1>7. Stands(f, y) /\ (Scoped(f) <=> Scoped(Frame)) /\ HeightIn(f) = Heights(Frame.code)[pc]
        /\ Frame.base = y.height
    BY <1>1, <1>3, <1>4 DEF Stands, Scoped, HeightIn, ScriptFrames
  <1> DEFINE x == After(f, y)
  <1>8. Reaches(Append(Outer, f), x)
    BY <1>1, <1>2, <1>6, <1>7, Pushed
  <1>9. x.height = Len(c.stack)
    BY <1>7 DEF After, Depth
  <1>10. x.level = c.level /\ x.mark <= Len(c.shadowed)
    <2>1. Len(ctx.shadowed) \in Nat /\ Len(c.shadowed) \in Nat
      BY <1>3 DEF Contexts
    <2>2. CASE Scoped(f)
      <3>1. Frame.scope \in Nat
        BY <1>3, <1>4, <2>2 DEF ScriptFrames, Scoped
      <3> QED BY <1>1, <1>4, <1>7, <2>1, <2>2, <3>1 DEF After
    <2>3. CASE ~Scoped(f)
      BY <1>1, <1>4, <1>7, <2>1, <2>3 DEF After, Outsides
    <2> QED BY <2>2, <2>3
  <1>11. Outside(c, Append(Outer, f), x)
    BY <1>8, <1>9, <1>10 DEF Outside
  <1>12. Heights(Frame.code)[pc] >= 1 => Waits(f, x)
    BY <1>3, <1>7, <1>10 DEF Waits
  <1> HIDE DEF x
  <1> QED BY <1>5, <1>6, <1>11, <1>12 DEF f

\* The script continues at pc, with the context c.
LEMMA Continues ==
  ASSUME MachineInv, InScript,
         NEW c, c \in Contexts, Undone(c), c.level = ctx.level,
         Len(ctx.shadowed) <= Len(c.shadowed),
         NEW pc, pc \in 1 .. Len(Frame.code) + 1, Len(c.stack) = Depth(pc),
         Continue(c, pc)
  PROVE  MachineInv'
  <1> DEFINE f == [Frame EXCEPT !.pc = pc]
             fs == Append(Outer, f)
  <1>1. frames # <<>> /\ Frame.kind = "script" /\ status = "running"
    BY DEF InScript
  <1>2. /\ fs \in Seq(Frames) /\ [frames EXCEPT ![Len(frames)].pc = pc] = fs
        /\ \E x : Outside(c, fs, x)
    BY <1>1, Moved
  <1> HIDE DEF fs
  <1>3. /\ ctx' = c /\ frames' = fs /\ world' = world /\ status' = "running" /\ result' = result
    BY <1>1, <1>2 DEF Continue
  <1>4. c.level # 0 /\ world \in Worlds /\ result \in Values
    BY <1>1, ScriptOnTop
  <1> QED BY <1>2, <1>3, <1>4 DEF MachineInv, Sound, Statuses

\* What the instruction to be executed finds, and what it has to leave.
Known == Jumps \cup BinaryOps \cup {"PUSH_CONST", "POP", "GET_VAR", "SET_VAR", "MEMBER_C",
                                    "ITERATOR_C", "MAKE_OBJECT", "CLOSURE", "NOT", "CALL"}

LEMMA Instructions ==
  ASSUME MachineInv, NEW op \in Known, Running(op)
  PROVE  LET i == Frame.code[Frame.pc]
             n == Len(ctx.stack)
             m == n - Takes(i)
         IN /\ InScript /\ i.op = op /\ Arg = i.arg
            /\ HasArgument(i) /\ (op = "PUSH_CONST" => Arg \in Values)
            /\ n \in Nat /\ Takes(i) \in 0 .. n /\ m \in Nat /\ Frame.base <= m
            /\ op # "JUMP" => /\ Frame.pc + 1 \in 1 .. Len(Frame.code) + 1
                              /\ Depth(Frame.pc + 1) = m + Leaves(i)
            /\ op \in Jumps => /\ Arg \in 1 .. Len(Frame.code) + 1
                               /\ Depth(Arg) = m + LeavesThere(i)
  <1> DEFINE i == Frame.code[Frame.pc]
             h == Heights(Frame.code)
             n == Len(ctx.stack)
  <1>1. InScript /\ i.op = op /\ Arg = i.arg /\ Frame.pc <= Len(Frame.code)
    BY DEF Running, Arg
  <1>2. /\ Frame.code \in Codes(Values) /\ Frame.pc \in 1 .. Len(Frame.code)
        /\ Len(Frame.code) \in Nat /\ h[Frame.pc] \in Nat /\ n = Frame.base + h[Frame.pc]
        /\ Frame.base \in Nat
    BY <1>1, ScriptOnTop DEF InScript, Depth
  <1>3. HeightsFit(Frame.code, h)
        /\ \A pc \in 1 .. Len(Frame.code) :
             Frame.code[pc].op = "PUSH_CONST" => Frame.code[pc].arg \in Values
    BY <1>2 DEF Codes, Balanced
  <1> HIDE DEF h
  <1>4. /\ HasArgument(i) /\ h[Frame.pc] >= Takes(i)
        /\ i.op # "JUMP" => h[Frame.pc + 1] = h[Frame.pc] - Takes(i) + Leaves(i)
        /\ i.op \in Jumps => /\ i.arg \in 1 .. Len(Frame.code) + 1
                             /\ h[i.arg] = h[Frame.pc] - Takes(i) + LeavesThere(i)
    BY <1>2, <1>3 DEF HeightsFit
  <1>5. op = "PUSH_CONST" => Arg \in Values
    BY <1>1, <1>2, <1>3
  <1> HIDE DEF i
  <1>6. Takes(i) \in Nat
    <2>1. CASE op \in {"PUSH_CONST", "GET_VAR", "JUMP"}
      BY <1>1, <2>1 DEF Takes
    <2>2. CASE op \in {"POP", "SET_VAR", "MEMBER_C", "ITERATOR_C", "NOT",
                       "JUMP_IF_NOT", "JUMP_SC_AND", "JUMP_SC_OR"}
      BY <1>1, <2>2 DEF Takes
    <2>3. CASE op \in BinaryOps \cup {"LOOP"}
      BY <1>1, <2>3 DEF Takes, BinaryOps
    <2>4. CASE op = "MAKE_OBJECT"
      <3>1. i.arg \in Nat /\ Takes(i) = 2 * i.arg
        BY <1>1, <1>4, <2>4 DEF Takes, HasArgument, BinaryOps
      <3> QED BY <3>1
    <2>5. CASE op \in {"CALL", "CLOSURE"}
      <3>1. i.arg \in Seq(Variables) /\ Takes(i) = Len(i.arg) + 1
        BY <1>1, <1>4, <2>5 DEF Takes, HasArgument, BinaryOps
      <3> QED BY <3>1
    <2> QED BY <2>1, <2>2, <2>3, <2>4, <2>5 DEF Known, Jumps
  <1>7. Leaves(i) \in Nat /\ LeavesThere(i) \in Nat
    BY DEF Leaves, LeavesThere
  <1>8. n \in Nat /\ Takes(i) \in 0 .. n /\ n - Takes(i) \in Nat /\ Frame.base <= n - Takes(i)
    BY <1>2, <1>4, <1>6
  <1>9. op # "JUMP" => /\ Frame.pc + 1 \in 1 .. Len(Frame.code) + 1
                       /\ Depth(Frame.pc + 1) = n - Takes(i) + Leaves(i)
    <2>1. Depth(Frame.pc + 1) = Frame.base + h[Frame.pc + 1]
      BY DEF Depth, h
    <2> DEFINE k == Len(Frame.code)
               q == Frame.pc
    <2>2. k \in Nat /\ q \in 1 .. k /\ q + 1 \in 1 .. k + 1
      BY <1>2
    <2> QED BY <1>1, <1>2, <1>4, <1>6, <1>7, <2>1, <2>2
  <1>10. op \in Jumps => /\ Arg \in 1 .. Len(Frame.code) + 1
                         /\ Depth(Arg) = n - Takes(i) + LeavesThere(i)
    <2>1. Depth(Arg) = Frame.base + h[Arg]
      BY DEF Depth, h
    <2> QED BY <1>1, <1>2, <1>4, <1>6, <1>7, <2>1
  <1> QED BY <1>1, <1>4, <1>5, <1>8, <1>9, <1>10 DEF i

\* An exception is thrown by an instruction, or by what starts a value.
LEMMA Throwing ==
  ASSUME MachineInv, Throw
  PROVE  MachineInv'
  <1>1. /\ status' = "throwing" /\ world' = world /\ ctx' = ctx /\ frames' = frames
        /\ result' = result
    BY DEF Throw
  <1>2. /\ world \in Worlds /\ ctx \in Contexts /\ Undone(ctx) /\ frames \in Seq(Frames)
        /\ result \in Values /\ \E x : Outside(ctx, frames, x)
        /\ ctx.level = 0 => ctx.shadowed = <<>> /\ Unscoped(frames, status)
    BY DEF MachineInv, Sound
  <1>3. Unscoped(frames, status) => Unscoped(frames, "throwing")
    BY DEF Unscoped
  <1> QED BY <1>1, <1>2, <1>3 DEF MachineInv, Sound, Statuses

\* An instruction that changes nothing but the stack.
LEMMA StackStep ==
  ASSUME MachineInv, InScript, NEW c, SameScopes(ctx, c),
         NEW pc, pc \in 1 .. Len(Frame.code) + 1, Len(c.stack) = Depth(pc), Continue(c, pc)
  PROVE  MachineInv'
  <1>1. ctx \in Contexts /\ Undone(ctx)
    BY ScriptOnTop DEF InScript
  <1>2. Undone(c)
    BY <1>1, StillUndone
  <1>3. c \in Contexts /\ c.level = ctx.level /\ Len(ctx.shadowed) <= Len(c.shadowed)
    <2>1. Len(ctx.shadowed) \in Nat
      BY <1>1 DEF Contexts
    <2> QED BY <2>1 DEF SameScopes
  <1> QED BY <1>2, <1>3, Continues

-----------------------------------------------------------------------------
(* The instructions.                                                         *)

LEMMA PushStep ==
  ASSUME MachineInv, Push
  PROVE  MachineInv'
  <1> DEFINE i == Frame.code[Frame.pc]
             c == PushValue(ctx, Arg)
  <1>1. Running("PUSH_CONST") /\ "PUSH_CONST" \in Known /\ Continue(c, Frame.pc + 1)
    BY DEF Push, Step, Known
  <1>2. /\ InScript /\ i.op = "PUSH_CONST" /\ Arg \in Values /\ Len(ctx.stack) \in Nat
        /\ Frame.pc + 1 \in 1 .. Len(Frame.code) + 1
        /\ Depth(Frame.pc + 1) = Len(ctx.stack) - Takes(i) + Leaves(i)
    BY <1>1, Instructions
  <1>3. Takes(i) = 0 /\ Leaves(i) = 1
    BY <1>2 DEF Takes, Leaves, BinaryOps
  <1>4. SameScopes(ctx, c) /\ Len(c.stack) = Len(ctx.stack) + 1
    BY <1>2, ScriptOnTop, Pushing DEF InScript
  <1> HIDE DEF c, i
  <1> QED BY <1>1, <1>2, <1>3, <1>4, StackStep

LEMMA PopTopStep ==
  ASSUME MachineInv, PopTop
  PROVE  MachineInv'
  <1> DEFINE i == Frame.code[Frame.pc]
             c == PopValues(ctx, 1)
  <1>1. Running("POP") /\ "POP" \in Known /\ Continue(c, Frame.pc + 1)
    BY DEF PopTop, Step, Known
  <1>2. /\ InScript /\ i.op = "POP" /\ Len(ctx.stack) \in Nat /\ Takes(i) \in 0 .. Len(ctx.stack)
        /\ Frame.pc + 1 \in 1 .. Len(Frame.code) + 1
        /\ Depth(Frame.pc + 1) = Len(ctx.stack) - Takes(i) + Leaves(i)
    BY <1>1, Instructions
  <1>3. Takes(i) = 1 /\ Leaves(i) = 0
    BY <1>2 DEF Takes, Leaves, BinaryOps
  <1>4. SameScopes(ctx, c) /\ Len(c.stack) = Len(ctx.stack) - 1
    BY <1>2, <1>3, ScriptOnTop, Popping DEF InScript
  <1> HIDE DEF c, i
  <1> QED BY <1>1, <1>2, <1>3, <1>4, StackStep

LEMMA JumpStep ==
  ASSUME MachineInv, Jump
  PROVE  MachineInv'
  <1> DEFINE i == Frame.code[Frame.pc]
  <1>1. Running("JUMP") /\ "JUMP" \in Known /\ "JUMP" \in Jumps /\ Continue(ctx, Arg)
    BY DEF Jump, Known, Jumps
  <1>2. /\ InScript /\ i.op = "JUMP" /\ Len(ctx.stack) \in Nat
        /\ Arg \in 1 .. Len(Frame.code) + 1
        /\ Depth(Arg) = Len(ctx.stack) - Takes(i) + LeavesThere(i)
    BY <1>1, Instructions
  <1>3. Takes(i) = 0 /\ LeavesThere(i) = 0
    BY <1>2 DEF Takes, LeavesThere, BinaryOps
  <1>4. SameScopes(ctx, ctx)
    BY <1>2, ScriptOnTop DEF SameScopes, InScript
  <1> HIDE DEF i
  <1> QED BY <1>1, <1>2, <1>3, <1>4, StackStep

LEMMA JumpIfNotStep ==
  ASSUME MachineInv, JumpIfNot
  PROVE  MachineInv'
  <1> DEFINE i == Frame.code[Frame.pc]
             c == PopValues(ctx, 1)
             pc == IF ToBool(Top(ctx)) THEN Frame.pc + 1 ELSE Arg
  <1>1. CASE Throw
    BY <1>1, Throwing
  <1>2. CASE ~Throw
    <2>1. /\ Running("JUMP_IF_NOT") /\ "JUMP_IF_NOT" \in Known /\ "JUMP_IF_NOT" \in Jumps
          /\ Continue(c, pc)
      BY <1>2 DEF JumpIfNot, Known, Jumps
    <2>2. /\ InScript /\ i.op = "JUMP_IF_NOT" /\ Len(ctx.stack) \in Nat
          /\ Takes(i) \in 0 .. Len(ctx.stack)
          /\ Frame.pc + 1 \in 1 .. Len(Frame.code) + 1
          /\ Depth(Frame.pc + 1) = Len(ctx.stack) - Takes(i) + Leaves(i)
          /\ Arg \in 1 .. Len(Frame.code) + 1
          /\ Depth(Arg) = Len(ctx.stack) - Takes(i) + LeavesThere(i)
      BY <2>1, Instructions
    <2>3. Takes(i) = 1 /\ Leaves(i) = 0 /\ LeavesThere(i) = 0
      BY <2>2 DEF Takes, Leaves, LeavesThere, BinaryOps
    <2>4. SameScopes(ctx, c) /\ Len(c.stack) = Len(ctx.stack) - 1
      BY <2>2, <2>3, ScriptOnTop, Popping DEF InScript
    <2>5. pc \in 1 .. Len(Frame.code) + 1 /\ Depth(pc) = Len(ctx.stack) - 1
      BY <2>2, <2>3
    <2> HIDE DEF c, i, pc
    <2> QED BY <2>1, <2>2, <2>4, <2>5, StackStep
  <1> QED BY <1>1, <1>2

LEMMA JumpShortStep ==
  ASSUME MachineInv, JumpShort
  PROVE  MachineInv'
  <1> DEFINE i == Frame.code[Frame.pc]
             c == PopValues(ctx, 1)
  <1>1. CASE Throw
    BY <1>1, Throwing
  <1>2. CASE ~Throw
    <2>1. PICK op \in {"JUMP_SC_AND", "JUMP_SC_OR"} :
            Running(op) /\ (Continue(ctx, Arg) \/ Continue(c, Frame.pc + 1))
      BY <1>2 DEF JumpShort
    <2>2. op \in Known /\ op \in Jumps
      BY DEF Known, Jumps
    <2>3. /\ InScript /\ i.op \in {"JUMP_SC_AND", "JUMP_SC_OR"} /\ Len(ctx.stack) \in Nat
          /\ Takes(i) \in 0 .. Len(ctx.stack)
          /\ Frame.pc + 1 \in 1 .. Len(Frame.code) + 1
          /\ Depth(Frame.pc + 1) = Len(ctx.stack) - Takes(i) + Leaves(i)
          /\ Arg \in 1 .. Len(Frame.code) + 1
          /\ Depth(Arg) = Len(ctx.stack) - Takes(i) + LeavesThere(i)
      BY <2>1, <2>2, Instructions
    <2>4. Takes(i) = 1 /\ Leaves(i) = 0 /\ LeavesThere(i) = 1
      <3> HIDE DEF i
      <3> QED BY <2>3 DEF Takes, Leaves, LeavesThere, BinaryOps
    <2>5. SameScopes(ctx, c) /\ Len(c.stack) = Len(ctx.stack) - 1 /\ SameScopes(ctx, ctx)
      BY <2>3, <2>4, ScriptOnTop, Popping DEF InScript, SameScopes
    <2>6. Depth(Arg) = Len(ctx.stack) /\ Depth(Frame.pc + 1) = Len(ctx.stack) - 1
      BY <2>3, <2>4
    <2> HIDE DEF c, i
    <2>7. CASE Continue(ctx, Arg)
      BY <2>3, <2>5, <2>6, <2>7, StackStep
    <2>8. CASE Continue(c, Frame.pc + 1)
      BY <2>3, <2>5, <2>6, <2>8, StackStep
    <2> QED BY <2>1, <2>7, <2>8
  <1> QED BY <1>1, <1>2

LEMMA GetVarStep ==
  ASSUME MachineInv, GetVar
  PROVE  MachineInv'
  <1> DEFINE i == Frame.code[Frame.pc]
             v == Value(ctx, Arg)
             c == PushValue(ctx, v)
  <1>1. CASE Throw
    BY <1>1, Throwing
  <1>2. CASE ~Throw
    <2>1. Running("GET_VAR") /\ "GET_VAR" \in Known /\ Continue(c, Frame.pc + 1)
      BY <1>2 DEF GetVar, Step, Known
    <2>2. /\ InScript /\ i.op = "GET_VAR" /\ Arg = i.arg /\ HasArgument(i)
          /\ Len(ctx.stack) \in Nat
          /\ Frame.pc + 1 \in 1 .. Len(Frame.code) + 1
          /\ Depth(Frame.pc + 1) = Len(ctx.stack) - Takes(i) + Leaves(i)
      BY <2>1, Instructions
    <2>3. Takes(i) = 0 /\ Leaves(i) = 1 /\ Arg \in Variables
      BY <2>2 DEF Takes, Leaves, BinaryOps, HasArgument
    <2>4. ctx \in Contexts /\ v \in Values
      BY <2>2, <2>3, ScriptOnTop DEF InScript, Contexts, Bindings, Value
    <2> HIDE DEF v
    <2>5. SameScopes(ctx, c) /\ Len(c.stack) = Len(ctx.stack) + 1
      BY <2>4, Pushing
    <2> HIDE DEF c, i
    <2> QED BY <2>1, <2>2, <2>3, <2>5, StackStep
  <1> QED BY <1>1, <1>2

LEMMA SetVarStep ==
  ASSUME GlobalsSound, MachineInv, SetVar
  PROVE  MachineInv'
  <1> DEFINE i == Frame.code[Frame.pc]
             c == SetVariable(ctx, Arg, Top(ctx))
  <1>1. Running("SET_VAR") /\ "SET_VAR" \in Known /\ Continue(c, Frame.pc + 1)
    BY DEF SetVar, Step, Known
  <1>2. /\ InScript /\ i.op = "SET_VAR" /\ Arg = i.arg /\ HasArgument(i)
        /\ Len(ctx.stack) \in Nat /\ Takes(i) \in 0 .. Len(ctx.stack)
        /\ Frame.pc + 1 \in 1 .. Len(Frame.code) + 1
        /\ Depth(Frame.pc + 1) = Len(ctx.stack) - Takes(i) + Leaves(i)
    BY <1>1, Instructions
  <1>3. Takes(i) = 1 /\ Leaves(i) = 1 /\ Arg \in Variables
    BY <1>2 DEF Takes, Leaves, BinaryOps, HasArgument
  <1>4. ctx \in Contexts /\ Undone(ctx) /\ ctx.level >= 1 /\ Top(ctx) \in Values
    <2>1. ctx \in Contexts /\ Undone(ctx) /\ ctx.level >= 1
      BY <1>2, ScriptOnTop DEF InScript
    <2>2. 0 \in 0 .. Len(ctx.stack) - 1
      BY <1>2, <1>3
    <2> QED BY <2>1, <2>2, Reading
  <1>5. Kept(ctx, c)
    BY <1>3, <1>4, SettingOne
  <1> HIDE DEF c, i
  <1>6. /\ c \in Contexts /\ Undone(c) /\ c.level = ctx.level
        /\ Len(ctx.shadowed) <= Len(c.shadowed) /\ c.stack = ctx.stack
    BY <1>5 DEF Kept
  <1>7. Len(c.stack) = Depth(Frame.pc + 1)
    BY <1>2, <1>3, <1>6
  <1> QED BY <1>1, <1>2, <1>6, <1>7, Continues

\* An instruction that replaces the values it takes by one.
LEMMA ReplaceStep ==
  ASSUME MachineInv, NEW op \in Known \ Jumps, Running(op), NEW n \in Nat,
         Takes(Frame.code[Frame.pc]) = n, Leaves(Frame.code[Frame.pc]) = 1,
         NEW v \in Values, Continue(Replace(ctx, n, v), Frame.pc + 1)
  PROVE  MachineInv'
  <1> DEFINE c == Replace(ctx, n, v)
             i == Frame.code[Frame.pc]
  <1>1. op # "JUMP" /\ op \in Known
    BY DEF Jumps
  <1>2. /\ InScript /\ Len(ctx.stack) \in Nat /\ Takes(i) \in 0 .. Len(ctx.stack)
        /\ Frame.pc + 1 \in 1 .. Len(Frame.code) + 1
        /\ Depth(Frame.pc + 1) = Len(ctx.stack) - Takes(i) + Leaves(i)
    BY <1>1, Instructions
  <1>3. SameScopes(ctx, c) /\ Len(c.stack) = Len(ctx.stack) - n + 1
    BY <1>2, ScriptOnTop, Replacing DEF InScript
  <1>4. Continue(c, Frame.pc + 1)
    OBVIOUS
  <1> HIDE DEF c
  <1>5. Len(c.stack) = Depth(Frame.pc + 1)
    BY <1>2, <1>3
  <1> QED BY <1>2, <1>3, <1>4, <1>5, StackStep

\* The values an instruction takes are there.
LEMMA Taken ==
  ASSUME MachineInv, NEW op \in Known, Running(op), NEW k \in Nat,
         k < Takes(Frame.code[Frame.pc])
  PROVE  Nth(ctx, k) \in Values /\ Top(ctx) \in Values /\ k \in 0 .. Len(ctx.stack) - 1
  <1>1. /\ InScript /\ Len(ctx.stack) \in Nat
        /\ Takes(Frame.code[Frame.pc]) \in 0 .. Len(ctx.stack)
    BY Instructions
  <1>2. ctx \in Contexts
    BY <1>1, ScriptOnTop DEF InScript
  <1>3. k \in 0 .. Len(ctx.stack) - 1
    BY <1>1
  <1> QED BY <1>2, <1>3, Reading

LEMMA MemberCStep ==
  ASSUME WorldsSound, MachineInv, MemberC
  PROVE  MachineInv'
  <1> DEFINE v == Member(Top(ctx), Arg)
             i == Frame.code[Frame.pc]
  <1>1. /\ Running("MEMBER_C") /\ "MEMBER_C" \in Known \ Jumps
        /\ Continue(Replace(ctx, 1, v), Frame.pc + 1)
    BY DEF MemberC, Known, Jumps
  <1>2. i.op = "MEMBER_C"
    BY <1>1, Instructions
  <1>3. Takes(i) = 1 /\ Leaves(i) = 1
    BY <1>2 DEF Takes, Leaves, BinaryOps
  <1>4. Top(ctx) \in Values
    BY <1>1, <1>3, Taken
  <1>5. v \in Values
    <2>1. CASE Top(ctx).t = "obj" /\ Arg \in DOMAIN world[Top(ctx).o]
      <3>1. Top(ctx).o \in Objects
        BY <1>4, <2>1, Parts
      <3>2. world \in Worlds
        BY DEF MachineInv, Sound
      <3>3. v = world[Top(ctx).o][Arg]
        BY <2>1 DEF Member
      <3> QED BY <2>1, <3>1, <3>2, <3>3 DEF WorldsSound
    <2>2. CASE ~(Top(ctx).t = "obj" /\ Arg \in DOMAIN world[Top(ctx).o])
      <3>1. v = DelayedError
        BY <2>2 DEF Member
      <3> QED BY <3>1, SimpleValues
    <2> QED BY <2>1, <2>2
  <1> HIDE DEF v
  <1> QED BY <1>1, <1>3, <1>5, ReplaceStep

LEMMA MakeIteratorStep ==
  ASSUME MachineInv, MakeIterator
  PROVE  MachineInv'
  <1> DEFINE v == CASE Top(ctx).t = "list"     -> Iter(Top(ctx).items)
                    [] Top(ctx).t = "iterator" -> Top(ctx)
                    [] OTHER                   -> DelayedError
             i == Frame.code[Frame.pc]
  <1>1. /\ Running("ITERATOR_C") /\ "ITERATOR_C" \in Known \ Jumps
        /\ Continue(Replace(ctx, 1, v), Frame.pc + 1)
    BY DEF MakeIterator, Step, Known, Jumps
  <1>2. i.op = "ITERATOR_C"
    BY <1>1, Instructions
  <1>3. Takes(i) = 1 /\ Leaves(i) = 1
    BY <1>2 DEF Takes, Leaves, BinaryOps
  <1>4. Top(ctx) \in Values
    <2> HIDE DEF v
    <2>1. 0 \in Nat /\ 0 < Takes(i) /\ Running("ITERATOR_C") /\ "ITERATOR_C" \in Known
      BY <1>1, <1>3
    <2> HIDE DEF i
    <2> QED BY <2>1, Taken DEF i
  <1>5. v \in Values
    <2>1. CASE Top(ctx).t = "list"
      <3>1. Top(ctx).items \in Seq(Values) /\ v = Iter(Top(ctx).items)
        BY <1>4, <2>1, Parts
      <3> QED BY <3>1, Lists
    <2>2. CASE Top(ctx).t = "iterator"
      BY <1>4, <2>2
    <2>3. CASE Top(ctx).t # "list" /\ Top(ctx).t # "iterator"
      BY <2>3, SimpleValues
    <2> QED BY <2>1, <2>2, <2>3
  <1> HIDE DEF v
  <1> QED BY <1>1, <1>3, <1>5, ReplaceStep

LEMMA LoopStep ==
  ASSUME MachineInv, Loop
  PROVE  MachineInv'
  <1> DEFINE i == Frame.code[Frame.pc]
             it == Nth(ctx, 1)
             n == Len(ctx.stack)
  <1>1. CASE Throw
    BY <1>1, Throwing
  <1>2. CASE ~Throw
    <2>1. Running("LOOP") /\ "LOOP" \in Known /\ "LOOP" \in Jumps /\ it.t = "iterator"
      BY <1>2 DEF Loop, Known, Jumps
    <2>2. /\ InScript /\ i.op = "LOOP" /\ n \in Nat /\ Takes(i) \in 0 .. n
          /\ Frame.pc + 1 \in 1 .. Len(Frame.code) + 1
          /\ Depth(Frame.pc + 1) = n - Takes(i) + Leaves(i)
          /\ Arg \in 1 .. Len(Frame.code) + 1
          /\ Depth(Arg) = n - Takes(i) + LeavesThere(i)
      BY <2>1, Instructions
    <2>3. Takes(i) = 2 /\ Leaves(i) = 3 /\ LeavesThere(i) = 1
      BY <2>2 DEF Takes, Leaves, LeavesThere, BinaryOps
    <2>4. it \in Values /\ Top(ctx) \in Values
      BY <2>1, <2>3, Taken
    <2>5. ctx \in Contexts /\ ctx.stack \in Seq(Values)
      BY <2>2, ScriptOnTop DEF InScript, Contexts
    <2>6. it.items \in Seq(Values)
      BY <2>1, <2>4, Parts
    <2>7. CASE it.items = <<>>
      <3> DEFINE c == Replace(ctx, 2, Top(ctx))
      <3>1. Continue(c, Arg)
        BY <1>2, <2>1, <2>7 DEF Loop
      <3>2. SameScopes(ctx, c) /\ Len(c.stack) = n - 2 + 1
        BY <2>2, <2>3, <2>4, <2>5, Replacing
      <3> HIDE DEF c
      <3>3. Len(c.stack) = Depth(Arg)
        BY <2>2, <2>3, <3>2
      <3> QED BY <2>2, <3>1, <3>2, <3>3, StackStep
    <2>8. CASE it.items # <<>>
      <3> DEFINE u == [ctx.stack EXCEPT ![n - 1] = Iter(Tail(it.items))]
                 s == Append(u, Head(it.items))
                 c == [ctx EXCEPT !.stack = s]
      <3>1. Continue(c, Frame.pc + 1)
        BY <1>2, <2>1, <2>8 DEF Loop, Step
      <3>2. Head(it.items) \in Values /\ Iter(Tail(it.items)) \in Values
        <4>1. Head(it.items) \in Values /\ Tail(it.items) \in Seq(Values)
          BY <2>6, <2>8
        <4> QED BY <4>1, Lists
      <3>3. u \in Seq(Values) /\ Len(u) = n
        <4> DEFINE V == Values
                   e == Iter(Tail(it.items))
        <4>1. ctx.stack \in Seq(V) /\ n - 1 \in 1 .. Len(ctx.stack) /\ e \in V
          BY <2>2, <2>3, <2>5, <3>2
        <4> HIDE DEF V, e
        <4>2. [ctx.stack EXCEPT ![n - 1] = e] \in Seq(V)
              /\ Len([ctx.stack EXCEPT ![n - 1] = e]) = Len(ctx.stack)
          BY <4>1, ExceptSeq
        <4> QED BY <4>2 DEF V, e
      <3> HIDE DEF u
      <3>4. s \in Seq(Values) /\ Len(s) = n + 1
        BY <2>2, <3>2, <3>3
      <3> HIDE DEF s
      <3>5. SameScopes(ctx, c) /\ c.stack = s
        BY <2>5, <3>4, StackOnly
      <3>6. Len(c.stack) = Depth(Frame.pc + 1)
        BY <2>2, <2>3, <3>4, <3>5
      <3> HIDE DEF c
      <3> QED BY <2>2, <3>1, <3>5, <3>6, StackStep
    <2> QED BY <2>7, <2>8
  <1> QED BY <1>1, <1>2

LEMMA NotStep ==
  ASSUME MachineInv, Not
  PROVE  MachineInv'
  <1> DEFINE i == Frame.code[Frame.pc]
             v == BoolV(~ToBool(Top(ctx)))
  <1>1. CASE Throw
    BY <1>1, Throwing
  <1>2. CASE ~Throw
    <2>1. /\ Running("NOT") /\ "NOT" \in Known \ Jumps
          /\ Continue(Replace(ctx, 1, v), Frame.pc + 1)
      BY <1>2 DEF Not, Step, Known, Jumps
    <2>2. i.op = "NOT"
      BY <2>1, Instructions
    <2>3. Takes(i) = 1 /\ Leaves(i) = 1
      BY <2>2 DEF Takes, Leaves, BinaryOps
    <2>4. v \in Values
      <3>1. (~ToBool(Top(ctx))) \in BOOLEAN
        OBVIOUS
      <3> QED BY <3>1, SimpleValues
    <2> HIDE DEF v
    <2> QED BY <2>1, <2>3, <2>4, ReplaceStep
  <1> QED BY <1>1, <1>2

LEMMA Binaries ==
  ASSUME NEW op \in BinaryOps, NEW a \in Values, NEW b \in Values, CanBinary(op, a, b)
  PROVE  Binary(op, a, b) \in Values
  <1>1. CASE op = "ADD"
    <2>1. CanAdd(a, b) /\ Binary(op, a, b) = Add(a, b)
      BY <1>1 DEF CanBinary, Binary
    <2>2. CASE a.t = "nil"
      BY <2>1, <2>2 DEF Add, IsFunction, HasString
    <2>3. CASE a.t # "nil" /\ b.t = "nil"
      BY <2>1, <2>3 DEF Add, IsFunction, HasString
    <2>4. CASE a.t # "nil" /\ b.t # "nil"
      <3>1. CASE IsFunction(a) /\ IsFunction(b)
        <4>1. Add(a, b) = Compose(a, b)
          BY <2>4, <3>1 DEF Add, IsFunction, HasString
        <4> QED BY <2>1, <4>1, Compositions
      <3>2. CASE a.t = "list" /\ b.t = "list"
        <4>1. Add(a, b) = List(a.items \o b.items)
          BY <2>4, <3>2 DEF Add, IsFunction, HasString
        <4>2. a.items \in Seq(Values) /\ b.items \in Seq(Values)
          BY <3>2, Parts
        <4>3. a.items \o b.items \in Seq(Values)
          BY <4>2
        <4> QED BY <2>1, <4>1, <4>3, Lists
      <3>3. CASE HasString(a) /\ HasString(b)
        <4>1. a.t \in {"bool", "str"} /\ b.t \in {"bool", "str"}
          BY <2>4, <3>3 DEF HasString
        <4>2. Add(a, b) = Str(AsString(a) \o AsString(b))
          BY <3>3, <4>1 DEF Add, IsFunction, HasString
        <4>3. ASSUME NEW v \in Values, v.t \in {"bool", "str"} PROVE AsString(v) \in Seq(Atoms)
          <5>1. CASE v.t = "str"
            <6>1. AsString(v) = v.s /\ v.s \in Seq(Atoms)
              BY <5>1, Parts DEF AsString
            <6> QED BY <6>1
          <5>2. CASE v.t = "bool"
            <6>1. AsString(v) = <<"true">> \/ AsString(v) = <<"false">>
              BY <5>2 DEF AsString
            <6>2. <<"true">> \in Seq(Atoms) /\ <<"false">> \in Seq(Atoms)
              <7>1. ASSUME NEW S, NEW x \in S PROVE <<x>> \in Seq(S)
                OBVIOUS
              <7>2. "true" \in Atoms /\ "false" \in Atoms
                BY DEF Atoms
              <7> QED BY <7>1, <7>2
            <6> QED BY <6>1, <6>2
          <5> QED BY <4>3, <5>1, <5>2
        <4>4. AsString(a) \o AsString(b) \in Seq(Atoms)
          <5>1. AsString(a) \in Seq(Atoms) /\ AsString(b) \in Seq(Atoms)
            BY <4>1, <4>3
          <5> QED BY <5>1
        <4> QED BY <2>1, <4>2, <4>4, SimpleValues
      <3> QED BY <2>1, <2>4, <3>1, <3>2, <3>3 DEF CanAdd
    <2> QED BY <2>2, <2>3, <2>4
  <1>2. CASE op = "EQ"
    <2>1. Binary(op, a, b) = BoolV(Equal(a, b)) /\ Equal(a, b) \in BOOLEAN
      BY <1>2 DEF Binary, Equal
    <2> QED BY <2>1, SimpleValues
  <1>3. CASE op = "NEQ"
    <2>1. Binary(op, a, b) = BoolV(~Equal(a, b)) /\ (~Equal(a, b)) \in BOOLEAN
      BY <1>3 DEF Binary, Equal
    <2> QED BY <2>1, SimpleValues
  <1>4. CASE op = "XOR"
    <2>1. Binary(op, a, b) = BoolV(ToBool(a) # ToBool(b)) /\ (ToBool(a) # ToBool(b)) \in BOOLEAN
      BY <1>4 DEF Binary
    <2> QED BY <2>1, SimpleValues
  <1>5. CASE op = "OR_ELSE"
    BY <1>5 DEF Binary
  <1> QED BY <1>1, <1>2, <1>3, <1>4, <1>5 DEF BinaryOps

LEMMA BinaryOpStep ==
  ASSUME MachineInv, BinaryOp
  PROVE  MachineInv'
  <1> DEFINE i == Frame.code[Frame.pc]
             v(op) == Binary(op, Nth(ctx, 1), Top(ctx))
  <1>1. CASE Throw
    BY <1>1, Throwing
  <1>2. CASE ~Throw
    <2>1. PICK op \in BinaryOps :
            /\ Running(op) /\ CanBinary(op, Nth(ctx, 1), Top(ctx))
            /\ Continue(Replace(ctx, 2, v(op)), Frame.pc + 1)
      BY <1>2 DEF BinaryOp, Step
    <2>2. op \in Known \ Jumps
      BY DEF Known, Jumps, BinaryOps
    <2>3. i.op = op
      BY <2>1, <2>2, Instructions
    <2> HIDE DEF v
    <2>4. Takes(i) = 2 /\ Leaves(i) = 1
      BY <2>3 DEF Takes, Leaves, BinaryOps
    <2>5. Nth(ctx, 1) \in Values /\ Top(ctx) \in Values
      <3>1. 1 \in Nat /\ 1 < Takes(i) /\ op \in Known
        BY <2>2, <2>4
      <3> HIDE DEF i
      <3> QED BY <2>1, <3>1, Taken DEF i
    <2>6. v(op) \in Values
      BY <2>1, <2>5, Binaries DEF v
    <2> QED BY <2>1, <2>2, <2>4, <2>6, ReplaceStep
  <1> QED BY <1>1, <1>2

LEMMA MakeListStep ==
  ASSUME MachineInv, MakeList
  PROVE  MachineInv'
  <1> DEFINE i == Frame.code[Frame.pc]
             n == Arg
             k == Len(ctx.stack)
             base == Len(ctx.stack) - 2 * n
             s == [j \in 1 .. n |-> ctx.stack[base + 2 * j]]
  <1>1. /\ Running("MAKE_OBJECT") /\ "MAKE_OBJECT" \in Known \ Jumps
        /\ Continue(Replace(ctx, 2 * n, List(s)), Frame.pc + 1)
    BY DEF MakeList, Step, Known, Jumps, MakeObject
  <1> HIDE DEF s
  <1>2. /\ InScript /\ i.op = "MAKE_OBJECT" /\ Arg = i.arg /\ HasArgument(i)
        /\ k \in Nat /\ Takes(i) \in 0 .. k
    BY <1>1, Instructions
  <1>3. Takes(i) = 2 * n /\ Leaves(i) = 1 /\ n \in Nat
    BY <1>2 DEF Takes, Leaves, BinaryOps, HasArgument
  <1>4. s \in Seq(Values)
    <2>1. ctx.stack \in Seq(Values)
      BY <1>2, ScriptOnTop DEF InScript, Contexts
    <2>2. ASSUME NEW j \in 1 .. n PROVE ctx.stack[base + 2 * j] \in Values
      <3>1. base + 2 * j \in 1 .. k
        <4>1. /\ k \in Nat /\ n \in Nat /\ 2 * n <= k /\ j \in 1 .. n
              /\ base = k - 2 * n
          BY <1>2, <1>3
        <4> HIDE DEF n, k, base
        <4> QED BY <4>1
      <3> QED BY <2>1, <3>1, ElementOfSeq
    <2>3. s \in [1 .. n -> Values]
      BY <2>2 DEF s
    <2> QED BY <1>3, <2>3, SeqDef
  <1>5. List(s) \in Values
    BY <1>4, Lists
  <1>6. 2 * n \in Nat
    <2> HIDE DEF n
    <2> QED BY <1>3
  <1> QED BY <1>1, <1>3, <1>5, <1>6, ReplaceStep

\* The last values of the stack, with the names they are given.
LEMMA Arguing ==
  ASSUME NEW c \in Contexts, NEW names \in Seq(Variables), Len(names) < Len(c.stack)
  PROVE  Arguments(c, names) \in Binds(Values)
  <1> DEFINE n == Len(names)
             bs == Arguments(c, names)
  <1>1. n \in Nat /\ Len(c.stack) \in Nat
    BY DEF Contexts
  <1>2. ASSUME NEW j \in 1 .. n
        PROVE  <<names[n + 1 - j], Nth(c, j - 1)>> \in Variables \X Values
    <2>1. n + 1 - j \in 1 .. n /\ j - 1 \in 0 .. Len(c.stack) - 1
      BY <1>1
    <2>2. names[n + 1 - j] \in Variables
      BY <2>1, ElementOfSeq
    <2>3. Nth(c, j - 1) \in Values
      BY <2>1, Reading
    <2> QED BY <2>2, <2>3
  <1>3. bs = [j \in 1 .. n |-> <<names[n + 1 - j], Nth(c, j - 1)>>]
    BY DEF Arguments
  <1> HIDE DEF bs
  <1> DEFINE P == Variables \X Values
  <1>4. \A j \in 1 .. n : <<names[n + 1 - j], Nth(c, j - 1)>> \in P
    BY <1>2
  <1> HIDE DEF P
  <1>5. bs \in [1 .. n -> P]
    BY <1>3, <1>4
  <1>6. bs \in Seq(P)
    BY <1>1, <1>5, SeqDef
  <1> QED BY <1>6 DEF Binds, bs, P

LEMMA MakeDefaultsStep ==
  ASSUME MachineInv, MakeDefaults
  PROVE  MachineInv'
  <1> DEFINE i == Frame.code[Frame.pc]
             n == Len(Arg)
             v == Closure(Nth(ctx, n), Arguments(ctx, Arg))
  <1>1. /\ Running("CLOSURE") /\ "CLOSURE" \in Known \ Jumps
        /\ Continue(Replace(ctx, n + 1, v), Frame.pc + 1)
    BY DEF MakeDefaults, Step, Known, Jumps, MakeClosure
  <1> HIDE DEF v
  <1>2. /\ InScript /\ i.op = "CLOSURE" /\ Arg = i.arg /\ HasArgument(i)
        /\ Len(ctx.stack) \in Nat /\ Takes(i) \in 0 .. Len(ctx.stack)
    BY <1>1, Instructions
  <1>3. Takes(i) = n + 1 /\ Leaves(i) = 1 /\ Arg \in Seq(Variables)
    BY <1>2 DEF Takes, Leaves, BinaryOps, HasArgument
  <1>4. n \in Nat /\ n + 1 \in Nat
    BY <1>3
  <1>5. ctx \in Contexts
    BY <1>2, ScriptOnTop DEF InScript
  <1>6. v \in Values
    <2> HIDE DEF n
    <2>1. n \in 0 .. Len(ctx.stack) - 1 /\ n < Len(ctx.stack)
      BY <1>2, <1>3, <1>4
    <2>2. Nth(ctx, n) \in Values
      BY <1>5, <2>1, Reading
    <2>3. Arguments(ctx, Arg) \in Binds(Values)
      BY <1>3, <1>5, <2>1, Arguing DEF n
    <2> QED BY <2>2, <2>3, Closures DEF v
  <1> QED BY <1>1, <1>3, <1>4, <1>6, ReplaceStep

LEMMA Appended ==
  ASSUME NEW S, NEW s \in Seq(S), NEW a \in S, NEW b \in S
  PROVE  /\ s \o <<a>> = Append(s, a)
         /\ s \o <<a, b>> = Append(Append(s, a), b)
         /\ Append(s, a) \in Seq(S) /\ Append(s, a) # <<>>
         /\ Append(s, a)[Len(Append(s, a))] = a
  OBVIOUS

LEMMA Opening ==
  ASSUME NEW c \in Contexts, Undone(c)
  PROVE  LET d == OpenScope(c) IN
         /\ d \in Contexts /\ Undone(d) /\ d.stack = c.stack /\ d.shadowed = c.shadowed
         /\ d.level = c.level + 1 /\ c.level \in Nat /\ Len(c.shadowed) \in Nat
  <1> DEFINE d == OpenScope(c)
  <1>1. c.level \in Nat /\ Len(c.shadowed) \in Nat
    BY DEF Contexts
  <1>2. d.stack = c.stack /\ d.shadowed = c.shadowed /\ d.vars = c.vars /\ d.level = c.level + 1
    BY DEF OpenScope, Contexts
  <1>3. d \in Contexts
    BY <1>1 DEF OpenScope, Contexts
  <1>4. Undone(d)
    <2> HIDE DEF d
    <2> QED BY <1>2 DEF Undone
  <1> QED BY <1>1, <1>2, <1>3, <1>4

LEMMA CallStep ==
  ASSUME GlobalsSound, MachineInv, Call
  PROVE  MachineInv'
  <1> DEFINE i     == Frame.code[Frame.pc]
             names == Arg
             n     == Len(names)
             k     == Len(ctx.stack)
             pc    == Frame.pc + 1
             f     == [Frame EXCEPT !.pc = pc]
             args  == Arguments(ctx, names)
             a     == OpenScope(ctx)
             b     == SetAll(a, args)
             c     == PopValues(b, n)
             rest  == PopValues(ctx, n)
             mark  == Len(ctx.shadowed)
             fs1   == Append(Outer, f)
             scope == ScopeFrame(mark)
             eval  == EvalFrame(Top(c), FALSE)
  <1>1. Running("CALL") /\ "CALL" \in Known \ Jumps
    BY DEF Call, Known, Jumps
  <1>2. /\ ctx' = c /\ frames' = fs1 \o <<scope, eval>>
        /\ world' = world /\ status' = status /\ result' = result
    BY DEF Call, ScopeOf
  <1> HIDE DEF c, b, a, args, fs1, scope, eval, rest
  <1>3. /\ InScript /\ i.op = "CALL" /\ Arg = i.arg /\ HasArgument(i)
        /\ k \in Nat /\ Takes(i) \in 0 .. k /\ Frame.base <= k - Takes(i)
        /\ pc \in 1 .. Len(Frame.code) + 1
        /\ Depth(pc) = k - Takes(i) + Leaves(i)
    <2>1. "CALL" \in Known /\ "CALL" # "JUMP"
      BY <1>1
    <2> QED BY <1>1, <2>1, Instructions
  <1>4. Takes(i) = n + 1 /\ Leaves(i) = 1 /\ names \in Seq(Variables)
    BY <1>3 DEF Takes, Leaves, BinaryOps, HasArgument
  <1>5. /\ frames # <<>> /\ Frame.kind = "script" /\ status = "running"
        /\ ctx \in Contexts /\ Undone(ctx) /\ ctx.level \in Nat /\ ctx.level >= 1
        /\ world \in Worlds /\ result \in Values
        /\ Frame.base \in Nat /\ Heights(Frame.code)[pc] \in Nat /\ Frame \in ScriptFrames
    BY <1>3, ScriptOnTop DEF InScript
  <1>6. n \in Nat /\ n < k /\ Depth(pc) = k - n /\ Heights(Frame.code)[pc] >= 1
    <2>1. n \in Nat
      BY <1>4
    <2> HIDE DEF n, k, i
    <2> QED BY <1>3, <1>4, <1>5, <2>1 DEF Depth
  <1>7. args \in Binds(Values)
    BY <1>4, <1>5, <1>6, Arguing DEF args
  <1>8. /\ a \in Contexts /\ Undone(a) /\ a.stack = ctx.stack /\ a.shadowed = ctx.shadowed
        /\ a.level = ctx.level + 1 /\ mark \in Nat
    BY <1>5, Opening DEF a
  <1>9. Kept(a, b)
    <2>1. a.level >= 1
      BY <1>5, <1>8
    <2> QED BY <1>7, <1>8, <2>1, SettingAll DEF b
  <1>10. /\ b \in Contexts /\ Undone(b) /\ b.stack = ctx.stack /\ b.level = ctx.level + 1
         /\ mark <= Len(b.shadowed)
    BY <1>8, <1>9 DEF Kept
  <1>11. n \in 0 .. k
    <2> HIDE DEF n, k
    <2> QED BY <1>3, <1>6
  <1>12. SameScopes(b, c) /\ Len(c.stack) = k - n
    <2> HIDE DEF n
    <2> QED BY <1>10, <1>11, Popping DEF c
  <1>13. /\ c \in Contexts /\ Undone(c) /\ c.level = ctx.level + 1 /\ mark <= Len(c.shadowed)
         /\ Len(c.stack) >= 1
    <2>1. Undone(c)
      BY <1>10, <1>12, StillUndone
    <2>2. Len(c.stack) >= 1
      <3> HIDE DEF n, k
      <3> QED BY <1>3, <1>6, <1>12
    <2>3. c \in Contexts /\ c.level = b.level /\ c.shadowed = b.shadowed
      BY <1>12 DEF SameScopes
    <2> HIDE DEF n, k, mark
    <2> QED BY <1>10, <2>1, <2>2, <2>3
  <1>14. Top(c) \in Values
    <2>1. 0 \in 0 .. Len(c.stack) - 1
      <3> HIDE DEF n, k
      <3> QED BY <1>3, <1>6, <1>12
    <2> QED BY <1>13, <2>1, Reading
  <1>15. SameScopes(ctx, rest) /\ Len(rest.stack) = k - n
    <2> HIDE DEF n
    <2> QED BY <1>5, <1>11, Popping DEF rest
  <1>16. /\ f \in Frames /\ fs1 \in Seq(Frames)
         /\ \E x : Outside(rest, fs1, x) /\ Waits(f, x)
    <2>1. /\ rest \in Contexts /\ rest.level = ctx.level
          /\ Len(ctx.shadowed) <= Len(rest.shadowed) /\ Len(rest.stack) = Depth(pc)
      BY <1>6, <1>8, <1>15 DEF SameScopes
    <2> HIDE DEF rest, pc
    <2>2. /\ f \in Frames /\ Append(Outer, f) \in Seq(Frames)
          /\ \E x : /\ Outside(rest, Append(Outer, f), x)
                    /\ Heights(Frame.code)[pc] >= 1 => Waits(f, x)
      BY <1>3, <1>5, <2>1, Moved
    <2> QED BY <1>6, <2>2 DEF fs1
  <1> HIDE DEF f
  <1>17. PICK x : Outside(rest, fs1, x) /\ Waits(f, x)
    BY <1>16
  <1>18. /\ Reaches(fs1, x) /\ x.height = k - n /\ x.level = ctx.level /\ x.mark <= mark
    BY <1>15, <1>17 DEF Outside, SameScopes
  <1>19. fs1 # <<>> /\ fs1[Len(fs1)] = f
    <2>1. Outer \in Seq(Frames)
      BY <1>5, OnTop
    <2> QED BY <1>16, <2>1, Appended DEF fs1
  <1> DEFINE y == [height |-> x.height, level |-> x.level + 1, mark |-> mark]
             fs2 == Append(fs1, scope)
  <1>20. scope \in Frames /\ Reaches(fs2, y) /\ Waits(scope, y)
    <2>1. x.level # 0
      BY <1>5, <1>18
    <2> HIDE DEF mark
    <2> QED BY <1>8, <1>16, <1>17, <1>18, <1>19, <2>1, PushedScope DEF scope
  <1>21. fs2 \in Seq(Frames) /\ fs2[Len(fs2)] = scope
    BY <1>16, <1>20, Appended
  <1> HIDE DEF fs2
  <1>22. eval \in Frames /\ Reaches(Append(fs2, eval), y)
    <2> HIDE DEF y
    <2>1. FALSE \in BOOLEAN
      OBVIOUS
    <2> QED BY <1>14, <1>20, <1>21, <2>1, PushedEval DEF eval
  <1>23. fs1 \o <<scope, eval>> = Append(fs2, eval) /\ Append(fs2, eval) \in Seq(Frames)
    BY <1>16, <1>20, <1>21, <1>22, Appended DEF fs2
  <1>24. Outside(c, Append(fs2, eval), y)
    BY <1>12, <1>13, <1>18, <1>22 DEF Outside
  <1>25. c.level # 0
    BY <1>5, <1>13
  <1> HIDE DEF y
  <1> QED BY <1>2, <1>5, <1>13, <1>23, <1>24, <1>25 DEF MachineInv, Sound, Statuses

\* What is left when the frame on top goes, and its scope with it.
LEMMA Leaving ==
  ASSUME GlobalsSound, MachineInv, frames # <<>>,
         NEW d, d = IF Scoped(Frame) THEN CloseScope(ctx, Frame.scope) ELSE ctx
  PROVE  /\ d \in Contexts /\ Undone(d) /\ d.stack = ctx.stack /\ d.level \in Nat
         /\ Outer \in Seq(Frames) /\ world \in Worlds /\ result \in Values
         /\ d.level = 0 => d.shadowed = <<>> /\ Outer = <<>>
         /\ \E y \in Outsides :
              /\ Reaches(Outer, y) /\ y.level = d.level /\ y.mark <= Len(d.shadowed)
              /\ Outer # <<>> => Waits(Outer[Len(Outer)], y)
              /\ Len(ctx.stack) = y.height + HeightIn(Frame)
              /\ Frame.kind = "script" => Frame.base = y.height
  <1>1. PICK y \in Outsides :
          /\ Reaches(Outer, y) /\ Stands(Frame, y)
          /\ Outer # <<>> => Waits(Outer[Len(Outer)], y)
          /\ Len(ctx.stack) = y.height + HeightIn(Frame)
          /\ Scoped(Frame) => ctx.level = y.level + 1 /\ Frame.scope <= Len(ctx.shadowed)
          /\ ~Scoped(Frame) => ctx.level = y.level /\ y.mark <= Len(ctx.shadowed)
    BY OnTop
  <1>2. /\ Frame \in Frames /\ Outer \in Seq(Frames) /\ ctx \in Contexts /\ Undone(ctx)
        /\ world \in Worlds /\ result \in Values /\ ctx.level \in Nat
        /\ ctx.level = 0 => ctx.shadowed = <<>>
    BY OnTop DEF MachineInv, Sound, Contexts
  <1>3. y.level \in Nat /\ y.mark \in Nat /\ y.height \in Nat /\ Len(ctx.shadowed) \in Nat
    BY <1>2 DEF Outsides, Contexts
  <1>4. y.level = 0 => Outer = <<>>
    BY <1>1, <1>3 DEF Waits
  <1>5. Frame.kind = "script" => Frame.base = y.height
    BY <1>1 DEF Stands
  <1>6. CASE Scoped(Frame)
    <2>1. Frame.scope \in Nat /\ Frame.scope \in 0 .. Len(ctx.shadowed)
      BY <1>1, <1>2, <1>3, <1>6, FrameParts, ScriptFrameParts DEF Scoped
    <2>2. ctx.level >= 1
      BY <1>1, <1>3, <1>6
    <2>3. /\ d \in Contexts /\ Undone(d) /\ d.stack = ctx.stack /\ d.level = ctx.level - 1
          /\ Len(d.shadowed) = Frame.scope
      BY <1>2, <1>6, <2>1, <2>2, Closing
    <2>4. d.level = y.level
      <3>1. ctx.level = y.level + 1 /\ d.level = ctx.level - 1
        BY <1>1, <1>6, <2>3
      <3> QED BY <1>3, <3>1
    <2>5. y.mark <= Frame.scope /\ (y.level = 0 => Frame.scope = 0)
      BY <1>1, <1>6 DEF Stands
    <2>6. y.level = 0 => d.shadowed = <<>>
      <3>1. d.shadowed \in Seq([var : Variables, old : Bindings])
        BY <2>3 DEF Contexts
      <3> QED BY <2>3, <2>5, <3>1
    <2> QED BY <1>1, <1>2, <1>3, <1>4, <1>5, <2>3, <2>4, <2>5, <2>6
  <1>7. CASE ~Scoped(Frame)
    BY <1>1, <1>2, <1>3, <1>4, <1>5, <1>7
  <1> QED BY <1>6, <1>7

LEMMA FinishStep ==
  ASSUME GlobalsSound, MachineInv, Finish
  PROVE  MachineInv'
  <1> DEFINE d == IF Scoped(Frame) THEN CloseScope(ctx, Frame.scope) ELSE ctx
             c == PopValues(d, 1)
  <1>1. /\ frames # <<>> /\ Frame.kind = "script" /\ Frame.pc > Len(Frame.code)
        /\ status' = "returning" /\ result' = Top(ctx) /\ frames' = Outer /\ world' = world
        /\ ctx' = PopValues(IF Frame.scope = NoScope THEN ctx ELSE CloseScope(ctx, Frame.scope), 1)
    BY DEF Finish, InScript, Return
  <1>2. ctx' = c
    BY <1>1 DEF Scoped
  <1>3. /\ d \in Contexts /\ Undone(d) /\ d.stack = ctx.stack /\ d.level \in Nat
        /\ Outer \in Seq(Frames) /\ world \in Worlds
        /\ d.level = 0 => d.shadowed = <<>> /\ Outer = <<>>
    BY <1>1, Leaving
  <1>4. PICK y \in Outsides :
          /\ Reaches(Outer, y) /\ y.level = d.level /\ y.mark <= Len(d.shadowed)
          /\ Outer # <<>> => Waits(Outer[Len(Outer)], y)
          /\ Len(ctx.stack) = y.height + HeightIn(Frame)
    BY <1>1, Leaving
  <1>5. ctx \in Contexts /\ HeightIn(Frame) = 1 /\ y.height \in Nat
    <2>1. /\ Frame.pc \in 1 .. Len(Frame.code) + 1 /\ Frame.code \in Codes(Values)
          /\ Len(Frame.code) \in Nat /\ ctx \in Contexts
      BY <1>1, ScriptOnTop
    <2>2. Frame.pc = Len(Frame.code) + 1
      BY <1>1, <2>1
    <2> QED BY <1>1, <2>1, <2>2, CodeHeights DEF HeightIn, Outsides
  <1>6. Top(ctx) \in Values
    <2>1. 0 \in 0 .. Len(ctx.stack) - 1
      BY <1>4, <1>5
    <2> QED BY <1>5, <2>1, Reading
  <1> HIDE DEF d
  <1>7. SameScopes(d, c) /\ Len(c.stack) = y.height
    <2>1. 1 \in 0 .. Len(d.stack) /\ Len(d.stack) = y.height + 1
      BY <1>3, <1>4, <1>5
    <2>2. SameScopes(d, c) /\ Len(c.stack) = Len(d.stack) - 1
      BY <1>3, <2>1, Popping
    <2> QED BY <1>5, <2>1, <2>2
  <1> HIDE DEF c
  <1>8. Undone(c)
    BY <1>3, <1>7, StillUndone
  <1>9. /\ c \in Contexts /\ c.level = d.level /\ c.shadowed = d.shadowed
    BY <1>7 DEF SameScopes
  <1>10. Outside(c, Outer, y)
    BY <1>4, <1>7, <1>9 DEF Outside
  <1>11. c.level = 0 => c.shadowed = <<>> /\ Unscoped(Outer, "returning")
    BY <1>3, <1>9 DEF Unscoped
  <1> QED BY <1>1, <1>2, <1>3, <1>4, <1>6, <1>8, <1>9, <1>10, <1>11 DEF MachineInv, Sound, Statuses

-----------------------------------------------------------------------------
(* Starting to evaluate a value.                                             *)

LEMMA EvalOnTop ==
  ASSUME MachineInv, NEW T, Evaluating(T)
  PROVE  /\ Frame.kind = "eval" /\ Frame.v \in Values /\ Frame.open \in BOOLEAN
         /\ frames # <<>> /\ status = "running" /\ Frame.v.t \in T
         /\ Outer \in Seq(Frames) /\ world \in Worlds /\ result \in Values
         /\ ctx \in Contexts /\ Undone(ctx) /\ ctx.level \in Nat
         /\ \E y : Outside(ctx, Outer, y) /\ (Outer # <<>> => Waits(Outer[Len(Outer)], y))
         /\ ctx.level = 0 => ctx.shadowed = <<>> /\ Frame.v.t = "fun" /\ Frame.open
  <1>1. Frame.kind = "eval" /\ frames # <<>> /\ status = "running" /\ Frame.v.t \in T
    BY DEF Evaluating
  <1>2. PICK y \in Outsides :
          /\ Reaches(Outer, y) /\ Stands(Frame, y)
          /\ Outer # <<>> => Waits(Outer[Len(Outer)], y)
          /\ Len(ctx.stack) = y.height + HeightIn(Frame)
          /\ ~Scoped(Frame) => ctx.level = y.level /\ y.mark <= Len(ctx.shadowed)
    BY <1>1, OnTop
  <1>3. Frame \in Frames /\ Outer \in Seq(Frames)
    BY <1>1, OnTop
  <1>4. Frame.v \in Values /\ Frame.open \in BOOLEAN
    BY <1>1, <1>3, FrameParts
  <1>5. /\ world \in Worlds /\ result \in Values /\ ctx \in Contexts /\ Undone(ctx)
        /\ ctx.level \in Nat
        /\ ctx.level = 0 => ctx.shadowed = <<>> /\ Unscoped(frames, status)
    BY DEF MachineInv, Sound, Contexts
  <1>6. ~Scoped(Frame) /\ HeightIn(Frame) = 0 /\ y.height \in Nat
    BY <1>1 DEF Scoped, HeightIn, Outsides
  <1>7. Outside(ctx, Outer, y)
    BY <1>2, <1>6 DEF Outside
  <1>8. Unscoped(frames, status) => Frame.v.t = "fun" /\ Frame.open
    BY <1>1 DEF Unscoped, Frame
  <1> QED BY <1>1, <1>2, <1>3, <1>4, <1>5, <1>7, <1>8

LEMMA EnterScriptStep ==
  ASSUME MachineInv, EnterScript
  PROVE  MachineInv'
  <1>1. CASE Throw
    BY <1>1, Throwing
  <1>2. CASE ~Throw
    <2> DEFINE code == Frame.v.code
               f    == ScriptFrame(code, ctx, IF Frame.open THEN ScopeOf(ctx) ELSE NoScope)
               c    == IF Frame.open THEN OpenScope(ctx) ELSE ctx
    <2>1. /\ Evaluating({"fun"}) /\ ctx' = c /\ frames' = Append(Outer, f)
          /\ world' = world /\ status' = status /\ result' = result
      BY <1>2 DEF EnterScript
    <2>2. /\ Frame.v \in Values /\ Frame.v.t = "fun" /\ Frame.open \in BOOLEAN
          /\ status = "running" /\ Outer \in Seq(Frames) /\ world \in Worlds /\ result \in Values
          /\ ctx \in Contexts /\ Undone(ctx) /\ ctx.level \in Nat
          /\ ctx.level = 0 => ctx.shadowed = <<>> /\ Frame.open
      BY <2>1, EvalOnTop
    <2>3. PICK y : Outside(ctx, Outer, y) /\ (Outer # <<>> => Waits(Outer[Len(Outer)], y))
      BY <2>1, EvalOnTop
    <2>4. code \in Codes(Values)
      BY <2>2, Parts
    <2>5. Len(ctx.stack) \in Nat /\ Len(ctx.shadowed) \in Nat
      BY <2>2 DEF Contexts
    <2>6. /\ c \in Contexts /\ Undone(c) /\ c.stack = ctx.stack /\ c.shadowed = ctx.shadowed
          /\ c.level = IF Frame.open THEN ctx.level + 1 ELSE ctx.level
      BY <2>2, Opening
    <2> HIDE DEF c
    <2>7. /\ f \in Frames /\ f.kind = "script" /\ f.code = code /\ f.pc = 1
          /\ f.base = Len(ctx.stack)
          /\ f.scope = IF Frame.open THEN Len(ctx.shadowed) ELSE NoScope
      <3>1. /\ f.kind = "script" /\ f.code = code /\ f.pc = 1 /\ f.base = Len(ctx.stack)
            /\ f.scope = IF Frame.open THEN Len(ctx.shadowed) ELSE NoScope
        BY DEF ScriptFrame, ScopeOf
      <3>2. f \in ScriptFrames
        BY <2>4, <2>5 DEF ScriptFrame, ScopeOf, ScriptFrames
      <3> QED BY <3>1, <3>2, ScriptFrameParts
    <2> HIDE DEF f
    <2>8. Scoped(f) <=> Frame.open
      BY <2>2, <2>5, <2>7 DEF Scoped, NoScope
    <2>9. /\ y.height = Len(ctx.stack) /\ y.level = ctx.level /\ y.mark <= Len(ctx.shadowed)
          /\ Reaches(Outer, y)
      BY <2>3 DEF Outside
    <2>10. Stands(f, y)
      <3>1. 1 \in 1 .. Len(code) + 1
        BY <2>4, CodeHeights
      <3>2. ctx.level = 0 => Len(ctx.shadowed) = 0
        BY <2>2
      <3> QED BY <2>7, <2>8, <2>9, <3>1, <3>2 DEF Stands
    <2>11. Append(Outer, f) \in Seq(Frames) /\ Reaches(Append(Outer, f), After(f, y))
      BY <2>2, <2>3, <2>7, <2>9, <2>10, Pushed
    <2>12. HeightIn(f) = 0
      BY <2>4, <2>7, CodeHeights DEF HeightIn
    <2>13. Outside(c, Append(Outer, f), After(f, y))
      BY <2>5, <2>6, <2>7, <2>8, <2>9, <2>11, <2>12 DEF Outside, After
    <2>14. c.level # 0
      BY <2>2, <2>6
    <2> QED BY <2>1, <2>2, <2>6, <2>11, <2>13, <2>14 DEF MachineInv, Sound, Statuses
  <1> QED BY <1>1, <1>2

LEMMA EnterClosureStep ==
  ASSUME GlobalsSound, MachineInv, EnterClosure
  PROVE  MachineInv'
  <1> DEFINE a    == IF Frame.open THEN OpenScope(ctx) ELSE ctx
             c    == ApplyBindings(a, Frame.v.binds)
             mark == Len(ctx.shadowed)
             fs   == IF Frame.open THEN Append(Outer, ScopeFrame(mark)) ELSE Outer
             eval == EvalFrame(Frame.v.fun, Frame.open)
  <1>1. /\ Evaluating({"closure"}) /\ ctx' = c /\ frames' = fs \o <<eval>>
        /\ world' = world /\ status' = status /\ result' = result
    BY DEF EnterClosure, ScopeOf
  <1> HIDE DEF c, a, fs, eval
  <1>2. /\ Frame.v \in Values /\ Frame.v.t = "closure" /\ Frame.open \in BOOLEAN
        /\ status = "running" /\ Outer \in Seq(Frames) /\ world \in Worlds /\ result \in Values
        /\ ctx \in Contexts /\ Undone(ctx) /\ ctx.level \in Nat /\ ctx.level # 0
    BY <1>1, EvalOnTop
  <1>3. PICK x : Outside(ctx, Outer, x) /\ (Outer # <<>> => Waits(Outer[Len(Outer)], x))
    BY <1>1, EvalOnTop
  <1>4. Frame.v.fun \in Values /\ Frame.v.binds \in Binds(Values)
    BY <1>2, Parts
  <1>5. /\ a \in Contexts /\ Undone(a) /\ a.stack = ctx.stack /\ a.shadowed = ctx.shadowed
        /\ a.level = IF Frame.open THEN ctx.level + 1 ELSE ctx.level
        /\ mark \in Nat
    BY <1>2, Opening DEF a
  <1>6. Kept(a, c)
    <2>1. a.level >= 1
      BY <1>2, <1>5
    <2> QED BY <1>4, <1>5, <2>1, ApplyingBindings DEF c
  <1>7. /\ c \in Contexts /\ Undone(c) /\ c.stack = ctx.stack /\ c.level = a.level
        /\ mark <= Len(c.shadowed)
    BY <1>5, <1>6 DEF Kept
  <1>8. c.level # 0
    BY <1>2, <1>5, <1>7
  <1>9. /\ Reaches(Outer, x) /\ x.height = Len(ctx.stack) /\ x.level = ctx.level
        /\ x.mark <= mark
    BY <1>3 DEF Outside
  <1>10. PICK y : /\ fs \in Seq(Frames) /\ Outside(c, fs, y)
                  /\ fs # <<>> => Waits(fs[Len(fs)], y)
    <2>1. CASE Frame.open
      <3> DEFINE s == ScopeFrame(mark)
                 y == [height |-> x.height, level |-> x.level + 1, mark |-> mark]
      <3>1. fs = Append(Outer, s)
        BY <2>1 DEF fs
      <3>2. s \in Frames /\ Reaches(Append(Outer, s), y) /\ Waits(s, y)
        <4> HIDE DEF mark
        <4> QED BY <1>2, <1>3, <1>5, <1>9, PushedScope
      <3> HIDE DEF s
      <3>3. fs \in Seq(Frames) /\ fs[Len(fs)] = s
        BY <1>2, <3>1, <3>2, Appended
      <3>4. Outside(c, fs, y)
        BY <1>5, <1>7, <1>9, <2>1, <3>1, <3>2 DEF Outside
      <3> HIDE DEF y
      <3> QED BY <3>2, <3>3, <3>4
    <2>2. CASE ~Frame.open
      <3>1. x.mark <= Len(c.shadowed)
        <4>1. x.mark \in Nat
          <5>1. Reaches(Outer, x) => x \in Outsides
            <6>1. Len(Outer) + 1 \in 1 .. Len(Outer) + 1
              BY <1>2
            <6> QED BY <6>1 DEF Reaches, Fits
          <5> QED BY <1>9, <5>1 DEF Outsides
        <4>2. Len(c.shadowed) \in Nat
          BY <1>7 DEF Contexts
        <4> QED BY <1>5, <1>7, <1>9, <4>1, <4>2
      <3>2. Outside(c, Outer, x)
        BY <1>5, <1>7, <1>9, <2>2, <3>1 DEF Outside
      <3>3. fs = Outer
        BY <2>2 DEF fs
      <3> QED BY <1>2, <1>3, <3>2, <3>3
    <2> QED BY <2>1, <2>2
  <1>11. eval \in Frames /\ Reaches(Append(fs, eval), y)
    <2>1. Reaches(fs, y)
      BY <1>10 DEF Outside
    <2> QED BY <1>2, <1>4, <1>10, <2>1, PushedEval DEF eval
  <1>12. fs \o <<eval>> = Append(fs, eval) /\ Append(fs, eval) \in Seq(Frames)
    BY <1>10, <1>11, Appended
  <1>13. Outside(c, Append(fs, eval), y)
    BY <1>10, <1>11 DEF Outside
  <1> QED BY <1>1, <1>2, <1>7, <1>8, <1>12, <1>13 DEF MachineInv, Sound, Statuses

LEMMA EnterComposeStep ==
  ASSUME MachineInv, EnterCompose
  PROVE  MachineInv'
  <1> DEFINE s    == ComposeFrame(Frame.v.b, Frame.open)
             eval == EvalFrame(Frame.v.a, TRUE)
             fs   == Append(Outer, s)
  <1>1. /\ Evaluating({"compose"}) /\ ctx' = ctx /\ frames' = Outer \o <<s, eval>>
        /\ world' = world /\ status' = status /\ result' = result
    BY DEF EnterCompose
  <1> HIDE DEF s, eval
  <1>2. /\ Frame.v \in Values /\ Frame.v.t = "compose" /\ Frame.open \in BOOLEAN
        /\ status = "running" /\ Outer \in Seq(Frames) /\ world \in Worlds /\ result \in Values
        /\ ctx \in Contexts /\ Undone(ctx) /\ ctx.level \in Nat /\ ctx.level # 0
    BY <1>1, EvalOnTop
  <1>3. PICK x : Outside(ctx, Outer, x) /\ (Outer # <<>> => Waits(Outer[Len(Outer)], x))
    BY <1>1, EvalOnTop
  <1>4. Frame.v.a \in Values /\ Frame.v.b \in Values
    BY <1>2, Parts
  <1>5. Reaches(Outer, x) /\ x.level >= 1
    BY <1>2, <1>3 DEF Outside
  <1>6. s \in Frames /\ Reaches(fs, x) /\ Waits(s, x)
    BY <1>2, <1>3, <1>4, <1>5, PushedCompose DEF s
  <1>7. fs \in Seq(Frames) /\ fs[Len(fs)] = s
    BY <1>2, <1>6, Appended
  <1> HIDE DEF fs
  <1>8. eval \in Frames /\ Reaches(Append(fs, eval), x)
    <2>1. TRUE \in BOOLEAN
      OBVIOUS
    <2> QED BY <1>4, <1>6, <1>7, <2>1, PushedEval DEF eval
  <1>9. Outer \o <<s, eval>> = Append(fs, eval) /\ Append(fs, eval) \in Seq(Frames)
    BY <1>2, <1>6, <1>7, <1>8, Appended DEF fs
  <1>10. Outside(ctx, Append(fs, eval), x)
    BY <1>3, <1>8 DEF Outside
  <1> QED BY <1>1, <1>2, <1>9, <1>10 DEF MachineInv, Sound, Statuses

\* A value that is no function, and the functions behind assertions.
LEMMA ReturnStep ==
  ASSUME MachineInv, NEW T, Evaluating(T), "fun" \notin T,
         NEW v \in Values, Return(v, ctx, Outer)
  PROVE  MachineInv'
  <1>1. /\ status' = "returning" /\ result' = v /\ ctx' = ctx /\ frames' = Outer /\ world' = world
    BY DEF Return
  <1>2. /\ Outer \in Seq(Frames) /\ world \in Worlds
        /\ ctx \in Contexts /\ Undone(ctx) /\ ctx.level \in Nat /\ ctx.level # 0
        /\ \E y : Outside(ctx, Outer, y) /\ (Outer # <<>> => Waits(Outer[Len(Outer)], y))
    BY EvalOnTop
  <1> QED BY <1>1, <1>2 DEF MachineInv, Sound, Statuses

LEMMA EnterOtherStep ==
  ASSUME MachineInv, EnterOther
  PROVE  MachineInv'
  <1> DEFINE T == {"nil", "bool", "str", "obj", "list", "iterator", "error"}
             v == IF Frame.v.t = "nil" THEN Value(ctx, "input") ELSE DelayedError
  <1>1. CASE Throw
    BY <1>1, Throwing
  <1>2. CASE ~Throw
    <2>1. Evaluating(T) /\ Return(v, ctx, Outer)
      BY <1>2 DEF EnterOther
    <2>2. v \in Values
      <3>1. ctx \in Contexts
        BY <2>1, EvalOnTop
      <3>2. Value(ctx, "input") \in Values
        BY <3>1, VariablesAssumption DEF Contexts, Bindings, Value
      <3> QED BY <3>2, SimpleValues
    <2>3. "fun" \notin T
      OBVIOUS
    <2> HIDE DEF v, T
    <2> QED BY <2>1, <2>2, <2>3, ReturnStep
  <1> QED BY <1>1, <1>2

LEMMA EnterWarningStep ==
  ASSUME MachineInv, EnterWarning
  PROVE  MachineInv'
  <1> DEFINE T == {"warning", "warning if neq"}
  <1>1. CASE Throw
    BY <1>1, Throwing
  <1>2. CASE ~Throw
    <2>1. Evaluating(T) /\ Return(Nil, ctx, Outer)
      BY <1>2 DEF EnterWarning
    <2>2. "fun" \notin T
      OBVIOUS
    <2> HIDE DEF T
    <2> QED BY <2>1, <2>2, SimpleValues, ReturnStep
  <1> QED BY <1>1, <1>2

-----------------------------------------------------------------------------
(* What waited for a value, and exceptions.                                  *)

LEMMA LeaveScopeStep ==
  ASSUME GlobalsSound, MachineInv, LeaveScope
  PROVE  MachineInv'
  <1> DEFINE d == IF Scoped(Frame) THEN CloseScope(ctx, Frame.scope) ELSE ctx
  <1>1. /\ frames # <<>> /\ Frame.kind = "scope" /\ status = "returning" /\ status' = status
        /\ ctx' = CloseScope(ctx, Frame.scope) /\ frames' = Outer
        /\ world' = world /\ result' = result
    BY DEF LeaveScope, Returning
  <1>2. Scoped(Frame) /\ HeightIn(Frame) = 0
    BY <1>1, OnTop, FrameParts DEF Scoped, NoScope, HeightIn
  <1>3. ctx' = d
    BY <1>1, <1>2
  <1>4. /\ d \in Contexts /\ Undone(d) /\ d.stack = ctx.stack /\ d.level \in Nat
        /\ Outer \in Seq(Frames) /\ world \in Worlds /\ result \in Values
        /\ d.level = 0 => d.shadowed = <<>> /\ Outer = <<>>
    BY <1>1, Leaving
  <1>5. PICK y \in Outsides :
          /\ Reaches(Outer, y) /\ y.level = d.level /\ y.mark <= Len(d.shadowed)
          /\ Outer # <<>> => Waits(Outer[Len(Outer)], y)
          /\ Len(ctx.stack) = y.height + HeightIn(Frame)
    BY <1>1, Leaving
  <1> HIDE DEF d
  <1>6. Outside(d, Outer, y)
    BY <1>2, <1>4, <1>5 DEF Outside, Outsides
  <1>7. d.level = 0 => d.shadowed = <<>> /\ Unscoped(Outer, "returning")
    BY <1>4 DEF Unscoped
  <1> QED BY <1>1, <1>3, <1>4, <1>5, <1>6, <1>7 DEF MachineInv, Sound, Statuses

LEMMA ComposedStep ==
  ASSUME GlobalsSound, MachineInv, Composed
  PROVE  MachineInv'
  <1> DEFINE c    == SetVariable(ctx, "input", result)
             eval == EvalFrame(Frame.b, Frame.open)
  <1>1. /\ frames # <<>> /\ Frame.kind = "compose" /\ status = "returning" /\ status' = "running"
        /\ ctx' = c /\ frames' = Append(Outer, eval) /\ world' = world /\ result' = result
    BY DEF Composed, Returning
  <1> HIDE DEF c, eval
  <1>2. PICK y \in Outsides :
          /\ Reaches(Outer, y)
          /\ Outer # <<>> => Waits(Outer[Len(Outer)], y)
          /\ Len(ctx.stack) = y.height + HeightIn(Frame)
          /\ ~Scoped(Frame) => ctx.level = y.level /\ y.mark <= Len(ctx.shadowed)
          /\ Waits(Frame, After(Frame, y))
    BY <1>1, OnTop
  <1>3. ~Scoped(Frame) /\ HeightIn(Frame) = 0
    BY <1>1 DEF Scoped, HeightIn
  <1>4. /\ ctx \in Contexts /\ Undone(ctx) /\ world \in Worlds /\ result \in Values
        /\ Frame \in Frames /\ Outer \in Seq(Frames) /\ Len(ctx.shadowed) \in Nat
        /\ y.level \in Nat /\ y.mark \in Nat /\ y.height \in Nat
    BY <1>1, OnTop DEF MachineInv, Sound, Contexts, Outsides
  <1>5. ctx.level >= 1 /\ ctx.level = y.level
    BY <1>2, <1>3, <1>4 DEF Waits, After
  <1>6. Kept(ctx, c)
    BY <1>4, <1>5, SettingOne, VariablesAssumption DEF c
  <1>7. /\ c \in Contexts /\ Undone(c) /\ c.stack = ctx.stack /\ c.level = ctx.level
        /\ Len(ctx.shadowed) <= Len(c.shadowed) /\ Len(c.shadowed) \in Nat
    BY <1>6 DEF Kept, Contexts
  <1>8. Frame.b \in Values /\ Frame.open \in BOOLEAN
    BY <1>1, <1>4, FrameParts
  <1>9. eval \in Frames /\ Reaches(Append(Outer, eval), y)
    BY <1>2, <1>4, <1>8, PushedEval DEF eval
  <1>10. Append(Outer, eval) \in Seq(Frames)
    BY <1>4, <1>9
  <1>11. Outside(c, Append(Outer, eval), y)
    BY <1>2, <1>3, <1>4, <1>5, <1>7, <1>9 DEF Outside
  <1>12. c.level # 0
    BY <1>4, <1>5, <1>7
  <1> QED BY <1>1, <1>4, <1>7, <1>10, <1>11, <1>12 DEF MachineInv, Sound, Statuses

LEMMA CalledStep ==
  ASSUME MachineInv, Called
  PROVE  MachineInv'
  <1> DEFINE c == Replace(ctx, 1, result)
  <1>1. /\ frames # <<>> /\ Frame.kind = "script" /\ status = "returning" /\ status' = "running"
        /\ ctx' = c /\ frames' = frames /\ world' = world /\ result' = result
    BY DEF Called, Returning
  <1>2. /\ ctx \in Contexts /\ Undone(ctx) /\ world \in Worlds /\ result \in Values
        /\ frames \in Seq(Frames) /\ ctx.level \in Nat /\ ctx.level >= 1
    BY <1>1, ScriptOnTop DEF MachineInv, Sound
  <1>3. Len(ctx.stack) \in Nat /\ Len(ctx.stack) >= 1
    <2>1. PICK y \in Outsides : /\ Len(ctx.stack) = y.height + HeightIn(Frame)
                                /\ Waits(Frame, After(Frame, y))
      BY <1>1, OnTop
    <2>2. Len(ctx.stack) \in Nat /\ y.height \in Nat
      BY <1>2 DEF Contexts, Outsides
    <2>3. HeightIn(Frame) >= 1 /\ HeightIn(Frame) \in Nat
      <3>1. /\ Frame.pc \in 1 .. Len(Frame.code) + 1
            /\ Heights(Frame.code) \in [1 .. Len(Frame.code) + 1 -> Nat]
        BY <1>1, ScriptOnTop
      <3> QED BY <1>1, <2>1, <3>1 DEF Waits, HeightIn
    <2> QED BY <2>1, <2>2, <2>3
  <1>4. SameScopes(ctx, c) /\ Len(c.stack) = Len(ctx.stack)
    <2>1. 1 \in 0 .. Len(ctx.stack)
      BY <1>3
    <2>2. SameScopes(ctx, c) /\ Len(c.stack) = Len(ctx.stack) - 1 + 1
      BY <1>2, <2>1, Replacing
    <2> HIDE DEF c
    <2> QED BY <1>3, <2>2
  <1> HIDE DEF c
  <1>5. Undone(c)
    BY <1>2, <1>4, StillUndone
  <1>6. PICK x : Outside(ctx, frames, x)
    BY DEF MachineInv, Sound
  <1>7. Outside(c, frames, x)
    BY <1>4, <1>6 DEF Outside, SameScopes
  <1>8. c \in Contexts /\ c.level # 0
    BY <1>2, <1>4 DEF SameScopes
  <1> QED BY <1>1, <1>2, <1>5, <1>7, <1>8 DEF MachineInv, Sound, Statuses

LEMMA UnwindStep ==
  ASSUME GlobalsSound, MachineInv, Unwind
  PROVE  MachineInv'
  <1> DEFINE d == IF Scoped(Frame) THEN CloseScope(ctx, Frame.scope) ELSE ctx
             s == SubSeq(d.stack, 1, Frame.base)
             c == IF Frame.kind = "script" THEN [d EXCEPT !.stack = s] ELSE d
  <1>1. /\ frames # <<>> /\ status = "throwing" /\ status' = status
        /\ ctx' = c /\ frames' = Outer /\ world' = world /\ result' = result
    <2>1. frames # <<>> /\ status = "throwing" /\ status' = status
          /\ frames' = Outer /\ world' = world /\ result' = result
      BY DEF Unwind
    <2>2. ctx' = c
      BY DEF Unwind, Scoped
    <2> QED BY <2>1, <2>2
  <1>2. /\ d \in Contexts /\ Undone(d) /\ d.stack = ctx.stack /\ d.level \in Nat
        /\ Outer \in Seq(Frames) /\ world \in Worlds /\ result \in Values
        /\ d.level = 0 => d.shadowed = <<>> /\ Outer = <<>>
    BY <1>1, Leaving
  <1>3. PICK y \in Outsides :
          /\ Reaches(Outer, y) /\ y.level = d.level /\ y.mark <= Len(d.shadowed)
          /\ Len(ctx.stack) = y.height + HeightIn(Frame)
          /\ Frame.kind = "script" => Frame.base = y.height
    BY <1>1, Leaving
  <1> HIDE DEF d
  <1>4. SameScopes(d, c) /\ Len(c.stack) = y.height
    <2>1. CASE Frame.kind = "script"
      <3>1. /\ Frame.code \in Codes(Values) /\ Frame.pc \in 1 .. Len(Frame.code) + 1
            /\ Heights(Frame.code) \in [1 .. Len(Frame.code) + 1 -> Nat]
        BY <1>1, <2>1, ScriptOnTop
      <3>2. HeightIn(Frame) \in Nat /\ y.height \in Nat
        BY <2>1, <3>1 DEF HeightIn, Outsides
      <3>3. Frame.base \in Nat /\ Frame.base <= Len(d.stack) /\ Frame.base = y.height
        BY <1>2, <1>3, <2>1, <3>2
      <3>4. d.stack \in Seq(Values)
        BY <1>2 DEF Contexts
      <3>5. s \in Seq(Values) /\ Len(s) = Frame.base
        <4> DEFINE k == Frame.base
                   V == Values
        <4>1. \A j \in 1 .. k : d.stack[j] \in V
          <5>1. \A j \in 1 .. k : j \in 1 .. Len(d.stack)
            BY <3>3, <3>4
          <5> QED BY <3>4, <5>1, ElementOfSeq
        <4>2. k \in Nat /\ 1 \in Int /\ k \in Int
          BY <3>3
        <4> HIDE DEF k, V
        <4>3. /\ SubSeq(d.stack, 1, k) \in Seq(V)
              /\ Len(SubSeq(d.stack, 1, k)) = IF 1 <= k THEN k - 1 + 1 ELSE 0
          BY <4>1, <4>2, SubSeqProperties
        <4>4. Len(SubSeq(d.stack, 1, k)) = k
          BY <4>2, <4>3
        <4> QED BY <4>3, <4>4 DEF k, V
      <3> HIDE DEF s
      <3>6. SameScopes(d, c) /\ c.stack = s
        BY <1>2, <2>1, <3>5, StackOnly
      <3> QED BY <3>3, <3>5, <3>6
    <2>2. CASE Frame.kind # "script"
      <3>1. HeightIn(Frame) = 0 /\ y.height \in Nat
        BY <2>2 DEF HeightIn, Outsides
      <3> QED BY <1>2, <1>3, <2>2, <3>1 DEF SameScopes
    <2> QED BY <2>1, <2>2
  <1> HIDE DEF c
  <1>5. Undone(c)
    BY <1>2, <1>4, StillUndone
  <1>6. c \in Contexts /\ c.level = d.level /\ c.shadowed = d.shadowed
    BY <1>4 DEF SameScopes
  <1>7. Outside(c, Outer, y)
    BY <1>3, <1>4, <1>6 DEF Outside
  <1>8. c.level = 0 => c.shadowed = <<>> /\ Unscoped(Outer, "throwing")
    BY <1>2, <1>6 DEF Unscoped
  <1> QED BY <1>1, <1>2, <1>5, <1>6, <1>7, <1>8 DEF MachineInv, Sound, Statuses

LEMMA EndStep ==
  ASSUME MachineInv, Done \/ Fail
  PROVE  MachineInv'
  <1>1. /\ frames = <<>> /\ status' \in {"done", "failed"}
        /\ world' = world /\ ctx' = ctx /\ frames' = frames /\ result' = result
    BY DEF Done, Fail
  <1>2. Unscoped(frames, status')
    BY <1>1 DEF Unscoped
  <1> QED BY <1>1, <1>2 DEF MachineInv, Sound, Statuses

LEMMA NextSound ==
  ASSUME GlobalsSound, WorldsSound, MachineInv, [Next]_vars
  PROVE  MachineInv'
  <1>1. CASE Enter
    BY <1>1, EnterScriptStep, EnterClosureStep, EnterComposeStep, EnterOtherStep, EnterWarningStep
       DEF Enter
  <1>2. CASE Instruction
    BY <1>2, PushStep, PopTopStep, JumpStep, JumpIfNotStep, JumpShortStep, GetVarStep, SetVarStep,
       MemberCStep, MakeIteratorStep, LoopStep, MakeListStep, MakeDefaultsStep, NotStep,
       BinaryOpStep, CallStep, FinishStep
       DEF Instruction
  <1>3. CASE Leave
    BY <1>3, LeaveScopeStep, ComposedStep, CalledStep, UnwindStep, EndStep DEF Leave
  <1>4. CASE UNCHANGED vars
    <2>1. world' = world /\ ctx' = ctx /\ frames' = frames /\ status' = status /\ result' = result
      BY <1>4 DEF vars
    <2> QED BY <2>1 DEF MachineInv
  <1> QED BY <1>1, <1>2, <1>3, <1>4 DEF Next

\* The invariant says what the context is when the script has ended, and how
\* much of the stack is whose while it runs.
LEMMA SoundIsRestored ==
  ASSUME GlobalsSound, MachineInv
  PROVE  ContextRestored
  <1>1. PICK x : Outside(ctx, frames, x)
    BY DEF MachineInv, Sound
  <1>2. /\ ctx \in Contexts /\ Undone(ctx) /\ frames \in Seq(Frames)
        /\ ctx.level = 0 => ctx.shadowed = <<>>
        /\ status \in {"done", "failed"} => frames = <<>>
    BY DEF MachineInv, Sound
  <1>3. ASSUME Ended
        PROVE  /\ ctx.vars = InitialContext.vars /\ ctx.shadowed = <<>>
               /\ ctx.level = 0 /\ ctx.stack = <<>>
    <2>1. frames = <<>>
      BY <1>2, <1>3 DEF Ended
    <2>2. x = Bottom
      BY <1>1, <2>1, NoFrames DEF Outside
    <2>3. Len(ctx.stack) = 0 /\ ctx.level = 0 /\ ctx.shadowed = <<>>
      BY <1>1, <1>2, <2>2 DEF Outside, Bottom
    <2>4. ctx.stack \in Seq(Values) /\ ctx.vars \in [Variables -> Bindings]
          /\ InitialContext.vars \in [Variables -> Bindings]
      BY <1>2, Initially DEF Contexts
    <2>5. ctx.stack = <<>>
      BY <2>3, <2>4
    <2>6. \A v \in Variables : ctx.vars[v] = InitialContext.vars[v]
      BY <1>2, <2>3 DEF Undone
    <2>7. ctx.vars = InitialContext.vars
      BY <2>4, <2>6
    <2> QED BY <2>3, <2>5, <2>7
  <1>4. ASSUME NEW i \in 1 .. Len(frames), frames[i].kind = "script"
        PROVE  frames[i].base <= Len(ctx.stack)
    <2>1. PICK o : Fits(frames, o) /\ x = o[Len(frames) + 1]
      BY <1>1 DEF Outside, Reaches
    <2>2. Stands(frames[i], o[i]) /\ o[i].height <= x.height
      BY <2>1 DEF Fits
    <2>3. frames[i].base = o[i].height
      BY <1>4, <2>2 DEF Stands
    <2> QED BY <1>1, <2>2, <2>3 DEF Outside
  <1> QED BY <1>3, <1>4 DEF ContextRestored

-----------------------------------------------------------------------------

\* Whatever a script does, and also when it fails in the middle of nested calls
\* or by nesting too deep (Context::eval, closeScope and the catch block of
\* script/context.cpp): when it has ended, every variable has the value and the
\* level from before, no scope is open and the stack is as it was, and on the way
\* no script takes values of its caller from the stack.
THEOREM ContextIsRestored ==
  ASSUME GlobalsSound, ProgramsSound, WorldsSound
  PROVE  Spec => []ContextRestored
  <1>1. Init => MachineInv
    BY InitSound
  <1>2. MachineInv /\ [Next]_vars => MachineInv'
    BY NextSound
  <1>3. MachineInv => ContextRestored
    BY SoundIsRestored
  <1> QED BY <1>1, <1>2, <1>3, PTL DEF Spec

=============================================================================
