------------------------------- MODULE Scripts ------------------------------
(***************************************************************************)
(* What happens to a script from its text to its value: it is parsed       *)
(* (ScriptParser), searched for dependencies (ScriptDependencies) and      *)
(* evaluated (ScriptMachine); what it means is in ScriptMeaning.           *)
(* A program is a record with the syntax tree and what was made of it; of  *)
(* one that is recursive no dependencies are sought, see DependenciesCover.*)
(* errors is whether the parser reported anything: a field warns of it and *)
(* keeps the script, other callers of parse throw it away.                 *)
(***************************************************************************)
EXTENDS ScriptMachine, ScriptParser, ScriptDependencies, ScriptMeaning

Program(tree, lines) ==
  LET p == Parse(Tokens(tree, PREC_ALL, lines))
  IN [tree |-> tree, code |-> p.code, errors |-> p.errors, recursive |-> FALSE]

\* A value that a field or another script can use: not a function.
IsData(v) == v # Unset /\ ~IsFunction(v)

(* The parser reports exactly those scripts that assign or return a        *)
(* statement, and what a script computes is what the manual says: the      *)
(* value, whether there is an error, the members of objects that were      *)
(* looked at, and whether an assertion failed.  The scripts with a report  *)
(* are run as well, since a field keeps and evaluates them (for it the     *)
(* report is a warning of the reader, OptionalScript::parse).  Any wrong   *)
(* precedence, jump target, binding or stack position shows here.          *)
ResultCorrect ==
  Ended => LET m == MeaningOf(program.tree, Globals, world) IN
    /\ program.errors <=> Mistaken(program.tree)
    /\ status = "done" <=> Ok(m)
    /\ reads = m.reads
    /\ status = "done" =>
         /\ warned = m.warned
         /\ IF IsData(m.v) THEN result = m.v ELSE IsFunction(result)

\* The analysis happens before the run, on members that may have changed since.
AnalysisIn(w) == Dependencies(program.code, Globals, w)

(* Every member a script reads is one the search for dependencies found,   *)
(* whatever the members were when it searched: otherwise changing that     *)
(* member would not update the value the script computes.                  *)
DependenciesCover ==
  Ended /\ ~program.recursive =>
    \A w \in Worlds : AnalysisIn(w).ok => reads \subseteq AnalysisIn(w).marks

(* Where jumps meet, the states that are united have stacks of the same   *)
(* height (the assertion in Context::dependencies): otherwise values of    *)
(* different expressions would be united, and members missed.  And the     *)
(* code of every script and function that is started keeps its stack,      *)
(* which is what the proof that a context is restored asks of it.          *)
JoinsBalanced ==
  /\ status = "done" /\ ~program.recursive => \A w \in Worlds : AnalysisIn(w).level
  /\ InScript /\ Frame.pc = 1 => Balanced(Frame.code)
=============================================================================
