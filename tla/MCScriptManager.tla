--------------------------- MODULE MCScriptManager ---------------------------
(***************************************************************************)
(* Two games for the script manager.                                       *)
(*                                                                         *)
(* Sheet has a field of each kind: name; sub, which follows the set field  *)
(* border until it is edited; type, which shows both as one; number, the   *)
(* position of the card in the order of the names; count, which adds up    *)
(* all names; and hint, which reads itself.                                *)
(*                                                                         *)
(* In Chain a field is read at the end of a chain and at its beginning.    *)
(***************************************************************************)
EXTENDS ScriptManager, TLC

SheetCardFields == << "name", "sub", "type", "number" >>
SheetSetFields  == << "border", "count", "hint" >>

SheetScript == [name |-> "none", sub |-> "default", type |-> "combined",
                number |-> "position", border |-> "none",
                count |-> "computed", hint |-> "computed"]

SheetReads == [name |-> {}, sub |-> {"border"}, type |-> {}, number |-> {},
               border |-> {}, count |-> {"keywords"},
               hint |-> {"count", "hint"}]

SheetReadsAll == [name |-> {}, sub |-> {}, type |-> {}, number |-> {"name"},
                  border |-> {}, count |-> {"name"}, hint |-> {}]

SheetParts == [name |-> << >>, sub |-> << >>, type |-> << "name", "sub" >>,
               number |-> << >>, border |-> << >>, count |-> << >>,
               hint |-> << >>]

ChainCardFields == << "a", "b", "d", "c" >>

ChainScript == [a |-> "none", b |-> "computed", d |-> "computed",
                c |-> "computed"]

ChainReads == [a |-> {}, b |-> {"a"}, d |-> {"b"}, c |-> {"a", "d"}]

ChainReadsAll == [a |-> {}, b |-> {}, d |-> {}, c |-> {}]

ChainParts == [a |-> << >>, b |-> << >>, d |-> << >>, c |-> << >>]

NoFields == << >>

=============================================================================
