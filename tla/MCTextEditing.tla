---------------------------- MODULE MCTextEditing ----------------------------
(* Texts of two parts, with formats, and what is typed into them.           *)
EXTENDS TextEditing
B(s) == <<Open("b")>> \o s \o <<Close("b")>>
I(s) == <<Open("i")>> \o s \o <<Close("i")>>
A == <<Char("a")>>
C == <<Char("c")>>
MCSeparator == <<Open("line"), Char("nl"), Close("line")>>
MCSep == <<Open("sep")>> \o MCSeparator \o <<Close("sep")>>
MCAtom == <<Open("atom")>> \o A \o C \o <<Close("atom")>>
MCInitialTexts == {MCSep \o MCAtom, B(A \o I(C)) \o MCSep}
MCSoftLine == <<Open("soft-line"), Char("nl"), Close("soft-line")>>
MCInsertions == {[text |-> <<Char("a")>>, name |-> "typing"],
                 [text |-> MCSoftLine, name |-> "soft line break"]}
=============================================================================
