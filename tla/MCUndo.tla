------------------------------- MODULE MCUndo -------------------------------
(* A small session for TLC: two bank accounts.                             *)
EXTENDS UndoTimeline

SixRows   == 1..6
EightRows == 1..8
Two       == 1..2
Three     == 1..3
Five      == {5}
FiveSix   == {5, 6}

Writes  == {"create", "edit", "delete", "void", "mark"}
Marking == {"create", "edit", "delete", "void", "mark", "finish"}
Session == {"create", "edit", "delete", "close", "reopen", "clear"}

JustWrites == {[kinds |-> Writes, amounts |-> Amount]}
Both       == {[kinds |-> Marking, amounts |-> {5, 6}], [kinds |-> Session, amounts |-> {5}]}
=============================================================================
