------------------------------- MODULE MCBooks -------------------------------
(* Two register accounts and a brokerage; six forms, which the scopes name. *)
EXTENDS SplitBooks, TLC

CONSTANTS chk, sav, brk

L(to, n, cat) == [to |-> to, n |-> n, cat |-> cat, tid |-> 0]
F(name, n, lines) == [name |-> name, n |-> n, lines |-> lines]

MCForm ==
    chk :> {F("plain", 1, <<>>),
          F("more",  2, <<>>),
          F("one",   1, <<L(None, 3, 0), L(sav, -2, 0)>>),
          F("less",  2, <<L(None, 3, 0), L(sav, -1, 0)>>),
          F("both",  1, <<L(sav, -2, 1), L(brk, 3, 1)>>),
          F("twice", 1, <<L(sav, 3, 0), L(sav, -2, 0)>>)}
    @@ sav :> {F("out", -2, <<>>)}

MCStatement == chk :> {1, 2} @@ sav :> {2}

Upto(creates, looks, removals, closes, starts, restarts, forms) ==
    [creates |-> creates, looks |-> looks, removals |-> removals, closes |-> closes,
     starts |-> starts, restarts |-> restarts, forms |-> forms]

(* Edits of lines from fresh and stale copies; reconciliations around an   *)
(* edit and a restart; reconciliations of two rows; closed accounts.       *)
MCScopes ==
    {Upto(1, 3, 1, 0, 0, 0, {"plain", "more", "one", "less", "both", "twice"}),
     Upto(1, 1, 1, 0, 2, 1, {"one", "less", "both"}),
     Upto(2, 0, 1, 1, 2, 0, {"one", "out"}),
     Upto(2, 1, 1, 2, 0, 0, {"plain", "one", "out"}),
     Upto(2, 0, 2, 2, 0, 1, {"both", "one", "out"})}
==============================================================================
