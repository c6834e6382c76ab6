---------------------------- MODULE MCInvestment ----------------------------
(* Small instances of InvestmentLedger: two accounts, which are alike, and *)
(* two days.                                                               *)
EXTENDS InvestmentLedger

CONSTANTS a1, a2

Both  == {a1, a2}
Alike == Permutations(Both)

Bound(rows, splits, switches, closes, lumps, days) ==
    [rows |-> rows, splits |-> splits, switches |-> switches, closes |-> closes,
     lumps |-> lumps, days |-> days]

Some == {Bound(3, 1, 0, FALSE, {2}, {1, 2}), Bound(3, 0, 1, TRUE, {2}, {1, 2}),
         Bound(4, 0, 0, TRUE, {2}, {1, 2}), Bound(3, 0, 0, TRUE, {2, 4}, {1})}
=============================================================================
