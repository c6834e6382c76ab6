---------------------------- MODULE MCTransfers ----------------------------
(* Small instances of Transfers: two bank accounts, a1 and a2, and a       *)
(* brokerage, i1.                                                          *)
EXTENDS TransfersRefinement, TLC

CONSTANTS a1, a2, i1, c1

BankAndBroker == {a1, i1}
TwoBanks      == {a1, a2}
AllThree      == {a1, a2, i1}
TheBrokerage  == {i1}
NoBrokerage   == {}
TheOpenings   == [a \in Account |-> 0]

(* A row that is no transfer, of the register or of the brokerage.         *)
PlainOf(kind, acct, amount) ==
    [kind |-> kind, acct |-> acct, other |-> NoAccount, tid |-> NoTransfer,
     amount |-> amount, date |-> 1, cat |-> NoCategory,
     status |-> IF kind = "regular" THEN "uncleared" ELSE "pending"]

(* The two banks are interchangeable.                                      *)
Banks == Permutations({a1, a2})

NoPlain == {}
CashRow == {PlainOf("deposit", i1, 5)}
=============================================================================
