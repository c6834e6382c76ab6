------------------------ MODULE TransfersRefinement ------------------------
(***************************************************************************)
(* Transfers implements IdealTransfers: the pairs of rows and the undo     *)
(* commands' snapshots, read as whole transfers.                           *)
(***************************************************************************)
EXTENDS Transfers

CONSTANT Absent

Sender(t)   == CHOOSE r \in Legs(t) : rows[r].amount < 0
Receiver(t) == CHOOSE r \in Legs(t) : rows[r].amount > 0

bookView ==
    [t \in TransferId |->
        IF Legs(t) = {} THEN Absent
        ELSE IF \A r \in Legs(t) : rows[r].amount = 0
             THEN [ends |-> {rows[r].acct : r \in Legs(t)}]
             ELSE [from   |-> rows[Sender(t)].acct,
                   to     |-> rows[Receiver(t)].acct,
                   amount |-> rows[Receiver(t)].amount]]

Recalled(k) ==
    IF k.op = "void"
    THEN [from |-> rows[k.from.row].acct, to |-> rows[k.to.row].acct,
          amount |-> k.to.amount]
    ELSE [from |-> k.spec.from, to |-> k.spec.to, amount |-> k.spec.amount]

memoryView ==
    [t \in TransferId |->
        IF token[t] = NoToken \/ Recalled(token[t]).amount = 0
        THEN Absent ELSE Recalled(token[t])]

Ideal == INSTANCE IdealTransfers WITH book <- bookView, memory <- memoryView

ASSUME AbsentAssumption == Absent \notin Ideal!Moving \cup Ideal!Struck

(* Every step of the service is one step of the ideal one, or changes      *)
(* nothing a caller can see of its transfers: no interleaving, failure or  *)
(* restart loses money from one side only, edits never turn a transfer     *)
(* round, and undo restores the very transfer that was voided or deleted.  *)
ImplementsIdeal == Ideal!Spec
=============================================================================
