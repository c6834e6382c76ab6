--------------------------- MODULE IdealTransfers ---------------------------
(***************************************************************************)
(* What transfer.Service promises its callers, without rows, ledgers or    *)
(* statuses: a transfer is one object that moves an amount from one        *)
(* account to another, or is struck and moves nothing.  Every step changes *)
(* at most one transfer, whole.  Undo brings back exactly what a void or a *)
(* delete took away: the accounts, the direction and the amount.           *)
(***************************************************************************)
EXTENDS Integers

CONSTANTS Account, TransferId, Amount, Absent

VARIABLES
    book,    \* each transfer: moving money, struck, or absent
    memory   \* what undo can still bring back

Moving == {m \in [from : Account, to : Account, amount : Amount] : m.from # m.to}
Struck == [ends : {{a, b} : a, b \in Account}]

IsMoving(t) == book[t] \in Moving
IsStruck(t) == book[t] \in Struck

Put(t, entry)      == book' = [book EXCEPT ![t] = entry]
Remember(t, entry) == memory' = [memory EXCEPT ![t] = entry]

Create(t) ==
    /\ book[t] = Absent /\ memory[t] = Absent
    /\ \E m \in Moving : Put(t, m)
    /\ UNCHANGED memory

(* An edit keeps the direction.                                            *)
Amend(t) ==
    /\ IsMoving(t)
    /\ \E n \in Amount : Put(t, [book[t] EXCEPT !.amount = n])
    /\ UNCHANGED memory

Flip(t) ==
    /\ IsMoving(t)
    /\ Put(t, [from |-> book[t].to, to |-> book[t].from, amount |-> book[t].amount])
    /\ UNCHANGED memory

Strike(t) ==
    /\ IsMoving(t)
    /\ Put(t, [ends |-> {book[t].from, book[t].to}])
    /\ Remember(t, book[t])

Unstrike(t) ==
    /\ IsStruck(t) /\ memory[t] # Absent
    /\ Put(t, memory[t])
    /\ Remember(t, Absent)

Remove(t) ==
    /\ book[t] # Absent
    /\ Put(t, Absent)
    /\ Remember(t, IF IsMoving(t) THEN book[t] ELSE Absent)

BringBack(t) ==
    /\ book[t] = Absent /\ memory[t] # Absent
    /\ Put(t, memory[t])
    /\ Remember(t, Absent)

(* A struck transfer whose void mark was lifted by a status change has no  *)
(* direction left, and an edit may give it either.                         *)
Revive(t) ==
    /\ IsStruck(t)
    /\ \E m \in Moving : {m.from, m.to} = book[t].ends /\ Put(t, m)
    /\ UNCHANGED memory

(* The undo stack is lost with the process.                                *)
Forget(T) ==
    /\ memory' = [t \in TransferId |-> IF t \in T THEN Absent ELSE memory[t]]
    /\ UNCHANGED book

Init ==
    /\ book = [t \in TransferId |-> Absent]
    /\ memory = [t \in TransferId |-> Absent]

Next ==
    \/ \E t \in TransferId :
          Create(t) \/ Amend(t) \/ Flip(t) \/ Strike(t) \/ Unstrike(t)
          \/ Remove(t) \/ BringBack(t) \/ Revive(t)
    \/ \E T \in SUBSET TransferId : Forget(T)

Spec == Init /\ [][Next]_<<book, memory>>
=============================================================================
