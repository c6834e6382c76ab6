------------------------------ MODULE SplitBooks ------------------------------
(***************************************************************************)
(* Register rows with split lines (src/internal/transaction), the          *)
(* reconciliations of an account (src/internal/reconciliation) and the     *)
(* commands that the register screen runs through the undo manager         *)
(* (src/internal/undo, src/internal/tui).                                  *)
(*                                                                         *)
(* A line that names an account has a counterpart: a row of that account   *)
(* with the opposite amount, which only a change of its parent may change. *)
(* Every service call is one transaction.  What is not: a screen reads a   *)
(* row, and writes it back later, when an undo that was still under way    *)
(* may have changed it.  Dates, payees and memos are left out, and rows    *)
(* that are legs of whole transfers (module Transfers).                    *)
(***************************************************************************)
EXTENDS Integers, Sequences, FiniteSetsExt, SequencesExt

CONSTANTS
    Bank,        \* register accounts
    Brokerage,   \* investment accounts: they only receive counterparts
    None,        \* no account, no row
    Form,        \* what a user may enter in an account: an amount and lines
    Statement,   \* the balances on the statements of an account
    MaxStack,    \* bound: commands on the undo stack
    Scopes       \* bound: what one behaviour may do, and with which forms

Account == Bank \cup Brokerage

ASSUME BooksAssumption ==
    /\ Bank \cap Brokerage = {} /\ None \notin Account
    /\ MaxStack \in Nat
    /\ \A a \in Bank : Statement[a] \subseteq Int
    /\ \A a \in Bank : \A f \in Form[a] :
          /\ f.n \in Int \ {0}
          /\ f.lines \in Seq([to : Account \cup {None}, n : Int, cat : 0..1, tid : {0}])
    /\ \A s \in Scopes :
          \A what \in {"creates", "looks", "removals", "closes", "starts", "restarts"} :
             what \in DOMAIN s /\ s[what] \in Nat

VARIABLES
    books,      \* rows with their lines, open accounts and sessions
    undoStack,  \* commands done, with what they captured
    redoStack,  \* commands undone
    copy,       \* the row a screen has read and will write back
    torn,       \* history: rows a screen wrote back after they had changed
    scope       \* what is left of the scope

vars == <<books, undoStack, redoStack, copy, torn, scope>>

Status == {"uncleared", "cleared", "reconciled", "void"}

(* Identifiers: <<0, p>> of an entered row, <<t, k>> of the k-th row made  *)
(* as the counterpart of transfer t.                                       *)
IsEntered(id) == id[1] = 0

Line == [to : Account \cup {None}, n : Int, cat : 0..1, tid : Nat]

TypeOK ==
    /\ \A id \in DOMAIN books.rows :
          LET row == books.rows[id] IN
          /\ id \in Nat \X (Nat \ {0})
          /\ row.acct \in Account /\ row.n \in Int
          /\ row.status \in Status /\ row.cat \in 0..1
          /\ \A i \in DOMAIN row.lines : row.lines[i] \in Line
    /\ books.open \subseteq Account
    /\ \A s \in DOMAIN books.sessions :
          books.sessions[s] \in [acct : Bank, balance : Int, at : Nat]
    /\ copy = None \/ (copy.id[1] = 0 /\ copy.row.acct \in Bank)
    /\ torn \subseteq {0} \X Nat

Drop(f, S) == [x \in DOMAIN f \ S |-> f[x]]
Over(f, g) == [x \in DOMAIN f \cup DOMAIN g |-> IF x \in DOMAIN f THEN f[x] ELSE g[x]]
Put(f, k, v) == Over([x \in {k} |-> v], f)

SumOf(b, S)   == SumFunction([id \in S |-> b.rows[id].n])
RowsOf(b, a)  == {id \in DOMAIN b.rows : b.rows[id].acct = a}
Reconciled(b, a) == {id \in RowsOf(b, a) : b.rows[id].status = "reconciled"}
Total(lines)  == SumFunction([i \in DOMAIN lines |-> lines[i].n])

(* The lines that name an account, by position.                            *)
Moves(lines)  == {i \in DOMAIN lines : lines[i].to # None}
Tids(lines)   == {lines[i].tid : i \in Moves(lines)}
PairsOf(b, T) == {id \in DOMAIN b.rows : id[1] \in T \ {0}}

-----------------------------------------------------------------------------
(* Counterparts.  An operator that may refuse gives the set of the books   *)
(* it may leave, which is empty when it does.                              *)

(* The lines and rows that a command on a stack still names.               *)
Stacked == Range(redoStack) \cup {e.cmd : e \in Range(undoStack)}
Captured == {e.back : e \in Range(undoStack)}

UsedTids(b) ==
    (UNION {Tids(b.rows[id].lines) : id \in DOMAIN b.rows})
      \cup (UNION {Tids(c.row.lines) : c \in Stacked \cup Captured})
NamedRows == UNION {c.ids : c \in Stacked}

(* A new line takes a transfer identifier that is not in use.              *)
Mint(b, lines) ==
    [i \in DOMAIN lines |->
        IF lines[i].to # None /\ lines[i].tid = 0
        THEN [lines[i] EXCEPT !.tid = Max({0} \cup UsedTids(b)) + i]
        ELSE lines[i]]

(* A row of a transfer that no command on a stack names.                   *)
PairId(t) ==
    LET named == {id[2] : id \in {x \in NamedRows : x[1] = t}}
    IN <<t, Min((1..(Cardinality(named) + 1)) \ named)>>

Mirrored(l) == [acct |-> l.to, n |-> -l.n, status |-> "uncleared",
                cat |-> IF l.to \in Bank THEN l.cat ELSE 0, lines |-> <<>>]

(* MUTANT of DeletePairs: a reconciled counterpart goes like any other.    *)
DeletePairsAnyway(b, T) == {[b EXCEPT !.rows = Drop(@, PairsOf(b, T))]}

DeletePairs(b, T) ==
    IF \E id \in PairsOf(b, T) : b.rows[id].status = "reconciled"
    THEN {} ELSE {[b EXCEPT !.rows = Drop(@, PairsOf(b, T))]}

(* L is a set of lines, each of which needs a counterpart.                 *)
CreatePairs(b, L) ==
    IF \E l \in L : l.to \notin b.open THEN {}
    ELSE {[b EXCEPT !.rows =
             Over(@, [id \in {PairId(l.tid) : l \in L} |->
                        Mirrored(CHOOSE l \in L : PairId(l.tid) = id)])]}

(* A counterpart in an investment account has no category.                 *)
MirrorPairs(b, L) ==
    LET hit == PairsOf(b, {l.tid : l \in L})
        of(id) == CHOOSE l \in L : l.tid = id[1]
    IN IF \E id \in hit : b.rows[id].status = "reconciled" THEN {}
       ELSE {[b EXCEPT !.rows = [id \in DOMAIN @ |->
                IF id \in hit
                THEN [@[id] EXCEPT !.n = -of(id).n,
                                   !.cat = Mirrored(of(id)).cat]
                ELSE @[id]]]}

-----------------------------------------------------------------------------
(* The service: rows with their lines.                                     *)

Frozen(b, id) ==
    \/ id \notin DOMAIN b.rows
    \/ b.rows[id].status \in {"void", "reconciled"}
    \/ b.rows[id].acct \notin b.open

LinesFit(row) ==
    row.lines # <<>> =>
        /\ \A i \in DOMAIN row.lines : row.lines[i].n # 0 /\ row.lines[i].to # row.acct
        /\ Total(row.lines) = row.n

CreateRow(b, id, row) ==
    LET new == [row EXCEPT !.lines = Mint(b, @)] IN
    IF row.n = 0 \/ ~LinesFit(row) \/ row.acct \notin b.open \/ id \in DOMAIN b.rows THEN {}
    ELSE CreatePairs([b EXCEPT !.rows = Put(@, id, new)],
                     {new.lines[i] : i \in Moves(new.lines)})

(* A row without its lines: nothing here looks at them.                    *)
UpdateRow(b, id, row) ==
    IF row.n = 0 \/ Frozen(b, id) THEN {}
    ELSE {[b EXCEPT !.rows[id] = [row EXCEPT !.lines = b.rows[id].lines]]}

DeleteRow(b, id) ==
    IF Frozen(b, id) THEN {}
    ELSE {[c EXCEPT !.rows = Drop(@, {id})] :
            c \in DeletePairs(b, Tids(b.rows[id].lines))}

VoidRow(b, id) ==
    IF Frozen(b, id) THEN {}
    ELSE {[c EXCEPT !.rows[id] = [@ EXCEPT !.n = 0, !.status = "void", !.lines = <<>>]] :
            c \in DeletePairs(b, Tids(b.rows[id].lines))}

(* MUTANT of Matches: lines are paired by account alone, none is used up.  *)
MatchesByAccount(old, new) ==
    [i \in DOMAIN new |->
        LET there == {j \in Moves(old) : old[j].to = new[i].to}
        IN IF new[i].to = None \/ there = {} THEN 0 ELSE Min(there)]

(* Each new line, in order, takes over an old line that no line before it  *)
(* took: the one of its transfer, else the first one to its account.       *)
Matches(old, new) ==
    LET m[i \in 0..Len(new)] ==
          IF i = 0 THEN <<>>
          ELSE LET free  == Moves(old) \ Range(m[i - 1])
                   same  == {j \in free : old[j].tid = new[i].tid}
                   there == {j \in free : old[j].to = new[i].to}
               IN Append(m[i - 1],
                    CASE new[i].to = None -> 0
                      [] new[i].to # None /\ same # {} -> Min(same)
                      [] new[i].to # None /\ same = {} /\ there # {} -> Min(there)
                      [] OTHER -> 0)
    IN m[Len(new)]

ReplaceSplits(b, id, lines) ==
    LET old     == b.rows[id].lines
        m       == Matches(old, lines)
        kept    == {i \in DOMAIN lines : m[i] \in Moves(old)}
        new     == Mint(b, [i \in DOMAIN lines |->
                              IF i \in kept THEN [lines[i] EXCEPT !.tid = old[m[i]].tid]
                              ELSE lines[i]])
        gone    == {old[j].tid : j \in Moves(old) \ Range(m)}
        changed == {new[i] : i \in {k \in kept : new[k] # old[m[k]]}}
        added   == {new[i] : i \in Moves(new) \ kept}
    IN IF Frozen(b, id) \/ ~LinesFit([b.rows[id] EXCEPT !.lines = lines]) THEN {}
       ELSE UNION {UNION {CreatePairs([d EXCEPT !.rows[id].lines = new], added) :
                            d \in MirrorPairs(c, changed)} :
                     c \in DeletePairs(b, gone)}

UpdateWithSplits(b, id, row) ==
    UNION {ReplaceSplits(c, id, row.lines) : c \in UpdateRow(b, id, row)}

(* MUTANT of RestoreVoided: restored by an ordinary update.                *)
RestoreByUpdate(b, id, row) == UpdateWithSplits(b, id, row)

RestoreVoided(b, id, row) ==
    IF id \notin DOMAIN b.rows \/ b.rows[id].status # "void" THEN {}
    ELSE LET c == [b EXCEPT !.rows[id] = [row EXCEPT !.lines = <<>>]]
         IN IF row.lines = <<>> THEN {c} ELSE ReplaceSplits(c, id, row.lines)

-----------------------------------------------------------------------------
(* The service: accounts and reconciliations.                              *)

CloseAccount(b, a) ==
    IF a \notin b.open \/ SumOf(b, RowsOf(b, a)) # 0 THEN {}
    ELSE {[b EXCEPT !.open = @ \ {a}]}

ReopenAccount(b, a) ==
    IF a \in b.open THEN {} ELSE {[b EXCEPT !.open = @ \cup {a}]}

(* The undo of a reopening asks for no balance.                            *)
RestoreClosed(b, a) == {[b EXCEPT !.open = @ \ {a}]}

(* at = 0: in progress; else the order of completion.                      *)
InProgress(b, a) == {s \in DOMAIN b.sessions : b.sessions[s].acct = a /\ b.sessions[s].at = 0}
Completed(b, a)  == {s \in DOMAIN b.sessions : b.sessions[s].acct = a /\ b.sessions[s].at > 0}
NextSession(b)   == 1 + Max({0} \cup DOMAIN b.sessions)
Latest(b)        == Max({0} \cup {b.sessions[s].at : s \in DOMAIN b.sessions})

(* Of several sessions in progress the query returns any.                  *)
FinishSession(b, s, ids) ==
    LET a     == b.sessions[s].acct
        fresh == {id \in ids \cap DOMAIN b.rows : b.rows[id].status # "reconciled"}
    IN IF \/ ~(ids \subseteq DOMAIN b.rows)
          \/ \E id \in fresh : b.rows[id].status = "void"
          \/ SumOf(b, Reconciled(b, a) \cup fresh) # b.sessions[s].balance
       THEN {}
       ELSE {[b EXCEPT !.rows = [id \in DOMAIN @ |->
                            IF id \in fresh THEN [@[id] EXCEPT !.status = "reconciled"]
                            ELSE @[id]],
                       !.sessions[s].at = 1 + Latest(b)]}

UndoFinish(b, s, statuses) ==
    LET back == {id \in DOMAIN statuses \cap DOMAIN b.rows : b.rows[id].status = "reconciled"}
    IN IF ~(DOMAIN statuses \subseteq DOMAIN b.rows)
          \/ s \notin DOMAIN b.sessions \/ b.sessions[s].at = 0
       THEN {}
       ELSE {[b EXCEPT !.rows = [id \in DOMAIN @ |->
                            IF id \in back THEN [@[id] EXCEPT !.status = statuses[id]]
                            ELSE @[id]],
                       !.sessions[s].at = 0]}

-----------------------------------------------------------------------------
(* Commands.  Executing one gives the books, the command as it will be     *)
(* redone, and what it captured for its undo.                              *)

NoRow   == [acct |-> None, n |-> 0, status |-> "void", cat |-> 0, lines |-> <<>>]
Nothing == [row |-> NoRow, statuses |-> <<>>, session |-> 0]

Command(verb, id, row)   == [verb |-> verb, id |-> id, row |-> row, acct |-> None, ids |-> {}]
AccountCommand(verb, a)  == [Command(verb, None, NoRow) EXCEPT !.acct = a]
FinishCommand(a, ids)    == [AccountCommand("finish", a) EXCEPT !.ids = ids]

(* A service that fails at reading the row has nothing to capture.         *)
RowNow(b, c) == IF c.id \in DOMAIN b.rows THEN b.rows[c.id] ELSE NoRow

(* The lines of a command carry the transfers they got from then on.       *)
WithTids(b, c) ==
    IF c.verb \in {"create", "editSplits"}
    THEN [c EXCEPT !.row.lines = b.rows[c.id].lines] ELSE c

Effects(b, c) ==
    CASE c.verb = "create"     -> CreateRow(b, c.id, c.row)
      [] c.verb = "edit"       -> UpdateRow(b, c.id, c.row)
      [] c.verb = "editSplits" -> UpdateWithSplits(b, c.id, c.row)
      [] c.verb = "delete"     -> DeleteRow(b, c.id)
      [] c.verb = "void"       -> VoidRow(b, c.id)
      [] c.verb = "close"      -> CloseAccount(b, c.acct)
      [] c.verb = "reopen"     -> ReopenAccount(b, c.acct)

FinishExecuted(b, c) ==
    UNION {{[books |-> d, cmd |-> c,
             back |-> [Nothing EXCEPT !.session = s, !.statuses =
                         [id \in {i \in c.ids : b.rows[i].status # "reconciled"} |->
                            b.rows[id].status]]] :
              d \in FinishSession(b, s, c.ids)} :
            s \in InProgress(b, c.acct)}

Executed(b, c) ==
    IF c.verb = "finish" THEN FinishExecuted(b, c)
    ELSE {[books |-> d, cmd |-> WithTids(d, c),
           back |-> [Nothing EXCEPT !.row = RowNow(b, c)]] : d \in Effects(b, c)}

(* MUTANT of Undone: the undo of a delete makes the row without its lines. *)
UndoneWithoutLines(b, c, back) ==
    CASE c.verb = "create"     -> DeleteRow(b, c.id)
      [] c.verb = "edit"       -> UpdateRow(b, c.id, back.row)
      [] c.verb = "editSplits" -> UpdateWithSplits(b, c.id, back.row)
      [] c.verb = "delete"     -> CreateRow(b, c.id, [back.row EXCEPT !.lines = <<>>])
      [] c.verb = "void"       -> RestoreVoided(b, c.id, back.row)
      [] c.verb = "finish"     -> UndoFinish(b, back.session, back.statuses)
      [] c.verb = "close"      -> ReopenAccount(b, c.acct)
      [] c.verb = "reopen"     -> RestoreClosed(b, c.acct)

Undone(b, c, back) ==
    CASE c.verb = "create"     -> DeleteRow(b, c.id)
      [] c.verb = "edit"       -> UpdateRow(b, c.id, back.row)
      [] c.verb = "editSplits" -> UpdateWithSplits(b, c.id, back.row)
      [] c.verb = "delete"     -> CreateRow(b, c.id, back.row)
      [] c.verb = "void"       -> RestoreVoided(b, c.id, back.row)
      [] c.verb = "finish"     -> UndoFinish(b, back.session, back.statuses)
      [] c.verb = "close"      -> ReopenAccount(b, c.acct)
      [] c.verb = "reopen"     -> RestoreClosed(b, c.acct)

(* What a user sees: a counterpart made again is the same counterpart.     *)
View(b) ==
    [rows |-> {<<IF IsEntered(id) THEN id ELSE <<id[1], 0>>, b.rows[id]>> :
                 id \in DOMAIN b.rows},
     open |-> b.open]

Entry(out) == [cmd |-> out.cmd, back |-> out.back, was |-> View(books)]

(* Manager.Execute.                                                        *)
Run(c) ==
    /\ Len(undoStack) < MaxStack
    /\ \E out \in Executed(books, c) :
          /\ books' = out.books
          /\ undoStack' = Append(undoStack, Entry(out))
    /\ redoStack' = <<>>

-----------------------------------------------------------------------------
(* The register screen.                                                    *)

Spend(what) == scope[what] > 0 /\ scope' = [scope EXCEPT ![what] = @ - 1]
Allowed(a)  == {f \in Form[a] : f.name \in scope.forms}

Entered(b) == {id \in DOMAIN b.rows : IsEntered(id)}

(* Identifiers of entered rows are never used again.                       *)
Create(a, f) ==
    /\ Spend("creates")
    /\ Run(Command("create", <<0, scope.creates>>,
                   [acct |-> a, n |-> f.n, status |-> "uncleared", cat |-> 0,
                    lines |-> f.lines]))
    /\ UNCHANGED <<copy, torn>>

(* The dialog loads a row and its lines, or the toggle reads the row; a    *)
(* dialog that is closed leaves a copy that nothing uses.                  *)
Look(id) ==
    /\ books.rows[id].status \in {"uncleared", "cleared"}
    /\ Spend("looks")
    /\ copy' = [id |-> id, row |-> books.rows[id]]
    /\ UNCHANGED <<books, undoStack, redoStack, torn>>

(* A row that has changed since it was read is written back whole.         *)
WriteBack(row) ==
    /\ copy # None
    /\ Run(Command("edit", copy.id, row))
    /\ torn' = IF books.rows[copy.id] # copy.row THEN torn \cup {copy.id} ELSE torn
    /\ copy' = None /\ UNCHANGED scope

Toggle(status) == copy # None /\ WriteBack([copy.row EXCEPT !.status = status])

EditPlain(f) ==
    /\ copy # None /\ copy.row.lines = <<>> /\ f.lines = <<>>
    /\ WriteBack([copy.row EXCEPT !.n = f.n])

(* MUTANT of EditSplits: a row that loses its lines is edited as a plain   *)
(* one.                                                                    *)
EditSplitsAsPlain(f) ==
    /\ copy # None /\ (copy.row.lines # <<>> \/ f.lines # <<>>)
    /\ Run(Command(IF f.lines = <<>> THEN "edit" ELSE "editSplits", copy.id,
                   [copy.row EXCEPT !.n = f.n, !.lines = f.lines]))
    /\ copy' = None /\ UNCHANGED <<torn, scope>>

(* From lines to a plain row or other lines, or from a plain row to lines. *)
EditSplits(f) ==
    /\ copy # None /\ (copy.row.lines # <<>> \/ f.lines # <<>>)
    /\ Run(Command("editSplits", copy.id,
                   [copy.row EXCEPT !.n = f.n, !.lines = f.lines]))
    /\ copy' = None /\ UNCHANGED <<torn, scope>>

Delete(id) ==
    Spend("removals") /\ Run(Command("delete", id, NoRow)) /\ UNCHANGED <<copy, torn>>
Void(id) ==
    Spend("removals") /\ Run(Command("void", id, NoRow)) /\ UNCHANGED <<copy, torn>>

Close(a)  == Spend("closes") /\ Run(AccountCommand("close", a)) /\ UNCHANGED <<copy, torn>>
Reopen(a) == Spend("closes") /\ Run(AccountCommand("reopen", a)) /\ UNCHANGED <<copy, torn>>

(* Outside the undo manager.  A new session takes the place of one session *)
(* in progress.                                                            *)
StartReconciliation(a, balance) ==
    /\ a \in books.open
    /\ Spend("starts")
    /\ \E gone \in IF InProgress(books, a) = {} THEN {{}}
                   ELSE {{s} : s \in InProgress(books, a)} :
          LET s == NextSession(books) IN
          books' = [books EXCEPT !.sessions =
                      Put(Drop(@, gone), s, [acct |-> a, balance |-> balance, at |-> 0])]
    /\ UNCHANGED <<undoStack, redoStack, copy, torn>>

CancelReconciliation(a) ==
    /\ \E s \in InProgress(books, a) : books' = [books EXCEPT !.sessions = Drop(@, {s})]
    /\ UNCHANGED <<undoStack, redoStack, copy, torn, scope>>

FinishReconciliation(a, ids) ==
    Run(FinishCommand(a, ids)) /\ UNCHANGED <<copy, torn, scope>>

Undo ==
    /\ undoStack # <<>>
    /\ LET e == Last(undoStack) IN
       /\ books' \in Undone(books, e.cmd, e.back)
       /\ redoStack' = Append(redoStack, e.cmd)
    /\ undoStack' = Front(undoStack)
    /\ UNCHANGED <<copy, torn, scope>>

Redo ==
    /\ redoStack # <<>>
    /\ \E out \in Executed(books, Last(redoStack)) :
          /\ books' = out.books
          /\ undoStack' = Append(undoStack, Entry(out))
    /\ redoStack' = Front(redoStack)
    /\ UNCHANGED <<copy, torn, scope>>

(* The program ends: what is in memory is lost.                            *)
Restart ==
    /\ undoStack # <<>> \/ redoStack # <<>>
    /\ Spend("restarts")
    /\ undoStack' = <<>> /\ redoStack' = <<>> /\ copy' = None
    /\ UNCHANGED <<books, torn>>

Init ==
    /\ books = [rows |-> <<>>, open |-> Account, sessions |-> <<>>]
    /\ undoStack = <<>> /\ redoStack = <<>>
    /\ copy = None /\ torn = {}
    /\ scope \in Scopes

Next ==
    \/ \E a \in Bank : \E f \in Allowed(a) : Create(a, f)
    \/ \E id \in Entered(books) : Look(id)
    \/ \E status \in {"uncleared", "cleared"} : Toggle(status)
    \/ copy # None /\ \E f \in Allowed(copy.row.acct) : EditPlain(f)
    \/ copy # None /\ \E f \in Allowed(copy.row.acct) : EditSplits(f)
    \/ \E id \in Entered(books) : Delete(id)
    \/ \E id \in Entered(books) : Void(id)
    \/ \E a \in Account : Close(a)
    \/ \E a \in Account : Reopen(a)
    \/ \E a \in Bank : \E balance \in Statement[a] : StartReconciliation(a, balance)
    \/ \E a \in Bank : CancelReconciliation(a)
    \/ \E a \in Bank : \E ids \in SUBSET RowsOf(books, a) : FinishReconciliation(a, ids)
    \/ Undo
    \/ Redo
    \/ Restart

Spec == Init /\ [][Next]_vars

-----------------------------------------------------------------------------
(* Properties.                                                             *)

(* Every line that names an account has exactly one counterpart there,     *)
(* with the opposite amount and, in a bank account, the line's category,   *)
(* and no other row is the counterpart of anything                         *)
(* (service_splits.go, service_split_plan.go, service_transfer_line.go).   *)
CounterpartMirrors ==
    LET ofLines == UNION {{<<id, i>> : i \in Moves(books.rows[id].lines)} :
                            id \in Entered(books)}
        line(x) == books.rows[x[1]].lines[x[2]]
        pairs   == DOMAIN books.rows \ Entered(books)
    IN /\ \A x \in ofLines :
            /\ Cardinality(PairsOf(books, {line(x).tid})) = 1
            /\ \A id \in PairsOf(books, {line(x).tid}) :
                  [books.rows[id] EXCEPT !.status = "uncleared"] = Mirrored(line(x))
       /\ Cardinality(pairs) = Cardinality(ofLines)

(* The lines of a row add up to its amount (service_splits.go:12), unless  *)
(* a screen wrote back a row that had changed since it was read: of those  *)
(* torn rows nothing is said.                                              *)
LinesSumToParent ==
    \A id \in Entered(books) \ torn :
        books.rows[id].lines # <<>> => Total(books.rows[id].lines) = books.rows[id].n

(* The reconciled rows of an account add up to the statement of the last   *)
(* reconciliation that stands: no edit, delete, void, undo or redo of a    *)
(* row or of the parent of a counterpart takes that away                   *)
(* (reconciliation_service.go:237).  A session that the command line       *)
(* finishes with --force, whatever the difference (line 256), is left out. *)
StatementAgrees ==
    \A a \in Bank :
        SumOf(books, Reconciled(books, a)) =
          IF Completed(books, a) = {} THEN 0
          ELSE books.sessions[CHOOSE s \in Completed(books, a) :
                 \A t \in Completed(books, a) : books.sessions[t].at <= books.sessions[s].at].balance

UndoWorks == LET e == Last(undoStack) IN Undone(books, e.cmd, e.back) # {}

(* The last command can be undone, whatever sessions were started or       *)
(* cancelled since, unless the undo must make a counterpart in a closed    *)
(* account or a row was written back stale (undo/manager.go:67).           *)
UndoReady ==
    (undoStack # <<>> /\ torn = {}
       /\ \A l \in Range(Last(undoStack).back.row.lines) : l.to \in books.open \cup {None})
      => UndoWorks

(* Ctrl+Z restores a deletion (tui/register_view.go): an undo is never     *)
(* refused while no row was written back stale.                            *)
CtrlZRestores == (undoStack # <<>> /\ torn = {}) => UndoWorks

(* An undo gives back the rows, lines, counterparts, statuses and open     *)
(* accounts as they were before the command (undo/transaction.go).         *)
IsUndo == undoStack # <<>> /\ undoStack' = Front(undoStack) /\ redoStack' # <<>>
UndoRestores == [][IsUndo => View(books') = Last(undoStack).was]_vars

(* Only one session of an account is in progress                           *)
(* (specs/reconciliation.md:133).                                          *)
OneActiveSession == \A a \in Bank : Cardinality(InProgress(books, a)) <= 1

===============================================================================
