# tmoney: a TLA+ model of the money that moves

tmoney keeps a household's books in one DuckDB file: a terminal UI and a
command line over a layer of services (`internal/*`), each with a repository.
This directory holds TLA+ models of the services' core logic, TLC
configurations that check them on small instances, and TLAPS proofs.

## Inventory

| Component | State it keeps | Operations | What is hard | What makes it correct |
|---|---|---|---|---|
| transfer (`internal/transfer`) | none of its own: two rows per transfer, on one or two ledgers, tied by `transfer_id` and by pointers to each other's account | Create, Update, Reverse, SetStatus, SetLegStatus, Void, Restore, Delete, Recreate, ReplaceWithTransfer, LinkExisting, ChangeAccountType | direction is read off signs, which a void erases; guards run before the transaction; each leg has a status of its own on a ledger with its own enum | a transfer is whole or absent, both legs cancel, a reconciled leg is locked, undo restores what was there |
| transferlink | candidate pairs held by the UI | find candidates, link one | candidates go stale before they are linked | a row is linked at most once, to a row that still matches |
| undo (`internal/undo`) | two stacks of commands, in memory | Execute, Push, Undo, Redo, Clear | commands keep ids and snapshots that other commands invalidate; redo runs Execute again | undo then redo returns to the same state; nothing on the stack is stuck |
| transaction | register rows and split lines | Create, Update, Delete, clear, void, splits | a split line's counterpart row on the other ledger, the parent's total, cascades outside a transaction | a parent's amount is the sum of its lines; a counterpart mirrors its line |
| account | accounts, open or closed | Create, Update, Delete, Close, Reopen, RestoreClosed | the balance is read before the close is written | a closed account is frozen at zero |
| reconciliation | sessions, `reconciled` marks | Start, Finish, Cancel, Reopen, UndoFinish | rows change between check and finish | one active session per account; finishing is all or nothing |
| scheduled | schedules with their next date | post, skip, auto-post at start-up, edit | catching up several occurrences, posting and advancing together, estimates | each occurrence is posted once, in order |
| investment | investment rows, lots, positions, holdings | trades, cash, corporate actions, edit, delete, rebuild | reversing an old trade replays everything after it | lots, positions and rows agree |
| db (`internal/db`) | the file, its schema version, the lock | open, migrate, WithTx, heal, reindex | a crash in a migration, a fatal engine error, a lost write-ahead log | whole transactions only; a migration is applied once |
| backup | copies beside the file | before-migration and periodic copies, rotation, restore | a crash in the middle of a copy, a live write-ahead log | the newest usable copy survives |
| import/export | none | parse, match, import, export | duplicates; rows are written one by one | a row is imported once |
| category, payee | trees, aliases | create, edit, delete, merge | references from four tables | no dangling reference after a merge |
| security, price | securities, price history | edit, fetch | concurrent fetches | one price per day |
| loan, report, chart, types | none | arithmetic and queries | rounding | sums add up |
| tui, cli, app, config, applog, termimg | views, dialogs | issue the operations above | the views load asynchronously and act on stale copies | the services' guards hold whatever the view shows |

The services call each other directly (transfer reads accounts, both
ledgers' repositories and categories; scheduled posts through transfer;
reconciliation writes register rows). Every write runs in `db.WithTx`, which
a mutex serialises. The TUI runs each write in a goroutine of its own and
sends nearly all of them through the undo manager, whose mutex is held for the
command's whole run.

## Modules, and how they correspond to the code

| Module | What it models | State | Actions and the code they stand for |
|---|---|---|---|
| `Transfers` | `internal/transfer` on whole transfers, with plain rows, marks, reconciling and closing from their services | `rows` (both tables), `open` accounts, `minted` transfer ids, `token` (what the latest void or delete can be undone with), `job` (an operation between its checks and its transaction) | `Begin*`/`Finish*` split Create, Recreate, ReplaceWithTransfer, plain create and Close at the start of `db.WithTx`; `Update`, `Reverse`, `SetStatus`, `SetLegStatus`, `Void`, `Restore`, `Delete` are one step each; `Abort` is a rolled-back transaction, `Restart` a crash or quit |
| `IdealTransfers` | what a caller is promised: a transfer is one object | `book`, `memory` | one action per change of a whole transfer |
| `TransfersRefinement` | the mapping from rows and undo snapshots to whole transfers | | `bookView`, `memoryView` |
| `UndoHistory` | `internal/undo`: the manager and the commands on transfers, reconciliations, close and reopen | `rows`, `open`, `minted`, `undoStack`, `redoStack`; a command is the record of what its struct keeps | `Execute`, `Undo`, `Redo`, `Clear`; `Run*` and `Undo*` are the commands' `Execute` and `Undo` |
| `Timeline` | what an undo history promises: one line of states and a cursor | `past`, `now`, `future` | |
| `UndoTimeline` | `UndoHistory` with history variables, mapped to `Timeline` | adds `past`, `future` | |
| `ScheduledPosting` | `internal/scheduled`, the schedule commands, the start-up batch and the scheduled view | `sched`, `rows` posted, `ail`, `today`, `session`, `batch`, `lane`, both stacks, `view`, `reload`; history `skipped`, `cut` | `AutoList`, `AutoCandidate` (skip, abort or post), `AutoFinish` are the batch; `Execute`, `Redo`, `Check`, `Commit`, `Refuse` a command; `StartUndo`, `UndoWrite`, `UndoFail` an undo, one transaction at a time; `LoadView`; `Restart`, `Tick` |
| `DatabaseHandle` | `internal/db`: the handle that everything in a session shares | `pool`s and the published one, the flags `closed`, `final`, `stale`, `fileBusy`, `healing`, the two mutexes, each `client` and `task` | readers that may hold their rows for ever, `WithTx`, `WithFileClosed` with its deadline and the reopen it leaves in the background, `healStale` and `healAfterFatal`, `CloseForGood` and `CloseAndSettle`; faults of the engine and a file that disappears |
| `OpenDatabase` | creating, opening, migrating and reindexing one file by processes of several schema versions | the `file` with its migrations and indexes, its `holder`, each process's `job` | `Create`, `Open`, `migrate`, the second open, `Reindex`, one step each; a kill at every step |
| `BackupRestore` | `internal/backup` and the file functions of `internal/db`, beside a second process | the database `file` with its log, named `backups`, the partial and temporary files, the log set aside, the `job` and what the `other` process does | naming, copying, publishing, retention, sweep; a restore from validating its source to removing the old logs; a kill at every step |
| `InvestmentLedger` | `internal/investment`: rows, lots, the junctions between them, and positions | those, per account, with closed accounts and the lot-tracking flag | purchases, sales, share transfers, their edits, deletes and replays, splits and their reversal, heals and rebuilds, `EnableLots` in its parts, closes |
| `SplitBooks` | `internal/transaction` on rows with lines, the counterparts of lines on both ledgers, `internal/reconciliation`, and their commands | `books` (rows, open accounts, sessions), both stacks, `copy` (what a screen has read); history `torn` | create, edit, delete, void, start, cancel and finish a reconciliation, close, undo, redo, restart |
| `FileSwitching` | the App over several files: File > New and Open, loads, work that runs beside them, backups and restores | `file`s, `handle`s, `db`, `prevDB`, `retired`, `settling`, `op`, `work`, `loads`, `history`, `shown`, `dialog` | one action per message Update handles and per step of a command between two points where another may get in |
| `Calendar` | `CalculateNextDate` and the month steps of an amortization table | none | pure; `Follows` and `OnGrid` are the reference definitions |
| `LoanPayments` | `internal/loan`, the loan files of `internal/scheduled`, the wizard on a schedule that exists | `sched`, the loan's `rows`, `rate`, `active`, `today`, `todo` | post, skip, catch up, edit, adopt, demote, complete, close |
| `MCTransfers`, `MCUndo`, `MCPosting`, `MCHandle`, `MCOpen`, `MCBackup`, `MCInvestment`, `MCBooks`, `MCFileSwitching`, `MCLoan` | small instances | | |
| `TransfersProofs`, `HandleProofs`, `OpenProofs`, `BackupProofs`, `FilesProofs`, `UndoProofs`, `PostingProofs`, `BooksProofs` | proofs, below | | |

Modelling decisions a reader should know:

- A database transaction is one step. `db.WithTx` holds a mutex and rolls back
  on an error, so nothing is seen half-written; what runs outside it (guards,
  reads, a command's second write) is a step of its own where another
  goroutine can get in between. `DatabaseHandle` is the module that looks
  inside `WithTx`, and `FileSwitching` uses what it shows of one handle.
- `Transfers` has two lanes. The undo manager's mutex runs one command at a
  time: lane "managed". Writes that bypass it (replacing an investment row,
  importing) are lane "direct".
- Undo is last in, first out, so in `Transfers` a restore is offered only
  while the rows are as the void left them. `UndoHistory` has the real stacks,
  and `VoidSnapshotFits` justifies the shortcut there. The statuses that
  undoing a finish puts back are any open statuses in `Transfers`; in
  `UndoHistory` they are those the command captured.
- In `UndoHistory` a command's run is one step: the mutex is held for all of
  it and `ManagedCheckHolds` (below) shows that what it checks first is still
  true when it writes. Commands are issued on a register that has been
  reloaded, with the register's own guards.
- Reconciliation appears in `Transfers` and `UndoHistory` as what it does to
  rows; its sessions and sums are in `SplitBooks`, where starting one is taken
  as atomic although the code deletes the draft before it creates the next.
- Opening balances are zero and accounts close today. Holdings, memos, split
  lines and share movements are left out of `Transfers`. `SetStatus` and
  `Reverse` have no callers in the repository but are part of the service.
- `IdealTransfers.Revive` exists because a status change can lift the void
  mark of an empty pair, and the pair can then be edited into either direction.
- In `ScheduledPosting` the number of an occurrence stands for its date;
  amounts, estimates, split lines and the loan computation are left out. All
  skips of the batch (closed account, no estimate, loan computation) are
  "closed", all errors that end it are "refused". What ails an account is fixed
  for a behaviour. The second write of a posted transfer changes only its memo
  and status and is left out. Creating a schedule is not modelled. `Early`
  separates a patient user, who waits for the batch to end and for the view to
  reload after each command, from races the interface allows.
- In `DatabaseHandle` a critical section under `connMu` is one step, and a wait
  with a deadline may give up only while the lock is taken.
- In `BackupRestore` the number of the last commit stands for the rows and
  `Mixed` for a file onto which the log of another file was replayed. In
  `OpenDatabase` a file is the list of migrations that ran on it and its
  indexes, and every interleaving of processes is allowed. The history variable
  `crossed` has the processes whose file another one migrated or removed since
  they looked at its version, `since` how many files there had been when a
  Create looked.
- `Window` of `BackupRestore` says whether another process may act between two
  steps that no lock protects: while a file and its log are being copied, or
  between the last checks of a restore and its rename. A backup of this process
  gets its name by a hard link or by the check and rename that `publish` falls
  back to; the other process makes its own in one step.
- `InvestmentLedger` counts shares; prices, costs and cash are left out. Three
  history variables mark where the code itself promises less: `loose` accounts,
  whose holdings need not follow their rows, `raw` purchases, entered after a
  split that precedes them, and `skewed` lots, scaled after shares had left.
- `SplitBooks` keeps in `torn` the rows a screen wrote back after they had
  changed under it; only those are exempt from adding up.
- In `FileSwitching` `CloseAndSettle` is one step, whose answer says whether
  work still runs on the handle. A file that is not there has one name.
- In `LoanPayments` a table is computed on the same schedule and balance as
  the post it is compared with, and money is a number of cents.

## What is checked

Eleven runs find no error.

| Run | Question | States |
|---|---|---|
| `transfers` | Two banks, a brokerage, one transfer id, a category: every order of create, edit, mark, reconcile, void, delete, undo, close and crash. `PairMirror`: a transfer id names no rows or two that cancel. `VoidIsEmpty`: a void mark never leaves money on the other leg. `ReconciledLocked`: a reconciled row keeps its account, transfer, amount and date until its finish is undone. | 356k |
| `replace` | A bank and a brokerage with a register row and a deposit, two amounts, both lanes. `ManagedCheckHolds`: what a managed command has checked is still true when it writes, though the direct lane runs meanwhile. `ImplementsIdeal`: `Transfers` implements `IdealTransfers`, hence edits never turn a transfer round and undo brings back the very transfer. | 220k |
| `undo` | Three commands on two transfers: with two amounts and reconciliations, or with accounts closed and reopened and the stacks cleared over books that stay. `KeepsATimeline`: undo and redo move along one line of states. `UndoReady`: creates, edits, finishes, closes and reopens can always be taken back. `VoidSnapshotFits`: the rows a void command would restore are the transfer's two legs. `ReconciledOnlyByFinish`: undo and redo bring back no reconciled mark but by finishing. | 112k |
| `posting` | Two auto-posted schedules over two sessions, one of them also handled by hand; sessions end anywhere. `PostedOnce`, `NothingMissed`, and `CaughtUp`: what is due when a file is opened gets posted, unless a posting is refused. | 316k |
| `handle` | A reader that may never let go, a writer, a file operation, heals and a close for good, on a file that may disappear and an engine that may fail. `FileStill`, `OneInstance`: the file is untouched while it is copied or swapped, and never opened beside a live instance. `SettledIsQuiet`. `NeverStuck`, `Recovers`: the handle works, or heals. `FileOpsEnd`, `WritesEnd`, `SettlesInTheEnd`: nothing waits for ever. | 89k |
| `open` | Apps of three schema versions create, open, migrate and reindex one file and are killed anywhere. `EachOnce`: each migration ran exactly once. `OpenIsCurrent`: an app goes on with a file at its own version, unless another app migrated or removed it since the look at the version. `CreateSpares`: what a failing create removes was made after that create had looked. | 3.1M |
| `backup` | Backups and restores killed at any step, logs torn or damaged, a second process. `DatabaseWhole`, `BackupsWhole`: no log of another file is ever replayed. `SwapKeepsOld`: what a restore replaces is in a backup. `RetentionSpares`: a backup is deleted for its age, if it is an automatic one that no restore reads and newer ones push it out, or because its own raw logs did not get their names; nothing but the rename without hard links writes over one. | 2.9M |
| `investment` | Purchases, sales, share transfers, edits, deletes, splits, lot tracking switched with the program ending in between, closes. `HoldingsMatchLedger`, `LotsFollowJunctions`, `ClosedIsFrozen`. | 387k |
| `books` | Rows with lines between two registers and a brokerage, edited from copies that may be stale, deleted, voided, reconciled, undone, redone. `CounterpartMirrors`, `LinesSumToParent`, `StatementAgrees`: reconciled rows add up to the last statement. `UndoReady`, `UndoRestores`. | 191k |
| `files` | Three files, one with a second name and one not made yet: opens in flight together, work on handles long left, deleted files, restores and ledger moves beside writes and undos. `OneHandle`: a file never has two handles that can touch it. `HistoryFits`: the undo history belongs to the contents of the open file. | 1.7M |
| `loan` | A loan paid by the wizard's schedule and by one made by hand (semi-monthly, or on 29 February), on time, early, late and in a catch-up, edited, skipped, adopted, demoted. `AsProjected`: a post is what the table showed. `NoDateMissed`: no date of the recurrence is left out. `EndsWithTheDebt`. | 457k |

One run refutes what the code says of itself: `files_undo`. Ctrl+Z pressed
while a restore runs waits for it and then acts on the restored rows
(`UndoActsOnItsContents`), though `tui/backup_dialog.go:211` says the restore
discards a history whose "commands describe rows that no longer exist".

Every module's `TypeOK` is its type invariant. The runs spend their time on the
rest; eight of them are proved (below).

### Known gaps

Each of these was met while modelling and is shown by TLC on the configuration
named here, with the property named here as its `INVARIANTS` or `PROPERTIES`.

| What happens | What is said | Shown by |
|---|---|---|
| Deleting a transfer removes the leg of a closed account, whose balance is then not zero. | `specs/accounts.md:168` | `MCClosedKeepsBalance.cfg` |
| Void, undo, redo: the command now holds four snapshots and its undo is refused for good, which blocks the stack. | `undo/transfer.go:168` | `VoidReady` with `MCUndo.cfg` |
| Create, mark, undo both, redo the create: new ids, and the mark can never be redone. | `specs/undo-redo.md:5` | `MCRedoReady.cfg` |
| Undoing an edit gives both legs the sender's mark. | `specs/undo-redo.md:204` | `UndoRestoresMarks` with `MCUndo.cfg` |
| The scheduled view is opened before the batch ends. An edit saved from it writes its old next date, and the next session posts the occurrence again. | `scheduled/posting.go:74` | `MCStaleView.cfg` |
| Redoing the batch posts nothing, redoing the edit above it writes the advanced next date: an occurrence is in no row. | `specs/undo-redo.md:5` | `MCBatchRedo.cfg` |
| Another process opens the database between the last check of a restore and its rename. | `backup/backup.go:173` | `SwapAlone` with `Window = TRUE` in `MCBackup.cfg` |
| A file and its log are copied while another process folds the log: the backup is a mixture. | `backup/backup.go:617` | `MCBackupTorn.cfg` |
| A kill between naming a backup and copying the raw logs beside it leaves a named backup without them. | `backup/backup.go:619` | `MCBackupNamed.cfg` |
| Two processes create one file; the one that fails removes the other's. | `db/connection.go:183` | `RemovesOnlyItsOwn` in `MCOpenRace.cfg` |
| A newer app migrates the file between the migrations and the second open of an older one, which goes on with it. | `specs/database.md:66` | `AlwaysCurrent` in `MCOpenNewer.cfg` |
| A kill in a reindex leaves the file without an index, which no later open restores. | `db/reindex.go:3` | `MCReindex.cfg` |
| Two reopens left in the background: the goroutine of the first clears the flag that the second has set, and calls that wait for the second report a blocked heal. | `db/connection.go:54` | `BusyIsShown` with `MCHandleBusy.cfg` |
| Shares of an account without lots arrive at one with lots and become no lot. | `investment/transfer_shares.go:29` | `ArriveAsLots` with `MCInvestment.cfg` |
| After a split, a lot does not have left its original shares less those its junctions take. | `investment/corporate_action_split.go:80` | `SplitKeepsRemaining` with `MCInvestment.cfg` |
| The undo of a finish reopens its session beside one started since. | `specs/reconciliation.md:133` | `OneActiveSession` with `MCBooks.cfg` |
| The undo of a delete is refused when the account of a counterpart was closed since. | `tui/register_view.go:377` | `CtrlZRestores` with `MCBooks.cfg` |
| The open file is deleted behind the program and made again under its name: two handles on one file. | `db/connection.go`, "so the app keeps one handle per file" | `MCFilesLost.cfg` |
| A view loaded just before a restore's report keeps showing the old rows. | | `ShownIsPresent` with `MCFilesUndo.cfg` |
| The table and the posts of a schedule moved off its day of the month name different dates. | `loan/loan.go`, comment of `addMonths` | `TableDatesAgree` with `MCLoan.cfg` |
| A payoff by hand closes the loan; the schedule can neither be posted nor completed. | `specs/loan-wizard.md:333` | `NoneStranded` with `MCLoan.cfg` |

Read from the code, or seen in runs, without a property of their own:

- A row whose account was found open (`transfer/create.go:151`,
  `transaction/service_crud.go:19`) can be written after the account closed,
  since the check precedes the transaction and these writes bypass the manager.
- A register that loaded a row before its transfer was voided can clear one
  leg, which lifts the void mark (`transfer/write.go:190`).
- Undoing a delete draws new row ids, so a mark below it on the stack cannot be
  undone (`undo/transfer.go:265`).
- A transfer deleted after one of its accounts closed cannot be brought back
  (`undo/transfer.go:158`), nor a deleted schedule on a closed account.
- A post issued before the view has reloaded can post an occurrence twice. A
  batch ended by an error returns no summary, so what it posted before has no
  undo step (`scheduled/auto_post.go:204`). A crash between the two writes of
  an undone post leaves the row deleted and the schedule advanced: the
  occurrence is lost, never posted twice; the history variable `cut` excuses
  exactly these in `NothingMissed`.
- Without hard links two processes can give one name to two backups, which
  `backup/backup.go:670` says itself; the second rename writes over the first.
- Raw logs that cannot be given their names make `copyDatabase` delete the
  backup it has just named; if that fails as well, the backup stays in the list
  without them (`backup/backup.go:631`).
- The retention of other processes can delete the safety backup of a restore
  under way, once they have made `MaxAutoBackups` newer ones (`PushedOut`).
- Deleting a transfer of several lots leaves a lot behind; a failed
  `EnableLots` blocks its own retry; a back-dated sale can block later heals.
- A stale copy that a screen writes back breaks the sum of its lines
  (`transaction/service_splits.go:12`): the `torn` rows.
- A payment computed for a day behind a later row overpays; a refused post
  completes its schedule outside any undo step; a charge dated later completes
  a schedule while the loan still owes.
- Merging categories leaves `scheduled_split_items.category_id` alone, so that
  the delete at the end of the merge fails for good.
- Importing: a record with a new FITID may match a look-alike row that has
  another one and be skipped (`matcher.go:229`); a match is updated from the
  copy the preview read (`import_service.go:320`); a preview creates payees
  (`import_service.go:187`).
- A dangling link is a second name of a missing file, which `sameFile` cannot
  tell, since it needs both to exist.

### Bounds, and why they are enough

- `Transfers`: four row identifiers are two transfers, or one recreated after a
  delete. Identifiers of deleted rows are not drawn again, so an old snapshot
  can never fit by accident. One transfer id suffices for the pair and lock
  properties, which speak of one transfer; the lanes and plain rows supply what
  interferes. Two amounts in `replace` tell an undo that restores from one that
  writes the current value. In the runs that check symmetry, the two banks, or
  the two investment accounts, are interchangeable and no temporal property
  beyond a step property is checked.
- `UndoHistory`: `MaxDepth` is 3. A command becomes stale by one command above
  it that is undone and one that was done again, so the shortest failures known
  take two commands; three leave room for one in between. `Menus` selects the
  kinds of command and the amounts of a behaviour. Deadlock is not checked
  where identifiers run out, which stops the instance and not the program.
- `ScheduledPosting`: occurrences up to day 2 cover nothing due, one due and a
  catch-up of two, the last of a counted schedule and the one at an end date.
  Two sessions are one crash or restart and one recovery; two commands are one
  and another above it. Seven rows are more than these post. Rows nothing
  refers to are reused. `Handled` keeps the commands to one of two schedules,
  while the batch works on both.
- `DatabaseHandle`: a pool identifier is used again once nothing refers to it,
  so four are enough for any number of reopens. `MaxTrouble` 2 is a fault and a
  loss, or either with none left, or a close for good. `MCHandleTwo.cfg` has
  two file operations, whose background reopens meet (2.8M states, safety and
  the two action properties).
- `OpenDatabase`: three versions are an app, one older and one newer; three
  files are one, the one that replaces it, and one more.
- `BackupRestore`: two commits are what the backup holds and what came later;
  four timestamps with a limit of two automatic backups let retention work
  twice, or stop at a file it cannot delete; three operations are a backup, a restore of it, and one more; the
  other process opens the file twice, once on each side of a swap.
- `InvestmentLedger`, `SplitBooks`, `FileSwitching`: `Scopes` splits an
  instance that would be too large into behaviours that each have enough of one
  thing; every operation is in several of them. Four handles are the open one, the one before, a retired one and
  one more; one load at a time, so a load that still reads on a left handle
  while the next one runs is not exercised; `MaxContent` 1 is one restore or move.
- `LoanPayments`: 30 cents at 60 percent end in three payments with a rounded
  interest in each and a last one that is cut. Monthly on day 31 from 31
  January 2024, semi-monthly on 15 and last, and yearly from 29 February are
  the recurrences whose dates are not a fixed step; a table of four rows is
  longer than the loan.

### Fairness

No user action, day, restart, fault or loss is fair.

- `ScheduledPosting`: weak fairness of the batch and of the command in the
  lane. Each is a goroutine that was started and holds no lock another waits
  for in turn, so it runs on. Restarts are bounded by `MaxSession`.
- `DatabaseHandle`, `Scheduled`: weak fairness of each goroutine's next step,
  and strong fairness of taking a lock that keeps becoming free: Go's mutexes
  hand over to a waiter that starves, and the polling waits end at a deadline. Nothing is assumed of readers. `Recovers` and
  `SettlesInTheEnd` take `InUse` as a premise: readers let go, a lost file
  comes back, the user goes on reading and writing.
- `FileSwitching`: weak fairness of commands in flight and their messages, as
  the runtime of the terminal program runs each command and delivers what it
  returns. No liveness property is checked there.

## What is proved

The theorems hold for any values of the constants that satisfy the
assumptions named in the modules, which say no more than that sets of
identifiers are disjoint, bounds are natural numbers, and a marker for "none" is
not one of the things it stands in for.

### Transfers: `TransfersProofs`

- `TypeCorrect`: `Spec => []TypeOK`.
- `AlwaysPairs`: `Spec => []PairMirror`.

`PairMirror` is not inductive. The invariant is
`IInv == TypeOK /\ PairMirror /\ UnmintedUnused /\ TokensFit /\ JobsChecked`:

- `UnmintedUnused`: a create draws a transfer id, and the pair it writes must
  not meet rows that already carry it;
- `TokensFit`: a restore writes two amounts from a snapshot, which cancel and
  belong to the two rows the transfer has; a recreate finds no rows left;
- `JobsChecked`: what was checked before a transaction began is still enough
  when it writes. Two lanes interleave here, so this is where a stale check
  would show.

The proof has one lemma per action, grouped by what the action touches: the
rows of one transfer, a fresh pair, a plain row, marks only, or no rows.

The same module proves the remaining invariants and the action property that
the passing runs of `Transfers` check:

- `ChecksHold`: `Spec => []ManagedCheckHolds`;
- `VoidMeansEmpty`: `Spec => []VoidIsEmpty`;
- `ReconciledStays`: `Spec => ReconciledLocked`, an action property.

They need to know what one step may do to one row. `Lawful` lists it: nothing, a
write into an unused identifier, a removal or a rewrite of a row that is not
locked, or a new mark. Each action is shown lawful. Then
`SInv == IInv /\ VoidRowsEmpty /\ TokensLive /\ PlainLive /\ OpenChecked` is
inductive:

- `VoidRowsEmpty`: a void row has no amount, from `Lawful`;
- `TokensLive`, `PlainLive`: no undo of a void and no pending plain row brings
  a void row with an amount back; without them `VoidRowsEmpty` is not inductive;
- `OpenChecked`: only the manager's lane closes accounts, so the accounts its
  own command checked stay open until it writes.

`VoidIsEmpty` then follows with `PairMirror`, and `ReconciledLocked` from
`Lawful`. `ClosedKeepsBalance` has no theorem: the code breaks it.

### Transfers implements IdealTransfers: `TransfersProofs`

- `Implements`: `Spec => ImplementsIdeal`, the refinement the run `replace`
  checks on a small instance.

The mapping reads a transfer's direction off the signs of its rows, and off a
void command's snapshots while the rows have no amount. So the simulation needs
`RInv == SInv /\ Forward /\ Committed` besides what is proved above: `Forward`,
the snapshots of a void name the sender first, or undo would turn the transfer
round; `Committed`, a recreate under way writes what the token of its transfer
holds. `bookView` and `memoryView` are written as functions of the tables
(`Entry`, `Kept`), so that a lemma can compare them before and after a step. One
lemma per action then says which step of `IdealTransfers` it is, or that it is
none: a mark, for one, is nothing a caller sees unless it lifts a void mark.
`AbsentAssumption` says that "no transfer" is not a transfer.

### The handle: `HandleProofs`

- `TypeCorrect`; `NeverTwo`: `[]OneInstance`; `StillWhileCopied`: `[]FileStill`;
  `QuietOnceSettled`: `[]SettledIsQuiet`; `WorksOrHeals`: `[]NeverStuck`;
- `ClosedForGood`: `ClosedForGoodStays`, and `HealSpares`:
  `StaleHealSparesNew`, two action properties.

The task between its close and its publish is the one that holds `reopenMu`
(`LockFits`). What it has established about the published pool, first closed,
then without connections, stays true until it publishes another, because a
closed pool is never opened again and gives out no connection (`Drains`,
`Cleared`, `Unpublished`). No more than one pool is open (`OpenPools`). The
flags follow: while the handle is not final, the task that closes is the latest
close, and `stale` is set whenever the published pool stays closed with nobody
at it (`FlagsFit`). A close for good sets `final` before it closes, so that a
task that was waiting finds it (`QuitFits`). Readers never let go in this
argument: it holds for a reader that keeps its rows for ever.

### Opening a file: `OpenProofs`

- `TypeCorrect`; `RunsEachOnce`: `[]EachOnce`; `CurrentWhenOpen`:
  `[]OpenIsCurrent`; `SparesWhatWasThere`: `CreateSpares`. All of them hold for
  every interleaving.

`EachOnce` needs only that the migration a process runs next is the first one
its file lacks (`NextFits`), which the lock on the file gives. `OpenIsCurrent`
needs to know, of a process that nobody has crossed, what it has seen to of its
file at each step (`Seen`): it has the file open or is about to open it again,
the migrations it has run are those of its app, and the file is still there. A
step of another process keeps that, or crosses it (`Spares`). `CreateSpares`
needs that files are numbered as they are made and that a Create past its look
at the path has a lower number than what is there (`Looked`). Without the
exemptions both are false: `AlwaysCurrent` in `MCOpenNewer.cfg`, and
`RemovesOnlyItsOwn`, that a failing Create removes only what it has made, in
`MCOpenRace.cfg`.

### Backup and restore: `BackupProofs`

- `TypeCorrect`; `RetentionIsSafe`: `RetentionSpares`, for any `Window`;
- `NeverMixed`: `~Window => (Spec => []DatabaseWhole)`; `BackupsAreWhole`, the
  same for `BackupsWhole`; `OldIsKept`: `~Window => (Spec => SwapKeepsOld)`.

Retention is safe because the deleted backup is older than `MaxAutoBackups`
others, each of which is newer than every deleted one and so is kept: a
cardinality argument over the newest name deleted. Besides retention only the
failure to name raw logs deletes a backup. That it deletes this operation's own
copy is `NameInv`: what has the name when the raw logs are to follow holds the
rows of the partial file (`Named`), or is gone, pushed out by newer
names; a new name follows every name there is, so no other process gives that
one again meanwhile (`NoReuse`). For the rest, `LoneInv` says
that every log lies beside the file it belongs to or beside none (`FilesWhole`),
and that a file never becomes again what it was (`Became`): each commit has a
number of its own and a fold empties the log. So when the stamp taken before
the safety backup still fits after it (`SeenFits`), the backup holds what the
swap is about to replace (`Saved`).

### Several files: `FilesProofs`

- `TypeCorrect`; `ShowsTheOpenFile`: `[]ShownIsOpen`; `RetiredIsSettled`:
  `[]RetiredIsAsked`;
- `OneHandlePerFile`: `FilesKept => (Spec => []OneHandle)`;
  `HistoryIsOfThisFile`: `FilesKept => (Spec => []HistoryFits)`.

A handle that can touch a file is the open one, one just made, or one the App
still holds in order to close it (`Known`). Two operations in flight are never
on one file (`OpsApart`). An operation that goes on has every handle of its
file among those it settles or compares first (`Covered`), because whatever
came to its file after it started would have been an operation too.
`FilesKept == \A s \in Scopes : ~s.overOpen` says that no open file is deleted
behind the program; without it `OneHandle` is false (`MCFilesLost.cfg`). That a
missing file has one name is an assumption of `FileSwitching` and excludes the
dangling link above.

### The undo history: `UndoProofs`

- `TypeCorrect`; `VoidFits`: `HSpec => []VoidSnapshotFits`; `LockHolds`:
  `HSpec => ReconciledOnlyByFinish`; `AlwaysUndoable`: `HSpec => []UndoReady`.

`VoidSnapshotFits` speaks of the top of one stack, but a command gets there by
undo and redo of those above it, so the invariant is about the whole line of
commands, the undo stack followed by the redo stack read backwards. `InOrder`:
after a delete or a void of a transfer, no later command deletes, voids or
creates that transfer, or marks a row the void has struck, because the screen
did not offer it; undo and redo only move the cursor along the line. `Drawn`: a
removed transfer was drawn, so no create draws it again. `DoneFits`: the
transfer of a delete on the undo stack has no rows, that of a void has the rows
in the snapshots, all void. `UndoneFits`: a void waiting to be redone finds
those rows or none. `RunRows` and `RevertRows` say what a command may do to one
row (`RowStep`), and both theorems follow from it. `TypeCorrect` carries what
`LockHolds` needs besides: no command captures the status of a reconciled row
(`Kept`). `RowAssumption` says that a missing row is not a row,
`HistoryAssumption` that the row identifiers are finitely many, which the bound
on them in a run already makes true.

`UndoReady` is about the top of the stack as well, but every command below has
to stay fit for the time when it is on top. `Returns` says, of a command at place
`i`, what the commands above it (`Above(i)`) may have put in its way, and that
nothing else is. `Owner`: the transfer of a create or an edit has its legs, or a
delete above took them; a locked leg was caught by a finish above. `Editor`: it
is void only by a void above, and its accounts are open but for a close above, in
turn with reopens (`OpenAt`). `Closer` says the same of a closed account, and
`Finisher` that what a finish caught is still locked and caught by no other
finish. Undoing the command above takes away exactly what it put there, so with
nothing above nothing is left in the way. Besides, `Paired` (two legs on two
accounts, mirrored or both struck), `Sound` (what an edit or a void would write
back counts), and `Marker` and `MarksAgain` (no mark is undone or redone on a void
row) keep the pairs whole. TLC checked `UInv` and `Returns` on the instance of the
run `undo` and, with the eight commands in one session and depth 4, on 320,609
states.

### Scheduled posting: `PostingProofs`

- `TypeCorrect`: `Spec => []TypeOK`, whatever the user does early;
- `NeverTwice`: `Spec => []PostedOnce` if `Patient`, which is `Early = {}`: the
  user waits for the batch and for the view, and redoes the batch only when
  nothing that followed it is undone. That is what the run `posting` assumes;
  `MCStaleView.cfg` shows an occurrence posted twice without it.

`PostedOnce` alone is not inductive. `Behind` makes it so for posts: a schedule
is past every row it posted, so the next occurrence is new, as long as a command
posts the occurrence its schedule is at (`Exact`) and the schedule still is where
the command read it (`RunFits`, `ViewFits`, and `BatchFits` for the listed
copies). An undo moves a schedule back, so it has to drop every row from that
date on first. That it does is `Covered`: such rows belong to the command itself
or to one above it, which is undone already. What a command reads when it is done
again rests on both stacks: `UndoChain` and `RedoChain` say that each command ran
on what the one before it on the same schedule left, `UndoTop` and `RedoTop` that
the latest left what is stored now. The batch takes part with several schedules
at once, only ever as the first command of a session (`AutoFirst`), and comes
back from the redo stack without posting anything; `AutoAlive` and `AutoRedo` say
which of its schedules exist and that no row from its dates on is left.
`UndoFits` follows an undo of several transactions: rows first, then dates.
`Inv` is the conjunction of all these. TLC checked it, part by part, on the
instance of the run `posting` before it was proved; one lemma per action, with
the writes of an undo split into a row dropped, a schedule put back, and the last
one. `AbsentAssumption` says that a deleted schedule is not a schedule, that a
missing row is not a posting, and that a batch that is due is not done.

- `NeverMissed`: `Spec => []NothingMissed` if `Patient`, through posting,
  skipping, editing, deleting, undo, redo, sessions and crashes at any step.
  `MCBatchRedo.cfg` shows why the user has to wait: the batch done again brings
  back dates and no rows.

Its invariant is `Inv /\ Firm`. `Firm` says where the row of an occurrence that a
schedule has passed is to be found. The rows of the commands to undo are stored,
each with the posting its command made, except those of a batch that came back
from the redo stack, which no row is left of (`Stored`). No two commands, and no
two places in one, name the same row (`Apart`), so the undo of a command drops
only its own. A batch posted something for each of its schedules, and undoing it
takes none of them forward (`AllProper`, `AutoLow`). A deleted schedule that an
undo can bring back had missed nothing (`DeletedKept`). The three parts about work
under way say which rows have been written so far and which writes are still to
come: `BatchHolds`, `RunHolds` and `UndoHolds`. An undo fails before its first
write or not at all, and each schedule is put back no later than the first
occurrence whose row the undo drops; that is what makes the exception in
`NothingMissed` for an undo under way end with it. TLC checked `Firm` on the
instance of the run `posting` (315,850 states) and on one of 861,575 states.

- `NeverStuck`: `Spec => []UndoReady` if `Patient`. The command on top of the undo
  stack can be taken back whole: its row is stored, by `Stored`, and its schedule,
  by `UndoTop`. No run lists it; it was checked on the states of `posting`.

### Lines and reconciliation: `BooksProofs`

- `TypeCorrect`: `Spec => []TypeOK`;
- `StatementsHold`: `Spec => []StatementAgrees`;
- `LinesAddUp`: `Spec => []LinesSumToParent`.

The services are described first, each by what it may change: one entered row,
and of the counterparts only those that are not reconciled (`Changes`). Then come
the commands: what a command does when it is executed (`Does`) and undone
(`Undoes`).

`StatementAgrees` is about the last session that stands, but an undo of a finish
makes the one before it the last. `History` says what the undo stack knows of
that: the sessions finished by commands on it are the last ones, in the order of
the stack (`InOrder`); the rows that one of them reconciled are still reconciled
and belong to no other (`StillCaught`); without the rows of that command and of
the later ones, the account agrees with the session before (`AgreedBefore`). A
command on a row spares all of this because it refuses a reconciled row, its own
or a counterpart. A finish redone must not reconcile a row of another account:
an identifier belongs to one account wherever a command, the copy or the books
name it (`OneAccount`), and identifiers of entered rows are not drawn twice
(`Older`).

`LinesSumToParent` is not inductive either: the undo of an edit writes an old
amount over the lines that are there, and a redo a new one. Neither asks whether
they add up. `Fits` follows the amount and the lines of every row along both
stacks: they fit now and before every command to undo (`Fitting`), each command
turns what was before it into what was before the next (`Chain`), and the
commands to redo lead through amounts that fit as well (`Future`), although what
captures them is gone. A row written back stale is exempt from then on, and
nothing else is.

### What stays with TLC

- Liveness: `CaughtUp`, `FileOpsEnd`, `WritesEnd`, `Recovers`,
  `SettlesInTheEnd`.
- `VoidReady` and `RedoReady` of `UndoHistory` speak of `ENABLED`. `UndoReady` of
  `UndoHistory` spells out what the undo asks (`Revertible`) and is proved.
- `KeepsATimeline` compares how many transfers look alike before and after
  creates with new identifiers, so its mapping counts over sets.
- Sums and folds over shares and lots: `InvestmentLedger`, `LoanPayments` and
  the calendar's walk. What a fold returns for every input needs induction over
  data. `BooksProofs` gets by with sums that are equal because their terms are.
- `CounterpartMirrors`, `UndoReady` and `UndoRestores` of `SplitBooks`: they rest
  on what `Matches` pairs, a function defined by recursion over the lines.

## Plan

Modelled and checked: whole transfers, undo, scheduled posting, the handle,
opening, backup and restore, the investment ledger, lines and reconciliation,
several files, loans and the calendar. Proved: all safety properties of the
runs of `Transfers`, `DatabaseHandle`, `OpenDatabase`, `BackupRestore` and
`FileSwitching`, the refinement of `IdealTransfers`, `VoidSnapshotFits`,
`ReconciledOnlyByFinish` and `UndoReady` of `UndoHistory`, `PostedOnce`,
`NothingMissed` and `UndoReady` of `ScheduledPosting` for a patient user,
`StatementAgrees` and `LinesSumToParent` of `SplitBooks`.

Next modules, in this order:

1. `TransferLink`: stale candidates linked later, composed with `Transfers`.
2. `LedgerMove`: an account moved to the other ledger, row by row.
3. `Import`: matching of parsed records against rows that change meanwhile.
4. `Merge`: categories and payees with the references from four tables.
5. Create, edit and delete of accounts; one price per day.

Next theorem: `CounterpartMirrors` of `SplitBooks`.

## Not modelled, and why

Reports, charts, terminal images, configuration, logging and the parsing and
formatting of the command line keep no state of the books. Widgets, keys and
layout of the terminal program are presentation: only what its messages and
stale copies do to the books is in `FileSwitching`, `ScheduledPosting` and
`SplitBooks`. Price fetching depends on outside services. The closed form that
suggests a loan payment takes powers of decimals. The other components in the
inventory are in the plan.
