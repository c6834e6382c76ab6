--------------------------- MODULE DatabaseHandle ---------------------------
(***************************************************************************)
(* The handle of an open database file (src/internal/db: connection.go,    *)
(* tx.go), shared by everything that runs in a session: loads that read,   *)
(* one writing transaction at a time, backups and restores that need the   *)
(* file closed (WithFileClosed), the reconnects that repair a handle, and  *)
(* the close for good when the session lets the file go.                   *)
(*                                                                         *)
(* A handle publishes one pool of connections.  DuckDB keeps one instance  *)
(* per file and process: it lives while a pool is open or a connection of  *)
(* a closed pool is still out, touches the file until then, and hands a    *)
(* fatal error on to whatever opens the file meanwhile.  A Close closes    *)
(* only the idle connections.                                              *)
(*                                                                         *)
(* A critical section under connMu is one step.  A wait with a deadline    *)
(* may end without its lock only while the lock is taken.  A close number  *)
(* (closeGen) is read once and only ever compared for equality, so a task  *)
(* keeps whether it is still the latest close.                             *)
(***************************************************************************)
EXTENDS Naturals, FiniteSets

CONSTANTS
    Reader,     \* loads and queries outside a transaction
    Writer,     \* callers of WithTx
    FileOp,     \* callers of WithFileClosed: backup, restore, ledger move
    Heal,       \* the goroutine of healStale and healAfterFatal
    Quit,       \* the close for good
    Nobody,
    PoolId,     \* bound: pools alive or referenced at one time
    MaxFault,   \* bound: fatal errors of an instance
    MaxLoss,    \* bound: how often the file disappears
    MaxTrouble  \* bound: faults and losses together, a close for good counting as two

(* The reopen that a file operation leaves in the background.              *)
Behind(f) == <<"behind", f>>
Later  == {Behind(f) : f \in FileOp}
Client == Reader \cup Writer
Task   == FileOp \cup Later \cup {Heal}

ASSUME HandleAssumption ==
    /\ PoolId \subseteq Nat \ {0} /\ 1 \in PoolId
    /\ MaxFault \in Nat /\ MaxLoss \in Nat /\ MaxTrouble \in Nat
    /\ Reader \cap Writer = {}
    /\ Nobody \notin Task \cup Client \cup {Quit}
    /\ Heal \notin FileOp \cup Later /\ Quit \notin Task \cup Client
    /\ Task \cap Client = {} /\ FileOp \cap Later = {}

VARIABLES
    pool,      \* each pool: unused, open or closed, and its instance's health
    conn,      \* the published pool
    closed, final, stale, fileBusy, healing,  \* the flags of the handle
    txMu, reopenMu,                           \* who holds them
    client,    \* each reader and writer: what it does, on which pool
    task,      \* each task that closes or opens pools
    quit,      \* where the close for good is
    settled,   \* CloseAndSettle has answered that the file is still
    there,     \* the file exists
    faults, losses

vars == <<pool, conn, closed, final, stale, fileBusy, healing, txMu, reopenMu,
          client, task, quit, settled, there, faults, losses>>
flags  == <<closed, final, stale, fileBusy, healing>>
locks  == <<txMu, reopenMu>>
bounds == <<faults, losses>>

Pool == [state : {"unused", "open", "closed"}, bad : BOOLEAN]
ClientState ==
    [pc : {"idle", "aimed", "holding", "failed", "probed", "await"},
     on : PoolId \cup {0}]
TaskState ==
    [pc : {"idle", "tx", "mu", "close", "drain", "fn", "check", "open",
           "publish", "end"},
     on : PoolId \cup {0}, latest : BOOLEAN, recheck : BOOLEAN]

TypeOK ==
    /\ pool \in [PoolId -> Pool] /\ conn \in PoolId
    /\ closed \in BOOLEAN /\ final \in BOOLEAN /\ stale \in BOOLEAN
    /\ fileBusy \in BOOLEAN /\ healing \in BOOLEAN
    /\ txMu \in Writer \cup FileOp \cup {Quit, Nobody}
    /\ reopenMu \in Task \cup {Quit, Nobody}
    /\ client \in [Client -> ClientState] /\ task \in [Task -> TaskState]
    /\ quit \in {"idle", "tx", "mu", "final", "close", "drain", "done"}
    /\ settled \in BOOLEAN /\ there \in BOOLEAN
    /\ faults \in 0..MaxFault /\ losses \in 0..MaxLoss

Resting  == [pc |-> "idle", on |-> 0]
Dormant  == [pc |-> "idle", on |-> 0, latest |-> FALSE, recheck |-> FALSE]

Init ==
    /\ pool = [p \in PoolId |-> [state |-> IF p = 1 THEN "open" ELSE "unused",
                                 bad |-> FALSE]]
    /\ conn = 1
    /\ closed = FALSE /\ final = FALSE /\ stale = FALSE
    /\ fileBusy = FALSE /\ healing = FALSE
    /\ txMu = Nobody /\ reopenMu = Nobody
    /\ client = [c \in Client |-> Resting]
    /\ task = [t \in Task |-> Dormant]
    /\ quit = "idle" /\ settled = FALSE
    /\ there = TRUE /\ faults = 0 /\ losses = 0

-----------------------------------------------------------------------------
(* Pools and the instance behind them.                                     *)

Holders(p) == {c \in Client : client[c].on = p /\ client[c].pc = "holding"}
Alive(p)   == pool[p].state = "open" \/ Holders(p) # {}
Healthy(p) == pool[p].state = "open" /\ ~pool[p].bad

(* drained: OpenConnections of a closed pool is zero.                      *)
Drained(p) == Holders(p) = {}

(* A pool nothing refers to stands for the next one.                       *)
Fresh == {p \in PoolId :
            /\ p # conn /\ ~Alive(p)
            /\ \A c \in Client : client[c].on # p
            /\ \A t \in Task : task[t].on # p}
NewPool == CHOOSE p \in Fresh : TRUE

(* openPoolAt: whatever instance the file has is shared, sick or not.      *)
Opened(p) == [pool EXCEPT ![p] =
                [state |-> "open",
                 bad |-> \E q \in PoolId : Alive(q) /\ pool[q].bad]]
ClosedPool(p) == [pool EXCEPT ![p].state = "closed"]

(* DB.close by task t, or by Quit: closed on purpose.  Every close number  *)
(* read before is out of date.                                             *)
CloseHandle(t) ==
    /\ closed' = TRUE /\ stale' = FALSE
    /\ pool' = ClosedPool(conn)
    /\ task' = [u \in Task |->
                  IF u = t
                  THEN [pc |-> "drain", on |-> conn, latest |-> TRUE, recheck |-> FALSE]
                  ELSE [task[u] EXCEPT !.latest = FALSE]]

-----------------------------------------------------------------------------
(* A use of the handle: live() takes the published pool, and while the     *)
(* handle is stale it may start a heal, at most once a second.             *)

StartHeal(recheck) ==
    /\ ~healing /\ healing' = TRUE
    /\ task' = [task EXCEPT ![Heal] =
                  [pc |-> "mu", on |-> 0, latest |-> FALSE, recheck |-> recheck]]

Live(heals) ==
    IF heals THEN stale /\ StartHeal(TRUE) ELSE UNCHANGED <<healing, task>>

(* A reader takes the pool ...                                             *)
ReaderAims(r, heals) ==
    /\ client[r].pc = "idle"
    /\ client' = [client EXCEPT ![r] = [pc |-> "aimed", on |-> conn]]
    /\ Live(heals)
    /\ UNCHANGED <<pool, conn, closed, final, stale, fileBusy, locks, quit,
                   settled, there, bounds>>

(* ... and opens its rows on it, unless the pool is closed or invalidated. *)
ReaderConnects(r) ==
    /\ client[r].pc = "aimed"
    /\ client' = [client EXCEPT ![r] =
                    IF Healthy(client[r].on) THEN [@ EXCEPT !.pc = "holding"]
                    ELSE Resting]
    /\ UNCHANGED <<pool, conn, flags, locks, task, quit, settled, there, bounds>>

ReaderLetsGo(r) ==
    /\ client[r].pc = "holding"
    /\ client' = [client EXCEPT ![r] = Resting]
    /\ UNCHANGED <<pool, conn, flags, locks, task, quit, settled, there, bounds>>

Trouble == faults + losses + (IF final \/ quit # "idle" THEN 2 ELSE 0)

(* DuckDB invalidates the instance under a statement of c.                 *)
FatalError(c) ==
    /\ faults < MaxFault /\ Trouble < MaxTrouble
    /\ client[c].pc = "holding" /\ ~pool[client[c].on].bad
    /\ pool' = [pool EXCEPT ![client[c].on].bad = TRUE]
    /\ faults' = faults + 1
    /\ UNCHANGED <<conn, flags, locks, client, task, quit, settled, there, losses>>

(* The file is moved away, or its share drops; and it comes back.          *)
FileDisappears ==
    /\ there /\ losses < MaxLoss /\ Trouble < MaxTrouble
    /\ there' = FALSE /\ losses' = losses + 1
    /\ UNCHANGED <<pool, conn, flags, locks, client, task, quit, settled, faults>>

FileReturns ==
    /\ ~there /\ there' = TRUE
    /\ UNCHANGED <<pool, conn, flags, locks, client, task, quit, settled, bounds>>

-----------------------------------------------------------------------------
(* WithTx and healAfterFatal.                                              *)

WriterLocks(w, heals) ==
    /\ client[w].pc = "idle" /\ txMu = Nobody
    /\ txMu' = w
    /\ client' = [client EXCEPT ![w] = [pc |-> "aimed", on |-> conn]]
    /\ Live(heals)
    /\ UNCHANGED <<pool, conn, closed, final, stale, fileBusy, reopenMu, quit,
                   settled, there, bounds>>

WriterBegins(w) ==
    /\ client[w].pc = "aimed"
    /\ client' = [client EXCEPT ![w] =
                    IF Healthy(client[w].on) THEN [@ EXCEPT !.pc = "holding"]
                    ELSE [pc |-> "failed", on |-> 0]]
    /\ UNCHANGED <<pool, conn, flags, locks, task, quit, settled, there, bounds>>

(* A commit or a rollback, which an invalidated instance refuses.          *)
WriterEnds(w) ==
    /\ client[w].pc = "holding"
    /\ IF pool[client[w].on].bad
       THEN client' = [client EXCEPT ![w] = [pc |-> "failed", on |-> 0]] /\ UNCHANGED txMu
       ELSE client' = [client EXCEPT ![w] = Resting] /\ txMu' = Nobody
    /\ UNCHANGED <<pool, conn, flags, reopenMu, task, quit, settled, there, bounds>>

(* Closed on purpose, or a probe that answers: nothing to heal.            *)
WriterProbes(w, heals) ==
    /\ client[w].pc = "failed"
    /\ IF closed \/ Healthy(conn)
       THEN client' = [client EXCEPT ![w] = Resting] /\ txMu' = Nobody
       ELSE client' = [client EXCEPT ![w].pc = "probed"] /\ UNCHANGED txMu
    /\ IF closed THEN ~heals /\ UNCHANGED <<healing, task>> ELSE Live(heals)
    /\ UNCHANGED <<pool, conn, closed, final, stale, fileBusy, reopenMu, quit,
                   settled, there, bounds>>

WriterHeals(w) ==
    /\ client[w].pc = "probed"
    /\ IF healing
       THEN /\ client' = [client EXCEPT ![w] = Resting] /\ txMu' = Nobody
            /\ UNCHANGED <<healing, task>>
       ELSE /\ StartHeal(FALSE)
            /\ client' = [client EXCEPT ![w].pc = "await"]
            /\ UNCHANGED txMu
    /\ UNCHANGED <<pool, conn, closed, final, stale, fileBusy, reopenMu, quit,
                   settled, there, bounds>>

(* Mutant of WriterReturns: the wait has no time limit.                    *)
WaitsForHeal(w) ==
    /\ client[w].pc = "await" /\ ~healing
    /\ client' = [client EXCEPT ![w] = Resting] /\ txMu' = Nobody
    /\ UNCHANGED <<pool, conn, flags, reopenMu, task, quit, settled, there, bounds>>

(* The wait for the reconnect ends with it or with its time.               *)
WriterReturns(w) ==
    /\ client[w].pc = "await"
    /\ client' = [client EXCEPT ![w] = Resting] /\ txMu' = Nobody
    /\ UNCHANGED <<pool, conn, flags, reopenMu, task, quit, settled, there, bounds>>

-----------------------------------------------------------------------------
(* reconnect.  It holds reopenMu from here to its end.                     *)

HealLocks ==
    /\ task[Heal].pc = "mu" /\ reopenMu = Nobody
    /\ reopenMu' = Heal
    /\ task' = [task EXCEPT ![Heal].pc = "close"]
    /\ UNCHANGED <<pool, conn, flags, txMu, client, quit, settled, there, bounds>>

(* healStale looks at stale again under the lock; reconnectLocked refuses  *)
(* a handle closed on purpose, and closes the old pool.                    *)
HealCloses ==
    /\ task[Heal].pc = "close"
    /\ IF closed \/ (task[Heal].recheck /\ ~stale)
       THEN /\ task' = [task EXCEPT ![Heal].pc = "end"]
            /\ reopenMu' = Nobody /\ UNCHANGED pool
       ELSE /\ task' = [task EXCEPT ![Heal] =
                          [@ EXCEPT !.pc = "drain", !.on = conn, !.latest = TRUE]]
            /\ pool' = ClosedPool(conn) /\ UNCHANGED reopenMu
    /\ UNCHANGED <<conn, flags, txMu, client, quit, settled, there, bounds>>

(* The end of a task that may hold the locks, and of the flag it set.      *)
Ends(t) ==
    /\ task' = [task EXCEPT ![t] =
                  IF t \in FileOp THEN Dormant ELSE [Dormant EXCEPT !.pc = "end"]]
    /\ reopenMu' = Nobody
    /\ txMu' = IF t \in FileOp THEN Nobody ELSE txMu

(* Mutant of TaskForgets: healing stays set.                               *)
TaskStaysFlagged(t) ==
    /\ task[t].pc = "end"
    /\ task' = [task EXCEPT ![t] = Dormant]
    /\ IF t = Heal THEN UNCHANGED fileBusy ELSE fileBusy' = FALSE
    /\ UNCHANGED <<pool, conn, closed, final, stale, healing, locks, client,
                   quit, settled, there, bounds>>

TaskForgets(t) ==
    /\ task[t].pc = "end"
    /\ task' = [task EXCEPT ![t] = Dormant]
    /\ IF t = Heal THEN healing' = FALSE /\ UNCHANGED fileBusy
                   ELSE fileBusy' = FALSE /\ UNCHANGED healing
    /\ UNCHANGED <<pool, conn, closed, final, stale, locks, client, quit,
                   settled, there, bounds>>

(* A close on purpose came after the close of task t.                      *)
Dropped(t) == final \/ ~task[t].latest

(* Mutant of AwaitDrain: the open follows the close at once.               *)
NoAwaitDrain(t) ==
    /\ t \in Later \cup {Heal} /\ task[t].pc = "drain"
    /\ \/ Dropped(t) /\ Ends(t)
       \/ /\ ~Dropped(t)
          /\ task' = [task EXCEPT ![t].pc = IF t = Heal THEN "open" ELSE "check",
                                ![t].on = 0]
          /\ UNCHANGED locks
    /\ UNCHANGED <<pool, conn, flags, client, quit, settled, there, bounds>>

(* awaitDrain, without a time limit.                                       *)
AwaitDrain(t) ==
    /\ t \in Later \cup {Heal} /\ task[t].pc = "drain"
    /\ \/ Dropped(t) /\ Ends(t)
       \/ /\ ~Dropped(t) /\ Drained(task[t].on)
          /\ task' = [task EXCEPT ![t].pc = IF t = Heal THEN "open" ELSE "check",
                                ![t].on = 0]
          /\ UNCHANGED locks
    /\ UNCHANGED <<pool, conn, flags, client, quit, settled, there, bounds>>

(* openPool asks before it touches the file.                               *)
CheckReopen(t) ==
    /\ task[t].pc = "check"
    /\ \/ Dropped(t) /\ Ends(t)
       \/ /\ ~Dropped(t) /\ task' = [task EXCEPT ![t].pc = "open"]
          /\ UNCHANGED locks
    /\ UNCHANGED <<pool, conn, flags, client, quit, settled, there, bounds>>

(* openConn: never on a file that is gone.                                 *)
OpenConn(t) ==
    /\ task[t].pc = "open" /\ there /\ Fresh # {}
    /\ pool' = Opened(NewPool)
    /\ task' = [task EXCEPT ![t].pc = "publish", ![t].on = NewPool]
    /\ UNCHANGED <<conn, flags, locks, client, quit, settled, there, bounds>>

(* Mutant of OpenFails: a handle that a file operation closed stays so.    *)
OpenFailsClosed(t) ==
    /\ task[t].pc = "open" /\ ~there
    /\ IF t # Heal THEN UNCHANGED <<closed, stale>>
                   ELSE UNCHANGED closed /\ stale' = TRUE
    /\ Ends(t)
    /\ UNCHANGED <<pool, conn, final, fileBusy, healing, client, quit, settled,
                   there, bounds>>

(* The closed pool stays published.  A file operation's close was only for *)
(* the file, so the handle no longer counts as closed on purpose.          *)
OpenFails(t) ==
    /\ task[t].pc = "open" /\ ~there
    /\ IF t # Heal /\ Dropped(t)
       THEN UNCHANGED <<closed, stale>>
       ELSE closed' = (t = Heal /\ closed) /\ stale' = TRUE
    /\ Ends(t)
    /\ UNCHANGED <<pool, conn, final, fileBusy, healing, client, quit, settled,
                   there, bounds>>

(* The new pool is published, unless a close on purpose came first.        *)
Publish(t) ==
    /\ task[t].pc = "publish"
    /\ IF ~task[t].latest \/ (t # Heal /\ final)
       THEN pool' = ClosedPool(task[t].on) /\ UNCHANGED <<conn, closed, stale>>
       ELSE /\ conn' = task[t].on /\ closed' = FALSE /\ stale' = FALSE
            /\ UNCHANGED pool
    /\ Ends(t)
    /\ UNCHANGED <<final, fileBusy, healing, client, quit, settled, there, bounds>>

-----------------------------------------------------------------------------
(* WithFileClosed.  A call that finds the handle closed for good or busy   *)
(* returns at once.                                                        *)

FileOpCalled(f) ==
    /\ task[f].pc = "idle" /\ task[Behind(f)].pc = "idle"
    /\ ~final /\ ~fileBusy
    /\ task' = [task EXCEPT ![f].pc = "tx"]
    /\ UNCHANGED <<pool, conn, flags, locks, client, quit, settled, there, bounds>>

FileOpLocksTx(f) ==
    /\ task[f].pc = "tx" /\ txMu = Nobody
    /\ txMu' = f /\ task' = [task EXCEPT ![f].pc = "mu"]
    /\ UNCHANGED <<pool, conn, flags, reopenMu, client, quit, settled, there, bounds>>

(* Mutant of FileOpLocksReopen: the early return keeps the writer lock.    *)
FileOpKeepsTx(f) ==
    /\ task[f].pc = "mu" /\ reopenMu = Nobody
    /\ IF final THEN task' = [task EXCEPT ![f] = Dormant] /\ UNCHANGED reopenMu
       ELSE reopenMu' = f /\ task' = [task EXCEPT ![f].pc = "close"]
    /\ UNCHANGED <<pool, conn, flags, txMu, client, quit, settled, there, bounds>>

(* reopenMu by the deadline, then final once more.                         *)
FileOpLocksReopen(f) ==
    /\ task[f].pc = "mu" /\ reopenMu = Nobody
    /\ IF final THEN Ends(f)
       ELSE /\ reopenMu' = f /\ task' = [task EXCEPT ![f].pc = "close"]
            /\ UNCHANGED txMu
    /\ UNCHANGED <<pool, conn, flags, client, quit, settled, there, bounds>>

(* Mutant of FileOpGivesUp: the wait for a heal has no time limit.         *)
FileOpWaitsOn(f) ==
    /\ task[f].pc = "mu" /\ reopenMu = Nobody /\ final
    /\ Ends(f)
    /\ UNCHANGED <<pool, conn, flags, client, quit, settled, there, bounds>>

FileOpGivesUp(f) ==
    /\ task[f].pc = "mu" /\ reopenMu # Nobody
    /\ txMu' = Nobody /\ task' = [task EXCEPT ![f] = Dormant]
    /\ UNCHANGED <<pool, conn, flags, reopenMu, client, quit, settled, there, bounds>>

FileOpCloses(f) ==
    /\ task[f].pc = "close"
    /\ CloseHandle(f)
    /\ UNCHANGED <<conn, final, fileBusy, healing, locks, client, quit, settled,
                   there, bounds>>

(* Mutant of FileOpDrained: fn runs as soon as the pool is closed.         *)
FileOpHurries(f) ==
    /\ task[f].pc = "drain"
    /\ task' = [task EXCEPT ![f].pc = "fn", ![f].on = 0]
    /\ UNCHANGED <<pool, conn, flags, locks, client, quit, settled, there, bounds>>

FileOpDrained(f) ==
    /\ task[f].pc = "drain" /\ Drained(task[f].on)
    /\ task' = [task EXCEPT ![f].pc = "fn", ![f].on = 0]
    /\ UNCHANGED <<pool, conn, flags, locks, client, quit, settled, there, bounds>>

(* A read holds on past the deadline: fn does not run, and the reopen goes *)
(* to the background with reopenMu.                                        *)
FileOpLeavesReopen(f) ==
    /\ task[f].pc = "drain" /\ ~Drained(task[f].on)
    /\ task' = [task EXCEPT ![Behind(f)] = task[f], ![f] = Dormant]
    /\ reopenMu' = Behind(f) /\ txMu' = Nobody
    /\ fileBusy' = TRUE
    /\ UNCHANGED <<pool, conn, closed, final, stale, healing, client, quit,
                   settled, there, bounds>>

(* fn copies or replaces the file, and ends.                               *)
FileOpRuns(f) ==
    /\ task[f].pc = "fn"
    /\ task' = [task EXCEPT ![f].pc = "check"]
    /\ UNCHANGED <<pool, conn, flags, locks, client, quit, settled, there, bounds>>

-----------------------------------------------------------------------------
(* CloseForGood when a session drops the handle (retire), which then asks  *)
(* CloseAndSettle until it settles; and CloseAndSettle alone.              *)

Retire ==
    /\ quit = "idle" /\ ~final /\ Trouble + 2 <= MaxTrouble
    /\ final' = TRUE /\ quit' = "close"
    /\ UNCHANGED <<pool, conn, closed, stale, fileBusy, healing, locks, client,
                   task, settled, there, bounds>>

SettleCalled ==
    /\ quit = "idle" /\ (final \/ Trouble + 2 <= MaxTrouble)
    /\ quit' = "tx"
    /\ UNCHANGED <<pool, conn, flags, locks, client, task, settled, there, bounds>>

SettleLocksTx ==
    /\ quit = "tx"
    /\ IF txMu = Nobody THEN txMu' = Quit /\ quit' = "mu"
                        ELSE UNCHANGED txMu /\ quit' = "final"
    /\ UNCHANGED <<pool, conn, flags, reopenMu, client, task, settled, there, bounds>>

SettleLocksReopen ==
    /\ quit = "mu" /\ quit' = "final"
    /\ reopenMu' = IF reopenMu = Nobody THEN Quit ELSE reopenMu
    /\ UNCHANGED <<pool, conn, flags, txMu, client, task, settled, there, bounds>>

SettleMarksFinal ==
    /\ quit = "final" /\ quit' = "close"
    /\ final' = TRUE
    /\ UNCHANGED <<pool, conn, closed, stale, fileBusy, healing, locks, client,
                   task, settled, there, bounds>>

SettleCloses ==
    /\ quit = "close" /\ quit' = "drain"
    /\ CloseHandle(Quit)
    /\ UNCHANGED <<conn, final, fileBusy, healing, locks, client, settled,
                   there, bounds>>

(* Mutant of SettleAnswers: only the connections are counted.              *)
SettleIgnoresLocks ==
    /\ quit = "drain"
    /\ settled' = Drained(conn)
    /\ quit' = IF settled' THEN "done" ELSE "idle"
    /\ txMu' = IF txMu = Quit THEN Nobody ELSE txMu
    /\ reopenMu' = IF reopenMu = Quit THEN Nobody ELSE reopenMu
    /\ UNCHANGED <<pool, conn, flags, client, task, there, bounds>>

(* The answer is yes when both locks were got and nothing holds the pool.  *)
SettleAnswers ==
    /\ quit = "drain"
    /\ settled' = (reopenMu = Quit /\ Drained(conn))
    /\ quit' = IF settled' THEN "done" ELSE "idle"
    /\ txMu' = IF txMu = Quit THEN Nobody ELSE txMu
    /\ reopenMu' = IF reopenMu = Quit THEN Nobody ELSE reopenMu
    /\ UNCHANGED <<pool, conn, flags, client, task, there, bounds>>

-----------------------------------------------------------------------------
Reads(r) ==
    \/ \E heals \in BOOLEAN : ReaderAims(r, heals)
    \/ ReaderConnects(r) \/ ReaderLetsGo(r)

(* A transaction once it has the writer lock.                              *)
Transacts(w) ==
    \/ WriterBegins(w) \/ WriterEnds(w)
    \/ \E heals \in BOOLEAN : WriterProbes(w, heals)
    \/ WriterHeals(w) \/ WriterReturns(w)

Reopens(t) ==
    \/ AwaitDrain(t) \/ CheckReopen(t) \/ OpenConn(t) \/ OpenFails(t)
    \/ Publish(t)

Heals == HealCloses \/ Reopens(Heal) \/ TaskForgets(Heal)

Background(f) == Reopens(Behind(f)) \/ TaskForgets(Behind(f))

(* A file operation once it has the writer lock.                           *)
FileOpGoesOn(f) ==
    \/ FileOpLocksReopen(f) \/ FileOpGivesUp(f)
    \/ FileOpCloses(f) \/ FileOpDrained(f) \/ FileOpLeavesReopen(f)
    \/ FileOpRuns(f) \/ Reopens(f)

Settles ==
    \/ SettleLocksTx \/ SettleLocksReopen \/ SettleMarksFinal
    \/ SettleCloses \/ SettleAnswers

Next ==
    \/ \E r \in Reader : Reads(r)
    \/ \E w \in Writer :
         Transacts(w) \/ \E heals \in BOOLEAN : WriterLocks(w, heals)
    \/ \E c \in Client : FatalError(c)
    \/ FileDisappears \/ FileReturns
    \/ HealLocks \/ Heals
    \/ \E f \in FileOp :
         FileOpCalled(f) \/ FileOpLocksTx(f) \/ FileOpGoesOn(f) \/ Background(f)
    \/ Retire \/ SettleCalled \/ Settles

Spec == Init /\ [][Next]_vars

-----------------------------------------------------------------------------
(* Fairness.  Goroutines run, a mutex that keeps becoming free is got in   *)
(* the end, and a transaction ends.  A reader may hold its rows for ever.  *)
Scheduled ==
    /\ \A r \in Reader : WF_vars(ReaderConnects(r))
    /\ \A w \in Writer : WF_vars(Transacts(w))
    /\ SF_vars(HealLocks) /\ WF_vars(Heals)
    /\ \A f \in FileOp : /\ SF_vars(FileOpLocksTx(f)) /\ WF_vars(FileOpGoesOn(f))
                         /\ WF_vars(Background(f))
    /\ WF_vars(Settles)

HeldSpec == Spec /\ Scheduled

(* What recovery needs besides: readers let go, a lost file comes back,    *)
(* the user goes on reading (once a second or less) and writing, and a     *)
(* handle closed for good is asked again until it settles (retiredSettled).*)
InUse ==
    /\ \A r \in Reader : WF_vars(ReaderLetsGo(r)) /\ SF_vars(ReaderAims(r, TRUE))
    /\ \A w \in Writer : SF_vars(WriterLocks(w, FALSE))
    /\ WF_vars(FileReturns)
    /\ WF_vars(final /\ SettleCalled)

-----------------------------------------------------------------------------
(* While fn of a backup or a restore runs, no pool and no connection       *)
(* touches the file: it is still, and its log is folded in.                *)
FileStill ==
    (\E f \in FileOp : task[f].pc = "fn") => \A p \in PoolId : ~Alive(p)

(* Nothing opens the file while an instance of it is alive: such an open   *)
(* would inherit its fatal error, or fail.                                 *)
OneInstance == \A p, q \in PoolId : Alive(p) /\ Alive(q) => p = q

(* When CloseAndSettle has said that the file is still, nothing has it     *)
(* open, works on it, or is about to open it, whatever was in flight.      *)
SettledIsQuiet ==
    settled => /\ \A p \in PoolId : ~Alive(p)
               /\ \A t \in Task : task[t].pc \notin {"fn", "open", "publish"}

(* Between file operations and heals a handle that was not closed for good *)
(* works or heals at its next use: no sequence of failed reopens, lost     *)
(* races and timeouts leaves it closed.                                    *)
NeverStuck ==
    ~final /\ reopenMu = Nobody => ~closed /\ (pool[conn].state = "open" \/ stale)

(* While a reopen that a file operation left behind keeps reopenMu, the    *)
(* flag that other calls report as "try again" is set.                     *)
BusyIsShown == reopenMu \in Later => fileBusy

(* A handle closed for good publishes no pool again.                       *)
ClosedForGoodStays == [][final /\ closed => closed' /\ conn' = conn]_vars

(* A heal that a read of a stale handle started never closes a pool that   *)
(* works: the reopen of a file operation may have come first.              *)
StaleHealSparesNew ==
    [][task[Heal].recheck /\ task[Heal].pc = "close" /\ task'[Heal].pc = "drain"
         => ~Healthy(conn)]_vars

(* No backup, restore or write hangs behind a reader that never lets go.   *)
FileOpsEnd == \A f \in FileOp : task[f].pc # "idle" ~> task[f].pc = "idle"
WritesEnd  == \A w \in Writer : client[w].pc # "idle" ~> client[w].pc = "idle"

(* In use, a handle whose instance died, or whose reopen failed, works     *)
(* again.                                                                  *)
Recovers == InUse => (~Healthy(conn) ~> Healthy(conn) \/ final)

(* In use, once the work on a handle closed for good has ended, it         *)
(* settles, so that its file can be opened again.                          *)
SettlesInTheEnd ==
    InUse => (<>[](final /\ \A c \in Client : client[c].pc = "idle") => <>settled)
=============================================================================
