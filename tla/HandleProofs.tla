---------------------------- MODULE HandleProofs ----------------------------
(***************************************************************************)
(* Proofs about DatabaseHandle, for any readers, writers and file          *)
(* operations, any number of pools, faults and losses.                     *)
(*                                                                         *)
(* The argument: a task between its close and its publish is the one that  *)
(* holds reopenMu, so whatever it established about the published pool --  *)
(* closed, then without connections -- stays true until it publishes       *)
(* another, because a closed pool is never opened again and gives out no   *)
(* connection.                                                             *)
(***************************************************************************)
EXTENDS DatabaseHandle, TLAPS

Closing == {"drain", "fn", "check", "open", "publish"}
Busy    == {"close"} \cup Closing
Emptied == {"fn", "check", "open", "publish"}

(* reopenMu is held by the task inside its critical section, or by Quit.   *)
LockFits ==
    /\ \A t \in Task : task[t].pc \in Busy <=> reopenMu = t
    /\ reopenMu = Quit => quit \in {"final", "close", "drain"}

(* The steps each kind of task goes through; one Heal at a time.           *)
Scripts ==
    /\ \A f \in FileOp : task[f].pc # "end" /\ (task[f].pc # "idle" => task[Behind(f)].pc = "idle")
    /\ \A t \in Later : task[t].pc \notin {"tx", "mu", "close", "fn"}
    /\ task[Heal].pc \notin {"tx", "fn", "check"}
    /\ ~healing => task[Heal].pc = "idle"

(* What a task in its critical section knows of the pools.                 *)
Drains ==
    \A t \in Task : task[t].pc = "drain" =>
        task[t].on = conn /\ pool[conn].state # "open"
Cleared ==
    \A t \in Task : task[t].pc \in Emptied => ~Alive(conn)
Unpublished ==
    \A t \in Task : task[t].pc = "publish" =>
        /\ task[t].on \in PoolId \ {conn} /\ pool[task[t].on].state = "open"
        /\ \A c \in Client : client[c].on # task[t].on
OpenPools ==
    \A p \in PoolId : pool[p].state = "open" =>
        p = conn \/ \E t \in Task : task[t].pc = "publish" /\ task[t].on = p
HoldsConn ==
    \A c \in Client : /\ client[c].pc = "holding" => client[c].on = conn
                      /\ client[c].pc = "aimed" => client[c].on # 0

(* What the flags say of the published pool.                               *)
FlagsFit ==
    /\ stale => pool[conn].state # "open"
    /\ task[Heal].pc \in Closing /\ task[Heal].latest => ~closed
    /\ ~final => \A t \in Task : task[t].pc \in Closing => task[t].latest
    /\ ~final /\ (\A t \in Task : task[t].pc \notin Closing)
         => ~closed /\ (pool[conn].state = "open" \/ stale)

(* The close for good.                                                     *)
QuitFits ==
    /\ quit \in {"close", "drain", "done"} => final
    /\ quit = "drain" /\ reopenMu = Quit => closed /\ pool[conn].state # "open"
    /\ settled => /\ quit = "done" /\ closed /\ ~Alive(conn)
                  /\ \A t \in Task : task[t].pc \notin Closing
                  /\ \A f \in FileOp : task[f].pc # "close"

IInv ==
    /\ TypeOK /\ LockFits /\ Scripts
    /\ Drains /\ Cleared /\ Unpublished /\ OpenPools /\ HoldsConn
    /\ FlagsFit /\ QuitFits

----------------------------------------------------------------------------
(* Lemmas.                                                                 *)

LEMMA Names ==
    /\ Heal \in Task /\ Heal \notin FileOp \cup Later
    /\ Nobody \notin Task /\ Quit \notin Task /\ Quit # Nobody
    /\ \A f \in FileOp : f \in Task /\ Behind(f) \in Task /\ Behind(f) \in Later
    /\ \A f \in FileOp : f # Behind(f) /\ Behind(f) \notin FileOp
    /\ \A f, g \in FileOp : Behind(f) = Behind(g) => f = g
    /\ \A t \in Later : t \in Task /\ t \notin FileOp
    /\ 0 \notin PoolId
BY HandleAssumption DEF Task, Later, Behind

(* The pool OpenConn takes is one that nothing refers to.                  *)
LEMMA FreshPool ==
    ASSUME Fresh # {}
    PROVE  /\ NewPool \in PoolId \ {conn} /\ ~Alive(NewPool)
           /\ \A c \in Client : client[c].on # NewPool
           /\ \A t \in Task : task[t].on # NewPool
<1>1. NewPool \in Fresh
  BY DEF NewPool
<1> QED
  BY <1>1 DEF Fresh


----------------------------------------------------------------------------
(* Every use of the handle by a client only aims at the published pool,    *)
(* or takes a connection of a healthy one, or lets go; it may start Heal.  *)
MayHeal ==
    \/ UNCHANGED <<healing, task>>
    \/ \E recheck \in BOOLEAN : StartHeal(recheck)

Uses(c) ==
    \/ client'[c] = client[c]
    \/ client'[c].pc \notin {"aimed", "holding"} /\ client'[c].on \in {0, client[c].on}
    \/ client'[c] = [pc |-> "aimed", on |-> conn]
    \/ client'[c].on = client[c].on /\ client[c].pc = "aimed" /\ Healthy(client[c].on)

ClientStep ==
    /\ TypeOK' /\ MayHeal /\ \A c \in Client : Uses(c)
    /\ UNCHANGED <<pool, conn, closed, final, stale, fileBusy, reopenMu, quit, settled>>

LEMMA HealStarts ==
    ASSUME TypeOK, Scripts, MayHeal
    PROVE  /\ Scripts'
           /\ \A t \in Task : task'[t].pc \in Busy => task'[t] = task[t]
           /\ \A t \in Task : task[t].pc \in Busy => task'[t] = task[t]
BY Names DEF TypeOK, MayHeal, StartHeal, Scripts, Busy, Closing

LEMMA ClientKeeps ==
    ASSUME IInv, ClientStep
    PROVE  IInv'
<1> USE DEF ClientStep
<1>1. TypeOK /\ TypeOK' /\ LockFits /\ Scripts'
      /\ \A t \in Task : task[t].pc \in Busy \/ task'[t].pc \in Busy => task'[t] = task[t]
  BY HealStarts DEF IInv
<1>2. ASSUME NEW c \in Client, client'[c].pc = "holding"
      PROVE  /\ client'[c].on = client[c].on /\ client[c].on = conn
             /\ client[c].pc = "holding" \/ pool[conn].state = "open"
  <2>1. CASE client'[c] = client[c]
    BY <1>2, <2>1 DEF IInv, HoldsConn
  <2>2. CASE client'[c].on = client[c].on /\ client[c].pc = "aimed" /\ Healthy(client[c].on)
    <3>1. client[c].on \in PoolId /\ pool[client[c].on].state = "open"
      BY <2>2 DEF IInv, TypeOK, ClientState, HoldsConn, Healthy
    <3>2. \A t \in Task : task[t].pc = "publish" => task[t].on # client[c].on
      BY DEF IInv, Unpublished
    <3> QED
      BY <2>2, <3>1, <3>2 DEF IInv, OpenPools
  <2> QED
    BY <1>2, <2>1, <2>2 DEF Uses
<1>3. LockFits'
  BY <1>1 DEF LockFits
<1>4. HoldsConn' /\ Drains' /\ OpenPools'
  BY <1>1, <1>2, Names DEF TypeOK, IInv, Uses, HoldsConn, Drains, OpenPools, Busy, Closing
<1>5. ~Alive(conn) => ~Alive(conn)'
  BY <1>1, <1>2 DEF Alive, Holders
<1>6. Cleared' /\ QuitFits' /\ FlagsFit'
  BY <1>1, <1>5, Names DEF IInv, Cleared, QuitFits, FlagsFit, Busy, Closing, Emptied
<1>7. Unpublished'
  BY <1>1, Names DEF TypeOK, IInv, Unpublished, Uses, Busy, Closing
<1> QED
  BY <1>1, <1>3, <1>4, <1>6, <1>7 DEF IInv
LEMMA StartTypes ==
    ASSUME TypeOK, NEW recheck \in BOOLEAN, StartHeal(recheck)
    PROVE  MayHeal /\ task' \in [Task -> TaskState] /\ healing' \in BOOLEAN
<1>1. [pc |-> "mu", on |-> 0, latest |-> FALSE, recheck |-> recheck] \in TaskState
  BY DEF TaskState
<1> QED
  BY <1>1 DEF TypeOK, StartHeal, MayHeal

LEMMA LiveTypes ==
    ASSUME TypeOK, NEW heals \in BOOLEAN, Live(heals)
    PROVE  MayHeal /\ task' \in [Task -> TaskState] /\ healing' \in BOOLEAN
BY StartTypes DEF TypeOK, Live, MayHeal

LEMMA ReaderUses ==
    ASSUME IInv, NEW r \in Reader, Reads(r)
    PROVE  ClientStep
<1> USE Names DEF TypeOK, Client, Resting, ClientState, flags, locks, bounds, ClientStep,
   MayHeal, Uses
<1>1. TypeOK /\ HoldsConn /\ r \in Client
  BY DEF IInv
<1>2. ASSUME NEW heals \in BOOLEAN, ReaderAims(r, heals)
      PROVE  ClientStep
  <2>1. MayHeal /\ task' \in [Task -> TaskState] /\ healing' \in BOOLEAN
    BY <1>1, <1>2, LiveTypes DEF ReaderAims
  <2> QED
    BY <1>1, <1>2, <2>1 DEF ReaderAims
<1>3. CASE ReaderConnects(r)
  BY <1>1, <1>3 DEF ReaderConnects
<1>4. CASE ReaderLetsGo(r)
  BY <1>1, <1>4 DEF ReaderLetsGo
<1> QED
  BY <1>2, <1>3, <1>4 DEF Reads

LEMMA WriterUses ==
    ASSUME IInv, NEW w \in Writer,
           Transacts(w) \/ \E heals \in BOOLEAN : WriterLocks(w, heals)
    PROVE  ClientStep
<1> USE Names DEF TypeOK, Client, Resting, ClientState, flags, locks, bounds, ClientStep,
   MayHeal, Uses
<1>1. TypeOK /\ HoldsConn /\ w \in Client
  BY DEF IInv
<1>2. ASSUME NEW heals \in BOOLEAN, WriterLocks(w, heals)
      PROVE  ClientStep
  <2>1. MayHeal /\ task' \in [Task -> TaskState] /\ healing' \in BOOLEAN
    BY <1>1, <1>2, LiveTypes DEF WriterLocks
  <2> QED
    BY <1>1, <1>2, <2>1 DEF WriterLocks
<1>3. CASE WriterBegins(w)
  BY <1>1, <1>3 DEF WriterBegins
<1>4. CASE WriterEnds(w)
  BY <1>1, <1>4 DEF WriterEnds
<1>5. ASSUME NEW heals \in BOOLEAN, WriterProbes(w, heals)
      PROVE  ClientStep
  <2>1. MayHeal /\ task' \in [Task -> TaskState] /\ healing' \in BOOLEAN
    BY <1>1, <1>5, LiveTypes DEF WriterProbes
  <2> QED
    BY <1>1, <1>5, <2>1 DEF WriterProbes
<1>6. CASE WriterHeals(w)
  <2>1. CASE healing
    BY <1>1, <1>6, <2>1 DEF WriterHeals
  <2>2. CASE ~healing
    <3>1. StartHeal(FALSE)
      BY <1>6, <2>2 DEF WriterHeals
    <3>2. MayHeal /\ task' \in [Task -> TaskState] /\ healing' \in BOOLEAN
      BY <1>1, <3>1, StartTypes, Zenon
    <3>3. client' = [client EXCEPT ![w].pc = "await"] /\ UNCHANGED txMu
      BY <1>6, <2>2 DEF WriterHeals
    <3> QED
      BY <1>1, <1>6, <3>2, <3>3 DEF WriterHeals
  <2> QED
    BY <2>1, <2>2
<1>7. CASE WriterReturns(w)
  BY <1>1, <1>7 DEF WriterReturns
<1> QED
  BY <1>2, <1>3, <1>4, <1>5, <1>6, <1>7 DEF Transacts

----------------------------------------------------------------------------
(* The file and its instance.                                              *)

LEMMA TroubleKeeps ==
    ASSUME IInv, (\E c \in Client : FatalError(c)) \/ FileDisappears \/ FileReturns
    PROVE  IInv'
<1> USE DEF IInv, flags, locks, bounds
<1>1. TypeOK'
  <2>1. ASSUME NEW c \in Client, FatalError(c) PROVE TypeOK'
    <3>1. pool' \in [PoolId -> Pool]
      BY <2>1 DEF TypeOK, FatalError, Pool
    <3>2. faults' \in 0..MaxFault
      BY <2>1, HandleAssumption DEF TypeOK, FatalError
    <3> QED
      BY <2>1, <3>1, <3>2 DEF TypeOK, FatalError
  <2>2. CASE FileDisappears
    <3>1. losses' \in 0..MaxLoss
      BY <2>2, HandleAssumption DEF TypeOK, FileDisappears
    <3>2. there' \in BOOLEAN
      BY <2>2 DEF FileDisappears
    <3>3. UNCHANGED <<pool, conn, flags, locks, client, task, quit, settled, faults>>
      BY <2>2 DEF FileDisappears
    <3> QED
      BY <3>1, <3>2, <3>3 DEF TypeOK
  <2>3. CASE FileReturns
    BY <2>3 DEF TypeOK, FileReturns
  <2> QED
    BY <2>1, <2>2, <2>3
<1>2. /\ UNCHANGED <<conn, flags, locks, client, task, quit, settled>>
      /\ \A p \in PoolId : pool'[p].state = pool[p].state
  <2>1. ASSUME NEW c \in Client, FatalError(c)
        PROVE  /\ UNCHANGED <<conn, flags, locks, client, task, quit, settled>>
               /\ \A p \in PoolId : pool'[p].state = pool[p].state
    BY <2>1 DEF TypeOK, FatalError, Pool
  <2> QED
    BY <2>1 DEF FileDisappears, FileReturns
<1>3. LockFits' /\ Scripts' /\ HoldsConn' /\ Unpublished' /\ Drains' /\ OpenPools'
  BY <1>2 DEF TypeOK, LockFits, Scripts, HoldsConn, Unpublished, Drains, OpenPools
<1>4. Alive(conn)' <=> Alive(conn)
  BY <1>2 DEF TypeOK, Alive, Holders
<1>5. Cleared' /\ FlagsFit' /\ QuitFits'
  BY <1>2, <1>4 DEF TypeOK, Cleared, FlagsFit, QuitFits
<1> QED
  BY <1>1, <1>3, <1>5

----------------------------------------------------------------------------
(* The tasks.  One that ends inside its critical section frees reopenMu.   *)

LEMMA TaskFields ==
    ASSUME NEW x \in TaskState, NEW p \in PoolId \cup {0},
           NEW s \in {"drain", "fn", "check", "open", "publish"}
    PROVE  /\ [x EXCEPT !.latest = FALSE] \in TaskState
           /\ [x EXCEPT !.pc = s, !.on = p] \in TaskState
           /\ [x EXCEPT !.pc = s, !.on = p, !.latest = TRUE] \in TaskState
<1>1. [x EXCEPT !.latest = FALSE] \in TaskState
  BY DEF TaskState
<1>2. [x EXCEPT !.pc = s, !.on = p] \in TaskState
  BY DEF TaskState
<1>3. [x EXCEPT !.pc = s, !.on = p, !.latest = TRUE] \in TaskState
  BY DEF TaskState
<1> QED
  BY <1>1, <1>2, <1>3

LEMMA MovesOn ==
    ASSUME TypeOK, NEW t \in Task,
           NEW s \in {"idle", "tx", "mu", "close", "drain", "fn", "check", "open",
                     "publish", "end"},
           task' = [task EXCEPT ![t].pc = s]
    PROVE  /\ task' \in [Task -> TaskState]
           /\ task'[t] = [task[t] EXCEPT !.pc = s] /\ task'[t].pc = s
           /\ task'[t].on = task[t].on /\ task'[t].latest = task[t].latest
           /\ \A u \in Task \ {t} : task'[u] = task[u]
BY DEF TypeOK, TaskState

LEMMA ClosesPool ==
    ASSUME TypeOK, NEW p \in PoolId, pool' = ClosedPool(p)
    PROVE  /\ pool' \in [PoolId -> Pool] /\ pool'[p].state = "closed"
           /\ \A q \in PoolId \ {p} : pool'[q] = pool[q]
BY DEF TypeOK, ClosedPool, Pool

LEMMA EndsState ==
    ASSUME TypeOK, NEW t \in Task, Ends(t)
    PROVE  /\ task' \in [Task -> TaskState] /\ reopenMu' = Nobody
           /\ txMu' \in Writer \cup FileOp \cup {Quit, Nobody}
           /\ task'[t].pc = IF t \in FileOp THEN "idle" ELSE "end"
           /\ \A u \in Task \ {t} : task'[u] = task[u]
<1>1. Dormant \in TaskState /\ [Dormant EXCEPT !.pc = "end"] \in TaskState
  BY DEF Dormant, TaskState
<1>2. CASE t \in FileOp
  BY <1>1, <1>2 DEF TypeOK, Ends, Dormant
<1>3. CASE t \notin FileOp
  BY <1>1, <1>3 DEF TypeOK, Ends, Dormant
<1> QED
  BY <1>2, <1>3

(* What a task in its critical section leaves, whoever holds the pools.    *)
LEMMA EndKeeps ==
    ASSUME IInv, NEW t \in Task, Ends(t), reopenMu \in {t, Nobody},
           task[t].pc \notin {"idle", "publish"}, final,
           UNCHANGED <<pool, conn, flags, client, quit, settled, there, bounds>>
    PROVE  IInv'
<1> USE EndsState, Names DEF IInv, flags, bounds
<1>1. TypeOK'
  BY DEF TypeOK
<1>2. LockFits' /\ \A u \in Task : task'[u].pc \notin Busy
  BY DEF TypeOK, LockFits, Busy, Closing
<1>3. Scripts'
  BY DEF TypeOK, Scripts
<1>4. Drains' /\ Cleared' /\ Unpublished'
  BY <1>2 DEF Drains, Cleared, Unpublished, Busy, Closing, Emptied
<1>5. OpenPools' /\ HoldsConn'
  BY DEF TypeOK, OpenPools, HoldsConn, LockFits, Busy, Closing
<1>6. FlagsFit'
  BY <1>2 DEF FlagsFit, Busy
<1>7. QuitFits'
  BY <1>2 DEF QuitFits, Alive, Holders, Busy
<1> QED
  BY <1>1, <1>2, <1>3, <1>4, <1>5, <1>6, <1>7

(* Heal: reopenMu, then stale once more.                                   *)
LEMMA HealLocksKeeps ==
    ASSUME IInv, HealLocks
    PROVE  IInv'
<1> USE Names DEF IInv, HealLocks, flags, bounds, TypeOK
<1>1. TypeOK'
  BY DEF TaskState
<1>2. LockFits' /\ Scripts'
  BY DEF LockFits, Scripts, Busy, Closing
<1>3. Drains' /\ Cleared' /\ Unpublished' /\ OpenPools' /\ HoldsConn'
  BY DEF Drains, Cleared, Unpublished, OpenPools, HoldsConn, Alive, Holders, Emptied
<1>4. FlagsFit' /\ QuitFits'
  BY DEF FlagsFit, QuitFits, LockFits, Busy, Closing, Alive, Holders
<1> QED
  BY <1>1, <1>2, <1>3, <1>4

LEMMA HealClosesKeeps ==
    ASSUME IInv, HealCloses
    PROVE  IInv'
<1> USE Names DEF IInv, flags, bounds, TypeOK
<1>1. /\ task[Heal].pc = "close" /\ reopenMu = Heal
      /\ \A u \in Task \ {Heal} : task[u].pc \notin Busy
  BY DEF HealCloses, LockFits, Busy
<1>2. CASE closed \/ (task[Heal].recheck /\ ~stale)
  <2>1. /\ task' = [task EXCEPT ![Heal].pc = "end"] /\ reopenMu' = Nobody
        /\ UNCHANGED <<pool, conn, flags, txMu, client, quit, settled, there, bounds>>
    BY <1>2 DEF HealCloses
  <2>2. /\ task' \in [Task -> TaskState] /\ task'[Heal].pc = "end"
        /\ \A u \in Task \ {Heal} : task'[u] = task[u]
    BY <2>1, MovesOn
  <2>3. TypeOK' /\ LockFits' /\ Scripts'
    BY <1>1, <2>2, <2>1 DEF LockFits, Scripts, Busy, Closing
  <2>4. Drains' /\ Cleared' /\ Unpublished' /\ OpenPools' /\ HoldsConn'
    BY <1>1, <2>1 DEF Drains, Cleared, Unpublished, OpenPools, HoldsConn, Busy, Closing, Emptied
  <2>5. FlagsFit' /\ QuitFits'
    BY <1>1, <2>1 DEF FlagsFit, QuitFits, Alive, Holders, Busy, Closing
  <2> QED
    BY <2>3, <2>4, <2>5
<1>3. CASE ~(closed \/ (task[Heal].recheck /\ ~stale))
  <2>1. /\ task' = [task EXCEPT ![Heal] = [@ EXCEPT !.pc = "drain", !.on = conn, !.latest = TRUE]]
        /\ pool' = ClosedPool(conn)
        /\ UNCHANGED <<conn, flags, reopenMu, txMu, client, quit, settled, there, bounds>>
    BY <1>3 DEF HealCloses
  <2>2. TypeOK'
    <3>1. [task[Heal] EXCEPT !.pc = "drain", !.on = conn, !.latest = TRUE] \in TaskState
      BY TaskFields
    <3> QED
      BY <2>1, <3>1, ClosesPool
  <2>3. LockFits' /\ Scripts'
    BY <1>1, <2>1 DEF LockFits, Scripts, Busy, Closing, TaskState
  <2>4. Drains' /\ Cleared' /\ Unpublished'
    BY <1>1, <2>1, ClosesPool DEF Drains, Cleared, Unpublished, Busy, Closing, Emptied,
       TaskState
  <2>5. OpenPools' /\ HoldsConn'
    BY <1>1, <2>1, ClosesPool DEF OpenPools, HoldsConn, Busy, Closing
  <2>6. FlagsFit' /\ QuitFits'
    BY <1>1, <1>3, <2>1, ClosesPool DEF FlagsFit, QuitFits, LockFits, Busy, Closing, TaskState
  <2> QED
    BY <2>2, <2>3, <2>4, <2>5, <2>6
<1> QED
  BY <1>2, <1>3

LEMMA TaskForgetsKeeps ==
    ASSUME IInv, NEW t \in Later \cup {Heal}, TaskForgets(t)
    PROVE  IInv'
<1> USE Names DEF IInv, TaskForgets, locks, bounds, TypeOK
<1>1. Dormant \in TaskState /\ Dormant.pc = "idle"
  BY DEF Dormant, TaskState
<1>2. /\ task[t].pc = "end" /\ task' = [task EXCEPT ![t] = Dormant]
      /\ healing' = (healing /\ t # Heal) /\ fileBusy' \in BOOLEAN
  OBVIOUS
<1>3. TypeOK'
  BY <1>1, <1>2
<1>4. LockFits' /\ Scripts'
  BY <1>1, <1>2 DEF LockFits, Scripts, Busy, Closing
<1>5. Drains' /\ Cleared' /\ Unpublished' /\ OpenPools' /\ HoldsConn'
  BY <1>1, <1>2 DEF Drains, Cleared, Unpublished, OpenPools, HoldsConn, Alive, Holders, Emptied
<1>6. FlagsFit' /\ QuitFits'
  BY <1>1, <1>2 DEF FlagsFit, QuitFits, Closing, Alive, Holders
<1> QED
  BY <1>3, <1>4, <1>5, <1>6

(* awaitDrain and the check before an open go on, unless a close on purpose *)
(* came in between.                                                        *)
LEMMA OnlyFinalDrops ==
    ASSUME FlagsFit, NEW t \in Task, task[t].pc \in Closing, Dropped(t)
    PROVE  final
BY DEF FlagsFit, Dropped

LEMMA AwaitDrainKeeps ==
    ASSUME IInv, NEW t \in Later \cup {Heal}, AwaitDrain(t)
    PROVE  IInv'
<1> USE Names DEF IInv, TypeOK
<1>1. t \in Task /\ task[t].pc = "drain" /\ reopenMu = t
      /\ \A u \in Task \ {t} : task[u].pc \notin Busy
  BY DEF AwaitDrain, LockFits, Busy, Closing
<1>2. CASE Dropped(t) /\ Ends(t)
  <2>1. final
    BY <1>1, <1>2, OnlyFinalDrops DEF Closing
  <2>2. UNCHANGED <<pool, conn, flags, client, quit, settled, there, bounds>>
    BY DEF AwaitDrain
  <2> QED
    BY <1>1, <1>2, <2>1, <2>2, EndKeeps
<1>3. CASE ~Dropped(t)
  <2> DEFINE s == IF t = Heal THEN "open" ELSE "check"
  <2>1. /\ Drained(task[t].on) /\ task' = [task EXCEPT ![t].pc = s, ![t].on = 0]
        /\ UNCHANGED <<pool, conn, flags, locks, client, quit, settled, there, bounds>>
    BY <1>3 DEF AwaitDrain
  <2>2. /\ task' \in [Task -> TaskState] /\ \A u \in Task \ {t} : task'[u] = task[u]
        /\ task'[t].pc = s /\ task'[t].latest = task[t].latest /\ task'[t].on = 0
    <3>1. [task[t] EXCEPT !.pc = s, !.on = 0] \in TaskState
      BY <1>1, TaskFields
    <3>2. task' = [task EXCEPT ![t] = [task[t] EXCEPT !.pc = s, !.on = 0]]
      BY <1>1, <2>1 DEF TaskState
    <3> QED
      BY <1>1, <3>1, <3>2 DEF TaskState
  <2>3. s \in Emptied /\ s \in Busy /\ s \notin {"drain", "publish", "fn", "close"}
        /\ (t = Heal => s # "check")
    BY DEF Emptied, Busy, Closing
  <2> HIDE DEF s
  <2> USE DEF flags, locks, bounds
  <2>4. TypeOK' /\ LockFits' /\ Scripts'
    BY <1>1, <2>1, <2>2, <2>3 DEF LockFits, Scripts, Busy, Closing
  <2>5. task[t].on = conn /\ pool[conn].state # "open"
    BY <1>1 DEF Drains
  <2>6. Cleared'
    BY <1>1, <2>1, <2>2, <2>5 DEF Cleared, Drained, Alive, Holders, Busy, Closing, Emptied
  <2>7. Drains' /\ Unpublished' /\ OpenPools' /\ HoldsConn'
    BY <1>1, <2>1, <2>2, <2>3 DEF Drains, Unpublished, OpenPools, HoldsConn, Busy, Closing
  <2>8. FlagsFit' /\ QuitFits'
    BY <1>1, <2>1, <2>2, <2>3 DEF FlagsFit, QuitFits, Busy, Closing
  <2> QED
    BY <2>4, <2>6, <2>7, <2>8
<1> QED
  BY <1>2, <1>3 DEF AwaitDrain

LEMMA CheckReopenKeeps ==
    ASSUME IInv, NEW t \in Task, CheckReopen(t)
    PROVE  IInv'
<1> USE Names DEF IInv, TypeOK
<1>1. task[t].pc = "check" /\ reopenMu = t /\ t # Heal
      /\ \A u \in Task \ {t} : task[u].pc \notin Busy
  BY DEF CheckReopen, LockFits, Scripts, Busy, Closing
<1>2. CASE Dropped(t) /\ Ends(t)
  <2>1. final
    BY <1>1, <1>2, OnlyFinalDrops DEF Closing
  <2>2. UNCHANGED <<pool, conn, flags, client, quit, settled, there, bounds>>
    BY DEF CheckReopen
  <2> QED
    BY <1>1, <1>2, <2>1, <2>2, EndKeeps
<1>3. CASE ~Dropped(t)
  <2>1. /\ task' = [task EXCEPT ![t].pc = "open"]
        /\ UNCHANGED <<pool, conn, flags, locks, client, quit, settled, there, bounds>>
    BY <1>3 DEF CheckReopen
  <2>2. /\ task' \in [Task -> TaskState] /\ task'[t].pc = "open"
        /\ task'[t].on = task[t].on /\ task'[t].latest = task[t].latest
        /\ \A u \in Task \ {t} : task'[u] = task[u]
    BY <2>1, MovesOn
  <2> USE DEF flags, locks, bounds
  <2>3. TypeOK' /\ LockFits' /\ Scripts'
    BY <1>1, <2>1, <2>2 DEF LockFits, Scripts, Busy, Closing
  <2>4. Drains' /\ Cleared' /\ Unpublished' /\ OpenPools' /\ HoldsConn'
    BY <1>1, <2>1, <2>2 DEF Drains, Cleared, Unpublished, OpenPools, HoldsConn, Alive,
       Holders, Emptied
  <2>5. FlagsFit' /\ QuitFits'
    BY <1>1, <2>1, <2>2 DEF FlagsFit, QuitFits, Closing
  <2> QED
    BY <2>3, <2>4, <2>5
<1> QED
  BY <1>2, <1>3 DEF CheckReopen

(* OpenConn: the new pool is one nothing refers to, and every other one is *)
(* dead.                                                                   *)
LEMMA OpenConnKeeps ==
    ASSUME IInv, NEW t \in Task, OpenConn(t)
    PROVE  IInv'
<1> USE Names DEF IInv, TypeOK, flags, locks, bounds
<1> DEFINE p == NewPool
<1>1. task[t].pc = "open" /\ reopenMu = t /\ \A u \in Task \ {t} : task[u].pc \notin Busy
  BY DEF OpenConn, LockFits, Busy, Closing
<1>2. /\ p \in PoolId \ {conn} /\ \A c \in Client : client[c].on # p
      /\ \A u \in Task : task[u].on # p
  BY FreshPool DEF OpenConn
<1> HIDE DEF p
<1>3. /\ pool' \in [PoolId -> Pool] /\ pool'[p].state = "open"
      /\ \A q \in PoolId \ {p} : pool'[q] = pool[q]
  <2>1. pool' = Opened(p)
    BY DEF OpenConn, p
  <2> DEFINE b == \E q \in PoolId : Alive(q) /\ pool[q].bad
  <2>2. pool' = [pool EXCEPT ![p] = [state |-> "open", bad |-> b]] /\ b \in BOOLEAN
    BY <2>1 DEF Opened
  <2> HIDE DEF b
  <2> QED
    BY <1>2, <2>2 DEF Pool
<1>4. /\ task' \in [Task -> TaskState] /\ task'[t].pc = "publish" /\ task'[t].on = p
      /\ task'[t].latest = task[t].latest
      /\ \A u \in Task \ {t} : task'[u] = task[u]
  <2>1. task' = [task EXCEPT ![t] = [task[t] EXCEPT !.pc = "publish", !.on = p]]
    BY DEF OpenConn, TaskState, p
  <2>2. [task[t] EXCEPT !.pc = "publish", !.on = p] \in TaskState
    BY <1>2, TaskFields
  <2> QED
    BY <1>1, <2>1, <2>2 DEF TaskState
<1>5. UNCHANGED <<conn, flags, locks, client, quit, settled, there, bounds>>
  BY DEF OpenConn
<1>6. TypeOK' /\ LockFits' /\ Scripts'
  BY <1>1, <1>3, <1>4, <1>5 DEF LockFits, Scripts, Busy, Closing
<1>7. Alive(conn)' <=> Alive(conn)
  BY <1>2, <1>3, <1>5 DEF Alive, Holders
<1>8. Drains' /\ Cleared' /\ Unpublished'
  BY <1>1, <1>2, <1>3, <1>4, <1>5, <1>7 DEF Drains, Cleared, Unpublished, Busy, Closing, Emptied
<1>9. OpenPools' /\ HoldsConn'
  BY <1>1, <1>3, <1>4, <1>5 DEF OpenPools, HoldsConn, Busy, Closing
<1>10. FlagsFit' /\ QuitFits'
  BY <1>1, <1>2, <1>3, <1>4, <1>5, <1>7 DEF FlagsFit, QuitFits, Closing
<1> QED
  BY <1>6, <1>8, <1>9, <1>10

LEMMA OpenFailsKeeps ==
    ASSUME IInv, NEW t \in Task, OpenFails(t)
    PROVE  IInv'
<1> USE Names DEF IInv, TypeOK, bounds
<1>1. task[t].pc = "open" /\ reopenMu = t /\ \A u \in Task \ {t} : task[u].pc \notin Busy
  BY DEF OpenFails, LockFits, Busy, Closing
<1>2. /\ task' \in [Task -> TaskState] /\ reopenMu' = Nobody
      /\ txMu' \in Writer \cup FileOp \cup {Quit, Nobody}
      /\ \A u \in Task : task'[u].pc \notin Busy
      /\ task'[t].pc = IF t \in FileOp THEN "idle" ELSE "end"
      /\ \A u \in Task \ {t} : task'[u] = task[u]
  BY <1>1, EndsState DEF OpenFails, Busy, Closing
<1>3. /\ UNCHANGED <<pool, conn, final, fileBusy, healing, client, quit, settled, there, bounds>>
      /\ closed' \in BOOLEAN /\ stale' \in BOOLEAN
      /\ closed' => closed
      /\ stale' => stale \/ pool[conn].state # "open"
      /\ ~final => ~closed' /\ stale'
  <2>1. pool[conn].state # "open" /\ (t = Heal /\ ~final => ~closed) /\ (~final => ~Dropped(t))
    BY <1>1 DEF Cleared, FlagsFit, Alive, Dropped, Closing, Emptied
  <2> QED
    BY <2>1 DEF OpenFails
<1>4. TypeOK' /\ LockFits' /\ Scripts'
  BY <1>1, <1>2, <1>3 DEF LockFits, Scripts, Busy, Closing
<1>5. Drains' /\ Cleared' /\ Unpublished' /\ OpenPools' /\ HoldsConn'
  BY <1>1, <1>2, <1>3 DEF Drains, Cleared, Unpublished, OpenPools, HoldsConn, Busy,
     Closing, Emptied
<1>6. FlagsFit' /\ QuitFits'
  BY <1>1, <1>2, <1>3 DEF FlagsFit, QuitFits, Busy, Closing
<1> QED
  BY <1>4, <1>5, <1>6

(* Publish: the old pool is dead, so its last reader is gone with it.      *)
LEMMA PublishKeeps ==
    ASSUME IInv, NEW t \in Task, Publish(t)
    PROVE  IInv'
<1> USE Names DEF IInv, TypeOK, bounds
<1> DEFINE p == task[t].on
<1>1. task[t].pc = "publish" /\ reopenMu = t /\ \A u \in Task \ {t} : task[u].pc \notin Busy
  BY DEF Publish, LockFits, Busy, Closing
<1>2. /\ task' \in [Task -> TaskState] /\ reopenMu' = Nobody
      /\ txMu' \in Writer \cup FileOp \cup {Quit, Nobody}
      /\ \A u \in Task : task'[u].pc \notin Busy
      /\ task'[t].pc = IF t \in FileOp THEN "idle" ELSE "end"
      /\ \A u \in Task \ {t} : task'[u] = task[u]
      /\ UNCHANGED <<final, fileBusy, healing, client, quit, settled, there, bounds>>
  BY <1>1, EndsState DEF Publish, Busy, Closing
<1>3. LockFits' /\ Scripts' /\ Drains' /\ Cleared' /\ Unpublished'
  BY <1>1, <1>2 DEF LockFits, Scripts, Drains, Cleared, Unpublished, Busy, Closing, Emptied
<1>4. /\ p \in PoolId \ {conn} /\ ~Alive(conn)
      /\ \A c \in Client : client[c].on # p /\ client[c].pc # "holding"
      /\ \A q \in PoolId \ {p} : pool[q].state # "open"
  BY <1>1 DEF Unpublished, Cleared, OpenPools, HoldsConn, Alive, Holders, Emptied, Busy, Closing
<1>5. ~settled
  BY <1>1 DEF QuitFits, Closing
<1>6. CASE ~task[t].latest \/ (t # Heal /\ final)
  <2>1. pool' = ClosedPool(p) /\ UNCHANGED <<conn, closed, stale>> /\ final
    BY <1>1, <1>6 DEF Publish, FlagsFit, Closing
  <2>2. TypeOK'
    BY <1>2, <1>4, <2>1, ClosesPool
  <2>3. OpenPools' /\ HoldsConn'
    BY <1>2, <1>4, <2>1, ClosesPool DEF OpenPools, HoldsConn
  <2>4. FlagsFit' /\ QuitFits'
    BY <1>1, <1>2, <1>4, <1>5, <2>1, ClosesPool DEF FlagsFit, QuitFits, Busy
  <2> QED
    BY <1>3, <2>2, <2>3, <2>4
<1>7. CASE ~(~task[t].latest \/ (t # Heal /\ final))
  <2>1. conn' = p /\ ~closed' /\ ~stale' /\ closed' \in BOOLEAN /\ stale' \in BOOLEAN /\ UNCHANGED pool
    BY <1>7 DEF Publish
  <2>2. TypeOK' /\ OpenPools' /\ HoldsConn'
    BY <1>2, <1>4, <2>1 DEF OpenPools, HoldsConn
  <2>3. pool[p].state = "open"
    BY <1>1 DEF Unpublished
  <2>4. FlagsFit' /\ QuitFits'
    BY <1>1, <1>2, <1>5, <2>1, <2>3 DEF FlagsFit, QuitFits, Busy, Closing
  <2> QED
    BY <1>3, <2>2, <2>4
<1> QED
  BY <1>6, <1>7

----------------------------------------------------------------------------
(* WithFileClosed.                                                         *)

LEMMA FileOpWaits ==
    ASSUME IInv, NEW f \in FileOp,
           FileOpCalled(f) \/ FileOpLocksTx(f) \/ FileOpGivesUp(f)
    PROVE  IInv'
<1> USE Names DEF IInv, TypeOK, flags, bounds
<1>1. /\ task' \in [Task -> TaskState] /\ task'[f].pc \in {"idle", "tx", "mu"}
      /\ task[f].pc \notin Busy /\ task'[Behind(f)].pc = "idle"
      /\ \A u \in Task \ {f} : task'[u] = task[u]
  <2>1. CASE FileOpCalled(f)
    <3>1. task' = [task EXCEPT ![f].pc = "tx"] /\ task[Behind(f)].pc = "idle" /\ task[f].pc = "idle"
      BY <2>1 DEF FileOpCalled
    <3>2. /\ task' \in [Task -> TaskState] /\ task'[f].pc = "tx"
          /\ \A u \in Task \ {f} : task'[u] = task[u]
      BY <3>1, MovesOn
    <3> QED
      BY <3>1, <3>2 DEF Busy, Closing
  <2>2. CASE FileOpLocksTx(f)
    BY <2>2, MovesOn DEF FileOpLocksTx, Scripts, Busy, Closing
  <2>3. CASE FileOpGivesUp(f)
    <3>1. Dormant \in TaskState /\ Dormant.pc = "idle"
      BY DEF Dormant, TaskState
    <3> QED
      BY <2>3, <3>1 DEF FileOpGivesUp, Scripts, Busy, Closing
  <2> QED
    BY <2>1, <2>2, <2>3
<1>2. /\ UNCHANGED <<pool, conn, flags, reopenMu, client, quit, settled, there, bounds>>
      /\ txMu' \in Writer \cup FileOp \cup {Quit, Nobody}
  BY DEF FileOpCalled, FileOpLocksTx, FileOpGivesUp, locks
<1>3. TypeOK' /\ LockFits'
  BY <1>1, <1>2 DEF LockFits, Busy, Closing
<1>4. Scripts'
  BY <1>1, <1>2 DEF Scripts
<1>5. Drains' /\ Cleared' /\ Unpublished' /\ OpenPools' /\ HoldsConn'
  BY <1>1, <1>2 DEF Drains, Cleared, Unpublished, OpenPools, HoldsConn, Alive, Holders,
     Busy, Closing, Emptied
<1>6. FlagsFit' /\ QuitFits'
  BY <1>1, <1>2 DEF FlagsFit, QuitFits, Alive, Holders, Busy, Closing
<1> QED
  BY <1>3, <1>4, <1>5, <1>6

LEMMA FileOpLocksReopenKeeps ==
    ASSUME IInv, NEW f \in FileOp, FileOpLocksReopen(f)
    PROVE  IInv'
<1> USE Names DEF IInv, TypeOK
<1>1. task[f].pc = "mu" /\ reopenMu = Nobody /\ \A u \in Task : task[u].pc \notin Busy
  BY DEF FileOpLocksReopen, LockFits
<1>2. CASE final
  BY <1>1, <1>2, EndKeeps DEF FileOpLocksReopen
<1>3. CASE ~final
  <2>1. /\ task' = [task EXCEPT ![f].pc = "close"] /\ reopenMu' = f
        /\ UNCHANGED <<pool, conn, flags, txMu, client, quit, settled, there, bounds>>
    BY <1>3 DEF FileOpLocksReopen
  <2>2. /\ task' \in [Task -> TaskState] /\ task'[f].pc = "close"
        /\ \A u \in Task \ {f} : task'[u] = task[u]
    BY <2>1, MovesOn
  <2> USE DEF flags, bounds
  <2>3. TypeOK' /\ LockFits' /\ Scripts'
    BY <1>1, <2>1, <2>2 DEF LockFits, Scripts, Busy, Closing
  <2>4. Drains' /\ Cleared' /\ Unpublished' /\ OpenPools' /\ HoldsConn'
    BY <1>1, <2>1, <2>2 DEF Drains, Cleared, Unpublished, OpenPools, HoldsConn, Busy,
       Closing, Emptied
  <2>5. FlagsFit' /\ QuitFits'
    BY <1>1, <1>3, <2>1, <2>2 DEF FlagsFit, QuitFits, Busy, Closing
  <2> QED
    BY <2>3, <2>4, <2>5
<1> QED
  BY <1>2, <1>3

LEMMA FileOpClosesKeeps ==
    ASSUME IInv, NEW f \in FileOp, FileOpCloses(f)
    PROVE  IInv'
<1> USE Names DEF IInv, TypeOK, flags, locks, bounds
<1>1. task[f].pc = "close" /\ reopenMu = f /\ \A u \in Task \ {f} : task[u].pc \notin Busy
  BY DEF FileOpCloses, LockFits, Busy
<1>2. /\ task' \in [Task -> TaskState]
      /\ task'[f].pc = "drain" /\ task'[f].on = conn /\ task'[f].latest
      /\ \A u \in Task \ {f} : task'[u].pc = task[u].pc /\ ~task'[u].latest
  <2>1. task' = [u \in Task |->
                   IF u = f
                   THEN [pc |-> "drain", on |-> conn, latest |-> TRUE, recheck |-> FALSE]
                   ELSE [task[u] EXCEPT !.latest = FALSE]]
    BY DEF FileOpCloses, CloseHandle
  <2>2. [pc |-> "drain", on |-> conn, latest |-> TRUE, recheck |-> FALSE] \in TaskState
    BY DEF TaskState
  <2>3. \A u \in Task : [task[u] EXCEPT !.latest = FALSE] \in TaskState
    BY TaskFields
  <2> QED
    BY <2>1, <2>2, <2>3 DEF TaskState
<1>3. /\ pool' = ClosedPool(conn) /\ closed' /\ closed' \in BOOLEAN /\ ~stale' /\ stale' \in BOOLEAN
      /\ UNCHANGED <<conn, final, fileBusy, healing, locks, client, quit, settled, there,
                     bounds>>
  BY DEF FileOpCloses, CloseHandle
<1>4. /\ pool' \in [PoolId -> Pool] /\ pool'[conn].state = "closed"
      /\ \A q \in PoolId \ {conn} : pool'[q] = pool[q]
  BY <1>3, ClosesPool
<1>5. TypeOK' /\ LockFits' /\ Scripts'
  BY <1>1, <1>2, <1>3, <1>4 DEF LockFits, Scripts, Busy, Closing
<1>6. Drains' /\ Cleared' /\ Unpublished' /\ OpenPools' /\ HoldsConn'
  BY <1>1, <1>2, <1>3, <1>4 DEF Drains, Cleared, Unpublished, OpenPools, HoldsConn, Busy,
     Closing, Emptied
<1>7. FlagsFit' /\ QuitFits'
  BY <1>1, <1>2, <1>3, <1>4 DEF FlagsFit, QuitFits, Busy, Closing
<1> QED
  BY <1>5, <1>6, <1>7

LEMMA FileOpDrainedKeeps ==
    ASSUME IInv, NEW f \in FileOp, FileOpDrained(f)
    PROVE  IInv'
<1> USE Names DEF IInv, TypeOK, flags, locks, bounds
<1>1. /\ task[f].pc = "drain" /\ reopenMu = f /\ \A u \in Task \ {f} : task[u].pc \notin Busy
      /\ task[f].on = conn /\ pool[conn].state # "open"
  BY DEF FileOpDrained, LockFits, Drains, Busy, Closing
<1>2. /\ task' \in [Task -> TaskState] /\ task'[f].pc = "fn"
      /\ task'[f].latest = task[f].latest
      /\ \A u \in Task \ {f} : task'[u] = task[u]
  <2>1. [task[f] EXCEPT !.pc = "fn", !.on = 0] \in TaskState
    BY TaskFields
  <2>2. task' = [task EXCEPT ![f] = [task[f] EXCEPT !.pc = "fn", !.on = 0]]
    BY DEF FileOpDrained, TaskState
  <2> QED
    BY <2>1, <2>2 DEF TaskState
<1>3. UNCHANGED <<pool, conn, flags, locks, client, quit, settled, there, bounds>>
      /\ Holders(conn) = {}
  BY <1>1 DEF FileOpDrained, Drained
<1>4. TypeOK' /\ LockFits'
  BY <1>1, <1>2, <1>3 DEF LockFits, Busy, Closing
<1>5. Scripts'
  BY <1>1, <1>2, <1>3 DEF Scripts
<1>6. Drains' /\ Cleared' /\ Unpublished' /\ OpenPools' /\ HoldsConn'
  BY <1>1, <1>2, <1>3 DEF Drains, Cleared, Unpublished, OpenPools, HoldsConn, Alive,
     Holders, Busy, Closing, Emptied
<1>7. FlagsFit' /\ QuitFits'
  BY <1>1, <1>2, <1>3 DEF FlagsFit, QuitFits, Busy, Closing
<1> QED
  BY <1>4, <1>5, <1>6, <1>7

LEMMA FileOpLeavesReopenKeeps ==
    ASSUME IInv, NEW f \in FileOp, FileOpLeavesReopen(f)
    PROVE  IInv'
<1> USE Names DEF IInv, TypeOK, bounds
<1> DEFINE b == Behind(f)
<1>1. /\ task[f].pc = "drain" /\ reopenMu = f /\ \A u \in Task \ {f} : task[u].pc \notin Busy
      /\ task[f].on = conn /\ pool[conn].state # "open"
  BY DEF FileOpLeavesReopen, LockFits, Drains, Busy, Closing
<1>2. Dormant \in TaskState /\ Dormant.pc = "idle"
  BY DEF Dormant, TaskState
<1>3. /\ task' \in [Task -> TaskState]
      /\ task'[b] = task[f] /\ task'[f] = Dormant
      /\ \A u \in Task \ {f, b} : task'[u] = task[u]
  BY <1>2 DEF FileOpLeavesReopen
<1>4. /\ reopenMu' = b /\ txMu' = Nobody /\ fileBusy' = TRUE
      /\ UNCHANGED <<pool, conn, closed, final, stale, healing, client, quit, settled,
                     there, bounds>>
  BY DEF FileOpLeavesReopen
<1>5. b \in Later /\ b \in Task /\ b # f /\ \A g \in FileOp \ {f} : Behind(g) # b /\ g # b
  OBVIOUS
<1> HIDE DEF b
<1>6. TypeOK' /\ LockFits'
  BY <1>1, <1>2, <1>3, <1>4, <1>5 DEF LockFits, Busy, Closing
<1>7. Scripts'
  <2>1. \A g \in FileOp : task'[g].pc # "end" /\ (task'[g].pc # "idle" => task'[Behind(g)].pc = "idle")
    BY <1>2, <1>3, <1>5 DEF Scripts
  <2>2. \A u \in Later : task'[u].pc \notin {"tx", "mu", "close", "fn"}
    BY <1>1, <1>2, <1>3, <1>5 DEF Scripts
  <2> QED
    BY <1>3, <1>4, <1>5, <2>1, <2>2 DEF Scripts
<1>8. Drains' /\ Cleared' /\ Unpublished' /\ OpenPools' /\ HoldsConn'
  BY <1>1, <1>2, <1>3, <1>4, <1>5 DEF Drains, Cleared, Unpublished, OpenPools, HoldsConn,
     Busy, Closing, Emptied
<1>9. FlagsFit'
  <2>1. task'[b].pc \in Closing
    BY <1>1, <1>3 DEF Closing
  <2>2. ~final => \A u \in Task : task'[u].pc \in Closing => task'[u].latest
    BY <1>1, <1>2, <1>3, <1>5 DEF FlagsFit, Closing
  <2> QED
    BY <1>3, <1>4, <1>5, <2>1, <2>2 DEF FlagsFit
<1>10. QuitFits'
  BY <1>1, <1>4, <1>5 DEF QuitFits, Closing
<1> QED
  BY <1>6, <1>7, <1>8, <1>9, <1>10

LEMMA FileOpRunsKeeps ==
    ASSUME IInv, NEW f \in FileOp, FileOpRuns(f)
    PROVE  IInv'
<1> USE Names DEF IInv, TypeOK, flags, locks, bounds
<1>1. task[f].pc = "fn" /\ reopenMu = f /\ \A u \in Task \ {f} : task[u].pc \notin Busy
  BY DEF FileOpRuns, LockFits, Busy, Closing
<1>2. /\ task' \in [Task -> TaskState] /\ task'[f].pc = "check"
      /\ task'[f].latest = task[f].latest
      /\ \A u \in Task \ {f} : task'[u] = task[u]
  BY MovesOn DEF FileOpRuns
<1>3. UNCHANGED <<pool, conn, flags, locks, client, quit, settled, there, bounds>>
  BY DEF FileOpRuns
<1>4. TypeOK' /\ LockFits'
  BY <1>1, <1>2, <1>3 DEF LockFits, Busy, Closing
<1>5. Scripts'
  BY <1>1, <1>2, <1>3 DEF Scripts
<1>6. Drains' /\ Cleared' /\ Unpublished' /\ OpenPools' /\ HoldsConn'
  BY <1>1, <1>2, <1>3 DEF Drains, Cleared, Unpublished, OpenPools, HoldsConn, Alive,
     Holders, Busy, Closing, Emptied
<1>7. FlagsFit' /\ QuitFits'
  BY <1>1, <1>2, <1>3 DEF FlagsFit, QuitFits, Busy, Closing
<1> QED
  BY <1>4, <1>5, <1>6, <1>7

----------------------------------------------------------------------------
(* The close for good.                                                     *)

LEMMA QuitLocks ==
    ASSUME IInv, SettleCalled \/ SettleLocksTx \/ SettleLocksReopen \/ SettleMarksFinal \/ Retire
    PROVE  IInv'
<1> USE Names DEF IInv, TypeOK, SettleCalled, SettleLocksTx, SettleLocksReopen,
   SettleMarksFinal, Retire, flags, locks, bounds
<1>1. /\ UNCHANGED <<pool, conn, closed, stale, fileBusy, healing, client, task, settled, there, bounds>>
      /\ quit \in {"idle", "tx", "mu", "final"} /\ ~settled
      /\ quit' \in {"tx", "mu", "final", "close"}
      /\ final' \in BOOLEAN /\ (final => final') /\ (quit' = "close" => final')
      /\ txMu' \in Writer \cup FileOp \cup {Quit, Nobody}
  BY DEF QuitFits
<1>2. /\ reopenMu' = reopenMu \/ (reopenMu = Nobody /\ reopenMu' = Quit)
      /\ reopenMu' = Quit => quit' \in {"final", "close"}
  BY DEF LockFits
<1>3. TypeOK' /\ LockFits' /\ Scripts'
  BY <1>1, <1>2 DEF LockFits, Scripts
<1>4. Drains' /\ Cleared' /\ Unpublished' /\ OpenPools' /\ HoldsConn'
  BY <1>1 DEF Drains, Cleared, Unpublished, OpenPools, HoldsConn, Alive, Holders
<1>5. FlagsFit' /\ QuitFits'
  BY <1>1, <1>2 DEF FlagsFit, QuitFits
<1> QED
  BY <1>3, <1>4, <1>5

LEMMA SettleClosesKeeps ==
    ASSUME IInv, SettleCloses
    PROVE  IInv'
<1> USE Names DEF IInv, TypeOK, flags, locks, bounds
<1>1. quit = "close" /\ quit' = "drain" /\ final /\ ~settled
  BY DEF SettleCloses, QuitFits
<1>2. /\ task' \in [Task -> TaskState]
      /\ \A u \in Task : /\ task'[u].pc = task[u].pc /\ task'[u].on = task[u].on
                         /\ ~task'[u].latest
  <2>1. task' = [u \in Task |-> [task[u] EXCEPT !.latest = FALSE]]
    <3>1. task' = [u \in Task |->
                     IF u = Quit
                     THEN [pc |-> "drain", on |-> conn, latest |-> TRUE, recheck |-> FALSE]
                     ELSE [task[u] EXCEPT !.latest = FALSE]]
      BY DEF SettleCloses, CloseHandle
    <3> QED
      BY <3>1
  <2>2. \A u \in Task : [task[u] EXCEPT !.latest = FALSE] \in TaskState
    BY TaskFields
  <2> QED
    BY <2>1, <2>2 DEF TaskState
<1>3. /\ pool' = ClosedPool(conn) /\ closed' /\ closed' \in BOOLEAN /\ ~stale' /\ stale' \in BOOLEAN
      /\ UNCHANGED <<conn, final, fileBusy, healing, locks, client, settled, there, bounds>>
  BY DEF SettleCloses, CloseHandle
<1>4. /\ pool' \in [PoolId -> Pool] /\ pool'[conn].state = "closed"
      /\ \A q \in PoolId \ {conn} : pool'[q] = pool[q]
  BY <1>3, ClosesPool
<1>5. TypeOK' /\ LockFits' /\ Scripts'
  BY <1>1, <1>2, <1>3, <1>4 DEF LockFits, Scripts
<1>6. Drains' /\ Cleared' /\ Unpublished' /\ OpenPools' /\ HoldsConn'
  BY <1>2, <1>3, <1>4 DEF Drains, Cleared, Unpublished, OpenPools, HoldsConn, Alive, Holders
<1>7. FlagsFit' /\ QuitFits'
  BY <1>1, <1>2, <1>3, <1>4 DEF FlagsFit, QuitFits
<1> QED
  BY <1>5, <1>6, <1>7

LEMMA SettleAnswersKeeps ==
    ASSUME IInv, SettleAnswers
    PROVE  IInv'
<1> USE Names DEF IInv, TypeOK, flags, bounds
<1>1. /\ quit = "drain" /\ final
      /\ UNCHANGED <<pool, conn, flags, client, task, there, bounds>>
      /\ settled' \in BOOLEAN /\ quit' \in {"done", "idle"}
      /\ settled' => reopenMu = Quit /\ Drained(conn) /\ quit' = "done"
      /\ quit' = "done" => settled'
      /\ txMu' \in Writer \cup FileOp \cup {Quit, Nobody}
      /\ reopenMu' = IF reopenMu = Quit THEN Nobody ELSE reopenMu
  BY DEF SettleAnswers, QuitFits
<1>2. TypeOK' /\ LockFits' /\ Scripts'
  BY <1>1 DEF LockFits, Scripts
<1>3. Drains' /\ Cleared' /\ Unpublished' /\ OpenPools' /\ HoldsConn'
  BY <1>1 DEF Drains, Cleared, Unpublished, OpenPools, HoldsConn, Alive, Holders
<1>4. FlagsFit'
  BY <1>1 DEF FlagsFit
<1>5. QuitFits'
  <2>1. reopenMu = Quit => closed /\ pool[conn].state # "open" /\ \A t \in Task : task[t].pc \notin Busy
    BY <1>1 DEF QuitFits, LockFits
  <2> QED
    BY <1>1, <2>1 DEF QuitFits, Drained, Alive, Holders, Busy
<1> QED
  BY <1>2, <1>3, <1>4, <1>5

----------------------------------------------------------------------------
(* The invariant, and what it says of every run.                           *)

LEMMA InitHolds == Init => IInv
<1> USE Names, HandleAssumption DEF Init, Resting, Dormant
<1>1. ASSUME Init PROVE TypeOK
  <2>1. pool \in [PoolId -> Pool]
    BY <1>1 DEF Pool
  <2>2. client \in [Client -> ClientState] /\ task \in [Task -> TaskState]
    BY <1>1 DEF ClientState, TaskState
  <2>3. conn \in PoolId /\ faults \in 0..MaxFault /\ losses \in 0..MaxLoss
    BY <1>1
  <2>4. /\ closed \in BOOLEAN /\ final \in BOOLEAN /\ stale \in BOOLEAN /\ fileBusy \in BOOLEAN
        /\ healing \in BOOLEAN /\ settled \in BOOLEAN /\ there \in BOOLEAN
    BY <1>1
  <2> QED
    BY <1>1, <2>1, <2>2, <2>3, <2>4 DEF TypeOK
<1>2. Init => LockFits /\ Scripts /\ Drains /\ Cleared /\ Unpublished
  BY DEF LockFits, Scripts, Drains, Cleared, Unpublished, Busy, Closing, Emptied
<1>3. Init => OpenPools /\ HoldsConn /\ FlagsFit /\ QuitFits
  BY DEF OpenPools, HoldsConn, FlagsFit, QuitFits, Closing
<1> QED
  BY <1>1, <1>2, <1>3 DEF IInv

LEMMA ReopensKeeps ==
    ASSUME IInv, NEW t \in Task, Reopens(t)
    PROVE  IInv'
<1>1. CASE AwaitDrain(t)
  BY <1>1, AwaitDrainKeeps DEF AwaitDrain
<1> QED
  BY <1>1, CheckReopenKeeps, OpenConnKeeps, OpenFailsKeeps, PublishKeeps DEF Reopens

LEMMA StepKeeps == IInv /\ [Next]_vars => IInv'
<1> SUFFICES ASSUME IInv, [Next]_vars PROVE IInv'
  OBVIOUS
<1>1. CASE \E r \in Reader : Reads(r)
  BY <1>1, ReaderUses, ClientKeeps
<1>2. ASSUME NEW w \in Writer, Transacts(w) \/ \E heals \in BOOLEAN : WriterLocks(w, heals)
      PROVE  IInv'
  BY <1>2, WriterUses, ClientKeeps
<1>3. CASE (\E c \in Client : FatalError(c)) \/ FileDisappears \/ FileReturns
  BY <1>3, TroubleKeeps
<1>4. CASE HealLocks \/ Heals
  BY <1>4, Names, HealLocksKeeps, HealClosesKeeps, ReopensKeeps, TaskForgetsKeeps DEF Heals
<1>5. ASSUME NEW f \in FileOp,
             FileOpCalled(f) \/ FileOpLocksTx(f) \/ FileOpGoesOn(f) \/ Background(f)
      PROVE  IInv'
  <2>1. CASE Background(f)
    BY <2>1, Names, ReopensKeeps, TaskForgetsKeeps DEF Background
  <2>2. CASE FileOpCalled(f) \/ FileOpLocksTx(f) \/ FileOpGivesUp(f)
    BY <2>2, FileOpWaits
  <2>3. CASE FileOpGoesOn(f) /\ ~FileOpGivesUp(f)
    BY <2>3, Names, FileOpLocksReopenKeeps, FileOpClosesKeeps, FileOpDrainedKeeps,
       FileOpLeavesReopenKeeps, FileOpRunsKeeps, ReopensKeeps DEF FileOpGoesOn
  <2> QED
    BY <1>5, <2>1, <2>2, <2>3 DEF FileOpGoesOn
<1>6. CASE Retire \/ SettleCalled \/ Settles
  BY <1>6, QuitLocks, SettleClosesKeeps, SettleAnswersKeeps DEF Settles
<1>7. CASE UNCHANGED vars
  BY <1>7 DEF vars, IInv, TypeOK, LockFits, Scripts, Drains, Cleared, Unpublished,
     OpenPools, HoldsConn,
       FlagsFit, QuitFits, Alive, Holders
<1> QED
  BY <1>1, <1>2, <1>3, <1>4, <1>5, <1>6, <1>7 DEF Next

(* At most one pool is alive, published or about to be.                    *)
LEMMA OneAlive ==
    ASSUME IInv, NEW p \in PoolId, NEW q \in PoolId, Alive(p), Alive(q)
    PROVE  p = q
<1>1. \A x \in PoolId : Alive(x) => \/ x = conn
                                   \/ \E t \in Task : task[t].pc = "publish" /\ task[t].on = x
  BY DEF IInv, OpenPools, HoldsConn, Alive, Holders
<1>2. Alive(conn) => \A t \in Task : task[t].pc # "publish"
  BY DEF IInv, Cleared, Emptied
<1>3. \A t, u \in Task : task[t].pc = "publish" /\ task[u].pc = "publish" => t = u
  BY DEF IInv, LockFits, Busy, Closing
<1> QED
  BY <1>1, <1>2, <1>3

(* What the invariant gives in a state.                                    *)
LEMMA InvariantGives ==
    ASSUME IInv
    PROVE  TypeOK /\ OneInstance /\ FileStill /\ SettledIsQuiet /\ NeverStuck
<1>1. TypeOK /\ OneInstance
  BY OneAlive DEF IInv, OneInstance
<1>2. FileStill
  <2>1. ASSUME NEW f \in FileOp, task[f].pc = "fn", NEW p \in PoolId, Alive(p)
        PROVE  FALSE
    <3>1. reopenMu = f /\ ~Alive(conn) /\ \A t \in Task : task[t].pc # "publish"
      BY <2>1, Names DEF IInv, Cleared, LockFits, Busy, Closing, Emptied
    <3> QED
      BY <2>1, <3>1 DEF IInv, OpenPools, HoldsConn, Alive, Holders
  <2> QED
    BY <2>1 DEF FileStill
<1>3. SettledIsQuiet
  <2>1. ASSUME settled, NEW p \in PoolId, Alive(p)
        PROVE  FALSE
    BY <2>1 DEF IInv, QuitFits, OpenPools, HoldsConn, Alive, Holders, Closing
  <2> QED
    BY <2>1 DEF IInv, QuitFits, SettledIsQuiet, Closing
<1>4. NeverStuck
  BY Names DEF IInv, NeverStuck, FlagsFit, LockFits, Busy
<1> QED
  BY <1>1, <1>2, <1>3, <1>4

LEMMA InvariantHolds == Spec => []IInv
BY InitHolds, StepKeeps, PTL DEF Spec

(* Every value of the handle stays in its range.                           *)
THEOREM TypeCorrect == Spec => []TypeOK
<1>1. IInv => TypeOK
  BY InvariantGives
<1> QED
  BY <1>1, InvariantHolds, PTL

(* Nothing opens the file while an instance of it is alive.                *)
THEOREM NeverTwo == Spec => []OneInstance
<1>1. IInv => OneInstance
  BY InvariantGives
<1> QED
  BY <1>1, InvariantHolds, PTL

(* No pool and no connection touches the file while fn of a backup or a    *)
(* restore runs.                                                           *)
THEOREM StillWhileCopied == Spec => []FileStill
<1>1. IInv => FileStill
  BY InvariantGives
<1> QED
  BY <1>1, InvariantHolds, PTL

(* Once CloseAndSettle has answered yes, nothing has the file open, works  *)
(* on it or will open it.                                                  *)
THEOREM QuietOnceSettled == Spec => []SettledIsQuiet
<1>1. IInv => SettledIsQuiet
  BY InvariantGives
<1> QED
  BY <1>1, InvariantHolds, PTL

(* A handle that was not closed for good works, or heals at its next use,  *)
(* whenever no one holds reopenMu.                                         *)
THEOREM WorksOrHeals == Spec => []NeverStuck
<1>1. IInv => NeverStuck
  BY InvariantGives
<1> QED
  BY <1>1, InvariantHolds, PTL

(* A handle closed for good publishes no pool again: a heal that closed    *)
(* its pool before is stopped by the close number.                         *)
LEMMA StaysClosed ==
    ASSUME IInv, [Next]_vars, final, closed
    PROVE  closed' /\ conn' = conn
<1>1. ASSUME NEW t \in Task, Publish(t)
      PROVE  closed' /\ conn' = conn
  <2>1. ~task[t].latest \/ (t # Heal /\ final)
    BY <1>1, Names DEF IInv, FlagsFit, Publish, Closing
  <2> QED
    BY <1>1, <2>1 DEF Publish
<1>2. ASSUME NEW t \in Task, OpenFails(t)
      PROVE  closed' /\ conn' = conn
  BY <1>2 DEF OpenFails, Dropped, IInv, TypeOK
<1>3. ASSUME NEW t \in Task, Reopens(t)
      PROVE  closed' /\ conn' = conn
  BY <1>1, <1>2, <1>3 DEF Reopens, AwaitDrain, CheckReopen, OpenConn, flags
<1>4. CASE \E r \in Reader : Reads(r)
  BY <1>4, ReaderUses DEF ClientStep
<1>5. ASSUME NEW w \in Writer, Transacts(w) \/ \E heals \in BOOLEAN : WriterLocks(w, heals)
      PROVE  closed' /\ conn' = conn
  BY <1>5, WriterUses DEF ClientStep
<1>6. CASE (\E c \in Client : FatalError(c)) \/ FileDisappears \/ FileReturns
  BY <1>6 DEF FatalError, FileDisappears, FileReturns, flags
<1>7. CASE HealLocks \/ Heals
  BY <1>3, <1>7, Names DEF HealLocks, Heals, HealCloses, TaskForgets, flags
<1>8. ASSUME NEW f \in FileOp,
             FileOpCalled(f) \/ FileOpLocksTx(f) \/ FileOpGoesOn(f) \/ Background(f)
      PROVE  closed' /\ conn' = conn
  BY <1>3, <1>8, Names DEF FileOpCalled, FileOpLocksTx, FileOpGoesOn, Background, TaskForgets,
     FileOpLocksReopen, FileOpGivesUp, FileOpCloses, CloseHandle, FileOpDrained,
     FileOpLeavesReopen, FileOpRuns, flags
<1>9. CASE Retire \/ SettleCalled \/ Settles
  BY <1>9 DEF Retire, SettleCalled, Settles, SettleLocksTx, SettleLocksReopen, SettleMarksFinal,
     SettleCloses, CloseHandle, SettleAnswers, flags
<1>10. CASE UNCHANGED vars
  BY <1>10 DEF vars
<1> QED
  BY <1>4, <1>5, <1>6, <1>7, <1>8, <1>9, <1>10 DEF Next

THEOREM ClosedForGood == Spec => ClosedForGoodStays
<1>1. IInv /\ [Next]_vars => (final /\ closed => closed' /\ conn' = conn)
  BY StaysClosed
<1> QED
  BY <1>1, InvariantHolds, PTL DEF Spec, ClosedForGoodStays

(* Only HealCloses takes Heal from its lock to a close of the pool.        *)
LEMMA HealClosesStale ==
    ASSUME IInv, [Next]_vars, task[Heal].recheck, task[Heal].pc = "close", task'[Heal].pc = "drain"
    PROVE  ~Healthy(conn)
<1>1. reopenMu = Heal /\ \A u \in Task \ {Heal} : task[u].pc \notin Busy
  BY Names DEF IInv, LockFits, Busy
<1>2. CASE HealCloses
  BY <1>2 DEF HealCloses, Healthy, IInv, FlagsFit, TypeOK, TaskState
<1>3. CASE ~HealCloses
  <2>1. task'[Heal].pc = "close"
    <3>1. CASE \E r \in Reader : Reads(r)
      BY <3>1, ReaderUses, HealStarts, Names DEF ClientStep, IInv, Busy
    <3>2. ASSUME NEW w \in Writer, Transacts(w) \/ \E heals \in BOOLEAN : WriterLocks(w, heals)
          PROVE  task'[Heal].pc = "close"
      BY <3>2, WriterUses, HealStarts, Names DEF ClientStep, IInv, Busy
    <3>3. CASE (\E c \in Client : FatalError(c)) \/ FileDisappears \/ FileReturns
      BY <3>3 DEF FatalError, FileDisappears, FileReturns
    <3>4. CASE HealLocks \/ Heals
      BY <1>3, <3>4 DEF HealLocks, Heals, TaskForgets, Reopens, AwaitDrain, CheckReopen,
         OpenConn, OpenFails, Publish
    <3>5. ASSUME NEW f \in FileOp,
                 FileOpCalled(f) \/ FileOpLocksTx(f) \/ FileOpGoesOn(f) \/ Background(f)
          PROVE  task'[Heal].pc = "close"
      BY <1>1, <3>5, Names DEF IInv, TypeOK, FileOpCalled, FileOpLocksTx, FileOpGoesOn,
         Background, TaskForgets,
         Reopens, AwaitDrain, CheckReopen, OpenConn, OpenFails, Publish, Ends,
         FileOpLocksReopen, FileOpGivesUp, FileOpCloses, FileOpDrained, FileOpLeavesReopen,
         FileOpRuns, Busy, Closing
    <3>6. CASE Retire \/ SettleCalled \/ Settles
      BY <3>6, Names DEF IInv, TypeOK, TaskState, Retire, SettleCalled, Settles,
         SettleLocksTx, SettleLocksReopen,
         SettleMarksFinal, SettleCloses, CloseHandle, SettleAnswers
    <3>7. CASE UNCHANGED vars
      BY <3>7 DEF vars
    <3> QED
      BY <3>1, <3>2, <3>3, <3>4, <3>5, <3>6, <3>7 DEF Next
  <2> QED
    BY <2>1
<1> QED
  BY <1>2, <1>3

(* A heal that a read of a stale handle started never closes a pool that   *)
(* works: it looks at stale again under reopenMu, and stale is set only    *)
(* while the published pool is closed.                                     *)
THEOREM HealSpares == Spec => StaleHealSparesNew
<1>1. IInv /\ [Next]_vars =>
        (task[Heal].recheck /\ task[Heal].pc = "close" /\ task'[Heal].pc = "drain" => ~Healthy(conn))
  BY HealClosesStale
<1> QED
  BY <1>1, InvariantHolds, PTL DEF Spec, StaleHealSparesNew

=============================================================================
