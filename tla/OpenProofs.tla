----------------------------- MODULE OpenProofs -----------------------------
(***************************************************************************)
(* Proofs about OpenDatabase, for any processes, schema versions, apps and *)
(* indexes, and for every interleaving of their steps and kills: each      *)
(* migration runs once per file; an app has the file it goes on with at    *)
(* its own version, unless another one migrated or removed that file since *)
(* it looked; and a Create spares every file that was there when it        *)
(* looked.                                                                 *)
(***************************************************************************)
EXTENDS OpenDatabase, TLAPS

(* The migration a process runs next is the first one its file has not.    *)
NextFits ==
    \A p \in Proc : job[p].at = "migrate" /\ Has(p) => job[p].next = file.version + 1

OnceInv == TypeOK /\ NextFits /\ EachOnce

Holding == {"init", "check", "migrate", "close", "open", "drop", "create"}

(* What a process has seen to of the file, which it has open, or is about  *)
(* to open again.                                                          *)
Seen(p) ==
    /\ job[p].at \in Holding => Has(p)
    /\ job[p].at = "migrate" => file.meta /\ job[p].next <= App[p] + 1
    /\ job[p].at \in {"close", "open", "drop", "create"}
         => file.meta /\ file.version = App[p]
    /\ job[p].at = "reopen" => file # NoFile /\ file.meta /\ file.version = App[p]

Uncrossed == \A p \in Proc \ crossed : Seen(p)

(* A Create found no file, so what is there was made after it looked.      *)
CameLater(p) ==
    job[p].op = "create" /\ job[p].at # "stat"
        => job[p].since <= made /\ (file # NoFile => file.id > job[p].since)

Looked ==
    /\ file # NoFile => file.id <= made
    /\ \A p \in Proc : CameLater(p)

OpenInv == OnceInv /\ Uncrossed /\ Looked

----------------------------------------------------------------------------
(* Types of the jobs and files the steps write.                            *)

LEMMA Steps ==
    /\ Idle \in Job /\ Idle.at = "idle" /\ Idle.op = "none"
    /\ [Idle EXCEPT !.at = "open"] \in Job /\ [Idle EXCEPT !.at = "crashed"] \in Job
BY OpenAssumption DEF Idle, Job, Step, Op

LEMMA GoesTo ==
    ASSUME TypeOK, NEW p \in Proc, NEW s \in Step, GoTo(p, s)
    PROVE  /\ job' \in [Proc -> Job] /\ job'[p] \in Job /\ job'[p].at = s
           /\ job'[p].op = job[p].op /\ job'[p].made = job[p].made
           /\ job'[p].next = job[p].next /\ job'[p].since = job[p].since
           /\ \A q \in Proc \ {p} : job'[q] = job[q]
<1>1. \A x \in Job : /\ [x EXCEPT !.at = s] \in Job
                     /\ [x EXCEPT !.at = s].at = s /\ [x EXCEPT !.at = s].op = x.op
                     /\ [x EXCEPT !.at = s].made = x.made /\ [x EXCEPT !.at = s].next = x.next
                     /\ [x EXCEPT !.at = s].since = x.since
  BY DEF Job
<1>2. job' = [job EXCEPT ![p] = [job[p] EXCEPT !.at = s]] /\ job[p] \in Job
  BY DEF TypeOK, GoTo
<1> QED
  BY <1>1, <1>2 DEF TypeOK

LEMMA Ended ==
    ASSUME TypeOK, NEW p \in Proc, Ends(p)
    PROVE  /\ job' \in [Proc -> Job] /\ job'[p].at = "idle" /\ job'[p].op = "none"
           /\ \A q \in Proc \ {p} : job'[q] = job[q]
BY Steps DEF TypeOK, Ends

LEMMA Names ==
    /\ NoProc \notin Proc /\ NoFile \notin File
    /\ Newest \in Nat /\ \A p \in Proc : App[p] \in 1..Newest /\ App[p] \in Int
BY OpenAssumption DEF File

LEMMA FileFields ==
    ASSUME NEW f \in File
    PROVE  /\ f.version \in Nat /\ f.applied \in [1..Newest -> Nat]
           /\ f.index \in [Index -> {"absent", "good", "desynced"}]
BY OpenAssumption DEF File

(* A migration counts itself and leaves the version it stands for.         *)
LEMMA CountsOne ==
    ASSUME NEW a \in [1..Newest -> Nat], NEW m \in 1..Newest
    PROVE  LET b == [a EXCEPT ![m] = a[m] + 1]
           IN  /\ b \in [1..Newest -> Nat]
               /\ \A v \in 1..Newest : b[v] = IF v = m THEN a[v] + 1 ELSE a[v]
<1>1. a[m] + 1 \in Nat
  OBVIOUS
<1> QED
  BY <1>1

LEMMA MarkedFile ==
    ASSUME NEW f \in File
    PROVE  /\ [f EXCEPT !.meta = TRUE] \in File
           /\ [f EXCEPT !.meta = TRUE].version = f.version
           /\ [f EXCEPT !.meta = TRUE].applied = f.applied
           /\ [f EXCEPT !.meta = TRUE].id = f.id
BY DEF File

LEMMA IndexedFile ==
    ASSUME NEW f \in File, NEW i \in Index, NEW v \in {"absent", "good", "desynced"},
           NEW g, g = [f EXCEPT !.index[i] = v]
    PROVE  /\ g \in File /\ g.version = f.version /\ g.applied = f.applied
           /\ g.id = f.id /\ g.meta = f.meta
<1>1. [f.index EXCEPT ![i] = v] \in [Index -> {"absent", "good", "desynced"}]
  BY FileFields
<1>2. g = [id |-> f.id, meta |-> f.meta, version |-> f.version, applied |-> f.applied,
           index |-> [f.index EXCEPT ![i] = v]]
  BY DEF File
<1> QED
  BY <1>1, <1>2 DEF File

LEMMA FreshFile ==
    ASSUME NEW n \in 1..MaxFile
    PROVE  /\ NewFile(n) \in File /\ NewFile(n).id = n /\ NewFile(n).version = 0
           /\ \A v \in 1..Newest : NewFile(n).applied[v] = 0
BY OpenAssumption DEF NewFile, File

----------------------------------------------------------------------------
(* Steps that leave the file and its lock alone.                           *)

Still(p) ==
    /\ job' \in [Proc -> Job] /\ \A q \in Proc \ {p} : job'[q] = job[q]
    /\ UNCHANGED <<file, holder, made>> /\ crossed' \in {crossed, crossed \ {p}}

Moves(p) ==
    \/ (\E op \in Op : Calls(p, op)) \/ Stats(p) \/ StartMigrations(p) \/ Migrated(p)
    \/ ListIndexes(p) \/ Reindexed(p) \/ Restart(p)

LEMMA MovesStill ==
    ASSUME TypeOK, NEW p \in Proc, Moves(p)
    PROVE  Still(p)
<1>1. ASSUME NEW op \in Op, Calls(p, op)
      PROVE  Still(p)
  <2>1. \A x \in Job : [x EXCEPT !.op = op, !.at = "stat"] \in Job
    BY DEF Job, Step
  <2>2. job' = [job EXCEPT ![p] = [job[p] EXCEPT !.op = op, !.at = "stat"]]
    BY <1>1 DEF TypeOK, Calls
  <2>3. /\ job \in [Proc -> Job] /\ UNCHANGED <<file, holder, made>>
        /\ crossed' = crossed \ {p}
    BY <1>1 DEF TypeOK, Calls
  <2> QED
    BY <2>1, <2>2, <2>3 DEF Still
<1>2. CASE Stats(p)
  <2> DEFINE n == IF job[p].op = "create" THEN made ELSE 0
  <2>1. CASE Ends(p)
    BY <1>2, <2>1, Ended DEF Stats, Still
  <2>2. CASE job' = [job EXCEPT ![p].at = "connect", ![p].since = n]
    <3>1. n \in 0..MaxFile /\ job \in [Proc -> Job]
      BY OpenAssumption DEF TypeOK
    <3>2. job' = [job EXCEPT ![p] = [job[p] EXCEPT !.at = "connect", !.since = n]]
      BY <2>2, <3>1
    <3> HIDE DEF n
    <3>3. \A x \in Job : [x EXCEPT !.at = "connect", !.since = n] \in Job
      BY <3>1 DEF Job, Step
    <3>4. UNCHANGED <<file, holder, made, crossed>>
      BY <1>2 DEF Stats
    <3> QED
      BY <3>1, <3>2, <3>3, <3>4 DEF Still
  <2> QED
    BY <1>2, <2>1, <2>2 DEF Stats
<1>3. CASE StartMigrations(p)
  <2> DEFINE n == IF Has(p) THEN file.version + 1 ELSE 1
  <2>1. n \in 1..(Newest + 1)
    BY <1>3, Names, FileFields DEF TypeOK, StartMigrations, Has
  <2>2. \A x \in Job : [x EXCEPT !.at = "migrate", !.next = n] \in Job
    BY <2>1 DEF Job, Step
  <2>3. job' = [job EXCEPT ![p] = [job[p] EXCEPT !.at = "migrate", !.next = n]]
    BY <1>3 DEF TypeOK, StartMigrations
  <2>4. job \in [Proc -> Job] /\ UNCHANGED <<file, holder, made, crossed>>
    BY <1>3 DEF TypeOK, StartMigrations
  <2> HIDE DEF n
  <2> QED
    BY <2>2, <2>3, <2>4 DEF Still
<1>4. CASE Migrated(p) \/ Reindexed(p)
  BY <1>4, GoesTo DEF Migrated, Reindexed, Still, Step
<1>5. CASE ListIndexes(p)
  <2> DEFINE t == {i \in Index : file.index[i] # "absent"}
  <2>1. \A x \in Job : [x EXCEPT !.op = "reindex", !.at = "drop", !.todo = t] \in Job
    BY DEF Job, Step, Op
  <2>2. job' = [job EXCEPT ![p] = [job[p] EXCEPT !.op = "reindex", !.at = "drop", !.todo = t]]
    BY <1>5 DEF TypeOK, ListIndexes
  <2>3. job \in [Proc -> Job] /\ UNCHANGED <<file, holder, made, crossed>>
    BY <1>5 DEF TypeOK, ListIndexes
  <2> HIDE DEF t
  <2> QED
    BY <2>1, <2>2, <2>3 DEF Still
<1>6. CASE Restart(p)
  BY <1>6, Ended DEF Restart, Still
<1> QED
  BY <1>1, <1>2, <1>3, <1>4, <1>5, <1>6 DEF Moves

LEMMA MovesOnce ==
    ASSUME OnceInv, NEW p \in Proc, Moves(p)
    PROVE  OnceInv'
<1>1. TypeOK /\ Still(p)
  BY MovesStill DEF OnceInv
<1>2. CASE Migrated(p) \/ Reindexed(p) \/ Restart(p)
  <2>1. job'[p].at # "migrate"
    BY <1>1, <1>2, Ended, GoesTo DEF Migrated, Reindexed, Restart, Step
  <2> QED
    BY <1>1, <2>1 DEF OnceInv, NextFits, Still, Has, TypeOK, EachOnce
<1>3. CASE (\E op \in Op : Calls(p, op)) \/ Stats(p) \/ ListIndexes(p)
  <2>1. job'[p].at # "migrate"
    BY <1>1, <1>3, Ended DEF Calls, Stats, ListIndexes, TypeOK, Job
  <2> QED
    BY <1>1, <2>1 DEF OnceInv, NextFits, Still, Has, TypeOK, EachOnce
<1>4. CASE StartMigrations(p)
  <2>1. job'[p].next = IF Has(p) THEN file.version + 1 ELSE 1
    BY <1>1, <1>4 DEF TypeOK, StartMigrations, Job
  <2> QED
    BY <1>1, <2>1 DEF OnceInv, NextFits, Still, Has, TypeOK, EachOnce
<1> QED
  BY <1>2, <1>3, <1>4 DEF Moves

----------------------------------------------------------------------------
(* What a step of one process leaves to the others.                        *)

Spares(p) ==
    \A q \in Proc \ {p} :
        /\ job'[q] = job[q]
        /\ q \notin crossed' => q \notin crossed
        /\ q \notin crossed' /\ Has(q) => Has(q)'
        /\ q \notin crossed' /\ (Has(q) \/ job[q].at = "reopen")
             => \/ file' = file
                \/ /\ file' # NoFile /\ file'.version = file.version
                   /\ file.meta => file'.meta

Grows ==
    \/ made' = made /\ (file # NoFile /\ file' # NoFile => file'.id = file.id)
                     /\ (file = NoFile => file' = NoFile)
    \/ made' = made + 1 /\ file'.id = made'

(* p goes on with its Create, past its look at the path, or is in none.    *)
GoesOn(p) ==
    job'[p].op = "create" => /\ job[p].op = "create" /\ job[p].at # "stat"
                             /\ job'[p].since = job[p].since

LEMMA OthersKeep ==
    ASSUME OpenInv, OnceInv', NEW p \in Proc, Spares(p), Grows,
           p \notin crossed' => Seen(p)', GoesOn(p) \/ CameLater(p)'
    PROVE  OpenInv'
<1>1. /\ made \in Nat /\ made' \in Nat /\ (file # NoFile => file.id \in Nat)
      /\ \A q \in Proc : job[q].since \in Nat
  <2>1. TypeOK /\ TypeOK'
    BY DEF OpenInv, OnceInv
  <2>2. made \in Nat /\ made' \in Nat
    BY <2>1, OpenAssumption DEF TypeOK
  <2>3. file # NoFile => file.id \in Nat
    BY <2>1, OpenAssumption DEF TypeOK, File
  <2>4. ASSUME NEW q \in Proc
        PROVE  job[q].since \in Nat
    <3>1. job[q] \in Job
      BY <2>1 DEF TypeOK
    <3> QED
      BY <3>1, OpenAssumption DEF Job
  <2> QED
    BY <2>2, <2>3, <2>4
<1>2. ASSUME NEW q \in Proc \ {p}, q \notin crossed'
      PROVE  Seen(q)'
  <2>1. /\ job'[q] = job[q] /\ Seen(q) /\ (Has(q) => Has(q)')
        /\ Has(q) => file # NoFile
    BY <1>2, Names DEF OpenInv, Uncrossed, Spares, OnceInv, TypeOK, Has
  <2>2. CASE job[q].at \in Holding \cup {"reopen"}
    <3>1. Has(q) \/ job[q].at = "reopen"
      BY <2>1, <2>2 DEF Seen
    <3>2. \/ file' = file
          \/ file' # NoFile /\ file'.version = file.version /\ (file.meta => file'.meta)
      BY <1>2, <3>1 DEF Spares
    <3> QED
      BY <2>1, <2>2, <3>2 DEF Seen, Holding
  <2>3. CASE job[q].at \notin Holding \cup {"reopen"}
    BY <2>1, <2>3 DEF Seen, Holding
  <2> QED
    BY <2>2, <2>3
<1>3. file' # NoFile => file'.id <= made'
  BY <1>1 DEF OpenInv, Looked, Grows
<1>4. ASSUME NEW q \in Proc, GoesOn(q)
      PROVE  CameLater(q)'
  BY <1>1, <1>4 DEF OpenInv, Looked, CameLater, Grows, GoesOn
<1>5. ASSUME NEW q \in Proc \ {p}
      PROVE  CameLater(q)'
  <2>1. CameLater(q) /\ job'[q] = job[q]
    BY DEF OpenInv, Looked, Spares
  <2> QED
    BY <1>1, <2>1 DEF OpenInv, Looked, CameLater, Grows
<1> QED
  BY <1>2, <1>3, <1>4, <1>5 DEF OpenInv, Uncrossed, Looked

(* The steps that leave the file and its lock alone.                       *)
LEMMA MovesKeep ==
    ASSUME OpenInv, NEW p \in Proc, Moves(p)
    PROVE  OpenInv'
<1>1. TypeOK /\ Still(p) /\ OnceInv'
  BY MovesStill, MovesOnce DEF OpenInv, OnceInv
<1>2. Spares(p) /\ Grows
  BY <1>1 DEF Still, Spares, Grows, Has
<1>3. p \notin crossed => Seen(p)
  BY DEF OpenInv, Uncrossed
<1> SUFFICES (p \notin crossed' => Seen(p)') /\ (GoesOn(p) \/ CameLater(p)')
  BY <1>1, <1>2, OthersKeep
<1>4. CASE \E op \in Op : Calls(p, op)
  <2>1. job'[p].at = "stat"
    BY <1>1, <1>4 DEF Calls, TypeOK, Job
  <2> QED
    BY <2>1 DEF Seen, CameLater, Holding
<1>5. CASE Stats(p)
  <2> DEFINE n == IF job[p].op = "create" THEN made ELSE 0
  <2>1. CASE Ends(p)
    BY <1>1, <2>1, Ended DEF Seen, CameLater, Holding
  <2>2. CASE /\ job' = [job EXCEPT ![p].at = "connect", ![p].since = n]
             /\ job[p].op = "create" => file = NoFile
    <3>1. job'[p].at = "connect" /\ job'[p].op = job[p].op /\ job'[p].since = n
      BY <1>1, <2>2 DEF TypeOK, Job
    <3>2. made' = made /\ file' = file /\ made \in Int
      BY <1>1 DEF Still, TypeOK
    <3> QED
      BY <2>2, <3>1, <3>2 DEF Seen, CameLater, Holding
  <2> QED
    BY <1>5, <2>1, <2>2 DEF Stats
<1>6. CASE StartMigrations(p)
  <2>1. /\ job[p].at = "check" /\ job'[p].at = "migrate"
        /\ job'[p].op = job[p].op /\ job'[p].since = job[p].since
        /\ job'[p].next = IF Has(p) THEN file.version + 1 ELSE 1
        /\ Has(p) => file.meta /\ file.version <= App[p]
        /\ UNCHANGED <<file, holder, crossed>>
    BY <1>1, <1>6 DEF StartMigrations, TypeOK, Job
  <2>2. ASSUME p \notin crossed
        PROVE  Seen(p)'
    <3>1. Has(p) /\ Has(p)' /\ file \in File
      BY <1>1, <1>3, <2>1, <2>2, Names DEF Seen, Holding, Has, TypeOK
    <3>2. job'[p].next <= App[p] + 1
      BY <2>1, <3>1, Names, FileFields
    <3> QED
      BY <2>1, <3>1, <3>2 DEF Seen, Holding
  <2> QED
    BY <2>1, <2>2 DEF GoesOn
<1>7. CASE Migrated(p)
  <2>1. /\ job[p].at = "migrate" /\ job'[p].at = "close" /\ job[p].next \notin 1..App[p]
        /\ job'[p].op = job[p].op /\ job'[p].since = job[p].since
        /\ UNCHANGED <<file, holder, crossed>>
    BY <1>1, <1>7, GoesTo DEF Migrated, Migrations, Step
  <2>2. ASSUME p \notin crossed
        PROVE  Seen(p)'
    <3>1. Has(p) /\ Has(p)' /\ file.meta /\ job[p].next <= App[p] + 1 /\ file \in File
      BY <1>1, <1>3, <2>1, <2>2, Names DEF Seen, Holding, Has, TypeOK
    <3>2. job[p].next = file.version + 1
      BY <2>1, <3>1 DEF OpenInv, OnceInv, NextFits
    <3>3. file.version = App[p]
      <4>1. file.version \in Nat /\ App[p] \in Nat
        BY <3>1, Names, FileFields
      <4> QED
        BY <2>1, <3>1, <3>2, <4>1
    <3> QED
      BY <2>1, <3>1, <3>3 DEF Seen, Holding
  <2> QED
    BY <2>1, <2>2 DEF GoesOn
<1>8. CASE ListIndexes(p)
  <2>1. /\ job[p].at = "open" /\ job'[p].at = "drop" /\ job'[p].op = "reindex"
        /\ UNCHANGED <<file, holder, crossed>>
    BY <1>1, <1>8 DEF ListIndexes, TypeOK, Job
  <2> QED
    BY <1>3, <2>1 DEF Seen, Holding, Has, GoesOn
<1>9. CASE Reindexed(p)
  <2>1. /\ job[p].at = "drop" /\ job'[p].at = "close"
        /\ job'[p].op = job[p].op /\ job'[p].since = job[p].since
        /\ UNCHANGED <<file, holder, crossed>>
    BY <1>1, <1>9, GoesTo DEF Reindexed, Step
  <2> QED
    BY <1>3, <2>1 DEF Seen, Holding, Has, GoesOn
<1>10. CASE Restart(p)
  BY <1>1, <1>10, Ended DEF Restart, Seen, CameLater, Holding
<1> QED
  BY <1>4, <1>5, <1>6, <1>7, <1>8, <1>9, <1>10 DEF Moves

----------------------------------------------------------------------------
(* Steps that end a call, or take or let go of the lock.                   *)

Leaves(p) ==
    /\ job' \in [Proc -> Job] /\ \A q \in Proc \ {p} : job'[q] = job[q]
    /\ job'[p].at # "migrate"
    /\ file' \in {file, NoFile} /\ holder' \in {holder, p, NoProc} /\ UNCHANGED made
    /\ file' = NoFile => holder' = NoProc
    /\ crossed' \subseteq Proc

LEMMA LeavesOnce ==
    ASSUME OnceInv, NEW p \in Proc, Leaves(p)
    PROVE  OnceInv'
<1>1. TypeOK'
  BY DEF OnceInv, TypeOK, Leaves
<1>2. NextFits'
  BY Names DEF OnceInv, NextFits, Has, Leaves
<1>3. EachOnce'
  BY DEF OnceInv, EachOnce, Leaves
<1> QED
  BY <1>1, <1>2, <1>3 DEF OnceInv

(* A call that ends, and removes the path or only lets go of it.           *)
LEMMA EndsKeeps ==
    ASSUME OpenInv, NEW p \in Proc, job' \in [Proc -> Job],
           \A q \in Proc \ {p} : job'[q] = job[q],
           job'[p].at \in {"idle", "crashed"}, job'[p].op # "create", UNCHANGED made,
           \/ Remove(p)
           \/ (Free(p) \/ UNCHANGED holder) /\ UNCHANGED <<file, crossed>>
    PROVE  OpenInv'
<1> USE Names DEF OpenInv, OnceInv, TypeOK
<1>1. CASE Remove(p)
  <2>1. Leaves(p)
    BY <1>1 DEF Leaves, Remove, Between
  <2>2. \A q \in Proc \ {p} : q \notin crossed'
          => q \notin crossed /\ ~Has(q) /\ job[q].at # "reopen"
    BY <1>1 DEF Remove, Between
  <2>3. Spares(p)
    BY <2>2 DEF Spares
  <2>4. Grows
    BY <1>1 DEF Grows, Remove
  <2> QED
    BY <2>1, <2>3, <2>4, LeavesOnce, OthersKeep DEF Seen, GoesOn, Holding
<1>2. CASE (Free(p) \/ UNCHANGED holder) /\ UNCHANGED <<file, crossed>>
  <2>1. Leaves(p)
    BY <1>2 DEF Leaves, Free
  <2>2. \A q \in Proc \ {p} : Has(q) => Has(q)'
    BY <1>2 DEF Free, Has
  <2>3. Spares(p)
    BY <1>2, <2>2 DEF Spares
  <2>4. Grows
    BY <1>2 DEF Grows
  <2> QED
    BY <2>1, <2>3, <2>4, LeavesOnce, OthersKeep DEF Seen, GoesOn, Holding
<1> QED
  BY <1>1, <1>2

FailsNow(p) ==
    \/ InitializeFails(p) \/ CheckFails(p) \/ MigrationFails(p) \/ ReconnectFails(p)
    \/ ReindexFails(p)

LEMMA FailsKeeps ==
    ASSUME OpenInv, NEW p \in Proc, FailsNow(p) \/ ConnectFails(p)
    PROVE  OpenInv'
<1>1. /\ Ends(p) /\ UNCHANGED made
      /\ \/ Remove(p)
         \/ (Free(p) \/ UNCHANGED holder) /\ UNCHANGED <<file, crossed>>
  BY DEF FailsNow, InitializeFails, CheckFails, MigrationFails, ReconnectFails,
     ReindexFails, ConnectFails, Fails
<1>2. /\ job' \in [Proc -> Job] /\ job'[p].at = "idle" /\ job'[p].op = "none"
      /\ \A q \in Proc \ {p} : job'[q] = job[q]
  BY <1>1, Ended DEF OpenInv, OnceInv
<1> QED
  BY <1>1, <1>2, EndsKeeps

(* A kill, and the end of a session.                                       *)
LEMMA StopsKeeps ==
    ASSUME OpenInv, NEW p \in Proc, CloseSession(p) \/ Crash(p)
    PROVE  OpenInv'
<1>1. [Idle EXCEPT !.at = "crashed"].op = "none"
  BY DEF Idle
<1>2. /\ job' \in [Proc -> Job] /\ job'[p].at \in {"idle", "crashed"} /\ job'[p].op = "none"
      /\ \A q \in Proc \ {p} : job'[q] = job[q]
  BY <1>1, Steps DEF OpenInv, OnceInv, TypeOK, CloseSession, Crash, Ends, Idle
<1>3. Free(p) /\ UNCHANGED <<file, made, crossed>>
  BY DEF CloseSession, Crash
<1> QED
  BY <1>2, <1>3, EndsKeeps

LEMMA ReconnectClosesKeeps ==
    ASSUME OpenInv, NEW p \in Proc, ReconnectCloses(p)
    PROVE  OpenInv'
<1>1. /\ job' \in [Proc -> Job] /\ job[p].at = "close" /\ job'[p].at = "reopen"
      /\ job'[p].op = job[p].op /\ job'[p].since = job[p].since
      /\ \A q \in Proc \ {p} : job'[q] = job[q]
      /\ Free(p) /\ UNCHANGED <<file, made, crossed>>
  BY GoesTo DEF OpenInv, OnceInv, ReconnectCloses, Step
<1>2. Leaves(p) /\ Spares(p) /\ Grows
  BY <1>1, Names DEF Leaves, Spares, Grows, Free, Has, OpenInv, OnceInv, TypeOK
<1>3. p \notin crossed' => Seen(p)'
  BY <1>1, Names DEF OpenInv, OnceInv, TypeOK, Uncrossed, Seen, Holding, Has
<1>4. GoesOn(p)
  BY <1>1 DEF GoesOn
<1> QED
  BY <1>2, <1>3, <1>4, LeavesOnce, OthersKeep DEF OpenInv

LEMMA OpensKeeps ==
    ASSUME OpenInv, NEW p \in Proc, ConnectOpens(p) \/ ReconnectOpens(p)
    PROVE  OpenInv'
<1>1. AfterConnect(p) \in {"init", "check"}
  BY DEF AfterConnect
<1>2. CASE ConnectOpens(p)
  <2>1. /\ job' \in [Proc -> Job] /\ job[p].at = "connect" /\ job'[p].at \in {"init", "check"}
        /\ job'[p].op = job[p].op /\ job'[p].since = job[p].since
        /\ \A q \in Proc \ {p} : job'[q] = job[q]
        /\ file # NoFile /\ holder = NoProc /\ holder' = p /\ UNCHANGED <<file, made, crossed>>
    BY <1>1, <1>2, GoesTo DEF OpenInv, OnceInv, ConnectOpens, Step
  <2>2. Leaves(p) /\ Spares(p) /\ Grows
    BY <2>1, Names DEF Leaves, Spares, Grows, Has, OpenInv, OnceInv, TypeOK
  <2> QED
    BY <2>1, <2>2, LeavesOnce, OthersKeep DEF OpenInv, Seen, GoesOn, Has
<1>3. CASE ReconnectOpens(p)
  <2>1. [Idle EXCEPT !.at = "open"].op = "none" /\ [Idle EXCEPT !.at = "open"].at = "open"
    BY DEF Idle
  <2>2. /\ job' \in [Proc -> Job] /\ job[p].at = "reopen" /\ job'[p].at = "open"
        /\ job'[p].op = "none"
        /\ \A q \in Proc \ {p} : job'[q] = job[q]
        /\ file # NoFile /\ holder = NoProc /\ holder' = p /\ UNCHANGED <<file, made, crossed>>
    BY <1>3, <2>1, Steps DEF OpenInv, OnceInv, TypeOK, ReconnectOpens
  <2>3. Leaves(p) /\ Spares(p) /\ Grows
    BY <2>2, Names DEF Leaves, Spares, Grows, Has, OpenInv, OnceInv, TypeOK
  <2>4. p \notin crossed' => Seen(p)'
    BY <2>2 DEF OpenInv, Uncrossed, Seen, Has
  <2> QED
    BY <2>2, <2>3, <2>4, LeavesOnce, OthersKeep DEF OpenInv, GoesOn
<1> QED
  BY <1>2, <1>3

----------------------------------------------------------------------------
(* Steps that write the file.                                              *)

LEMMA MadeHere ==
    ASSUME NEW x \in Job, NEW s \in Step, NEW n \in 0..MaxFile
    PROVE  [x EXCEPT !.at = s, !.made = n] \in Job
BY DEF Job

LEMMA ConnectMakesKeeps ==
    ASSUME OpenInv, NEW p \in Proc, ConnectMakes(p)
    PROVE  OpenInv'
<1> USE Steps, Names
<1>1. made' = made + 1 /\ made' \in 1..MaxFile /\ file = NoFile /\ holder = NoProc
  BY OpenAssumption DEF OpenInv, OnceInv, TypeOK, ConnectMakes
<1>2. /\ file' \in File /\ file'.id = made' /\ file'.version = 0 /\ holder' = p
      /\ \A v \in 1..Newest : file'.applied[v] = 0
      /\ UNCHANGED crossed
  BY <1>1, FreshFile DEF ConnectMakes
<1>3. /\ job' \in [Proc -> Job] /\ job[p].at = "connect" /\ job'[p].at \in {"init", "check"}
      /\ job'[p].op = job[p].op /\ job'[p].since = job[p].since
      /\ \A q \in Proc \ {p} : job'[q] = job[q]
  <2> DEFINE n == made'
             s == AfterConnect(p)
  <2>1. s \in {"init", "check"} /\ s \in Step
    BY DEF AfterConnect, Step
  <2>2. job' = [job EXCEPT ![p] = [job[p] EXCEPT !.at = s, !.made = n]]
    BY DEF ConnectMakes, OpenInv, OnceInv, TypeOK
  <2>3. job \in [Proc -> Job] /\ job[p] \in Job /\ job[p].at = "connect" /\ n \in 0..MaxFile
    BY <1>1 DEF ConnectMakes, OpenInv, OnceInv, TypeOK
  <2> HIDE DEF n, s
  <2>4. [job[p] EXCEPT !.at = s, !.made = n] \in Job
    BY <2>1, <2>3, MadeHere
  <2>5. job'[p] = [job[p] EXCEPT !.at = s, !.made = n]
    BY <2>2, <2>3
  <2>6. job'[p].at = s /\ job'[p].op = job[p].op /\ job'[p].since = job[p].since
    BY <2>3, <2>5 DEF Job
  <2>7. job' \in [Proc -> Job] /\ \A q \in Proc \ {p} : job'[q] = job[q]
    BY <2>2, <2>3, <2>4
  <2> QED
    BY <2>1, <2>3, <2>6, <2>7
<1>4. OnceInv'
  <2>1. TypeOK'
    BY <1>1, <1>2, <1>3 DEF OpenInv, OnceInv, TypeOK
  <2>2. NextFits'
    BY <1>1, <1>2, <1>3 DEF OpenInv, OnceInv, NextFits, Has
  <2>3. EachOnce'
    BY <1>2 DEF EachOnce
  <2> QED
    BY <2>1, <2>2, <2>3 DEF OnceInv
<1>5. Spares(p) /\ Grows
  <2>1. \A q \in Proc \ crossed : job[q].at # "reopen"
    BY <1>1 DEF OpenInv, Uncrossed, Seen
  <2> QED
    BY <1>1, <1>2, <1>3, <2>1 DEF Spares, Grows, Has
<1> QED
  BY <1>2, <1>3, <1>4, <1>5, OthersKeep DEF Seen, GoesOn, Has

(* A step of the holder, or of nobody while nobody has the file, that      *)
(* leaves the version and what was applied.                                *)
Touches ==
    /\ UNCHANGED <<holder, made, crossed>>
    /\ \/ file' = file
       \/ /\ file # NoFile /\ file' \in File
          /\ file'.id = file.id /\ file'.version = file.version
          /\ file'.applied = file.applied /\ (file.meta => file'.meta)

LEMMA TouchesOnce ==
    ASSUME OnceInv, Touches, job' \in [Proc -> Job],
           \A q \in Proc : job'[q] = job[q] \/ job'[q].at # "migrate"
    PROVE  OnceInv'
<1> USE Names DEF Touches
<1>1. TypeOK'
  BY DEF OnceInv, TypeOK
<1>2. (file' = NoFile <=> file = NoFile)
      /\ (file # NoFile => file'.version = file.version /\ file'.applied = file.applied)
  OBVIOUS
<1>3. NextFits'
  BY <1>2 DEF OnceInv, TypeOK, NextFits, Has
<1>4. EachOnce'
  BY <1>2 DEF OnceInv, EachOnce
<1> QED
  BY <1>1, <1>3, <1>4 DEF OnceInv

LEMMA TouchesKeeps ==
    ASSUME OpenInv, NEW p \in Proc, Touches, job' \in [Proc -> Job],
           \A q \in Proc \ {p} : job'[q] = job[q],
           job'[p].op = job[p].op, job'[p].since = job[p].since,
           \/ job[p].at = "init" /\ job'[p].at = "check"
           \/ job[p].at \in {"drop", "create"} /\ job'[p].at \in {"drop", "create"}
    PROVE  OpenInv'
<1>1. OnceInv'
  BY TouchesOnce DEF OpenInv
<1>2. Spares(p) /\ Grows
  BY Names DEF Spares, Grows, Touches, Has, OpenInv, OnceInv, TypeOK
<1>3. p \notin crossed' => Seen(p)'
  <2>1. p \notin crossed => Seen(p) /\ Has(p)
    BY DEF OpenInv, Uncrossed, Seen, Holding
  <2> QED
    BY <2>1 DEF Seen, Touches, Holding, Has
<1>4. GoesOn(p)
  BY DEF GoesOn
<1> QED
  BY <1>1, <1>2, <1>3, <1>4, OthersKeep

LEMMA DesyncKeeps ==
    ASSUME OpenInv, NEW i \in Index, Desync(i)
    PROVE  OpenInv'
<1>1. Touches /\ UNCHANGED job
  BY IndexedFile DEF OpenInv, OnceInv, TypeOK, Desync, Touches
<1>2. OnceInv'
  BY <1>1, TouchesOnce DEF OpenInv, OnceInv, TypeOK
<1>3. Uncrossed'
  BY <1>1, Names DEF OpenInv, Uncrossed, Seen, Touches, Has, OnceInv, TypeOK
<1>4. Looked'
  BY <1>1, Names DEF OpenInv, Looked, CameLater, Touches, OnceInv, TypeOK
<1> QED
  BY <1>2, <1>3, <1>4 DEF OpenInv

LEMMA IndexesKeep ==
    ASSUME OpenInv, NEW p \in Proc, NEW i \in Index, DropIndex(p, i) \/ CreateIndex(p, i)
    PROVE  OpenInv'
<1>1. Touches
  <2>1. UNCHANGED <<holder, made, crossed>> /\ TypeOK
    BY DEF DropIndex, CreateIndex, OpenInv, OnceInv
  <2>2. \/ file' = file
        \/ Has(p) /\ \E v \in {"absent", "good"} : file' = [file EXCEPT !.index[i] = v]
    BY DEF DropIndex, CreateIndex, Write
  <2>3. Has(p) => file \in File
    BY <2>1, Names DEF TypeOK, Has
  <2> QED
    BY <2>1, <2>2, <2>3, IndexedFile, Names DEF Touches
<1>2. CASE DropIndex(p, i)
  <2> DEFINE t == job[p].todo \ {i}
  <2>1. job' = [job EXCEPT ![p] = [job[p] EXCEPT !.at = "create", !.todo = t]]
    BY <1>2 DEF DropIndex, OpenInv, OnceInv, TypeOK, Job
  <2>2. t \in SUBSET Index /\ job \in [Proc -> Job] /\ job[p] \in Job /\ job[p].at = "drop"
    BY <1>2 DEF OpenInv, OnceInv, TypeOK, Job, DropIndex
  <2> HIDE DEF t
  <2>3. job'[p] = [job[p] EXCEPT !.at = "create", !.todo = t]
    BY <2>1, <2>2
  <2>4. \A q \in Proc \ {p} : job'[q] = job[q]
    BY <2>1, <2>2
  <2>5. /\ job'[p] \in Job /\ job'[p].at = "create"
        /\ job'[p].op = job[p].op /\ job'[p].since = job[p].since
    BY <2>2, <2>3 DEF Job, Step
  <2>6. job' \in [Proc -> Job]
    BY <2>1, <2>2, <2>5
  <2> QED
    BY <1>1, <2>2, <2>4, <2>5, <2>6, TouchesKeeps
<1>3. CASE CreateIndex(p, i)
  <2>1. /\ job' \in [Proc -> Job] /\ job[p].at = "create" /\ job'[p].at = "drop"
        /\ job'[p].op = job[p].op /\ job'[p].since = job[p].since
        /\ \A q \in Proc \ {p} : job'[q] = job[q]
    BY <1>3, GoesTo DEF OpenInv, OnceInv, CreateIndex, Step
  <2> QED
    BY <1>1, <2>1, TouchesKeeps
<1> QED
  BY <1>2, <1>3

LEMMA InitializeKeeps ==
    ASSUME OpenInv, NEW p \in Proc, InitializeMetadata(p)
    PROVE  OpenInv'
<1>1. Touches
  BY Names, MarkedFile DEF OpenInv, OnceInv, TypeOK, InitializeMetadata, Touches, Write, Has, File
<1>2. /\ job' \in [Proc -> Job] /\ job[p].at = "init" /\ job'[p].at = "check"
      /\ job'[p].op = job[p].op /\ job'[p].since = job[p].since
      /\ \A q \in Proc \ {p} : job'[q] = job[q]
  BY GoesTo DEF OpenInv, OnceInv, InitializeMetadata, Step
<1> QED
  BY <1>1, <1>2, TouchesKeeps

(* A migration that runs is the one after the file's version, and counts   *)
(* itself.                                                                 *)
LEMMA MigrationWrites ==
    ASSUME OnceInv, NEW p \in Proc, RunMigration(p), Has(p)
    PROVE  /\ file \in File /\ job[p].next = file.version + 1 /\ file.version \in Nat
           /\ file' \in File /\ file'.version = job[p].next
           /\ file'.id = file.id /\ file'.meta = file.meta
           /\ \A v \in 1..Newest :
                file'.applied[v] = IF v = job[p].next THEN file.applied[v] + 1
                                                      ELSE file.applied[v]
<1> USE Names
<1> DEFINE m == job[p].next
<1>1. m \in 1..Newest /\ m \in 0..Newest /\ job[p].at = "migrate"
  BY DEF RunMigration, Migrations
<1>2. file \in File /\ m = file.version + 1 /\ file.version \in Nat
  BY <1>1, FileFields DEF OnceInv, TypeOK, NextFits, Has
<1> DEFINE a == [file.applied EXCEPT ![m] = file.applied[m] + 1]
           x == IF m = 1 THEN [i \in Index |-> "good"] ELSE file.index
<1>3. file' = [file EXCEPT !.version = m, !.applied = a, !.index = x]
  BY <1>2 DEF RunMigration, Write, File
<1>4. /\ a \in [1..Newest -> Nat]
      /\ \A v \in 1..Newest : a[v] = IF v = m THEN file.applied[v] + 1 ELSE file.applied[v]
  BY <1>1, <1>2, FileFields, CountsOne
<1>5. x \in [Index -> {"absent", "good", "desynced"}]
  BY <1>2, FileFields
<1> HIDE DEF a, x
<1>6. /\ file' \in File /\ file'.version = m /\ file'.id = file.id
      /\ file'.meta = file.meta /\ file'.applied = a
  <2> HIDE DEF m
  <2> QED
    BY <1>1, <1>2, <1>3, <1>4, <1>5 DEF File
<1> QED
  BY <1>2, <1>4, <1>6

LEMMA RunMigrationKeeps ==
    ASSUME OpenInv, NEW p \in Proc, RunMigration(p)
    PROVE  OpenInv'
<1> USE Steps, Names
<1> DEFINE m == job[p].next
<1>1. job[p].at = "migrate" /\ m \in 1..App[p] /\ m \in 1..Newest /\ m + 1 \in 1..(Newest + 1)
  BY DEF RunMigration, Migrations
<1>2. /\ job' \in [Proc -> Job] /\ job'[p].at = "migrate" /\ job'[p].next = m + 1
      /\ job'[p].op = job[p].op /\ job'[p].since = job[p].since
      /\ \A q \in Proc \ {p} : job'[q] = job[q]
      /\ UNCHANGED <<holder, made>>
  <2>1. \A x \in Job : [x EXCEPT !.next = m + 1] \in Job
    BY <1>1 DEF Job
  <2>2. job' = [job EXCEPT ![p] = [job[p] EXCEPT !.next = m + 1]] /\ job \in [Proc -> Job]
    BY DEF RunMigration, OpenInv, OnceInv, TypeOK
  <2>3. UNCHANGED <<holder, made>>
    BY DEF RunMigration
  <2> QED
    BY <1>1, <2>1, <2>2, <2>3 DEF Job
<1>3. GoesOn(p)
  BY <1>1, <1>2 DEF GoesOn
<1>4. CASE ~Has(p)
  <2>1. UNCHANGED <<file, crossed>>
    BY <1>4 DEF RunMigration, Write
  <2>2. OnceInv'
    BY <1>2, <1>4, <2>1 DEF OpenInv, OnceInv, TypeOK, NextFits, EachOnce, Has
  <2>3. Spares(p) /\ Grows
    BY <1>2, <2>1 DEF Spares, Grows, Has
  <2>4. p \in crossed'
    BY <1>1, <1>4, <2>1 DEF OpenInv, Uncrossed, Seen, Holding
  <2> QED
    BY <1>3, <2>2, <2>3, <2>4, OthersKeep
<1>5. CASE Has(p)
  <2> HIDE DEF m
  <2>1. /\ file \in File /\ m = file.version + 1 /\ file.version \in Nat
        /\ file' \in File /\ file'.version = m /\ file'.id = file.id /\ file'.meta = file.meta
        /\ \A v \in 1..Newest :
             file'.applied[v] = IF v = m THEN file.applied[v] + 1 ELSE file.applied[v]
    BY <1>5, MigrationWrites DEF m, OpenInv
  <2>2. crossed' = crossed \cup Between(p) /\ crossed' \subseteq Proc
    BY <1>5 DEF RunMigration, Between, OpenInv, OnceInv, TypeOK
  <2>3. TypeOK'
    BY <1>2, <2>1, <2>2 DEF OpenInv, OnceInv, TypeOK
  <2>4. \A q \in Proc : Has(q)' <=> q = p
    BY <1>2, <1>5 DEF Has
  <2>5. NextFits'
    BY <1>2, <2>1, <2>4 DEF NextFits
  <2>6. EachOnce'
    <3> SUFFICES ASSUME NEW v \in 1..Newest
                 PROVE  file'.applied[v] = IF v <= m THEN 1 ELSE 0
      BY <2>1 DEF EachOnce
    <3>1. file.applied[v] = IF v <= file.version THEN 1 ELSE 0
      BY <2>1 DEF OpenInv, OnceInv, EachOnce
    <3> QED
      BY <2>1, <3>1
  <2>7. Spares(p) /\ Grows
    BY <1>2, <2>1, <2>2 DEF Spares, Grows, Between, Has
  <2>8. p \notin crossed' => Seen(p)'
    <3>1. p \notin crossed => file.meta
      BY <1>1 DEF OpenInv, Uncrossed, Seen
    <3>2. m + 1 <= App[p] + 1
      BY <1>1 DEF m
    <3> QED
      BY <1>2, <2>1, <2>2, <2>4, <3>1, <3>2 DEF Seen
  <2> QED
    BY <1>3, <2>3, <2>5, <2>6, <2>7, <2>8, OthersKeep DEF OnceInv
<1> QED
  BY <1>4, <1>5

----------------------------------------------------------------------------
(* All steps.                                                              *)

Tries(p) ==
    \/ Moves(p) \/ FailsNow(p) \/ CloseSession(p) \/ Crash(p) \/ ConnectFails(p)
    \/ ReconnectCloses(p) \/ ConnectOpens(p) \/ ReconnectOpens(p)
    \/ ConnectMakes(p) \/ InitializeMetadata(p) \/ RunMigration(p)
    \/ \E i \in Index : DropIndex(p, i) \/ CreateIndex(p, i)

LEMMA NextSplits ==
    ASSUME Next
    PROVE  (\E p \in Proc : Tries(p)) \/ (\E i \in Index : Desync(i))
BY DEF Next, Tries, Moves, FailsNow

LEMMA Starts == Init => OpenInv
<1> SUFFICES ASSUME Init
             PROVE  OpenInv
  OBVIOUS
<1>1. \A p \in Proc : job[p].at = "idle" /\ job[p].op = "none"
  BY Steps DEF Init
<1>2. OnceInv
  BY <1>1, Steps, OpenAssumption DEF Init, OnceInv, TypeOK, NextFits, EachOnce
<1>3. Uncrossed /\ Looked
  BY <1>1 DEF Init, Uncrossed, Seen, Holding, Looked, CameLater
<1> QED
  BY <1>2, <1>3 DEF OpenInv

LEMMA StepKeeps ==
    ASSUME OpenInv, [Next]_vars
    PROVE  OpenInv'
<1>1. ASSUME NEW p \in Proc, Tries(p)
      PROVE  OpenInv'
  <2>1. CASE Moves(p)
    BY <2>1, MovesKeep
  <2>2. CASE FailsNow(p) \/ ConnectFails(p)
    BY <2>2, FailsKeeps
  <2>3. CASE CloseSession(p) \/ Crash(p)
    BY <2>3, StopsKeeps
  <2>4. CASE ReconnectCloses(p)
    BY <2>4, ReconnectClosesKeeps
  <2>5. CASE ConnectOpens(p) \/ ReconnectOpens(p)
    BY <2>5, OpensKeeps
  <2>6. CASE ConnectMakes(p)
    BY <2>6, ConnectMakesKeeps
  <2>7. CASE InitializeMetadata(p)
    BY <2>7, InitializeKeeps
  <2>8. CASE RunMigration(p)
    BY <2>8, RunMigrationKeeps
  <2>9. CASE \E i \in Index : DropIndex(p, i) \/ CreateIndex(p, i)
    BY <2>9, IndexesKeep
  <2> QED
    BY <1>1, <2>1, <2>2, <2>3, <2>4, <2>5, <2>6, <2>7, <2>8, <2>9 DEF Tries
<1>2. CASE UNCHANGED vars
  BY <1>2 DEF vars, OpenInv, OnceInv, TypeOK, NextFits, EachOnce, Uncrossed, Seen,
              Looked, CameLater, Has
<1> QED
  BY <1>1, <1>2, NextSplits, DesyncKeeps

(* What removes the file at the path is a Create that ends, and the file   *)
(* came after that Create looked.                                          *)
LEMMA StepSpares ==
    ASSUME OpenInv, [Next]_vars, file # NoFile, file' = NoFile
    PROVE  \E p \in Proc : /\ job[p].op = "create" /\ job'[p] = Idle
                            /\ file.id > job[p].since
<1>1. TypeOK
  BY DEF OpenInv, OnceInv
<1>2. ASSUME NEW i \in Index,
             Desync(i) \/ \E p \in Proc : DropIndex(p, i) \/ CreateIndex(p, i)
      PROVE  FALSE
  <2>1. file \in File
    BY <1>1 DEF TypeOK
  <2>2. file' = file \/ \E v \in {"absent", "good", "desynced"} : file' = [file EXCEPT !.index[i] = v]
    BY <1>2 DEF Desync, DropIndex, CreateIndex, Write
  <2>3. file' \in File
    BY <2>1, <2>2, IndexedFile
  <2> QED
    BY <2>3, Names
<1>3. PICK p \in Proc : Tries(p)
  BY <1>2, NextSplits DEF vars
<1>4. CASE FailsNow(p) \/ ConnectFails(p)
  <2>1. Ends(p) /\ job[p].op = "create" /\ job[p].at # "stat"
    BY <1>4 DEF FailsNow, InitializeFails, CheckFails, MigrationFails, ReconnectFails,
       ReindexFails, ConnectFails, Fails
  <2>2. job'[p] = Idle
    BY <1>1, <2>1 DEF TypeOK, Ends
  <2>3. file.id > job[p].since
    BY <2>1 DEF OpenInv, Looked, CameLater
  <2> QED
    BY <2>1, <2>2, <2>3
<1>5. CASE InitializeMetadata(p)
  BY <1>1, <1>5, MarkedFile, Names DEF InitializeMetadata, Write, TypeOK
<1>6. CASE RunMigration(p)
  <2>1. CASE Has(p)
    BY <1>6, <2>1, MigrationWrites, Names DEF OpenInv
  <2>2. CASE ~Has(p)
    BY <1>6, <2>2 DEF RunMigration, Write
  <2> QED
    BY <2>1, <2>2
<1>7. CASE Moves(p) \/ CloseSession(p) \/ Crash(p) \/ ReconnectCloses(p)
           \/ ConnectOpens(p) \/ ReconnectOpens(p) \/ ConnectMakes(p)
  BY <1>1, <1>7, MovesStill DEF Still, CloseSession, Crash, ReconnectCloses, ConnectOpens,
     ReconnectOpens, ConnectMakes
<1>8. ~ \E i \in Index : DropIndex(p, i) \/ CreateIndex(p, i)
  BY <1>2
<1> QED
  BY <1>3, <1>4, <1>5, <1>6, <1>7, <1>8 DEF Tries

LEMMA StaysOpen == Spec => []OpenInv
<1>1. OpenInv /\ [Next]_vars => OpenInv'
  BY StepKeeps
<1> QED
  BY Starts, <1>1, PTL DEF Spec

----------------------------------------------------------------------------
(* The file, its lock and the jobs stay within their types, whatever       *)
(* processes of whatever versions do and wherever they are killed.         *)
THEOREM TypeCorrect == Spec => []TypeOK
<1>1. OpenInv => TypeOK
  BY DEF OpenInv, OnceInv
<1> QED
  BY <1>1, StaysOpen, PTL

(* runMigration commits a migration with its version, and migrate reads    *)
(* the version while it has the lock: whatever apps opened the file and    *)
(* were killed, each migration up to its version ran once.                 *)
THEOREM RunsEachOnce == Spec => []EachOnce
<1>1. OpenInv => EachOnce
  BY DEF OpenInv, OnceInv
<1> QED
  BY <1>1, StaysOpen, PTL

(* A process that goes on with its file, in a session or in a reindex, has *)
(* it at the version of its own app, though it opened the file again       *)
(* without a look at the version: whatever the others do, unless one of    *)
(* them migrated or removed the file since the process looked.             *)
THEOREM CurrentWhenOpen == Spec => []OpenIsCurrent
<1>1. OpenInv => OpenIsCurrent
  BY DEF OpenInv, Uncrossed, Seen, OpenIsCurrent, Holding
<1> QED
  BY <1>1, StaysOpen, PTL

(* A failing Create removes whatever is at the path.  That is never a file *)
(* that was there when this Create looked, however many processes create,  *)
(* open, fail and are killed meanwhile.                                    *)
THEOREM SparesWhatWasThere == Spec => CreateSpares
<1>1. OpenInv /\ [Next]_vars =>
        [file # NoFile /\ file' = NoFile
           => \E p \in Proc : /\ job[p].op = "create" /\ job'[p] = Idle
                              /\ file.id > job[p].since]_vars
  BY StepSpares
<1> QED
  BY <1>1, StaysOpen, PTL DEF Spec, CreateSpares
=============================================================================
