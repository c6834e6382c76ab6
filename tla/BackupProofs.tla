----------------------------- MODULE BackupProofs -----------------------------
(***************************************************************************)
(* Proofs about BackupRestore, for any clock, limit and bounds.  Retention *)
(* spares what it must whatever the other process does at any time; that   *)
(* no file is ever a mixture, and that the safety backup holds what a      *)
(* restore replaces, only while the other process leaves the copies and    *)
(* the swap alone (Window = FALSE).                                        *)
(***************************************************************************)
EXTENDS BackupRestore, TLAPS, FiniteSetTheorems, WellFoundedInduction

Backing   == {"name", "copy", "logs", "publish", "rename", "rawlogs", "retain"}
Restoring == {"source", "fold", "stamp", "compare", "held", "aside", "swap", "clean"}

(* What a step reads is there.                                             *)
PartsThere ==
    /\ job.at \in Restoring => job.op = "restore"
    /\ job.at \in {"logs", "publish", "rename", "rawlogs"} => part \in Files
    /\ job.op = "restore" /\ job.at \in Backing \cup (Restoring \ {"source", "clean"})
         => temp \in Files
    /\ job.at \in (Backing \ {"name"}) \cup {"compare", "held", "aside", "swap"}
         => job.dst \in Name

BaseInv == TypeOK /\ PartsThere

(* The other process is out of the way of a swap.                          *)
Alone ==
    /\ other # "unlinked"
    /\ job.at \in {"aside", "swap"} => other # "open"

(* f is no mixture, and holds commits that happened.                       *)
Whole(f) ==
    /\ f.rows \in 0..last /\ f.log.to <= last
    /\ f.log.kind = "good" => f.log.base = f.rows

FilesWhole ==
    /\ Whole(file)
    /\ \A n \in DOMAIN backups : Whole(backups[n])
    /\ job.at = "logs" => part.rows = file.rows
    /\ job.at \in {"publish", "rename", "rawlogs"} => Whole(part)
    /\ job.at = "rename" /\ job.dst \in DOMAIN backups => backups[job.dst].log = NoLog
    /\ job.op = "restore" /\ job.at \in Backing \cup (Restoring \ {"source", "clean"})
         => Whole(temp)
    /\ job.at = "swap" =>
         /\ file.log = NoLog /\ aside.to <= last
         /\ aside.kind = "good" => aside.base = file.rows

(* The last commit of f, and g is f or what became of it.                  *)
LastOf(f) == IF HasWAL(f) THEN f.log.to ELSE f.rows

Became(f, g) ==
    \/ g = f
    \/ LastOf(f) < LastOf(g)
    \/ LastOf(f) = LastOf(g) /\ f.log.kind = "good" /\ g.log.kind # "good"

(* Nothing becomes again what it was, so a file that is as it was seen was *)
(* so all the time, and what was copied of it in between holds it.         *)
SeenFits ==
    job.op = "restore" =>
        /\ job.at \in Backing \cup {"compare"} =>
             job.seen \in Files /\ Whole(job.seen) /\ Became(job.seen, file)
        /\ job.at \in Backing => (HasWAL(job.seen) => job.raw)
        /\ job.at \in {"publish", "rename", "rawlogs"} /\ file = job.seen
             => Holds(part, job.seen)
        /\ job.at \in {"held", "aside"} => file = job.seen
        /\ job.at = "swap" => job.seen = [file EXCEPT !.log = aside]

Saved ==
    job.op = "restore" =>
        /\ job.at \in {"rawlogs", "retain", "compare", "held", "aside", "swap"}
             => job.dst \in DOMAIN backups \/ PushedOut(job.dst)
        /\ \/ job.at \in {"retain", "compare"} /\ file = job.seen
           \/ job.at \in {"held", "aside", "swap"}
           => PushedOut(job.dst) \/ Holds(backups[job.dst], job.seen)

LoneInv == BaseInv /\ Alone /\ FilesWhole /\ SeenFits /\ Saved

-----------------------------------------------------------------------------
(* The newest of some names, and what retention leaves of them.            *)

LEMMA NamesFinite == \A S \in SUBSET Name : IsFiniteSet(S) /\ Cardinality(S) \in Nat
<1>1. IsFiniteSet(Kind)
  <2>1. Kind = {"auto"} \cup {"manual"}
    BY DEF Kind
  <2>2. IsFiniteSet({"auto"})
    BY FS_Singleton
  <2> QED
    BY <2>1, <2>2, FS_AddElement
<1>2. IsFiniteSet(1..MaxName)
  BY FS_Interval, BackupAssumption
<1>3. IsFiniteSet(Name)
  BY <1>1, <1>2, FS_Product DEF Name
<1> QED
  BY <1>3, FS_Subset, FS_CardinalityType

LEMMA NewestOf ==
    ASSUME NEW S \in SUBSET Name, S # {}
    PROVE  \E e \in S : \A m \in S : ~(m[2] > e[2])
<1> DEFINE Newer(n) == {m \in S : m[2] > n[2]}
           D == {Newer(n) : n \in S}
<1>1. D \subseteq FiniteSubsetsOf(S) /\ D # {}
  BY NamesFinite DEF FiniteSubsetsOf
<1>2. PICK x \in D : \A y \in D : <<y, x>> \notin StrictSubsetOrdering(S)
  <2> HIDE DEF D
  <2> QED
    BY <1>1, FS_StrictSubsetOrderingWellFounded, WFMin
<1>3. PICK e \in S : x = Newer(e)
  OBVIOUS
<1>4. ASSUME NEW m \in S, m[2] > e[2]
      PROVE  FALSE
  <2>1. Newer(m) \in D /\ m \in Newer(e) /\ m \notin Newer(m)
    BY <1>4 DEF Name
  <2>2. Newer(m) \subseteq Newer(e)
    BY <1>4 DEF Name
  <2> HIDE DEF D
  <2>3. <<Newer(m), x>> \in StrictSubsetOrdering(S)
    BY <1>3, <2>1, <2>2 DEF StrictSubsetOrdering
  <2> QED
    BY <1>2, <2>1, <2>3
<1> QED
  BY <1>4

Newer(S, n) == {m \in S : m[2] > n[2]}
Autos(S)    == {m \in S : m[1] = "auto"}

(* If each deleted name has enough newer ones that count, then so has each *)
(* name that had enough before: the newest of the deleted sees to it.      *)
LEMMA KeepsNewest ==
    ASSUME NEW S \in SUBSET Name, NEW K \in SUBSET S, NEW G \in SUBSET S, NEW n \in Name,
           \A e \in G : Cardinality(Newer(K, e)) >= MaxAutoBackups,
           Cardinality(Newer(S, n)) >= MaxAutoBackups
    PROVE  Cardinality(Newer(S \ G, n)) >= MaxAutoBackups
<1>1. CASE Newer(G, n) = {}
  <2>1. Newer(S \ G, n) = Newer(S, n)
    BY <1>1 DEF Newer
  <2> QED
    BY <2>1
<1>2. CASE Newer(G, n) # {}
  <2>1. PICK e \in Newer(G, n) : \A m \in Newer(G, n) : ~(m[2] > e[2])
    BY <1>2, NewestOf DEF Newer
  <2>2. e \in G /\ e \in Name /\ Newer(K, e) \subseteq Newer(S \ G, n)
    BY <2>1 DEF Newer, Name
  <2>3. Newer(S \ G, n) \in SUBSET Name
    BY DEF Newer
  <2>4. /\ Cardinality(Newer(K, e)) <= Cardinality(Newer(S \ G, n))
        /\ Cardinality(Newer(K, e)) \in Nat /\ Cardinality(Newer(S \ G, n)) \in Nat
    BY <2>2, <2>3, NamesFinite, FS_Subset
  <2> QED
    BY <2>2, <2>4, BackupAssumption
<1> QED
  BY <1>1, <1>2

LEMMA MoreNewer ==
    ASSUME NEW D \in SUBSET Name, NEW E \in SUBSET Name, D \subseteq E, NEW n,
           Cardinality(Newer(D, n)) >= MaxAutoBackups
    PROVE  Cardinality(Newer(E, n)) >= MaxAutoBackups
<1>1. Newer(D, n) \in SUBSET Newer(E, n) /\ Newer(E, n) \in SUBSET Name /\ Newer(D, n) \in SUBSET Name
  BY DEF Newer
<1>2. /\ Cardinality(Newer(D, n)) <= Cardinality(Newer(E, n))
      /\ Cardinality(Newer(D, n)) \in Nat /\ Cardinality(Newer(E, n)) \in Nat
  BY <1>1, NamesFinite, FS_Subset
<1> QED
  BY <1>2, BackupAssumption

LEMMA PushedOutIs ==
    \A n : PushedOut(n) <=> Cardinality(Newer(Autos(DOMAIN backups), n)) >= MaxAutoBackups
<1> SUFFICES ASSUME NEW n
             PROVE  {m \in DOMAIN backups : m[1] = "auto" /\ m[2] > n[2]}
                      = Newer(Autos(DOMAIN backups), n)
  BY DEF PushedOut
<1> QED
  BY DEF Newer, Autos

-----------------------------------------------------------------------------
(* Types, and what each step finds, whatever the other process does.       *)

LEMMA Jobs ==
    /\ Idle \in Job /\ Idle.at = "idle" /\ Idle.op = "none"
    /\ \A j \in Job, s \in Step :
         /\ [j EXCEPT !.at = s] \in Job /\ [j EXCEPT !.at = s].at = s
         /\ [j EXCEPT !.at = s].op = j.op /\ [j EXCEPT !.at = s].dst = j.dst
    /\ \A j \in Job, n \in Name :
         /\ [j EXCEPT !.dst = n] \in Job /\ [j EXCEPT !.dst = n].dst = n
         /\ [j EXCEPT !.dst = n].at = j.at /\ [j EXCEPT !.dst = n].op = j.op
BY DEF Job, Idle, Step

LEMMA Went ==
    ASSUME job \in Job, NEW s \in Step, job' = [job EXCEPT !.at = s]
    PROVE  /\ job' \in Job /\ job'.at = s /\ job'.op = job.op /\ job'.dst = job.dst
           /\ job'.seen = job.seen /\ job'.raw = job.raw
BY DEF Job

LEMMA Folded ==
    ASSUME NEW f \in Files
    PROVE  /\ Shown(f) \in Content /\ [rows |-> Shown(f), log |-> NoLog] \in Files
           /\ \A g \in Files : [f EXCEPT !.log = g.log] \in Files
           /\ [f EXCEPT !.log = NoLog] \in Files
           /\ [rows |-> f.rows, log |-> NoLog] \in Files
BY BackupAssumption DEF Files, Log, Content, Shown, NoLog

BackupsOK == DOMAIN backups \subseteq Name /\ backups \in [DOMAIN backups -> Files]

LEMMA Added ==
    ASSUME BackupsOK, NEW n \in Name, NEW f \in Files
    PROVE  /\ DOMAIN With(n, f) = DOMAIN backups \cup {n} /\ DOMAIN With(n, f) \subseteq Name
           /\ With(n, f) \in [DOMAIN With(n, f) -> Files]
           /\ With(n, f)[n] = f /\ \A m \in DOMAIN backups \ {n} : With(n, f)[m] = backups[m]
BY DEF BackupsOK, With

LEMMA Deleted ==
    ASSUME BackupsOK, NEW G
    PROVE  /\ DOMAIN Without(G) = DOMAIN backups \ G
           /\ Without(G) \in [DOMAIN Without(G) -> Files]
           /\ \A m \in DOMAIN backups \ G : Without(G)[m] = backups[m]
BY DEF BackupsOK, Without

LEMMA OtherAdds ==
    ASSUME OtherBacksUp
    PROVE  /\ UNCHANGED <<file, temp, part, aside, job, want, last, ops, opens>>
           /\ other = "leaving" /\ other' = "away"
           /\ \E name \in Name : \E G :
                LET all == With(name, [rows |-> Shown(file), log |-> NoLog])
                IN  backups' = [n \in DOMAIN all \ G |-> all[n]]
BY DEF OtherBacksUp

(* Steps of sessions and of the other process.                             *)
LEMMA OthersBase ==
    ASSUME BaseInv, Others \/ \E left \in {"none", "good"} : SessionCommits(left)
    PROVE  BaseInv'
<1> USE BackupAssumption DEF BaseInv, TypeOK
<1>1. UNCHANGED <<temp, part, aside, job, want, ops>>
  BY DEF Others, OtherOpens, OtherCommits, OtherCloses, OtherBacksUp, OtherDies, SessionCommits
<1>2. PartsThere'
  BY <1>1 DEF PartsThere
<1> SUFFICES TypeOK'
  BY <1>2
<1>3. ASSUME NEW left \in {"none", "good"}, SessionCommits(left)
      PROVE  TypeOK'
  BY <1>1, <1>3 DEF SessionCommits, Files, Log, Content, Shown, NoLog
<1>4. CASE OtherOpens
  BY <1>1, <1>4 DEF OtherOpens
<1>5. CASE OtherCommits
  <2>1. file' \in Files /\ last' \in 0..MaxCommit
    BY <1>5 DEF OtherCommits, Files, Log, Content
  <2> QED
    BY <1>1, <1>5, <2>1 DEF OtherCommits
<1>6. CASE OtherCloses
  <2>1. file' \in Files
    BY <1>6, Folded DEF OtherCloses, Files, NoLog, Log, Content
  <2> QED
    BY <1>1, <1>6, <2>1 DEF OtherCloses
<1>7. ASSUME NEW left \in {"good", "torn", "damaged"}, OtherDies(left)
      PROVE  TypeOK'
  <2>1. file' \in Files
    BY <1>7 DEF OtherDies, Files, Log
  <2> QED
    BY <1>1, <1>7, <2>1 DEF OtherDies
<1>8. CASE OtherBacksUp
  <2>1. /\ UNCHANGED <<file, last, opens>> /\ other' = "away"
    BY <1>8 DEF OtherBacksUp
  <2>2. BackupsOK'
    <3>0. PICK name \in Name : \E G :
            backups' = [n \in DOMAIN With(name, [rows |-> Shown(file), log |-> NoLog]) \ G
                          |-> With(name, [rows |-> Shown(file), log |-> NoLog])[n]]
      BY <1>8, OtherAdds
    <3>1. PICK G :
            backups' = [n \in DOMAIN With(name, [rows |-> Shown(file), log |-> NoLog]) \ G
                          |-> With(name, [rows |-> Shown(file), log |-> NoLog])[n]]
      BY <3>0
    <3> DEFINE all == With(name, [rows |-> Shown(file), log |-> NoLog])
    <3>2. all \in [DOMAIN all -> Files] /\ DOMAIN all \subseteq Name
      BY Folded, Added DEF BackupsOK
    <3> HIDE DEF all
    <3> QED
      BY <3>1, <3>2 DEF BackupsOK, all
  <2> QED
    BY <1>1, <2>1, <2>2 DEF BackupsOK
<1> QED
  BY <1>3, <1>4, <1>5, <1>6, <1>7, <1>8 DEF Others

(* Steps that end a backup or a restore.                                   *)
EndsNow ==
    \/ CopyFails \/ SourceGone \/ FoldRefused \/ CompareRefused \/ HeldRefused
    \/ SwapFails \/ RemoveAside \/ Crash

LEMMA EndsBase ==
    ASSUME BaseInv, EndsNow
    PROVE  BaseInv' /\ job' = Idle /\ UNCHANGED <<backups, other, last>>
           /\ (file' = file \/ SwapFails)
<1>1. /\ job' = Idle /\ temp' = NoFile /\ part' = NoFile /\ want' = NoFile
      /\ UNCHANGED <<backups, other, last, ops, opens>>
      /\ file' = file \/ SwapFails
      /\ aside' = aside \/ aside' = NoLog
  BY DEF EndsNow, Ends, Fails, CopyFails, SourceGone, FoldRefused, CompareRefused, HeldRefused,
         SwapFails, RemoveAside, Crash
<1>2. file' \in Files
  BY <1>1, Folded DEF SwapFails, BaseInv, TypeOK, Files
<1>3. NoLog \in Log
  BY BackupAssumption DEF NoLog, Log, Content
<1> QED
  BY <1>1, <1>2, <1>3, Jobs DEF BaseInv, TypeOK, PartsThere, Backing, Restoring

(* Steps of a backup.                                                      *)
LEMMA BacksBase ==
    ASSUME BaseInv, Backs, ~CopyFails
    PROVE  BaseInv'
<1> USE DEF BaseInv, TypeOK, Backing, Restoring
<1>1. ASSUME NEW kind \in Kind, StartBackup(kind)
      PROVE  BaseInv'
  <2>1. job' \in Job /\ job'.at = "name" /\ job'.op \in Kind
    BY <1>1 DEF StartBackup, Idle, Job, Step, Kind
  <2> QED
    BY <1>1, <2>1, BackupAssumption DEF StartBackup, PartsThere, Kind
<1>2. CASE PickName
  <2>1. /\ job' \in Job /\ job.at = "name" /\ job'.at = "copy" /\ job'.op = job.op
        /\ job'.dst \in Name
    BY <1>2 DEF PickName, FreeName, Job, Step
  <2> QED
    BY <1>2, <2>1 DEF PickName, PartsThere
<1>3. CASE CopyFile
  <2>1. job.at = "copy" /\ job' = [job EXCEPT !.at = "logs"] /\ job \in Job /\ "logs" \in Step
    BY <1>3 DEF CopyFile, Step
  <2>2. job' \in Job /\ job'.at = "logs" /\ job'.op = job.op /\ job'.dst = job.dst
    BY <2>1, Went
  <2> QED
    BY <1>3, <2>1, <2>2, Folded DEF CopyFile, PartsThere
<1>4. CASE CopyLogs
  <2>1. /\ job.at = "logs" /\ part \in Files
        /\ UNCHANGED <<file, backups, aside, other, want, last, ops, opens>>
    BY <1>4 DEF CopyLogs, PartsThere
  <2>2. CASE part' \in Files /\ job' = [job EXCEPT !.at = "publish"] /\ UNCHANGED temp
    <3>1. job' \in Job /\ job'.at = "publish" /\ job'.op = job.op /\ job'.dst = job.dst
      <4>1. job \in Job /\ "publish" \in Step
        BY <1>4 DEF Step
      <4> QED
        BY <2>2, <4>1, Went
    <3> QED
      BY <2>1, <2>2, <3>1 DEF PartsThere
  <2>3. CASE Ends
    BY <2>1, <2>3, Jobs DEF Ends, PartsThere
  <2>4. [part EXCEPT !.log = file.log] \in Files
    BY <2>1, Folded
  <2> QED
    BY <1>4, <2>2, <2>3, <2>4, Folded DEF CopyLogs
<1>5. CASE Publish \/ Rename
  <2>1. /\ job.at \in {"publish", "rename"} /\ part \in Files /\ job.dst \in Name
        /\ job' = [job EXCEPT !.at = "rawlogs"] /\ job \in Job /\ "rawlogs" \in Step
        /\ UNCHANGED <<file, temp, part, aside, other, want, last, ops, opens>>
    BY <1>5 DEF Publish, Rename, PartsThere, Step
  <2>2. job' \in Job /\ job'.at = "rawlogs" /\ job'.op = job.op /\ job'.dst = job.dst
    BY <2>1, Went
  <2>3. BackupsOK'
    <3>1. PICK log \in {f.log : f \in Files} : backups' = With(job.dst, [part EXCEPT !.log = log])
      <4>1. CASE Rename /\ job.dst \in DOMAIN backups
        <5>1. backups[job.dst] \in Files
          BY <4>1
        <5> QED
          BY <4>1, <5>1 DEF Rename
      <4>2. NoLog \in {f.log : f \in Files}
        <5>1. [part EXCEPT !.log = NoLog] \in Files /\ [part EXCEPT !.log = NoLog].log = NoLog
          BY <2>1, Folded DEF Files
        <5> QED
          BY <5>1
      <4>3. CASE Publish \/ job.dst \notin DOMAIN backups
        BY <1>5, <4>2, <4>3 DEF Publish, Rename
      <4> QED
        BY <1>5, <4>1, <4>3
    <3>2. [part EXCEPT !.log = log] \in Files /\ BackupsOK
      BY <2>1, Folded DEF BackupsOK
    <3> QED
      BY <2>1, <3>1, <3>2, Added DEF BackupsOK
  <2> QED
    BY <2>1, <2>2, <2>3 DEF PartsThere, BackupsOK
<1>6. CASE NameTaken
  <2>1. /\ job.at = "publish" /\ part \in Files /\ job.dst \in Name
        /\ UNCHANGED <<file, backups, temp, part, aside, other, want, last, ops, opens>>
    BY <1>6 DEF NameTaken, PartsThere
  <2>2. PICK name \in Name : job' = [job EXCEPT !.dst = name]
    BY <1>6 DEF NameTaken
  <2>3. job' \in Job /\ job'.at = "publish" /\ job'.op = job.op /\ job'.dst \in Name
    BY <2>1, <2>2, Jobs
  <2> QED
    BY <2>1, <2>3 DEF PartsThere
<1>7. CASE NoLink
  <2>1. /\ job.at = "publish" /\ part \in Files /\ job.dst \in Name
        /\ job' = [job EXCEPT !.at = "rename"] /\ job \in Job /\ "rename" \in Step
        /\ UNCHANGED <<file, backups, temp, part, aside, other, want, last, ops, opens>>
    BY <1>7 DEF NoLink, PartsThere, Step
  <2>2. job' \in Job /\ job'.at = "rename" /\ job'.op = job.op /\ job'.dst = job.dst
    BY <2>1, Went
  <2> QED
    BY <2>1, <2>2 DEF PartsThere
<1>8. CASE RawLogsFail
  <2>1. job' = Idle /\ part' = NoFile /\ temp' = NoFile /\ want' = NoFile
    BY <1>8 DEF RawLogsFail, Ends
  <2>2. BackupsOK /\ BackupsOK'
    <3>1. BackupsOK /\ backups' \in {Without({job.dst}), backups}
      BY <1>8 DEF RawLogsFail, BackupsOK
    <3>2. /\ DOMAIN Without({job.dst}) \subseteq Name
          /\ Without({job.dst}) \in [DOMAIN Without({job.dst}) -> Files]
      BY <3>1, Deleted DEF BackupsOK
    <3> QED
      BY <3>1, <3>2 DEF BackupsOK
  <2> QED
    BY <1>8, <2>1, <2>2, Jobs DEF RawLogsFail, PartsThere, BackupsOK
<1>9. CASE PublishRawLogs
  <2>1. /\ job' \in Job /\ job.at = "rawlogs" /\ job'.at = "retain" /\ job'.op = job.op
        /\ job'.dst = job.dst
    BY <1>9, Jobs DEF PublishRawLogs, Step
  <2>2. BackupsOK'
    <3>1. BackupsOK /\ job.dst \in Name /\ part \in Files
      BY <2>1 DEF BackupsOK, PartsThere
    <3>2. /\ DOMAIN With(job.dst, part) \subseteq Name
          /\ With(job.dst, part) \in [DOMAIN With(job.dst, part) -> Files]
      BY <3>1, Added
    <3>3. backups' = backups \/ backups' = With(job.dst, part)
      BY <1>9 DEF PublishRawLogs
    <3> QED
      BY <3>1, <3>2, <3>3 DEF BackupsOK
  <2> QED
    BY <1>9, <2>1, <2>2 DEF PublishRawLogs, PartsThere, BackupsOK
<1>10. CASE Retain
  <2>1. job.at = "retain" /\ UNCHANGED <<file, aside, other, want, last, ops, opens>>
    BY <1>10 DEF Retain
  <2>2. BackupsOK'
    <3>1. BackupsOK
      BY DEF BackupsOK
    <3>2. PICK gone : backups' = backups \/ backups' = Without(gone)
      BY <1>10 DEF Retain
    <3>3. DOMAIN Without(gone) = DOMAIN backups \ gone /\ Without(gone) \in [DOMAIN Without(gone) -> Files]
      BY <3>1, Deleted
    <3> QED
      BY <3>1, <3>2, <3>3 DEF BackupsOK
  <2>3. CASE job' = [job EXCEPT !.at = "compare"] /\ job.op = "restore" /\ UNCHANGED <<part, temp>>
    <3>1. job' \in Job /\ job'.at = "compare" /\ job'.op = job.op /\ job'.dst = job.dst
      BY <2>3, Jobs DEF Step
    <3> QED
      BY <2>1, <2>2, <2>3, <3>1 DEF PartsThere, BackupsOK
  <2>4. CASE Ends
    BY <2>1, <2>2, <2>4, Jobs DEF Ends, PartsThere, BackupsOK
  <2> QED
    BY <1>10, <2>3, <2>4 DEF Retain
<1> QED
  BY <1>1, <1>2, <1>3, <1>4, <1>5, <1>6, <1>7, <1>8, <1>9, <1>10 DEF Backs

(* Steps of a restore.                                                     *)
LEMMA RestoresBase ==
    ASSUME BaseInv, Restores, ~EndsNow
    PROVE  BaseInv'
<1> USE DEF BaseInv, TypeOK, Backing, Restoring
<1>1. ASSUME NEW b \in DOMAIN backups, StartRestore(b)
      PROVE  BaseInv'
  <2>1. job' \in Job /\ job'.at = "source" /\ job'.op = "restore"
    BY <1>1 DEF StartRestore, Idle, Job, Step
  <2>2. want' \in Content
    BY <1>1, Folded DEF StartRestore
  <2> QED
    BY <1>1, <2>1, <2>2, BackupAssumption DEF StartRestore, PartsThere
<1>2. CASE CopySource
  <2>1. job' \in Job /\ job.at = "source" /\ job'.at = "fold" /\ job'.op = job.op
    BY <1>2, Jobs DEF CopySource, Step
  <2>2. temp' \in Files
    BY <1>2, Folded DEF CopySource
  <2> QED
    BY <1>2, <2>1, <2>2 DEF CopySource, PartsThere
<1>3. ASSUME NEW readOnly \in BOOLEAN, Fold(readOnly)
      PROVE  BaseInv'
  <2>1. job' \in Job /\ job.at = "fold" /\ job'.at = "stamp" /\ job'.op = job.op
    BY <1>3 DEF Fold, Job, Step, Opens
  <2>2. file' \in Files
    BY <1>3, Folded DEF Fold
  <2> QED
    BY <1>3, <2>1, <2>2 DEF Fold, PartsThere
<1>4. CASE Stamp
  <2>1. job' \in Job /\ job.at = "stamp" /\ job'.at = "name" /\ job'.op = job.op
    BY <1>4 DEF Stamp, HasWAL, Job, Step
  <2> QED
    BY <1>4, <2>1 DEF Stamp, PartsThere
<1>5. CASE Compare \/ CheckHeld
  <2>1. PICK s \in {"held", "aside"} : job' = [job EXCEPT !.at = s]
    BY <1>5 DEF Compare, CheckHeld
  <2>2. s \in Step /\ job \in Job /\ job.at \in {"compare", "held"}
    BY <1>5 DEF Step, Compare, CheckHeld
  <2>3. /\ job' \in Job /\ job'.at \in {"held", "aside"}
        /\ job'.op = job.op /\ job'.dst = job.dst
    BY <2>1, <2>2, Jobs
  <2> QED
    BY <1>5, <2>2, <2>3 DEF Compare, CheckHeld, PartsThere
<1>6. CASE MoveAside
  <2>1. /\ job' \in Job /\ job.at = "aside" /\ job'.at = "swap" /\ job'.op = job.op
        /\ job'.dst = job.dst
    BY <1>6, Jobs DEF MoveAside, Step
  <2>2. aside' \in Log /\ file' \in Files
    BY <1>6, Folded DEF MoveAside, Files
  <2> QED
    BY <1>6, <2>1, <2>2 DEF MoveAside, PartsThere
<1>7. CASE Swap
  <2>1. /\ job' \in Job /\ job.at = "swap" /\ job'.at = "clean" /\ job'.op = job.op
    BY <1>7, Jobs DEF Swap, Step
  <2>2. file' \in Files
    BY <1>7, <2>1 DEF Swap, PartsThere, Files
  <2> QED
    BY <1>7, <2>1, <2>2 DEF Swap, PartsThere
<1> QED
  BY <1>1, <1>2, <1>3, <1>4, <1>5, <1>6, <1>7 DEF Restores, EndsNow

LEMMA BaseKeeps ==
    ASSUME BaseInv, [Next]_vars
    PROVE  BaseInv'
<1>1. CASE UNCHANGED vars
  BY <1>1 DEF vars, BaseInv, TypeOK, PartsThere
<1> QED
  BY <1>1, OthersBase, EndsBase, BacksBase, RestoresBase DEF Next, EndsNow

LEMMA BaseStarts == Init => BaseInv
BY BackupAssumption, Jobs DEF Init, BaseInv, TypeOK, PartsThere, Backing, Restoring, Files, Log,
   Content, NoLog

-----------------------------------------------------------------------------
(* What any step does to the backups.                                      *)

(* A backup is deleted only when it is automatic and pushed out, and not   *)
(* by a restore that reads it, or when its raw logs fail; and only the     *)
(* operation that named one changes it.  Names that were pushed out stay   *)
(* so, unless an operation ends while its raw logs get their names.        *)
Spared ==
    /\ \/ job.at = "rawlogs" /\ job' = Idle
       \/ \A n \in Name : PushedOut(n) => PushedOut(n)'
    /\ \A n \in DOMAIN backups : n \notin DOMAIN backups' =>
         \/ /\ n[1] = "auto" /\ PushedOut(n)'
            /\ job.at = "retain" /\ job' # job => n # job.source
         \/ job.at = "rawlogs" /\ job' = Idle /\ n = job.dst
    /\ \A n \in DOMAIN backups \cap DOMAIN backups' : backups'[n] # backups[n] =>
         /\ n = job.dst /\ job' # job /\ job.at \in {"rename", "rawlogs"}
         /\ job.at = "rawlogs" => backups'[n] = part

LEMMA PushedOutPrimed ==
    \A n : PushedOut(n)' <=> Cardinality(Newer(Autos(DOMAIN backups'), n)) >= MaxAutoBackups
<1> SUFFICES ASSUME NEW n
             PROVE  {m \in DOMAIN backups' : m[1] = "auto" /\ m[2] > n[2]}
                      = Newer(Autos(DOMAIN backups'), n)
  BY DEF PushedOut
<1> QED
  BY DEF Newer, Autos

LEMMA GrowsSpares ==
    ASSUME BaseInv, BaseInv', DOMAIN backups \subseteq DOMAIN backups',
           \A n \in DOMAIN backups : backups'[n] # backups[n] =>
             /\ n = job.dst /\ job' # job /\ job.at \in {"rename", "rawlogs"}
             /\ job.at = "rawlogs" => backups'[n] = part
    PROVE  Spared
<1>1. DOMAIN backups \in SUBSET Name /\ DOMAIN backups' \in SUBSET Name
  BY DEF BaseInv, TypeOK
<1>2. ASSUME NEW n \in Name, PushedOut(n)
      PROVE  PushedOut(n)'
  <2>1. /\ Autos(DOMAIN backups) \subseteq Autos(DOMAIN backups')
        /\ Autos(DOMAIN backups) \in SUBSET Name /\ Autos(DOMAIN backups') \in SUBSET Name
    BY <1>1 DEF Autos
  <2>2. Cardinality(Newer(Autos(DOMAIN backups'), n)) >= MaxAutoBackups
    BY <1>2, <2>1, MoreNewer, PushedOutIs
  <2> QED
    BY <2>2, PushedOutPrimed
<1> QED
  BY <1>2 DEF Spared

LEMMA RetainSpares ==
    ASSUME BaseInv, Retain
    PROVE  Spared
<1>1. DOMAIN backups \in SUBSET Name /\ BackupsOK
  BY DEF BaseInv, TypeOK, BackupsOK
<1>2. CASE UNCHANGED backups
  BY <1>2 DEF Spared, PushedOut
<1>3. ASSUME NEW G \in Removals(Expired(job.source)), backups' = Without(G)
      PROVE  Spared
  <2> DEFINE K == {n \in DOMAIN backups : n[1] = "auto" /\ n # job.source}
             S == Autos(DOMAIN backups)
  <2>1. DOMAIN backups' = DOMAIN backups \ G /\ \A n \in DOMAIN backups' : backups'[n] = backups[n]
    BY <1>3 DEF Without
  <2>2. /\ G \in SUBSET S /\ K \in SUBSET S /\ S \in SUBSET Name /\ job.source \notin G
        /\ \A e \in G : Cardinality(Newer(K, e)) >= MaxAutoBackups
    <3>1. G \subseteq Expired(job.source)
      BY DEF Removals
    <3> QED
      BY <1>1, <3>1 DEF Expired, Autos, Newer
  <2>3. Autos(DOMAIN backups') = S \ G
    BY <2>1 DEF Autos
  <2> HIDE DEF K, S
  <2>4. ASSUME NEW n \in Name, Cardinality(Newer(S, n)) >= MaxAutoBackups
        PROVE  PushedOut(n)'
    BY <2>2, <2>3, <2>4, KeepsNewest, PushedOutPrimed
  <2>5. ASSUME NEW n \in DOMAIN backups, n \notin DOMAIN backups'
        PROVE  n[1] = "auto" /\ n # job.source /\ PushedOut(n)'
    <3>1. n \in G /\ n \in Name /\ n \in S
      BY <1>1, <2>1, <2>2, <2>5
    <3>2. Cardinality(Newer(S, n)) >= MaxAutoBackups
      BY <2>2, <3>1, MoreNewer
    <3> QED
      BY <2>2, <2>4, <3>1, <3>2 DEF S, Autos
  <2>6. \A n \in Name : PushedOut(n) => PushedOut(n)'
    BY <2>4, PushedOutIs DEF S
  <2> QED
    BY <2>1, <2>5, <2>6 DEF Spared
<1> QED
  BY <1>2, <1>3 DEF Retain

LEMMA RemovalsWithin ==
    ASSUME NEW names, NEW gone \in Removals(names)
    PROVE  gone \subseteq names
BY DEF Removals

LEMMA OtherSpares ==
    ASSUME BaseInv, OtherBacksUp
    PROVE  Spared
<1>1. DOMAIN backups \in SUBSET Name /\ BackupsOK
  BY DEF BaseInv, TypeOK, BackupsOK
<1>2. UNCHANGED <<file, job>>
  BY DEF OtherBacksUp
<1> DEFINE new == [rows |-> Shown(file), log |-> NoLog]
           Old(D) == {n \in D : n[1] = "auto" /\ Cardinality({m \in D :
                        m[1] = "auto" /\ m[2] > n[2]}) >= MaxAutoBackups}
<1>3. PICK name \in Name :
        /\ \A s \in Stamps("auto") : name[2] > s
        /\ name[1] = "auto"
        /\ \E gone \in Removals(Old(DOMAIN With(name, new))) :
             backups' = [n \in DOMAIN With(name, new) \ gone |-> With(name, new)[n]]
  BY DEF OtherBacksUp, FreeName
<1>4. PICK G \in Removals(Old(DOMAIN With(name, new))) :
        backups' = [n \in DOMAIN With(name, new) \ G |-> With(name, new)[n]]
  BY <1>3
<1> DEFINE D == DOMAIN backups \cup {name}
           S == Autos(D)
<1>5. name \notin DOMAIN backups
  BY <1>1, <1>3 DEF Stamps, Name
<1>6. G \subseteq Old(D)
  <2>1. DOMAIN With(name, new) = D
    BY DEF With
  <2> HIDE DEF Old, new, D
  <2> QED
    BY <1>4, <2>1, RemovalsWithin
<1>7. /\ DOMAIN backups' = D \ G
      /\ \A n \in DOMAIN backups \cap DOMAIN backups' : backups'[n] = backups[n]
  BY <1>1, <1>4, <1>5 DEF With
<1>8. \A n : {m \in D : m[1] = "auto" /\ m[2] > n[2]} = Newer(S, n)
  BY DEF Newer, Autos
<1>9. /\ G \in SUBSET S /\ S \in SUBSET Name /\ Autos(DOMAIN backups) \in SUBSET S
      /\ \A e \in G : Cardinality(Newer(S, e)) >= MaxAutoBackups
  BY <1>1, <1>8, <1>6 DEF Autos
<1>10. DOMAIN backups \subseteq D /\ Autos(DOMAIN backups') = S \ G
  BY <1>7 DEF Autos
<1> HIDE DEF D, S
<1>11. ASSUME NEW n \in Name, Cardinality(Newer(S, n)) >= MaxAutoBackups
      PROVE  PushedOut(n)'
  BY <1>9, <1>10, <1>11, KeepsNewest, PushedOutPrimed
<1>12. ASSUME NEW n \in Name, PushedOut(n)
       PROVE  PushedOut(n)'
  BY <1>9, <1>11, <1>12, MoreNewer, PushedOutIs
<1>13. ASSUME NEW n \in DOMAIN backups, n \notin DOMAIN backups'
       PROVE  n[1] = "auto" /\ PushedOut(n)'
  <2>1. n \in G /\ n \in Name /\ n \in S
    BY <1>1, <1>7, <1>9, <1>10, <1>13
  <2> QED
    BY <1>9, <1>11, <2>1 DEF S, Autos
<1> QED
  BY <1>2, <1>7, <1>12, <1>13 DEF Spared, OtherBacksUp

LEMMA AllSpare ==
    ASSUME BaseInv, [Next]_vars
    PROVE  Spared
<1>1. CASE UNCHANGED backups
  BY <1>1, BaseKeeps, GrowsSpares
<1>2. CASE Publish
  BY <1>2, BaseKeeps, GrowsSpares DEF Publish, With
<1>3. CASE Rename \/ PublishRawLogs
  <2>1. job' # job
    BY <1>3 DEF Rename, PublishRawLogs, BaseInv, TypeOK, Job
  <2>2. /\ DOMAIN backups \subseteq DOMAIN backups'
        /\ \A n \in DOMAIN backups : backups'[n] # backups[n] => n = job.dst
        /\ PublishRawLogs => \A n \in DOMAIN backups : backups'[n] # backups[n] => backups'[n] = part
        /\ job.at \in {"rename", "rawlogs"} /\ (Rename => job.at = "rename")
    BY <1>3 DEF Rename, PublishRawLogs, With
  <2> QED
    BY <1>3, <2>1, <2>2, BaseKeeps, GrowsSpares
<1>4. CASE RawLogsFail
  <2>1. /\ job.at = "rawlogs" /\ job' = Idle
        /\ backups' = backups \/ backups' = Without({job.dst})
    BY <1>4 DEF RawLogsFail, Ends
  <2>2. /\ DOMAIN backups' \in {DOMAIN backups, DOMAIN backups \ {job.dst}}
        /\ \A n \in DOMAIN backups' : backups'[n] = backups[n]
    BY <2>1 DEF Without
  <2> QED
    BY <2>1, <2>2 DEF Spared
<1> QED
  BY <1>1, <1>2, <1>3, <1>4, RetainSpares, OtherSpares, EndsBase
  DEF Next, Others, Backs, Restores, vars, SessionCommits, OtherOpens, OtherCommits, OtherCloses,
      OtherDies, StartBackup, PickName, CopyFile, CopyLogs, NameTaken, NoLink, StartRestore,
      CopySource, Fold, Stamp, Compare, CheckHeld, MoveAside, Swap, EndsNow

(* The name an operation has given its copy is its own: the copy is there, *)
(* or retention has deleted it and no other backup can get that name.      *)
Named ==
    job.at = "rawlogs" =>
        \/ job.dst \in DOMAIN backups /\ backups[job.dst].rows = part.rows
        \/ job.dst \notin DOMAIN backups /\ PushedOut(job.dst)

NameInv == BaseInv /\ Named

LEMMA ToRawLogs ==
    ASSUME BaseInv, [Next]_vars, job'.at = "rawlogs"
    PROVE  Publish \/ Rename \/ UNCHANGED <<job, part>>
<1> USE DEF BaseInv, TypeOK
<1>1. ~EndsNow /\ ~RawLogsFail /\ job' # Idle
  BY EndsBase, Jobs DEF EndsNow, RawLogsFail, Ends
<1>2. \A s \in Step : job' = [job EXCEPT !.at = s] => s = "rawlogs"
  BY DEF Job
<1>3. /\ ~PickName /\ ~NameTaken /\ ~Stamp
      /\ \A readOnly \in BOOLEAN : ~Fold(readOnly)
  BY DEF PickName, NameTaken, Stamp, Fold, Job
<1>4. /\ \A kind \in Kind : ~StartBackup(kind)
      /\ \A b \in DOMAIN backups : ~StartRestore(b)
      /\ \A left \in {"none", "good"} : ~SessionCommits(left)
  BY Jobs DEF StartBackup, StartRestore, SessionCommits, Idle
<1>5. ~CopyFile /\ ~CopyLogs /\ ~NoLink /\ ~PublishRawLogs /\ ~Retain
  BY <1>1, <1>2 DEF CopyFile, CopyLogs, NoLink, PublishRawLogs, Retain, Ends, Step
<1>6. ~CopySource /\ ~Compare /\ ~CheckHeld /\ ~MoveAside /\ ~Swap
  BY <1>2 DEF CopySource, Compare, CheckHeld, MoveAside, Swap, Step
<1>7. Others => UNCHANGED <<job, part>>
  BY DEF Others, OtherOpens, OtherCommits, OtherCloses, OtherDies, OtherBacksUp
<1> QED
  BY <1>1, <1>3, <1>4, <1>5, <1>6, <1>7 DEF Next, Backs, Restores, EndsNow, vars

LEMMA NoReuse ==
    ASSUME BaseInv, OtherBacksUp, NEW n \in Name, n \notin DOMAIN backups, PushedOut(n)
    PROVE  n \notin DOMAIN backups'
<1>1. PICK name \in Name :
        /\ \A s \in Stamps("auto") : name[2] > s
        /\ name[1] = "auto"
        /\ DOMAIN backups' \subseteq DOMAIN backups \cup {name}
  BY DEF OtherBacksUp, FreeName, With
<1>2. PICK m \in DOMAIN backups : m[1] = "auto" /\ m[2] > n[2]
  <2>1. CASE {m \in DOMAIN backups : m[1] = "auto" /\ m[2] > n[2]} = {}
    BY <2>1, FS_EmptySet, BackupAssumption DEF PushedOut
  <2> QED
    BY <2>1
<1>3. m[2] \in Stamps("auto") /\ m \in Name
  BY <1>2 DEF Stamps, BaseInv, TypeOK
<1> QED
  BY <1>1, <1>2, <1>3 DEF Name

LEMMA NamedKeeps ==
    ASSUME NameInv, [Next]_vars
    PROVE  NameInv'
<1>1. BaseInv' /\ Spared
  BY BaseKeeps, AllSpare DEF NameInv
<1> SUFFICES ASSUME job'.at = "rawlogs"
             PROVE  Named'
  BY <1>1 DEF NameInv, Named
<1> USE DEF NameInv, BaseInv, TypeOK
<1>2. CASE Publish \/ Rename
  <2>1. job'.dst = job.dst /\ part' = part /\ part \in Files
    BY <1>2 DEF Publish, Rename, Job, PartsThere
  <2>2. job.dst \in DOMAIN backups' /\ backups'[job.dst].rows = part.rows
    BY <1>2, <2>1 DEF Publish, Rename, With, Files
  <2> QED
    BY <2>1, <2>2 DEF Named
<1>3. CASE UNCHANGED <<job, part>>
  <2>1. job.dst \in Name
    BY <1>3 DEF PartsThere, Backing
  <2>2. PushedOut(job.dst) => PushedOut(job.dst)'
    BY <1>1, <1>3, <2>1, Jobs DEF Spared
  <2>3. CASE job.dst \in DOMAIN backups
    BY <1>1, <1>3, <2>3, Jobs DEF Spared, Named
  <2>4. CASE job.dst \notin DOMAIN backups
    <3>1. UNCHANGED backups \/ OtherBacksUp
      <4>1. job.at = "rawlogs" /\ job' # Idle
        BY <1>3, Jobs
      <4>2. ~PublishRawLogs /\ ~RawLogsFail
        BY <1>3, <4>1 DEF PublishRawLogs, RawLogsFail, Ends, Job
      <4>3. ~Publish /\ ~Rename /\ ~Retain
        BY <4>1 DEF Publish, Rename, Retain
      <4>4. EndsNow => UNCHANGED backups
        BY EndsBase
      <4>5. Backs => UNCHANGED backups
        BY <4>2, <4>3, <4>4 DEF Backs, EndsNow, StartBackup, PickName, CopyFile, CopyLogs,
           NameTaken, NoLink
      <4>6. Restores => UNCHANGED backups
        BY <4>4 DEF Restores, EndsNow, StartRestore, CopySource, Fold, Stamp, Compare,
           CheckHeld, MoveAside, Swap
      <4>7. Others => UNCHANGED backups \/ OtherBacksUp
        BY DEF Others, OtherOpens, OtherCommits, OtherCloses, OtherDies
      <4> QED
        BY <4>4, <4>5, <4>6, <4>7 DEF Next, SessionCommits, EndsNow, vars
    <3> QED
      BY <1>3, <2>1, <2>2, <2>4, <3>1, NoReuse DEF Named
  <2> QED
    BY <2>3, <2>4
<1> QED
  BY <1>2, <1>3, ToRawLogs

LEMMA NamedStarts == Init => NameInv
BY BaseStarts, Jobs DEF NameInv, Named, Init

-----------------------------------------------------------------------------
(* The files, while the other process leaves the copies and the swap alone *)

Lone == Alone /\ FilesWhole /\ SeenFits

LEMMA OthersLone ==
    ASSUME ~Window, LoneInv, Others \/ \E left \in {"none", "good"} : SessionCommits(left)
    PROVE  Lone'
<1> USE BackupAssumption DEF LoneInv, BaseInv, TypeOK, Lone, Alone, FilesWhole, Whole,
   SeenFits, PartsThere, Backing, Restoring, Became, LastOf, Holds
<1>1. ASSUME NEW left \in {"none", "good"}, SessionCommits(left)
      PROVE  Lone'
  BY <1>1 DEF SessionCommits, HeldElsewhere, MayAct, With, Ends, Fails, Idle, Files, Log,
     Content, Job, Step, NoLog, HasWAL, Opens, Shown, FreeName, KindOfJob, Without
<1>2. CASE OtherOpens
  BY <1>2 DEF OtherOpens, HeldElsewhere, MayAct, With, Ends, Fails, Idle, Files, Log,
     Content, Job, Step, NoLog, HasWAL, Opens, Shown, FreeName, KindOfJob, Without
<1>3. CASE OtherCommits
  <2>1. /\ other = "open" /\ last < MaxCommit /\ last' = last + 1 /\ file \in Files
        /\ UNCHANGED <<backups, temp, part, aside, job, other>>
        /\ job.at \notin {"logs", "held", "aside", "swap"}
    BY <1>3 DEF OtherCommits, MayAct
  <2>2. file' = [rows |-> file.rows, log |-> [kind |-> "good", base |-> file.rows, to |-> last']]
    BY <1>3, <2>1 DEF OtherCommits, Files
  <2>3. Whole(file)' /\ \A f \in Files : Whole(f) => Whole(f)'
    BY <2>1, <2>2 DEF Files, Log
  <2>4. Alone' /\ FilesWhole'
    BY <2>1, <2>3
  <2>5. ASSUME job.seen \in Files, Whole(job.seen)
        PROVE  LastOf(job.seen) < LastOf(file')
    BY <2>1, <2>2, <2>5 DEF HasWAL, Files, Log
  <2>6. SeenFits'
    BY <2>1, <2>2, <2>3, <2>5
  <2> QED
    BY <2>4, <2>6
<1>4. CASE OtherCloses
  BY <1>4 DEF OtherCloses, HeldElsewhere, MayAct, With, Ends, Fails, Idle, Files, Log,
     Content, Job, Step, NoLog, HasWAL, Opens, Shown, FreeName, KindOfJob, Without
<1>5. ASSUME NEW left \in {"good", "torn", "damaged"}, OtherDies(left)
      PROVE  Lone'
  BY <1>5 DEF OtherDies, HeldElsewhere, MayAct, With, Ends, Fails, Idle, Files, Log,
     Content, Job, Step, NoLog, HasWAL, Opens, Shown, FreeName, KindOfJob, Without
<1>6. CASE OtherBacksUp
  <2>1. UNCHANGED <<file, temp, part, aside, job, last>> /\ other' = "away"
    BY <1>6 DEF OtherBacksUp
  <2>2. /\ \A n \in DOMAIN backups' : Whole(backups'[n])
        /\ job.at = "rename" /\ job.dst \in DOMAIN backups' => backups'[job.dst].log = NoLog
    <3>0. PICK name \in Name : \E G :
            backups' = [n \in DOMAIN With(name, [rows |-> Shown(file), log |-> NoLog]) \ G
                          |-> With(name, [rows |-> Shown(file), log |-> NoLog])[n]]
      BY <1>6, OtherAdds
    <3>1. PICK G :
            backups' = [n \in DOMAIN With(name, [rows |-> Shown(file), log |-> NoLog]) \ G
                          |-> With(name, [rows |-> Shown(file), log |-> NoLog])[n]]
      BY <3>0
    <3>2. \A n \in DOMAIN backups' :
            \/ n \in DOMAIN backups /\ backups'[n] = backups[n]
            \/ backups'[n] = [rows |-> Shown(file), log |-> NoLog]
      BY <3>1 DEF With
    <3>3. Whole([rows |-> Shown(file), log |-> NoLog])
      BY DEF Shown, NoLog, Files, Log
    <3> QED
      BY <3>2, <3>3
  <2> QED
    BY <2>1, <2>2
<1> QED
  BY <1>1, <1>2, <1>3, <1>4, <1>5, <1>6 DEF Others, EndsNow

LEMMA BacksLone ==
    ASSUME ~Window, LoneInv, Backs, ~EndsNow
    PROVE  Lone'
<1> USE BackupAssumption DEF LoneInv, BaseInv, TypeOK, Lone, Alone, FilesWhole, Whole,
   SeenFits, PartsThere, Backing, Restoring, Became, LastOf, Holds
<1>1. ASSUME NEW kind \in Kind, StartBackup(kind)
      PROVE  Lone'
  <2>1. /\ job' = [Idle EXCEPT !.op = kind, !.at = "name"]
        /\ UNCHANGED <<file, backups, temp, part, aside, other, last>>
    BY <1>1 DEF StartBackup
  <2>2. job'.at = "name" /\ job'.op \in Kind
    BY <2>1 DEF Idle
  <2> QED
    BY <2>1, <2>2 DEF Kind
<1>2. CASE PickName
  BY <1>2 DEF PickName, HeldElsewhere, MayAct, With, Ends, Fails, Idle, Files, Log,
     Content, Job, Step, NoLog, HasWAL, Opens, Shown, FreeName, KindOfJob, Without
<1>3. CASE CopyFile
  BY <1>3 DEF CopyFile, HeldElsewhere, MayAct, With, Ends, Fails, Idle, Files, Log,
     Content, Job, Step, NoLog, HasWAL, Opens, Shown, FreeName, KindOfJob, Without
<1>4. CASE CopyLogs
  BY <1>4 DEF CopyLogs, HeldElsewhere, MayAct, With, Ends, Fails, Idle, Files, Log,
     Content, Job, Step, NoLog, HasWAL, Opens, Shown, FreeName, KindOfJob, Without
<1>5. CASE Publish
  BY <1>5 DEF Publish, HeldElsewhere, MayAct, With, Ends, Fails, Idle, Files, Log, Content,
     Job, Step, NoLog, HasWAL, Opens, Shown, FreeName, KindOfJob, Without
<1>6. CASE NameTaken
  BY <1>6 DEF NameTaken, HeldElsewhere, MayAct, With, Ends, Fails, Idle, Files, Log, Content,
     Job, Step, NoLog, HasWAL, Opens, Shown, FreeName, KindOfJob, Without
<1>7. CASE NoLink
  BY <1>7 DEF NoLink, HeldElsewhere, MayAct, With, Ends, Fails, Idle, Files, Log, Content,
     Job, Step, NoLog, HasWAL, Opens, Shown, FreeName, KindOfJob, Without
<1>8. CASE Rename
  <2>1. /\ job.at = "rename" /\ job'.at = "rawlogs" /\ job'.op = job.op /\ job'.dst = job.dst
        /\ job'.seen = job.seen /\ job'.raw = job.raw
        /\ UNCHANGED <<file, temp, part, aside, other, last>>
    BY <1>8 DEF Rename, Job
  <2>2. backups' = With(job.dst, [part EXCEPT !.log = NoLog])
    BY <1>8 DEF Rename
  <2>3. Whole([part EXCEPT !.log = NoLog])
    BY <2>1 DEF NoLog, Files
  <2>4. \A n \in DOMAIN backups' : Whole(backups'[n])
    <3>1. \A n \in DOMAIN backups : Whole(backups[n])
      OBVIOUS
    <3>2. DOMAIN backups' = DOMAIN backups \cup {job.dst}
      BY <2>2 DEF With
    <3>3. \A n \in DOMAIN backups' :
            backups'[n] = IF n = job.dst THEN [part EXCEPT !.log = NoLog] ELSE backups[n]
      BY <2>2, <3>2 DEF With
    <3> HIDE DEF Whole
    <3> QED
      BY <2>3, <3>1, <3>2, <3>3
  <2>5. Alone' /\ SeenFits'
    BY <2>1
  <2>6. FilesWhole'
    BY <2>1, <2>4
  <2> QED
    BY <2>5, <2>6
<1>9. CASE RawLogsFail
  <2>1. /\ job'.at = "idle" /\ job'.op = "none" /\ UNCHANGED <<file, other, last>>
    BY <1>9, Jobs DEF RawLogsFail, Ends
  <2>2. \A n \in DOMAIN backups' : n \in DOMAIN backups /\ backups'[n] = backups[n]
    BY <1>9 DEF RawLogsFail, Without
  <2> QED
    BY <2>1, <2>2
<1>10. CASE PublishRawLogs
  BY <1>10 DEF PublishRawLogs, HeldElsewhere, MayAct, With, Ends, Fails, Idle, Files, Log,
     Content, Job, Step, NoLog, HasWAL, Opens, Shown, FreeName, KindOfJob, Without
<1>11. CASE Retain
  <2>1. job.at = "retain" /\ UNCHANGED <<file, aside, other, last>>
    BY <1>11 DEF Retain
  <2>2. \A n \in DOMAIN backups' : n \in DOMAIN backups /\ backups'[n] = backups[n]
    <3>1. PICK gone : backups' = backups \/ backups' = Without(gone)
      BY <1>11 DEF Retain
    <3>2. /\ DOMAIN Without(gone) = DOMAIN backups \ gone
          /\ \A n \in DOMAIN backups \ gone : Without(gone)[n] = backups[n]
      BY DEF Without
    <3> QED
      BY <3>1, <3>2
  <2>3. \/ /\ job'.at = "compare" /\ job'.op = job.op /\ job'.seen = job.seen
           /\ job'.raw = job.raw /\ UNCHANGED <<part, temp>>
        \/ job'.at = "idle" /\ job'.op = "none"
    BY <1>11, Jobs DEF Retain, Ends, Job
  <2> QED
    BY <2>1, <2>2, <2>3
<1> QED
  BY <1>1, <1>2, <1>3, <1>4, <1>5, <1>6, <1>7, <1>8, <1>9, <1>10, <1>11 DEF Backs, EndsNow

LEMMA RestoresLone ==
    ASSUME ~Window, LoneInv, Restores, ~EndsNow
    PROVE  Lone'
<1> USE BackupAssumption DEF LoneInv, BaseInv, TypeOK, Lone, Alone, FilesWhole, Whole,
   SeenFits, PartsThere, Backing, Restoring, Became, LastOf, Holds
<1>1. ASSUME NEW b \in DOMAIN backups, StartRestore(b)
      PROVE  Lone'
  BY <1>1 DEF StartRestore, HeldElsewhere, MayAct, With, Ends, Fails, Idle, Files, Log,
     Content, Job, Step, NoLog, HasWAL, Opens, Shown
<1>2. CASE CopySource
  BY <1>2 DEF CopySource, HeldElsewhere, MayAct, With, Ends, Fails, Idle, Files, Log,
     Content, Job, Step, NoLog, HasWAL, Opens, Shown
<1>3. ASSUME NEW readOnly \in BOOLEAN, Fold(readOnly)
      PROVE  Lone'
  BY <1>3 DEF Fold, HeldElsewhere, MayAct, With, Ends, Fails, Idle, Files, Log, Content,
     Job, Step, NoLog, HasWAL, Opens, Shown
<1>4. CASE Stamp
  <2>1. /\ job.at = "stamp" /\ job'.at = "name" /\ job'.op = job.op /\ job'.seen = file
        /\ job'.raw = (job.raw \/ HasWAL(file))
        /\ UNCHANGED <<file, backups, temp, part, aside, other, last>>
    BY <1>4 DEF Stamp, Job
  <2> QED
    BY <2>1
<1>5. CASE Compare
  BY <1>5 DEF Compare, HeldElsewhere, MayAct, With, Ends, Fails, Idle, Files, Log, Content,
     Job, Step, NoLog, HasWAL, Opens, Shown
<1>6. CASE CheckHeld
  BY <1>6 DEF CheckHeld, HeldElsewhere, MayAct, With, Ends, Fails, Idle, Files, Log,
     Content, Job, Step, NoLog, HasWAL, Opens, Shown
<1>7. CASE MoveAside
  <2>1. /\ job' \in Job /\ job.at = "aside" /\ job'.at = "swap" /\ job'.op = job.op
        /\ job'.seen = job.seen
        /\ UNCHANGED <<backups, temp, part, other, last>>
    BY <1>7 DEF MoveAside, Job, Step
  <2>2. file = job.seen /\ job.op = "restore"
    BY <2>1
  <2>3. aside' = file.log /\ file' = [rows |-> file.rows, log |-> NoLog]
    BY <1>7 DEF MoveAside, Files
  <2>4. [file' EXCEPT !.log = aside'] = file
    BY <2>3 DEF Files
  <2>5. Whole(file)' /\ \A f : Whole(f) => Whole(f)'
    BY <2>1, <2>3 DEF NoLog
  <2> QED
    BY <2>1, <2>2, <2>3, <2>4, <2>5
<1>8. CASE Swap
  BY <1>8 DEF Swap, HeldElsewhere, MayAct, With, Ends, Fails, Idle, Files, Log, Content,
     Job, Step, NoLog, HasWAL, Opens, Shown
<1> QED
  BY <1>1, <1>2, <1>3, <1>4, <1>5, <1>6, <1>7, <1>8 DEF Restores, EndsNow

LEMMA EndsLone ==
    ASSUME ~Window, LoneInv, EndsNow
    PROVE  Lone'
<1>1. /\ job'.at = "idle" /\ job'.op = "none" /\ UNCHANGED <<backups, other, last>>
      /\ file' = file \/ SwapFails
  BY EndsBase, Jobs DEF LoneInv
<1>2. Whole(file)' /\ \A f : Whole(f) => Whole(f)'
  <2>1. CASE file' = file
    BY <1>1, <2>1 DEF LoneInv, FilesWhole, Whole
  <2>2. CASE SwapFails
    <3>1. job.at = "swap" /\ file' = [file EXCEPT !.log = IF aside = NoLog THEN file.log ELSE aside]
      BY <2>2 DEF SwapFails
    <3>2. file'.rows = file.rows /\ file'.log \in {file.log, aside}
      BY <3>1 DEF LoneInv, BaseInv, TypeOK, Files
    <3> QED
      BY <1>1, <3>1, <3>2 DEF LoneInv, FilesWhole, Whole
  <2> QED
    BY <1>1, <2>1, <2>2
<1> QED
  BY <1>1, <1>2 DEF LoneInv, Lone, Alone, FilesWhole, SeenFits, Backing, Restoring

(* A file that became another never becomes what it was.                   *)
LEMMA NoReturn ==
    ASSUME NEW f \in Files, NEW g \in Files, f.rows \in Nat, g.rows \in Nat,
           Became(f, g), Became(g, f)
    PROVE  f = g
<1>1. LastOf(f) \in Nat /\ LastOf(g) \in Nat
  BY DEF LastOf, HasWAL, Files, Log
<1> QED
  BY <1>1 DEF Became

LEMMA OtherBecomes ==
    ASSUME ~Window, LoneInv, Others
    PROVE  Became(file, file')
<1> USE BackupAssumption DEF LoneInv, BaseInv, TypeOK, Alone, FilesWhole, Whole, Became, LastOf
<1>1. CASE OtherOpens \/ OtherBacksUp
  BY <1>1 DEF OtherOpens, OtherBacksUp
<1>2. CASE OtherCommits
  BY <1>2 DEF OtherCommits, Files, Log, HasWAL
<1>3. CASE OtherCloses
  BY <1>3 DEF OtherCloses, Files, Log, HasWAL, Shown, NoLog
<1>4. ASSUME NEW left \in {"good", "torn", "damaged"}, OtherDies(left)
      PROVE  Became(file, file')
  BY <1>4 DEF OtherDies, Files, Log, HasWAL
<1> QED
  BY <1>1, <1>2, <1>3, <1>4 DEF Others

Late == {"rawlogs", "retain", "compare", "held", "aside", "swap"}

LEMMA LateSteps ==
    ASSUME BaseInv, [Next]_vars, job'.at \in Late, job'.op = "restore"
    PROVE  \/ UNCHANGED job /\ (Others \/ UNCHANGED vars)
           \/ Publish \/ Rename \/ PublishRawLogs \/ Retain \/ Compare \/ CheckHeld \/ MoveAside
<1> USE DEF BaseInv, TypeOK, Late
<1>1. ~EndsNow /\ ~CopyFails /\ ~RawLogsFail
  BY EndsBase, Jobs DEF EndsNow, RawLogsFail, Ends
<1>2. ~PickName /\ ~NameTaken /\ ~NoLink
  BY DEF PickName, NameTaken, NoLink, Job
<1>3. ~CopyFile /\ ~CopySource /\ ~Swap
  <2>1. job' = [job EXCEPT !.at = "logs"] => job'.at = "logs"
    BY DEF Job
  <2>2. job' = [job EXCEPT !.at = "fold"] => job'.at = "fold"
    BY DEF Job
  <2>3. job' = [job EXCEPT !.at = "clean"] => job'.at = "clean"
    BY DEF Job
  <2> QED
    BY <2>1, <2>2, <2>3 DEF CopyFile, CopySource, Swap
<1>4. ~CopyLogs
  <2>1. job' # Idle
    BY Jobs
  <2>2. job' = [job EXCEPT !.at = "publish"] => job'.at = "publish"
    BY DEF Job
  <2> QED
    BY <2>1, <2>2 DEF CopyLogs, Ends
<1>5. ~Stamp
  BY DEF Stamp, Job
<1>6. \A kind \in Kind : ~StartBackup(kind)
  BY DEF StartBackup, Idle
<1>7. \A b \in DOMAIN backups : ~StartRestore(b)
  BY DEF StartRestore, Idle
<1>8. \A readOnly \in BOOLEAN : ~Fold(readOnly)
  BY DEF Fold, Job
<1>9. \A left \in {"none", "good"} : ~SessionCommits(left)
  BY Jobs DEF SessionCommits
<1>10. Others => UNCHANGED job
  BY DEF Others, OtherOpens, OtherCommits, OtherCloses, OtherDies, OtherBacksUp
<1> QED
  BY <1>1, <1>2, <1>3, <1>4, <1>5, <1>6, <1>7, <1>8, <1>9, <1>10
  DEF Next, Backs, Restores, EndsNow, vars

(* The safety backup of a restore.                                         *)
LEMMA SavedKeeps ==
    ASSUME ~Window, LoneInv, [Next]_vars
    PROVE  Saved'
<1>1. Spared /\ BaseInv'
  BY AllSpare, BaseKeeps DEF LoneInv
<1> SUFFICES ASSUME job'.at \in Late, job'.op = "restore"
             PROVE  Saved'
  BY DEF Saved, Late
<1> USE DEF LoneInv, BaseInv, TypeOK
<1>2. CASE Publish \/ Rename
  <2>1. job'.at = "rawlogs" /\ job'.dst = job.dst
    BY <1>2 DEF Publish, Rename, Job
  <2>2. job.dst \in DOMAIN backups'
    BY <1>2 DEF Publish, Rename, With
  <2> QED
    BY <2>1, <2>2 DEF Saved
<1>3. CASE PublishRawLogs
  <2>1. /\ job.at = "rawlogs" /\ job.dst \in Name /\ job'.at = "retain" /\ job'.op = job.op
        /\ job'.dst = job.dst /\ job'.seen = job.seen /\ file' = file
        /\ backups' = IF job.dst \in DOMAIN backups THEN With(job.dst, part) ELSE backups
    BY <1>3 DEF PublishRawLogs, Job, PartsThere, Backing
  <2>2. CASE job.dst \in DOMAIN backups
    <3>1. job.dst \in DOMAIN backups' /\ backups'[job.dst] = part
      BY <2>1, <2>2 DEF With
    <3> QED
      BY <2>1, <3>1 DEF Saved, SeenFits
  <2>3. CASE job.dst \notin DOMAIN backups
    BY <1>1, <2>1, <2>3, Jobs DEF Saved, Spared
  <2> QED
    BY <2>2, <2>3
<1>4. CASE Retain \/ Compare \/ CheckHeld \/ MoveAside
  <2>1. /\ job.at \in {"retain", "compare", "held", "aside"} /\ job.op = "restore"
        /\ job'.at \in {"compare", "held", "aside", "swap"}
        /\ job'.dst = job.dst /\ job'.seen = job.seen
    BY <1>4, Jobs DEF Retain, Compare, CheckHeld, MoveAside, Ends, Job, Late
  <2>2. job.dst \in Name
    BY <2>1 DEF PartsThere, Backing
  <2>3. \/ job.dst \in DOMAIN backups' /\ backups'[job.dst] = backups[job.dst]
        \/ PushedOut(job.dst)'
    BY <1>1, <2>1, <2>2 DEF Saved, Spared
  <2>4. PushedOut(job.dst) => PushedOut(job.dst)'
    BY <1>1, <2>1, <2>2 DEF Spared
  <2>5. \/ job.at \in {"retain", "compare"} /\ file = job.seen
        \/ job.at \in {"held", "aside"}
        \/ job.at = "retain" /\ file' # job.seen /\ job'.at = "compare"
    BY <1>4, <2>1, Jobs DEF Retain, Compare, CheckHeld, MoveAside, Ends, Job
  <2> QED
    BY <2>1, <2>3, <2>4, <2>5 DEF Saved
<1>5. CASE UNCHANGED job /\ Others
  <2>1. job.dst \in Name
    BY <1>5 DEF PartsThere, Backing, Late
  <2>2. PushedOut(job.dst) => PushedOut(job.dst)'
    BY <1>1, <1>5, <2>1, Jobs DEF Spared, Late
  <2>3. \/ job.dst \in DOMAIN backups' /\ backups'[job.dst] = backups[job.dst]
        \/ PushedOut(job.dst)'
    BY <1>1, <1>5, <2>1, Jobs DEF Saved, Spared, Late
  <2>4. ASSUME job.at \in {"retain", "compare"}, file' = job.seen
        PROVE  file = job.seen
    <3>1. Became(job.seen, file) /\ Whole(job.seen) /\ job.seen \in Files
      BY <1>5, <2>4 DEF SeenFits, Backing
    <3>2. Became(file, job.seen)
      BY <1>5, <2>4, OtherBecomes
    <3> QED
      BY <3>1, <3>2, NoReturn, BackupAssumption DEF Whole, FilesWhole
  <2> QED
    BY <1>5, <2>2, <2>3, <2>4 DEF Saved
<1>6. CASE UNCHANGED vars
  BY <1>6 DEF vars, Saved, PushedOut
<1> QED
  BY <1>2, <1>3, <1>4, <1>5, <1>6, LateSteps

-----------------------------------------------------------------------------
LEMMA LoneStarts == Init => LoneInv
<1> SUFFICES ASSUME Init
             PROVE  LoneInv
  OBVIOUS
<1>1. BaseInv
  BY BaseStarts
<1>2. /\ file = [rows |-> 0, log |-> NoLog] /\ DOMAIN backups = {} /\ other = "away"
      /\ last = 0 /\ job.at = "idle" /\ job.op = "none"
  BY Jobs DEF Init
<1> QED
  BY <1>1, <1>2 DEF LoneInv, Alone, FilesWhole, Whole, SeenFits, Saved, NoLog, Backing,
     Restoring

LEMMA LoneKeeps ==
    ASSUME ~Window, LoneInv, [Next]_vars
    PROVE  LoneInv'
<1>1. BaseInv' /\ Saved'
  BY BaseKeeps, SavedKeeps DEF LoneInv
<1>2. Lone'
  <2>1. CASE UNCHANGED vars
    BY <2>1 DEF vars, LoneInv, Lone, Alone, FilesWhole, Whole, SeenFits
  <2> QED
    BY <2>1, OthersLone, EndsLone, BacksLone, RestoresLone DEF Next, EndsNow
<1> QED
  BY <1>1, <1>2 DEF LoneInv, Lone

LEMMA WholeShown ==
    ASSUME NEW f \in Files, Whole(f), last \in 0..MaxCommit
    PROVE  Shown(f) # Mixed
BY BackupAssumption DEF Whole, Shown, Files, Log

LEMMA StaysLone == ~Window => (Spec => []LoneInv)
<1> SUFFICES ASSUME ~Window
             PROVE  Spec => []LoneInv
  OBVIOUS
<1> QED
  BY LoneStarts, LoneKeeps, PTL DEF Spec

(* The files, the logs and the operation stay within their types, also     *)
(* while the other process acts between any two steps of a copy or swap.   *)
THEOREM TypeCorrect == Spec => []TypeOK
<1>1. BaseInv => TypeOK
  BY DEF BaseInv
<1> QED
  BY <1>1, BaseStarts, BaseKeeps, PTL DEF Spec

(* enforceRetention, in this process and in the other one, deletes only    *)
(* automatic backups that enough newer ones outlive, and never the source  *)
(* of the restore under way; copyDatabase deletes again only the copy it   *)
(* has itself just named, which no other process can have replaced; and    *)
(* only the rename of a file system without hard links writes over a name: *)
(* at any limit and clock, whatever the other process does in between.     *)
THEOREM RetentionIsSafe == Spec => RetentionSpares
<1>1. ASSUME NameInv, [Next]_vars
      PROVE  [\A n \in DOMAIN backups :
                /\ n \notin DOMAIN backups' =>
                     \/ /\ n[1] = "auto" /\ PushedOut(n)'
                        /\ job.at = "retain" /\ job' # job => n # job.source
                     \/ /\ job.at = "rawlogs" /\ job' = Idle /\ n = job.dst
                        /\ backups[n].rows = part.rows
                /\ n \in DOMAIN backups' /\ backups'[n] # backups[n] =>
                     /\ n = job.dst /\ job' # job /\ job.at \in {"rename", "rawlogs"}
                     /\ job.at = "rawlogs" => backups'[n].rows = backups[n].rows]_vars
  BY <1>1, AllSpare DEF Spared, NameInv, Named
<1> QED
  BY <1>1, NamedStarts, NamedKeeps, PTL DEF Spec, RetentionSpares

(* No log of another file lies beside the database at any step, so that    *)
(* an open after a kill there replays none.                                *)
THEOREM NeverMixed == ~Window => (Spec => []DatabaseWhole)
<1>1. LoneInv => DatabaseWhole
  BY WholeShown DEF LoneInv, BaseInv, TypeOK, FilesWhole, DatabaseWhole
<1> QED
  BY <1>1, StaysLone, PTL

(* What has the name of a backup is a whole database.                      *)
THEOREM BackupsAreWhole == ~Window => (Spec => []BackupsWhole)
<1>1. LoneInv => BackupsWhole
  BY WholeShown DEF LoneInv, BaseInv, TypeOK, FilesWhole, BackupsWhole
<1> QED
  BY <1>1, StaysLone, PTL

(* When a restored file takes the place of the database, what that held,   *)
(* its logs included, is in a backup, or retention of other processes has  *)
(* deleted it since.                                                       *)
THEOREM OldIsKept == ~Window => (Spec => SwapKeepsOld)
<1> SUFFICES ASSUME ~Window
             PROVE  Spec => SwapKeepsOld
  OBVIOUS
<1>1. ASSUME LoneInv, job.at = "swap"
      PROVE  \/ \E n \in DOMAIN backups : Holds(backups[n], [file EXCEPT !.log = aside])
             \/ PushedOut(job.dst)
  BY <1>1 DEF LoneInv, BaseInv, PartsThere, Restoring, Saved, SeenFits
<1>2. LoneInv /\ [Next]_vars =>
        [job.at = "swap" /\ job'.at = "clean"
           => \/ \E n \in DOMAIN backups : Holds(backups[n], [file EXCEPT !.log = aside])
              \/ PushedOut(job.dst)]_vars
  BY <1>1
<1> QED
  BY <1>2, StaysLone, PTL DEF Spec, SwapKeepsOld
=============================================================================
