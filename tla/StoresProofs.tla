------------------------------ MODULE StoresProofs ------------------------------
(***************************************************************************)
(* Proofs about the components that keep records, for every number of      *)
(* files, versions, URLs, keys, processes, votes, loads, visitors,         *)
(* documents, pages and lenses.                                            *)
(* Each component has an inductive invariant of its own, in a section of   *)
(* its own:                                                                *)
(*                                                                         *)
(*   StorageInv   a file fits the version that the step of the job gives   *)
(*                it, and a backup the version it was made at.             *)
(*   RepoInv      memory and file have their documents in the same         *)
(*                places, and what differs was a failure.                  *)
(*   LimiterInv   a bucket counts all that its window granted, and what    *)
(*                it forgot is a window old.                               *)
(*   FeedbackInv  a vote has no more votes behind it in the store than     *)
(*                came after it.                                           *)
(*   OfflineInv   the cache of the active worker is the first one.         *)
(*   LauncherInv  a visit is open only while the storage is.               *)
(*   IndexInv     the dictionary is the inverse of the documents, unless   *)
(*                it was damaged.                                          *)
(*   LinksInv     edges, maps and degrees agree, and a rank falls along    *)
(*                every redirect.                                          *)
(*   LensInv      a draft from here has one rule for a pattern, so the     *)
(*                rule accepted last is the only one of its pattern.       *)
(*                                                                         *)
(* The last section puts them together, as MCStores does.                  *)
(***************************************************************************)
EXTENDS MCStores, ListLemmas

(***************************************************************************)
(* Backups, restores and migrations.  A content fits a version when it has *)
(* had every migration up to it and no later one, but for one more of each *)
(* for everything that leaves the files half way or without their record:  *)
(* a process that died, a failure without a backup, a restore or the write *)
(* of a record that threw.                                                 *)
(***************************************************************************)
Contents == Content \cup {Corrupt}
Tree     == [File -> Contents]
JobPc    == {"idle", "sum", "copy", "manifest", "next", "up", "verify", "restore", "record"}
Copying  == {"sum", "copy"}
Backing  == {"sum", "copy", "manifest"}
Saved    == schema.version - 1
Losing   == {"died", "failedWithoutBackup", "restoreThrew", "unrecorded"}
Lost     == past["died"] + past["failedWithoutBackup"] + past["restoreThrew"] + past["unrecorded"]
OwnBackup == job.kind \in {"backup", "migrate"} /\ job.snap # 0

JobRecord(n) ==
  [kind : Kinds, pc : JobPc, at : 1..NumFiles + 1, from : Version, version : Version,
   target : Version, snap : 0..n, before : Tree]
RecordOf(n) == [version : Version, snap : 0..n]

PcFits(kind, pc) ==
  /\ kind = "none" <=> pc = "idle"
  /\ kind = "backup" => pc \in Backing
  /\ kind = "restore" => pc \in {"verify", "restore"}
  /\ kind = "rollback" => pc \in {"verify", "restore", "record"}

MaintenanceTyped ==
  /\ file \in Tree /\ loaded \in [File -> Content] \cup {Closed} /\ past \in [Mishaps -> Nat]
  /\ DOMAIN schema = {"version", "applied"} /\ schema.version \in Version
  /\ snapshot \in Seq(Snapshot)

JobTyped ==
  /\ job \in JobRecord(Len(snapshot)) /\ PcFits(job.kind, job.pc)
  /\ job.pc \in Copying \cup {"restore"} => job.at <= NumFiles
  /\ job.kind \in {"backup", "restore", "rollback"} \/ job.pc \in Backing \cup {"verify", "restore"} =>
       job.snap # 0
  /\ job.kind # "none" => job.from = schema.version
  /\ job.kind = "migrate" =>
       /\ job.from <= job.version /\ job.version <= job.target
       /\ job.pc \in Backing => job.version = job.from
       /\ job.pc = "up" => job.from < job.version
       /\ job.pc = "record" => job.version = job.target
  /\ job.kind = "rollback" => job.target < job.from

\* there is one record for each version above the first
RecordsInOrder ==
  /\ schema.applied \in Seq(RecordOf(Len(snapshot)))
  /\ Len(schema.applied) = Saved
  /\ \A i \in 1..Saved : schema.applied[i].version = i + 1

\* a backup that is being made is of no record yet
BackupIsNew ==
  OwnBackup => job.snap \in 1..Len(snapshot) /\ \A i \in 1..Saved : schema.applied[i].snap < job.snap

\* what the backup under way has copied is what the files were and are
CopiesAreRight ==
  OwnBackup /\ past["overlap"] = 0 =>
    /\ job.pc \in Backing => file = job.before
    /\ \A f \in File : job.pc \in Copying /\ f < job.at =>
         snapshot[job.snap].files[f] = job.before[f] /\ snapshot[job.snap].sums[f] = job.before[f]
    /\ job.pc = "copy" => snapshot[job.snap].sums[job.at] = job.before[job.at]
    /\ job.pc \notin Copying => snapshot[job.snap].files = job.before /\ snapshot[job.snap].sums = job.before
    /\ job.pc \notin Backing => snapshot[job.snap].manifest
    /\ job.pc = "restore" => \A f \in File : f < job.at => file[f] = job.before[f]

RestoresVerified == job.pc = "restore" => Verifiable(snapshot[job.snap])

NothingCorrupt ==
  past["damage"] = 0 => /\ Intact
                        /\ \A s \in DOMAIN snapshot, f \in File : snapshot[s].sums[f] # Corrupt

MemoryFits ==
  past["overlap"] = 0 =>
    /\ job.kind \in {"migrate", "rollback"} => loaded = Closed
    /\ loaded # Closed /\ past["error"] = 0 /\ past["damage"] = 0 /\ past["restoreThrew"] = 0 /\ ~(job.kind = "restore" /\ job.pc = "restore")
         => loaded = file

AtVersion(c, n, k) ==
  \A v \in Version : /\ c.applied[v] <= (IF v <= n THEN 1 ELSE 0) + k
                     /\ k = 0 => c.applied[v] >= IF v <= n THEN 1 ELSE 0
Tidy == past["overlap"] = 0 /\ \A m \in {"damage", "restoredByHand", "skippedBatch"} : past[m] = 0

\* the version the files of a job have
VersionOf(f) ==
  IF job.kind = "migrate" THEN IF job.pc = "up" /\ f >= job.at THEN job.version - 1 ELSE job.version
  ELSE IF job.kind = "rollback" /\ (job.pc = "record" \/ (job.pc = "restore" /\ f < job.at))
       THEN job.target ELSE schema.version

FilesFit ==
  Tidy =>
    /\ job.kind # "restore"
    /\ loaded # Closed => \A f \in File : AtVersion(loaded[f], schema.version, Lost)
    /\ \A f \in File, v \in Version : file[f].applied[v] <= 1 + Lost
    /\ job.kind # "none" => job.before \in [File -> Content] /\ \A f \in File : AtVersion(job.before[f], job.from, Lost)
    /\ ~(job.kind = "migrate" /\ job.pc \in {"verify", "restore"}) =>
         \A f \in File : AtVersion(file[f], VersionOf(f), Lost)

FirstOf(i) == schema.applied[i].snap # 0 /\ \A j \in 1..Saved : j < i => schema.applied[j].snap # schema.applied[i].snap

BatchesFit ==
  Tidy =>
    /\ \A i \in 1..Saved : FirstOf(i) =>
         \A f \in File : AtVersion(snapshot[schema.applied[i].snap].sums[f], i, Lost)
    /\ job.kind = "rollback" =>
         /\ \A i \in 1..Saved : i >= job.target <=> schema.applied[i].snap = job.snap
         /\ \A f \in File : AtVersion(snapshot[job.snap].sums[f], job.target, Lost)

StorageInv ==
  /\ MaintenanceTyped /\ JobTyped /\ RecordsInOrder /\ BackupIsNew /\ CopiesAreRight
  /\ RestoresVerified /\ NothingCorrupt /\ MemoryFits /\ FilesFit /\ BatchesFit

IsJob(j, kind, pc, at, from, version, target, snap, before) ==
  /\ j.kind = kind /\ j.pc = pc /\ j.at = at /\ j.from = from /\ j.version = version
  /\ j.target = target /\ j.snap = snap /\ j.before = before

(* What goes wrong is counted, and the counts only grow. *)
Worse == past' \in [Mishaps -> Nat] /\ \A m \in Mishaps : past'[m] >= past[m]

LEMMA PastGrows ==
  ASSUME past \in [Mishaps -> Nat], NEW ms, AllHappen(ms)
  PROVE  Worse /\ \A m \in Mishaps : past'[m] = IF m \in ms THEN past[m] + 1 ELSE past[m]
<1>1. past' = [m \in Mishaps |-> IF m \in ms THEN past[m] + 1 ELSE past[m]]
  BY DEF AllHappen
<1> QED BY <1>1 DEF Worse

LEMMA LaterTidy ==
  ASSUME past \in [Mishaps -> Nat], Worse
  PROVE  /\ Tidy' => Tidy
         /\ Lost \in Nat /\ Lost' \in Nat /\ Lost <= Lost'
         /\ past'["overlap"] = 0 => past["overlap"] = 0
         /\ past'["damage"] = 0 => past["damage"] = 0
         /\ past'["error"] = 0 => past["error"] = 0
         /\ past'["restoreThrew"] = 0 => past["restoreThrew"] = 0
         /\ Tidy => past["overlap"] = 0 /\ past["damage"] = 0 /\ past["restoredByHand"] = 0
<1>1. \A m \in Mishaps : past[m] \in Nat /\ past'[m] \in Nat /\ past'[m] >= past[m]
  BY DEF Worse
<1>2. {"overlap", "damage", "restoredByHand", "skippedBatch", "died", "error", "failedWithoutBackup",
       "restoreThrew", "unrecorded"} \subseteq Mishaps
  BY DEF Mishaps
<1> QED BY <1>1, <1>2 DEF Tidy, Lost

LEMMA LaterTidyStays ==
  ASSUME past' = past
  PROVE  Tidy' = Tidy /\ Lost' = Lost
  BY DEF Tidy, Lost

LEMMA FitsStays ==
  ASSUME NEW c \in Content, NEW n, NEW k \in Nat, NEW m \in Nat, k <= m, AtVersion(c, n, k)
  PROVE  AtVersion(c, n, m)
<1>1. \A v \in Version : c.applied[v] \in Nat
  BY DEF Content
<1> QED BY <1>1 DEF AtVersion

(* One more death or failure explains any one migration too many or too few. *)
LEMMA FitsAny ==
  ASSUME NEW c \in Content, NEW n, NEW k \in Nat, NEW m \in Nat, k < m,
         \A v \in Version : c.applied[v] <= 1 + k
  PROVE  AtVersion(c, n, m)
<1>1. \A v \in Version : c.applied[v] \in Nat
  BY DEF Content
<1> QED BY <1>1 DEF AtVersion

LEMMA FitsAt ==
  ASSUME NEW c, NEW n, NEW k, AtVersion(c, n, k), NEW v \in Version
  PROVE  /\ c.applied[v] <= (IF v <= n THEN 1 ELSE 0) + k
         /\ k = 0 => c.applied[v] >= IF v <= n THEN 1 ELSE 0
<1> QED BY DEF AtVersion

LEMMA FitsBounds ==
  ASSUME NEW c \in Content, NEW n, NEW k \in Nat, AtVersion(c, n, k)
  PROVE  \A v \in Version : c.applied[v] <= 1 + k
<1> TAKE v \in Version
<1>1. c.applied[v] \in Nat
  BY DEF Content
<1>2. c.applied[v] <= (IF v <= n THEN 1 ELSE 0) + k
  BY FitsAt
<1>3. (IF v <= n THEN 1 ELSE 0) \in {0, 1}
  OBVIOUS
<1> QED BY <1>1, <1>2, <1>3

(* The records. *)
LEMMA FreshContent ==
  /\ Fresh \in Content /\ Fresh # Corrupt /\ Content \subseteq Contents
  /\ \A c \in Contents : c # Corrupt => c \in Content
  /\ File # {} /\ 1 \in File /\ 1 \in Version /\ AtVersion(Fresh, 1, 0)
  /\ \A v \in Version : v \in Int /\ 1 <= v
  /\ \A f \in File : f \in Int /\ 1 <= f /\ f <= NumFiles /\ f \in 1..NumFiles + 1
<1>1. 1 \in Version /\ 1 \in File /\ \A v \in Version : v \in Int /\ 1 <= v
  BY StorageAssumption DEF Version, File
<1>2. Fresh \in Content /\ \A v \in Version : Fresh.applied[v] = IF v = 1 THEN 1 ELSE 0
  BY DEF Fresh, Content
<1>3. AtVersion(Fresh, 1, 0)
  BY <1>1, <1>2 DEF AtVersion
<1>4. \A f \in File : f \in Int /\ 1 <= f /\ f <= NumFiles /\ f \in 1..NumFiles + 1
  BY StorageAssumption DEF File
<1>5. Corrupt \notin Content
  BY StorageAssumption
<1> QED BY <1>1, <1>2, <1>3, <1>4, <1>5 DEF Contents

LEMMA JobFields ==
  ASSUME NEW n \in Nat, NEW j \in JobRecord(n), NEW p \in JobPc, NEW r, r = [j EXCEPT !.pc = p]
  PROVE  /\ r \in JobRecord(n)
         /\ IsJob(r, j.kind, p, j.at, j.from, j.version, j.target, j.snap, j.before)
<1>1. r \in JobRecord(n)
  BY DEF JobRecord
<1>2. IsJob(r, j.kind, p, j.at, j.from, j.version, j.target, j.snap, j.before)
  BY DEF JobRecord, IsJob
<1> QED BY <1>1, <1>2

LEMMA JobAtFields ==
  ASSUME NEW n \in Nat, NEW j \in JobRecord(n), NEW a \in 1..NumFiles + 1, NEW r, r = [j EXCEPT !.at = a]
  PROVE  /\ r \in JobRecord(n)
         /\ IsJob(r, j.kind, j.pc, a, j.from, j.version, j.target, j.snap, j.before)
<1>1. r \in JobRecord(n)
  BY DEF JobRecord
<1>2. IsJob(r, j.kind, j.pc, a, j.from, j.version, j.target, j.snap, j.before)
  BY DEF JobRecord, IsJob
<1> QED BY <1>1, <1>2

LEMMA JobPcAtFields ==
  ASSUME NEW n \in Nat, NEW j \in JobRecord(n), NEW p \in JobPc, NEW a \in 1..NumFiles + 1,
         NEW r, r = [j EXCEPT !.pc = p, !.at = a]
  PROVE  /\ r \in JobRecord(n)
         /\ IsJob(r, j.kind, p, a, j.from, j.version, j.target, j.snap, j.before)
<1>1. r \in JobRecord(n)
  BY DEF JobRecord
<1>2. IsJob(r, j.kind, p, a, j.from, j.version, j.target, j.snap, j.before)
  BY DEF JobRecord, IsJob
<1> QED BY <1>1, <1>2

LEMMA JobVersionFields ==
  ASSUME NEW n \in Nat, NEW j \in JobRecord(n), NEW p \in JobPc, NEW v \in Version,
         NEW r, r = [j EXCEPT !.pc = p, !.version = v, !.at = 1]
  PROVE  /\ r \in JobRecord(n)
         /\ IsJob(r, j.kind, p, 1, j.from, v, j.target, j.snap, j.before)
<1>1. 1 \in 1..NumFiles + 1
  BY StorageAssumption
<1>2. r \in JobRecord(n)
  BY <1>1 DEF JobRecord
<1>3. IsJob(r, j.kind, p, 1, j.from, v, j.target, j.snap, j.before)
  BY DEF JobRecord, IsJob
<1> QED BY <1>2, <1>3

LEMMA NoJobIs ==
  /\ \A n \in Nat : NoJob \in JobRecord(n)
  /\ IsJob(NoJob, "none", "idle", 1, 1, 1, 1, 0, [f \in File |-> Fresh])
<1>1. IsJob(NoJob, "none", "idle", 1, 1, 1, 1, 0, [f \in File |-> Fresh])
  BY DEF NoJob, IsJob
<1>2. /\ 1 \in 1..NumFiles + 1 /\ \A n \in Nat : 0 \in 0..n
      /\ [f \in File |-> Fresh] \in Tree /\ "none" \in Kinds /\ "idle" \in JobPc
  BY FreshContent, StorageAssumption DEF Tree, Kinds, JobPc
<1>3. \A n \in Nat : NoJob \in JobRecord(n)
  BY <1>2, FreshContent DEF NoJob, JobRecord
<1> QED BY <1>1, <1>3

LEMMA BeginsIs ==
  ASSUME NEW kind, NEW pc, NEW target, NEW snap, Begins(kind, pc, target, snap)
  PROVE  /\ job.kind = "none"
         /\ IsJob(job', kind, pc, 1, schema.version, schema.version, target, snap, file)
         /\ \A n \in Nat : /\ kind \in Kinds /\ pc \in JobPc /\ target \in Version
                           /\ schema.version \in Version /\ snap \in 0..n /\ file \in Tree
                           => job' \in JobRecord(n)
<1> DEFINE r == [NoJob EXCEPT !.kind = kind, !.pc = pc, !.from = schema.version,
               !.version = schema.version, !.target = target, !.snap = snap, !.before = file]
<1>1. job' = r /\ job.kind = "none"
  BY DEF Begins, Idle
<1>2. IsJob(r, kind, pc, 1, schema.version, schema.version, target, snap, file)
  BY DEF NoJob, IsJob
<1>3. 1 \in 1..NumFiles + 1
  BY StorageAssumption
<1>4. \A n \in Nat : /\ kind \in Kinds /\ pc \in JobPc /\ target \in Version
                     /\ schema.version \in Version /\ snap \in 0..n /\ file \in Tree
                     => r \in JobRecord(n)
  BY <1>3 DEF NoJob, JobRecord
<1> HIDE DEF r
<1> QED BY <1>1, <1>2, <1>4

(* What a state that satisfies the invariant has. *)
LEMMA StorageFacts ==
  ASSUME StorageInv
  PROVE  /\ NumFiles \in Nat \ {0} /\ past \in [Mishaps -> Nat]
         /\ file \in Tree /\ \A f \in File : file[f] \in Contents
         /\ schema.version \in Version /\ schema.version \in Int /\ 1 <= schema.version
         /\ snapshot \in Seq(Snapshot) /\ Len(snapshot) \in Nat /\ DOMAIN snapshot = 1..Len(snapshot)
         /\ job \in JobRecord(Len(snapshot))
         /\ job.kind \in Kinds /\ job.pc \in JobPc /\ PcFits(job.kind, job.pc) /\ job.at \in 1..NumFiles + 1
         /\ job.snap \in 0..Len(snapshot) /\ job.before \in Tree
         /\ {job.from, job.version, job.target} \subseteq Version
         /\ Saved \in Nat
<1>1. StorageAssumption
  BY StorageAssumption DEF StorageAssumption
<1>2. job \in JobRecord(Len(snapshot))
  BY DEF StorageInv, JobTyped, JobRecord
<1> QED BY StorageAssumption, <1>2, FreshContent DEF StorageInv, MaintenanceTyped, JobTyped, Tree, JobRecord, Saved

LEMMA SnapshotFacts ==
  ASSUME StorageInv
  PROVE  /\ \A s \in DOMAIN snapshot :
              /\ snapshot[s] \in Snapshot /\ snapshot[s].files \in Tree /\ snapshot[s].sums \in Tree
              /\ \A f \in File : snapshot[s].sums[f] \in Contents /\ snapshot[s].files[f] \in Contents
         /\ \A i \in 1..Saved : schema.applied[i].snap \in 0..Len(snapshot) /\ schema.applied[i].version = i + 1
         /\ DOMAIN schema.applied = 1..Saved
<1>1. snapshot \in Seq(Snapshot) /\ schema.applied \in Seq(RecordOf(Len(snapshot)))
  BY DEF StorageInv, MaintenanceTyped, RecordsInOrder
<1>2. \A s \in DOMAIN snapshot : snapshot[s] \in Snapshot
  BY <1>1
<1>3. \A s \in DOMAIN snapshot : snapshot[s].files \in Tree /\ snapshot[s].sums \in Tree
  BY <1>2 DEF Snapshot, Tree, Contents
<1>4. \A s \in DOMAIN snapshot :
        \A f \in File : snapshot[s].sums[f] \in Contents /\ snapshot[s].files[f] \in Contents
  BY <1>3 DEF Tree
<1>5. Len(schema.applied) = Saved /\ \A i \in 1..Saved : schema.applied[i].version = i + 1
  BY DEF StorageInv, RecordsInOrder
<1>6. \A i \in 1..Saved : schema.applied[i] \in RecordOf(Len(snapshot))
  <2> DEFINE A == RecordOf(Len(snapshot))
  <2>1. schema.applied \in Seq(A)
    BY <1>1
  <2> HIDE DEF A
  <2>2. \A i \in 1..Len(schema.applied) : schema.applied[i] \in A
    BY <2>1
  <2> QED BY <1>5, <2>2 DEF A
<1>7. \A i \in 1..Saved : schema.applied[i].snap \in 0..Len(snapshot)
  BY <1>6 DEF RecordOf
<1>8. DOMAIN schema.applied = 1..Saved
  BY <1>1, <1>5
<1> QED BY <1>2, <1>3, <1>4, <1>5, <1>7, <1>8

LEMMA ContentsFacts ==
  ASSUME StorageInv, past["damage"] = 0
  PROVE  /\ file \in [File -> Content]
         /\ \A s \in DOMAIN snapshot : \A f \in File : snapshot[s].sums[f] \in Content
<1>1. Intact /\ \A s \in DOMAIN snapshot, f \in File : snapshot[s].sums[f] # Corrupt
  BY DEF StorageInv, NothingCorrupt
<1>2. file \in [File -> Content]
  BY <1>1, FreshContent DEF StorageInv, MaintenanceTyped, Tree, Intact
<1>3. \A s \in DOMAIN snapshot : \A f \in File : snapshot[s].sums[f] \in Contents
  BY SnapshotFacts
<1> QED BY <1>1, <1>2, <1>3, FreshContent

(* The facts about what has been applied stay when more goes wrong. *)
LEMMA FilesLater ==
  ASSUME StorageInv, Worse, Tidy'
  PROVE  /\ Tidy /\ past["overlap"] = 0 /\ past["damage"] = 0 /\ job.kind # "restore"
         /\ loaded # Closed => \A f \in File : AtVersion(loaded[f], schema.version, Lost')
         /\ \A f \in File, v \in Version : file[f].applied[v] <= 1 + Lost'
         /\ job.kind # "none" =>
              job.before \in [File -> Content] /\ \A f \in File : AtVersion(job.before[f], job.from, Lost')
         /\ ~(job.kind = "migrate" /\ job.pc \in {"verify", "restore"}) =>
              \A f \in File : AtVersion(file[f], VersionOf(f), Lost')
         /\ file \in [File -> Content]
         /\ Lost \in Nat /\ Lost' \in Nat /\ Lost <= Lost'
<1>1. Tidy /\ Lost \in Nat /\ Lost' \in Nat /\ Lost <= Lost' /\ past["overlap"] = 0 /\ past["damage"] = 0
  BY LaterTidy, StorageFacts
<1>2. file \in [File -> Content]
  BY <1>1, ContentsFacts
<1>3. FilesFit
  BY DEF StorageInv
<1>4. ASSUME loaded # Closed PROVE \A f \in File : AtVersion(loaded[f], schema.version, Lost')
  <2>1. loaded \in [File -> Content] /\ \A f \in File : AtVersion(loaded[f], schema.version, Lost)
    BY <1>1, <1>3, <1>4 DEF FilesFit, StorageInv, MaintenanceTyped
  <2> QED BY <1>1, <2>1, FitsStays
<1>5. \A f \in File, v \in Version : file[f].applied[v] <= 1 + Lost'
  <2>1. \A f \in File, v \in Version : file[f].applied[v] <= 1 + Lost /\ file[f].applied[v] \in Nat
    BY <1>1, <1>2, <1>3 DEF FilesFit, Content
  <2> QED BY <1>1, <2>1
<1>6. ASSUME job.kind # "none"
      PROVE  job.before \in [File -> Content] /\ \A f \in File : AtVersion(job.before[f], job.from, Lost')
  <2>1. job.before \in [File -> Content] /\ \A f \in File : AtVersion(job.before[f], job.from, Lost)
    BY <1>1, <1>3, <1>6 DEF FilesFit
  <2> QED BY <1>1, <2>1, FitsStays
<1>7. ASSUME ~(job.kind = "migrate" /\ job.pc \in {"verify", "restore"})
      PROVE  \A f \in File : AtVersion(file[f], VersionOf(f), Lost')
  <2>1. \A f \in File : AtVersion(file[f], VersionOf(f), Lost)
    BY <1>1, <1>3, <1>7 DEF FilesFit
  <2> QED BY <1>1, <1>2, <2>1, FitsStays
<1> QED BY <1>1, <1>2, <1>3, <1>4, <1>5, <1>6, <1>7 DEF FilesFit

LEMMA RecordsStay ==
  ASSUME StorageInv, schema' = schema, Len(snapshot') \in Nat, Len(snapshot') >= Len(snapshot)
  PROVE  RecordsInOrder'
<1>1. Len(snapshot) \in Nat
  BY StorageFacts
<1>2. \A r \in RecordOf(Len(snapshot)) : r \in RecordOf(Len(snapshot'))
  BY <1>1 DEF RecordOf
<1>3. schema.applied \in Seq(RecordOf(Len(snapshot)))
  BY DEF StorageInv, RecordsInOrder
<1>4. schema.applied \in Seq(RecordOf(Len(snapshot')))
  <2> DEFINE A == RecordOf(Len(snapshot))
             B == RecordOf(Len(snapshot'))
  <2>1. (\A r \in A : r \in B) /\ schema.applied \in Seq(A)
    BY <1>2, <1>3
  <2> HIDE DEF A, B
  <2>2. schema.applied \in Seq(B)
    BY <2>1
  <2> QED BY <2>2 DEF B
<1> QED BY <1>4 DEF StorageInv, RecordsInOrder, Saved

(* The snapshots the records name hold what they held. *)
LEMMA BatchesStay ==
  ASSUME StorageInv, Worse, schema' = schema,
         \A i \in 1..Saved : schema.applied[i].snap # 0 =>
           snapshot'[schema.applied[i].snap].sums = snapshot[schema.applied[i].snap].sums,
         job'.kind = "rollback" =>
           /\ job.kind = "rollback" /\ job'.target = job.target /\ job'.snap = job.snap
           /\ snapshot'[job.snap].sums = snapshot[job.snap].sums
  PROVE  BatchesFit'
<1> SUFFICES ASSUME Tidy' PROVE BatchesFit'
  BY DEF BatchesFit
<1>1. /\ Tidy /\ past["damage"] = 0
      /\ Lost \in Nat /\ Lost' \in Nat /\ Lost <= Lost' /\ Saved' = Saved
  BY FilesLater DEF Saved
<1>2. /\ \A s \in DOMAIN snapshot : \A f \in File : snapshot[s].sums[f] \in Content
      /\ DOMAIN snapshot = 1..Len(snapshot) /\ Len(snapshot) \in Nat
  BY <1>1, ContentsFacts, StorageFacts
<1>3. \A i \in 1..Saved : schema.applied[i].snap \in 0..Len(snapshot)
  BY SnapshotFacts
<1>4. ASSUME NEW i \in 1..Saved, FirstOf(i)
      PROVE  \A f \in File : AtVersion(snapshot'[schema.applied[i].snap].sums[f], i, Lost')
  <2> DEFINE s == schema.applied[i].snap
  <2>1. s \in DOMAIN snapshot /\ s # 0
    BY <1>2, <1>3, <1>4 DEF FirstOf
  <2>2. \A f \in File : AtVersion(snapshot[s].sums[f], i, Lost)
    BY <1>1, <1>4 DEF StorageInv, BatchesFit
  <2>3. \A f \in File : AtVersion(snapshot[s].sums[f], i, Lost')
    BY <1>1, <1>2, <2>1, <2>2, FitsStays
  <2>4. snapshot'[s].sums = snapshot[s].sums
    BY <2>1
  <2> QED BY <2>3, <2>4
<1>5. ASSUME job'.kind = "rollback"
      PROVE  /\ \A i \in 1..Saved : i >= job'.target <=> schema.applied[i].snap = job'.snap
             /\ \A f \in File : AtVersion(snapshot'[job'.snap].sums[f], job'.target, Lost')
  <2>1. /\ job.kind = "rollback" /\ job'.target = job.target /\ job'.snap = job.snap
        /\ snapshot'[job.snap].sums = snapshot[job.snap].sums
    BY <1>5
  <2>2. /\ \A i \in 1..Saved : i >= job.target <=> schema.applied[i].snap = job.snap
        /\ \A f \in File : AtVersion(snapshot[job.snap].sums[f], job.target, Lost)
    BY <1>1, <2>1 DEF StorageInv, BatchesFit
  <2>3. job.snap \in DOMAIN snapshot
    BY <1>2, <2>1, StorageFacts DEF StorageInv, JobTyped
  <2>4. \A f \in File : AtVersion(snapshot[job.snap].sums[f], job.target, Lost')
    BY <1>1, <1>2, <2>2, <2>3, FitsStays
  <2> QED BY <2>1, <2>2, <2>4
<1>6. \A i \in 1..Saved : FirstOf(i)' <=> FirstOf(i)
  BY <1>1 DEF FirstOf
<1> QED BY <1>1, <1>4, <1>5, <1>6 DEF BatchesFit

(* When only the job and the counts change. *)
LEMMA OnlyJobChanges ==
  ASSUME StorageInv, Worse, UNCHANGED <<file, schema, snapshot>>, loaded' \in [File -> Content] \cup {Closed}
  PROVE  /\ MaintenanceTyped' /\ RecordsInOrder' /\ NothingCorrupt'
         /\ \/ job'.kind # "rollback"
            \/ job.kind = "rollback" /\ job'.target = job.target /\ job'.snap = job.snap
            => BatchesFit'
<1>1. MaintenanceTyped' /\ Len(snapshot) \in Nat /\ past \in [Mishaps -> Nat]
  BY StorageFacts DEF StorageInv, MaintenanceTyped, Worse
<1>2. RecordsInOrder'
  BY <1>1, RecordsStay
<1>3. NothingCorrupt'
  <2>1. past'["damage"] = 0 => past["damage"] = 0
    BY <1>1, LaterTidy
  <2> QED BY <2>1 DEF StorageInv, NothingCorrupt, Intact
<1>4. ASSUME \/ job'.kind # "rollback"
             \/ job.kind = "rollback" /\ job'.target = job.target /\ job'.snap = job.snap
      PROVE  BatchesFit'
  BY <1>4, BatchesStay
<1> QED BY <1>1, <1>2, <1>3, <1>4

LEMMA NoJobParts ==
  ASSUME job' = NoJob, Len(snapshot') \in Nat
  PROVE  JobTyped' /\ BackupIsNew' /\ CopiesAreRight' /\ RestoresVerified'
<1>1. NoJob \in JobRecord(Len(snapshot')) /\ NoJob.kind = "none" /\ NoJob.pc = "idle"
  BY NoJobIs DEF IsJob
<1>2. JobTyped'
  BY <1>1 DEF JobTyped, PcFits, Copying, Backing
<1> QED BY <1>1, <1>2 DEF BackupIsNew, CopiesAreRight, RestoresVerified, OwnBackup

LEMMA JobStays ==
  ASSUME StorageInv, Worse, UNCHANGED <<file, schema, snapshot, job>>
  PROVE  JobTyped' /\ BackupIsNew' /\ CopiesAreRight' /\ RestoresVerified'
<1>1. past'["overlap"] = 0 => past["overlap"] = 0
  BY LaterTidy, StorageFacts
<1>2. JobTyped' /\ BackupIsNew' /\ RestoresVerified'
  BY DEF StorageInv, JobTyped, BackupIsNew, RestoresVerified, OwnBackup, Verifiable, Saved
<1>3. CopiesAreRight'
  BY <1>1 DEF StorageInv, CopiesAreRight, OwnBackup
<1> QED BY <1>2, <1>3

LEMMA ReadIs ==
  ASSUME NEW t \in Tree
  PROVE  /\ Read(t) \in [File -> Content]
         /\ (\A f \in File : t[f] # Corrupt) => Read(t) = t
<1>1. \A f \in File : t[f] \in Contents /\ (t[f] # Corrupt => t[f] \in Content)
  BY FreshContent DEF Tree
<1>2. Read(t) \in [File -> Content]
  BY <1>1, FreshContent DEF Read
<1>3. ASSUME \A f \in File : t[f] # Corrupt PROVE Read(t) = t
  <2>1. t = [f \in File |-> t[f]]
    BY DEF Tree
  <2> QED BY <1>3, <2>1 DEF Read
<1> QED BY <1>2, <1>3

LEMMA OpenAdapterStep ==
  ASSUME StorageInv, OpenAdapter
  PROVE  StorageInv'
<1>1. /\ loaded = Closed /\ loaded' = Read(file)
      /\ UNCHANGED <<file, schema, snapshot, job>>
      /\ AllHappen(IF Idle THEN {} ELSE {"overlap"})
  BY DEF OpenAdapter
<1>2. Worse /\ (past'["overlap"] = 0 => job.kind = "none")
  <2>1. past \in [Mishaps -> Nat] /\ "overlap" \in Mishaps
    BY StorageFacts DEF Mishaps
  <2>2. Worse /\ (~Idle => past'["overlap"] = past["overlap"] + 1)
    BY <1>1, <2>1, PastGrows
  <2> QED BY <2>1, <2>2 DEF Idle
<1>3. loaded' \in [File -> Content] /\ (Intact => loaded' = file)
  BY <1>1, ReadIs, StorageFacts DEF Intact
<1>4. MaintenanceTyped' /\ RecordsInOrder' /\ NothingCorrupt' /\ BatchesFit'
  BY <1>1, <1>2, <1>3, OnlyJobChanges
<1>5. JobTyped' /\ BackupIsNew' /\ CopiesAreRight' /\ RestoresVerified'
  BY <1>1, <1>2, JobStays
<1>6. MemoryFits'
  <2>1. past'["damage"] = 0 => Intact
    BY <1>2, LaterTidy, StorageFacts DEF StorageInv, NothingCorrupt
  <2> QED BY <1>1, <1>2, <1>3, <2>1 DEF MemoryFits
<1>7. FilesFit'
  <2> SUFFICES ASSUME Tidy' PROVE FilesFit'
    BY DEF FilesFit
  <2>1. past'["overlap"] = 0
    BY DEF Tidy
  <2>2. job.kind = "none" /\ Intact
    BY <1>2, <2>1, FilesLater DEF StorageInv, NothingCorrupt
  <2>3. \A f \in File : AtVersion(file[f], schema.version, Lost')
    BY <1>2, <2>2, FilesLater DEF VersionOf
  <2>4. \A f \in File, v \in Version : file[f].applied[v] <= 1 + Lost'
    BY <1>2, FilesLater
  <2> QED BY <1>1, <1>3, <2>2, <2>3, <2>4 DEF FilesFit, VersionOf
<1> QED BY <1>4, <1>5, <1>6, <1>7 DEF StorageInv

LEMMA CloseAdapterStep ==
  ASSUME StorageInv, CloseAdapter
  PROVE  StorageInv'
<1>1. loaded' = Closed /\ UNCHANGED <<file, schema, snapshot, job, past>>
  BY DEF CloseAdapter
<1>2. Worse
  <2>1. past \in [Mishaps -> Nat]
    BY StorageFacts
  <2> QED BY <1>1, <2>1 DEF Worse
<1>3. MaintenanceTyped' /\ RecordsInOrder' /\ NothingCorrupt' /\ BatchesFit'
  BY <1>1, <1>2, OnlyJobChanges
<1>4. JobTyped' /\ BackupIsNew' /\ CopiesAreRight' /\ RestoresVerified'
  BY <1>1, <1>2, JobStays
<1>5. MemoryFits'
  BY <1>1 DEF StorageInv, MemoryFits
<1>6. FilesFit'
  <2>1. Tidy' = Tidy /\ Lost' = Lost
    BY <1>1, LaterTidyStays
  <2> QED BY <1>1, <2>1 DEF StorageInv, FilesFit, VersionOf
<1> QED BY <1>3, <1>4, <1>5, <1>6 DEF StorageInv

LEMMA SameFits ==
  ASSUME NEW c, NEW d, c.applied = d.applied, NEW n, NEW k, AtVersion(c, n, k)
  PROVE  AtVersion(d, n, k)
  BY DEF AtVersion

LEMMA ChangeStep ==
  ASSUME StorageInv, NEW f \in File, Change(f)
  PROVE  StorageInv'
<1> DEFINE c == [loaded[f] EXCEPT !.change = @ + 1]
<1>1. /\ loaded # Closed /\ job.kind \notin {"backup", "restore"}
      /\ loaded' = [loaded EXCEPT ![f] = c]
      /\ (file' = [file EXCEPT ![f] = loaded'[f]] /\ past' = past) \/ (Happens("error") /\ file' = file)
      /\ UNCHANGED <<schema, snapshot, job>>
  BY DEF Change, Responsive
<1>2. loaded \in [File -> Content] /\ file \in Tree /\ past \in [Mishaps -> Nat] /\ {"overlap", "error"} \subseteq Mishaps
  BY <1>1, StorageFacts DEF StorageInv, MaintenanceTyped, Mishaps
<1>3. c \in Content /\ c.applied = loaded[f].applied /\ c # Corrupt
  <2>1. loaded[f] \in Content
    BY <1>2
  <2>2. c \in Content /\ c.applied = loaded[f].applied
    BY <2>1 DEF Content
  <2> QED BY <2>2, StorageAssumption
<1> HIDE DEF c
<1>4. /\ loaded' \in [File -> Content] /\ loaded'[f] = c /\ \A g \in File : g # f => loaded'[g] = loaded[g]
      /\ \A g \in File : loaded'[g].applied = loaded[g].applied
  BY <1>1, <1>2, <1>3
<1>5. /\ file' \in Tree
      /\ \A g \in File : file'[g] = file[g] \/ (g = f /\ file'[g] = c)
  BY <1>1, <1>2, <1>3, <1>4, FreshContent DEF Tree
<1>6. Worse /\ (past'["error"] = 0 => file' = [file EXCEPT ![f] = c])
  <2>1. CASE file' = [file EXCEPT ![f] = loaded'[f]] /\ past' = past
    BY <1>2, <1>4, <2>1 DEF Worse
  <2>2. CASE Happens("error") /\ file' = file
    <3>1. Worse /\ past'["error"] = past["error"] + 1
      BY <1>2, <2>2, PastGrows DEF Happens
    <3> QED BY <1>2, <3>1
  <2> QED BY <1>1, <2>1, <2>2
<1>7. past'["overlap"] = 0 => job.kind = "none" /\ past["overlap"] = 0
  <2>1. past'["overlap"] = 0 => past["overlap"] = 0
    BY <1>2, <1>6, LaterTidy
  <2>2. job.kind \in {"none", "migrate", "rollback"}
    BY <1>1, StorageFacts DEF Kinds
  <2> QED BY <1>1, <2>1, <2>2 DEF StorageInv, MemoryFits
<1>8. MaintenanceTyped'
  BY <1>1, <1>4, <1>5, <1>6 DEF StorageInv, MaintenanceTyped, Worse
<1>9. JobTyped' /\ BackupIsNew' /\ RestoresVerified'
  BY <1>1 DEF StorageInv, JobTyped, BackupIsNew, RestoresVerified, OwnBackup, Verifiable, Saved
<1>10. RecordsInOrder' /\ BatchesFit'
  <2>1. Len(snapshot) \in Nat
    BY StorageFacts
  <2> QED BY <1>1, <1>6, <2>1, RecordsStay, BatchesStay
<1>11. CopiesAreRight'
  BY <1>1, <1>7 DEF CopiesAreRight, OwnBackup
<1>12. NothingCorrupt'
  <2>1. past'["damage"] = 0 => past["damage"] = 0
    BY <1>2, <1>6, LaterTidy
  <2> QED BY <1>1, <1>3, <1>5, <2>1 DEF StorageInv, NothingCorrupt, Intact
<1>13. MemoryFits'
  <2> SUFFICES ASSUME past'["overlap"] = 0, past'["error"] = 0, past'["damage"] = 0,
                      past'["restoreThrew"] = 0
               PROVE  loaded' = file'
    BY <1>1, <1>7 DEF MemoryFits
  <2>1. /\ past["overlap"] = 0 /\ past["error"] = 0 /\ past["damage"] = 0
        /\ past["restoreThrew"] = 0 /\ job.kind = "none"
    BY <1>2, <1>6, <1>7, LaterTidy
  <2>2. loaded = file
    BY <1>1, <2>1 DEF StorageInv, MemoryFits
  <2> QED BY <1>1, <1>6, <2>2
<1>14. FilesFit'
  <2> SUFFICES ASSUME Tidy' PROVE FilesFit'
    BY DEF FilesFit
  <2>1. past'["overlap"] = 0
    BY DEF Tidy
  <2>2. job.kind = "none"
    BY <1>7, <2>1
  <2>3. \A g \in File : AtVersion(file[g], schema.version, Lost')
    BY <1>6, <2>2, FilesLater DEF VersionOf
  <2>4. \A g \in File : AtVersion(loaded'[g], schema.version, Lost')
    <3>1. \A g \in File : AtVersion(loaded[g], schema.version, Lost')
      BY <1>1, <1>6, FilesLater
    <3> QED BY <1>4, <3>1, SameFits
  <2>5. \A g \in File : AtVersion(file'[g], schema.version, Lost') /\ file'[g] \in Content
    <3>1. file \in [File -> Content]
      BY <1>6, FilesLater
    <3> QED BY <1>3, <1>4, <1>5, <2>3, <2>4, <3>1
  <2>6. \A g \in File, v \in Version : file'[g].applied[v] <= 1 + Lost'
    <3>1. Lost' \in Nat
      BY <1>6, FilesLater
    <3> QED BY <2>5, <3>1, FitsBounds
  <2> QED BY <1>1, <2>2, <2>4, <2>5, <2>6 DEF FilesFit, VersionOf
<1> QED BY <1>8, <1>9, <1>10, <1>11, <1>12, <1>13, <1>14 DEF StorageInv

LEMMA SamePast ==
  ASSUME StorageInv, past' = past
  PROVE  Worse /\ Tidy' = Tidy /\ Lost' = Lost
<1>1. past \in [Mishaps -> Nat]
  BY StorageFacts
<1> QED BY <1>1, LaterTidyStays DEF Worse

LEMMA OneHappens ==
  ASSUME StorageInv, NEW m \in Mishaps, Happens(m)
  PROVE  /\ Worse /\ past'[m] # 0
         /\ m \in Losing => Lost < Lost'
<1>1. /\ past \in [Mishaps -> Nat] /\ Worse
      /\ \A x \in Mishaps : past'[x] = IF x \in {m} THEN past[x] + 1 ELSE past[x]
  BY StorageFacts, PastGrows DEF Happens
<1>2. Losing \subseteq Mishaps
  BY DEF Losing, Mishaps
<1>3. \A x \in Losing : past[x] \in Nat /\ past'[x] \in Nat /\ past'[x] >= past[x]
  BY <1>1, <1>2 DEF Worse
<1>4. m \in Losing => past'[m] > past[m]
  BY <1>1, <1>2
<1> QED BY <1>1, <1>3, <1>4 DEF Lost, Losing

(* When a job ends and leaves the files as they are. *)
LEMMA FilesFitWithoutJob ==
  ASSUME StorageInv, Worse, job' = NoJob, UNCHANGED <<file, schema>>, loaded' \in {loaded, Closed},
         Tidy' => \A f \in File : AtVersion(file[f], schema.version, Lost')
  PROVE  FilesFit'
<1> SUFFICES ASSUME Tidy' PROVE FilesFit'
  BY DEF FilesFit
<1>1. job'.kind = "none"
  BY NoJobIs DEF IsJob
<1>2. \A f \in File, v \in Version : file[f].applied[v] <= 1 + Lost'
  BY FilesLater
<1>3. loaded # Closed => \A f \in File : AtVersion(loaded[f], schema.version, Lost')
  BY FilesLater
<1> QED BY <1>1, <1>2, <1>3 DEF FilesFit, VersionOf

(* When a job begins. *)
LEMMA FilesFitAtBegin ==
  ASSUME StorageInv, Worse, job.kind = "none", UNCHANGED <<file, loaded, schema>>,
         NEW target, NEW snap, NEW kind \in {"backup", "migrate", "rollback"},
         NEW pc \in {"sum", "next", "verify"}, kind = "migrate" => pc # "verify",
         IsJob(job', kind, pc, 1, schema.version, schema.version, target, snap, file)
  PROVE  FilesFit'
<1> SUFFICES ASSUME Tidy' PROVE FilesFit'
  BY DEF FilesFit
<1>1. /\ job'.kind = kind /\ job'.pc = pc /\ job'.from = schema.version /\ job'.version = schema.version
      /\ job'.before = file
  BY DEF IsJob
<1>2. /\ loaded # Closed => \A f \in File : AtVersion(loaded[f], schema.version, Lost')
      /\ \A f \in File, v \in Version : file[f].applied[v] <= 1 + Lost'
      /\ file \in [File -> Content]
  BY FilesLater
<1>3. \A f \in File : AtVersion(file[f], schema.version, Lost')
  BY FilesLater DEF VersionOf
<1>4. \A f \in File : VersionOf(f)' = schema.version
  BY <1>1 DEF VersionOf
<1> QED BY <1>1, <1>2, <1>3, <1>4 DEF FilesFit

LEMMA BackupThrowsStep ==
  ASSUME StorageInv, BackupThrows
  PROVE  StorageInv'
<1>1. /\ job.pc \in {"sum", "copy", "manifest"} /\ Happens("error") /\ job' = NoJob
      /\ UNCHANGED <<file, loaded, schema, snapshot>>
  BY DEF BackupThrows
<1>2. Worse /\ past'["error"] # 0
  BY <1>1, OneHappens DEF Mishaps
<1>3. job'.kind = "none" /\ Len(snapshot) \in Nat /\ loaded' \in [File -> Content] \cup {Closed}
  BY <1>1, NoJobIs, StorageFacts DEF IsJob, StorageInv, MaintenanceTyped
<1>4. MaintenanceTyped' /\ RecordsInOrder' /\ NothingCorrupt' /\ BatchesFit'
  BY <1>1, <1>2, <1>3, OnlyJobChanges
<1>5. JobTyped' /\ BackupIsNew' /\ CopiesAreRight' /\ RestoresVerified'
  BY <1>1, <1>3, NoJobParts
<1>6. MemoryFits'
  BY <1>2, <1>3 DEF MemoryFits
<1>7. FilesFit'
  <2>1. job.kind \in {"backup", "migrate"} /\ (job.kind = "migrate" => job.version = schema.version)
    BY <1>1, StorageFacts DEF Kinds, PcFits, StorageInv, JobTyped, Backing
  <2>2. \A f \in File : VersionOf(f) = schema.version
    BY <1>1, <2>1 DEF VersionOf
  <2>3. Tidy' => \A f \in File : AtVersion(file[f], schema.version, Lost')
    BY <1>1, <1>2, <2>2, FilesLater
  <2> QED BY <1>1, <1>2, <2>3, FilesFitWithoutJob
<1> QED BY <1>4, <1>5, <1>6, <1>7 DEF StorageInv

LEMMA StartRestoreStep ==
  ASSUME StorageInv, NEW s \in 1..MaxSnapshots, StartRestore(s)
  PROVE  StorageInv'
<1>1. /\ loaded # Closed /\ s \in DOMAIN snapshot
      /\ Begins("restore", "verify", schema.version, s) /\ Happens("restoredByHand")
      /\ UNCHANGED <<file, loaded, schema, snapshot>>
  BY DEF StartRestore
<1>2. Worse /\ past'["restoredByHand"] # 0 /\ past \in [Mishaps -> Nat]
  BY <1>1, OneHappens, StorageFacts DEF Mishaps
<1>3. /\ job.kind = "none"
      /\ IsJob(job', "restore", "verify", 1, schema.version, schema.version, schema.version, s, file)
  BY <1>1, BeginsIs
<1>4. /\ Len(snapshot) \in Nat /\ s \in 0..Len(snapshot) /\ s # 0 /\ schema.version \in Version /\ file \in Tree
      /\ loaded' \in [File -> Content] \cup {Closed}
  BY <1>1, StorageFacts DEF StorageInv, MaintenanceTyped
<1>5. job' \in JobRecord(Len(snapshot))
  BY <1>1, <1>4, BeginsIs DEF Kinds, JobPc
<1>6. job'.kind = "restore" /\ job'.pc = "verify" /\ job'.at = 1 /\ job'.snap = s /\ job'.from = schema.version
  BY <1>3 DEF IsJob
<1>7. MaintenanceTyped' /\ RecordsInOrder' /\ NothingCorrupt' /\ BatchesFit'
  BY <1>1, <1>2, <1>4, <1>6, OnlyJobChanges
<1>8. JobTyped'
  BY <1>1, <1>4, <1>5, <1>6 DEF JobTyped, PcFits, Copying, Backing
<1>9. BackupIsNew' /\ CopiesAreRight' /\ RestoresVerified'
  BY <1>6 DEF BackupIsNew, CopiesAreRight, RestoresVerified, OwnBackup
<1>10. MemoryFits'
  BY <1>1, <1>2, <1>3, <1>6, LaterTidy DEF StorageInv, MemoryFits
<1>11. FilesFit'
  BY <1>2 DEF FilesFit, Tidy
<1> QED BY <1>7, <1>8, <1>9, <1>10, <1>11 DEF StorageInv

LEMMA VerifiesSnapshotStep ==
  ASSUME StorageInv, VerifiesSnapshot
  PROVE  StorageInv'
<1>1. /\ job.pc = "verify" /\ UNCHANGED <<file, loaded, schema, snapshot, past>>
      /\ job' = IF Verifiable(snapshot[job.snap]) THEN [job EXCEPT !.pc = "restore", !.at = 1] ELSE NoJob
  BY DEF VerifiesSnapshot
<1>2. Worse /\ Tidy' = Tidy /\ Lost' = Lost
  BY <1>1, SamePast
<1>3. /\ Len(snapshot) \in Nat /\ loaded' \in [File -> Content] \cup {Closed}
      /\ job \in JobRecord(Len(snapshot)) /\ 1 \in 1..NumFiles + 1 /\ 1 <= NumFiles
      /\ job.kind \in {"restore", "migrate", "rollback"}
  BY <1>1, StorageFacts DEF StorageInv, MaintenanceTyped, Kinds, PcFits, Backing
<1>4. CASE Verifiable(snapshot[job.snap])
  <2>1. /\ job' \in JobRecord(Len(snapshot))
        /\ IsJob(job', job.kind, "restore", 1, job.from, job.version, job.target, job.snap, job.before)
    BY <1>1, <1>3, <1>4, JobPcAtFields DEF JobPc
  <2>2. /\ job'.kind = job.kind /\ job'.pc = "restore" /\ job'.at = 1 /\ job'.from = job.from
        /\ job'.version = job.version /\ job'.target = job.target /\ job'.snap = job.snap
        /\ job'.before = job.before
    BY <2>1 DEF IsJob
  <2>3. MaintenanceTyped' /\ RecordsInOrder' /\ NothingCorrupt' /\ BatchesFit'
    BY <1>1, <1>2, <1>3, <2>2, OnlyJobChanges
  <2>4. JobTyped'
    BY <1>1, <1>3, <2>1, <2>2 DEF StorageInv, JobTyped, PcFits, Copying, Backing
  <2>5. BackupIsNew'
    BY <1>1, <2>2 DEF StorageInv, BackupIsNew, OwnBackup, Saved
  <2>6. CopiesAreRight'
    BY <1>1, <2>2, FreshContent, SMTT(30) DEF StorageInv, CopiesAreRight, OwnBackup, Copying, Backing
  <2>7. RestoresVerified'
    BY <1>1, <1>4, <2>2 DEF RestoresVerified, Verifiable
  <2>8. MemoryFits'
    BY <1>1, <1>3, <2>2 DEF StorageInv, MemoryFits
  <2>9. FilesFit'
    <3>1. \A f \in File : ~(f < 1)
      BY FreshContent
    <3>2. job.kind # "migrate" => \A f \in File : VersionOf(f)' = schema.version /\ VersionOf(f) = schema.version
      BY <1>1, <2>2, <3>1 DEF VersionOf
    <3> QED BY <1>1, <1>2, <2>2, <3>2 DEF StorageInv, FilesFit
  <2> QED BY <2>3, <2>4, <2>5, <2>6, <2>7, <2>8, <2>9 DEF StorageInv
<1>5. CASE ~Verifiable(snapshot[job.snap])
  <2>1. job' = NoJob /\ job'.kind = "none"
    BY <1>1, <1>5, NoJobIs DEF IsJob
  <2>2. MaintenanceTyped' /\ RecordsInOrder' /\ NothingCorrupt' /\ BatchesFit'
    BY <1>1, <1>2, <1>3, <2>1, OnlyJobChanges
  <2>3. JobTyped' /\ BackupIsNew' /\ CopiesAreRight' /\ RestoresVerified'
    BY <1>1, <1>3, <2>1, NoJobParts
  <2>4. MemoryFits'
    BY <1>1, <1>3, <2>1 DEF StorageInv, MemoryFits
  <2>5. Tidy => job.kind = "rollback"
    <3> SUFFICES ASSUME Tidy, job.kind = "migrate" PROVE FALSE
      BY <1>2, <1>3, FilesLater
    <3>1. OwnBackup /\ past["overlap"] = 0
      BY <1>1, <1>2, FilesLater DEF OwnBackup, StorageInv, JobTyped
    <3>2. /\ snapshot[job.snap].files = job.before /\ snapshot[job.snap].sums = job.before
          /\ snapshot[job.snap].manifest
      BY <1>1, <3>1 DEF StorageInv, CopiesAreRight, Copying, Backing
    <3> QED BY <1>5, <3>2 DEF Verifiable
  <2>6. Tidy' => \A f \in File : AtVersion(file[f], schema.version, Lost')
    <3>1. job.kind = "rollback" => \A f \in File : VersionOf(f) = schema.version
      BY <1>1 DEF VersionOf
    <3> QED BY <1>2, <2>5, <3>1, FilesLater
  <2>7. FilesFit'
    BY <1>1, <1>2, <2>1, <2>6, FilesFitWithoutJob
  <2> QED BY <2>2, <2>3, <2>4, <2>7 DEF StorageInv
<1> QED BY <1>4, <1>5

LEMMA NextMigrationStep ==
  ASSUME StorageInv, NextMigration
  PROVE  StorageInv'
<1>1. /\ job.pc = "next" /\ UNCHANGED <<file, loaded, schema, snapshot, past>>
      /\ job' = IF job.version < job.target THEN [job EXCEPT !.pc = "up", !.version = @ + 1, !.at = 1]
                                            ELSE [job EXCEPT !.pc = "record"]
  BY DEF NextMigration
<1>2. Worse /\ Tidy' = Tidy /\ Lost' = Lost
  BY <1>1, SamePast
<1>3. /\ Len(snapshot) \in Nat /\ loaded' \in [File -> Content] \cup {Closed}
      /\ job \in JobRecord(Len(snapshot)) /\ job.kind = "migrate"
      /\ job.from \in Int /\ job.version \in Version /\ job.target \in Version
      /\ job.version \in Int /\ job.target \in Int /\ job.from <= job.version /\ job.version <= job.target
  BY <1>1, StorageFacts, FreshContent DEF StorageInv, MaintenanceTyped, JobTyped, Kinds, PcFits, Backing
<1>4. CASE job.version < job.target
  <2>1. job.version + 1 \in Version
    BY <1>3, <1>4, StorageAssumption, SMTT(30) DEF Version
  <2>2. /\ job' \in JobRecord(Len(snapshot))
        /\ IsJob(job', job.kind, "up", 1, job.from, job.version + 1, job.target, job.snap, job.before)
    BY <1>1, <1>3, <1>4, <2>1, JobVersionFields DEF JobPc
  <2>3. /\ job'.kind = "migrate" /\ job'.pc = "up" /\ job'.at = 1 /\ job'.from = job.from
        /\ job'.version = job.version + 1 /\ job'.target = job.target /\ job'.snap = job.snap
        /\ job'.before = job.before
    BY <1>3, <2>2 DEF IsJob
  <2>4. MaintenanceTyped' /\ RecordsInOrder' /\ NothingCorrupt' /\ BatchesFit'
    BY <1>1, <1>2, <1>3, <2>3, OnlyJobChanges
  <2>5. JobTyped'
    BY <1>1, <1>3, <1>4, <2>2, <2>3 DEF StorageInv, JobTyped, PcFits, Copying, Backing
  <2>6. BackupIsNew'
    BY <1>1, <1>3, <2>3 DEF StorageInv, BackupIsNew, OwnBackup, Saved
  <2>7. CopiesAreRight'
    BY <1>1, <1>3, <2>3 DEF StorageInv, CopiesAreRight, OwnBackup, Copying, Backing
  <2>8. RestoresVerified'
    BY <2>3 DEF RestoresVerified
  <2>9. MemoryFits'
    BY <1>1, <1>3, <2>3 DEF StorageInv, MemoryFits
  <2>10. FilesFit'
    <3>1. \A f \in File : VersionOf(f)' = job.version /\ VersionOf(f) = job.version
      BY <1>1, <1>3, <2>3, FreshContent DEF VersionOf
    <3> QED BY <1>1, <1>2, <1>3, <2>3, <3>1 DEF StorageInv, FilesFit
  <2> QED BY <2>4, <2>5, <2>6, <2>7, <2>8, <2>9, <2>10 DEF StorageInv
<1>5. CASE ~(job.version < job.target)
  <2>1. /\ job' \in JobRecord(Len(snapshot))
        /\ IsJob(job', job.kind, "record", job.at, job.from, job.version, job.target, job.snap, job.before)
    BY <1>1, <1>3, <1>5, JobFields DEF JobPc
  <2>2. /\ job'.kind = "migrate" /\ job'.pc = "record" /\ job'.at = job.at /\ job'.from = job.from
        /\ job'.version = job.version /\ job'.target = job.target /\ job'.snap = job.snap
        /\ job'.before = job.before
    BY <1>3, <2>1 DEF IsJob
  <2>3. MaintenanceTyped' /\ RecordsInOrder' /\ NothingCorrupt' /\ BatchesFit'
    BY <1>1, <1>2, <1>3, <2>2, OnlyJobChanges
  <2>4. JobTyped'
    BY <1>1, <1>3, <1>5, <2>1, <2>2 DEF StorageInv, JobTyped, PcFits, Copying, Backing
  <2>5. BackupIsNew'
    BY <1>1, <1>3, <2>2 DEF StorageInv, BackupIsNew, OwnBackup, Saved
  <2>6. CopiesAreRight'
    BY <1>1, <1>3, <2>2 DEF StorageInv, CopiesAreRight, OwnBackup, Copying, Backing
  <2>7. RestoresVerified'
    BY <2>2 DEF RestoresVerified
  <2>8. MemoryFits'
    BY <1>1, <1>3, <2>2 DEF StorageInv, MemoryFits
  <2>9. FilesFit'
    <3>1. \A f \in File : VersionOf(f)' = job.version /\ VersionOf(f) = job.version
      BY <1>1, <1>3, <2>2 DEF VersionOf
    <3> QED BY <1>1, <1>2, <1>3, <2>2, <3>1 DEF StorageInv, FilesFit
  <2> QED BY <2>3, <2>4, <2>5, <2>6, <2>7, <2>8, <2>9 DEF StorageInv
<1> QED BY <1>4, <1>5

LEMMA ValidatesMigrationStep ==
  ASSUME StorageInv, ValidatesMigration
  PROVE  StorageInv'
<1>1. /\ job.pc = "up" /\ job.at = NumFiles + 1 /\ UNCHANGED <<file, loaded, schema, snapshot, past>>
      /\ job' = [job EXCEPT !.pc = "next"]
  BY DEF ValidatesMigration
<1>2. Worse /\ Tidy' = Tidy /\ Lost' = Lost
  BY <1>1, SamePast
<1>3. /\ Len(snapshot) \in Nat /\ loaded' \in [File -> Content] \cup {Closed}
      /\ job \in JobRecord(Len(snapshot)) /\ job.kind = "migrate"
  BY <1>1, StorageFacts DEF StorageInv, MaintenanceTyped, Kinds, PcFits, Backing
<1>4. /\ job' \in JobRecord(Len(snapshot))
      /\ IsJob(job', job.kind, "next", job.at, job.from, job.version, job.target, job.snap, job.before)
  BY <1>1, <1>3, JobFields DEF JobPc
<1>5. /\ job'.kind = "migrate" /\ job'.pc = "next" /\ job'.at = job.at /\ job'.from = job.from
      /\ job'.version = job.version /\ job'.target = job.target /\ job'.snap = job.snap
      /\ job'.before = job.before
  BY <1>3, <1>4 DEF IsJob
<1>6. MaintenanceTyped' /\ RecordsInOrder' /\ NothingCorrupt' /\ BatchesFit'
  BY <1>1, <1>2, <1>3, <1>5, OnlyJobChanges
<1>7. JobTyped'
  BY <1>1, <1>3, <1>4, <1>5 DEF StorageInv, JobTyped, PcFits, Copying, Backing
<1>8. BackupIsNew'
  BY <1>1, <1>3, <1>5 DEF StorageInv, BackupIsNew, OwnBackup, Saved
<1>9. CopiesAreRight'
  BY <1>1, <1>3, <1>5 DEF StorageInv, CopiesAreRight, OwnBackup, Copying, Backing
<1>10. RestoresVerified'
  BY <1>5 DEF RestoresVerified
<1>11. MemoryFits'
  BY <1>1, <1>3, <1>5 DEF StorageInv, MemoryFits
<1>12. FilesFit'
  <2>1. \A f \in File : ~(f >= NumFiles + 1)
    BY StorageAssumption DEF File
  <2>2. \A f \in File : VersionOf(f)' = job.version /\ VersionOf(f) = job.version
    BY <1>1, <1>3, <1>5, <2>1 DEF VersionOf
  <2> QED BY <1>1, <1>2, <1>3, <1>5, <2>2 DEF StorageInv, FilesFit
<1> QED BY <1>6, <1>7, <1>8, <1>9, <1>10, <1>11, <1>12 DEF StorageInv

LEMMA MigrationFailsStep ==
  ASSUME StorageInv, MigrationFails
  PROVE  StorageInv'
<1>1. /\ job.pc = "up" /\ UNCHANGED <<file, loaded, schema, snapshot>>
      /\ job.snap # 0 => Happens("error") /\ job' = [job EXCEPT !.pc = "verify", !.at = 1]
      /\ job.snap = 0 => Happens("failedWithoutBackup") /\ job' = NoJob
  BY DEF MigrationFails
<1>2. /\ Worse /\ past'[IF job.snap # 0 THEN "error" ELSE "failedWithoutBackup"] # 0
      /\ job.snap = 0 => Lost < Lost'
  <2>1. {"error", "failedWithoutBackup"} \subseteq Mishaps
    BY DEF Mishaps
  <2>2. CASE job.snap # 0
    BY <1>1, <2>1, <2>2, OneHappens
  <2>3. CASE job.snap = 0
    BY <1>1, <2>1, <2>3, OneHappens DEF Losing
  <2> QED BY <2>2, <2>3
<1>3. /\ Len(snapshot) \in Nat /\ loaded' \in [File -> Content] \cup {Closed}
      /\ job \in JobRecord(Len(snapshot)) /\ job.kind = "migrate" /\ 1 \in 1..NumFiles + 1 /\ 1 <= NumFiles
      /\ past \in [Mishaps -> Nat]
  BY <1>1, StorageFacts DEF StorageInv, MaintenanceTyped, Kinds, PcFits, Backing
<1>4. past'["overlap"] = 0 => past["overlap"] = 0 /\ loaded = Closed
  BY <1>2, <1>3, LaterTidy, SMTT(30) DEF StorageInv, MemoryFits
<1>5. CASE job.snap # 0
  <2>1. /\ job' \in JobRecord(Len(snapshot))
        /\ IsJob(job', job.kind, "verify", 1, job.from, job.version, job.target, job.snap, job.before)
    BY <1>1, <1>3, <1>5, JobPcAtFields DEF JobPc
  <2>2. /\ job'.kind = "migrate" /\ job'.pc = "verify" /\ job'.at = 1 /\ job'.from = job.from
        /\ job'.version = job.version /\ job'.target = job.target /\ job'.snap = job.snap
        /\ job'.before = job.before
    BY <1>3, <2>1 DEF IsJob
  <2>3. MaintenanceTyped' /\ RecordsInOrder' /\ NothingCorrupt' /\ BatchesFit'
    BY <1>1, <1>2, <1>3, <2>2, OnlyJobChanges
  <2>4. JobTyped'
    BY <1>1, <1>3, <1>5, <2>1, <2>2 DEF StorageInv, JobTyped, PcFits, Copying, Backing
  <2>5. BackupIsNew'
    BY <1>1, <1>3, <2>2 DEF StorageInv, BackupIsNew, OwnBackup, Saved
  <2>6. CopiesAreRight'
    BY <1>1, <1>3, <1>4, <2>2 DEF StorageInv, CopiesAreRight, OwnBackup, Copying, Backing
  <2>7. RestoresVerified'
    BY <2>2 DEF RestoresVerified
  <2>8. MemoryFits'
    BY <1>1, <1>4, <2>2 DEF MemoryFits
  <2>9. FilesFit'
    <3> SUFFICES ASSUME Tidy' PROVE FilesFit'
      BY DEF FilesFit
    <3>1. /\ loaded # Closed => \A f \in File : AtVersion(loaded[f], schema.version, Lost')
          /\ \A f \in File, v \in Version : file[f].applied[v] <= 1 + Lost'
          /\ job.before \in [File -> Content] /\ \A f \in File : AtVersion(job.before[f], job.from, Lost')
      BY <1>2, <1>3, FilesLater
    <3> QED BY <1>1, <2>2, <3>1 DEF FilesFit
  <2> QED BY <2>3, <2>4, <2>5, <2>6, <2>7, <2>8, <2>9 DEF StorageInv
<1>6. CASE job.snap = 0
  <2>1. job' = NoJob /\ job'.kind = "none"
    BY <1>1, <1>6, NoJobIs DEF IsJob
  <2>2. MaintenanceTyped' /\ RecordsInOrder' /\ NothingCorrupt' /\ BatchesFit'
    BY <1>1, <1>2, <1>3, <2>1, OnlyJobChanges
  <2>3. JobTyped' /\ BackupIsNew' /\ CopiesAreRight' /\ RestoresVerified'
    BY <1>1, <1>3, <2>1, NoJobParts
  <2>4. MemoryFits'
    BY <1>1, <1>4, <2>1 DEF MemoryFits
  <2>5. Tidy' => \A f \in File : AtVersion(file[f], schema.version, Lost')
    <3> SUFFICES ASSUME Tidy' PROVE \A f \in File : AtVersion(file[f], schema.version, Lost')
      OBVIOUS
    <3>1. /\ file \in [File -> Content] /\ Lost \in Nat /\ Lost' \in Nat /\ Lost < Lost'
          /\ \A f \in File, v \in Version : file[f].applied[v] <= 1 + Lost
      BY <1>2, <1>6, FilesLater DEF StorageInv, FilesFit
    <3> QED BY <3>1, FitsAny
  <2>6. FilesFit'
    BY <1>1, <1>2, <2>1, <2>5, FilesFitWithoutJob
  <2> QED BY <2>2, <2>3, <2>4, <2>6 DEF StorageInv
<1> QED BY <1>5, <1>6

(* A restore or the write of a record throws: the job ends where it is. *)
LEMMA JobThrowsStep ==
  ASSUME StorageInv, RestoreThrows \/ RecordThrows
  PROVE  StorageInv'
<1>1. PICK m \in {"restoreThrew", "unrecorded"} : Happens(m) /\ (m = "unrecorded" => job.pc = "record")
  BY DEF RestoreThrows, RecordThrows
<1>2. job.pc \in {"verify", "restore", "record"} /\ job' = NoJob /\ UNCHANGED <<file, loaded, schema, snapshot>>
  BY DEF RestoreThrows, RecordThrows
<1>3. Worse /\ Lost < Lost' /\ past'[m] # 0
  BY <1>1, OneHappens DEF Mishaps, Losing
<1>4. /\ Len(snapshot) \in Nat /\ loaded' \in [File -> Content] \cup {Closed} /\ job'.kind = "none"
      /\ past \in [Mishaps -> Nat] /\ job.kind \in {"migrate", "restore", "rollback"}
      /\ job.pc = "record" => job.kind # "restore"
  BY <1>2, StorageFacts, NoJobIs DEF StorageInv, MaintenanceTyped, IsJob, PcFits, Kinds, Backing
<1>5. MaintenanceTyped' /\ RecordsInOrder' /\ NothingCorrupt' /\ BatchesFit'
  BY <1>2, <1>3, <1>4, OnlyJobChanges
<1>6. JobTyped' /\ BackupIsNew' /\ CopiesAreRight' /\ RestoresVerified'
  BY <1>2, <1>4, NoJobParts
<1>7. MemoryFits'
  <2>1. past'["overlap"] = 0 /\ job.kind # "restore" => loaded' = Closed
    BY <1>2, <1>3, <1>4, LaterTidy DEF StorageInv, MemoryFits
  <2>2. job.kind = "restore" => past'["restoreThrew"] # 0
    BY <1>1, <1>3, <1>4
  <2> QED BY <1>4, <2>1, <2>2 DEF MemoryFits
<1>8. Tidy' => \A f \in File : AtVersion(file[f], schema.version, Lost')
  <2> SUFFICES ASSUME Tidy' PROVE \A f \in File : AtVersion(file[f], schema.version, Lost')
    OBVIOUS
  <2>1. /\ file \in [File -> Content] /\ Lost \in Nat /\ Lost' \in Nat
        /\ \A f \in File, v \in Version : file[f].applied[v] <= 1 + Lost
    BY <1>3, FilesLater DEF StorageInv, FilesFit
  <2> QED BY <1>3, <2>1, FitsAny
<1>9. FilesFit'
  BY <1>2, <1>3, <1>8, FilesFitWithoutJob
<1> QED BY <1>5, <1>6, <1>7, <1>9 DEF StorageInv

LEMMA JobDiesStep ==
  ASSUME StorageInv, JobDies
  PROVE  StorageInv'
<1>1. /\ job.kind # "none" /\ Happens("died") /\ job' = NoJob
      /\ UNCHANGED <<file, schema, snapshot>>
      /\ loaded' = IF job.kind \notin {"backup", "restore"} THEN loaded ELSE Closed
  BY DEF JobDies, Idle, Responsive
<1>2. Worse /\ Lost < Lost'
  BY <1>1, OneHappens DEF Mishaps, Losing
<1>3. /\ Len(snapshot) \in Nat /\ loaded' \in [File -> Content] \cup {Closed} /\ job'.kind = "none"
      /\ past \in [Mishaps -> Nat] /\ job.kind \in Kinds
  BY <1>1, StorageFacts, NoJobIs DEF StorageInv, MaintenanceTyped, IsJob
<1>4. MaintenanceTyped' /\ RecordsInOrder' /\ NothingCorrupt' /\ BatchesFit'
  BY <1>1, <1>2, <1>3, OnlyJobChanges
<1>5. JobTyped' /\ BackupIsNew' /\ CopiesAreRight' /\ RestoresVerified'
  BY <1>1, <1>3, NoJobParts
<1>6. MemoryFits'
  <2>1. past'["overlap"] = 0 => loaded' = Closed
    BY <1>1, <1>2, <1>3, LaterTidy DEF StorageInv, MemoryFits, Kinds
  <2> QED BY <1>1, <1>3, <2>1 DEF MemoryFits
<1>7. Tidy' => \A f \in File : AtVersion(file[f], schema.version, Lost')
  <2> SUFFICES ASSUME Tidy' PROVE \A f \in File : AtVersion(file[f], schema.version, Lost')
    OBVIOUS
  <2>1. /\ file \in [File -> Content] /\ Lost \in Nat /\ Lost' \in Nat
        /\ \A f \in File, v \in Version : file[f].applied[v] <= 1 + Lost
    BY <1>2, FilesLater DEF StorageInv, FilesFit
  <2> QED BY <1>2, <2>1, FitsAny
<1>8. FilesFit'
  BY <1>1, <1>2, <1>7, FilesFitWithoutJob
<1> QED BY <1>4, <1>5, <1>6, <1>8 DEF StorageInv

(* The last record above the target that has a snapshot is one of them. *)
LEMMA LastUndoneIs ==
  ASSUME StorageInv, NEW target \in Version, Undone(target) # {}
  PROVE  LastUndone(target) \in 1..Saved /\ schema.applied[LastUndone(target)].snap # 0
<1>1. /\ Saved \in Nat /\ Undone(target) \in SUBSET (0..Saved) /\ Undone(target) \subseteq 1..Saved
      /\ \A i \in Undone(target) : schema.applied[i].snap # 0
  BY SnapshotFacts, StorageFacts DEF Undone
<1>2. \E i \in Undone(target) : \A j \in Undone(target) : i >= j
  BY <1>1, GreatestElement
<1>3. \E i \in Undone(target) : \A j \in Undone(target) : j <= i
  BY <1>2
<1>4. LastUndone(target) \in Undone(target)
  BY <1>3 DEF LastUndone
<1> QED BY <1>1, <1>4

LEMMA StartRollbackStep ==
  ASSUME StorageInv, NEW target \in Version, StartRollback(target)
  PROVE  StorageInv'
<1> DEFINE s == schema.applied[LastUndone(target)].snap
           split == \A r \in Range(schema.applied) : r.version > target <=> r.snap = s
           ms == Overlaps \cup (IF split THEN {} ELSE {"skippedBatch"})
<1>1. /\ target < schema.version /\ Undone(target) # {}
      /\ Begins("rollback", "verify", target, s) /\ AllHappen(ms)
      /\ UNCHANGED <<file, loaded, schema, snapshot>>
  BY DEF StartRollback
<1>2. /\ Len(snapshot) \in Nat /\ s \in 0..Len(snapshot) /\ s # 0
      /\ schema.version \in Version /\ file \in Tree /\ past \in [Mishaps -> Nat]
      /\ loaded' \in [File -> Content] \cup {Closed}
  BY <1>1, LastUndoneIs, SnapshotFacts, StorageFacts DEF StorageInv, MaintenanceTyped
<1>3. /\ Worse
      /\ past'["overlap"] = 0 => loaded = Closed /\ past["overlap"] = 0
      /\ past'["skippedBatch"] = 0 => split
  <2>1. Worse /\ \A m \in Mishaps : past'[m] = IF m \in ms THEN past[m] + 1 ELSE past[m]
    BY <1>1, <1>2, PastGrows
  <2>2. /\ {"overlap", "skippedBatch"} \subseteq Mishaps
        /\ loaded # Closed => "overlap" \in ms
        /\ ~split => "skippedBatch" \in ms
    BY DEF Mishaps, Overlaps
  <2> HIDE DEF ms, split
  <2>3. /\ past["overlap"] \in Nat /\ past["skippedBatch"] \in Nat
        /\ past'["overlap"] = IF "overlap" \in ms THEN past["overlap"] + 1 ELSE past["overlap"]
        /\ past'["skippedBatch"] = IF "skippedBatch" \in ms THEN past["skippedBatch"] + 1 ELSE past["skippedBatch"]
    BY <1>2, <2>1, <2>2
  <2> QED BY <2>1, <2>2, <2>3
<1> HIDE DEF ms
<1>4. /\ job.kind = "none"
      /\ IsJob(job', "rollback", "verify", 1, schema.version, schema.version, target, s, file)
      /\ job' \in JobRecord(Len(snapshot))
  BY <1>1, <1>2, BeginsIs DEF Kinds, JobPc
<1>5. /\ job'.kind = "rollback" /\ job'.pc = "verify" /\ job'.at = 1 /\ job'.snap = s /\ job'.from = schema.version
      /\ job'.target = target
  BY <1>4 DEF IsJob
<1>6. MaintenanceTyped' /\ RecordsInOrder' /\ NothingCorrupt'
  BY <1>1, <1>2, <1>3, OnlyJobChanges
<1>7. JobTyped'
  BY <1>1, <1>2, <1>4, <1>5 DEF JobTyped, PcFits, Copying, Backing
<1>8. BackupIsNew' /\ CopiesAreRight' /\ RestoresVerified'
  BY <1>5 DEF BackupIsNew, CopiesAreRight, RestoresVerified, OwnBackup
<1>9. MemoryFits'
  BY <1>1, <1>3, <1>5 DEF MemoryFits
<1>10. FilesFit'
  BY <1>1, <1>3, <1>4, FilesFitAtBegin
<1>11. BatchesFit'
  <2> SUFFICES ASSUME Tidy' PROVE BatchesFit'
    BY DEF BatchesFit
  <2>1. split /\ Tidy /\ Lost \in Nat /\ Lost' \in Nat /\ Lost <= Lost' /\ past["damage"] = 0
    BY <1>3, FilesLater DEF Tidy
  <2>2. \A i \in 1..Saved : schema.applied[i].version > target <=> schema.applied[i].snap = s
    <3>1. \A i \in 1..Saved : schema.applied[i] \in Range(schema.applied)
      BY SnapshotFacts DEF Range
    <3> QED BY <2>1, <3>1
  <2>3. /\ Saved \in Nat /\ target \in Int /\ target \in 1..Saved
        /\ \A i \in 1..Saved : schema.applied[i].version = i + 1
    BY <1>1, <1>2, SnapshotFacts, StorageFacts, FreshContent DEF Saved
  <2> HIDE DEF s, split
  <2>4. \A i \in 1..Saved : i >= target <=> schema.applied[i].snap = s
    <3> TAKE i \in 1..Saved
    <3>1. i >= target <=> i + 1 > target
      BY <2>3
    <3> QED BY <2>2, <2>3, <3>1
  <2>5. FirstOf(target) /\ schema.applied[target].snap = s
    <3>1. schema.applied[target].snap = s /\ \A j \in 1..Saved : j < target => schema.applied[j].snap # s
      BY <2>3, <2>4
    <3> QED BY <1>2, <3>1 DEF FirstOf
  <2>6. /\ \A i \in 1..Saved : FirstOf(i) =>
             \A f \in File : AtVersion(snapshot[schema.applied[i].snap].sums[f], i, Lost)
        /\ \A i \in 1..Saved : schema.applied[i].snap \in 0..Len(snapshot)
        /\ \A q \in DOMAIN snapshot : \A f \in File : snapshot[q].sums[f] \in Content
        /\ DOMAIN snapshot = 1..Len(snapshot)
    BY <2>1, ContentsFacts, SnapshotFacts, StorageFacts DEF StorageInv, BatchesFit
  <2>7. \A i \in 1..Saved : FirstOf(i) =>
          \A f \in File : AtVersion(snapshot[schema.applied[i].snap].sums[f], i, Lost')
    <3> SUFFICES ASSUME NEW i \in 1..Saved, FirstOf(i), NEW f \in File
                 PROVE  AtVersion(snapshot[schema.applied[i].snap].sums[f], i, Lost')
      OBVIOUS
    <3>1. schema.applied[i].snap \in DOMAIN snapshot
      BY <1>2, <2>6 DEF FirstOf
    <3>2. snapshot[schema.applied[i].snap].sums[f] \in Content
      BY <2>6, <3>1
    <3> QED BY <2>1, <2>6, <3>2, FitsStays
  <2>8. \A f \in File : AtVersion(snapshot[s].sums[f], target, Lost')
    BY <2>3, <2>5, <2>7
  <2>9. \A i \in 1..Saved : FirstOf(i)' <=> FirstOf(i)
    BY <1>1 DEF FirstOf, Saved
  <2>10. Saved' = Saved
    BY <1>1 DEF Saved
  <2> QED BY <1>1, <1>5, <2>4, <2>7, <2>8, <2>9, <2>10 DEF BatchesFit
<1> QED BY <1>6, <1>7, <1>8, <1>9, <1>10, <1>11 DEF StorageInv

LEMMA NewSnapshotIs ==
  ASSUME StorageInv, NewSnapshot
  PROVE  /\ snapshot' \in Seq(Snapshot) /\ Len(snapshot) \in Nat /\ Len(snapshot') = Len(snapshot) + 1
         /\ DOMAIN snapshot' = 1..(Len(snapshot) + 1)
         /\ \A s \in DOMAIN snapshot : snapshot'[s] = snapshot[s]
         /\ \A f \in File : snapshot'[Len(snapshot) + 1].sums[f] # Corrupt
<1>1. EmptySnapshot \in Snapshot /\ \A f \in File : EmptySnapshot.sums[f] # Corrupt
  BY FreshContent DEF EmptySnapshot, Snapshot
<1>2. snapshot \in Seq(Snapshot) /\ Len(snapshot) \in Nat /\ DOMAIN snapshot = 1..Len(snapshot)
  BY StorageFacts
<1>3. snapshot' = Append(snapshot, EmptySnapshot)
  BY DEF NewSnapshot
<1> DEFINE x == EmptySnapshot
<1> HIDE DEF x
<1>4. /\ snapshot' \in Seq(Snapshot) /\ Len(snapshot') = Len(snapshot) + 1
      /\ DOMAIN snapshot' = 1..(Len(snapshot) + 1)
      /\ \A s \in DOMAIN snapshot : snapshot'[s] = snapshot[s]
      /\ snapshot'[Len(snapshot) + 1] = EmptySnapshot
  BY <1>1, <1>2, <1>3
<1> QED BY <1>1, <1>2, <1>4

(* What does not depend on the job, when a job begins, with a snapshot or without. *)
LEMMA SnapshotsAtBegin ==
  ASSUME StorageInv, Worse, UNCHANGED <<file, loaded, schema>>, job'.kind # "rollback",
         NewSnapshot \/ UNCHANGED snapshot
  PROVE  MaintenanceTyped' /\ RecordsInOrder' /\ NothingCorrupt' /\ BatchesFit'
<1>1. /\ snapshot' \in Seq(Snapshot) /\ Len(snapshot) \in Nat /\ Len(snapshot') \in Nat
      /\ Len(snapshot') >= Len(snapshot) /\ DOMAIN snapshot = 1..Len(snapshot)
      /\ \A s \in DOMAIN snapshot : snapshot'[s] = snapshot[s]
      /\ \A s \in DOMAIN snapshot' :
           s \in DOMAIN snapshot \/ \A f \in File : snapshot'[s].sums[f] # Corrupt
  <2>1. CASE NewSnapshot
    <3>1. /\ snapshot' \in Seq(Snapshot) /\ Len(snapshot) \in Nat /\ Len(snapshot') = Len(snapshot) + 1
          /\ DOMAIN snapshot' = 1..(Len(snapshot) + 1) /\ DOMAIN snapshot = 1..Len(snapshot)
          /\ \A s \in DOMAIN snapshot : snapshot'[s] = snapshot[s]
          /\ \A f \in File : snapshot'[Len(snapshot) + 1].sums[f] # Corrupt
      BY <2>1, NewSnapshotIs, StorageFacts
    <3>2. \A s \in DOMAIN snapshot' : s \in DOMAIN snapshot \/ s = Len(snapshot) + 1
      BY <3>1
    <3> QED BY <3>1, <3>2
  <2>2. CASE UNCHANGED snapshot
    BY <2>2, StorageFacts
  <2> QED BY <2>1, <2>2
<1>2. MaintenanceTyped'
  BY <1>1 DEF StorageInv, MaintenanceTyped, Worse
<1>3. RecordsInOrder'
  BY <1>1, RecordsStay
<1>4. NothingCorrupt'
  <2>1. past'["damage"] = 0 => past["damage"] = 0
    BY LaterTidy, StorageFacts
  <2> QED BY <1>1, <2>1 DEF StorageInv, NothingCorrupt, Intact
<1>5. BatchesFit'
  <2>1. \A i \in 1..Saved : schema.applied[i].snap # 0 => schema.applied[i].snap \in DOMAIN snapshot
    BY <1>1, SnapshotFacts
  <2> QED BY <1>1, <2>1, BatchesStay
<1> QED BY <1>2, <1>3, <1>4, <1>5

LEMMA StartBackupStep ==
  ASSUME StorageInv, StartBackup
  PROVE  StorageInv'
<1> DEFINE s == Len(snapshot) + 1
<1>1. /\ loaded # Closed /\ Begins("backup", "sum", schema.version, s) /\ NewSnapshot
      /\ UNCHANGED <<file, loaded, schema, past>>
  BY DEF StartBackup
<1>2. Worse /\ Tidy' = Tidy /\ Lost' = Lost
  BY <1>1, SamePast
<1>3. Len(snapshot) \in Nat /\ Len(snapshot') = s /\ s \in Nat /\ s # 0 /\ s \in 0..s
  BY <1>1, NewSnapshotIs
<1>4. /\ job.kind = "none"
      /\ IsJob(job', "backup", "sum", 1, schema.version, schema.version, schema.version, s, file)
      /\ job' \in JobRecord(s)
  BY <1>1, <1>3, BeginsIs, StorageFacts DEF Kinds, JobPc
<1>5. /\ job'.kind = "backup" /\ job'.pc = "sum" /\ job'.at = 1 /\ job'.snap = s /\ job'.from = schema.version
      /\ job'.before = file
  BY <1>4 DEF IsJob
<1>6. MaintenanceTyped' /\ RecordsInOrder' /\ NothingCorrupt' /\ BatchesFit'
  BY <1>1, <1>2, <1>5, SnapshotsAtBegin
<1>7. JobTyped'
  BY <1>1, <1>3, <1>4, <1>5, StorageFacts DEF JobTyped, PcFits, Copying, Backing
<1>8. BackupIsNew'
  <2>1. \A i \in 1..Saved : schema.applied[i].snap < s
    BY <1>3, SnapshotFacts
  <2>2. Saved' = Saved
    BY <1>1 DEF Saved
  <2> QED BY <1>1, <1>3, <1>5, <2>1, <2>2 DEF BackupIsNew
<1>9. CopiesAreRight' /\ RestoresVerified'
  BY <1>1, <1>5, FreshContent DEF CopiesAreRight, RestoresVerified, Copying, Backing
<1>10. MemoryFits'
  BY <1>1, <1>4, <1>5 DEF StorageInv, MemoryFits
<1>11. FilesFit'
  BY <1>1, <1>2, <1>4, FilesFitAtBegin
<1> QED BY <1>6, <1>7, <1>8, <1>9, <1>10, <1>11 DEF StorageInv

LEMMA StartMigrationStep ==
  ASSUME StorageInv, NEW target \in Version, NEW autoBackup \in BOOLEAN, StartMigration(target, autoBackup)
  PROVE  StorageInv'
<1> DEFINE s == IF autoBackup THEN Len(snapshot) + 1 ELSE 0
           pc == IF autoBackup THEN "sum" ELSE "next"
<1>1. /\ target > schema.version /\ Begins("migrate", pc, target, s)
      /\ IF autoBackup THEN NewSnapshot ELSE UNCHANGED snapshot
      /\ AllHappen(Overlaps) /\ UNCHANGED <<file, loaded, schema>>
  BY DEF StartMigration
<1>2. /\ Worse
      /\ past'["overlap"] = 0 => loaded = Closed
  <2>1. past \in [Mishaps -> Nat] /\ "overlap" \in Mishaps
    BY StorageFacts DEF Mishaps
  <2>2. Worse /\ \A m \in Mishaps : past'[m] = IF m \in Overlaps THEN past[m] + 1 ELSE past[m]
    BY <1>1, <2>1, PastGrows
  <2> QED BY <2>1, <2>2 DEF Overlaps
<1>3. /\ Len(snapshot) \in Nat /\ Len(snapshot') \in Nat /\ Len(snapshot') >= Len(snapshot)
      /\ autoBackup => s = Len(snapshot') /\ s # 0 /\ s > Len(snapshot)
      /\ ~autoBackup => s = 0
      /\ s \in 0..Len(snapshot')
  <2>1. Len(snapshot) \in Nat
    BY StorageFacts
  <2>2. CASE autoBackup
    BY <1>1, <2>2, NewSnapshotIs
  <2>3. CASE ~autoBackup
    BY <1>1, <2>1, <2>3
  <2> QED BY <2>2, <2>3
<1> HIDE DEF s
<1>4. pc \in {"sum", "next"} /\ (pc = "sum" <=> autoBackup)
  OBVIOUS
<1> HIDE DEF pc
<1>5. /\ job.kind = "none"
      /\ IsJob(job', "migrate", pc, 1, schema.version, schema.version, target, s, file)
      /\ job' \in JobRecord(Len(snapshot'))
  BY <1>1, <1>3, <1>4, BeginsIs, StorageFacts DEF Kinds, JobPc
<1>6. /\ job'.kind = "migrate" /\ job'.pc = pc /\ job'.at = 1 /\ job'.snap = s /\ job'.from = schema.version
      /\ job'.version = schema.version /\ job'.target = target /\ job'.before = file
  BY <1>5 DEF IsJob
<1>7. MaintenanceTyped' /\ RecordsInOrder' /\ NothingCorrupt' /\ BatchesFit'
  BY <1>1, <1>2, <1>6, SnapshotsAtBegin
<1>8. JobTyped'
  <2>1. schema.version \in Int /\ target \in Int /\ 1 <= NumFiles
    BY StorageFacts, FreshContent
  <2> QED BY <1>1, <1>3, <1>4, <1>5, <1>6, <2>1 DEF JobTyped, PcFits, Copying, Backing
<1>9. BackupIsNew'
  <2>1. \A i \in 1..Saved : schema.applied[i].snap \in 0..Len(snapshot)
    BY SnapshotFacts
  <2>2. Saved' = Saved
    BY <1>1 DEF Saved
  <2>3. s # 0 => s \in 1..Len(snapshot') /\ \A i \in 1..Saved : schema.applied[i].snap < s
    BY <1>3, <2>1
  <2> QED BY <1>1, <1>6, <2>2, <2>3 DEF BackupIsNew, OwnBackup
<1>10. CopiesAreRight' /\ RestoresVerified'
  <2>1. s # 0 => pc = "sum"
    BY <1>3, <1>4
  <2> QED BY <1>1, <1>4, <1>6, <2>1, FreshContent
          DEF CopiesAreRight, RestoresVerified, Copying, Backing, OwnBackup
<1>11. MemoryFits'
  BY <1>1, <1>2, <1>6 DEF MemoryFits
<1>12. FilesFit'
  BY <1>1, <1>2, <1>4, <1>5, FilesFitAtBegin
<1> QED BY <1>7, <1>8, <1>9, <1>10, <1>11, <1>12 DEF StorageInv

(* A step of a backup changes its own snapshot, which no record names. *)
LEMMA OwnSnapshotChanges ==
  ASSUME StorageInv, OwnBackup, UNCHANGED <<file, loaded, schema, past>>, job'.kind # "rollback",
         NEW x \in Snapshot, snapshot' = [snapshot EXCEPT ![job.snap] = x],
         past["damage"] = 0 => \A f \in File : x.sums[f] # Corrupt
  PROVE  /\ MaintenanceTyped' /\ RecordsInOrder' /\ NothingCorrupt' /\ BatchesFit'
         /\ Len(snapshot') = Len(snapshot) /\ Len(snapshot) \in Nat /\ snapshot'[job.snap] = x
         /\ job.snap \in DOMAIN snapshot /\ \A s \in DOMAIN snapshot : s # job.snap => snapshot'[s] = snapshot[s]
<1>1. Worse
  BY SamePast
<1>2. /\ snapshot \in Seq(Snapshot) /\ Len(snapshot) \in Nat /\ DOMAIN snapshot = 1..Len(snapshot)
      /\ job.snap \in 1..Len(snapshot) /\ \A i \in 1..Saved : schema.applied[i].snap < job.snap
  BY StorageFacts DEF StorageInv, BackupIsNew
<1>3. /\ snapshot' \in Seq(Snapshot) /\ Len(snapshot') = Len(snapshot) /\ DOMAIN snapshot' = DOMAIN snapshot
      /\ snapshot'[job.snap] = x
      /\ \A s \in DOMAIN snapshot : s # job.snap => snapshot'[s] = snapshot[s]
  BY <1>2
<1>4. MaintenanceTyped'
  BY <1>3 DEF StorageInv, MaintenanceTyped
<1>5. RecordsInOrder'
  BY <1>2, <1>3, RecordsStay
<1>6. NothingCorrupt'
  BY <1>3 DEF StorageInv, NothingCorrupt, Intact
<1>7. BatchesFit'
  <2>1. \A i \in 1..Saved : schema.applied[i].snap # 0 =>
          schema.applied[i].snap \in DOMAIN snapshot /\ schema.applied[i].snap # job.snap
    BY <1>2, SnapshotFacts
  <2> QED BY <1>1, <1>3, <2>1, BatchesStay
<1> QED BY <1>2, <1>3, <1>4, <1>5, <1>6, <1>7

(* The files and memory in a step of a backup. *)
LEMMA BackupGoesOn ==
  ASSUME StorageInv, UNCHANGED <<file, loaded, schema, past>>, job.pc \in Backing,
         NEW pc \in {"sum", "copy", "manifest", "next"}, NEW at, pc = "next" => job.kind = "migrate",
         IsJob(job', job.kind, pc, at, job.from, job.version, job.target, job.snap, job.before),
         job' \in JobRecord(Len(snapshot')), Len(snapshot') = Len(snapshot), pc \in Copying => at <= NumFiles
  PROVE  JobTyped' /\ BackupIsNew' /\ RestoresVerified' /\ MemoryFits' /\ FilesFit'
<1>1. /\ job'.kind = job.kind /\ job'.pc = pc /\ job'.at = at /\ job'.from = job.from
      /\ job'.version = job.version /\ job'.target = job.target /\ job'.snap = job.snap
      /\ job'.before = job.before
  BY DEF IsJob
<1>2. job.kind \in {"backup", "migrate"}
  BY StorageFacts DEF Kinds, PcFits, Backing
<1>3. JobTyped'
  <2>1. /\ job.snap # 0 /\ job.from = schema.version
        /\ job.kind = "migrate" => /\ job.from <= job.version /\ job.version <= job.target
                                   /\ job.version = job.from
    BY <1>2 DEF StorageInv, JobTyped
  <2> QED BY <1>1, <1>2, <2>1 DEF JobTyped, PcFits, Copying, Backing
<1>4. BackupIsNew'
  BY <1>1 DEF StorageInv, BackupIsNew, OwnBackup, Saved
<1>5. RestoresVerified' /\ MemoryFits'
  BY <1>1, <1>2 DEF RestoresVerified, StorageInv, MemoryFits
<1>6. FilesFit'
  <2>1. Tidy' = Tidy /\ Lost' = Lost
    BY SamePast
  <2>2. \A f \in File : VersionOf(f)' = VersionOf(f)
    BY <1>1, <1>2 DEF VersionOf, Backing
  <2> QED BY <1>1, <2>1, <2>2 DEF StorageInv, FilesFit, Backing
<1> QED BY <1>3, <1>4, <1>5, <1>6

LEMMA SumsFileStep ==
  ASSUME StorageInv, SumsFile
  PROVE  StorageInv'
<1> DEFINE o == snapshot[job.snap]
           x == [o EXCEPT !.sums = [o.sums EXCEPT ![job.at] = file[job.at]]]
<1>1. /\ job.pc = "sum" /\ snapshot' = [snapshot EXCEPT ![job.snap] = x]
      /\ job' = [job EXCEPT !.pc = "copy"] /\ UNCHANGED <<file, loaded, schema, past>>
  BY DEF SumsFile
<1>2. /\ OwnBackup /\ job.snap \in DOMAIN snapshot /\ job.at \in File /\ Len(snapshot) \in Nat
      /\ job \in JobRecord(Len(snapshot)) /\ job.kind \in {"backup", "migrate"} /\ job.at <= NumFiles
      /\ job.at \in 1..NumFiles + 1
  BY <1>1, StorageFacts DEF OwnBackup, Kinds, PcFits, StorageInv, JobTyped, Backing, Copying, File
<1>3. /\ o \in Snapshot /\ file[job.at] \in Contents /\ file \in Tree
      /\ past["damage"] = 0 => Intact /\ \A f \in File : o.sums[f] # Corrupt
  BY <1>2, StorageFacts, SnapshotFacts DEF StorageInv, NothingCorrupt
<1>4. /\ x \in Snapshot /\ x.files = o.files /\ x.manifest = o.manifest
      /\ x.sums[job.at] = file[job.at] /\ \A f \in File : f # job.at => x.sums[f] = o.sums[f]
  BY <1>2, <1>3 DEF Snapshot, Contents
<1> HIDE DEF x
<1>5. /\ job' \in JobRecord(Len(snapshot))
      /\ IsJob(job', job.kind, "copy", job.at, job.from, job.version, job.target, job.snap, job.before)
  BY <1>1, <1>2, JobFields DEF JobPc
<1>6. /\ job'.kind = job.kind /\ job'.pc = "copy" /\ job'.at = job.at /\ job'.snap = job.snap
      /\ job'.before = job.before
  BY <1>5 DEF IsJob
<1>7. /\ MaintenanceTyped' /\ RecordsInOrder' /\ NothingCorrupt' /\ BatchesFit'
      /\ Len(snapshot') = Len(snapshot) /\ snapshot'[job.snap] = x
  <2>1. past["damage"] = 0 => \A f \in File : x.sums[f] # Corrupt
    BY <1>2, <1>3, <1>4 DEF Intact
  <2> QED BY <1>1, <1>2, <1>4, <1>6, <2>1, OwnSnapshotChanges
<1>8. JobTyped' /\ BackupIsNew' /\ RestoresVerified' /\ MemoryFits' /\ FilesFit'
  BY <1>1, <1>2, <1>5, <1>7, BackupGoesOn DEF Backing
<1>9. CopiesAreRight'
  <2> SUFFICES ASSUME past["overlap"] = 0 PROVE CopiesAreRight'
    BY <1>1 DEF CopiesAreRight
  <2>1. /\ file = job.before
        /\ \A f \in File : f < job.at => o.files[f] = job.before[f] /\ o.sums[f] = job.before[f]
    BY <1>1, <1>2 DEF StorageInv, CopiesAreRight, Copying, Backing
  <2>2. \A f \in File : f < job.at => f # job.at
    BY FreshContent
  <2> QED BY <1>1, <1>4, <1>6, <1>7, <2>1, <2>2 DEF CopiesAreRight, Copying, Backing
<1> QED BY <1>7, <1>8, <1>9 DEF StorageInv

LEMMA CopiesFileStep ==
  ASSUME StorageInv, CopiesFile
  PROVE  StorageInv'
<1> DEFINE o == snapshot[job.snap]
           x == [o EXCEPT !.files = [o.files EXCEPT ![job.at] = file[job.at]]]
           pc == IF job.at < NumFiles THEN "sum" ELSE "manifest"
           at == IF job.at < NumFiles THEN job.at + 1 ELSE 1
<1>1. /\ job.pc = "copy" /\ snapshot' = [snapshot EXCEPT ![job.snap] = x]
      /\ job' = IF job.at < NumFiles THEN [job EXCEPT !.pc = "sum", !.at = @ + 1]
                                     ELSE [job EXCEPT !.pc = "manifest", !.at = 1]
      /\ UNCHANGED <<file, loaded, schema, past>>
  BY DEF CopiesFile
<1>2. /\ OwnBackup /\ job.snap \in DOMAIN snapshot /\ job.at \in File /\ Len(snapshot) \in Nat
      /\ job \in JobRecord(Len(snapshot)) /\ job.kind \in {"backup", "migrate"} /\ job.at <= NumFiles
      /\ job.at \in 1..NumFiles + 1 /\ NumFiles \in Nat \ {0} /\ job.at \in Int
  BY <1>1, StorageFacts DEF OwnBackup, Kinds, PcFits, StorageInv, JobTyped, Backing, Copying, File
<1>3. /\ o \in Snapshot /\ file[job.at] \in Contents
      /\ past["damage"] = 0 => \A f \in File : o.sums[f] # Corrupt
  BY <1>2, StorageFacts, SnapshotFacts DEF StorageInv, NothingCorrupt
<1>4. /\ x \in Snapshot /\ x.sums = o.sums /\ x.manifest = o.manifest
      /\ x.files[job.at] = file[job.at] /\ \A f \in File : f # job.at => x.files[f] = o.files[f]
      /\ x.files \in Tree /\ x.sums \in Tree
  BY <1>2, <1>3, SMTT(30) DEF Snapshot, Contents, Tree
<1> HIDE DEF x
<1>5. /\ job' \in JobRecord(Len(snapshot))
      /\ IsJob(job', job.kind, pc, at, job.from, job.version, job.target, job.snap, job.before)
      /\ pc \in {"sum", "manifest"} /\ (pc \in Copying => at <= NumFiles)
  <2>1. CASE job.at < NumFiles
    <3>1. job.at + 1 \in 1..NumFiles + 1 /\ job.at + 1 <= NumFiles
      BY <1>2, <2>1, SMTT(30)
    <3> QED BY <1>1, <1>2, <2>1, <3>1, JobPcAtFields DEF JobPc
  <2>2. CASE ~(job.at < NumFiles)
    <3>1. 1 \in 1..NumFiles + 1
      BY <1>2
    <3> QED BY <1>1, <1>2, <2>2, <3>1, JobPcAtFields DEF JobPc, Copying
  <2> QED BY <2>1, <2>2
<1>6. /\ job'.kind = job.kind /\ job'.pc = pc /\ job'.at = at /\ job'.snap = job.snap
      /\ job'.before = job.before
  BY <1>5 DEF IsJob
<1>7. /\ MaintenanceTyped' /\ RecordsInOrder' /\ NothingCorrupt' /\ BatchesFit'
      /\ Len(snapshot') = Len(snapshot) /\ snapshot'[job.snap] = x
  <2>1. past["damage"] = 0 => \A f \in File : x.sums[f] # Corrupt
    BY <1>3, <1>4
  <2> QED BY <1>1, <1>2, <1>4, <1>6, <2>1, OwnSnapshotChanges
<1> HIDE DEF pc, at
<1>8. JobTyped' /\ BackupIsNew' /\ RestoresVerified' /\ MemoryFits' /\ FilesFit'
  BY <1>1, <1>2, <1>5, <1>7, BackupGoesOn DEF Backing
<1>9. CopiesAreRight'
  <2> SUFFICES ASSUME past["overlap"] = 0 PROVE CopiesAreRight'
    BY <1>1 DEF CopiesAreRight
  <2>1. /\ file = job.before /\ o.sums[job.at] = job.before[job.at]
        /\ \A f \in File : f < job.at => o.files[f] = job.before[f] /\ o.sums[f] = job.before[f]
    BY <1>1, <1>2 DEF StorageInv, CopiesAreRight, Copying, Backing
  <2>2. \A f \in File : f <= job.at => x.files[f] = job.before[f] /\ x.sums[f] = job.before[f]
    BY <1>2, <1>4, <2>1, FreshContent
  <2>3. CASE job.at < NumFiles
    <3>1. pc = "sum" /\ at = job.at + 1
      BY <2>3 DEF pc, at
    <3>2. \A f \in File : f < at => f <= job.at
      BY <1>2, <3>1, FreshContent
    <3> QED BY <1>1, <1>6, <1>7, <2>1, <2>2, <3>1, <3>2 DEF CopiesAreRight, Copying, Backing
  <2>4. CASE ~(job.at < NumFiles)
    <3>1. pc = "manifest"
      BY <2>4 DEF pc
    <3>2. \A f \in File : f <= job.at
      BY <1>2, <2>4, FreshContent
    <3>3. x.files = job.before /\ x.sums = job.before
      <4>1. job.before \in Tree
        BY StorageFacts
      <4> QED BY <1>4, <2>2, <3>2, <4>1 DEF Tree
    <3> QED BY <1>1, <1>6, <1>7, <2>1, <3>1, <3>3 DEF CopiesAreRight, Copying, Backing
  <2> QED BY <2>3, <2>4
<1> QED BY <1>7, <1>8, <1>9 DEF StorageInv

LEMMA WritesManifestStep ==
  ASSUME StorageInv, WritesManifest
  PROVE  StorageInv'
<1> DEFINE o == snapshot[job.snap]
           x == [o EXCEPT !.manifest = TRUE]
<1>1. /\ job.pc = "manifest" /\ snapshot' = [snapshot EXCEPT ![job.snap] = x]
      /\ job' = IF job.kind = "backup" THEN NoJob ELSE [job EXCEPT !.pc = "next"]
      /\ UNCHANGED <<file, loaded, schema, past>>
  BY DEF WritesManifest
<1>2. /\ OwnBackup /\ job.snap \in DOMAIN snapshot /\ Len(snapshot) \in Nat
      /\ job \in JobRecord(Len(snapshot)) /\ job.kind \in {"backup", "migrate"}
      /\ job.at \in 1..NumFiles + 1
  BY <1>1, StorageFacts DEF OwnBackup, Kinds, PcFits, StorageInv, JobTyped, Backing, Copying
<1>3. o \in Snapshot /\ (past["damage"] = 0 => \A f \in File : o.sums[f] # Corrupt)
  BY <1>2, SnapshotFacts DEF StorageInv, NothingCorrupt
<1>4. x \in Snapshot /\ x.sums = o.sums /\ x.files = o.files /\ x.manifest
  BY <1>3 DEF Snapshot
<1> HIDE DEF x
<1>5. job'.kind \in {"none", "migrate"}
  <2>1. NoJob.kind = "none"
    BY NoJobIs DEF IsJob
  <2>2. job.kind = "migrate" => job'.kind = "migrate"
    BY <1>1, <1>2 DEF JobRecord
  <2> QED BY <1>1, <1>2, <2>1, <2>2
<1>6. /\ MaintenanceTyped' /\ RecordsInOrder' /\ NothingCorrupt' /\ BatchesFit'
      /\ Len(snapshot') = Len(snapshot) /\ snapshot'[job.snap] = x
  BY <1>1, <1>2, <1>3, <1>4, <1>5, OwnSnapshotChanges
<1>7. CASE job.kind = "backup"
  <2>1. job' = NoJob /\ job'.kind = "none"
    BY <1>1, <1>7, NoJobIs DEF IsJob
  <2>2. JobTyped' /\ BackupIsNew' /\ CopiesAreRight' /\ RestoresVerified'
    BY <1>2, <1>6, <2>1, NoJobParts
  <2>3. MemoryFits'
    BY <1>1, <1>7, <2>1 DEF StorageInv, MemoryFits
  <2>4. Worse /\ Tidy' => \A f \in File : AtVersion(file[f], schema.version, Lost')
    <3>1. \A f \in File : VersionOf(f) = schema.version
      BY <1>7 DEF VersionOf
    <3> QED BY <1>7, <3>1, FilesLater
  <2>5. FilesFit'
    BY <1>1, <2>1, <2>4, FilesFitWithoutJob, SamePast
  <2> QED BY <1>6, <2>2, <2>3, <2>5 DEF StorageInv
<1>8. CASE job.kind = "migrate"
  <2>1. /\ job' \in JobRecord(Len(snapshot))
        /\ IsJob(job', job.kind, "next", job.at, job.from, job.version, job.target, job.snap, job.before)
    BY <1>1, <1>2, <1>8, JobFields DEF JobPc
  <2>2. /\ job'.kind = job.kind /\ job'.pc = "next" /\ job'.snap = job.snap /\ job'.before = job.before
    BY <2>1 DEF IsJob
  <2>3. JobTyped' /\ BackupIsNew' /\ RestoresVerified' /\ MemoryFits' /\ FilesFit'
    BY <1>1, <1>6, <1>8, <2>1, BackupGoesOn DEF Backing, Copying
  <2>4. CopiesAreRight'
    <3> SUFFICES ASSUME past["overlap"] = 0 PROVE CopiesAreRight'
      BY <1>1 DEF CopiesAreRight
    <3>1. o.files = job.before /\ o.sums = job.before
      BY <1>1, <1>2 DEF StorageInv, CopiesAreRight, Copying, Backing
    <3> QED BY <1>4, <1>6, <2>2, <3>1 DEF CopiesAreRight, Copying, Backing
  <2> QED BY <1>6, <2>3, <2>4 DEF StorageInv
<1> QED BY <1>2, <1>7, <1>8

LEMMA DamageStep ==
  ASSUME StorageInv, Damage
  PROVE  StorageInv'
<1>1. job.kind = "none" /\ UNCHANGED <<loaded, schema, job>>
  BY DEF Damage, Idle
<1>2. job.pc = "idle" /\ Len(snapshot) \in Nat
  BY <1>1, StorageFacts DEF PcFits
<1>3. CASE /\ Happens("damage") /\ UNCHANGED snapshot
           /\ \E f \in File : file' = [file EXCEPT ![f] = Corrupt]
  <2>1. Worse /\ past'["damage"] # 0
    BY <1>3, OneHappens DEF Mishaps
  <2>2. file' \in Tree
    BY <1>3, StorageFacts DEF Tree, Contents
  <2>3. MaintenanceTyped'
    BY <1>1, <1>3, <2>1, <2>2 DEF StorageInv, MaintenanceTyped, Worse
  <2>4. RecordsInOrder' /\ BatchesFit'
    BY <1>1, <1>2, <1>3, <2>1, RecordsStay, BatchesStay
  <2>5. JobTyped' /\ BackupIsNew' /\ CopiesAreRight' /\ RestoresVerified'
    BY <1>1, <1>2, <1>3
       DEF StorageInv, JobTyped, BackupIsNew, CopiesAreRight, RestoresVerified, OwnBackup
  <2>6. NothingCorrupt' /\ MemoryFits' /\ FilesFit'
    BY <1>1, <2>1 DEF NothingCorrupt, MemoryFits, FilesFit, Tidy
  <2> QED BY <2>3, <2>4, <2>5, <2>6 DEF StorageInv
<1>4. CASE /\ Happens("rot") /\ UNCHANGED file
           /\ \E s \in DOMAIN snapshot, f \in File : snapshot' = [snapshot EXCEPT ![s].files[f] = Corrupt]
  <2>1. Worse /\ past \in [Mishaps -> Nat]
    BY <1>4, OneHappens, StorageFacts DEF Mishaps
  <2>2. PICK s \in DOMAIN snapshot, f \in File : snapshot' = [snapshot EXCEPT ![s].files[f] = Corrupt]
    BY <1>4
  <2> DEFINE o == snapshot[s]
             x == [o EXCEPT !.files = [o.files EXCEPT ![f] = Corrupt]]
  <2>3. snapshot' = [snapshot EXCEPT ![s] = x]
    BY <2>2
  <2>4. o \in Snapshot
    BY <2>2, SnapshotFacts
  <2>5. x \in Snapshot /\ x.sums = o.sums
    BY <2>4 DEF Snapshot
  <2> HIDE DEF x
  <2>6. /\ snapshot' \in Seq(Snapshot) /\ Len(snapshot') = Len(snapshot) /\ DOMAIN snapshot' = DOMAIN snapshot
        /\ \A q \in DOMAIN snapshot : snapshot'[q].sums = snapshot[q].sums
    <3>1. snapshot \in Seq(Snapshot)
      BY StorageFacts
    <3> QED BY <2>2, <2>3, <2>5, <3>1
  <2>7. MaintenanceTyped'
    BY <1>1, <1>4, <2>1, <2>6 DEF StorageInv, MaintenanceTyped, Worse
  <2>8. RecordsInOrder' /\ BatchesFit'
    <3>1. \A i \in 1..Saved : schema.applied[i].snap # 0 => schema.applied[i].snap \in DOMAIN snapshot
      BY <1>2, StorageFacts, SnapshotFacts
    <3> QED BY <1>1, <1>2, <2>1, <2>6, <3>1, RecordsStay, BatchesStay
  <2>9. JobTyped' /\ BackupIsNew' /\ CopiesAreRight' /\ RestoresVerified'
    BY <1>1, <1>2, <2>6 DEF StorageInv, JobTyped, BackupIsNew, CopiesAreRight, RestoresVerified, OwnBackup
  <2>10. past'["damage"] = 0 => past["damage"] = 0
    BY <2>1, LaterTidy
  <2>11. NothingCorrupt'
    BY <1>4, <2>6, <2>10 DEF StorageInv, NothingCorrupt, Intact
  <2>12. MemoryFits'
    BY <1>1, <1>4, <2>1, LaterTidy DEF StorageInv, MemoryFits
  <2>13. FilesFit'
    <3> SUFFICES ASSUME Tidy' PROVE FilesFit'
      BY DEF FilesFit
    <3>1. \A g \in File : AtVersion(file[g], schema.version, Lost')
      BY <1>1, <2>1, FilesLater DEF VersionOf
    <3>2. /\ loaded # Closed => \A g \in File : AtVersion(loaded[g], schema.version, Lost')
          /\ \A g \in File, v \in Version : file[g].applied[v] <= 1 + Lost'
      BY <2>1, FilesLater
    <3> QED BY <1>1, <1>4, <3>1, <3>2 DEF FilesFit, VersionOf
  <2> QED BY <2>7, <2>8, <2>9, <2>11, <2>12, <2>13 DEF StorageInv
<1> QED BY <1>3, <1>4 DEF Damage

(* What does not depend on the job, when files change and snapshots do not. *)
LEMMA FilesChange ==
  ASSUME StorageInv, UNCHANGED <<schema, snapshot, past>>, file' \in Tree,
         loaded' \in [File -> Content] \cup {Closed}, past["damage"] = 0 => \A f \in File : file'[f] # Corrupt,
         \/ job'.kind # "rollback"
         \/ job.kind = "rollback" /\ job'.target = job.target /\ job'.snap = job.snap
  PROVE  MaintenanceTyped' /\ RecordsInOrder' /\ NothingCorrupt' /\ BatchesFit'
<1>1. Worse /\ Len(snapshot) \in Nat
  BY SamePast, StorageFacts
<1>2. MaintenanceTyped'
  BY DEF StorageInv, MaintenanceTyped
<1>3. RecordsInOrder' /\ BatchesFit'
  BY <1>1, RecordsStay, BatchesStay
<1>4. NothingCorrupt'
  BY DEF StorageInv, NothingCorrupt, Intact
<1> QED BY <1>2, <1>3, <1>4

LEMMA MigratesFileStep ==
  ASSUME StorageInv, MigratesFile
  PROVE  StorageInv'
<1> DEFINE o == file[job.at]
           a == [o.applied EXCEPT ![job.version] = o.applied[job.version] + 1]
           x == [o EXCEPT !.applied = a]
<1>1. /\ job.pc = "up" /\ job.at <= NumFiles /\ o # Corrupt
      /\ file' = [file EXCEPT ![job.at] = x] /\ job' = [job EXCEPT !.at = @ + 1]
      /\ UNCHANGED <<loaded, schema, snapshot, past>>
  BY DEF MigratesFile
<1>2. Worse /\ Tidy' = Tidy /\ Lost' = Lost
  BY <1>1, SamePast
<1>3. /\ Len(snapshot) \in Nat /\ loaded' \in [File -> Content] \cup {Closed}
      /\ job \in JobRecord(Len(snapshot)) /\ job.kind = "migrate" /\ job.at \in File
      /\ job.at \in Int /\ job.version \in Version /\ job.version \in Int /\ file \in Tree /\ NumFiles \in Nat
  BY <1>1, StorageFacts, FreshContent DEF StorageInv, MaintenanceTyped, Kinds, PcFits, Backing, File
<1>4. o \in Content
  BY <1>1, <1>3, FreshContent DEF Tree
<1>5. /\ x \in Content /\ x # Corrupt
      /\ x.applied[job.version] = o.applied[job.version] + 1
      /\ \A v \in Version : v # job.version => x.applied[v] = o.applied[v]
  <2>1. o = [change |-> o.change, applied |-> o.applied] /\ o.change \in Nat /\ o.applied \in [Version -> Nat]
    BY <1>4 DEF Content
  <2>2. /\ a \in [Version -> Nat] /\ a[job.version] = o.applied[job.version] + 1
        /\ \A v \in Version : v # job.version => a[v] = o.applied[v]
    <3> HIDE DEF o
    <3> QED BY <1>3, <2>1
  <2> HIDE DEF a, o
  <2>3. x = [change |-> o.change, applied |-> a]
    BY <2>1
  <2>4. x \in Content /\ x.applied = a
    BY <2>1, <2>2, <2>3 DEF Content
  <2> QED BY <2>2, <2>4, StorageAssumption
<1> HIDE DEF x, a
<1>6. /\ file' \in Tree /\ file'[job.at] = x /\ \A f \in File : f # job.at => file'[f] = file[f]
  BY <1>1, <1>3, <1>5 DEF Tree, Contents
<1>7. /\ job' \in JobRecord(Len(snapshot))
      /\ IsJob(job', job.kind, job.pc, job.at + 1, job.from, job.version, job.target, job.snap, job.before)
  <2>1. job.at + 1 \in 1..NumFiles + 1
    BY <1>1, <1>3 DEF File
  <2> QED BY <1>1, <1>3, <2>1, JobAtFields
<1>8. /\ job'.kind = "migrate" /\ job'.pc = "up" /\ job'.at = job.at + 1 /\ job'.from = job.from
      /\ job'.version = job.version /\ job'.target = job.target /\ job'.snap = job.snap
      /\ job'.before = job.before
  BY <1>1, <1>3, <1>7 DEF IsJob
<1>9. MaintenanceTyped' /\ RecordsInOrder' /\ NothingCorrupt' /\ BatchesFit'
  <2>1. past["damage"] = 0 => \A f \in File : file'[f] # Corrupt
    BY <1>5, <1>6 DEF StorageInv, NothingCorrupt, Intact
  <2> QED BY <1>1, <1>3, <1>6, <1>8, <2>1, FilesChange
<1>10. JobTyped'
  BY <1>1, <1>3, <1>7, <1>8 DEF StorageInv, JobTyped, PcFits, Copying, Backing
<1>11. BackupIsNew'
  BY <1>1, <1>3, <1>8 DEF StorageInv, BackupIsNew, OwnBackup, Saved
<1>12. CopiesAreRight'
  BY <1>1, <1>3, <1>8 DEF StorageInv, CopiesAreRight, OwnBackup, Copying, Backing
<1>13. RestoresVerified' /\ MemoryFits'
  BY <1>1, <1>3, <1>8 DEF StorageInv, RestoresVerified, MemoryFits
<1>14. FilesFit'
  <2> SUFFICES ASSUME Tidy PROVE FilesFit'
    BY <1>2 DEF FilesFit
  <2>1. /\ past["overlap"] = 0 /\ file \in [File -> Content] /\ Lost \in Nat
        /\ \A f \in File : AtVersion(file[f], VersionOf(f), Lost)
        /\ \A f \in File, v \in Version : file[f].applied[v] <= 1 + Lost
        /\ job.before \in [File -> Content] /\ \A f \in File : AtVersion(job.before[f], job.from, Lost)
    BY <1>1, <1>2, <1>3, FilesLater
  <2>2. loaded = Closed
    BY <1>3, <2>1 DEF StorageInv, MemoryFits
  <2>3. AtVersion(x, job.version, Lost)
    <3>1. AtVersion(o, job.version - 1, Lost)
      BY <1>1, <1>3, <2>1 DEF VersionOf
    <3>2. \A v \in Version : o.applied[v] \in Nat /\ v \in Int
      BY <1>4, FreshContent DEF Content
    <3>3. ASSUME NEW v \in Version
          PROVE  /\ x.applied[v] <= (IF v <= job.version THEN 1 ELSE 0) + Lost
                 /\ Lost = 0 => x.applied[v] >= IF v <= job.version THEN 1 ELSE 0
      <4>1. /\ o.applied[v] <= (IF v <= job.version - 1 THEN 1 ELSE 0) + Lost
            /\ Lost = 0 => o.applied[v] >= IF v <= job.version - 1 THEN 1 ELSE 0
            /\ o.applied[v] \in Nat /\ v \in Int
        BY <3>1, <3>2, FitsAt
      <4>2. CASE v = job.version
        BY <1>3, <1>5, <2>1, <4>1, <4>2
      <4>3. CASE v # job.version
        BY <1>3, <1>5, <2>1, <4>1, <4>3
      <4> QED BY <4>2, <4>3
    <3> QED BY <3>3 DEF AtVersion
  <2>4. \A f \in File : AtVersion(file'[f], VersionOf(f)', Lost) /\ file'[f] \in Content
    <3> TAKE f \in File
    <3>1. f \in Int
      BY FreshContent
    <3>2. CASE f = job.at
      <4>1. VersionOf(f)' = job.version
        BY <1>3, <1>8, <3>2 DEF VersionOf
      <4> QED BY <1>5, <1>6, <2>3, <3>2, <4>1
    <3>3. CASE f # job.at
      <4>1. VersionOf(f)' = VersionOf(f)
        BY <1>1, <1>3, <1>8, <3>1, <3>3 DEF VersionOf
      <4> QED BY <1>6, <2>1, <3>3, <4>1
    <3> QED BY <3>2, <3>3
  <2>5. \A f \in File, v \in Version : file'[f].applied[v] <= 1 + Lost
    BY <2>1, <2>4, FitsBounds
  <2> QED BY <1>1, <1>2, <1>8, <2>1, <2>2, <2>4, <2>5 DEF FilesFit
<1> QED BY <1>9, <1>10, <1>11, <1>12, <1>13, <1>14 DEF StorageInv

(* The file that is restored is what its checksum says. *)
LEMMA RestoredIs ==
  ASSUME StorageInv, job.pc = "restore", file' = [file EXCEPT ![job.at] = snapshot[job.snap].files[job.at]]
  PROVE  /\ job.at \in File /\ job.snap \in DOMAIN snapshot /\ file' \in Tree
         /\ file'[job.at] = snapshot[job.snap].sums[job.at]
         /\ \A f \in File : f # job.at => file'[f] = file[f]
         /\ past["damage"] = 0 => \A f \in File : file'[f] # Corrupt
         /\ job.kind \in {"restore", "migrate", "rollback"}
<1>1. /\ job.at \in File /\ job.snap \in DOMAIN snapshot /\ file \in Tree
      /\ job.kind \in {"restore", "migrate", "rollback"}
  BY StorageFacts DEF StorageInv, JobTyped, Copying, File, Kinds, PcFits, Backing
<1>2. snapshot[job.snap].files[job.at] = snapshot[job.snap].sums[job.at]
  BY <1>1 DEF StorageInv, RestoresVerified, Verifiable
<1>3. snapshot[job.snap].files[job.at] \in Contents
  BY <1>1, SnapshotFacts
<1>4. /\ file' \in Tree /\ file'[job.at] = snapshot[job.snap].sums[job.at]
      /\ \A f \in File : f # job.at => file'[f] = file[f]
  BY <1>1, <1>2, <1>3 DEF Tree
<1>5. past["damage"] = 0 => \A f \in File : file'[f] # Corrupt
  BY <1>1, <1>4 DEF StorageInv, NothingCorrupt, Intact
<1> QED BY <1>1, <1>4, <1>5

(* What is restored in a tidy state fits the version that is restored. *)
LEMMA RestoredFits ==
  ASSUME StorageInv, Tidy, job.pc = "restore", past' = past,
         file' = [file EXCEPT ![job.at] = snapshot[job.snap].files[job.at]]
  PROVE  /\ past["overlap"] = 0 /\ job.kind \in {"migrate", "rollback"} /\ loaded = Closed /\ Lost \in Nat
         /\ file' \in [File -> Content]
         /\ \A f \in File, v \in Version : file'[f].applied[v] <= 1 + Lost
         /\ job.before \in [File -> Content] /\ \A f \in File : AtVersion(job.before[f], job.from, Lost)
         /\ job.kind = "migrate" => \A f \in File : f <= job.at => file'[f] = job.before[f]
         /\ job.kind = "rollback" =>
              \A f \in File : AtVersion(file'[f], IF f <= job.at THEN job.target ELSE schema.version, Lost)
<1>1. /\ job.at \in File /\ job.snap \in DOMAIN snapshot
      /\ file'[job.at] = snapshot[job.snap].sums[job.at]
      /\ \A f \in File : f # job.at => file'[f] = file[f]
      /\ job.kind \in {"restore", "migrate", "rollback"} /\ file' \in Tree
  BY RestoredIs
<1>2. /\ Worse /\ Tidy' = Tidy /\ Lost' = Lost
  BY SamePast
<1>3. /\ past["overlap"] = 0 /\ past["damage"] = 0 /\ job.kind # "restore" /\ Lost \in Nat
      /\ file \in [File -> Content]
      /\ \A f \in File, v \in Version : file[f].applied[v] <= 1 + Lost
      /\ job.kind # "none" =>
           job.before \in [File -> Content] /\ \A f \in File : AtVersion(job.before[f], job.from, Lost)
      /\ job.kind = "rollback" => \A f \in File : AtVersion(file[f], VersionOf(f), Lost)
  BY <1>2, FilesLater
<1>4. /\ job.kind \in {"migrate", "rollback"} /\ loaded = Closed
      /\ job.before \in [File -> Content] /\ \A f \in File : AtVersion(job.before[f], job.from, Lost)
  BY <1>1, <1>3 DEF StorageInv, MemoryFits
<1>5. snapshot[job.snap].sums[job.at] \in Content
  BY <1>1, <1>3, ContentsFacts
<1>6. file' \in [File -> Content]
  BY <1>1, <1>3, <1>5 DEF Tree
<1>7. CASE job.kind = "migrate"
  <2>1. /\ snapshot[job.snap].sums = job.before
        /\ \A f \in File : f < job.at => file[f] = job.before[f]
    BY <1>1, <1>3, <1>7 DEF StorageInv, CopiesAreRight, OwnBackup, JobTyped, Copying, Backing
  <2>2. \A f \in File : f <= job.at => f < job.at \/ f = job.at
    BY <1>1, FreshContent
  <2>3. \A f \in File : f <= job.at => file'[f] = job.before[f]
    BY <1>1, <2>1, <2>2
  <2>4. \A f \in File, v \in Version : file'[f].applied[v] <= 1 + Lost
    <3> TAKE f \in File, v \in Version
    <3>1. CASE f = job.at
      <4>1. AtVersion(file'[f], job.from, Lost) /\ file'[f] \in Content
        BY <1>1, <1>4, <2>1, <1>6, <3>1
      <4> QED BY <1>3, <4>1, FitsBounds
    <3>2. CASE f # job.at
      BY <1>1, <1>3, <3>2
    <3> QED BY <3>1, <3>2
  <2> QED BY <1>3, <1>4, <1>6, <1>7, <2>3, <2>4
<1>8. CASE job.kind = "rollback"
  <2>1. AtVersion(snapshot[job.snap].sums[job.at], job.target, Lost)
    BY <1>1, <1>8 DEF StorageInv, BatchesFit
  <2>2. \A f \in File : AtVersion(file'[f], IF f <= job.at THEN job.target ELSE schema.version, Lost)
    <3> TAKE f \in File
    <3>1. f \in Int /\ job.at \in Int
      BY <1>1, FreshContent
    <3>2. CASE f = job.at
      BY <1>1, <2>1, <3>1, <3>2
    <3>3. CASE f # job.at
      <4>1. VersionOf(f) = IF f < job.at THEN job.target ELSE schema.version
        BY <1>8 DEF VersionOf
      <4> QED BY <1>1, <1>3, <1>8, <3>1, <3>3, <4>1
    <3> QED BY <3>2, <3>3
  <2>3. \A f \in File, v \in Version : file'[f].applied[v] <= 1 + Lost
    BY <1>3, <1>6, <2>2, FitsBounds
  <2> QED BY <1>3, <1>4, <1>6, <1>8, <2>2, <2>3
<1> QED BY <1>4, <1>7, <1>8

LEMMA RestoresFileStep ==
  ASSUME StorageInv, RestoresFile
  PROVE  StorageInv'
<1>1. /\ job.pc = "restore"
      /\ file' = [file EXCEPT ![job.at] = snapshot[job.snap].files[job.at]]
      /\ job' = IF job.at < NumFiles THEN [job EXCEPT !.at = @ + 1]
                ELSE IF job.kind = "rollback" THEN [job EXCEPT !.pc = "record"] ELSE NoJob
      /\ loaded' = IF job.kind = "restore" /\ job'.kind = "none" THEN Read(file') ELSE loaded
      /\ UNCHANGED <<schema, snapshot, past>>
  BY DEF RestoresFile
<1>2. Worse /\ Tidy' = Tidy /\ Lost' = Lost
  BY <1>1, SamePast
<1>3. /\ job.at \in File /\ file' \in Tree
      /\ past["damage"] = 0 => \A f \in File : file'[f] # Corrupt
      /\ job.kind \in {"restore", "migrate", "rollback"}
  BY <1>1, RestoredIs
<1>4. /\ Len(snapshot) \in Nat /\ job \in JobRecord(Len(snapshot)) /\ NumFiles \in Nat /\ job.at \in Int
      /\ 1 <= job.at /\ job.at <= NumFiles /\ job.at \in 1..NumFiles + 1
      /\ loaded \in [File -> Content] \cup {Closed} /\ loaded' \in [File -> Content] \cup {Closed}
  <2>1. Read(file') \in [File -> Content]
    BY <1>3, ReadIs
  <2> QED BY <1>1, <1>3, <2>1, StorageFacts, FreshContent DEF StorageInv, MaintenanceTyped
<1>5. CASE job.at < NumFiles
  <2>1. /\ job' \in JobRecord(Len(snapshot))
        /\ IsJob(job', job.kind, job.pc, job.at + 1, job.from, job.version, job.target, job.snap, job.before)
    <3>1. job.at + 1 \in 1..NumFiles + 1
      BY <1>4, <1>5
    <3> QED BY <1>1, <1>4, <1>5, <3>1, JobAtFields
  <2>2. /\ job'.kind = job.kind /\ job'.pc = "restore" /\ job'.at = job.at + 1 /\ job'.from = job.from
        /\ job'.version = job.version /\ job'.target = job.target /\ job'.snap = job.snap
        /\ job'.before = job.before /\ loaded' = loaded
    BY <1>1, <1>3, <2>1 DEF IsJob
  <2>3. MaintenanceTyped' /\ RecordsInOrder' /\ NothingCorrupt' /\ BatchesFit'
    BY <1>1, <1>3, <1>4, <2>2, FilesChange
  <2>4. JobTyped'
    BY <1>1, <1>4, <1>5, <2>1, <2>2 DEF StorageInv, JobTyped, PcFits, Copying, Backing
  <2>5. BackupIsNew'
    BY <1>1, <2>2 DEF StorageInv, BackupIsNew, OwnBackup, Saved
  <2>6. CopiesAreRight'
    <3> SUFFICES ASSUME job.kind = "migrate", past["overlap"] = 0 PROVE CopiesAreRight'
      BY <1>1, <1>3, <2>2 DEF CopiesAreRight, OwnBackup
    <3>1. /\ snapshot[job.snap].files = job.before /\ snapshot[job.snap].sums = job.before
          /\ snapshot[job.snap].manifest /\ \A f \in File : f < job.at => file[f] = job.before[f]
      BY <1>1 DEF StorageInv, CopiesAreRight, OwnBackup, JobTyped, Copying, Backing
    <3>2. \A f \in File : f < job.at + 1 => file'[f] = job.before[f]
      <4>1. \A f \in File : f < job.at + 1 => f < job.at \/ f = job.at
        BY <1>4, FreshContent
      <4>2. file'[job.at] = job.before[job.at] /\ \A f \in File : f # job.at => file'[f] = file[f]
        BY <1>1, <3>1, RestoredIs
      <4> QED BY <3>1, <4>1, <4>2
    <3> QED BY <1>1, <2>2, <3>1, <3>2, SMTT(30) DEF CopiesAreRight, OwnBackup, Copying, Backing
  <2>7. RestoresVerified'
    BY <1>1, <2>2 DEF StorageInv, RestoresVerified, Verifiable
  <2>8. MemoryFits'
    BY <1>1, <1>3, <2>2 DEF StorageInv, MemoryFits
  <2>9. FilesFit'
    <3> SUFFICES ASSUME Tidy PROVE FilesFit'
      BY <1>2 DEF FilesFit
    <3>1. /\ job.kind \in {"migrate", "rollback"} /\ loaded = Closed
          /\ \A f \in File, v \in Version : file'[f].applied[v] <= 1 + Lost
          /\ job.before \in [File -> Content] /\ \A f \in File : AtVersion(job.before[f], job.from, Lost)
          /\ job.kind = "rollback" =>
               \A f \in File : AtVersion(file'[f], IF f <= job.at THEN job.target ELSE schema.version, Lost)
      BY <1>1, RestoredFits
    <3>2. job.kind = "rollback" =>
            \A f \in File : VersionOf(f)' = IF f <= job.at THEN job.target ELSE schema.version
      <4>1. \A f \in File : f < job.at + 1 <=> f <= job.at
        BY <1>4, FreshContent
      <4> QED BY <1>1, <2>2, <4>1 DEF VersionOf
    <3> QED BY <1>1, <1>2, <2>2, <3>1, <3>2 DEF FilesFit
  <2> QED BY <2>3, <2>4, <2>5, <2>6, <2>7, <2>8, <2>9 DEF StorageInv
<1>6. CASE ~(job.at < NumFiles) /\ job.kind = "rollback"
  <2>1. /\ job' \in JobRecord(Len(snapshot))
        /\ IsJob(job', job.kind, "record", job.at, job.from, job.version, job.target, job.snap, job.before)
    BY <1>1, <1>4, <1>6, JobFields DEF JobPc
  <2>2. /\ job'.kind = "rollback" /\ job'.pc = "record" /\ job'.from = job.from
        /\ job'.target = job.target /\ job'.snap = job.snap
        /\ job'.before = job.before /\ loaded' = loaded
    BY <1>1, <1>6, <2>1 DEF IsJob
  <2>3. MaintenanceTyped' /\ RecordsInOrder' /\ NothingCorrupt' /\ BatchesFit'
    BY <1>1, <1>3, <1>4, <1>6, <2>2, FilesChange
  <2>4. JobTyped'
    BY <1>1, <1>4, <1>6, <2>1, <2>2 DEF StorageInv, JobTyped, PcFits, Copying, Backing
  <2>5. BackupIsNew' /\ CopiesAreRight' /\ RestoresVerified'
    BY <2>2 DEF BackupIsNew, CopiesAreRight, RestoresVerified, OwnBackup
  <2>6. MemoryFits'
    BY <1>1, <1>6, <2>2 DEF StorageInv, MemoryFits
  <2>7. FilesFit'
    <3> SUFFICES ASSUME Tidy PROVE FilesFit'
      BY <1>2 DEF FilesFit
    <3>1. /\ loaded = Closed
          /\ \A f \in File, v \in Version : file'[f].applied[v] <= 1 + Lost
          /\ job.before \in [File -> Content] /\ \A f \in File : AtVersion(job.before[f], job.from, Lost)
          /\ \A f \in File : AtVersion(file'[f], IF f <= job.at THEN job.target ELSE schema.version, Lost)
      BY <1>1, <1>6, RestoredFits
    <3>2. \A f \in File : f <= job.at /\ VersionOf(f)' = job.target
      BY <1>4, <1>6, <2>2, FreshContent DEF VersionOf
    <3> QED BY <1>1, <1>2, <2>2, <3>1, <3>2 DEF FilesFit
  <2> QED BY <2>3, <2>4, <2>5, <2>6, <2>7 DEF StorageInv
<1>7. CASE ~(job.at < NumFiles) /\ job.kind # "rollback"
  <2>1. job' = NoJob /\ job'.kind = "none"
    BY <1>1, <1>7, NoJobIs DEF IsJob
  <2>2. MaintenanceTyped' /\ RecordsInOrder' /\ NothingCorrupt' /\ BatchesFit'
    BY <1>1, <1>3, <1>4, <2>1, FilesChange
  <2>3. JobTyped' /\ BackupIsNew' /\ CopiesAreRight' /\ RestoresVerified'
    BY <1>1, <1>4, <2>1, NoJobParts
  <2>4. MemoryFits'
    <3>1. CASE job.kind = "restore"
      <4>1. loaded' = Read(file')
        BY <1>1, <2>1, <3>1
      <4>2. past["damage"] = 0 => loaded' = file'
        BY <1>3, <4>1, ReadIs
      <4> QED BY <1>1, <2>1, <4>2 DEF MemoryFits
    <3>2. CASE job.kind = "migrate"
      BY <1>1, <2>1, <3>2 DEF StorageInv, MemoryFits
    <3> QED BY <1>3, <1>7, <3>1, <3>2
  <2>5. FilesFit'
    <3> SUFFICES ASSUME Tidy PROVE FilesFit'
      BY <1>2 DEF FilesFit
    <3>1. /\ loaded = Closed /\ job.kind = "migrate"
          /\ \A f \in File, v \in Version : file'[f].applied[v] <= 1 + Lost
          /\ \A f \in File : AtVersion(job.before[f], job.from, Lost)
          /\ \A f \in File : f <= job.at => file'[f] = job.before[f]
      BY <1>1, <1>7, RestoredFits
    <3>2. job.from = schema.version /\ \A f \in File : f <= job.at
      BY <1>4, <1>7, <3>1, FreshContent DEF StorageInv, JobTyped
    <3>3. loaded' = Closed /\ \A f \in File : AtVersion(file'[f], schema.version, Lost)
      BY <1>1, <3>1, <3>2
    <3> QED BY <1>1, <1>2, <2>1, <3>1, <3>3 DEF FilesFit, VersionOf
  <2> QED BY <2>2, <2>3, <2>4, <2>5 DEF StorageInv
<1> QED BY <1>5, <1>6, <1>7

(* What a finished job leaves fits the new version of the schema. *)
LEMMA RecordsJobEnds ==
  ASSUME StorageInv, job.pc = "record", job' = NoJob, UNCHANGED <<file, loaded, snapshot, past>>,
         NEW n \in Version, n = job.target, schema'.version = n, DOMAIN schema' = {"version", "applied"},
         schema'.applied \in Seq(RecordOf(Len(snapshot))), Len(schema'.applied) = n - 1,
         \A i \in 1..n - 1 : schema'.applied[i].version = i + 1,
         Tidy => \A i \in 1..n - 1 :
           /\ schema'.applied[i].snap # 0
           /\ \A j \in 1..n - 1 : j < i => schema'.applied[j].snap # schema'.applied[i].snap
           => \A f \in File : AtVersion(snapshot[schema'.applied[i].snap].sums[f], i, Lost)
  PROVE  StorageInv'
<1>1. Worse /\ Tidy' = Tidy /\ Lost' = Lost
  BY SamePast
<1>2. /\ Len(snapshot) \in Nat /\ Saved' = n - 1 /\ loaded \in [File -> Content] \cup {Closed} /\ n \in Int
      /\ job'.kind = "none" /\ job.kind \in {"migrate", "rollback"}
  BY StorageFacts, NoJobIs, FreshContent DEF StorageInv, MaintenanceTyped, Saved, IsJob, PcFits, Kinds, Backing
<1>3. MaintenanceTyped'
  BY DEF StorageInv, MaintenanceTyped
<1>4. JobTyped' /\ BackupIsNew' /\ CopiesAreRight' /\ RestoresVerified'
  BY <1>2, NoJobParts
<1>5. RecordsInOrder'
  BY <1>2 DEF RecordsInOrder
<1>6. NothingCorrupt'
  BY DEF StorageInv, NothingCorrupt, Intact
<1>7. MemoryFits'
  BY <1>2 DEF StorageInv, MemoryFits
<1>8. BatchesFit'
  BY <1>1, <1>2 DEF BatchesFit, FirstOf
<1>9. FilesFit'
  <2> SUFFICES ASSUME Tidy PROVE FilesFit'
    BY <1>1 DEF FilesFit
  <2>1. /\ past["overlap"] = 0 /\ \A f \in File : AtVersion(file[f], VersionOf(f), Lost)
        /\ \A f \in File, v \in Version : file[f].applied[v] <= 1 + Lost
    BY <1>1, FilesLater
  <2>2. loaded = Closed
    BY <1>2, <2>1 DEF StorageInv, MemoryFits
  <2>3. \A f \in File : VersionOf(f) = n
    BY <1>2 DEF VersionOf, StorageInv, JobTyped
  <2> QED BY <1>1, <1>2, <2>1, <2>2, <2>3 DEF FilesFit, VersionOf
<1> QED BY <1>3, <1>4, <1>5, <1>6, <1>7, <1>8, <1>9 DEF StorageInv

LEMMA Concatenated ==
  ASSUME NEW B, NEW a \in Seq(B), NEW b \in Seq(B)
  PROVE  /\ a \o b \in Seq(B) /\ Len(a \o b) = Len(a) + Len(b)
         /\ \A i \in 1..Len(a) : (a \o b)[i] = a[i]
         /\ \A i \in 1..Len(a) + Len(b) : i > Len(a) => (a \o b)[i] = b[i - Len(a)] /\ i - Len(a) \in 1..Len(b)
<1> QED OBVIOUS

LEMMA RecordsMigrationStep ==
  ASSUME StorageInv, RecordsMigration
  PROVE  StorageInv'
<1> DEFINE old == schema.applied
           new == schema.applied \o Pending
           R   == RecordOf(Len(snapshot))
<1>1. /\ job.pc = "record" /\ job.kind = "migrate" /\ job' = NoJob
      /\ schema' = [version |-> job.target, applied |-> new]
      /\ UNCHANGED <<file, loaded, snapshot, past>>
  BY DEF RecordsMigration
<1>2. /\ old \in Seq(R) /\ Len(old) = Saved /\ \A i \in 1..Saved : old[i].version = i + 1 /\ old[i].snap \in 0..Len(snapshot)
      /\ Saved \in Nat /\ Len(snapshot) \in Nat /\ job.snap \in 0..Len(snapshot)
      /\ job.from = Saved + 1 /\ job.from \in Int /\ job.target \in Int /\ job.target \in Version
      /\ job.from <= job.target /\ DOMAIN snapshot = 1..Len(snapshot)
  <2>1. job.from = schema.version /\ job.from <= job.version /\ job.version = job.target
    BY <1>1 DEF StorageInv, JobTyped
  <2> QED BY <2>1, StorageFacts, SnapshotFacts, FreshContent DEF StorageInv, RecordsInOrder, Saved
<1>3. /\ Pending \in Seq(R) /\ Len(Pending) = job.target - job.from
      /\ \A i \in 1..job.target - job.from : Pending[i].version = job.from + i /\ Pending[i].snap = job.snap
  <2> DEFINE n == job.target - job.from
  <2>1. n \in Nat /\ Pending = [i \in 1..n |-> [version |-> job.from + i, snap |-> job.snap]]
    BY <1>2 DEF Pending
  <2>2. \A i \in 1..n : job.from + i \in Version
    BY <1>2, StorageAssumption DEF Version
  <2>3. \A i \in 1..n : [version |-> job.from + i, snap |-> job.snap] \in R
    BY <1>2, <2>2 DEF RecordOf
  <2> HIDE DEF n, R
  <2>4. Pending \in [1..n -> R] /\ DOMAIN Pending = 1..n
    BY <2>1, <2>3
  <2>5. Pending \in Seq(R) /\ Len(Pending) = n
    BY <2>1, <2>4
  <2> QED BY <2>1, <2>5 DEF n
<1>4. /\ new \in Seq(R) /\ Len(new) = job.target - 1
      /\ \A i \in 1..Saved : new[i] = old[i]
      /\ \A i \in 1..job.target - 1 : i > Saved => new[i] = Pending[i - Saved] /\ i - Saved \in 1..job.target - job.from
  <2>1. Len(old) = Saved /\ Len(Pending) = job.target - job.from
    BY <1>2, <1>3
  <2>2. Saved + (job.target - job.from) = job.target - 1
    <3>1. Saved \in Int /\ job.target \in Int /\ job.from = Saved + 1
      BY <1>2
    <3> QED BY <3>1
  <2>3. old \in Seq(R) /\ Pending \in Seq(R)
    BY <1>2, <1>3
  <2> HIDE DEF R, old
  <2>4. /\ old \o Pending \in Seq(R) /\ Len(old \o Pending) = Len(old) + Len(Pending)
        /\ \A i \in 1..Len(old) : (old \o Pending)[i] = old[i]
        /\ \A i \in 1..Len(old) + Len(Pending) : i > Len(old) =>
             (old \o Pending)[i] = Pending[i - Len(old)] /\ i - Len(old) \in 1..Len(Pending)
    BY <2>3, Concatenated
  <2>5. new = old \o Pending
    BY DEF old
  <2> HIDE DEF new
  <2> QED BY <2>1, <2>2, <2>4, <2>5
<1> HIDE DEF new, R
<1>5. \A i \in 1..job.target - 1 :
        /\ new[i].version = i + 1
        /\ i <= Saved => new[i].snap = old[i].snap /\ i \in 1..Saved
        /\ i > Saved => new[i].snap = job.snap
  <2> TAKE i \in 1..job.target - 1
  <2>1. CASE i <= Saved
    <3>1. i \in 1..Saved
      BY <1>2, <2>1
    <3> QED BY <1>2, <1>4, <2>1, <3>1
  <2>2. CASE ~(i <= Saved)
    BY <1>2, <1>3, <1>4, <2>2
  <2> QED BY <2>1, <2>2
<1>6. ASSUME Tidy, NEW i \in 1..job.target - 1, new[i].snap # 0,
             \A j \in 1..job.target - 1 : j < i => new[j].snap # new[i].snap
      PROVE  \A f \in File : AtVersion(snapshot[new[i].snap].sums[f], i, Lost)
  <2>1. CASE i <= Saved
    <3>1. i \in 1..Saved /\ new[i].snap = old[i].snap
      BY <1>5, <2>1
    <3>2. \A j \in 1..Saved : j < i => old[j].snap # old[i].snap
      <4>1. \A j \in 1..Saved : j \in 1..job.target - 1 /\ j <= Saved
        BY <1>2
      <4> QED BY <1>5, <1>6, <3>1, <4>1
    <3>3. FirstOf(i)
      BY <1>6, <3>1, <3>2 DEF FirstOf
    <3> QED BY <1>6, <3>1, <3>3 DEF StorageInv, BatchesFit
  <2>2. CASE ~(i <= Saved)
    <3>1. i > Saved /\ new[i].snap = job.snap /\ job.snap # 0
      BY <1>2, <1>5, <1>6, <2>2
    <3>2. i = Saved + 1
      <4> SUFFICES ASSUME i # Saved + 1 PROVE FALSE
        OBVIOUS
      <4>1. Saved + 1 \in 1..job.target - 1 /\ Saved + 1 < i /\ Saved + 1 > Saved
        BY <1>2, <3>1
      <4> QED BY <1>5, <1>6, <3>1, <4>1
    <3>3. i = job.from
      BY <1>2, <3>2
    <3>4. past["overlap"] = 0 /\ Lost \in Nat
      <4>1. past \in [Mishaps -> Nat] /\ Worse
        BY <1>1, SamePast, StorageFacts
      <4> QED BY <1>6, <4>1, LaterTidy
    <3>5. snapshot[job.snap].sums = job.before
      BY <1>1, <3>1, <3>4 DEF StorageInv, CopiesAreRight, OwnBackup, Copying
    <3>6. \A f \in File : AtVersion(job.before[f], job.from, Lost)
      BY <1>1, <1>6 DEF StorageInv, FilesFit
    <3> QED BY <3>1, <3>3, <3>5, <3>6
  <2> QED BY <2>1, <2>2
<1>7. /\ schema'.version = job.target /\ schema'.applied = new /\ DOMAIN schema' = {"version", "applied"}
  BY <1>1
<1>8. new \in Seq(RecordOf(Len(snapshot)))
  BY <1>4 DEF R
<1> QED BY <1>1, <1>2, <1>4, <1>5, <1>6, <1>7, <1>8, RecordsJobEnds

(* The records have the versions from 2 on, so those up to the target are the first. *)
LEMMA KeptRecordsIs ==
  ASSUME NEW B, NEW s \in Seq(B), NEW t \in Nat, t \in 1..Len(s) + 1,
         \A i \in DOMAIN s : s[i].version = i + 1
  PROVE  /\ KeptRecords(s, t) \in Seq(B) /\ Len(KeptRecords(s, t)) = t - 1
         /\ \A i \in 1..t - 1 : KeptRecords(s, t)[i] = s[i]
<1> DEFINE n == Len(s)
           More(f, k) == IF s[k].version <= t THEN Append(f, s[k]) ELSE f
           step == [k \in 1..n |-> [f \in Seq(B) |-> More(f, k)]]
           kept == CHOOSE f : f = [k \in 0..n |-> IF k = 0 THEN <<>> ELSE More(f[k - 1], k)]
<1>1. n \in Nat /\ DOMAIN s = 1..n /\ \A k \in 1..n : s[k] \in B /\ s[k].version = k + 1
  OBVIOUS
<1>2. ASSUME NEW f \in Seq(B), NEW k \in 1..n PROVE More(f, k) \in Seq(B)
  BY <1>1
<1>3. step \in [1..n -> [Seq(B) -> Seq(B)]]
  <2> HIDE DEF More
  <2> QED BY <1>2
<1>4. PICK f \in [0..n -> Seq(B)] : Iterates(f, <<>>, step, n)
  <2> HIDE DEF step, n
  <2>1. n \in Nat /\ <<>> \in Seq(B)
    BY <1>1
  <2> QED BY <1>3, <2>1, RecursionUpTo
<1>5. \A k \in 1..n : f[k] = More(f[k - 1], k)
  <2> HIDE DEF More
  <2>1. \A k \in 1..n : k - 1 \in 0..n
    BY <1>1
  <2> QED BY <1>4, <2>1 DEF Iterates
<1>6. f = [k \in 0..n |-> IF k = 0 THEN <<>> ELSE More(f[k - 1], k)]
  <2> HIDE DEF More
  <2>1. \A k \in 0..n : k # 0 => k \in 1..n
    BY <1>1
  <2> QED BY <1>4, <1>5, <2>1 DEF Iterates
<1>7. kept = [k \in 0..n |-> IF k = 0 THEN <<>> ELSE More(kept[k - 1], k)]
  <2> HIDE DEF More
  <2> QED BY <1>6
<1>8. KeptRecords(s, t) = kept[n]
  BY DEF KeptRecords
<1> HIDE DEF kept
<1> DEFINE Length(k) == IF k <= t - 1 THEN k ELSE t - 1
           G == {k \in 0..n : /\ kept[k] \in Seq(B) /\ Len(kept[k]) = Length(k)
                              /\ \A i \in 1..Length(k) : kept[k][i] = s[i]}
<1>9. 0 \in G
  <2>1. kept[0] = <<>>
    BY <1>1, <1>7
  <2>2. 0 \in 0..n /\ Length(0) = 0 /\ 1..0 = {} /\ <<>> \in Seq(B) /\ Len(<<>>) = 0
    BY <1>1
  <2> HIDE DEF Length
  <2> QED BY <2>1, <2>2
<1>10. ASSUME NEW k \in 1..n, k - 1 \in G PROVE k \in G
  <2> DEFINE r == kept[k - 1]
  <2>1. /\ r \in Seq(B) /\ Len(r) = Length(k - 1) /\ \A i \in 1..Length(k - 1) : r[i] = s[i]
    BY <1>10
  <2>2. k \in 0..n /\ kept[k] = More(r, k) /\ s[k] \in B /\ s[k].version = k + 1
    <3>1. k \in 0..n /\ k # 0
      BY <1>1
    <3> HIDE DEF More
    <3>2. kept[k] = More(r, k)
      BY <1>7, <3>1
    <3> QED BY <1>1, <3>1, <3>2
  <2> HIDE DEF r
  <2>3. CASE k + 1 <= t
    <3>1. kept[k] = Append(r, s[k]) /\ Length(k) = k /\ Length(k - 1) = k - 1
      BY <2>2, <2>3
    <3>2. /\ kept[k] \in Seq(B) /\ Len(kept[k]) = k
          /\ \A i \in 1..k : kept[k][i] = s[i]
      <4>1. r \in Seq(B) /\ Len(r) = k - 1 /\ \A i \in 1..(k - 1) : r[i] = s[i]
        BY <2>1, <3>1
      <4>2. /\ kept[k] \in Seq(B) /\ Len(kept[k]) = k /\ kept[k][k] = s[k]
            /\ \A i \in 1..(k - 1) : kept[k][i] = r[i]
        BY <2>2, <3>1, <4>1
      <4>3. \A i \in 1..k : i = k \/ i \in 1..(k - 1)
        OBVIOUS
      <4> QED BY <4>1, <4>2, <4>3
    <3> QED BY <2>2, <3>1, <3>2
  <2>4. CASE ~(k + 1 <= t)
    <3>1. kept[k] = r /\ Length(k) = Length(k - 1)
      BY <2>2, <2>4
    <3> QED BY <2>1, <2>2, <3>1
  <2> QED BY <2>3, <2>4
<1>11. n \in G
  <2> HIDE DEF G
  <2>1. \A k \in 0..n : k \in G
    BY <1>1, <1>9, <1>10, InductionUpTo
  <2> QED BY <1>1, <2>1
<1>12. Length(n) = t - 1
  OBVIOUS
<1> QED BY <1>8, <1>11, <1>12

LEMMA RecordsRollbackStep ==
  ASSUME StorageInv, RecordsRollback
  PROVE  StorageInv'
<1> DEFINE old == schema.applied
           new == KeptRecords(schema.applied, job.target)
           R   == RecordOf(Len(snapshot))
<1>1. /\ job.pc = "record" /\ job.kind = "rollback" /\ job' = NoJob
      /\ schema' = [version |-> job.target, applied |-> new]
      /\ UNCHANGED <<file, loaded, snapshot, past>>
  BY DEF RecordsRollback
<1>2. /\ old \in Seq(R) /\ Len(old) = Saved /\ DOMAIN old = 1..Saved
      /\ \A i \in 1..Saved : old[i].version = i + 1
      /\ Saved \in Nat /\ job.target \in Version /\ job.target \in Nat /\ 1 <= job.target /\ job.target <= Saved
  <2>1. job.from = schema.version /\ job.target < job.from
    BY <1>1 DEF StorageInv, JobTyped
  <2> QED BY <2>1, StorageFacts, SnapshotFacts, FreshContent DEF StorageInv, RecordsInOrder, Saved
<1>3. /\ new \in Seq(R) /\ Len(new) = job.target - 1 /\ \A i \in 1..job.target - 1 : new[i] = old[i]
  <2> HIDE DEF R
  <2>1. job.target \in 1..Len(old) + 1 /\ \A i \in DOMAIN old : old[i].version = i + 1
    BY <1>2
  <2> QED BY <1>2, <2>1, KeptRecordsIs
<1> HIDE DEF new
<1>4. \A i \in 1..job.target - 1 : i \in 1..Saved /\ i \in Int
  BY <1>2
<1>5. ASSUME Tidy, NEW i \in 1..job.target - 1, new[i].snap # 0,
             \A j \in 1..job.target - 1 : j < i => new[j].snap # new[i].snap
      PROVE  \A f \in File : AtVersion(snapshot[new[i].snap].sums[f], i, Lost)
  <2>1. \A j \in 1..Saved : j < i => j \in 1..job.target - 1
    BY <1>2, <1>4
  <2>2. FirstOf(i)
    BY <1>3, <1>4, <1>5, <2>1 DEF FirstOf
  <2> QED BY <1>3, <1>4, <1>5, <2>2 DEF StorageInv, BatchesFit
<1>6. /\ schema'.version = job.target /\ schema'.applied = new /\ DOMAIN schema' = {"version", "applied"}
  BY <1>1
<1>7. \A i \in 1..job.target - 1 : schema'.applied[i].version = i + 1
  BY <1>2, <1>3, <1>4, <1>6
<1> QED BY <1>1, <1>2, <1>3, <1>5, <1>6, <1>7, RecordsJobEnds

LEMMA StorageInitInvariant == StorageInit => StorageInv
<1> SUFFICES ASSUME StorageInit PROVE StorageInv
  OBVIOUS
<1>1. /\ file = [f \in File |-> Fresh] /\ loaded = Closed /\ schema = [version |-> 1, applied |-> <<>>]
      /\ snapshot = <<>> /\ job = NoJob /\ past = [m \in Mishaps |-> 0]
  BY DEF StorageInit
<1>2. /\ schema.version = 1 /\ schema.applied = <<>> /\ DOMAIN schema = {"version", "applied"}
      /\ Len(snapshot) = 0 /\ DOMAIN snapshot = {} /\ Saved = 0 /\ 1..Saved = {}
      /\ job.kind = "none" /\ job.pc = "idle" /\ job.snap = 0 /\ NoJob \in JobRecord(0)
      /\ \A m \in Mishaps : past[m] = 0
  BY <1>1, NoJobIs DEF Saved, IsJob
<1>3. file \in Tree /\ \A f \in File : file[f] = Fresh
  BY <1>1, FreshContent DEF Tree
<1>4. MaintenanceTyped
  <2>1. snapshot \in Seq(Snapshot)
    BY <1>1
  <2>2. past \in [Mishaps -> Nat]
    BY <1>1
  <2> QED BY <1>1, <1>2, <1>3, <2>1, <2>2, FreshContent DEF MaintenanceTyped
<1>5. JobTyped
  BY <1>1, <1>2 DEF JobTyped, PcFits, Copying, Backing
<1>6. RecordsInOrder
  BY <1>2 DEF RecordsInOrder
<1>7. BackupIsNew /\ CopiesAreRight /\ RestoresVerified
  BY <1>2 DEF BackupIsNew, CopiesAreRight, RestoresVerified, OwnBackup
<1>8. NothingCorrupt
  BY <1>2, <1>3, FreshContent DEF NothingCorrupt, Intact
<1>9. MemoryFits
  BY <1>1, <1>2 DEF MemoryFits
<1>10. Lost = 0
  BY <1>2 DEF Lost, Mishaps
<1>11. FilesFit
  <2>1. \A f \in File : AtVersion(file[f], VersionOf(f), Lost)
    BY <1>2, <1>3, <1>10, FreshContent DEF VersionOf
  <2>2. \A f \in File, v \in Version : file[f].applied[v] <= 1 + Lost
    BY <1>3, <1>10, FitsBounds, FreshContent
  <2> QED BY <1>1, <1>2, <2>1, <2>2 DEF FilesFit
<1>12. BatchesFit
  BY <1>2 DEF BatchesFit
<1> QED BY <1>4, <1>5, <1>6, <1>7, <1>8, <1>9, <1>11, <1>12 DEF StorageInv

LEMMA StorageNextStep ==
  ASSUME StorageInv, [StorageNext]_storageVars
  PROVE  StorageInv'
<1>1. CASE OpenAdapter
  BY <1>1, OpenAdapterStep
<1>2. CASE CloseAdapter
  BY <1>2, CloseAdapterStep
<1>3. CASE \E f \in File : Change(f)
  BY <1>3, ChangeStep
<1>4. CASE StartBackup
  BY <1>4, StartBackupStep
<1>5. CASE SumsFile
  BY <1>5, SumsFileStep
<1>6. CASE CopiesFile
  BY <1>6, CopiesFileStep
<1>7. CASE WritesManifest
  BY <1>7, WritesManifestStep
<1>8. CASE BackupThrows
  BY <1>8, BackupThrowsStep
<1>9. CASE \E s \in 1..MaxSnapshots : StartRestore(s)
  BY <1>9, StartRestoreStep
<1>10. CASE VerifiesSnapshot
  BY <1>10, VerifiesSnapshotStep
<1>11. CASE RestoresFile
  BY <1>11, RestoresFileStep
<1>12. CASE \E target \in Version, autoBackup \in BOOLEAN : StartMigration(target, autoBackup)
  BY <1>12, StartMigrationStep
<1>13. CASE NextMigration
  BY <1>13, NextMigrationStep
<1>14. CASE MigratesFile
  BY <1>14, MigratesFileStep
<1>15. CASE ValidatesMigration
  BY <1>15, ValidatesMigrationStep
<1>16. CASE MigrationFails
  BY <1>16, MigrationFailsStep
<1>17. CASE RecordsMigration
  BY <1>17, RecordsMigrationStep
<1>18. CASE \E target \in Version : StartRollback(target)
  BY <1>18, StartRollbackStep
<1>19. CASE RecordsRollback
  BY <1>19, RecordsRollbackStep
<1>20. CASE JobDies
  BY <1>20, JobDiesStep
<1>21. CASE Damage
  BY <1>21, DamageStep
<1>22. CASE RestoreThrows \/ RecordThrows
  BY <1>22, JobThrowsStep
<1>23. CASE UNCHANGED storageVars
  BY <1>23 DEF storageVars, StorageInv, MaintenanceTyped, JobTyped, RecordsInOrder, BackupIsNew, CopiesAreRight,
     RestoresVerified, NothingCorrupt, MemoryFits, FilesFit, BatchesFit, Saved, Lost, OwnBackup, Tidy,
     VersionOf, FirstOf, Intact
<1> QED BY <1>1, <1>2, <1>3, <1>4, <1>5, <1>6, <1>7, <1>8, <1>9, <1>10, <1>11, <1>12, <1>13, <1>14, <1>15,
           <1>16, <1>17, <1>18, <1>19, <1>20, <1>21, <1>22, <1>23 DEF StorageNext

(* A migration that does not get to its record ends by a restore, unless its process
   dies or the restore throws. *)
MigrationEnds ==
  job.kind = "migrate" /\ job.snap # 0 /\ job.pc # "record" /\ job'.kind = "none"
    /\ past'["died"] = past["died"] /\ past'["restoreThrew"] = past["restoreThrew"] /\ past["overlap"] = 0

LEMMA MigrationEndsRestored ==
  ASSUME StorageInv, [StorageNext]_storageVars, MigrationEnds
  PROVE  file' = job.before
<1>1. /\ job.kind = "migrate" /\ job.snap # 0 /\ job.pc # "record" /\ job'.kind = "none"
      /\ past["overlap"] = 0 /\ OwnBackup /\ past'["died"] = past["died"]
      /\ past'["restoreThrew"] = past["restoreThrew"]
      /\ job \in JobRecord(Len(snapshot)) /\ Len(snapshot) \in Nat /\ NumFiles \in Nat
  BY StorageFacts DEF MigrationEnds, OwnBackup
<1>2. /\ job.pc \in Backing => file = job.before
      /\ job.pc \notin Copying => snapshot[job.snap].files = job.before /\ snapshot[job.snap].sums = job.before
      /\ job.pc \notin Backing => snapshot[job.snap].manifest
      /\ job.pc = "restore" => \A f \in File : f < job.at => file[f] = job.before[f]
  BY <1>1 DEF StorageInv, CopiesAreRight
<1>3. CASE BackupThrows
  BY <1>2, <1>3 DEF BackupThrows, Backing
<1>4. CASE VerifiesSnapshot
  <2>1. Verifiable(snapshot[job.snap])
    BY <1>2, <1>4 DEF VerifiesSnapshot, Verifiable, Copying, Backing
  <2>2. job' = [job EXCEPT !.pc = "restore", !.at = 1]
    BY <1>4, <2>1 DEF VerifiesSnapshot
  <2>3. 1 \in 1..NumFiles + 1 /\ "restore" \in JobPc
    BY FreshContent DEF JobPc
  <2>4. IsJob(job', job.kind, "restore", 1, job.from, job.version, job.target, job.snap, job.before)
    BY <1>1, <2>2, <2>3, JobPcAtFields
  <2> QED BY <1>1, <2>4 DEF IsJob
<1>5. CASE RestoresFile
  <2>1. /\ job.pc = "restore" /\ file' = [file EXCEPT ![job.at] = snapshot[job.snap].files[job.at]]
        /\ job.at < NumFiles => job' = [job EXCEPT !.at = @ + 1]
    BY <1>5 DEF RestoresFile
  <2>2. /\ job.at \in File /\ file' \in Tree /\ file'[job.at] = snapshot[job.snap].sums[job.at]
        /\ \A f \in File : f # job.at => file'[f] = file[f]
    BY <2>1, RestoredIs
  <2>3. ~(job.at < NumFiles)
    <3> SUFFICES ASSUME job.at < NumFiles PROVE FALSE
      OBVIOUS
    <3>1. job.at + 1 \in 1..NumFiles + 1
      BY <1>1, <2>2, FreshContent
    <3> QED BY <1>1, <2>1, <3>1, JobAtFields DEF IsJob
  <2>4. \A f \in File : f = job.at \/ f < job.at
    BY <1>1, <2>2, <2>3, FreshContent
  <2>5. \A f \in File : file'[f] = job.before[f]
    BY <1>2, <2>1, <2>2, <2>4 DEF Copying
  <2>6. job.before \in Tree
    BY StorageFacts
  <2> QED BY <2>2, <2>5, <2>6 DEF Tree
<1>6. CASE MigrationFails
  <2>1. job' = [job EXCEPT !.pc = "verify", !.at = 1]
    BY <1>1, <1>6 DEF MigrationFails
  <2>2. 1 \in 1..NumFiles + 1 /\ "verify" \in JobPc
    BY FreshContent DEF JobPc
  <2>3. IsJob(job', job.kind, "verify", 1, job.from, job.version, job.target, job.snap, job.before)
    BY <1>1, <2>1, <2>2, JobPcAtFields
  <2> QED BY <1>1, <2>3 DEF IsJob
<1>7. CASE JobDies
  <2>1. past'["died"] # 0 /\ past'["died"] > past["died"]
    <3>1. past \in [Mishaps -> Nat] /\ AllHappen({"died"}) /\ "died" \in Mishaps
      BY <1>7, StorageFacts DEF JobDies, Happens, Mishaps
    <3>2. past'["died"] = past["died"] + 1
      BY <3>1, PastGrows
    <3> QED BY <3>1, <3>2
  <2> QED BY <1>1, <2>1, StorageFacts DEF Mishaps
<1>8. CASE SumsFile
  <2>1. job' = [job EXCEPT !.pc = "copy"] /\ "copy" \in JobPc
    BY <1>8 DEF SumsFile, JobPc
  <2> QED BY <1>1, <2>1, JobFields DEF IsJob
<1>9. CASE CopiesFile
  <2>1. /\ file' = file /\ job.pc = "copy"
    BY <1>9 DEF CopiesFile
  <2> QED BY <1>2, <2>1 DEF Backing
<1>10. CASE WritesManifest
  <2>1. /\ file' = file /\ job.pc = "manifest"
    BY <1>10 DEF WritesManifest
  <2> QED BY <1>2, <2>1 DEF Backing
<1>11. CASE NextMigration
  <2> DEFINE v == job.version + 1
  <2>1. job' = IF job.version < job.target THEN [job EXCEPT !.pc = "up", !.version = v, !.at = 1]
               ELSE [job EXCEPT !.pc = "record"]
    BY <1>11 DEF NextMigration
  <2>2. "up" \in JobPc /\ "record" \in JobPc
    BY DEF JobPc
  <2>3. job.version \in Int /\ job.target \in Int /\ job.version \in Version /\ job.target \in Version
    BY StorageFacts, FreshContent
  <2>4. job.version < job.target => v \in Version
    BY <2>3, StorageAssumption DEF Version
  <2> HIDE DEF v
  <2>5. CASE job.version < job.target
    <3>1. job' = [job EXCEPT !.pc = "up", !.version = v, !.at = 1] /\ v \in Version
      BY <2>1, <2>4, <2>5
    <3>2. IsJob(job', job.kind, "up", 1, job.from, v, job.target, job.snap, job.before)
      BY <1>1, <2>2, <3>1, JobVersionFields
    <3> QED BY <1>1, <3>2 DEF IsJob
  <2>6. CASE ~(job.version < job.target)
    BY <1>1, <2>1, <2>2, <2>6, JobFields DEF IsJob
  <2> QED BY <2>5, <2>6
<1>12. CASE MigratesFile
  <2>1. job' = [job EXCEPT !.at = @ + 1] /\ job.at <= NumFiles
    BY <1>12 DEF MigratesFile
  <2>2. job.at + 1 \in 1..NumFiles + 1
    BY <1>1, <2>1, StorageFacts
  <2> QED BY <1>1, <2>1, <2>2, JobAtFields DEF IsJob
<1>13. CASE ValidatesMigration
  <2>1. job' = [job EXCEPT !.pc = "next"] /\ "next" \in JobPc
    BY <1>13 DEF ValidatesMigration, JobPc
  <2> QED BY <1>1, <2>1, JobFields DEF IsJob
<1>14. CASE RecordsMigration \/ RecordsRollback \/ RecordThrows
  BY <1>1, <1>14 DEF RecordsMigration, RecordsRollback, RecordThrows
<1>15. CASE Idle
  BY <1>1, <1>15 DEF Idle
<1>16. CASE UNCHANGED job
  BY <1>1, <1>16
<1>17. CASE RestoreThrows
  <2>1. past \in [Mishaps -> Nat] /\ AllHappen({"restoreThrew"}) /\ "restoreThrew" \in Mishaps
    BY <1>17, StorageFacts DEF RestoreThrows, Happens, Mishaps
  <2>2. past'["restoreThrew"] = past["restoreThrew"] + 1
    BY <2>1, PastGrows
  <2> QED BY <1>1, <2>1, <2>2
<1> QED BY <1>3, <1>4, <1>5, <1>6, <1>7, <1>8, <1>9, <1>10, <1>11, <1>12, <1>13, <1>14, <1>15, <1>16, <1>17
        DEF StorageNext, storageVars, OpenAdapter, CloseAdapter, Change, StartBackup, StartRestore, StartMigration,
            StartRollback, Begins, Damage

(* Only the last step of a backup writes a manifest. *)
LEMMA ManifestIsOfCopies ==
  ASSUME StorageInv, [StorageNext]_storageVars, past["overlap"] = 0,
         NEW s \in DOMAIN snapshot, snapshot'[s].manifest, ~snapshot[s].manifest
  PROVE  snapshot'[s].files = job.before /\ Verifiable(snapshot'[s])
<1>1. DOMAIN snapshot = 1..Len(snapshot) /\ Len(snapshot) \in Nat /\ snapshot[s] \in Snapshot
      /\ job.snap \in 0..Len(snapshot)
  BY StorageFacts, SnapshotFacts
<1>2. CASE WritesManifest
  <2>1. job.pc = "manifest" /\ snapshot' = [snapshot EXCEPT ![job.snap].manifest = TRUE]
    BY <1>2 DEF WritesManifest
  <2>2. job.snap = s
    BY <1>1, <2>1
  <2>3. OwnBackup
    BY <1>1, <2>1, <2>2, StorageFacts DEF OwnBackup, PcFits, Kinds, Backing
  <2>4. snapshot[s].files = job.before /\ snapshot[s].sums = job.before
    BY <2>1, <2>2, <2>3 DEF StorageInv, CopiesAreRight, Copying
  <2>5. snapshot'[s] = [snapshot[s] EXCEPT !.manifest = TRUE]
    BY <2>1, <2>2
  <2>6. snapshot'[s].files = snapshot[s].files /\ snapshot'[s].sums = snapshot[s].sums /\ snapshot'[s].manifest
    BY <1>1, <2>5 DEF Snapshot
  <2> QED BY <2>4, <2>6 DEF Verifiable
<1>3. CASE NewSnapshot
  BY <1>3, NewSnapshotIs
<1>4. CASE SumsFile
  <2>1. snapshot' = [snapshot EXCEPT ![job.snap].sums[job.at] = file[job.at]]
    BY <1>4 DEF SumsFile
  <2>2. CASE s = job.snap
    <3> DEFINE a == [snapshot[s].sums EXCEPT ![job.at] = file[job.at]]
    <3>1. snapshot'[s] = [snapshot[s] EXCEPT !.sums = a]
      BY <2>1, <2>2
    <3> HIDE DEF a
    <3> QED BY <1>1, <3>1 DEF Snapshot
  <2>3. CASE s # job.snap
    BY <2>1, <2>3
  <2> QED BY <2>2, <2>3
<1>5. CASE CopiesFile
  <2>1. snapshot' = [snapshot EXCEPT ![job.snap].files[job.at] = file[job.at]]
    BY <1>5 DEF CopiesFile
  <2>2. CASE s = job.snap
    <3> DEFINE a == [snapshot[s].files EXCEPT ![job.at] = file[job.at]]
    <3>1. snapshot'[s] = [snapshot[s] EXCEPT !.files = a]
      BY <2>1, <2>2
    <3> HIDE DEF a
    <3> QED BY <1>1, <3>1 DEF Snapshot
  <2>3. CASE s # job.snap
    BY <2>1, <2>3
  <2> QED BY <2>2, <2>3
<1>6. CASE Damage
  <2>1. CASE UNCHANGED snapshot
    BY <2>1
  <2>2. CASE \E t \in DOMAIN snapshot, f \in File : snapshot' = [snapshot EXCEPT ![t].files[f] = Corrupt]
    <3>1. PICK t \in DOMAIN snapshot, f \in File : snapshot' = [snapshot EXCEPT ![t].files[f] = Corrupt]
      BY <2>2
    <3>2. CASE s = t
      <4> DEFINE a == [snapshot[s].files EXCEPT ![f] = Corrupt]
      <4>1. snapshot'[s] = [snapshot[s] EXCEPT !.files = a]
        BY <3>1, <3>2
      <4> HIDE DEF a
      <4> QED BY <1>1, <4>1 DEF Snapshot
    <3>3. CASE s # t
      BY <3>1, <3>3
    <3> QED BY <3>2, <3>3
  <2> QED BY <1>6, <2>1, <2>2 DEF Damage
<1>7. CASE UNCHANGED snapshot
  BY <1>7
<1> QED BY <1>2, <1>3, <1>4, <1>5, <1>6, <1>7
        DEF StorageNext, storageVars, OpenAdapter, CloseAdapter, Change, StartBackup, BackupThrows, StartRestore,
            VerifiesSnapshot, RestoresFile, StartMigration, NextMigration, MigratesFile, ValidatesMigration,
            MigrationFails, RecordsMigration, StartRollback, RecordsRollback, JobDies,
            RestoreThrows, RecordThrows

(* The properties that the invariant says of a state. *)
LEMMA StorageProperties ==
  ASSUME StorageInv
  PROVE  /\ StorageTypeOK /\ DamagedBackupNeverRestored /\ VersionTellsData /\ AppliedOnce
         /\ MemoryFollowsFiles
<1>1. StorageTypeOK
  <2>1. \A i \in DOMAIN schema.applied : schema.applied[i] \in [version : Version, snap : 0..Len(snapshot)]
    <3>1. schema.applied \in Seq(RecordOf(Len(snapshot)))
      BY DEF StorageInv, RecordsInOrder
    <3>2. \A i \in DOMAIN schema.applied : schema.applied[i] \in RecordOf(Len(snapshot))
      BY <3>1
    <3> QED BY <3>2 DEF RecordOf
  <2>2. job \in [kind : Kinds, pc : {"idle", "sum", "copy", "manifest", "next", "up", "verify", "restore", "record"},
              at : 1..NumFiles + 1, from : Version, version : Version, target : Version,
              snap : 0..Len(snapshot), before : [File -> Content \cup {Corrupt}]]
    BY StorageFacts DEF JobRecord, JobPc, Tree, Contents
  <2>3. file \in [File -> Content \cup {Corrupt}]
    BY StorageFacts DEF Tree, Contents
  <2>4. loaded \in [File -> Content] \cup {Closed}
    BY DEF StorageInv, MaintenanceTyped
  <2> QED BY <2>1, <2>2, <2>3, <2>4, StorageFacts, SnapshotFacts DEF StorageTypeOK
<1>2. DamagedBackupNeverRestored
  BY DEF StorageInv, NothingCorrupt, DamagedBackupNeverRestored
<1>3. past \in [Mishaps -> Nat]
  BY StorageFacts
<1>4. AppliedOnce
  <2> SUFFICES ASSUME Tidy, NEW f \in File, NEW v \in Version
               PROVE  file[f].applied[v] <= 1 + past["died"] + past["failedWithoutBackup"]
                                              + past["restoreThrew"] + past["unrecorded"]
    BY DEF AppliedOnce, Tidy
  <2>1. file[f].applied[v] <= 1 + (past["died"] + past["failedWithoutBackup"]
                                     + past["restoreThrew"] + past["unrecorded"])
    BY DEF StorageInv, FilesFit, Lost
  <2>2. \A m \in Losing : past[m] \in Nat
    BY <1>3 DEF Losing, Mishaps
  <2>3. 1 + (past["died"] + past["failedWithoutBackup"] + past["restoreThrew"] + past["unrecorded"])
          = 1 + past["died"] + past["failedWithoutBackup"] + past["restoreThrew"] + past["unrecorded"]
    BY <2>2 DEF Losing
  <2> QED BY <2>1, <2>3
<1>5. VersionTellsData
  <2> SUFFICES ASSUME Orderly, Idle, NEW f \in File, NEW v \in Version
               PROVE  file[f].applied[v] = IF v <= schema.version THEN 1 ELSE 0
    BY DEF VersionTellsData
  <2>1. Tidy /\ Lost = 0
    BY DEF Orderly, Tidy, Lost, Mishaps
  <2>2. past["damage"] = 0 /\ job.kind = "none"
    BY <2>1 DEF Tidy, Idle
  <2>3. AtVersion(file[f], VersionOf(f), 0)
    BY <2>1, <2>2 DEF StorageInv, FilesFit
  <2>4. VersionOf(f) = schema.version
    BY <2>2 DEF VersionOf
  <2>5. file[f] \in Content
    BY <2>2, ContentsFacts
  <2>6. file[f].applied[v] \in Nat
    BY <2>5 DEF Content
  <2>7. AtVersion(file[f], schema.version, 0)
    BY <2>3, <2>4
  <2>8. /\ file[f].applied[v] <= (IF v <= schema.version THEN 1 ELSE 0) + 0
        /\ file[f].applied[v] >= IF v <= schema.version THEN 1 ELSE 0
    BY <2>7, FitsAt
  <2>9. (IF v <= schema.version THEN 1 ELSE 0) \in Nat
    OBVIOUS
  <2> QED BY <2>6, <2>8, <2>9
<1>6. MemoryFollowsFiles
  BY DEF StorageInv, MemoryFits, MemoryFollowsFiles, Responsive
<1> QED BY <1>1, <1>2, <1>4, <1>5, <1>6

(***************************************************************************)
(* The repositories.  What memory and file have in common is position by   *)
(* position; the index of a fingerprint is the last of its documents; and  *)
(* a document of a URL that its index does not name is one that failed.    *)
(***************************************************************************)
OfUrl(ds, u) == {i \in DOMAIN ds : ds[i].url = u}
LatestWith(ds, h, i) == i \in WithHash(ds, h) /\ \A j \in WithHash(ds, h) : j <= i

RecordsTyped ==
  /\ open \in BOOLEAN
  /\ docs \in Seq(Doc) /\ docFile \in Seq(Doc)
  /\ urlIndex \in [Url -> 0..Len(docs)] /\ hashIndex \in [Url -> 0..Len(docs)]
  /\ known \subseteq Url /\ knownFile \subseteq Url
  /\ crawls \in 0..MaxCrawls
  /\ stored \in [Url -> 0..crawls] /\ failed \in [Url -> 0..crawls]
  /\ ~open => docs = <<>>

PagesAreCrawled ==
  /\ \A i \in DOMAIN docs : docs[i].page <= crawls
  /\ \A i \in DOMAIN docFile : docFile[i].page <= crawls

FileIsBehind ==
  open =>
    /\ knownFile \subseteq known
    /\ \A i \in DOMAIN docFile :
         /\ i \in DOMAIN docs /\ docs[i].hash = docFile[i].hash
         /\ docs[i].page >= docFile[i].page

IndexIsLatest == \A h \in Url : hashIndex[h] # 0 => LatestWith(docs, h, hashIndex[h])

StoredIsLatest ==
  \A h \in Url : stored[h] # 0 =>
    /\ open => hashIndex[h] # 0 /\ docs[hashIndex[h]].page >= stored[h]
    /\ \E i \in DOMAIN docFile : LatestWith(docFile, h, i) /\ docFile[i].page >= stored[h]

FailuresAreCounted ==
  \A u \in Url :
    /\ Cardinality(OfUrl(docs, u)) <= One(urlIndex[u] # 0) + failed[u]
    /\ Cardinality(OfUrl(docFile, u)) <= 1 + failed[u]

RepoInv ==
  /\ RecordsTyped /\ PagesAreCrawled /\ FileIsBehind /\ IndexIsLatest
  /\ StoredIsLatest /\ FailuresAreCounted

(* The latest of the positions of a list is one of them, or 0. *)
LEMMA LatestIs ==
  ASSUME NEW n \in Nat, NEW S \in SUBSET (1..n)
  PROVE  /\ Latest(S) \in 0..n
         /\ Latest(S) = 0 <=> S = {}
         /\ S # {} => Latest(S) \in S /\ \A j \in S : j <= Latest(S)
<1>1. CASE S = {}
  BY <1>1 DEF Latest
<1>2. CASE S # {}
  <2>1. S \in SUBSET (0..n)
    OBVIOUS
  <2>2. \E m \in S : \A j \in S : m >= j
    BY <1>2, <2>1, GreatestElement
  <2>3. \E m \in S : \A j \in S : j <= m
    BY <2>2
  <2>4. Latest(S) = CHOOSE i \in S : \A j \in S : j <= i
    BY <1>2 DEF Latest
  <2>5. Latest(S) \in S /\ \A j \in S : j <= Latest(S)
    BY <2>3, <2>4
  <2>6. Latest(S) \in 1..n
    BY <2>5
  <2> QED BY <1>2, <2>5, <2>6
<1> QED BY <1>1, <1>2

(* The documents of a list are where its positions say, and finitely many. *)
LEMMA ListOfDocuments ==
  ASSUME NEW ds \in Seq(Doc)
  PROVE  /\ Len(ds) \in Nat /\ DOMAIN ds = 1..Len(ds)
         /\ \A i \in DOMAIN ds : ds[i] \in Doc /\ ds[i].page \in Nat
         /\ \A u : /\ OfUrl(ds, u) \in SUBSET (1..Len(ds)) /\ IsFiniteSet(OfUrl(ds, u))
                   /\ Cardinality(OfUrl(ds, u)) \in Nat
         /\ \A h : WithHash(ds, h) \in SUBSET (1..Len(ds))
<1>1. Len(ds) \in Nat /\ DOMAIN ds = 1..Len(ds) /\ \A i \in DOMAIN ds : ds[i] \in Doc
  OBVIOUS
<1>2. IsFiniteSet(1..Len(ds))
  <2>1. 1 \in Int /\ Len(ds) \in Int
    BY <1>1
  <2> QED BY <2>1, FS_Interval
<1>3. \A u : OfUrl(ds, u) \in SUBSET (1..Len(ds))
  BY <1>1 DEF OfUrl
<1>4. \A u : IsFiniteSet(OfUrl(ds, u))
  BY <1>2, <1>3, FS_Subset
<1>5. \A u : Cardinality(OfUrl(ds, u)) \in Nat
  BY <1>4, FS_CardinalityType
<1>6. \A h : WithHash(ds, h) \in SUBSET (1..Len(ds))
  BY <1>1 DEF WithHash
<1>7. \A i \in DOMAIN ds : ds[i].page \in Nat
  BY <1>1 DEF Doc
<1> QED BY <1>1, <1>3, <1>4, <1>5, <1>6, <1>7

LEMMA RepoInitInvariant == RepoInit => RepoInv
<1> SUFFICES ASSUME RepoInit PROVE RepoInv
  OBVIOUS
<1> USE DEF RepoInit
<1>1. /\ Len(docs) = 0 /\ docs \in Seq(Doc) /\ docFile \in Seq(Doc)
      /\ DOMAIN docs = {} /\ DOMAIN docFile = {}
  OBVIOUS
<1>2. \A u \in Url : urlIndex[u] = 0 /\ hashIndex[u] = 0 /\ stored[u] = 0 /\ failed[u] = 0
  BY DEF NoIndex
<1>3. RecordsTyped
  <2>1. NoIndex \in [Url -> 0..0] /\ 0 \in 0..MaxCrawls
    BY RepoAssumption DEF NoIndex
  <2> QED BY <1>1, <2>1 DEF RecordsTyped
<1>4. FailuresAreCounted
  <2>1. \A u : OfUrl(docs, u) = {} /\ OfUrl(docFile, u) = {}
    BY <1>1 DEF OfUrl
  <2>2. Cardinality({}) = 0
    BY FS_EmptySet
  <2>3. \A u \in Url : 0 <= One(urlIndex[u] # 0) + failed[u] /\ 0 <= 1 + failed[u]
    BY <1>2 DEF One
  <2> HIDE DEF RepoInit
  <2> QED BY <2>1, <2>2, <2>3 DEF FailuresAreCounted
<1> QED BY <1>1, <1>2, <1>3, <1>4
     DEF RepoInv, PagesAreCrawled, FileIsBehind, IndexIsLatest, StoredIsLatest

LEMMA OpenKeepsRepoInv ==
  ASSUME RepoInv, Open
  PROVE  RepoInv'
<1> DEFINE U(u) == Latest({i \in DOMAIN docFile : docFile[i].url = u})
           H(h) == Latest(WithHash(docFile, h))
<1>1. /\ docs' = docFile /\ docFile' = docFile /\ known' = knownFile /\ knownFile' = knownFile
      /\ crawls' = crawls /\ stored' = stored /\ failed' = failed /\ open' = TRUE
      /\ urlIndex' = [u \in Url |-> U(u)] /\ hashIndex' = [h \in Url |-> H(h)]
  BY DEF Open, Loaded, ReloadHash
<1>2. docFile \in Seq(Doc)
  BY DEF RepoInv, RecordsTyped
<1>3. /\ Len(docFile) \in Nat
      /\ \A u : U(u) \in 0..Len(docFile) /\ (U(u) = 0 <=> OfUrl(docFile, u) = {})
      /\ \A h : /\ H(h) \in 0..Len(docFile)
                /\ H(h) = 0 <=> WithHash(docFile, h) = {}
                /\ H(h) # 0 => LatestWith(docFile, h, H(h))
  <2>1. /\ Len(docFile) \in Nat
        /\ \A u : OfUrl(docFile, u) \in SUBSET (1..Len(docFile))
        /\ \A h : WithHash(docFile, h) \in SUBSET (1..Len(docFile))
    BY <1>2, ListOfDocuments
  <2>2. \A u : U(u) \in 0..Len(docFile) /\ (U(u) = 0 <=> OfUrl(docFile, u) = {})
    <3> TAKE u
    <3>1. U(u) = Latest(OfUrl(docFile, u))
      BY DEF OfUrl
    <3> HIDE DEF U
    <3> QED BY <2>1, <3>1, LatestIs
  <2>3. \A h : /\ H(h) \in 0..Len(docFile)
               /\ H(h) = 0 <=> WithHash(docFile, h) = {}
               /\ H(h) # 0 => LatestWith(docFile, h, H(h))
    <3> TAKE h
    <3> QED BY <2>1, LatestIs DEF LatestWith
  <2> QED BY <2>1, <2>2, <2>3
<1> HIDE DEF U, H
<1>4. RecordsTyped'
  BY <1>1, <1>2, <1>3 DEF RepoInv, RecordsTyped
<1>5. PagesAreCrawled' /\ FileIsBehind'
  <2>1. \A i \in DOMAIN docFile : docFile[i].page >= docFile[i].page
    <3>1. \A i \in DOMAIN docFile : docFile[i].page \in Nat
      BY <1>2, ListOfDocuments
    <3> QED BY <3>1
  <2> QED BY <1>1, <2>1 DEF RepoInv, PagesAreCrawled, FileIsBehind
<1>6. IndexIsLatest'
  BY <1>1, <1>3 DEF IndexIsLatest
<1>7. StoredIsLatest'
  <2> SUFFICES ASSUME NEW h \in Url, stored[h] # 0
               PROVE  /\ H(h) # 0 /\ docFile[H(h)].page >= stored[h]
                      /\ \E i \in DOMAIN docFile :
                           LatestWith(docFile, h, i) /\ docFile[i].page >= stored[h]
    BY <1>1 DEF StoredIsLatest
  <2>1. PICK i \in DOMAIN docFile : LatestWith(docFile, h, i) /\ docFile[i].page >= stored[h]
    BY DEF RepoInv, StoredIsLatest
  <2>2. i \in Int /\ i \in WithHash(docFile, h)
    BY <1>2, <2>1 DEF LatestWith
  <2>3. H(h) # 0 /\ H(h) \in Int
    BY <1>3, <2>2
  <2>4. i = H(h)
    BY <1>3, <2>1, <2>2, <2>3 DEF LatestWith
  <2> QED BY <2>1, <2>3, <2>4
<1>8. FailuresAreCounted'
  <2> SUFFICES ASSUME NEW u \in Url
               PROVE  /\ Cardinality(OfUrl(docFile, u)) <= One(U(u) # 0) + failed[u]
                      /\ Cardinality(OfUrl(docFile, u)) <= 1 + failed[u]
    BY <1>1 DEF FailuresAreCounted, OfUrl
  <2>1. Cardinality(OfUrl(docFile, u)) <= 1 + failed[u]
    BY DEF RepoInv, FailuresAreCounted
  <2>2. failed[u] \in 0..crawls /\ crawls \in 0..MaxCrawls
    BY DEF RepoInv, RecordsTyped
  <2>3. Cardinality({}) = 0
    BY FS_EmptySet
  <2>4. Cardinality(OfUrl(docFile, u)) <= One(U(u) # 0) + failed[u]
    <3>1. CASE U(u) = 0
      <4>1. OfUrl(docFile, u) = {} /\ One(U(u) # 0) = 0 /\ failed[u] \in Nat
        BY <1>3, <2>2, <3>1 DEF One
      <4> QED BY <2>3, <4>1
    <3>2. CASE U(u) # 0
      BY <2>1, <3>2 DEF One
    <3> QED BY <3>1, <3>2
  <2> QED BY <2>1, <2>4
<1> QED BY <1>4, <1>5, <1>6, <1>7, <1>8 DEF RepoInv

LEMMA ShutKeepsRepoInv ==
  ASSUME RepoInv, Shut
  PROVE  RepoInv'
<1>1. /\ docs' = <<>> /\ docFile' = docFile /\ known' = {} /\ knownFile' = knownFile
      /\ crawls' = crawls /\ stored' = stored /\ failed' = failed /\ open' = FALSE
      /\ urlIndex' = NoIndex /\ hashIndex' = NoIndex
  BY DEF Shut
<1>2. DOMAIN docs' = {} /\ Len(docs') = 0 /\ docs' \in Seq(Doc)
  BY <1>1
<1>3. \A u \in Url : urlIndex'[u] = 0 /\ hashIndex'[u] = 0
  BY <1>1 DEF NoIndex
<1>4. RecordsTyped'
  <2>1. NoIndex \in [Url -> 0..0]
    BY DEF NoIndex
  <2> QED BY <1>1, <1>2, <2>1 DEF RepoInv, RecordsTyped
<1>5. PagesAreCrawled' /\ FileIsBehind' /\ IndexIsLatest'
  BY <1>1, <1>2, <1>3 DEF RepoInv, PagesAreCrawled, FileIsBehind, IndexIsLatest
<1>6. StoredIsLatest'
  BY <1>1 DEF RepoInv, StoredIsLatest
<1>7. FailuresAreCounted'
  <2>1. \A u \in Url : OfUrl(docs', u) = {}
    BY <1>2 DEF OfUrl
  <2>2. Cardinality({}) = 0
    BY FS_EmptySet
  <2>3. \A u \in Url : failed[u] \in 0..crawls /\ crawls \in 0..MaxCrawls
    BY DEF RepoInv, RecordsTyped
  <2>4. \A u \in Url : 0 <= One(urlIndex'[u] # 0) + failed[u]
    BY <2>3 DEF One
  <2> QED BY <1>1, <2>1, <2>2, <2>4 DEF RepoInv, FailuresAreCounted
<1> QED BY <1>4, <1>5, <1>6, <1>7 DEF RepoInv

(* What memory becomes, whether or not the write succeeds. *)
LEMMA WrittenIs ==
  ASSUME RepoInv, open, crawls < MaxCrawls, NEW u \in Url, NEW h \in Url, ~Refused(u, h),
         NEW w, w = Written(u, h)
  PROVE  /\ w \in Seq(Doc) /\ Len(docs) \in Nat
         /\ Len(w) = Len(docs) + One(~Found(h))
         /\ DOMAIN docs = 1..Len(docs) /\ DOMAIN w = 1..Len(w)
         /\ \A i \in DOMAIN docs :
              /\ w[i].url = docs[i].url /\ w[i].hash = docs[i].hash
              /\ w[i].page >= docs[i].page /\ w[i].page <= crawls + 1
         /\ Found(h) => hashIndex[h] \in DOMAIN docs /\ w[hashIndex[h]].page = crawls + 1
         /\ ~Found(h) => /\ urlIndex[u] = 0
                         /\ w[Len(w)] = [url |-> u, hash |-> h, page |-> crawls + 1]
<1>1. /\ docs \in Seq(Doc) /\ Len(docs) \in Nat /\ crawls \in Nat /\ DOMAIN docs = 1..Len(docs)
      /\ \A i \in DOMAIN docs : docs[i] \in Doc /\ docs[i].page \in Nat /\ docs[i].page <= crawls
      /\ hashIndex[h] \in 0..Len(docs)
  <2>1. docs \in Seq(Doc)
    BY DEF RepoInv, RecordsTyped
  <2> QED BY <2>1, ListOfDocuments DEF RepoInv, RecordsTyped, PagesAreCrawled
<1>2. CASE Found(h)
  <2> DEFINE x == hashIndex[h]
             d == [docs[x] EXCEPT !.page = crawls + 1]
  <2>1. x \in DOMAIN docs
    BY <1>1, <1>2 DEF Found
  <2>2. /\ d \in Doc /\ d.page = crawls + 1 /\ d.url = docs[x].url /\ d.hash = docs[x].hash
    <3> DEFINE y == docs[x]
               p == crawls + 1
    <3>1. y \in Doc /\ p \in Nat
      BY <1>1, <2>1
    <3>2. d = [y EXCEPT !.page = p]
      OBVIOUS
    <3> HIDE DEF y, p, d
    <3>3. d \in Doc /\ d.page = p /\ d.url = y.url /\ d.hash = y.hash
      BY <3>1, <3>2 DEF Doc
    <3> QED BY <3>3 DEF y, p
  <2>3. w = [docs EXCEPT ![x] = d]
    BY <1>2 DEF Written
  <2> HIDE DEF d, x
  <2>4. w \in Seq(Doc) /\ Len(w) = Len(docs) /\ DOMAIN w = 1..Len(w)
    BY <1>1, <2>1, <2>2, <2>3
  <2>5. w[x] = d /\ \A i \in DOMAIN docs : i # x => w[i] = docs[i]
    BY <1>1, <2>1, <2>3
  <2>6. \A i \in DOMAIN docs :
          /\ w[i].url = docs[i].url /\ w[i].hash = docs[i].hash
          /\ w[i].page >= docs[i].page /\ w[i].page <= crawls + 1
    <3> TAKE i \in DOMAIN docs
    <3>1. docs[i].page \in Nat /\ docs[i].page <= crawls /\ crawls \in Nat
      BY <1>1
    <3>2. CASE i = x
      BY <2>2, <2>5, <3>1, <3>2
    <3>3. CASE i # x
      BY <2>5, <3>1, <3>3
    <3> QED BY <3>2, <3>3
  <2> QED BY <1>1, <1>2, <2>1, <2>2, <2>4, <2>5, <2>6 DEF One, x
<1>3. CASE ~Found(h)
  <2> DEFINE d == [url |-> u, hash |-> h, page |-> crawls + 1]
  <2>1. d \in Doc
    BY <1>1 DEF Doc
  <2>2. w = Append(docs, d)
    BY <1>3 DEF Written
  <2> HIDE DEF d
  <2>3. /\ w \in Seq(Doc) /\ Len(w) = Len(docs) + 1 /\ DOMAIN w = 1..Len(w) /\ w[Len(w)] = d
        /\ \A i \in DOMAIN docs : w[i] = docs[i]
    BY <1>1, <2>1, <2>2
  <2>4. urlIndex[u] = 0
    BY <1>3 DEF Refused
  <2>5. \A i \in DOMAIN docs :
          /\ w[i].url = docs[i].url /\ w[i].hash = docs[i].hash
          /\ w[i].page >= docs[i].page /\ w[i].page <= crawls + 1
    <3> TAKE i \in DOMAIN docs
    <3> QED BY <1>1, <2>3
  <2> QED BY <1>1, <1>3, <2>3, <2>4, <2>5 DEF One, d
<1> QED BY <1>2, <1>3

(* The documents of a URL are those it had, and the new one. *)
LEMMA WrittenOfUrl ==
  ASSUME RepoInv, open, crawls < MaxCrawls, NEW u \in Url, NEW h \in Url, ~Refused(u, h),
         NEW w, w = Written(u, h), NEW v \in Url
  PROVE  /\ Cardinality(OfUrl(docs, v)) \in Nat
         /\ Cardinality(OfUrl(w, v)) =
              Cardinality(OfUrl(docs, v)) + One(~Found(h) /\ v = u)
<1>1. /\ w \in Seq(Doc) /\ Len(docs) \in Nat
      /\ Len(w) = Len(docs) + One(~Found(h))
      /\ DOMAIN docs = 1..Len(docs) /\ DOMAIN w = 1..Len(w)
      /\ \A i \in DOMAIN docs : w[i].url = docs[i].url
      /\ ~Found(h) => w[Len(w)].url = u
  <2>1. /\ w \in Seq(Doc) /\ Len(docs) \in Nat
        /\ Len(w) = Len(docs) + One(~Found(h))
        /\ DOMAIN docs = 1..Len(docs) /\ DOMAIN w = 1..Len(w)
        /\ \A i \in DOMAIN docs :
             /\ w[i].url = docs[i].url /\ w[i].hash = docs[i].hash
             /\ w[i].page >= docs[i].page /\ w[i].page <= crawls + 1
        /\ Found(h) => hashIndex[h] \in DOMAIN docs /\ w[hashIndex[h]].page = crawls + 1
        /\ ~Found(h) => /\ urlIndex[u] = 0
                        /\ w[Len(w)] = [url |-> u, hash |-> h, page |-> crawls + 1]
    BY WrittenIs
  <2>2. ~Found(h) => w[Len(w)].url = u
    BY <2>1
  <2> QED BY <2>1, <2>2
<1>2. IsFiniteSet(OfUrl(docs, v)) /\ Cardinality(OfUrl(docs, v)) \in Nat
  <2>1. docs \in Seq(Doc)
    BY DEF RepoInv, RecordsTyped
  <2> QED BY <2>1, ListOfDocuments
<1>3. CASE Found(h)
  <2>1. OfUrl(w, v) = OfUrl(docs, v)
    BY <1>1, <1>3 DEF OfUrl, One
  <2> QED BY <1>2, <1>3, <2>1 DEF One
<1>4. CASE ~Found(h)
  <2>1. Len(w) = Len(docs) + 1 /\ Len(w) \notin DOMAIN docs
    BY <1>1, <1>4 DEF One
  <2>2. OfUrl(w, v) = IF v = u THEN OfUrl(docs, v) \cup {Len(w)} ELSE OfUrl(docs, v)
    <3>1. \A i \in DOMAIN w : i \in DOMAIN docs \/ i = Len(w)
      BY <1>1, <2>1
    <3>2. \A i \in DOMAIN docs : i \in DOMAIN w
      BY <1>1, <2>1
    <3>3. Len(w) \in DOMAIN w /\ w[Len(w)].url = u
      BY <1>1, <1>4, <2>1
    <3> QED BY <1>1, <3>1, <3>2, <3>3 DEF OfUrl
  <2>3. Len(w) \notin OfUrl(docs, v)
    BY <2>1 DEF OfUrl
  <2>4. Cardinality(OfUrl(docs, v) \cup {Len(w)}) = Cardinality(OfUrl(docs, v)) + 1
    BY <1>2, <2>3, FS_AddElement
  <2> QED BY <1>2, <1>4, <2>2, <2>4 DEF One
<1> QED BY <1>3, <1>4

LEMMA StoresPageKeepsRepoInv ==
  ASSUME RepoInv, NEW u \in Url, NEW h \in Url, StoresPage(u, h)
  PROVE  /\ RepoInv'
         /\ \A i \in DOMAIN docFile :
              /\ i \in DOMAIN docFile' /\ docFile'[i].hash = docFile[i].hash
              /\ docFile'[i].page >= docFile[i].page
<1> DEFINE w == Written(u, h)
           p == crawls + 1
<1>1. /\ open /\ crawls < MaxCrawls /\ ~Refused(u, h) /\ open' = open
      /\ crawls' = p /\ docs' = w /\ docFile' = w
      /\ known' = known /\ knownFile' = knownFile /\ failed' = failed
      /\ stored' = [stored EXCEPT ![h] = p]
      /\ Found(h) => urlIndex' = urlIndex /\ hashIndex' = hashIndex
      /\ ~Found(h) => /\ urlIndex' = [urlIndex EXCEPT ![u] = Len(w)]
                      /\ hashIndex' = [hashIndex EXCEPT ![h] = Len(w)]
  BY DEF StoresPage
<1>2. /\ w \in Seq(Doc) /\ Len(docs) \in Nat
      /\ Len(w) = Len(docs) + One(~Found(h))
      /\ DOMAIN docs = 1..Len(docs) /\ DOMAIN w = 1..Len(w)
      /\ \A i \in DOMAIN docs :
           /\ w[i].url = docs[i].url /\ w[i].hash = docs[i].hash
           /\ w[i].page >= docs[i].page /\ w[i].page <= crawls + 1
      /\ Found(h) => hashIndex[h] \in DOMAIN docs /\ w[hashIndex[h]].page = crawls + 1
      /\ ~Found(h) => /\ urlIndex[u] = 0
                      /\ w[Len(w)] = [url |-> u, hash |-> h, page |-> crawls + 1]
  BY <1>1, WrittenIs
<1>3. \A v \in Url :
        /\ Cardinality(OfUrl(docs, v)) \in Nat
        /\ Cardinality(OfUrl(w, v)) = Cardinality(OfUrl(docs, v)) + One(~Found(h) /\ v = u)
  BY <1>1, WrittenOfUrl
<1>4. /\ crawls \in Nat /\ p \in 0..MaxCrawls /\ docs \in Seq(Doc)
      /\ stored \in [Url -> 0..crawls] /\ failed \in [Url -> 0..crawls]
      /\ urlIndex \in [Url -> 0..Len(docs)] /\ hashIndex \in [Url -> 0..Len(docs)]
      /\ known \subseteq Url /\ knownFile \subseteq Url
      /\ \A i \in DOMAIN docs : docs[i].page \in Nat
  <2>1. /\ docs \in Seq(Doc) /\ crawls \in 0..MaxCrawls
        /\ stored \in [Url -> 0..crawls] /\ failed \in [Url -> 0..crawls]
        /\ urlIndex \in [Url -> 0..Len(docs)] /\ hashIndex \in [Url -> 0..Len(docs)]
        /\ known \subseteq Url /\ knownFile \subseteq Url
    BY DEF RepoInv, RecordsTyped
  <2>2. crawls \in Nat /\ p \in 0..MaxCrawls
    BY <1>1, <2>1, RepoAssumption
  <2>3. \A i \in DOMAIN docs : docs[i].page \in Nat
    BY <2>1, ListOfDocuments
  <2> QED BY <2>1, <2>2, <2>3
<1> HIDE DEF w, p
<1>5. \A i \in DOMAIN w : w[i].page \in Nat
  BY <1>2, ListOfDocuments
<1>6. /\ Len(docs) <= Len(w) /\ Len(w) \in Nat
      /\ ~Found(h) => Len(w) = Len(docs) + 1 /\ Len(w) # 0
      /\ \A i \in DOMAIN w : i \in DOMAIN docs \/ (~Found(h) /\ i = Len(w))
  <2>1. CASE Found(h)
    <3>1. Len(w) = Len(docs) /\ DOMAIN w = DOMAIN docs
      BY <1>2, <2>1 DEF One
    <3> QED BY <1>2, <2>1, <3>1
  <2>2. CASE ~Found(h)
    <3>1. Len(w) = Len(docs) + 1
      BY <1>2, <2>2 DEF One
    <3> QED BY <1>2, <2>2, <3>1
  <2> QED BY <2>1, <2>2
<1>7. RecordsTyped'
  <2>1. urlIndex' \in [Url -> 0..Len(w)] /\ hashIndex' \in [Url -> 0..Len(w)]
    <3>1. 0..Len(docs) \subseteq 0..Len(w) /\ Len(w) \in 0..Len(w)
      BY <1>2, <1>6
    <3>2. urlIndex \in [Url -> 0..Len(w)] /\ hashIndex \in [Url -> 0..Len(w)]
      BY <1>4, <3>1
    <3> QED BY <1>1, <3>1, <3>2
  <2>2. stored' \in [Url -> 0..p] /\ failed' \in [Url -> 0..p]
    BY <1>1, <1>4, SMTT(30) DEF p
  <2> QED BY <1>1, <1>2, <1>4, <2>1, <2>2 DEF RecordsTyped
<1>8. PagesAreCrawled'
  <2>1. \A i \in DOMAIN w : w[i].page <= p
    BY <1>2, <1>4, <1>6 DEF p
  <2> QED BY <1>1, <2>1 DEF PagesAreCrawled
<1>9. FileIsBehind'
  BY <1>1, <1>5 DEF RepoInv, FileIsBehind
<1>10. \A g \in Url : hashIndex'[g] # 0 => LatestWith(w, g, hashIndex'[g])
  <2> SUFFICES ASSUME NEW g \in Url, hashIndex'[g] # 0 PROVE LatestWith(w, g, hashIndex'[g])
    OBVIOUS
  <2>1. CASE ~Found(h) /\ g = h
    <3>1. hashIndex'[g] = Len(w)
      BY <1>1, <1>4, <2>1
    <3>2. Len(w) \in DOMAIN w /\ w[Len(w)].hash = g /\ \A j \in DOMAIN w : j <= Len(w)
      BY <1>2, <1>6, <2>1
    <3> QED BY <3>1, <3>2 DEF LatestWith, WithHash
  <2>2. CASE ~(~Found(h) /\ g = h)
    <3>1. hashIndex'[g] = hashIndex[g]
      BY <1>1, <1>4, <2>2
    <3>2. LatestWith(docs, g, hashIndex[g])
      BY <2>2, <3>1 DEF RepoInv, IndexIsLatest
    <3>3. \A i \in DOMAIN w : w[i].hash = g => i \in DOMAIN docs
      BY <1>2, <1>6, <2>2
    <3>4. \A i : i \in WithHash(w, g) <=> i \in WithHash(docs, g)
      <4>1. \A i \in DOMAIN docs : i \in DOMAIN w /\ w[i].hash = docs[i].hash
        BY <1>2, <1>6
      <4> QED BY <3>3, <4>1 DEF WithHash
    <3> QED BY <3>1, <3>2, <3>4 DEF LatestWith
  <2> QED BY <2>1, <2>2
<1>11. IndexIsLatest'
  BY <1>1, <1>10 DEF IndexIsLatest
<1>12. \A g \in Url : stored'[g] # 0 => hashIndex'[g] # 0 /\ w[hashIndex'[g]].page >= stored'[g]
  <2> SUFFICES ASSUME NEW g \in Url, stored'[g] # 0
               PROVE  hashIndex'[g] # 0 /\ w[hashIndex'[g]].page >= stored'[g]
    OBVIOUS
  <2>1. CASE g = h
    <3>1. stored'[g] = p /\ p \in Nat
      BY <1>1, <1>4, <2>1
    <3>2. CASE Found(h)
      BY <1>1, <1>2, <1>4, <2>1, <3>1, <3>2 DEF Found, p
    <3>3. CASE ~Found(h)
      <4>1. hashIndex'[g] = Len(w) /\ w[Len(w)].page = p
        BY <1>1, <1>2, <1>4, <2>1, <3>3 DEF p
      <4> QED BY <1>6, <3>1, <3>3, <4>1
    <3> QED BY <3>2, <3>3
  <2>2. CASE g # h
    <3>1. stored'[g] = stored[g] /\ hashIndex'[g] = hashIndex[g]
      BY <1>1, <1>4, <2>2
    <3>2. hashIndex[g] # 0 /\ docs[hashIndex[g]].page >= stored[g]
      BY <1>1, <3>1 DEF RepoInv, StoredIsLatest
    <3>3. hashIndex[g] \in DOMAIN docs /\ stored[g] \in Nat
      BY <1>2, <1>4, <3>2, SMTT(30)
    <3>4. w[hashIndex[g]].page >= docs[hashIndex[g]].page
      BY <1>2, <3>3
    <3>5. w[hashIndex[g]].page \in Nat /\ docs[hashIndex[g]].page \in Nat
      BY <1>2, <1>4, <1>5, <1>6, <3>3, SMTT(30)
    <3> QED BY <3>1, <3>2, <3>3, <3>4, <3>5
  <2> QED BY <2>1, <2>2
<1>13. StoredIsLatest'
  <2>1. \A g \in Url : stored'[g] # 0 =>
          \E i \in DOMAIN w : LatestWith(w, g, i) /\ w[i].page >= stored'[g]
    <3>1. \A g \in Url : hashIndex'[g] # 0 => hashIndex'[g] \in DOMAIN w
      BY <1>10 DEF LatestWith, WithHash
    <3> QED BY <1>10, <1>12, <3>1
  <2> QED BY <1>1, <1>12, <2>1 DEF StoredIsLatest
<1>14. FailuresAreCounted'
  <2> SUFFICES ASSUME NEW v \in Url
               PROVE  /\ Cardinality(OfUrl(w, v)) <= One(urlIndex'[v] # 0) + failed[v]
                      /\ Cardinality(OfUrl(w, v)) <= 1 + failed[v]
    BY <1>1 DEF FailuresAreCounted
  <2>1. /\ Cardinality(OfUrl(docs, v)) <= One(urlIndex[v] # 0) + failed[v]
        /\ failed[v] \in Nat /\ urlIndex[v] \in Nat
    BY <1>4 DEF RepoInv, FailuresAreCounted
  <2>2. CASE ~Found(h) /\ v = u
    <3>1. urlIndex'[v] = Len(w) /\ urlIndex[v] = 0
      BY <1>1, <1>2, <1>4, <2>2
    <3> QED BY <1>3, <1>6, <2>1, <2>2, <3>1 DEF One
  <2>3. CASE ~(~Found(h) /\ v = u)
    <3>1. urlIndex'[v] = urlIndex[v]
      BY <1>1, <1>4, <2>3
    <3> QED BY <1>3, <2>1, <2>3, <3>1 DEF One
  <2> QED BY <2>2, <2>3
<1>15. RepoInv'
  BY <1>7, <1>8, <1>9, <1>11, <1>13, <1>14 DEF RepoInv
<1>16. ASSUME NEW i \in DOMAIN docFile
       PROVE  /\ i \in DOMAIN docFile' /\ docFile'[i].hash = docFile[i].hash
              /\ docFile'[i].page >= docFile[i].page
  <2>1. /\ i \in DOMAIN docs /\ docs[i].hash = docFile[i].hash
        /\ docs[i].page >= docFile[i].page
    BY <1>1 DEF RepoInv, FileIsBehind
  <2>2. docFile[i].page \in Nat /\ docs[i].page \in Nat
    <3>1. docFile \in Seq(Doc)
      BY DEF RepoInv, RecordsTyped
    <3> QED BY <1>4, <2>1, <3>1, ListOfDocuments
  <2>3. i \in DOMAIN w /\ w[i].hash = docs[i].hash /\ w[i].page >= docs[i].page /\ w[i].page \in Nat
    BY <1>2, <1>5, <1>6, <2>1
  <2> QED BY <1>1, <2>1, <2>2, <2>3
<1> QED BY <1>15, <1>16

LEMMA StoringThrowsKeepsRepoInv ==
  ASSUME RepoInv, NEW u \in Url, NEW h \in Url, StoringThrows(u, h)
  PROVE  RepoInv'
<1> DEFINE w == Written(u, h)
           p == crawls + 1
<1>1. /\ open /\ crawls < MaxCrawls /\ ~Refused(u, h) /\ open' = open
      /\ crawls' = p /\ docs' = w /\ docFile' = docFile
      /\ known' = known /\ knownFile' = knownFile /\ stored' = stored
      /\ urlIndex' = urlIndex /\ hashIndex' = hashIndex
      /\ failed' = IF Found(h) THEN failed ELSE [failed EXCEPT ![u] = @ + 1]
  BY DEF StoringThrows
<1>2. /\ w \in Seq(Doc) /\ Len(docs) \in Nat
      /\ Len(w) = Len(docs) + One(~Found(h))
      /\ DOMAIN docs = 1..Len(docs) /\ DOMAIN w = 1..Len(w)
      /\ \A i \in DOMAIN docs :
           /\ w[i].url = docs[i].url /\ w[i].hash = docs[i].hash
           /\ w[i].page >= docs[i].page /\ w[i].page <= crawls + 1
      /\ ~Found(h) => /\ urlIndex[u] = 0
                      /\ w[Len(w)] = [url |-> u, hash |-> h, page |-> crawls + 1]
  BY <1>1, WrittenIs
<1>3. \A v \in Url :
        /\ Cardinality(OfUrl(docs, v)) \in Nat
        /\ Cardinality(OfUrl(w, v)) = Cardinality(OfUrl(docs, v)) + One(~Found(h) /\ v = u)
  BY <1>1, WrittenOfUrl
<1>4. /\ crawls \in Nat /\ p \in 0..MaxCrawls /\ docs \in Seq(Doc) /\ docFile \in Seq(Doc)
      /\ stored \in [Url -> 0..crawls] /\ failed \in [Url -> 0..crawls]
      /\ urlIndex \in [Url -> 0..Len(docs)] /\ hashIndex \in [Url -> 0..Len(docs)]
      /\ known \subseteq Url /\ knownFile \subseteq Url
      /\ \A i \in DOMAIN docs : docs[i].page \in Nat
      /\ \A i \in DOMAIN docFile : docFile[i].page \in Nat
  <2>1. docs \in Seq(Doc) /\ docFile \in Seq(Doc)
    BY DEF RepoInv, RecordsTyped
  <2> QED BY <1>1, <2>1, ListOfDocuments, RepoAssumption DEF RepoInv, RecordsTyped
<1> HIDE DEF w, p
<1>5. \A i \in DOMAIN w : w[i].page \in Nat
  BY <1>2, ListOfDocuments
<1>6. /\ Len(docs) <= Len(w) /\ Len(w) \in Nat
      /\ ~Found(h) => Len(w) = Len(docs) + 1 /\ Len(w) # 0
      /\ \A i \in DOMAIN w : i \in DOMAIN docs \/ (~Found(h) /\ i = Len(w))
      /\ \A i \in DOMAIN docs : i \in DOMAIN w
  <2>1. CASE Found(h)
    <3>1. Len(w) = Len(docs) /\ DOMAIN w = DOMAIN docs
      BY <1>2, <2>1 DEF One
    <3> QED BY <1>2, <2>1, <3>1
  <2>2. CASE ~Found(h)
    <3>1. Len(w) = Len(docs) + 1
      BY <1>2, <2>2 DEF One
    <3> QED BY <1>2, <2>2, <3>1
  <2> QED BY <2>1, <2>2
<1>7. RecordsTyped'
  <2>1. urlIndex \in [Url -> 0..Len(w)] /\ hashIndex \in [Url -> 0..Len(w)]
    <3>1. 0..Len(docs) \subseteq 0..Len(w)
      BY <1>2, <1>6
    <3> QED BY <1>4, <3>1
  <2>2. stored \in [Url -> 0..p] /\ \A v \in Url : failed[v] + 1 \in 0..p /\ failed[v] \in 0..p
    <3>1. 0..crawls \subseteq 0..p /\ \A n \in 0..crawls : n + 1 \in 0..p
      BY <1>4 DEF p
    <3> QED BY <1>4, <3>1
  <2>3. failed' \in [Url -> 0..p]
    BY <1>1, <1>4, <2>2
  <2> QED BY <1>1, <1>2, <1>4, <2>1, <2>2, <2>3 DEF RecordsTyped
<1>8. PagesAreCrawled'
  <2>1. \A i \in DOMAIN w : w[i].page <= p
    BY <1>2, <1>4, <1>6, SMTT(30) DEF p
  <2>2. \A i \in DOMAIN docFile : docFile[i].page <= p
    BY <1>4 DEF RepoInv, PagesAreCrawled, p
  <2> QED BY <1>1, <2>1, <2>2 DEF PagesAreCrawled
<1>9. FileIsBehind'
  <2>1. ASSUME NEW i \in DOMAIN docFile
        PROVE  i \in DOMAIN w /\ w[i].hash = docFile[i].hash /\ w[i].page >= docFile[i].page
    <3>1. i \in DOMAIN docs /\ docs[i].hash = docFile[i].hash /\ docs[i].page >= docFile[i].page
      BY <1>1 DEF RepoInv, FileIsBehind
    <3>2. i \in DOMAIN w /\ w[i].hash = docs[i].hash /\ w[i].page >= docs[i].page
      BY <1>2, <1>6, <3>1
    <3>3. w[i].page \in Nat /\ docs[i].page \in Nat /\ docFile[i].page \in Nat
      BY <1>4, <1>5, <3>1, <3>2
    <3> QED BY <3>1, <3>2, <3>3
  <2> QED BY <1>1, <2>1 DEF RepoInv, FileIsBehind
<1>10. \A g \in Url : hashIndex[g] # 0 => LatestWith(w, g, hashIndex[g])
  <2> SUFFICES ASSUME NEW g \in Url, hashIndex[g] # 0 PROVE LatestWith(w, g, hashIndex[g])
    OBVIOUS
  <2>1. LatestWith(docs, g, hashIndex[g])
    BY DEF RepoInv, IndexIsLatest
  <2>2. \A i \in DOMAIN w : w[i].hash = g => i \in DOMAIN docs
    BY <1>2, <1>6 DEF Found
  <2>3. \A i : i \in WithHash(w, g) <=> i \in WithHash(docs, g)
    <3>1. \A i \in DOMAIN docs : i \in DOMAIN w /\ w[i].hash = docs[i].hash
      BY <1>2, <1>6
    <3> QED BY <2>2, <3>1 DEF WithHash
  <2> QED BY <2>1, <2>3 DEF LatestWith
<1>11. IndexIsLatest'
  BY <1>1, <1>10 DEF IndexIsLatest
<1>12. StoredIsLatest'
  <2>1. ASSUME NEW g \in Url, stored[g] # 0
        PROVE  hashIndex[g] # 0 /\ w[hashIndex[g]].page >= stored[g]
    <3>1. hashIndex[g] # 0 /\ docs[hashIndex[g]].page >= stored[g]
      BY <1>1, <2>1 DEF RepoInv, StoredIsLatest
    <3>2. hashIndex[g] \in DOMAIN docs /\ stored[g] \in Nat
      BY <1>2, <1>4, <3>1, SMTT(30)
    <3>3. w[hashIndex[g]].page >= docs[hashIndex[g]].page
      BY <1>2, <3>2
    <3>4. w[hashIndex[g]].page \in Nat /\ docs[hashIndex[g]].page \in Nat
      BY <1>4, <1>5, <1>6, <3>2
    <3> QED BY <3>1, <3>2, <3>3, <3>4
  <2> QED BY <1>1, <2>1 DEF RepoInv, StoredIsLatest
<1>13. FailuresAreCounted'
  <2> SUFFICES ASSUME NEW v \in Url
               PROVE  /\ Cardinality(OfUrl(w, v)) <= One(urlIndex[v] # 0) + failed'[v]
                      /\ Cardinality(OfUrl(docFile, v)) <= 1 + failed'[v]
    BY <1>1 DEF FailuresAreCounted
  <2>1. /\ Cardinality(OfUrl(docs, v)) <= One(urlIndex[v] # 0) + failed[v]
        /\ Cardinality(OfUrl(docFile, v)) <= 1 + failed[v]
        /\ failed[v] \in Nat /\ Cardinality(OfUrl(docFile, v)) \in Nat
    BY <1>4, ListOfDocuments DEF RepoInv, FailuresAreCounted
  <2>2. failed'[v] = failed[v] + One(~Found(h) /\ v = u)
    BY <1>1, <1>4, SMTT(30) DEF One
  <2> QED BY <1>3, <2>1, <2>2 DEF One
<1> QED BY <1>7, <1>8, <1>9, <1>11, <1>12, <1>13 DEF RepoInv

LEMMA RepoNextStep ==
  ASSUME RepoInv, [RepoNext]_repoVars
  PROVE  /\ RepoInv'
         /\ \A i \in DOMAIN docFile :
              /\ i \in DOMAIN docFile' /\ docFile'[i].hash = docFile[i].hash
              /\ docFile'[i].page >= docFile[i].page
         /\ knownFile \subseteq knownFile'
<1> DEFINE Listed == \A i \in DOMAIN docFile :
                     /\ i \in DOMAIN docFile' /\ docFile'[i].hash = docFile[i].hash
                     /\ docFile'[i].page >= docFile[i].page
<1>1. docFile' = docFile => Listed
  <2>1. docFile \in Seq(Doc)
    BY DEF RepoInv, RecordsTyped
  <2>2. \A i \in DOMAIN docFile : docFile[i].page \in Nat
    BY <2>1, ListOfDocuments
  <2> QED BY <2>2
<1>2. ASSUME UNCHANGED repoVars PROVE RepoInv' /\ Listed /\ knownFile \subseteq knownFile'
  <2>1. UNCHANGED <<open, docs, docFile, urlIndex, hashIndex, known, knownFile, crawls, stored, failed>>
    BY <1>2 DEF repoVars
  <2>2. RecordsTyped' /\ PagesAreCrawled' /\ FileIsBehind'
    BY <2>1 DEF RepoInv, RecordsTyped, PagesAreCrawled, FileIsBehind
  <2>3. IndexIsLatest' /\ StoredIsLatest' /\ FailuresAreCounted'
    BY <2>1 DEF RepoInv, IndexIsLatest, StoredIsLatest, FailuresAreCounted
  <2> QED BY <1>1, <2>1, <2>2, <2>3 DEF RepoInv
<1>3. ASSUME Open PROVE RepoInv' /\ Listed /\ knownFile \subseteq knownFile'
  BY <1>1, <1>3, OpenKeepsRepoInv DEF Open
<1>4. ASSUME Shut PROVE RepoInv' /\ Listed /\ knownFile \subseteq knownFile'
  BY <1>1, <1>4, ShutKeepsRepoInv DEF Shut
<1>5. ASSUME NEW u \in Url, NEW h \in Url, StoresPage(u, h)
      PROVE  RepoInv' /\ Listed /\ knownFile \subseteq knownFile'
  BY <1>5, StoresPageKeepsRepoInv DEF StoresPage
<1>6. ASSUME NEW u \in Url, NEW h \in Url, StoringThrows(u, h)
      PROVE  RepoInv' /\ Listed /\ knownFile \subseteq knownFile'
  BY <1>1, <1>6, StoringThrowsKeepsRepoInv DEF StoringThrows
<1>7. ASSUME NEW h \in Url, RecordsUrl(h) PROVE RepoInv' /\ Listed /\ knownFile \subseteq knownFile'
  <2>1. /\ UNCHANGED <<open, docs, docFile, urlIndex, hashIndex, crawls, stored, failed>>
        /\ open /\ known' = known \cup {h} /\ (knownFile' = known' \/ knownFile' = knownFile)
    BY <1>7 DEF RecordsUrl
  <2>2. known \subseteq Url /\ knownFile \subseteq known
    BY <2>1 DEF RepoInv, RecordsTyped, FileIsBehind
  <2>3. RecordsTyped' /\ FileIsBehind'
    BY <2>1, <2>2 DEF RepoInv, RecordsTyped, FileIsBehind
  <2>4. PagesAreCrawled' /\ IndexIsLatest' /\ StoredIsLatest' /\ FailuresAreCounted'
    BY <2>1 DEF RepoInv, PagesAreCrawled, IndexIsLatest, StoredIsLatest, FailuresAreCounted
  <2> QED BY <1>1, <2>1, <2>2, <2>3, <2>4 DEF RepoInv
<1> HIDE DEF Listed
<1>8. RepoInv' /\ Listed /\ knownFile \subseteq knownFile'
  BY <1>2, <1>3, <1>4, <1>5, <1>6, <1>7 DEF RepoNext
<1> QED BY <1>8 DEF Listed

LEMMA RepoProperties ==
  ASSUME RepoInv
  PROVE  RepoTypeOK /\ StoredIsServed /\ DuplicatesNeedFailures
<1>1. RepoTypeOK
  <2>1. 0..crawls \subseteq 0..MaxCrawls
    BY RepoAssumption DEF RepoInv, RecordsTyped
  <2>2. stored \in [Url -> 0..MaxCrawls] /\ failed \in [Url -> 0..MaxCrawls]
    BY <2>1 DEF RepoInv, RecordsTyped
  <2> QED BY <2>2 DEF RepoInv, RecordsTyped, RepoTypeOK
<1>2. StoredIsServed
  <2> SUFFICES ASSUME NEW h \in Url, stored[h] # 0
               PROVE  /\ \E i \in DOMAIN docFile : docFile[i].hash = h /\ docFile[i].page >= stored[h]
                      /\ open => /\ Found(h) /\ docs[hashIndex[h]].hash = h
                                 /\ docs[hashIndex[h]].page >= stored[h]
    BY DEF StoredIsServed
  <2>1. \E i \in DOMAIN docFile : docFile[i].hash = h /\ docFile[i].page >= stored[h]
    BY DEF RepoInv, StoredIsLatest, LatestWith, WithHash
  <2>2. open => Found(h) /\ docs[hashIndex[h]].page >= stored[h]
    BY DEF RepoInv, StoredIsLatest, Found
  <2>3. Found(h) => docs[hashIndex[h]].hash = h
    BY DEF RepoInv, IndexIsLatest, LatestWith, WithHash, Found
  <2> QED BY <2>1, <2>2, <2>3
<1>3. DuplicatesNeedFailures
  <2> SUFFICES ASSUME NEW u \in Url PROVE Cardinality(OfUrl(docs, u)) <= 1 + failed[u]
    BY DEF DuplicatesNeedFailures, OfUrl
  <2>1. /\ Cardinality(OfUrl(docs, u)) <= One(urlIndex[u] # 0) + failed[u]
        /\ failed[u] \in 0..crawls /\ docs \in Seq(Doc)
    BY DEF RepoInv, FailuresAreCounted, RecordsTyped
  <2>2. Cardinality(OfUrl(docs, u)) \in Nat
    BY <2>1, ListOfDocuments
  <2> QED BY <2>1, <2>2 DEF One
<1> QED BY <1>1, <1>2, <1>3

(***************************************************************************)
(* The rate limiter, one key at a time: u is what the key was granted up   *)
(* to each tick, b its bucket on disk, n the present, W the window and L   *)
(* the most that is granted in one window.  A window is counted in full    *)
(* from its first tick, nothing is granted from its end until the next     *)
(* one, and what came in the span before its first tick was one budget.    *)
(***************************************************************************)
Ticks == -1..MaxTime
Until(k) == [t \in Ticks |-> UpTo(k, t)]

Grows(u) == u \in [Ticks -> Nat] /\ \A x, y \in Ticks : x <= y => u[x] <= u[y]

CountedFits(u, b, n, W, L) ==
  b.start # -1 =>
    /\ b.start \in 1..n /\ b.tokens = u[n] - u[b.start - 1] /\ b.tokens <= L
    /\ \A t \in Time : t >= b.start + W - 1 => u[t] = u[n]
    /\ \A t \in 0..b.start : b.start - W < t => u[b.start - 1] - u[t - 1] <= L

ForgottenFits(u, b, n, W, L) ==
  b.start = -1 => u[n] = u[n - 1] /\ \A t \in 0..n : n - W < t => u[n] - u[t - 1] <= L

SpansFit(u, W, L) == \A t \in Time : t + W - 1 <= MaxTime => u[t + W - 1] - u[t - 1] <= 2 * L

KeyFits(u, b, n, W, L) ==
  /\ Grows(u) /\ \A t \in n..MaxTime : u[t] = u[n]
  /\ CountedFits(u, b, n, W, L) /\ ForgottenFits(u, b, n, W, L) /\ SpansFit(u, W, L)

LEMMA TickFits ==
  ASSUME NEW u, NEW b \in Bucket, NEW n \in 1..MaxTime, NEW W \in Nat \ {0}, NEW L \in Nat,
         MaxTime \in Nat, KeyFits(u, b, n, W, L), n < MaxTime
  PROVE  KeyFits(u, b, n + 1, W, L)
<1> DEFINE s == b.start
<1>1. /\ s \in Int /\ n \in Int /\ n + 1 \in n..MaxTime /\ n + 1 \in Ticks /\ n \in Ticks
      /\ \A t \in Ticks : u[t] \in Nat
  BY DEF KeyFits, Grows, Ticks, Bucket, Time
<1>2. u[n + 1] = u[n] /\ \A t \in (n + 1)..MaxTime : u[t] = u[n]
  BY <1>1 DEF KeyFits
<1>3. CountedFits(u, b, n + 1, W, L)
  BY <1>1, <1>2 DEF KeyFits, CountedFits
<1>4. ForgottenFits(u, b, n + 1, W, L)
  <2> SUFFICES ASSUME s = -1
               PROVE  /\ u[n + 1] = u[n + 1 - 1]
                      /\ \A t \in 0..n + 1 : n + 1 - W < t => u[n + 1] - u[t - 1] <= L
    BY DEF ForgottenFits
  <2>1. \A t \in 0..n : n - W < t => u[n] - u[t - 1] <= L
    BY DEF KeyFits, ForgottenFits
  <2>2. u[n] - u[n] <= L
    BY <1>1
  <2>3. \A t \in 0..n + 1 : n + 1 - W < t => u[n + 1] - u[t - 1] <= L
    <3> TAKE t \in 0..n + 1
    <3>1. CASE t \in 0..n
      BY <1>2, <2>1, <3>1
    <3>2. CASE t = n + 1
      BY <1>1, <1>2, <2>2, <3>2
    <3> QED BY <3>1, <3>2
  <2>4. n + 1 - 1 = n
    OBVIOUS
  <2> QED BY <1>2, <2>3, <2>4
<1> QED BY <1>2, <1>3, <1>4 DEF KeyFits

(* A bucket whose window is over may be forgotten. *)
LEMMA ForgetFits ==
  ASSUME NEW u, NEW b \in Bucket, NEW n \in 1..MaxTime, NEW W \in Nat \ {0}, NEW L \in Nat,
         MaxTime \in Nat, KeyFits(u, b, n, W, L), b.start = -1 \/ n - b.start >= W
  PROVE  /\ u[n] = u[n - 1] /\ \A t \in 0..n : n - W < t => u[n] - u[t - 1] <= L
         /\ KeyFits(u, NoBucket, n, W, L)
<1>1. u[n] = u[n - 1] /\ \A t \in 0..n : n - W < t => u[n] - u[t - 1] <= L
  <2>1. CASE b.start = -1
    BY <2>1 DEF KeyFits, ForgottenFits
  <2>2. CASE b.start # -1
    <3> DEFINE s == b.start
    <3>1. /\ s \in 1..n /\ n - s >= W /\ u[n] - u[s - 1] <= L
          /\ \A t \in Time : t >= s + W - 1 => u[t] = u[n]
      BY <2>2 DEF KeyFits, CountedFits
    <3>2. n - 1 \in Time /\ n - 1 >= s + W - 1
      BY <3>1 DEF Time
    <3>3. (\A x \in Ticks : u[x] \in Nat) /\ \A x, y \in Ticks : x <= y => u[x] <= u[y]
      BY DEF KeyFits, Grows
    <3>4. ASSUME NEW t \in 0..n, n - W < t PROVE u[n] - u[t - 1] <= L
      <4>1. t - 1 \in Ticks /\ s - 1 \in Ticks /\ n \in Ticks /\ s - 1 <= t - 1
        BY <3>1, <3>4 DEF Ticks
      <4>2. u[s - 1] <= u[t - 1] /\ u[s - 1] \in Nat /\ u[t - 1] \in Nat /\ u[n] \in Nat
        BY <3>3, <4>1
      <4> QED BY <3>1, <4>2
    <3> QED BY <3>1, <3>2, <3>4
  <2> QED BY <2>1, <2>2
<1>2. NoBucket.start = -1
  BY DEF NoBucket
<1> QED BY <1>1, <1>2 DEF KeyFits, CountedFits, ForgottenFits

(* A request is granted, in a new window or in what the present one has left. *)
LEMMA ChargeFits ==
  ASSUME NEW u, NEW b \in Bucket, NEW n \in 1..MaxTime, NEW W \in Nat \ {0}, NEW L \in Nat,
         MaxTime \in Nat, KeyFits(u, b, n, W, L), NEW c \in Nat \ {0}, NEW v, NEW d,
         v = [t \in Ticks |-> u[t] + IF t < n THEN 0 ELSE c],
         \/ (b.start = -1 \/ n - b.start >= W) /\ c <= L /\ d.tokens = c /\ d.start = n
         \/ /\ ~(b.start = -1 \/ n - b.start >= W) /\ b.tokens + c <= L
            /\ d.tokens = b.tokens + c /\ d.start = b.start
  PROVE  KeyFits(v, d, n, W, L)
<1>1. (\A x \in Ticks : u[x] \in Nat) /\ \A x, y \in Ticks : x <= y => u[x] <= u[y]
  BY DEF KeyFits, Grows
<1>2. /\ \A x \in Ticks : x < n => v[x] = u[x]
      /\ \A x \in Ticks : x >= n => v[x] = u[x] + c
      /\ \A t \in n..MaxTime : t \in Ticks /\ u[t] = u[n]
      /\ n \in Ticks /\ n \in Int /\ b.start \in Int /\ b.tokens \in Int
  BY <1>1 DEF KeyFits, Ticks, Bucket, Time
<1>3. Grows(v) /\ \A t \in n..MaxTime : v[t] = v[n]
  <2>1. v \in [Ticks -> Nat]
    BY <1>1, <1>2 DEF Ticks
  <2>2. ASSUME NEW x \in Ticks, NEW y \in Ticks, x <= y PROVE v[x] <= v[y]
    <3>1. u[x] <= u[y] /\ u[x] \in Nat /\ u[y] \in Nat /\ x \in Int /\ y \in Int
      BY <1>1, <2>2 DEF Ticks
    <3> QED BY <1>2, <2>2, <3>1
  <2> QED BY <1>2, <2>1, <2>2 DEF Grows
<1>4. \A t \in Time : t \in Ticks /\ t - 1 \in Ticks /\ t \in Int /\ 0 <= t
  BY DEF Time, Ticks
<1>5. CASE (b.start = -1 \/ n - b.start >= W) /\ c <= L /\ d.tokens = c /\ d.start = n
  <2>1. u[n] = u[n - 1] /\ \A t \in 0..n : n - W < t => u[n] - u[t - 1] <= L
    BY <1>5, ForgetFits
  <2>2. CountedFits(v, d, n, W, L)
    <3>1. n - 1 \in Ticks /\ v[n - 1] = u[n - 1] /\ v[n] = u[n] + c /\ u[n] \in Nat
      BY <1>1, <1>2 DEF Ticks
    <3>2. d.tokens = v[n] - v[n - 1]
      BY <1>5, <2>1, <3>1
    <3>3. \A t \in Time : t >= n + W - 1 => v[t] = v[n]
      BY <1>2, <1>3, <1>4 DEF Time
    <3>4. ASSUME NEW t \in 0..n, n - W < t PROVE v[n - 1] - v[t - 1] <= L
      <4>1. t - 1 \in Ticks /\ v[t - 1] = u[t - 1]
        BY <1>2, <3>4 DEF Ticks
      <4> QED BY <2>1, <3>1, <3>4, <4>1
    <3>5. d.start \in 1..n /\ d.tokens = v[n] - v[d.start - 1] /\ d.tokens <= L
      BY <1>5, <3>2
    <3>6. \A t \in Time : t >= d.start + W - 1 => v[t] = v[n]
      BY <1>5, <3>3
    <3>7. \A t \in 0..d.start : d.start - W < t => v[d.start - 1] - v[t - 1] <= L
      BY <1>5, <3>4
    <3> QED BY <3>5, <3>6, <3>7 DEF CountedFits
  <2>3. ForgottenFits(v, d, n, W, L)
    BY <1>5 DEF ForgottenFits
  <2>4. SpansFit(v, W, L)
    <3> SUFFICES ASSUME NEW t \in Time, t + W - 1 <= MaxTime PROVE v[t + W - 1] - v[t - 1] <= 2 * L
      BY DEF SpansFit
    <3>1. u[t + W - 1] - u[t - 1] <= 2 * L
      BY DEF KeyFits, SpansFit
    <3>2. t + W - 1 \in Ticks /\ t + W - 1 \in Time /\ t - 1 \in Ticks /\ t \in Int
      BY <1>4 DEF Time, Ticks
    <3>3. u[t + W - 1] \in Nat /\ u[t - 1] \in Nat /\ u[n] \in Nat
      BY <1>1, <1>2, <3>2
    <3>4. CASE t + W - 1 < n
      <4>1. t - 1 < n
        BY <3>2, <3>4
      <4> QED BY <1>2, <3>1, <3>2, <3>4, <4>1
    <3>5. CASE t > n
      <4>1. t + W - 1 >= n /\ t - 1 >= n
        BY <3>2, <3>5
      <4> QED BY <1>2, <3>1, <3>2, <3>3, <4>1
    <3>6. CASE t <= n /\ t + W - 1 >= n
      <4>1. v[t + W - 1] = u[n] + c
        <5>1. t + W - 1 \in n..MaxTime
          BY <3>2, <3>6 DEF Time
        <5> QED BY <1>2, <3>2, <3>6, <5>1
      <4>2. v[t - 1] = u[t - 1]
        BY <1>2, <3>2, <3>6
      <4>3. t \in 0..n /\ n - W < t
        BY <1>4, <3>2, <3>6
      <4>4. u[n] - u[t - 1] <= L
        BY <2>1, <4>3
      <4> QED BY <1>5, <3>3, <4>1, <4>2, <4>4
    <3> QED BY <3>2, <3>4, <3>5, <3>6
  <2> QED BY <1>3, <2>2, <2>3, <2>4 DEF KeyFits
<1>6. CASE /\ ~(b.start = -1 \/ n - b.start >= W) /\ b.tokens + c <= L
           /\ d.tokens = b.tokens + c /\ d.start = b.start
  <2> DEFINE s == b.start
  <2>1. /\ s \in 1..n /\ b.tokens = u[n] - u[s - 1] /\ n - s < W
        /\ \A t \in Time : t >= s + W - 1 => u[t] = u[n]
        /\ \A t \in 0..s : s - W < t => u[s - 1] - u[t - 1] <= L
    BY <1>2, <1>6 DEF KeyFits, CountedFits
  <2>2. s - 1 \in Ticks /\ v[s - 1] = u[s - 1] /\ v[n] = u[n] + c /\ u[n] \in Nat /\ u[s - 1] \in Nat
    <3>1. s - 1 \in Ticks /\ s - 1 < n /\ n >= n
      BY <2>1 DEF Ticks
    <3> QED BY <1>1, <1>2, <3>1
  <2>3. CountedFits(v, d, n, W, L)
    <3>1. d.start \in 1..n /\ d.tokens = v[n] - v[d.start - 1] /\ d.tokens <= L
      BY <1>2, <1>6, <2>1, <2>2
    <3>2. \A t \in Time : t >= s + W - 1 => v[t] = v[n]
      <4> SUFFICES ASSUME NEW t \in Time, t >= s + W - 1 PROVE v[t] = v[n]
        OBVIOUS
      <4>1. t >= n /\ t \in Ticks /\ u[t] = u[n]
        BY <1>4, <2>1
      <4> QED BY <1>2, <2>2, <4>1
    <3>3. ASSUME NEW t \in 0..s, s - W < t PROVE v[s - 1] - v[t - 1] <= L
      <4>1. t - 1 \in Ticks /\ t - 1 < n
        BY <2>1 DEF Ticks
      <4> QED BY <1>2, <2>1, <2>2, <3>3, <4>1
    <3> QED BY <1>6, <3>1, <3>2, <3>3 DEF CountedFits
  <2>4. ForgottenFits(v, d, n, W, L)
    BY <1>6 DEF ForgottenFits
  <2>5. SpansFit(v, W, L)
    <3> SUFFICES ASSUME NEW t \in Time, t + W - 1 <= MaxTime PROVE v[t + W - 1] - v[t - 1] <= 2 * L
      BY DEF SpansFit
    <3>1. u[t + W - 1] - u[t - 1] <= 2 * L
      BY DEF KeyFits, SpansFit
    <3>2. t + W - 1 \in Ticks /\ t + W - 1 \in Time /\ t - 1 \in Ticks /\ t \in Int /\ 0 <= t
      BY <1>4 DEF Time, Ticks
    <3>3. u[t + W - 1] \in Nat /\ u[t - 1] \in Nat
      BY <1>1, <3>2
    <3>4. CASE t + W - 1 < n
      <4>1. t - 1 < n
        BY <3>2, <3>4
      <4> QED BY <1>2, <3>1, <3>2, <3>4, <4>1
    <3>5. CASE t > n
      <4>1. t + W - 1 >= n /\ t - 1 >= n
        BY <3>2, <3>5
      <4> QED BY <1>2, <3>1, <3>2, <3>3, <4>1
    <3>6. CASE t <= n /\ t + W - 1 >= n
      <4>1. v[t + W - 1] = u[n] + c
        <5>1. t + W - 1 \in n..MaxTime
          BY <3>2, <3>6 DEF Time
        <5> QED BY <1>2, <3>2, <3>6, <5>1
      <4>2. v[t - 1] = u[t - 1]
        BY <1>2, <3>2, <3>6
      <4>3. u[n] + c - u[s - 1] <= L
        BY <1>6, <2>1, <2>2
      <4>4. CASE s <= t
        <5>1. u[s - 1] <= u[t - 1]
          BY <1>1, <2>1, <2>2, <3>2, <4>4
        <5> QED BY <2>2, <3>3, <4>1, <4>2, <4>3, <5>1
      <4>5. CASE t < s
        <5>1. t \in 0..s /\ s - W < t
          BY <2>1, <3>2, <3>6, <4>5
        <5>2. u[s - 1] - u[t - 1] <= L
          BY <2>1, <5>1
        <5> QED BY <2>2, <3>3, <4>1, <4>2, <4>3, <5>2
      <4> QED BY <2>1, <3>2, <4>4, <4>5
    <3> QED BY <3>2, <3>4, <3>5, <3>6
  <2> QED BY <1>3, <2>3, <2>4, <2>5 DEF KeyFits
<1> QED BY <1>5, <1>6

Buckets == [Key -> Bucket]
Asked   == [cost : 0..MaxCost, key : Key, file : Buckets]

LimiterTypes ==
  /\ now \in 1..MaxTime /\ mtime \in Time /\ seen \in [Process -> Time]
  /\ buckets \in [Process -> Buckets] /\ disk \in Buckets
  /\ deciding \in [Process -> Asked]
  /\ granted \in [Key -> [Time -> 0..MaxGranted]] /\ excused \in BOOLEAN

CountsFit ==
  /\ \A k \in Key : Grows(Until(k)) /\ disk[k].tokens <= granted[k][MaxTime]
  /\ \A p \in Process, k \in Key : buckets[p][k].tokens <= granted[k][MaxTime]

ReadsFit == mtime <= now /\ \A p \in Process : seen[p] <= mtime

GrantsFit ==
  ~excused =>
    /\ \A k \in Key : KeyFits(Until(k), disk[k], now, Window[k], Budget(k))
    /\ \A p \in Process : deciding[p].cost > 0 => buckets[p] = deciding[p].file

LimiterInv == LimiterTypes /\ CountsFit /\ ReadsFit /\ GrantsFit

LEMMA LimiterConstants ==
  /\ MaxTime \in Nat \ {0} /\ MaxCost \in Nat \ {0} /\ MaxGranted \in Nat /\ Key # {}
  /\ \A k \in Key : Limit[k] \in Nat \ {0} /\ Window[k] \in Nat \ {0}
                    /\ Budget(k) \in Nat /\ MaxCost <= Budget(k) /\ Limit[k] <= Budget(k)
  BY LimiterAssumption DEF Budget

LEMMA EmptyFits == NoBucket \in Bucket /\ Empty \in Buckets /\ Nothing \in Asked /\ Nothing.cost = 0
<1>1. NoBucket \in Bucket
  BY LimiterConstants DEF NoBucket, Bucket
<1>2. Empty \in Buckets
  BY <1>1 DEF Empty, Buckets
<1>3. (CHOOSE k \in Key : TRUE) \in Key
  BY LimiterConstants
<1>4. 0 \in 0..MaxCost
  BY LimiterConstants
<1> QED BY <1>1, <1>2, <1>3, <1>4 DEF Nothing, Asked

LEMMA UntilIs ==
  ASSUME granted \in [Key -> [Time -> 0..MaxGranted]], NEW k \in Key
  PROVE  /\ Until(k) \in [Ticks -> Nat] /\ Until(k)[-1] = 0
         /\ \A t \in Time : Until(k)[t] = granted[k][t]
<1>1. \A t \in Ticks : t = -1 \/ t \in Time
  BY LimiterConstants DEF Ticks, Time
<1>2. \A t \in Time : t \in Ticks /\ ~(t < 0) /\ granted[k][t] \in Nat
  BY LimiterConstants DEF Ticks, Time
<1>3. -1 \in Ticks /\ -1 < 0
  BY LimiterConstants DEF Ticks
<1> QED BY <1>1, <1>2, <1>3 DEF Until, UpTo

LEMMA LimiterInitInvariant == LimiterInit => LimiterInv
<1> SUFFICES ASSUME LimiterInit PROVE LimiterInv
  OBVIOUS
<1>1. LimiterTypes
  <2>1. 1 \in 1..MaxTime /\ 0 \in Time /\ 0 \in 0..MaxGranted
    BY LimiterConstants DEF Time
  <2> QED BY <2>1, EmptyFits DEF LimiterInit, LimiterTypes
<1>2. \A k \in Key : \A t \in Time : granted[k][t] = 0
  BY DEF LimiterInit
<1>3. \A k \in Key : \A t \in Ticks : Until(k)[t] = 0
  BY <1>2, LimiterConstants DEF Until, UpTo, Ticks, Time
<1>4. \A k \in Key : Grows(Until(k))
  <2> TAKE k \in Key
  <2>1. Until(k) \in [Ticks -> Nat]
    BY <1>1, UntilIs DEF LimiterTypes
  <2> QED BY <1>3, <2>1 DEF Grows
<1>5. MaxTime \in Time /\ NoBucket.tokens = 0 /\ NoBucket.start = -1
  BY LimiterConstants DEF Time, NoBucket
<1>6. CountsFit
  BY <1>2, <1>4, <1>5 DEF LimiterInit, CountsFit, Empty
<1>7. ReadsFit
  BY DEF LimiterInit, ReadsFit
<1>8. ASSUME NEW k \in Key PROVE KeyFits(Until(k), disk[k], now, Window[k], Budget(k))
  <2> DEFINE u == Until(k)
  <2>1. \A t \in Ticks : u[t] = 0
    BY <1>3
  <2>2. \A t \in Time : t \in Ticks /\ t - 1 \in Ticks
    BY LimiterConstants DEF Ticks, Time
  <2>3. now = 1 /\ now \in Ticks /\ now - 1 \in Ticks /\ 1..MaxTime \subseteq Ticks /\ 0..1 \subseteq Time
    BY LimiterConstants DEF LimiterInit, Ticks, Time
  <2>4. Budget(k) \in Nat /\ Window[k] \in Nat \ {0}
    BY LimiterConstants
  <2>5. disk[k].start = -1
    BY <1>5 DEF LimiterInit, Empty
  <2> HIDE DEF u
  <2>6. CountedFits(u, disk[k], now, Window[k], Budget(k))
    BY <2>5 DEF CountedFits
  <2>7. ForgottenFits(u, disk[k], now, Window[k], Budget(k))
    <3>1. \A t \in 0..now : u[now] - u[t - 1] <= Budget(k)
      BY <2>1, <2>2, <2>3, <2>4
    <3> QED BY <2>1, <2>3, <3>1 DEF ForgottenFits
  <2>8. SpansFit(u, Window[k], Budget(k))
    <3> SUFFICES ASSUME NEW t \in Time, t + Window[k] - 1 <= MaxTime
                 PROVE  u[t + Window[k] - 1] - u[t - 1] <= 2 * Budget(k)
      BY DEF SpansFit
    <3>1. t + Window[k] - 1 \in Ticks
      BY <2>4 DEF Ticks, Time
    <3> QED BY <2>1, <2>2, <2>4, <3>1
  <2>9. \A t \in now..MaxTime : u[t] = u[now]
    BY <2>1, <2>3
  <2> QED BY <1>4, <2>6, <2>7, <2>8, <2>9 DEF KeyFits, u
<1>9. GrantsFit
  BY <1>8, EmptyFits DEF LimiterInit, GrantsFit
<1> QED BY <1>1, <1>6, <1>7, <1>9 DEF LimiterInv

(* A process writes its buckets, or fails to. *)
LEMMA FlushFits ==
  ASSUME LimiterInv, NEW p \in Process, NEW forgets \in BOOLEAN, NEW new \in Buckets,
         buckets' = [buckets EXCEPT ![p] = new], now' = now, Flushes(p, forgets)
  PROVE  /\ disk' \in Buckets /\ mtime' \in Time /\ seen' \in [Process -> Time] /\ excused' \in BOOLEAN
         /\ buckets' \in [Process -> Buckets] /\ ReadsFit'
         /\ disk' = disk \/ disk' = new
         /\ ~excused' => ~excused /\ ~forgets /\ disk' = new
<1>1. /\ now \in 1..MaxTime /\ mtime \in Time /\ seen \in [Process -> Time] /\ now \in Time
      /\ buckets \in [Process -> Buckets] /\ disk \in Buckets /\ excused \in BOOLEAN
      /\ mtime <= now /\ \A q \in Process : seen[q] <= mtime
  BY DEF LimiterInv, LimiterTypes, ReadsFit, Time
<1>2. buckets' \in [Process -> Buckets] /\ buckets'[p] = new
  BY <1>1
<1>3. CASE /\ disk' = buckets'[p] /\ mtime' = now /\ seen' = [seen EXCEPT ![p] = now]
           /\ excused' = (excused \/ forgets)
  <2>1. seen' \in [Process -> Time] /\ \A q \in Process : seen'[q] <= now
    <3>1. \A q \in Process : seen[q] \in Time /\ seen'[q] = IF q = p THEN now ELSE seen[q]
      BY <1>1, <1>3
    <3>2. \A q \in Process : seen'[q] <= now
      BY <1>1, <3>1 DEF Time
    <3> QED BY <1>1, <1>3, <3>2
  <2>2. ReadsFit'
    BY <1>1, <1>3, <2>1 DEF ReadsFit
  <2> QED BY <1>1, <1>2, <1>3, <2>1, <2>2
<1>4. CASE excused' = TRUE /\ UNCHANGED <<disk, mtime, seen>>
  BY <1>1, <1>2, <1>4 DEF ReadsFit
<1> QED BY <1>3, <1>4 DEF Flushes

(* What is left of the counts when buckets are replaced by others that fit. *)
LEMMA OthersStillAsk ==
  ASSUME LimiterInv, NEW p \in Process, NEW new, buckets' = [buckets EXCEPT ![p] = new], ~excused,
         \/ UNCHANGED deciding /\ deciding[p].cost = 0
         \/ deciding' = [deciding EXCEPT ![p] = Nothing]
  PROVE  \A q \in Process : deciding'[q].cost > 0 => buckets'[q] = deciding'[q].file
<1>1. buckets \in [Process -> Buckets] /\ deciding \in [Process -> Asked]
  BY DEF LimiterInv, LimiterTypes
<1>2. \A q \in Process : deciding[q].cost > 0 => buckets[q] = deciding[q].file
  BY DEF LimiterInv, GrantsFit
<1>3. deciding'[p].cost = 0
  BY <1>1, EmptyFits
<1>4. \A q \in Process : q # p => deciding'[q] = deciding[q] /\ buckets'[q] = buckets[q]
  BY <1>1
<1> QED BY <1>2, <1>3, <1>4

(* Nothing is granted, and some buckets whose window is over are forgotten. *)
LEMMA NothingGranted ==
  ASSUME LimiterInv, UNCHANGED <<now, granted>>, NEW forgotten \in SUBSET Key, ~excused,
         \A k \in forgotten : WindowOver(disk[k], k),
         \A k \in Key : disk'[k] = IF k \in forgotten THEN NoBucket ELSE disk[k]
  PROVE  \A k \in Key : KeyFits(Until(k), disk[k], now, Window[k], Budget(k))'
<1> TAKE k \in Key
<1>1. Until(k)' = Until(k) /\ now' = now /\ Window[k] = Window[k]' /\ Budget(k)' = Budget(k)
  BY DEF Until, UpTo, Budget
<1>2. KeyFits(Until(k), disk[k], now, Window[k], Budget(k))
  BY DEF LimiterInv, GrantsFit
<1>3. disk[k] \in Bucket /\ now \in 1..MaxTime
  BY DEF LimiterInv, LimiterTypes, Buckets
<1>4. KeyFits(Until(k), disk'[k], now, Window[k], Budget(k))
  <2>1. CASE k \notin forgotten
    BY <1>2, <2>1
  <2>2. CASE k \in forgotten
    <3>1. disk'[k] = NoBucket /\ (disk[k].start = -1 \/ now - disk[k].start >= Window[k])
      BY <2>2 DEF WindowOver
    <3> QED BY <1>2, <1>3, <3>1, ForgetFits, LimiterConstants
  <2> QED BY <2>1, <2>2
<1> QED BY <1>1, <1>4

LEMMA NothingMoves ==
  ASSUME LimiterInv, UNCHANGED <<now, granted, disk>>, ~excused
  PROVE  \A k \in Key : KeyFits(Until(k), disk[k], now, Window[k], Budget(k))'
<1>1. \A k \in Key : Until(k)' = Until(k) /\ Budget(k)' = Budget(k)
  BY DEF Until, UpTo, Budget
<1> QED BY <1>1 DEF LimiterInv, GrantsFit

LEMMA GrantedStays ==
  ASSUME LimiterInv, UNCHANGED granted, disk' \in Buckets, buckets' \in [Process -> Buckets],
         \A k \in Key : disk'[k].tokens <= granted[k][MaxTime],
         \A q \in Process, k \in Key : buckets'[q][k].tokens <= granted[k][MaxTime]
  PROVE  CountsFit'
<1>1. \A k \in Key : Until(k)' = Until(k)
  BY DEF Until, UpTo
<1> QED BY <1>1 DEF LimiterInv, CountsFit

LEMMA TicksFit == ASSUME LimiterInv, LimiterTick PROVE LimiterInv'
<1>1. now < MaxTime /\ now' = now + 1 /\ UNCHANGED <<buckets, disk, mtime, seen, deciding, granted, excused>>
  BY DEF LimiterTick
<1>2. LimiterTypes'
  BY <1>1, LimiterConstants DEF LimiterInv, LimiterTypes
<1>3. \A k \in Key : Until(k)' = Until(k) /\ Budget(k)' = Budget(k)
  BY <1>1 DEF Until, UpTo, Budget
<1>4. CountsFit'
  BY <1>1, <1>3 DEF LimiterInv, CountsFit
<1>5. ReadsFit'
  BY <1>1 DEF LimiterInv, LimiterTypes, ReadsFit, Time
<1>6. GrantsFit'
  <2> SUFFICES ASSUME ~excused PROVE GrantsFit'
    BY <1>1 DEF GrantsFit
  <2>1. ASSUME NEW k \in Key PROVE KeyFits(Until(k), disk[k], now + 1, Window[k], Budget(k))
    <3>1. disk[k] \in Bucket /\ now \in 1..MaxTime /\ KeyFits(Until(k), disk[k], now, Window[k], Budget(k))
      BY DEF LimiterInv, LimiterTypes, Buckets, GrantsFit
    <3> QED BY <1>1, <3>1, TickFits, LimiterConstants
  <2>2. \A k \in Key : KeyFits(Until(k), disk[k], now, Window[k], Budget(k))'
    BY <1>1, <1>3, <2>1
  <2> QED BY <1>1, <2>2 DEF LimiterInv, GrantsFit
<1> QED BY <1>2, <1>4, <1>5, <1>6 DEF LimiterInv

LEMMA LooksUpFits ==
  ASSUME LimiterInv, NEW p \in Process, NEW k \in Key, NEW c \in Cost, LooksUp(p, k, c)
  PROVE  LimiterInv'
<1> DEFINE ask == [cost |-> c, key |-> k, file |-> disk]
<1>1. /\ deciding[p].cost = 0 /\ deciding' = [deciding EXCEPT ![p] = ask]
      /\ excused' = (excused \/ (mtime = seen[p] /\ disk # buckets[p]))
      /\ UNCHANGED <<now, disk, mtime, granted>>
  BY DEF LooksUp
<1>2. /\ now \in 1..MaxTime /\ mtime \in Time /\ seen \in [Process -> Time]
      /\ buckets \in [Process -> Buckets] /\ disk \in Buckets /\ excused \in BOOLEAN
      /\ deciding \in [Process -> Asked] /\ granted \in [Key -> [Time -> 0..MaxGranted]]
  BY DEF LimiterInv, LimiterTypes
<1>3. ask \in Asked /\ ask.cost > 0 /\ ask.file = disk
  BY <1>2, LimiterConstants DEF Asked, Cost
<1> HIDE DEF ask
<1>4. \/ buckets' = [buckets EXCEPT ![p] = disk] /\ seen' = [seen EXCEPT ![p] = mtime]
      \/ ~(mtime > seen[p]) /\ UNCHANGED <<buckets, seen>>
  BY DEF LooksUp, FileNewer
<1>5. LimiterTypes'
  BY <1>1, <1>2, <1>3, <1>4 DEF LimiterTypes
<1>6. ReadsFit'
  <2>1. \A q \in Process : seen[q] <= mtime /\ mtime <= now
    BY DEF LimiterInv, ReadsFit
  <2>2. \A q \in Process : seen'[q] <= mtime
    <3>1. CASE seen' = [seen EXCEPT ![p] = mtime]
      <4>1. \A q \in Process : seen'[q] = IF q = p THEN mtime ELSE seen[q]
        BY <1>2, <3>1
      <4>2. mtime <= mtime
        BY <1>2, LimiterConstants DEF Time
      <4> QED BY <2>1, <4>1, <4>2
    <3>2. CASE UNCHANGED seen
      BY <2>1, <3>2
    <3> QED BY <1>4, <3>1, <3>2
  <2> QED BY <1>1, <2>1, <2>2 DEF ReadsFit, LimiterInv
<1>7. \A q \in Process : buckets'[q] = buckets[q] \/ (q = p /\ buckets'[q] = disk)
  BY <1>2, <1>4
<1>8. CountsFit'
  <2>1. \A q \in Process, j \in Key : buckets'[q][j].tokens <= granted[j][MaxTime]
    BY <1>7 DEF LimiterInv, CountsFit
  <2>2. \A j \in Key : disk'[j].tokens <= granted[j][MaxTime]
    BY <1>1 DEF LimiterInv, CountsFit
  <2> QED BY <1>1, <1>5, <2>1, <2>2, GrantedStays DEF LimiterTypes
<1>9. GrantsFit'
  <2> SUFFICES ASSUME ~excused' PROVE GrantsFit'
    BY DEF GrantsFit
  <2>1. ~excused /\ ~(mtime = seen[p] /\ disk # buckets[p])
    BY <1>1
  <2>2. \A j \in Key : KeyFits(Until(j), disk[j], now, Window[j], Budget(j))'
    BY <1>1, <2>1, NothingMoves
  <2>3. buckets'[p] = disk
    <3>1. seen[p] <= mtime /\ seen[p] \in Int /\ mtime \in Int
      BY <1>2 DEF LimiterInv, ReadsFit, Time
    <3>2. CASE ~(mtime > seen[p]) /\ UNCHANGED <<buckets, seen>>
      BY <2>1, <3>1, <3>2
    <3>3. CASE buckets' = [buckets EXCEPT ![p] = disk]
      BY <1>2, <3>3
    <3> QED BY <1>4, <3>2, <3>3
  <2>4. \A q \in Process : deciding'[q].cost > 0 => buckets'[q] = deciding'[q].file
    <3>1. deciding'[p] = ask /\ \A q \in Process : q # p => deciding'[q] = deciding[q] /\ buckets'[q] = buckets[q]
      BY <1>1, <1>2, <1>7
    <3>2. \A q \in Process : deciding[q].cost > 0 => buckets[q] = deciding[q].file
      BY <2>1 DEF LimiterInv, GrantsFit
    <3> QED BY <1>3, <2>3, <3>1, <3>2
  <2> QED BY <2>2, <2>4 DEF GrantsFit
<1> QED BY <1>5, <1>6, <1>8, <1>9 DEF LimiterInv

LEMMA AllowsFits ==
  ASSUME LimiterInv, NEW p \in Process, Allows(p),
         NEW k, k = deciding[p].key, NEW c, c = deciding[p].cost
  PROVE  LimiterInv'
<1> DEFINE b   == buckets[p][k]
           d   == Charged(b, c, k)
           new == [buckets[p] EXCEPT ![k] = d]
           forgets == disk # deciding[p].file
<1>1. /\ c > 0 /\ Spent(k, 0, MaxTime) + c <= MaxGranted /\ (WindowOver(b, k) \/ Fits(b, c, k))
      /\ buckets' = [buckets EXCEPT ![p] = new] /\ Flushes(p, forgets)
      /\ granted' = [granted EXCEPT ![k] = [t \in Time |-> granted[k][t] + IF t < now THEN 0 ELSE c]]
      /\ deciding' = [deciding EXCEPT ![p] = Nothing] /\ now' = now
  BY DEF Allows
<1>2. /\ now \in 1..MaxTime /\ mtime \in Time /\ seen \in [Process -> Time] /\ now \in Time
      /\ buckets \in [Process -> Buckets] /\ disk \in Buckets /\ excused \in BOOLEAN
      /\ deciding \in [Process -> Asked] /\ granted \in [Key -> [Time -> 0..MaxGranted]]
  BY DEF LimiterInv, LimiterTypes, Time
<1>3. k \in Key /\ c \in 1..MaxCost /\ b \in Bucket /\ buckets[p] \in Buckets /\ b.tokens \in Nat /\ b.start \in Int
  <2>1. deciding[p] \in Asked
    BY <1>2
  <2>2. k \in Key /\ c \in 1..MaxCost
    BY <1>1, <2>1, LimiterConstants DEF Asked
  <2>3. buckets[p] \in Buckets
    BY <1>2
  <2>4. b \in Bucket
    BY <2>2, <2>3 DEF Buckets
  <2> HIDE DEF b
  <2>5. b.tokens \in Nat /\ b.start \in Int
    BY <2>4, LimiterConstants DEF Bucket, Time
  <2> QED BY <2>2, <2>3, <2>4, <2>5
<1>4. \A j \in Key : Window[j] \in Nat \ {0} /\ Limit[j] \in Nat /\ Budget(j) \in Nat
                     /\ MaxCost <= Budget(j) /\ Limit[j] <= Budget(j)
  BY LimiterConstants
<1>5. MaxTime \in Nat /\ MaxTime \in Time /\ MaxCost \in Nat /\ MaxGranted \in Nat
  BY LimiterConstants DEF Time
<1>6. /\ b.tokens <= granted[k][MaxTime] /\ granted[k][MaxTime] + c <= MaxGranted
      /\ \A j \in Key : \A t \in Time : granted[j][t] \in Nat /\ granted[j][t] <= granted[j][MaxTime]
  <2>1. Until(k)[-1] = 0 /\ Until(k)[MaxTime] = granted[k][MaxTime]
    BY <1>2, <1>3, <1>5, UntilIs
  <2>2. UpTo(k, MaxTime) = granted[k][MaxTime] /\ UpTo(k, 0 - 1) = 0
    BY <1>5 DEF UpTo
  <2>3. granted[k][MaxTime] \in Nat /\ \A j \in Key : \A t \in Time : granted[j][t] \in Nat
    BY <1>2, <1>3, <1>5
  <2>4. \A j \in Key : \A t \in Time : granted[j][t] <= granted[j][MaxTime]
    <3> SUFFICES ASSUME NEW j \in Key, NEW t \in Time PROVE granted[j][t] <= granted[j][MaxTime]
      OBVIOUS
    <3>1. Until(j)[t] = granted[j][t] /\ Until(j)[MaxTime] = granted[j][MaxTime]
      BY <1>2, <1>5, UntilIs
    <3>2. t \in Ticks /\ MaxTime \in Ticks /\ t <= MaxTime
      BY <1>5 DEF Ticks, Time
    <3>3. Until(j)[t] <= Until(j)[MaxTime]
      BY <3>2 DEF LimiterInv, CountsFit, Grows
    <3> QED BY <3>1, <3>3
  <2> QED BY <1>1, <1>3, <2>2, <2>3, <2>4 DEF LimiterInv, CountsFit, Spent
<1>7. /\ granted' \in [Key -> [Time -> 0..MaxGranted]]
      /\ \A j \in Key : j # k => granted'[j] = granted[j]
      /\ \A t \in Time : granted'[k][t] = granted[k][t] + IF t < now THEN 0 ELSE c
      /\ granted'[k][MaxTime] = granted[k][MaxTime] + c
  <2> DEFINE g == [t \in Time |-> granted[k][t] + IF t < now THEN 0 ELSE c]
  <2>1. g \in [Time -> 0..MaxGranted]
    BY <1>2, <1>3, <1>5, <1>6
  <2>2. granted' = [granted EXCEPT ![k] = g] /\ g[MaxTime] = granted[k][MaxTime] + c
    BY <1>1, <1>2, <1>5
  <2>3. \A t \in Time : g[t] = granted[k][t] + IF t < now THEN 0 ELSE c
    OBVIOUS
  <2> HIDE DEF g
  <2> QED BY <1>2, <1>3, <2>1, <2>2, <2>3
<1>8. /\ d \in Bucket /\ d.tokens <= granted'[k][MaxTime]
      /\ \/ (b.start = -1 \/ now - b.start >= Window[k]) /\ c <= Budget(k) /\ d.tokens = c /\ d.start = now
         \/ /\ ~(b.start = -1 \/ now - b.start >= Window[k]) /\ b.tokens + c <= Budget(k)
            /\ d.tokens = b.tokens + c /\ d.start = b.start
  <2>1. CASE b.start = -1 \/ now - b.start >= Window[k]
    <3>1. d = [tokens |-> c, start |-> now]
      BY <2>1 DEF Charged, WindowOver
    <3>2. c \in 0..MaxGranted /\ c <= granted[k][MaxTime] + c /\ c <= Budget(k)
      <4>1. granted[k][MaxTime] \in Nat /\ Budget(k) \in Nat /\ MaxCost <= Budget(k)
        BY <1>3, <1>4, <1>5, <1>6
      <4> QED BY <1>3, <1>5, <1>6, <4>1
    <3> HIDE DEF b, d
    <3> QED BY <1>2, <1>7, <2>1, <3>1, <3>2 DEF Bucket
  <2>2. CASE ~(b.start = -1 \/ now - b.start >= Window[k])
    <3>1. d = [b EXCEPT !.tokens = b.tokens + c] /\ b.tokens + c <= Limit[k]
      BY <1>1, <2>2 DEF Charged, WindowOver, Fits
    <3>2. b.tokens + c \in 0..MaxGranted /\ b.tokens + c <= granted[k][MaxTime] + c /\ b.tokens + c <= Budget(k)
      <4>1. granted[k][MaxTime] \in Nat /\ Budget(k) \in Nat /\ Limit[k] <= Budget(k) /\ Limit[k] \in Nat
        BY <1>3, <1>4, <1>5, <1>6
      <4> HIDE DEF b, d
      <4> QED BY <1>3, <1>5, <1>6, <3>1, <4>1
    <3> HIDE DEF b, d
    <3>3. d.tokens = b.tokens + c /\ d.start = b.start /\ d \in Bucket
      BY <1>3, <3>1, <3>2 DEF Bucket
    <3> QED BY <1>7, <2>2, <3>2, <3>3
  <2> QED BY <2>1, <2>2
<1>9. new \in Buckets /\ new[k] = d /\ \A j \in Key : j # k => new[j] = buckets[p][j]
  <2> HIDE DEF d, b
  <2> QED BY <1>3, <1>8 DEF Buckets
<1> HIDE DEF b, d, new
<1>10. forgets \in BOOLEAN
  OBVIOUS
<1> HIDE DEF forgets
<1>11. /\ disk' \in Buckets /\ mtime' \in Time /\ seen' \in [Process -> Time] /\ excused' \in BOOLEAN
       /\ buckets' \in [Process -> Buckets] /\ ReadsFit' /\ (disk' = disk \/ disk' = new)
       /\ ~excused' => ~excused /\ ~forgets /\ disk' = new
  BY <1>1, <1>9, <1>10, FlushFits
<1>12. LimiterTypes'
  <2>1. deciding' \in [Process -> Asked]
    BY <1>1, <1>2, EmptyFits
  <2> QED BY <1>1, <1>2, <1>7, <1>11, <2>1 DEF LimiterTypes
<1>13. /\ Until(k)' = [t \in Ticks |-> Until(k)[t] + IF t < now THEN 0 ELSE c]
       /\ \A j \in Key : j # k => Until(j)' = Until(j)
  <2>1. \A j \in Key : j # k => Until(j)' = Until(j)
    BY <1>7 DEF Until, UpTo
  <2>2. \A t \in Ticks : UpTo(k, t)' = Until(k)[t] + IF t < now THEN 0 ELSE c
    <3> SUFFICES ASSUME NEW t \in Ticks PROVE UpTo(k, t)' = Until(k)[t] + IF t < now THEN 0 ELSE c
      BY DEF Until
    <3>1. Until(k)[t] = UpTo(k, t)
      BY DEF Until
    <3>2. CASE t < 0
      <4>1. t < now
        BY <1>2, <3>2 DEF Ticks
      <4> QED BY <3>1, <3>2, <4>1 DEF UpTo
    <3>3. CASE ~(t < 0)
      <4>1. t \in Time
        BY <1>5, <3>3 DEF Ticks, Time
      <4> QED BY <1>7, <3>1, <3>3, <4>1 DEF UpTo
    <3> QED BY <3>2, <3>3
  <2> QED BY <2>1, <2>2 DEF Until
<1>14. \A j \in Key : Grows(Until(j))'
  <2> SUFFICES ASSUME NEW j \in Key PROVE Grows(Until(j)')
    OBVIOUS
  <2>1. Grows(Until(j))
    BY DEF LimiterInv, CountsFit
  <2>2. CASE j # k
    BY <1>13, <2>1, <2>2
  <2>3. CASE j = k
    <3> DEFINE u == Until(k)
               v == Until(k)'
    <3>1. u \in [Ticks -> Nat] /\ \A x, y \in Ticks : x <= y => u[x] <= u[y]
      BY <2>1, <2>3 DEF Grows
    <3>2. \A x \in Ticks : x \in Int /\ u[x] \in Nat /\ v[x] = u[x] + IF x < now THEN 0 ELSE c
      <4>1. v = [x \in Ticks |-> u[x] + IF x < now THEN 0 ELSE c]
        BY <1>13
      <4>2. \A x \in Ticks : u[x] \in Nat
        BY <3>1
      <4> HIDE DEF u, v
      <4>3. \A x \in Ticks : x \in Int
        BY DEF Ticks
      <4> QED BY <4>1, <4>2, <4>3
    <3>3. v \in [Ticks -> Nat]
      <4>1. v = [t \in Ticks |-> u[t] + IF t < now THEN 0 ELSE c]
        BY <1>13
      <4> HIDE DEF u, v
      <4> QED BY <1>3, <3>2, <4>1
    <3> HIDE DEF u, v
    <3>4. \A x, y \in Ticks : x <= y => v[x] <= v[y]
      BY <1>2, <1>3, <3>1, <3>2
    <3>5. Grows(v)
      BY <3>3, <3>4 DEF Grows
    <3> QED BY <2>3, <3>5 DEF v
  <2> QED BY <2>2, <2>3
<1>15. CountsFit'
  <2>1. \A j \in Key : disk[j].tokens <= granted[j][MaxTime] /\ granted[j][MaxTime] \in Nat
                       /\ disk[j].tokens \in Nat
                       /\ \A q \in Process : buckets[q][j].tokens <= granted[j][MaxTime] /\ buckets[q][j].tokens \in Nat
    <3>1. \A j \in Key : disk[j] \in Bucket /\ \A q \in Process : buckets[q][j] \in Bucket
      BY <1>2 DEF Buckets
    <3>2. \A x \in Bucket : x.tokens \in Nat
      BY <1>5 DEF Bucket
    <3> QED BY <1>2, <1>5, <1>6, <3>1, <3>2 DEF LimiterInv, CountsFit
  <2>2. \A j \in Key : granted[j][MaxTime] <= granted'[j][MaxTime] /\ granted'[j][MaxTime] \in Nat
    BY <1>3, <1>5, <1>6, <1>7
  <2>3. \A j \in Key : new[j].tokens <= granted'[j][MaxTime]
    <3> TAKE j \in Key
    <3>1. CASE j = k
      BY <1>8, <1>9, <3>1
    <3>2. CASE j # k
      BY <1>7, <1>9, <2>1, <3>2
    <3> QED BY <3>1, <3>2
  <2>4. \A j \in Key : disk'[j].tokens <= granted'[j][MaxTime]
    BY <1>11, <2>1, <2>2, <2>3
  <2>5. \A q \in Process, j \in Key : buckets'[q][j].tokens <= granted'[j][MaxTime]
    <3> TAKE q \in Process, j \in Key
    <3>1. CASE q = p
      BY <1>1, <1>2, <2>3, <3>1
    <3>2. CASE q # p
      <4>1. buckets'[q] = buckets[q]
        BY <1>1, <1>2, <3>2
      <4> QED BY <2>1, <2>2, <4>1
    <3> QED BY <3>1, <3>2
  <2> QED BY <1>14, <2>4, <2>5 DEF CountsFit
<1>16. GrantsFit'
  <2> SUFFICES ASSUME ~excused' PROVE GrantsFit'
    BY DEF GrantsFit
  <2>1. ~excused /\ disk = buckets[p] /\ disk' = new
    <3>1. ~excused /\ ~forgets /\ disk' = new
      BY <1>11
    <3>2. buckets[p] = deciding[p].file
      BY <1>1, <3>1 DEF LimiterInv, GrantsFit
    <3> QED BY <3>1, <3>2 DEF forgets
  <2>2. ASSUME NEW j \in Key PROVE KeyFits(Until(j), disk[j], now, Window[j], Budget(j))'
    <3>1. KeyFits(Until(j), disk[j], now, Window[j], Budget(j)) /\ disk[j] \in Bucket
      BY <1>2, <2>1 DEF LimiterInv, GrantsFit, Buckets
    <3>2. Budget(j)' = Budget(j)
      BY DEF Budget
    <3>3. KeyFits(Until(j)', disk'[j], now, Window[j], Budget(j))
      <4>1. CASE j # k
        BY <1>9, <1>13, <2>1, <3>1, <4>1
      <4>2. CASE j = k
        <5>1. disk[k] = b /\ disk'[k] = d
          BY <1>9, <2>1 DEF b
        <5>2. KeyFits(Until(k), b, now, Window[k], Budget(k))
          BY <3>1, <4>2, <5>1
        <5>3. KeyFits(Until(k)', d, now, Window[k], Budget(k))
          <6> DEFINE v == Until(k)'
                     W == Window[k]
                     L == Budget(k)
          <6>1. v = [t \in Ticks |-> Until(k)[t] + IF t < now THEN 0 ELSE c] /\ c \in Nat \ {0}
                /\ W \in Nat \ {0} /\ L \in Nat
            BY <1>3, <1>4, <1>13
          <6>2. KeyFits(Until(k), b, now, W, L)
            BY <5>2
          <6>3. \/ (b.start = -1 \/ now - b.start >= W) /\ c <= L /\ d.tokens = c /\ d.start = now
                \/ /\ ~(b.start = -1 \/ now - b.start >= W) /\ b.tokens + c <= L
                   /\ d.tokens = b.tokens + c /\ d.start = b.start
            BY <1>8
          <6> HIDE DEF v, W, L
          <6>4. KeyFits(v, d, now, W, L)
            BY <1>2, <1>3, <1>5, <6>1, <6>2, <6>3, ChargeFits, ZenonT(40)
          <6> QED BY <6>4 DEF v, W, L
        <5> QED BY <4>2, <5>1, <5>3
      <4> QED BY <4>1, <4>2
    <3> QED BY <1>1, <3>2, <3>3
  <2>3. \A q \in Process : deciding'[q].cost > 0 => buckets'[q] = deciding'[q].file
    BY <1>1, <2>1, OthersStillAsk
  <2> QED BY <2>2, <2>3 DEF GrantsFit
<1> QED BY <1>11, <1>12, <1>15, <1>16 DEF LimiterInv

(* A process writes buckets of which some are forgotten. *)
LEMMA DropsFit ==
  ASSUME LimiterInv, NEW p \in Process, NEW gone \in SUBSET Key, NEW forgets \in BOOLEAN,
         buckets' = [buckets EXCEPT ![p] = [k \in Key |-> IF k \in gone THEN NoBucket ELSE buckets[p][k]]],
         Flushes(p, forgets), UNCHANGED <<now, deciding, granted>>, deciding[p].cost = 0,
         ~forgets => disk = buckets[p] /\ \A k \in gone : WindowOver(buckets[p][k], k)
  PROVE  LimiterInv'
<1> DEFINE new == [k \in Key |-> IF k \in gone THEN NoBucket ELSE buckets[p][k]]
<1>1. /\ buckets \in [Process -> Buckets] /\ disk \in Buckets /\ granted \in [Key -> [Time -> 0..MaxGranted]]
      /\ buckets[p] \in Buckets
  BY DEF LimiterInv, LimiterTypes
<1>2. new \in Buckets
  BY <1>1, EmptyFits DEF Buckets
<1>3. \A k \in Key : new[k] = IF k \in gone THEN NoBucket ELSE buckets[p][k]
  OBVIOUS
<1>4. buckets' = [buckets EXCEPT ![p] = new]
  OBVIOUS
<1> HIDE DEF new
<1>5. /\ disk' \in Buckets /\ mtime' \in Time /\ seen' \in [Process -> Time] /\ excused' \in BOOLEAN
      /\ buckets' \in [Process -> Buckets] /\ ReadsFit' /\ (disk' = disk \/ disk' = new)
      /\ ~excused' => ~excused /\ ~forgets /\ disk' = new
  BY <1>2, <1>4, FlushFits
<1>6. LimiterTypes'
  BY <1>5 DEF LimiterInv, LimiterTypes
<1>7. CountsFit'
  <2>1. \A k \in Key : disk[k].tokens <= granted[k][MaxTime] /\ 0 <= granted[k][MaxTime]
                       /\ \A q \in Process : buckets[q][k].tokens <= granted[k][MaxTime]
    <3>1. MaxTime \in Time
      BY LimiterConstants DEF Time
    <3> QED BY <1>1, <3>1, LimiterConstants DEF LimiterInv, CountsFit
  <2>2. \A k \in Key : new[k].tokens <= granted[k][MaxTime]
    BY <1>3, <2>1 DEF NoBucket
  <2>3. \A q \in Process, k \in Key : buckets'[q][k].tokens <= granted[k][MaxTime]
    BY <1>1, <1>4, <2>1, <2>2
  <2>4. \A k \in Key : disk'[k].tokens <= granted[k][MaxTime]
    BY <1>5, <2>1, <2>2
  <2> QED BY <1>5, <2>3, <2>4, GrantedStays
<1>8. GrantsFit'
  <2> SUFFICES ASSUME ~excused' PROVE GrantsFit'
    BY DEF GrantsFit
  <2>1. ~excused /\ disk = buckets[p] /\ disk' = new /\ \A k \in gone : WindowOver(disk[k], k)
    BY <1>5
  <2>2. \A k \in Key : disk'[k] = IF k \in gone THEN NoBucket ELSE disk[k]
    BY <1>3, <2>1
  <2>3. \A k \in Key : KeyFits(Until(k), disk[k], now, Window[k], Budget(k))'
    BY <2>1, <2>2, NothingGranted
  <2>4. \A q \in Process : deciding'[q].cost > 0 => buckets'[q] = deciding'[q].file
    BY <1>4, <2>1, OthersStillAsk
  <2> QED BY <2>3, <2>4 DEF GrantsFit
<1> QED BY <1>5, <1>6, <1>7, <1>8 DEF LimiterInv

LEMMA LimiterNextStep == LimiterInv /\ [LimiterNext]_limiterVars => LimiterInv'
<1> SUFFICES ASSUME LimiterInv, [LimiterNext]_limiterVars PROVE LimiterInv'
  OBVIOUS
<1>1. CASE LimiterTick
  BY <1>1, TicksFit
<1>2. ASSUME NEW p \in Process, NEW k \in Key, NEW c \in Cost, LooksUp(p, k, c) PROVE LimiterInv'
  BY <1>2, LooksUpFits
<1>3. ASSUME NEW p \in Process, Allows(p) PROVE LimiterInv'
  BY <1>3, AllowsFits
<1>4. ASSUME NEW p \in Process, Rejects(p) PROVE LimiterInv'
  <2>1. /\ deciding' = [deciding EXCEPT ![p] = Nothing]
        /\ UNCHANGED <<now, buckets, disk, mtime, seen, granted, excused>>
    BY <1>4 DEF Rejects
  <2>2. LimiterTypes'
    BY <2>1, EmptyFits DEF LimiterInv, LimiterTypes
  <2>3. \A k \in Key : Until(k)' = Until(k) /\ Budget(k)' = Budget(k)
    BY <2>1 DEF Until, UpTo, Budget
  <2>4. CountsFit' /\ ReadsFit'
    BY <2>1, <2>3 DEF LimiterInv, CountsFit, ReadsFit
  <2>5. GrantsFit'
    <3> SUFFICES ASSUME ~excused PROVE GrantsFit'
      BY <2>1 DEF GrantsFit
    <3>1. \A q \in Process : deciding'[q].cost > 0 => buckets'[q] = deciding'[q].file
      <4>1. deciding \in [Process -> Asked]
        BY DEF LimiterInv, LimiterTypes
      <4>2. \A q \in Process : deciding'[q] = IF q = p THEN Nothing ELSE deciding[q]
        BY <2>1, <4>1
      <4>3. \A q \in Process : deciding[q].cost > 0 => buckets[q] = deciding[q].file
        BY DEF LimiterInv, GrantsFit
      <4> QED BY <2>1, <4>2, <4>3, EmptyFits
    <3>2. \A k \in Key : KeyFits(Until(k), disk[k], now, Window[k], Budget(k))'
      BY <2>1, NothingMoves
    <3> QED BY <3>1, <3>2 DEF GrantsFit
  <2> QED BY <2>2, <2>4, <2>5 DEF LimiterInv
<1>5. ASSUME NEW p \in Process, Cleanup(p) PROVE LimiterInv'
  <2> DEFINE forgets == disk # buckets[p] \/ \E k \in Stale(p) : ~WindowOver(buckets[p][k], k)
  <2>1. /\ deciding[p].cost = 0 /\ Flushes(p, forgets) /\ UNCHANGED <<now, deciding, granted>>
        /\ buckets' = [buckets EXCEPT ![p] = [k \in Key |-> IF k \in Stale(p) THEN NoBucket ELSE buckets[p][k]]]
    BY <1>5 DEF Cleanup
  <2>2. Stale(p) \in SUBSET Key /\ forgets \in BOOLEAN
    BY DEF Stale
  <2>3. ~forgets => disk = buckets[p] /\ \A k \in Stale(p) : WindowOver(buckets[p][k], k)
    OBVIOUS
  <2> HIDE DEF forgets
  <2> QED BY <2>1, <2>2, <2>3, DropsFit
<1>6. ASSUME NEW p \in Process, Restarts(p) PROVE LimiterInv'
  <2>1. /\ buckets' = [buckets EXCEPT ![p] = disk] /\ seen' = [seen EXCEPT ![p] = mtime]
        /\ deciding' = [deciding EXCEPT ![p] = Nothing]
        /\ excused' = (excused \/ buckets[p] # disk) /\ UNCHANGED <<now, disk, mtime, granted>>
    BY <1>6 DEF Restarts
  <2>2. /\ buckets \in [Process -> Buckets] /\ seen \in [Process -> Time] /\ mtime \in Time /\ excused \in BOOLEAN
    BY DEF LimiterInv, LimiterTypes
  <2>3. LimiterTypes'
    BY <2>1, EmptyFits DEF LimiterInv, LimiterTypes
  <2>4. ReadsFit'
    <3>1. \A q \in Process : seen[q] <= mtime /\ mtime <= now
      BY DEF LimiterInv, ReadsFit
    <3>2. \A q \in Process : seen'[q] <= mtime
      BY <2>1, <2>2, <3>1 DEF Time
    <3> QED BY <2>1, <3>1, <3>2 DEF ReadsFit, LimiterInv
  <2>5. CountsFit'
    <3>1. \A q \in Process : buckets'[q] = buckets[q] \/ buckets'[q] = disk
      BY <2>1, <2>2
    <3>2. \A q \in Process, k \in Key : buckets'[q][k].tokens <= granted[k][MaxTime]
      BY <3>1 DEF LimiterInv, CountsFit
    <3>3. \A k \in Key : disk'[k].tokens <= granted[k][MaxTime]
      BY <2>1 DEF LimiterInv, CountsFit
    <3> QED BY <2>1, <2>3, <3>2, <3>3, GrantedStays DEF LimiterTypes
  <2>6. GrantsFit'
    <3> SUFFICES ASSUME ~excused' PROVE GrantsFit'
      BY DEF GrantsFit
    <3>1. ~excused
      BY <2>1
    <3>2. \A q \in Process : deciding'[q].cost > 0 => buckets'[q] = deciding'[q].file
      BY <2>1, <3>1, OthersStillAsk
    <3>3. \A k \in Key : KeyFits(Until(k), disk[k], now, Window[k], Budget(k))'
      BY <2>1, <3>1, NothingMoves
    <3> QED BY <3>2, <3>3 DEF GrantsFit
  <2> QED BY <2>3, <2>4, <2>5, <2>6 DEF LimiterInv
<1>7. ASSUME NEW p \in Process, Destroys(p) PROVE LimiterInv'
  <2>1. /\ deciding[p].cost = 0 /\ Flushes(p, TRUE) /\ UNCHANGED <<now, deciding, granted>>
        /\ buckets' = [buckets EXCEPT ![p] = Empty]
    BY <1>7 DEF Destroys
  <2>2. Empty = [k \in Key |-> IF k \in Key THEN NoBucket ELSE buckets[p][k]]
    BY DEF Empty
  <2>3. Key \in SUBSET Key /\ TRUE \in BOOLEAN
    OBVIOUS
  <2> QED BY <2>1, <2>2, <2>3, DropsFit
<1>8. CASE UNCHANGED limiterVars
  <2>1. UNCHANGED <<now, buckets, disk, mtime, seen, deciding, granted, excused>>
    BY <1>8 DEF limiterVars
  <2>2. \A k \in Key : Until(k)' = Until(k) /\ Budget(k)' = Budget(k)
    BY <2>1 DEF Until, UpTo, Budget
  <2> QED BY <2>1, <2>2 DEF LimiterInv, LimiterTypes, CountsFit, ReadsFit, GrantsFit
<1> QED BY <1>1, <1>2, <1>3, <1>4, <1>5, <1>6, <1>7, <1>8 DEF LimiterNext

LEMMA LimiterProperties == LimiterInv => LimiterTypeOK /\ BurstAtMostDouble /\ DiskAccountsForGrants
<1> SUFFICES ASSUME LimiterInv PROVE LimiterTypeOK /\ BurstAtMostDouble /\ DiskAccountsForGrants
  OBVIOUS
<1>1. LimiterTypeOK
  <2>1. 1..MaxTime \subseteq Time
    BY LimiterConstants DEF Time
  <2> QED BY <2>1 DEF LimiterInv, LimiterTypes, LimiterTypeOK, Buckets, Asked
<1>2. ASSUME NEW k \in Key
      PROVE  /\ Window[k] \in Nat \ {0} /\ Budget(k) \in Nat /\ \A t \in Time : t \in Int /\ t - 1 \in Ticks
             /\ \A t \in Ticks : UpTo(k, t) = Until(k)[t]
  BY LimiterConstants DEF Until, Time, Ticks
<1>3. BurstAtMostDouble
  <2> SUFFICES ASSUME ~excused, NEW k \in Key, NEW t \in Time, t + Window[k] - 1 <= MaxTime
               PROVE  Spent(k, t, t + Window[k] - 1) <= 2 * Budget(k)
    BY DEF BurstAtMostDouble
  <2>1. Until(k)[t + Window[k] - 1] - Until(k)[t - 1] <= 2 * Budget(k)
    BY DEF LimiterInv, GrantsFit, KeyFits, SpansFit
  <2>2. t + Window[k] - 1 \in Ticks /\ t - 1 \in Ticks
    BY <1>2 DEF Time, Ticks
  <2> QED BY <1>2, <2>1, <2>2 DEF Spent
<1>4. DiskAccountsForGrants
  <2> SUFFICES ASSUME ~excused, NEW k \in Key, disk[k].start # -1
               PROVE  disk[k].tokens = Spent(k, disk[k].start, now)
    BY DEF DiskAccountsForGrants
  <2>1. disk[k].start \in 1..now /\ disk[k].tokens = Until(k)[now] - Until(k)[disk[k].start - 1]
    BY DEF LimiterInv, GrantsFit, KeyFits, CountedFits
  <2>2. now \in Ticks /\ disk[k].start - 1 \in Ticks
    BY <2>1, LimiterConstants DEF LimiterInv, LimiterTypes, Ticks
  <2> QED BY <1>2, <2>1, <2>2 DEF Spent
<1> QED BY <1>1, <1>3, <1>4

(***************************************************************************)
(* Feedback.  A vote that must still be there has a place in the store     *)
(* with no more votes behind it than were submitted after it, so that it   *)
(* is pushed out only by as many newer ones as the store holds.            *)
(***************************************************************************)
Sent == [vote : Vote, deleted : BOOLEAN]
Item == [vote : Vote, status : Status, candidate : BOOLEAN, burst : BOOLEAN]

VotesFit ==
  \A n \in DOMAIN submitted :
    \/ submitted[n].deleted \/ submitted[n].vote.at + Retention <= day \/ Newer(n) >= MaxStoredRecords
    \/ \E i \in DOMAIN votes : votes[i] = submitted[n].vote /\ Len(votes) - i <= Newer(n)

FeedbackInv ==
  /\ day \in 0..MaxDay
  /\ votes \in Seq(Vote) /\ Len(votes) <= MaxStoredRecords
  /\ review \in Seq(Item) /\ submitted \in Seq(Sent)
  /\ VotesFit /\ ImportedOnce /\ BurstsAreMarked

LEMMA FeedbackConstants ==
  /\ MaxStoredRecords \in Nat \ {0} /\ Retention \in Nat \ {0} /\ MaxDay \in Nat
  /\ BurstThreshold \in Nat /\ BurstWindow \in Nat
  BY FeedbackAssumption

LEMMA VoteTime == \A v \in Vote : v.at \in Nat /\ v.at \in 0..MaxDay /\ v.id \in VoteId
  BY FeedbackConstants DEF Vote

LEMMA FeedbackInitInvariant == FeedbackInit => FeedbackInv
<1> SUFFICES ASSUME FeedbackInit PROVE FeedbackInv
  OBVIOUS
<1>1. day \in 0..MaxDay /\ votes = <<>> /\ review = <<>> /\ submitted = <<>>
  BY FeedbackConstants DEF FeedbackInit
<1>2. Len(votes) <= MaxStoredRecords
  BY <1>1, FeedbackConstants
<1>3. VotesFit /\ ImportedOnce /\ BurstsAreMarked
  BY <1>1 DEF VotesFit, ImportedOnce, BurstsAreMarked
<1> QED BY <1>1, <1>2, <1>3 DEF FeedbackInv

(* Purging keeps the votes that have not expired, in their order. *)
LEMMA UnexpiredIs ==
  ASSUME NEW s \in Seq(Vote)
  PROVE  /\ Unexpired(s) \in Seq(Vote) /\ Len(Unexpired(s)) <= Len(s)
         /\ \A i \in DOMAIN s : s[i].at + Retention > day =>
              \E j \in DOMAIN Unexpired(s) :
                Unexpired(s)[j] = s[i] /\ Len(Unexpired(s)) - j <= Len(s) - i
<1> DEFINE n == Len(s)
           More(f, k) == IF s[k].at + Retention > day THEN Append(f, s[k]) ELSE f
           step == [k \in 1..n |-> [f \in Seq(Vote) |-> More(f, k)]]
           kept == CHOOSE f : f = [k \in 0..n |-> IF k = 0 THEN <<>> ELSE More(f[k - 1], k)]
<1>1. n \in Nat /\ DOMAIN s = 1..n /\ \A k \in 1..n : s[k] \in Vote
  OBVIOUS
<1>2. ASSUME NEW f \in Seq(Vote), NEW k \in 1..n PROVE More(f, k) \in Seq(Vote)
  BY <1>1
<1>3. step \in [1..n -> [Seq(Vote) -> Seq(Vote)]]
  <2> HIDE DEF More
  <2> QED BY <1>2
<1>4. PICK f \in [0..n -> Seq(Vote)] : Iterates(f, <<>>, step, n)
  <2> HIDE DEF step, n
  <2>1. n \in Nat /\ <<>> \in Seq(Vote)
    BY <1>1
  <2> QED BY <1>3, <2>1, RecursionUpTo
<1>5. \A k \in 1..n : f[k] = More(f[k - 1], k)
  <2> HIDE DEF More
  <2>1. \A k \in 1..n : k - 1 \in 0..n
    BY <1>1
  <2> QED BY <1>4, <2>1 DEF Iterates
<1>6. f = [k \in 0..n |-> IF k = 0 THEN <<>> ELSE More(f[k - 1], k)]
  <2> HIDE DEF More
  <2>1. \A k \in 0..n : k # 0 => k \in 1..n
    BY <1>1
  <2> QED BY <1>4, <1>5, <2>1 DEF Iterates
<1>7. kept = [k \in 0..n |-> IF k = 0 THEN <<>> ELSE More(kept[k - 1], k)]
  <2> HIDE DEF More
  <2> QED BY <1>6
<1>8. Unexpired(s) = kept[n]
  BY DEF Unexpired
<1> HIDE DEF kept
<1> DEFINE Placed(r, i, k) == \E j \in DOMAIN r : r[j] = s[i] /\ Len(r) - j <= k - i
           G == {k \in 0..n : /\ kept[k] \in Seq(Vote) /\ Len(kept[k]) <= k
                              /\ \A i \in 1..k : s[i].at + Retention > day => Placed(kept[k], i, k)}
<1>9. 0 \in G
  <2>1. kept[0] = <<>>
    BY <1>1, <1>7
  <2>2. 0 \in 0..n /\ 1..0 = {} /\ <<>> \in Seq(Vote) /\ Len(<<>>) <= 0
    BY <1>1
  <2> HIDE DEF Placed
  <2> QED BY <2>1, <2>2
<1>10. ASSUME NEW k \in 1..n, k - 1 \in G PROVE k \in G
  <2> DEFINE r == kept[k - 1]
  <2>1. /\ r \in Seq(Vote) /\ Len(r) \in Nat /\ Len(r) <= k - 1 /\ DOMAIN r = 1..Len(r)
        /\ \A i \in 1..(k - 1) : s[i].at + Retention > day => Placed(r, i, k - 1)
    <3> HIDE DEF Placed
    <3>1. /\ r \in Seq(Vote) /\ Len(r) <= k - 1
          /\ \A i \in 1..(k - 1) : s[i].at + Retention > day => Placed(r, i, k - 1)
      BY <1>10
    <3>2. Len(r) \in Nat /\ DOMAIN r = 1..Len(r)
      <4> HIDE DEF r
      <4> QED BY <3>1
    <3> QED BY <3>1, <3>2
  <2>2. k \in 0..n /\ kept[k] = More(r, k) /\ s[k] \in Vote
    <3>1. k \in 0..n /\ k # 0
      BY <1>1
    <3> HIDE DEF More
    <3>2. kept[k] = More(r, k)
      BY <1>7, <3>1
    <3> QED BY <1>1, <3>1, <3>2
  <2> HIDE DEF r
  <2>3. CASE s[k].at + Retention > day
    <3> DEFINE a == Append(r, s[k])
    <3>1. kept[k] = a
      BY <2>2, <2>3
    <3>2. /\ a \in Seq(Vote) /\ Len(a) = Len(r) + 1 /\ DOMAIN a = 1..(Len(r) + 1)
          /\ a[Len(r) + 1] = s[k] /\ \A j \in 1..Len(r) : a[j] = r[j]
      BY <2>1, <2>2
    <3> HIDE DEF a
    <3>3. ASSUME NEW i \in 1..k, s[i].at + Retention > day PROVE Placed(a, i, k)
      <4>1. CASE i = k
        <5>1. Len(r) + 1 \in DOMAIN a /\ a[Len(r) + 1] = s[i] /\ Len(a) - (Len(r) + 1) <= k - i
          BY <2>1, <3>2, <4>1
        <5> QED BY <5>1
      <4>2. CASE i # k
        <5>1. i \in 1..(k - 1)
          BY <4>2
        <5>2. PICK j \in DOMAIN r : r[j] = s[i] /\ Len(r) - j <= k - 1 - i
          BY <2>1, <3>3, <5>1
        <5>3. j \in DOMAIN a /\ a[j] = s[i] /\ Len(a) - j <= k - i
          BY <2>1, <3>2, <5>2
        <5> QED BY <5>3
      <4> QED BY <4>1, <4>2
    <3> HIDE DEF Placed
    <3> QED BY <2>1, <2>2, <3>1, <3>2, <3>3
  <2>4. CASE ~(s[k].at + Retention > day)
    <3>1. kept[k] = r
      BY <2>2, <2>4
    <3>2. ASSUME NEW i \in 1..k, s[i].at + Retention > day PROVE Placed(r, i, k)
      <4>1. i \in 1..(k - 1)
        BY <2>4, <3>2
      <4>2. PICK j \in DOMAIN r : r[j] = s[i] /\ Len(r) - j <= k - 1 - i
        BY <2>1, <3>2, <4>1
      <4>3. Len(r) - j <= k - i
        BY <2>1, <4>2
      <4> QED BY <4>2, <4>3
    <3> HIDE DEF Placed
    <3>3. Len(r) <= k
      BY <2>1
    <3> QED BY <2>1, <2>2, <3>1, <3>2, <3>3
  <2> QED BY <2>3, <2>4
<1>11. n \in G
  <2> HIDE DEF G
  <2>1. \A k \in 0..n : k \in G
    BY <1>1, <1>9, <1>10, InductionUpTo
  <2> QED BY <1>1, <2>1
<1> QED BY <1>1, <1>8, <1>11

(***************************************************************************)
(* The review queue.  However many votes of a window the queue already has *)
(* and the batch brings, an item that makes them more than the threshold   *)
(* was counted with all of them.                                           *)
(***************************************************************************)
NearItems(items, at) == {i \in DOMAIN items : Near(items[i].vote.at, at)}
NearVotes(batch, at, n) == {m \in 1..n : Near(batch[m].at, at)}

OnceIn(items) == \A i, j \in DOMAIN items : items[i].vote.id = items[j].vote.id => i = j
MarkedIn(items) ==
  \A i \in DOMAIN items :
    Cardinality({j \in 1..i : Near(items[j].vote.at, items[i].vote.at)}) > BurstThreshold => items[i].burst

LEMMA NearCounts ==
  ASSUME NEW items \in Seq(Item), NEW batch \in Seq(Vote), NEW at, NEW n \in Nat
  PROVE  /\ IsFiniteSet(NearItems(items, at)) /\ Cardinality(NearItems(items, at)) \in Nat
         /\ IsFiniteSet(NearVotes(batch, at, n)) /\ Cardinality(NearVotes(batch, at, n)) \in Nat
<1>1. IsFiniteSet(1..Len(items)) /\ IsFiniteSet(1..n)
  <2>1. 1 \in Int /\ Len(items) \in Int /\ n \in Int
    OBVIOUS
  <2> QED BY <2>1, FS_Interval
<1>2. NearItems(items, at) \subseteq 1..Len(items) /\ NearVotes(batch, at, n) \subseteq 1..n
  BY DEF NearItems, NearVotes
<1> QED BY <1>1, <1>2, FS_Subset, FS_CardinalityType

(* One more vote, and one more item. *)
LEMMA OneMoreVote ==
  ASSUME NEW batch \in Seq(Vote), NEW at, NEW n \in Nat \ {0}
  PROVE  Cardinality(NearVotes(batch, at, n))
           = Cardinality(NearVotes(batch, at, n - 1)) + One(Near(batch[n].at, at))
<1> DEFINE A == NearVotes(batch, at, n - 1)
           B == NearVotes(batch, at, n)
<1>1. IsFiniteSet(A)
  <2>1. <<>> \in Seq(Item) /\ n - 1 \in Nat
    OBVIOUS
  <2> QED BY <2>1, NearCounts
<1>2. n \notin A /\ (n \in B <=> Near(batch[n].at, at)) /\ \A m : m # n => (m \in A <=> m \in B)
  BY DEF NearVotes
<1> HIDE DEF A, B
<1>3. Cardinality(A) \in Nat /\ Cardinality(B) = Cardinality(A) - One(n \in A) + One(n \in B)
  BY <1>1, <1>2, CountMoves
<1>4. One(n \in A) = 0 /\ One(n \in B) = One(Near(batch[n].at, at))
  BY <1>2 DEF One
<1>5. One(Near(batch[n].at, at)) \in Nat
  BY DEF One
<1> QED BY <1>3, <1>4, <1>5 DEF A, B

LEMMA OneMoreItem ==
  ASSUME NEW items \in Seq(Item), NEW item \in Item, NEW at
  PROVE  Cardinality(NearItems(Append(items, item), at))
           = Cardinality(NearItems(items, at)) + One(Near(item.vote.at, at))
<1> DEFINE A == NearItems(items, at)
           B == NearItems(Append(items, item), at)
           l == Len(items) + 1
<1>1. IsFiniteSet(A)
  <2>1. <<>> \in Seq(Vote) /\ 0 \in Nat
    OBVIOUS
  <2> QED BY <2>1, NearCounts
<1>2. /\ DOMAIN items = 1..Len(items) /\ Len(items) \in Nat /\ DOMAIN Append(items, item) = 1..l
      /\ Append(items, item)[l] = item /\ \A j \in 1..Len(items) : Append(items, item)[j] = items[j]
  OBVIOUS
<1>3. l \notin A /\ (l \in B <=> Near(item.vote.at, at)) /\ \A m : m # l => (m \in A <=> m \in B)
  BY <1>2 DEF NearItems
<1> HIDE DEF A, B, l
<1>4. Cardinality(A) \in Nat /\ Cardinality(B) = Cardinality(A) - One(l \in A) + One(l \in B)
  BY <1>1, <1>3, CountMoves
<1>5. One(l \in A) = 0 /\ One(l \in B) = One(Near(item.vote.at, at))
  BY <1>3 DEF One
<1>6. One(Near(item.vote.at, at)) \in Nat
  BY DEF One
<1> QED BY <1>4, <1>5, <1>6 DEF A, B

(* An item that is new in the queue keeps it in order. *)
LEMMA AppendItemFits ==
  ASSUME NEW items \in Seq(Item), OnceIn(items), MarkedIn(items), NEW item \in Item,
         ~Imported(items, item.vote.id),
         Cardinality(NearItems(items, item.vote.at)) + 1 > BurstThreshold => item.burst
  PROVE  LET a == Append(items, item) IN a \in Seq(Item) /\ OnceIn(a) /\ MarkedIn(a)
<1> DEFINE a == Append(items, item)
           l == Len(items) + 1
<1>1. /\ a \in Seq(Item) /\ DOMAIN items = 1..Len(items) /\ Len(items) \in Nat
      /\ DOMAIN a = 1..l /\ a[l] = item /\ \A j \in 1..Len(items) : a[j] = items[j]
  OBVIOUS
<1>2. item.vote.at \in Nat /\ Near(item.vote.at, item.vote.at)
  <2>1. item.vote \in Vote
    BY DEF Item
  <2> QED BY <2>1, VoteTime, FeedbackConstants DEF Near
<1> HIDE DEF a
<1>3. OnceIn(a)
  <2>1. \A i \in 1..Len(items) : a[i].vote.id # item.vote.id
    BY <1>1 DEF Imported
  <2>2. \A i \in DOMAIN a : i \in 1..Len(items) \/ i = l
    BY <1>1
  <2> QED BY <1>1, <2>1, <2>2 DEF OnceIn
<1>4. MarkedIn(a)
  <2> SUFFICES ASSUME NEW i \in DOMAIN a,
                      Cardinality({j \in 1..i : Near(a[j].vote.at, a[i].vote.at)}) > BurstThreshold
               PROVE  a[i].burst
    BY DEF MarkedIn
  <2>1. CASE i \in 1..Len(items)
    <3>1. \A j \in 1..i : a[j] = items[j] /\ a[i] = items[i]
      BY <1>1, <2>1
    <3>2. {j \in 1..i : Near(a[j].vote.at, a[i].vote.at)} = {j \in 1..i : Near(items[j].vote.at, items[i].vote.at)}
      BY <3>1
    <3>3. a[i] = items[i]
      BY <1>1, <2>1
    <3> QED BY <1>1, <2>1, <3>2, <3>3 DEF MarkedIn
  <2>2. CASE i = l
    <3>1. {j \in 1..i : Near(a[j].vote.at, a[i].vote.at)} = NearItems(a, item.vote.at)
      BY <1>1, <2>2 DEF NearItems
    <3>2. Cardinality(NearItems(a, item.vote.at)) = Cardinality(NearItems(items, item.vote.at)) + 1
      <4>1. Cardinality(NearItems(a, item.vote.at))
              = Cardinality(NearItems(items, item.vote.at)) + One(Near(item.vote.at, item.vote.at))
        <5>1. Cardinality(NearItems(Append(items, item), item.vote.at))
                = Cardinality(NearItems(items, item.vote.at)) + One(Near(item.vote.at, item.vote.at))
          BY OneMoreItem
        <5> QED BY <5>1 DEF a
      <4>2. One(Near(item.vote.at, item.vote.at)) = 1
        BY <1>2 DEF One
      <4> QED BY <4>1, <4>2
    <3> QED BY <1>1, <2>2, <3>1, <3>2
  <2> QED BY <1>1, <2>1, <2>2
<1> QED BY <1>1, <1>3, <1>4 DEF a

LEMMA ItemsAfterFit ==
  ASSUME NEW batch \in Seq(Vote), review \in Seq(Item), OnceIn(review), MarkedIn(review)
  PROVE  /\ ItemsAfter(batch) \in Seq(Item) /\ OnceIn(ItemsAfter(batch)) /\ MarkedIn(ItemsAfter(batch))
<1> DEFINE n == Len(batch)
           More(f, k) == IF Imported(f, batch[k].id) THEN f ELSE Append(f, NewItem(batch, batch[k]))
           step == [k \in 1..n |-> [f \in Seq(Item) |-> More(f, k)]]
           items == CHOOSE f : f = [k \in 0..n |-> IF k = 0 THEN review ELSE More(f[k - 1], k)]
<1>1. n \in Nat /\ DOMAIN batch = 1..n /\ \A k \in 1..n : batch[k] \in Vote
  OBVIOUS
<1>2. \A k \in 1..n : NewItem(batch, batch[k]) \in Item
  <2>1. "pending" \in Status
    BY DEF Status
  <2>2. \A k \in 1..n : IsBurst(batch, batch[k]) \in BOOLEAN
    BY DEF IsBurst
  <2> QED BY <1>1, <2>1, <2>2 DEF NewItem, Item
<1>3. ASSUME NEW f \in Seq(Item), NEW k \in 1..n PROVE More(f, k) \in Seq(Item)
  BY <1>2, <1>3
<1>4. step \in [1..n -> [Seq(Item) -> Seq(Item)]]
  <2> HIDE DEF More
  <2> QED BY <1>3
<1>5. PICK f \in [0..n -> Seq(Item)] : Iterates(f, review, step, n)
  <2> HIDE DEF step, n
  <2>1. n \in Nat
    BY <1>1
  <2> QED BY <1>4, <2>1, RecursionUpTo
<1>6. \A k \in 1..n : f[k] = More(f[k - 1], k)
  <2> HIDE DEF More
  <2>1. \A k \in 1..n : k - 1 \in 0..n
    BY <1>1
  <2> QED BY <1>5, <2>1 DEF Iterates
<1>7. f = [k \in 0..n |-> IF k = 0 THEN review ELSE More(f[k - 1], k)]
  <2> HIDE DEF More
  <2>1. \A k \in 0..n : k # 0 => k \in 1..n
    BY <1>1
  <2> QED BY <1>5, <1>6, <2>1 DEF Iterates
<1>8. items = [k \in 0..n |-> IF k = 0 THEN review ELSE More(items[k - 1], k)]
  <2> HIDE DEF More
  <2> QED BY <1>7
<1>9. ItemsAfter(batch) = items[n]
  BY DEF ItemsAfter
<1> HIDE DEF items
<1> DEFINE Bounded(r, k) == \A at : Cardinality(NearItems(r, at))
                                     <= Cardinality(NearItems(review, at)) + Cardinality(NearVotes(batch, at, k))
           G == {k \in 0..n : /\ items[k] \in Seq(Item) /\ OnceIn(items[k]) /\ MarkedIn(items[k])
                              /\ Bounded(items[k], k)}
<1>10. 0 \in G
  <2>1. items[0] = review /\ 0 \in 0..n
    BY <1>1, <1>8
  <2>2. Bounded(review, 0)
    <3> TAKE at
    <3>1. Cardinality(NearItems(review, at)) \in Nat /\ Cardinality(NearVotes(batch, at, 0)) \in Nat
      BY NearCounts
    <3> QED BY <3>1
  <2> HIDE DEF Bounded
  <2> QED BY <2>1, <2>2
<1>11. ASSUME NEW k \in 1..n, k - 1 \in G PROVE k \in G
  <2> DEFINE r == items[k - 1]
             v == batch[k]
             item == NewItem(batch, v)
  <2>1. r \in Seq(Item) /\ OnceIn(r) /\ MarkedIn(r) /\ Bounded(r, k - 1)
    BY <1>11
  <2>2. k \in 0..n /\ items[k] = More(r, k) /\ v \in Vote /\ item \in Item
    <3>1. k \in 0..n /\ k # 0
      BY <1>1
    <3> HIDE DEF More
    <3>2. items[k] = More(r, k)
      BY <1>8, <3>1
    <3> QED BY <1>1, <1>2, <3>1, <3>2
  <2>3. k \in Nat \ {0} /\ k - 1 \in Nat /\ v.at \in Nat /\ Near(v.at, v.at)
    BY <1>1, <2>2, VoteTime, FeedbackConstants DEF Near
  <2>4. item.vote = v /\ item.burst = IsBurst(batch, v)
    BY DEF NewItem
  <2>5. \A at : /\ Cardinality(NearItems(review, at)) \in Nat /\ Cardinality(NearItems(r, at)) \in Nat
                /\ Cardinality(NearVotes(batch, at, k)) \in Nat /\ Cardinality(NearVotes(batch, at, k - 1)) \in Nat
                /\ Cardinality(NearVotes(batch, at, n)) \in Nat
    BY <1>1, <2>1, <2>3, NearCounts
  <2>6. \A at : /\ Cardinality(NearVotes(batch, at, k))
                     = Cardinality(NearVotes(batch, at, k - 1)) + One(Near(v.at, at))
                /\ Cardinality(NearItems(Append(r, item), at))
                     = Cardinality(NearItems(r, at)) + One(Near(v.at, at))
    <3> TAKE at
    <3> HIDE DEF item, r
    <3>1. /\ Cardinality(NearVotes(batch, at, k))
               = Cardinality(NearVotes(batch, at, k - 1)) + One(Near(batch[k].at, at))
          /\ Cardinality(NearItems(Append(r, item), at))
               = Cardinality(NearItems(r, at)) + One(Near(item.vote.at, at))
      BY <2>1, <2>2, <2>3, OneMoreVote, OneMoreItem
    <3> QED BY <2>4, <3>1
  <2>7. \A at : One(Near(v.at, at)) \in Nat
    BY DEF One
  <2> HIDE DEF r, item, v
  <2>8. CASE items[k] = r
    <3>1. Bounded(r, k)
      <4> TAKE at
      <4>1. Cardinality(NearItems(r, at)) <= Cardinality(NearItems(review, at)) + Cardinality(NearVotes(batch, at, k - 1))
        BY <2>1
      <4> QED BY <2>5, <2>6, <2>7, <4>1
    <3> HIDE DEF Bounded
    <3> QED BY <2>1, <2>2, <2>8, <3>1
  <2>9. CASE ~Imported(r, v.id) /\ items[k] = Append(r, item)
    <3>1. Cardinality(NearItems(r, v.at)) + 1 > BurstThreshold => item.burst
      <4> SUFFICES ASSUME Cardinality(NearItems(r, v.at)) + 1 > BurstThreshold PROVE IsBurst(batch, v)
        BY <2>4
      <4> DEFINE A == Cardinality(NearItems(review, v.at))
                 B == Cardinality(NearVotes(batch, v.at, n))
                 K == Cardinality(NearVotes(batch, v.at, k))
      <4>1. One(Near(v.at, v.at)) = 1
        BY <2>3 DEF One
      <4>2. K = Cardinality(NearVotes(batch, v.at, k - 1)) + 1
        BY <2>6, <4>1
      <4>3. Cardinality(NearItems(r, v.at)) <= A + Cardinality(NearVotes(batch, v.at, k - 1))
        BY <2>1
      <4>4. K <= B
        <5>1. NearVotes(batch, v.at, k) \subseteq NearVotes(batch, v.at, n)
          BY <1>1 DEF NearVotes
        <5>2. IsFiniteSet(NearVotes(batch, v.at, n))
          BY <1>1, <2>1, NearCounts
        <5> QED BY <5>1, <5>2, FS_Subset
      <4>5. InWindow(batch, v) = 1 + A + B - 1
        <5>1. {i \in DOMAIN review : Near(review[i].vote.at, v.at)} = NearItems(review, v.at)
          BY DEF NearItems
        <5>2. {i \in DOMAIN batch : Near(batch[i].at, v.at)} = NearVotes(batch, v.at, n)
          BY <1>1 DEF NearVotes
        <5> QED BY <5>1, <5>2 DEF InWindow
      <4>6. A \in Nat /\ B \in Nat /\ K \in Nat /\ Cardinality(NearItems(r, v.at)) \in Nat
            /\ Cardinality(NearVotes(batch, v.at, k - 1)) \in Nat
        BY <2>5
      <4> HIDE DEF A, B, K
      <4>7. InWindow(batch, v) > BurstThreshold
        BY <4>2, <4>3, <4>4, <4>5, <4>6, FeedbackConstants
      <4> QED BY <4>7 DEF IsBurst
    <3>2. items[k] \in Seq(Item) /\ OnceIn(items[k]) /\ MarkedIn(items[k])
      BY <2>1, <2>2, <2>4, <2>9, <3>1, AppendItemFits
    <3>3. Bounded(Append(r, item), k)
      <4> TAKE at
      <4>1. Cardinality(NearItems(r, at)) <= Cardinality(NearItems(review, at)) + Cardinality(NearVotes(batch, at, k - 1))
        BY <2>1
      <4> QED BY <2>5, <2>6, <2>7, <4>1
    <3> HIDE DEF Bounded
    <3> QED BY <2>2, <2>9, <3>2, <3>3
  <2>10. items[k] = r \/ (~Imported(r, v.id) /\ items[k] = Append(r, item))
    BY <2>2 DEF item, v
  <2> QED BY <2>8, <2>9, <2>10
<1>12. n \in G
  <2> HIDE DEF G
  <2>1. \A k \in 0..n : k \in G
    BY <1>1, <1>10, <1>11, InductionUpTo
  <2> QED BY <1>1, <2>1
<1> QED BY <1>9, <1>12

LEMMA ReviewIs == (ImportedOnce <=> OnceIn(review)) /\ (BurstsAreMarked <=> MarkedIn(review))
  BY DEF ImportedOnce, OnceIn, BurstsAreMarked, MarkedIn

(* An import of any batch keeps the queue in order. *)
LEMMA ImportFits ==
  ASSUME FeedbackInv, NEW batch \in Seq(Vote), review' = ItemsAfter(batch)
  PROVE  review' \in Seq(Item) /\ ImportedOnce' /\ BurstsAreMarked'
<1>1. review \in Seq(Item) /\ OnceIn(review) /\ MarkedIn(review)
  BY ReviewIs DEF FeedbackInv
<1>2. review' \in Seq(Item) /\ OnceIn(review') /\ MarkedIn(review')
  BY <1>1, ItemsAfterFit
<1> QED BY <1>2 DEF ImportedOnce, OnceIn, BurstsAreMarked, MarkedIn

(* A decision about an item changes neither its vote nor its mark. *)
LEMMA DecisionFits ==
  ASSUME FeedbackInv, NEW i \in DOMAIN review, NEW item \in Item, review' = [review EXCEPT ![i] = item],
         item.vote = review[i].vote, item.burst = review[i].burst
  PROVE  review' \in Seq(Item) /\ ImportedOnce' /\ BurstsAreMarked'
<1>1. review \in Seq(Item) /\ OnceIn(review) /\ MarkedIn(review) /\ DOMAIN review = 1..Len(review)
  BY ReviewIs DEF FeedbackInv
<1>2. /\ review' \in Seq(Item) /\ DOMAIN review' = DOMAIN review
      /\ \A j \in DOMAIN review : review'[j].vote = review[j].vote /\ review'[j].burst = review[j].burst
  BY <1>1
<1>3. ImportedOnce'
  BY <1>1, <1>2 DEF ImportedOnce, OnceIn
<1>4. BurstsAreMarked'
  <2> SUFFICES ASSUME NEW j \in DOMAIN review,
                      Cardinality({m \in 1..j : Near(review'[m].vote.at, review'[j].vote.at)}) > BurstThreshold
               PROVE  review'[j].burst
    BY <1>2 DEF BurstsAreMarked
  <2>1. \A m \in 1..j : m \in DOMAIN review
    BY <1>1
  <2>2. {m \in 1..j : Near(review'[m].vote.at, review'[j].vote.at)}
          = {m \in 1..j : Near(review[m].vote.at, review[j].vote.at)}
    BY <1>2, <2>1
  <2> QED BY <1>1, <1>2, <2>2 DEF MarkedIn
<1> QED BY <1>2, <1>3, <1>4

(* What has to be there is there when the store is purged. *)
LEMMA PurgeFits ==
  ASSUME FeedbackInv, NEW s, s = Unexpired(votes)
  PROVE  /\ s \in Seq(Vote) /\ Len(s) <= MaxStoredRecords
         /\ \A n \in DOMAIN submitted :
              \/ submitted[n].deleted \/ submitted[n].vote.at + Retention <= day
              \/ Newer(n) >= MaxStoredRecords
              \/ \E i \in DOMAIN s : s[i] = submitted[n].vote /\ Len(s) - i <= Newer(n)
<1>1. /\ votes \in Seq(Vote) /\ Len(votes) \in Nat /\ Len(votes) <= MaxStoredRecords /\ submitted \in Seq(Sent)
      /\ DOMAIN votes = 1..Len(votes) /\ DOMAIN submitted = 1..Len(submitted) /\ day \in Nat
  BY FeedbackConstants DEF FeedbackInv
<1>2. /\ s \in Seq(Vote) /\ Len(s) <= Len(votes) /\ Len(s) \in Nat /\ DOMAIN s = 1..Len(s)
      /\ \A i \in DOMAIN votes : votes[i].at + Retention > day =>
           \E j \in DOMAIN s : s[j] = votes[i] /\ Len(s) - j <= Len(votes) - i
  BY <1>1, UnexpiredIs
<1>3. ASSUME NEW n \in DOMAIN submitted, ~submitted[n].deleted, ~(submitted[n].vote.at + Retention <= day),
             ~(Newer(n) >= MaxStoredRecords)
      PROVE  \E i \in DOMAIN s : s[i] = submitted[n].vote /\ Len(s) - i <= Newer(n)
  <2>1. PICK i \in DOMAIN votes : votes[i] = submitted[n].vote /\ Len(votes) - i <= Newer(n)
    BY <1>3 DEF FeedbackInv, VotesFit
  <2>2. votes[i] \in Vote /\ votes[i].at \in Nat
    BY <1>1, VoteTime
  <2>3. votes[i].at + Retention > day
    BY <1>1, <1>3, <2>1, <2>2, FeedbackConstants
  <2>4. PICK j \in DOMAIN s : s[j] = votes[i] /\ Len(s) - j <= Len(votes) - i
    BY <1>2, <2>3
  <2>5. Newer(n) \in Int
    BY <1>1 DEF Newer
  <2>6. Len(s) - j <= Newer(n)
    BY <1>1, <1>2, <2>1, <2>4, <2>5
  <2> QED BY <2>1, <2>4, <2>6
<1>4. Len(s) <= MaxStoredRecords
  BY <1>1, <1>2, FeedbackConstants
<1> QED BY <1>2, <1>3, <1>4

LEMMA StaysInReview ==
  ASSUME FeedbackInv, review' = review
  PROVE  review' \in Seq(Item) /\ ImportedOnce' /\ BurstsAreMarked'
  BY DEF FeedbackInv, ImportedOnce, BurstsAreMarked

LEMMA SubmitFits == ASSUME FeedbackInv, NEW id \in VoteId, SubmitFeedback(id) PROVE FeedbackInv'
<1> DEFINE v   == [id |-> id, at |-> day]
           s   == Unexpired(votes)
           r   == IF Len(s) >= MaxStoredRecords THEN Tail(s) ELSE s
           one == [vote |-> v, deleted |-> FALSE]
<1>1. votes' = Append(r, v) /\ submitted' = Append(submitted, one) /\ UNCHANGED <<day, review>>
  BY DEF SubmitFeedback, Stored
<1>2. day \in 0..MaxDay /\ day \in Nat /\ submitted \in Seq(Sent)
  BY FeedbackConstants DEF FeedbackInv
<1>3. v \in Vote /\ one \in Sent /\ one.vote = v /\ v.at = day
  BY <1>2 DEF Vote, Sent
<1>4. /\ s \in Seq(Vote) /\ Len(s) <= MaxStoredRecords /\ Len(s) \in Nat /\ DOMAIN s = 1..Len(s)
      /\ \A n \in DOMAIN submitted :
           \/ submitted[n].deleted \/ submitted[n].vote.at + Retention <= day
           \/ Newer(n) >= MaxStoredRecords
           \/ \E i \in DOMAIN s : s[i] = submitted[n].vote /\ Len(s) - i <= Newer(n)
  BY PurgeFits
<1> HIDE DEF v, s, one
<1> DEFINE off == IF Len(s) >= MaxStoredRecords THEN 1 ELSE 0
<1>5. /\ r \in Seq(Vote) /\ Len(r) = Len(s) - off /\ Len(r) < MaxStoredRecords /\ Len(r) \in Nat
      /\ \A i \in 1..Len(r) : r[i] = s[i + off]
  <2>1. CASE Len(s) >= MaxStoredRecords
    <3>1. s # <<>> /\ Len(s) > 0
      BY <1>4, <2>1, FeedbackConstants
    <3>2. Tail(s) \in Seq(Vote) /\ Len(Tail(s)) = Len(s) - 1 /\ \A i \in 1..(Len(s) - 1) : Tail(s)[i] = s[i + 1]
      BY <1>4, <3>1
    <3> QED BY <1>4, <2>1, <3>2, FeedbackConstants
  <2>2. CASE ~(Len(s) >= MaxStoredRecords)
    BY <1>4, <2>2, FeedbackConstants
  <2> QED BY <2>1, <2>2
<1>6. off \in {0, 1} /\ (off = 1 => Len(s) = MaxStoredRecords)
  <2>1. Len(s) \in Nat /\ Len(s) <= MaxStoredRecords /\ MaxStoredRecords \in Nat
    BY <1>4, FeedbackConstants
  <2> QED BY <2>1
<1> HIDE DEF r, off
<1>7. /\ votes' \in Seq(Vote) /\ Len(votes') = Len(r) + 1 /\ DOMAIN votes' = 1..(Len(r) + 1)
      /\ votes'[Len(r) + 1] = v /\ \A i \in 1..Len(r) : votes'[i] = r[i]
  BY <1>1, <1>3, <1>5
<1>8. /\ submitted' \in Seq(Sent) /\ Len(submitted') = Len(submitted) + 1 /\ Len(submitted) \in Nat
      /\ DOMAIN submitted = 1..Len(submitted) /\ DOMAIN submitted' = 1..(Len(submitted) + 1)
      /\ submitted'[Len(submitted) + 1] = one /\ \A n \in 1..Len(submitted) : submitted'[n] = submitted[n]
  BY <1>1, <1>2, <1>3
<1>9. VotesFit'
  <2> SUFFICES ASSUME NEW n \in DOMAIN submitted', ~submitted'[n].deleted,
                      ~(submitted'[n].vote.at + Retention <= day), ~(Len(submitted') - n >= MaxStoredRecords)
               PROVE  \E i \in DOMAIN votes' : votes'[i] = submitted'[n].vote /\ Len(votes') - i <= Len(submitted') - n
    BY <1>1 DEF VotesFit, Newer
  <2>1. CASE n = Len(submitted) + 1
    <3>1. /\ Len(r) + 1 \in DOMAIN votes' /\ votes'[Len(r) + 1] = submitted'[n].vote
          /\ Len(votes') - (Len(r) + 1) <= Len(submitted') - n
      BY <1>3, <1>5, <1>7, <1>8, <2>1
    <3> QED BY <3>1
  <2>2. CASE n # Len(submitted) + 1
    <3>1. n \in DOMAIN submitted /\ submitted'[n] = submitted[n] /\ n \in Nat
      BY <1>8, <2>2
    <3>2. ~(Newer(n) >= MaxStoredRecords) /\ Newer(n) \in Int /\ Len(submitted') - n = Newer(n) + 1
      BY <1>8, <3>1, FeedbackConstants DEF Newer
    <3>3. PICK i \in DOMAIN s : s[i] = submitted[n].vote /\ Len(s) - i <= Newer(n)
      BY <1>4, <3>1, <3>2
    <3>4. i - off \in 1..Len(r)
      <4>1. CASE off = 0
        BY <1>4, <1>5, <3>3, <4>1
      <4>2. CASE off = 1
        <5>1. i # 1
          BY <1>4, <1>6, <1>8, <3>1, <3>2, <3>3, <4>2, FeedbackConstants
        <5> QED BY <1>4, <1>5, <3>3, <4>2, <5>1
      <4> QED BY <1>6, <4>1, <4>2
    <3>5. votes'[i - off] = s[i] /\ i - off \in DOMAIN votes'
      <4>1. r[i - off] = s[i - off + off] /\ i - off + off = i
        BY <1>4, <1>5, <1>6, <3>3, <3>4, SMTT(30)
      <4> QED BY <1>5, <1>7, <3>4, <4>1
    <3>6. Len(votes') - (i - off) <= Len(submitted') - n
      BY <1>4, <1>5, <1>6, <1>7, <3>2, <3>3
    <3> QED BY <3>1, <3>3, <3>5, <3>6
  <2> QED BY <2>1, <2>2
<1>10. Len(votes') <= MaxStoredRecords
  BY <1>5, <1>7, FeedbackConstants
<1> QED BY <1>1, <1>2, <1>7, <1>8, <1>9, <1>10, StaysInReview DEF FeedbackInv

LEMMA DeleteFits == ASSUME FeedbackInv, NEW id \in VoteId, DeleteRecord(id) PROVE FeedbackInv'
<1>1. PICK d \in DOMAIN votes :
        /\ votes' = RemoveAt(votes, d)
        /\ submitted' = [n \in DOMAIN submitted |->
             IF submitted[n].vote = votes[d] THEN [submitted[n] EXCEPT !.deleted = TRUE] ELSE submitted[n]]
  BY DEF DeleteRecord
<1>2. UNCHANGED <<day, review>>
  BY DEF DeleteRecord
<1>3. /\ votes \in Seq(Vote) /\ Len(votes) <= MaxStoredRecords /\ submitted \in Seq(Sent) /\ Len(submitted) \in Nat
      /\ DOMAIN submitted = 1..Len(submitted) /\ VotesFit /\ day \in 0..MaxDay
  BY DEF FeedbackInv
<1>4. /\ votes' \in Seq(Vote) /\ Len(votes) \in Nat /\ Len(votes') = Len(votes) - 1
      /\ DOMAIN votes = 1..Len(votes) /\ DOMAIN votes' = 1..(Len(votes) - 1)
      /\ \A i \in DOMAIN votes' : votes'[i] = IF i < d THEN votes[i] ELSE votes[i + 1]
  BY <1>1, <1>3, RemoveAtIs
<1>5. /\ submitted' \in Seq(Sent) /\ Len(submitted') = Len(submitted) /\ DOMAIN submitted' = DOMAIN submitted
      /\ \A n \in DOMAIN submitted : /\ submitted'[n].vote = submitted[n].vote
                                     /\ submitted'[n].deleted \/ submitted'[n] = submitted[n]
                                     /\ submitted[n].vote = votes[d] => submitted'[n].deleted
  <2>1. \A n \in 1..Len(submitted) : submitted[n] \in Sent
    BY <1>3
  <2>2. \A n \in 1..Len(submitted) : submitted'[n] \in Sent
    BY <1>1, <1>3, <2>1 DEF Sent
  <2>3. submitted' = [n \in 1..Len(submitted) |-> submitted'[n]]
    BY <1>1, <1>3
  <2>4. submitted' \in [1..Len(submitted) -> Sent]
    BY <2>2, <2>3
  <2>5. submitted' \in Seq(Sent) /\ Len(submitted') = Len(submitted) /\ DOMAIN submitted' = DOMAIN submitted
    BY <1>3, <2>4
  <2>6. \A n \in DOMAIN submitted :
          submitted'[n] = IF submitted[n].vote = votes[d] THEN [submitted[n] EXCEPT !.deleted = TRUE] ELSE submitted[n]
    BY <1>1
  <2> QED BY <1>3, <2>1, <2>5, <2>6 DEF Sent
<1>6. VotesFit'
  <2> SUFFICES ASSUME NEW n \in DOMAIN submitted, ~submitted'[n].deleted,
                      ~(submitted'[n].vote.at + Retention <= day), ~(Newer(n) >= MaxStoredRecords)
               PROVE  \E i \in DOMAIN votes' : votes'[i] = submitted'[n].vote /\ Len(votes') - i <= Newer(n)
    BY <1>2, <1>5 DEF VotesFit, Newer
  <2>1. submitted'[n] = submitted[n] /\ submitted[n].vote # votes[d]
    BY <1>5
  <2>2. PICK i \in DOMAIN votes : votes[i] = submitted[n].vote /\ Len(votes) - i <= Newer(n)
    BY <1>3, <2>1 DEF VotesFit
  <2>3. i # d /\ Newer(n) \in Int
    BY <1>3, <2>1, <2>2 DEF Newer
  <2>4. CASE i < d
    <3>1. i \in DOMAIN votes' /\ votes'[i] = votes[i] /\ Len(votes') - i <= Newer(n)
      BY <1>4, <2>2, <2>3, <2>4
    <3> QED BY <2>1, <2>2, <3>1
  <2>5. CASE i > d
    <3>1. i - 1 \in DOMAIN votes' /\ Len(votes') - (i - 1) <= Newer(n) /\ ~(i - 1 < d) /\ i - 1 + 1 = i
      BY <1>4, <2>2, <2>3, <2>5
    <3>2. votes'[i - 1] = votes[i]
      BY <1>4, <3>1
    <3> QED BY <2>1, <2>2, <3>1, <3>2
  <2> QED BY <1>4, <2>3, <2>4, <2>5
<1>7. Len(votes') <= MaxStoredRecords
  BY <1>3, <1>4, FeedbackConstants
<1> QED BY <1>2, <1>3, <1>4, <1>5, <1>6, <1>7, StaysInReview DEF FeedbackInv

LEMMA FeedbackNextStep == FeedbackInv /\ [FeedbackNext]_feedbackVars => FeedbackInv'
<1> SUFFICES ASSUME FeedbackInv, [FeedbackNext]_feedbackVars PROVE FeedbackInv'
  OBVIOUS
<1>1. /\ day \in 0..MaxDay /\ votes \in Seq(Vote) /\ Len(votes) <= MaxStoredRecords
      /\ review \in Seq(Item) /\ submitted \in Seq(Sent) /\ VotesFit
  BY DEF FeedbackInv
<1>2. \A n \in DOMAIN submitted : submitted[n] \in Sent /\ submitted[n].vote \in Vote /\ submitted[n].vote.at \in Nat
  <2>1. \A x \in Sent : x.vote \in Vote /\ x.vote.at \in Nat
    BY VoteTime DEF Sent
  <2> QED BY <1>1, <2>1
<1>3. CASE DayPasses
  <2>1. day' = day + 1 /\ day < MaxDay /\ UNCHANGED <<votes, review, submitted>>
    BY <1>3 DEF DayPasses
  <2>2. VotesFit'
    <3>1. \A n \in DOMAIN submitted : submitted[n].vote.at + Retention <= day => submitted[n].vote.at + Retention <= day'
      BY <1>1, <1>2, <2>1, FeedbackConstants
    <3> QED BY <1>1, <2>1, <3>1 DEF VotesFit, Newer
  <2>3. day' \in 0..MaxDay
    BY <1>1, <2>1, FeedbackConstants
  <2> QED BY <1>1, <2>1, <2>2, <2>3, StaysInReview DEF FeedbackInv
<1>4. ASSUME votes' = Unexpired(votes), UNCHANGED <<day, submitted>>
      PROVE  votes' \in Seq(Vote) /\ Len(votes') <= MaxStoredRecords /\ VotesFit'
  BY <1>4, PurgeFits DEF VotesFit, Newer
<1>5. CASE ExportFeedback
  BY <1>1, <1>4, <1>5, StaysInReview DEF ExportFeedback, FeedbackInv
<1>6. CASE PurgeAllRecords
  <2>1. /\ votes' = <<>> /\ UNCHANGED <<day, review>>
        /\ submitted' = [n \in DOMAIN submitted |-> [submitted[n] EXCEPT !.deleted = TRUE]]
    BY <1>6 DEF PurgeAllRecords
  <2>2. \A n \in DOMAIN submitted : submitted'[n] \in Sent /\ submitted'[n].deleted
    BY <1>2, <2>1 DEF Sent
  <2>3. submitted' \in Seq(Sent) /\ DOMAIN submitted' = DOMAIN submitted
    <3>1. DOMAIN submitted = 1..Len(submitted) /\ Len(submitted) \in Nat
      BY <1>1
    <3>2. submitted' = [n \in 1..Len(submitted) |-> submitted'[n]]
      BY <2>1, <3>1
    <3>3. submitted' \in [1..Len(submitted) -> Sent]
      BY <2>2, <3>1, <3>2
    <3> QED BY <3>1, <3>3
  <2>4. VotesFit'
    BY <2>2, <2>3 DEF VotesFit
  <2>5. votes' \in Seq(Vote) /\ Len(votes') <= MaxStoredRecords
    BY <2>1, FeedbackConstants
  <2> QED BY <1>1, <2>1, <2>3, <2>4, <2>5, StaysInReview DEF FeedbackInv
<1>7. CASE ImportFeedback
  <2>1. CASE votes' = Unexpired(votes) /\ review' = ItemsAfter(votes') /\ UNCHANGED <<day, submitted>>
    <3>1. votes' \in Seq(Vote) /\ Len(votes') <= MaxStoredRecords /\ VotesFit'
      BY <1>4, <2>1
    <3>2. PICK batch : batch = votes'
      OBVIOUS
    <3>3. review' \in Seq(Item) /\ ImportedOnce' /\ BurstsAreMarked'
      BY <2>1, <3>1, <3>2, ImportFits
    <3> QED BY <1>1, <2>1, <3>1, <3>3 DEF FeedbackInv
  <2>2. CASE (\E batch \in Exported : review' = ItemsAfter(batch)) /\ UNCHANGED <<day, votes, submitted>>
    <3>1. PICK batch \in Exported : review' = ItemsAfter(batch)
      BY <2>2
    <3>2. batch \in Seq(Vote)
      <4>1. PICK m \in 0..Len(submitted), n \in 0..Len(submitted) :
              m < n /\ batch = [i \in 1..n - m |-> submitted[m + i].vote]
        BY <3>1 DEF Exported, Slice
      <4>2. \A i \in 1..n - m : m + i \in DOMAIN submitted
        BY <1>1, <4>1
      <4>3. batch \in [1..n - m -> Vote]
        BY <1>2, <4>1, <4>2
      <4>4. n - m \in Nat
        BY <1>1, <4>1
      <4> QED BY <4>3, <4>4
    <3>3. review' \in Seq(Item) /\ ImportedOnce' /\ BurstsAreMarked'
      BY <3>1, <3>2, ImportFits
    <3>4. VotesFit'
      BY <1>1, <2>2 DEF VotesFit, Newer
    <3> QED BY <1>1, <2>2, <3>3, <3>4 DEF FeedbackInv
  <2> QED BY <1>7, <2>1, <2>2 DEF ImportFeedback
<1>8. ASSUME NEW id \in VoteId, SubmitFeedback(id) PROVE FeedbackInv'
  BY <1>8, SubmitFits
<1>9. ASSUME NEW id \in VoteId, DeleteRecord(id) PROVE FeedbackInv'
  BY <1>9, DeleteFits
<1>10. ASSUME NEW i \in DOMAIN review, NEW item \in Item, review' = [review EXCEPT ![i] = item],
              item.vote = review[i].vote, item.burst = review[i].burst, UNCHANGED <<day, votes, submitted>>
       PROVE  FeedbackInv'
  <2>1. review' \in Seq(Item) /\ ImportedOnce' /\ BurstsAreMarked'
    BY <1>10, DecisionFits
  <2>2. VotesFit'
    BY <1>1, <1>10 DEF VotesFit, Newer
  <2> QED BY <1>1, <1>10, <2>1, <2>2 DEF FeedbackInv
<1>11. \A i \in DOMAIN review : review[i] \in Item
  BY <1>1
<1>12. "pending" \in Status /\ "approved_for_evaluation" \in Status
  BY DEF Status
<1>13. ASSUME NEW i \in DOMAIN review, ApproveEvaluationCase(i) PROVE FeedbackInv'
  <2> DEFINE item == [review[i] EXCEPT !.status = "approved_for_evaluation", !.candidate = TRUE]
  <2>1. item \in Item /\ item.vote = review[i].vote /\ item.burst = review[i].burst
    BY <1>11, <1>12 DEF Item
  <2>2. review' = [review EXCEPT ![i] = item] /\ UNCHANGED <<day, votes, submitted>>
    BY <1>13 DEF ApproveEvaluationCase
  <2> HIDE DEF item
  <2> QED BY <1>10, <2>1, <2>2
<1>14. ASSUME NEW i \in DOMAIN review, NEW status \in Status, UpdateStatus(i, status) PROVE FeedbackInv'
  <2> DEFINE item == [review[i] EXCEPT !.status = status]
  <2>1. item \in Item /\ item.vote = review[i].vote /\ item.burst = review[i].burst
    BY <1>11 DEF Item
  <2>2. review' = [review EXCEPT ![i] = item] /\ UNCHANGED <<day, votes, submitted>>
    BY <1>14 DEF UpdateStatus
  <2> HIDE DEF item
  <2> QED BY <1>10, <2>1, <2>2
<1>15. CASE UNCHANGED feedbackVars
  <2>1. UNCHANGED <<day, votes, review, submitted>>
    BY <1>15 DEF feedbackVars
  <2>2. VotesFit'
    BY <1>1, <2>1 DEF VotesFit, Newer
  <2> QED BY <1>1, <2>1, <2>2, StaysInReview DEF FeedbackInv
<1> QED BY <1>3, <1>5, <1>6, <1>7, <1>8, <1>9, <1>13, <1>14, <1>15 DEF FeedbackNext

LEMMA FeedbackProperties == FeedbackInv => FeedbackTypeOK /\ RecentFeedbackKept /\ ImportedOnce /\ BurstsAreMarked
<1> SUFFICES ASSUME FeedbackInv PROVE FeedbackTypeOK /\ RecentFeedbackKept
  BY DEF FeedbackInv
<1>1. FeedbackTypeOK
  <2>1. \A i \in DOMAIN review : review[i] \in Item
    BY DEF FeedbackInv
  <2>2. \A i \in DOMAIN submitted : submitted[i] \in Sent
    BY DEF FeedbackInv
  <2> QED BY <2>1, <2>2 DEF FeedbackInv, FeedbackTypeOK, Item, Sent
<1>3. \A i \in DOMAIN votes : votes[i] \in ToSet(votes)
  BY DEF ToSet
<1>4. RecentFeedbackKept
  BY <1>3 DEF FeedbackInv, VotesFit, RecentFeedbackKept
<1> QED BY <1>1, <1>4

(***************************************************************************)
(* The service worker's caches.  The cache of the active worker is the     *)
(* first one: what other handlers open comes after it, and activation      *)
(* deletes what came before.                                               *)
(***************************************************************************)
CacheOf(d) == [name : 1..d, asset : 0..d]
LoadPc == {"idle", "asked", "fetching", "putting"}

CachesFit(cs, d) ==
  /\ cs \in Seq(CacheOf(d))
  /\ \A i, j \in DOMAIN cs : cs[i].name = cs[j].name => i = j

OwnIsFirst(cs, w) == w # 0 => Len(cs) >= 1 /\ cs[1].name = w

UpdateFits ==
  /\ update \in [pc : {"idle", "adding", "activating"}, to : 0..deployed]
  /\ update.pc # "idle" => /\ worker < update.to
                           /\ \E i \in DOMAIN caches : caches[i].name = update.to

LoadsFit ==
  /\ load \in [Load -> [pc : LoadPc, by : 0..deployed, found : 0..deployed, got : 0..deployed]]
  /\ \A l \in Load : load[l].pc # "idle" => load[l].by # 0

OfflineInv ==
  /\ deployed \in Versions /\ worker \in 0..deployed /\ shown \in 0..deployed
  /\ CachesFit(caches, deployed) /\ OwnIsFirst(caches, worker) /\ UpdateFits /\ LoadsFit

LEMMA OfflineNames ==
  /\ "idle" \in {"idle", "adding", "activating"} /\ "adding" \in {"idle", "adding", "activating"}
  /\ "activating" \in {"idle", "adding", "activating"}
  /\ "idle" \in LoadPc /\ "asked" \in LoadPc /\ "fetching" \in LoadPc /\ "putting" \in LoadPc
  BY DEF LoadPc

LEMMA OfflineInitInvariant == OfflineInit => OfflineInv
<1> SUFFICES ASSUME OfflineInit PROVE OfflineInv
  OBVIOUS
<1>1. deployed \in Versions /\ 0 \in 0..deployed /\ 1 <= deployed
  BY OfflineAssumption DEF OfflineInit, Versions
<1>2. CachesFit(caches, deployed) /\ OwnIsFirst(caches, worker)
  BY DEF OfflineInit, CachesFit, OwnIsFirst
<1>3. UpdateFits
  BY <1>1, OfflineNames DEF OfflineInit, UpdateFits, NoUpdate
<1>4. LoadsFit
  BY <1>1, OfflineNames DEF OfflineInit, LoadsFit, NoLoad
<1> QED BY <1>1, <1>2, <1>3, <1>4 DEF OfflineInit, OfflineInv

(* What is found is an asset of some cache. *)
LEMMA MatchIsAnAsset ==
  ASSUME NEW d \in Nat, NEW cs, CachesFit(cs, d)
  PROVE  Match(cs) \in 0..d
<1>1. cs \in Seq(CacheOf(d)) /\ DOMAIN cs = 1..Len(cs) /\ Len(cs) \in Nat
  BY DEF CachesFit
<1>2. CASE Filled(cs) = {}
  BY <1>2 DEF Match
<1>3. CASE Filled(cs) # {}
  <2>1. Filled(cs) \subseteq 1..Len(cs)
    BY <1>1 DEF Filled
  <2>2. Min(Filled(cs)) \in 1..Len(cs)
    BY <1>1, <1>3, <2>1, MinOfPositions
  <2>3. cs[Min(Filled(cs))] \in CacheOf(d)
    BY <1>1, <2>2
  <2> QED BY <1>3, <2>3 DEF Match, CacheOf
<1> QED BY <1>2, <1>3

(* Opening a cache adds it at the end or finds it; filling one moves none. *)
LEMMA OpenedFits ==
  ASSUME NEW d \in Nat, NEW cs, CachesFit(cs, d), NEW n \in 1..d
  PROVE  /\ CachesFit(Opened(cs, n), d)
         /\ Len(Opened(cs, n)) >= Len(cs) /\ \A i \in DOMAIN cs : Opened(cs, n)[i] = cs[i]
         /\ \E i \in DOMAIN Opened(cs, n) : Opened(cs, n)[i].name = n
<1>1. /\ cs \in Seq(CacheOf(d)) /\ DOMAIN cs = 1..Len(cs) /\ Len(cs) \in Nat
      /\ \A i, j \in DOMAIN cs : cs[i].name = cs[j].name => i = j
  BY DEF CachesFit
<1>2. CASE \E i \in DOMAIN cs : cs[i].name = n
  BY <1>1, <1>2 DEF Opened
<1>3. CASE ~ \E i \in DOMAIN cs : cs[i].name = n
  <2> DEFINE c  == [name |-> n, asset |-> 0]
             os == Append(cs, c)
  <2>1. Opened(cs, n) = os
    BY <1>3 DEF Opened
  <2>2. c \in CacheOf(d) /\ c.name = n
    BY DEF CacheOf
  <2> HIDE DEF c
  <2>3. /\ os \in Seq(CacheOf(d)) /\ Len(os) = Len(cs) + 1 /\ DOMAIN os = 1..(Len(cs) + 1)
        /\ os[Len(cs) + 1] = c /\ \A i \in 1..Len(cs) : os[i] = cs[i]
    BY <1>1, <2>2
  <2> HIDE DEF os
  <2>4. \A i, j \in DOMAIN os : os[i].name = os[j].name => i = j
    <3>1. \A i \in DOMAIN os : i \in 1..Len(cs) \/ i = Len(cs) + 1
      BY <1>1, <2>3
    <3>2. \A i \in 1..Len(cs) : os[i] = cs[i] /\ os[i].name # n
      BY <1>1, <1>3, <2>3
    <3>3. os[Len(cs) + 1].name = n
      BY <2>2, <2>3
    <3> QED BY <1>1, <3>1, <3>2, <3>3
  <2>5. \E i \in DOMAIN os : os[i].name = n
    <3>1. Len(cs) + 1 \in DOMAIN os /\ os[Len(cs) + 1].name = n
      BY <1>1, <2>2, <2>3
    <3> QED BY <3>1
  <2>6. CachesFit(os, d)
    BY <2>3, <2>4 DEF CachesFit
  <2> QED BY <1>1, <2>1, <2>3, <2>5, <2>6
<1> QED BY <1>2, <1>3

LEMMA HoldingFits ==
  ASSUME NEW d \in Nat, NEW cs, CachesFit(cs, d), NEW n \in 1..d, NEW a \in 0..d
  PROVE  /\ CachesFit(Holding(cs, n, a), d) /\ Len(Holding(cs, n, a)) = Len(cs)
         /\ DOMAIN Holding(cs, n, a) = DOMAIN cs
         /\ \A i \in DOMAIN cs : Holding(cs, n, a)[i].name = cs[i].name
<1>1. /\ cs \in Seq(CacheOf(d)) /\ DOMAIN cs = 1..Len(cs) /\ Len(cs) \in Nat
      /\ \A i, j \in DOMAIN cs : cs[i].name = cs[j].name => i = j
  BY DEF CachesFit
<1> DEFINE hs == Holding(cs, n, a)
<1>2. /\ DOMAIN hs = 1..Len(cs)
      /\ \A i \in 1..Len(cs) : hs[i] = IF cs[i].name = n THEN [cs[i] EXCEPT !.asset = a] ELSE cs[i]
  BY <1>1 DEF Holding
<1>3. \A i \in 1..Len(cs) : cs[i] \in CacheOf(d)
  BY <1>1
<1>4. \A i \in 1..Len(cs) : hs[i] \in CacheOf(d) /\ hs[i].name = cs[i].name
  BY <1>2, <1>3 DEF CacheOf
<1>5. hs \in [1..Len(cs) -> CacheOf(d)]
  <2>1. hs = [i \in 1..Len(cs) |-> hs[i]]
    BY <1>1 DEF Holding
  <2> HIDE DEF hs
  <2> QED BY <1>4, <2>1
<1> HIDE DEF hs
<1>6. hs \in Seq(CacheOf(d)) /\ Len(hs) = Len(cs)
  BY <1>1, <1>2, <1>5
<1>7. CachesFit(hs, d)
  BY <1>1, <1>2, <1>4, <1>6 DEF CachesFit
<1> QED BY <1>1, <1>2, <1>4, <1>6, <1>7 DEF hs

(* Activation keeps the one cache of the name. *)
LEMMA KeptFits ==
  ASSUME NEW d \in Nat, NEW cs, CachesFit(cs, d), NEW n \in 1..d, \E i \in DOMAIN cs : cs[i].name = n
  PROVE  CachesFit(Kept(cs, n), d) /\ OwnIsFirst(Kept(cs, n), n)
<1>1. /\ cs \in Seq(CacheOf(d)) /\ DOMAIN cs = 1..Len(cs)
  BY DEF CachesFit
<1> DEFINE k == CHOOSE i \in DOMAIN cs : cs[i].name = n
<1>2. k \in DOMAIN cs /\ cs[k].name = n
  OBVIOUS
<1>3. Kept(cs, n) = <<cs[k]>>
  BY DEF Kept
<1> HIDE DEF k
<1>4. cs[k] \in CacheOf(d)
  BY <1>1, <1>2
<1> QED BY <1>2, <1>3, <1>4 DEF CachesFit, OwnIsFirst

(* One request moves on. *)
LEMMA LoadMoves ==
  ASSUME OfflineInv, NEW l \in Load, NEW new,
         new \in [pc : LoadPc, by : 0..deployed, found : 0..deployed, got : 0..deployed],
         new.pc # "idle" => new.by # 0, load' = [load EXCEPT ![l] = new], deployed' = deployed
  PROVE  LoadsFit'
  BY DEF OfflineInv, LoadsFit

LEMMA OfflineNextStep == OfflineInv /\ [OfflineNext]_offlineVars => OfflineInv'
<1> SUFFICES ASSUME OfflineInv, [OfflineNext]_offlineVars PROVE OfflineInv'
  OBVIOUS
<1> USE OfflineAssumption
<1>1. /\ deployed \in Nat /\ deployed >= 1 /\ deployed \in 1..MaxDeployed /\ worker \in 0..deployed
      /\ shown \in 0..deployed /\ CachesFit(caches, deployed) /\ OwnIsFirst(caches, worker)
  BY DEF OfflineInv, Versions
<1>2. CASE Deploys
  <2>1. deployed' = deployed + 1 /\ deployed' \in Versions /\ UNCHANGED <<caches, worker, update, load, shown>>
    BY <1>1, <1>2 DEF Deploys, Versions
  <2>2. 0..deployed \subseteq 0..deployed' /\ 1..deployed \subseteq 1..deployed'
    BY <1>1, <2>1
  <2>3. CachesFit(caches, deployed)'
    <3>1. CacheOf(deployed) \subseteq CacheOf(deployed')
      BY <2>2 DEF CacheOf
    <3>2. caches \in Seq(CacheOf(deployed'))
      BY <1>1, <3>1 DEF CachesFit
    <3> QED BY <1>1, <2>1, <3>2 DEF CachesFit
  <2>4. UpdateFits'
    BY <2>1, <2>2 DEF OfflineInv, UpdateFits
  <2>5. LoadsFit'
    <3>1. \A l \in Load : load[l] \in [pc : LoadPc, by : 0..deployed, found : 0..deployed, got : 0..deployed]
      BY DEF OfflineInv, LoadsFit
    <3>2. \A l \in Load : load[l] \in [pc : LoadPc, by : 0..deployed', found : 0..deployed', got : 0..deployed']
      BY <2>2, <3>1
    <3> QED BY <2>1, <3>2 DEF OfflineInv, LoadsFit
  <2> QED BY <1>1, <2>1, <2>2, <2>3, <2>4, <2>5 DEF OfflineInv
<1>3. CASE StartsInstall
  <2>1. /\ worker < deployed /\ update' = [pc |-> "adding", to |-> deployed]
        /\ caches' = Opened(caches, deployed) /\ UNCHANGED <<deployed, worker, load, shown>>
    BY <1>3 DEF StartsInstall
  <2>2. deployed \in 1..deployed
    BY <1>1
  <2>3. /\ CachesFit(caches', deployed) /\ OwnIsFirst(caches', worker)
        /\ \E i \in DOMAIN caches' : caches'[i].name = deployed
    BY <1>1, <2>1, <2>2, OpenedFits DEF OwnIsFirst
  <2>4. UpdateFits'
    BY <1>1, <2>1, <2>3, OfflineNames DEF UpdateFits
  <2>5. LoadsFit'
    BY <2>1 DEF OfflineInv, LoadsFit
  <2> QED BY <1>1, <2>1, <2>3, <2>4, <2>5 DEF OfflineInv
<1>4. CASE FinishesInstall
  <2>1. /\ update.pc = "adding" /\ caches' \in {caches, Holding(caches, update.to, deployed)}
        /\ update' = [update EXCEPT !.pc = "activating"] /\ UNCHANGED <<deployed, worker, load, shown>>
    BY <1>4 DEF FinishesInstall
  <2>2. /\ update \in [pc : {"idle", "adding", "activating"}, to : 0..deployed] /\ worker < update.to
        /\ \E i \in DOMAIN caches : caches[i].name = update.to
    BY <2>1 DEF OfflineInv, UpdateFits
  <2>3. update.to \in 1..deployed /\ deployed \in 0..deployed
    BY <1>1, <2>2
  <2>4. /\ CachesFit(caches', deployed) /\ Len(caches') = Len(caches) /\ DOMAIN caches' = DOMAIN caches
        /\ \A i \in DOMAIN caches : caches'[i].name = caches[i].name
    <3>1. CASE caches' = caches
      BY <1>1, <3>1
    <3>2. CASE caches' = Holding(caches, update.to, deployed)
      BY <1>1, <2>3, <3>2, HoldingFits
    <3> QED BY <2>1, <3>1, <3>2
  <2>5. OwnIsFirst(caches', worker)
    <3>1. DOMAIN caches = 1..Len(caches) /\ Len(caches) \in Nat
      BY <1>1 DEF CachesFit
    <3>2. Len(caches) >= 1 => caches'[1].name = caches[1].name
      BY <2>4, <3>1
    <3> QED BY <1>1, <2>4, <3>2 DEF OwnIsFirst
  <2>6. /\ update' \in [pc : {"idle", "adding", "activating"}, to : 0..deployed] /\ update'.to = update.to
    BY <2>1, <2>2, OfflineNames
  <2>7. UpdateFits'
    BY <2>1, <2>2, <2>4, <2>6 DEF UpdateFits
  <2>8. LoadsFit'
    BY <2>1 DEF OfflineInv, LoadsFit
  <2> QED BY <1>1, <2>1, <2>4, <2>5, <2>7, <2>8 DEF OfflineInv
<1>5. CASE Activates
  <2>1. /\ update.pc = "activating" /\ caches' = Kept(caches, update.to) /\ worker' = update.to
        /\ update' = NoUpdate /\ UNCHANGED <<deployed, load, shown>>
    BY <1>5 DEF Activates
  <2>2. /\ update \in [pc : {"idle", "adding", "activating"}, to : 0..deployed] /\ worker < update.to
        /\ \E i \in DOMAIN caches : caches[i].name = update.to
    BY <2>1 DEF OfflineInv, UpdateFits
  <2>3. update.to \in 1..deployed /\ 0 \in 0..deployed
    BY <1>1, <2>2
  <2>4. CachesFit(caches', deployed) /\ OwnIsFirst(caches', worker')
    BY <1>1, <2>1, <2>2, <2>3, KeptFits
  <2>5. UpdateFits'
    BY <2>1, <2>3, OfflineNames DEF UpdateFits, NoUpdate
  <2>6. LoadsFit'
    BY <2>1 DEF OfflineInv, LoadsFit
  <2> QED BY <1>1, <2>1, <2>3, <2>4, <2>5, <2>6 DEF OfflineInv
<1>6. ASSUME NEW l \in Load, \/ Requests(l) \/ Matches(l) \/ FetchesAsset(l) \/ FetchFailsOffline(l)
      PROVE  OfflineInv'
  <2> DEFINE L == [pc : LoadPc, by : 0..deployed, found : 0..deployed, got : 0..deployed]
  <2>1. load \in [Load -> L] /\ load[l] \in L /\ (load[l].pc # "idle" => load[l].by # 0)
    BY DEF OfflineInv, LoadsFit
  <2>2. UNCHANGED <<deployed, caches, worker, update>>
    BY <1>6 DEF Requests, Matches, FetchesAsset, FetchFailsOffline
  <2>3. UpdateFits'
    BY <2>2 DEF OfflineInv, UpdateFits
  <2>4. LoadsFit' /\ shown' \in 0..deployed
    <3>1. NoLoad \in L /\ NoLoad.pc = "idle"
      BY <1>1, OfflineNames DEF NoLoad
    <3>2. CASE Requests(l)
      <4> DEFINE new == [pc |-> "asked", by |-> worker, found |-> 0, got |-> 0]
      <4>1. load' = [load EXCEPT ![l] = new] /\ worker # 0 /\ UNCHANGED shown
        BY <3>2 DEF Requests
      <4>2. new \in L /\ new.by # 0
        <5>1. 0 \in 0..deployed /\ "asked" \in LoadPc
          BY <1>1, OfflineNames
        <5> QED BY <1>1, <4>1, <5>1
      <4> HIDE DEF new
      <4> QED BY <1>1, <2>2, <4>1, <4>2, LoadMoves
    <3>3. CASE Matches(l)
      <4>1. Match(caches) \in 0..deployed
        BY <1>1, MatchIsAnAsset
      <4> DEFINE new == [load[l] EXCEPT !.pc = "fetching", !.found = Match(caches)]
      <4>2. load[l].pc = "asked" /\ shown' = IF Match(caches) # 0 THEN Match(caches) ELSE shown
        BY <3>3 DEF Matches
      <4>3. load' = [load EXCEPT ![l] = new]
        BY <3>3, <2>1 DEF Matches
      <4>4. new \in L /\ new.by = load[l].by
        BY <2>1, <4>1, OfflineNames
      <4> HIDE DEF new
      <4> QED BY <1>1, <2>1, <2>2, <4>1, <4>2, <4>3, <4>4, LoadMoves
    <3>4. CASE FetchesAsset(l)
      <4>1. deployed \in 0..deployed
        BY <1>1
      <4> DEFINE new == [load[l] EXCEPT !.pc = "putting", !.got = deployed]
      <4>2. load[l].pc = "fetching" /\ shown' = IF load[l].found = 0 THEN deployed ELSE shown
        BY <3>4 DEF FetchesAsset
      <4>3. load' = [load EXCEPT ![l] = new]
        BY <3>4, <2>1 DEF FetchesAsset
      <4>4. new \in L /\ new.by = load[l].by
        BY <2>1, <4>1, OfflineNames
      <4> HIDE DEF new
      <4> QED BY <1>1, <2>1, <2>2, <4>1, <4>2, <4>3, <4>4, LoadMoves
    <3>5. CASE FetchFailsOffline(l)
      <4>1. load' = [load EXCEPT ![l] = NoLoad] /\ UNCHANGED shown
        BY <3>5 DEF FetchFailsOffline
      <4> QED BY <1>1, <2>2, <3>1, <4>1, LoadMoves
    <3> QED BY <1>6, <3>2, <3>3, <3>4, <3>5
  <2> QED BY <1>1, <2>2, <2>3, <2>4 DEF OfflineInv
<1>7. ASSUME NEW l \in Load, Puts(l) PROVE OfflineInv'
  <2> DEFINE L  == [pc : LoadPc, by : 0..deployed, found : 0..deployed, got : 0..deployed]
             by == load[l].by
             os == Opened(caches, by)
             hs == Holding(os, by, load[l].got)
  <2>1. load \in [Load -> L] /\ load[l] \in L /\ load[l].pc = "putting" /\ load[l].by # 0
    BY <1>7 DEF OfflineInv, LoadsFit, Puts
  <2>2. by \in 1..deployed /\ load[l].got \in 0..deployed
    BY <1>1, <2>1
  <2>3. caches' = hs /\ load' = [load EXCEPT ![l] = NoLoad] /\ UNCHANGED <<deployed, worker, update, shown>>
    BY <1>7 DEF Puts
  <2> HIDE DEF by, os, hs
  <2>4. /\ CachesFit(os, deployed) /\ Len(os) >= Len(caches) /\ \A i \in DOMAIN caches : os[i] = caches[i]
    BY <1>1, <2>2, OpenedFits DEF os
  <2>5. /\ CachesFit(hs, deployed) /\ Len(hs) = Len(os) /\ DOMAIN hs = DOMAIN os
        /\ \A i \in DOMAIN os : hs[i].name = os[i].name
    BY <1>1, <2>2, <2>4, HoldingFits DEF hs
  <2>6. DOMAIN caches = 1..Len(caches) /\ DOMAIN os = 1..Len(os) /\ Len(caches) \in Nat /\ Len(os) \in Nat
    BY <1>1, <2>4 DEF CachesFit
  <2>7. \A i \in DOMAIN caches : i \in DOMAIN hs /\ hs[i].name = caches[i].name
    BY <2>4, <2>5, <2>6
  <2>8. OwnIsFirst(hs, worker)
    BY <1>1, <2>4, <2>5, <2>6, <2>7 DEF OwnIsFirst
  <2>9. UpdateFits'
    BY <2>3, <2>7 DEF OfflineInv, UpdateFits
  <2>10. LoadsFit'
    <3>1. NoLoad \in L /\ NoLoad.pc = "idle"
      BY <1>1, OfflineNames DEF NoLoad
    <3> QED BY <2>3, <3>1, LoadMoves
  <2> QED BY <1>1, <2>3, <2>5, <2>8, <2>9, <2>10 DEF OfflineInv
<1>8. CASE UNCHANGED offlineVars
  BY <1>8 DEF offlineVars, OfflineInv, UpdateFits, LoadsFit
<1> QED BY <1>2, <1>3, <1>4, <1>5, <1>6, <1>7, <1>8 DEF OfflineNext

LEMMA OfflineProperties == OfflineInv => OfflineTypeOK /\ OwnCacheIsServed
<1> SUFFICES ASSUME OfflineInv PROVE OfflineTypeOK /\ OwnCacheIsServed
  OBVIOUS
<1>1. OfflineTypeOK
  BY DEF OfflineInv, OfflineTypeOK, CachesFit, CacheOf, UpdateFits, LoadsFit, LoadPc
<1>2. ASSUME NEW i \in DOMAIN caches, caches[i].name = worker, caches[i].asset # 0
      PROVE  Match(caches) = caches[i].asset
  <2>1. /\ caches \in Seq(CacheOf(deployed)) /\ DOMAIN caches = 1..Len(caches)
        /\ Len(caches) \in Nat /\ deployed \in Nat
        /\ \A a, b \in DOMAIN caches : caches[a].name = caches[b].name => a = b
    BY DEF OfflineInv, CachesFit, Versions
  <2>2. caches[i].name \in 1..deployed
    <3>1. caches[i] \in CacheOf(deployed)
      BY <2>1
    <3> QED BY <3>1 DEF CacheOf
  <2>3. Len(caches) >= 1 /\ caches[1].name = worker
    BY <1>2, <2>2 DEF OfflineInv, OwnIsFirst
  <2>4. i = 1
    BY <1>2, <2>1, <2>3
  <2>5. 1 \in Filled(caches) /\ Filled(caches) \subseteq 1..Len(caches)
    BY <1>2, <2>1, <2>4 DEF Filled
  <2>6. Min(Filled(caches)) = 1
    <3>1. Min(Filled(caches)) \in Filled(caches) /\ \A k \in Filled(caches) : Min(Filled(caches)) <= k
      BY <2>1, <2>5, MinOfPositions
    <3> QED BY <2>1, <2>5, <3>1
  <2> QED BY <2>4, <2>5, <2>6 DEF Match
<1> QED BY <1>1, <1>2 DEF OwnCacheIsServed

(***************************************************************************)
(* The launcher.  A visit is open only while the server is up and the      *)
(* storage is open, and the store is filled before anything is served,     *)
(* unless something went wrong.                                            *)
(***************************************************************************)
LaunchPc == {"down", "counting", "seeding", "building", "loading", "serving", "draining", "closing", "closed"}
VisitPc  == {"none", "open", "answered", "refused", "cut"}

LauncherTypes ==
  /\ launch \in LaunchPc
  /\ seeded \in 0..CorpusSize /\ indexed \in 0..CorpusSize /\ served \in 0..CorpusSize
  /\ indexed <= seeded /\ served <= indexed
  /\ visit \in [Visitor -> VisitPc]
  /\ storeOpen \in BOOLEAN /\ exitCode \in -1..1 /\ crashes \in 0..MaxCrashes

VisitsFit ==
  /\ launch \notin {"down", "closed"} => storeOpen
  /\ launch \notin {"serving", "draining", "closing"} => AllAnswered
  /\ launch # "down" => exitCode = -1 /\ \A v \in Visitor : visit[v] # "cut"
  /\ CleanExitCutsNothing

StoreIsFilled ==
  /\ launch = "seeding" => seeded < CorpusSize
  /\ crashes = 0 =>
       \/ /\ seeded = CorpusSize /\ indexed = CorpusSize
          /\ launch = "serving" => served = CorpusSize
          /\ launch \notin {"seeding", "building"}
       \/ seeded = 0 /\ launch \in {"down", "counting"}
       \/ launch = "seeding"
       \/ seeded = CorpusSize /\ launch = "building"

LauncherInv == LauncherTypes /\ VisitsFit /\ StoreIsFilled

LEMMA LaunchNames ==
  /\ "down" \in LaunchPc /\ "counting" \in LaunchPc /\ "seeding" \in LaunchPc /\ "building" \in LaunchPc
  /\ "loading" \in LaunchPc /\ "serving" \in LaunchPc /\ "draining" \in LaunchPc /\ "closing" \in LaunchPc
  /\ "closed" \in LaunchPc
  /\ "none" \in VisitPc /\ "open" \in VisitPc /\ "answered" \in VisitPc /\ "refused" \in VisitPc
  /\ "cut" \in VisitPc
  BY DEF LaunchPc, VisitPc

LEMMA LauncherInitInvariant == LauncherInit => LauncherInv
<1> SUFFICES ASSUME LauncherInit PROVE LauncherInv
  OBVIOUS
<1>1. LauncherTypes
  <2>1. 0 \in 0..CorpusSize /\ 0 \in 0..MaxCrashes /\ -1 \in -1..1 /\ 0 <= 0
    BY LauncherAssumption
  <2>2. [v \in Visitor |-> "none"] \in [Visitor -> VisitPc]
    BY LaunchNames
  <2> QED BY <2>1, <2>2, LaunchNames DEF LauncherInit, LauncherTypes
<1>2. VisitsFit
  BY DEF LauncherInit, VisitsFit, AllAnswered, CleanExitCutsNothing
<1>3. StoreIsFilled
  BY LauncherAssumption DEF LauncherInit, StoreIsFilled
<1> QED BY <1>1, <1>2, <1>3 DEF LauncherInv

(* The process ends, cleanly only when no request is open. *)
LEMMA ProcessEnds ==
  ASSUME LauncherInv, NEW code \in {0, 1}, Exits(code), launch # "down",
         UNCHANGED <<seeded, indexed, served>>, crashes' \in 0..MaxCrashes,
         crashes' = crashes \/ crashes' > 0, code = 0 => AllAnswered,
         crashes' = crashes => launch \notin {"counting", "seeding", "building"}
  PROVE  LauncherInv'
<1>1. launch' = "down" /\ exitCode' = code /\ storeOpen' = FALSE /\ visit' = Cut
  BY DEF Exits
<1>2. visit \in [Visitor -> VisitPc]
  BY DEF LauncherInv, LauncherTypes
<1>3. /\ visit' \in [Visitor -> VisitPc] /\ \A v \in Visitor : visit'[v] # "open"
      /\ \A v \in Visitor : visit[v] # "open" => visit'[v] = visit[v]
  BY <1>1, <1>2, LaunchNames DEF Cut
<1>4. LauncherTypes'
  <2>1. code \in -1..1
    OBVIOUS
  <2> QED BY <1>1, <1>3, <2>1, LaunchNames DEF LauncherInv, LauncherTypes
<1>5. VisitsFit'
  BY <1>1, <1>3 DEF LauncherInv, VisitsFit, AllAnswered, CleanExitCutsNothing
<1>6. StoreIsFilled'
  BY <1>1 DEF LauncherInv, LauncherTypes, StoreIsFilled
<1> QED BY <1>4, <1>5, <1>6 DEF LauncherInv

(* One visit changes, which is open only while the server is up. *)
LEMMA VisitMoves ==
  ASSUME LauncherInv, NEW v \in Visitor, NEW pc \in VisitPc, pc # "cut",
         pc = "open" => launch = "serving",
         visit' = [visit EXCEPT ![v] = pc], launch # "down",
         UNCHANGED <<launch, seeded, indexed, served, storeOpen, exitCode, crashes>>
  PROVE  LauncherInv'
<1>1. visit \in [Visitor -> VisitPc]
  BY DEF LauncherInv, LauncherTypes
<1>2. /\ visit' \in [Visitor -> VisitPc] /\ visit'[v] = pc
      /\ \A w \in Visitor : w # v => visit'[w] = visit[w]
  BY <1>1
<1>3. LauncherTypes'
  BY <1>2 DEF LauncherInv, LauncherTypes
<1>4. VisitsFit'
  BY <1>2 DEF LauncherInv, VisitsFit, AllAnswered, CleanExitCutsNothing
<1>5. StoreIsFilled'
  BY DEF LauncherInv, StoreIsFilled
<1> QED BY <1>3, <1>4, <1>5 DEF LauncherInv

LEMMA LauncherNextStep == LauncherInv /\ [LauncherNext]_launcherVars => LauncherInv'
<1> SUFFICES ASSUME LauncherInv, [LauncherNext]_launcherVars PROVE LauncherInv'
  OBVIOUS
<1> USE LauncherAssumption
<1>1. CASE Launches
  <2>1. LauncherTypes'
    BY <1>1, LaunchNames DEF Launches, LauncherInv, LauncherTypes
  <2>2. VisitsFit'
    BY <1>1 DEF Launches, LauncherInv, VisitsFit, AllAnswered, CleanExitCutsNothing
  <2>3. StoreIsFilled'
    BY <1>1 DEF Launches, LauncherInv, StoreIsFilled
  <2> QED BY <2>1, <2>2, <2>3 DEF LauncherInv
<1>2. CASE CountsDocuments
  <2>1. LauncherTypes'
    BY <1>2, LaunchNames DEF CountsDocuments, LauncherInv, LauncherTypes
  <2>2. VisitsFit'
    BY <1>2 DEF CountsDocuments, LauncherInv, VisitsFit, AllAnswered, CleanExitCutsNothing
  <2>3. StoreIsFilled'
    BY <1>2 DEF CountsDocuments, LauncherInv, LauncherTypes, StoreIsFilled
  <2> QED BY <2>1, <2>2, <2>3 DEF LauncherInv
<1>3. CASE SeedsDocument
  <2>1. LauncherTypes'
    BY <1>3, LaunchNames DEF SeedsDocument, LauncherInv, LauncherTypes, StoreIsFilled
  <2>2. VisitsFit'
    BY <1>3 DEF SeedsDocument, LauncherInv, VisitsFit, AllAnswered, CleanExitCutsNothing
  <2>3. StoreIsFilled'
    BY <1>3 DEF SeedsDocument, LauncherInv, LauncherTypes, StoreIsFilled
  <2> QED BY <2>1, <2>2, <2>3 DEF LauncherInv
<1>4. CASE BuildsIndex
  <2>1. LauncherTypes'
    BY <1>4, LaunchNames DEF BuildsIndex, LauncherInv, LauncherTypes
  <2>2. VisitsFit'
    BY <1>4 DEF BuildsIndex, LauncherInv, VisitsFit, AllAnswered, CleanExitCutsNothing
  <2>3. StoreIsFilled'
    BY <1>4 DEF BuildsIndex, LauncherInv, LauncherTypes, StoreIsFilled
  <2> QED BY <2>1, <2>2, <2>3 DEF LauncherInv
<1>5. CASE BootstrapFails
  <2>1. LauncherTypes'
    BY <1>5, LaunchNames DEF BootstrapFails, LauncherInv, LauncherTypes
  <2>2. VisitsFit'
    BY <1>5 DEF BootstrapFails, LauncherInv, VisitsFit, AllAnswered, CleanExitCutsNothing
  <2>3. StoreIsFilled'
    BY <1>5 DEF BootstrapFails, LauncherInv, LauncherTypes, StoreIsFilled
  <2> QED BY <2>1, <2>2, <2>3 DEF LauncherInv
<1>6. CASE LoadsIndexAndListens
  <2>1. LauncherTypes'
    BY <1>6, LaunchNames DEF LoadsIndexAndListens, LauncherInv, LauncherTypes
  <2>2. VisitsFit'
    BY <1>6 DEF LoadsIndexAndListens, LauncherInv, VisitsFit, AllAnswered, CleanExitCutsNothing
  <2>3. StoreIsFilled'
    BY <1>6 DEF LoadsIndexAndListens, LauncherInv, LauncherTypes, StoreIsFilled
  <2> QED BY <2>1, <2>2, <2>3 DEF LauncherInv
<1>16. CASE LoadFails
  <2>1. LauncherTypes'
    BY <1>16, LaunchNames DEF LoadFails, LauncherInv, LauncherTypes
  <2>2. VisitsFit'
    BY <1>16 DEF LoadFails, LauncherInv, VisitsFit, AllAnswered, CleanExitCutsNothing
  <2>3. StoreIsFilled'
    BY <1>16 DEF LoadFails, LauncherInv, LauncherTypes, StoreIsFilled
  <2> QED BY <2>1, <2>2, <2>3 DEF LauncherInv
<1>7. CASE Signal
  <2>1. CASE launch = "serving" /\ launch' = "draining" /\ UNCHANGED <<visit, storeOpen, exitCode, crashes>>
    <3>1. UNCHANGED <<seeded, indexed, served>>
      BY <1>7 DEF Signal
    <3>2. LauncherTypes'
      BY <2>1, <3>1, LaunchNames DEF LauncherInv, LauncherTypes
    <3>3. VisitsFit'
      BY <2>1 DEF LauncherInv, VisitsFit, AllAnswered, CleanExitCutsNothing
    <3>4. StoreIsFilled'
      BY <2>1, <3>1 DEF LauncherInv, StoreIsFilled
    <3> QED BY <3>2, <3>3, <3>4 DEF LauncherInv
  <2>2. CASE Starting /\ crashes < MaxCrashes /\ crashes' = crashes + 1 /\ Exits(1)
    <3>1. UNCHANGED <<seeded, indexed, served>>
      BY <1>7 DEF Signal
    <3>2. crashes' \in 0..MaxCrashes /\ crashes' > 0 /\ crashes' # crashes /\ launch # "down"
      BY <2>2 DEF LauncherInv, LauncherTypes, Starting
    <3> QED BY <2>2, <3>1, <3>2, ProcessEnds
  <2> QED BY <1>7, <2>1, <2>2 DEF Signal
<1>8. CASE Drains
  <2>1. LauncherTypes'
    BY <1>8, LaunchNames DEF Drains, LauncherInv, LauncherTypes
  <2>2. VisitsFit'
    BY <1>8 DEF Drains, LauncherInv, VisitsFit, AllAnswered, CleanExitCutsNothing
  <2>3. StoreIsFilled'
    BY <1>8 DEF Drains, LauncherInv, StoreIsFilled
  <2> QED BY <2>1, <2>2, <2>3 DEF LauncherInv
<1>9. CASE ClosesServer
  <2>1. LauncherTypes'
    BY <1>9, LaunchNames DEF ClosesServer, LauncherInv, LauncherTypes
  <2>2. VisitsFit'
    BY <1>9 DEF ClosesServer, LauncherInv, VisitsFit, AllAnswered, CleanExitCutsNothing
  <2>3. StoreIsFilled'
    BY <1>9 DEF ClosesServer, LauncherInv, StoreIsFilled
  <2> QED BY <2>1, <2>2, <2>3 DEF LauncherInv
<1>10. crashes \in 0..MaxCrashes
  BY DEF LauncherInv, LauncherTypes
<1>11. CASE ExitsCleanly
  <2>1. launch = "closed" /\ Exits(0) /\ UNCHANGED <<seeded, indexed, served, crashes>>
    BY <1>11 DEF ExitsCleanly
  <2>2. AllAnswered
    BY <2>1 DEF LauncherInv, VisitsFit
  <2> QED BY <1>10, <2>1, <2>2, ProcessEnds
<1>12. CASE ForcesExit
  <2>1. launch \in {"draining", "closing", "closed"} /\ Exits(1) /\ UNCHANGED <<seeded, indexed, served, crashes>>
    BY <1>12 DEF ForcesExit
  <2> QED BY <1>10, <2>1, ProcessEnds
<1>13. CASE Dies
  <2>1. launch # "down" /\ Exits(1) /\ UNCHANGED <<seeded, indexed, served>>
    BY <1>13 DEF Dies, Up
  <2>2. crashes' \in 0..MaxCrashes /\ crashes' > 0 /\ crashes' # crashes
    BY <1>10, <1>13 DEF Dies
  <2> QED BY <2>1, <2>2, ProcessEnds
<1>14. ASSUME NEW v \in Visitor, Visits(v) PROVE LauncherInv'
  <2> DEFINE pc == IF launch = "draining" THEN "refused" ELSE "open"
  <2>1. /\ launch \in {"serving", "draining"} /\ visit' = [visit EXCEPT ![v] = pc]
        /\ UNCHANGED <<launch, seeded, indexed, served, storeOpen, exitCode, crashes>>
    BY <1>14 DEF Visits
  <2>2. pc \in VisitPc /\ pc # "cut" /\ (pc = "open" => launch = "serving") /\ launch # "down"
    BY <2>1, LaunchNames
  <2> HIDE DEF pc
  <2> QED BY <2>1, <2>2, VisitMoves
<1>15. ASSUME NEW v \in Visitor, Answered(v) PROVE LauncherInv'
  <2>1. /\ visit[v] = "open" /\ visit' = [visit EXCEPT ![v] = "answered"]
        /\ UNCHANGED <<launch, seeded, indexed, served, storeOpen, exitCode, crashes>>
    BY <1>15 DEF Answered
  <2>2. launch # "down"
    BY <2>1 DEF LauncherInv, VisitsFit, AllAnswered
  <2> QED BY <2>1, <2>2, VisitMoves, LaunchNames
<1>17. CASE UNCHANGED launcherVars
  BY <1>17 DEF launcherVars, LauncherInv, LauncherTypes, VisitsFit, AllAnswered, CleanExitCutsNothing, StoreIsFilled
<1> QED BY <1>1, <1>2, <1>3, <1>4, <1>5, <1>6, <1>7, <1>8, <1>9, <1>11, <1>12, <1>13, <1>14, <1>15, <1>16, <1>17
        DEF LauncherNext

LEMMA LauncherProperties ==
  LauncherInv => LauncherTypeOK /\ WholeCorpusIsServed /\ StorageOutlivesRequests /\ CleanExitCutsNothing
<1> SUFFICES ASSUME LauncherInv PROVE LauncherTypeOK /\ WholeCorpusIsServed /\ StorageOutlivesRequests
  BY DEF LauncherInv, VisitsFit
<1>1. LauncherTypeOK
  BY LauncherAssumption DEF LauncherInv, LauncherTypes, LauncherTypeOK, LaunchPc, VisitPc
<1>2. WholeCorpusIsServed
  BY LauncherAssumption DEF LauncherInv, LauncherTypes, StoreIsFilled, WholeCorpusIsServed
<1>3. StorageOutlivesRequests
  BY DEF LauncherInv, VisitsFit, AllAnswered, StorageOutlivesRequests
<1> QED BY <1>1, <1>2, <1>3

(***************************************************************************)
(* The index in memory and its file.  The dictionary is the inverse of the *)
(* documents, in memory and in the file, unless the one or the other was   *)
(* damaged; and a damaged file is only taken into memory when its postings *)
(* have documents.                                                         *)
(***************************************************************************)
InverseOf(ids, dict, texts) ==
  /\ DOMAIN dict = UNION {texts[d] : d \in ids}
  /\ \A t \in DOMAIN dict : /\ dict[t].postings = {d \in ids : t \in texts[d]}
                            /\ dict[t].df = Cardinality(dict[t].postings)

HasDocuments(ids, dict) == \A t \in DOMAIN dict : dict[t].postings \subseteq ids

IsPayload(f) ==
  /\ f = [kind |-> "index", documents |-> f.documents, dictionary |-> f.dictionary,
          total |-> f.total, checksum |-> f.checksum]
  /\ f.documents \subseteq IndexedDoc /\ IsDictionary(f.dictionary)
  /\ f.total \in 0..Cardinality(IndexedDoc)

DictionaryFits ==
  /\ HasDocuments(documents, dictionary)
  /\ "memory" \notin damaged => InverseOf(documents, dictionary, contents)

FileFits ==
  /\ indexFile \in {None, Unreadable} \/ IsPayload(indexFile)
  /\ indexFile # None /\ "file" \notin damaged =>
       /\ IsPayload(indexFile) /\ indexFile.total = Cardinality(indexFile.documents)
       /\ InverseOf(indexFile.documents, indexFile.dictionary, saved)

IndexTypes ==
  /\ documents \subseteq IndexedDoc /\ IsDictionary(dictionary) /\ tmpFile \in BOOLEAN
  /\ contents \in [IndexedDoc -> SUBSET IndexTerm] /\ saved \in [IndexedDoc -> SUBSET IndexTerm]
  /\ damaged \subseteq {"file", "memory"}

IndexInv == IndexTypes /\ DictionaryFits /\ FileFits

LEMMA DocumentsAreFinite ==
  ASSUME NEW D \in SUBSET IndexedDoc
  PROVE  IsFiniteSet(D) /\ Cardinality(D) \in 0..Cardinality(IndexedDoc)
<1>1. IsFiniteSet(D) /\ Cardinality(D) <= Cardinality(IndexedDoc)
  BY IndexAssumption, FS_Subset
<1>2. Cardinality(D) \in Nat /\ Cardinality(IndexedDoc) \in Nat
  BY <1>1, IndexAssumption, FS_CardinalityType
<1> QED BY <1>1, <1>2

LEMMA EmptyIndexFits ==
  /\ IsDictionary(EmptyDictionary) /\ HasDocuments({}, EmptyDictionary)
  /\ NoTerms \in [IndexedDoc -> SUBSET IndexTerm] /\ InverseOf({}, EmptyDictionary, NoTerms)
<1>1. DOMAIN EmptyDictionary = {}
  BY DEF EmptyDictionary
<1>2. UNION {NoTerms[d] : d \in {}} = {}
  OBVIOUS
<1> QED BY <1>1, <1>2 DEF IsDictionary, HasDocuments, InverseOf, NoTerms

LEMMA NoOrphans ==
  ASSUME NEW ids, NEW dict
  PROVE  (UNION {dict[t].postings : t \in DOMAIN dict}) \ ids = {} <=> HasDocuments(ids, dict)
<1>1. ASSUME HasDocuments(ids, dict), NEW x \in UNION {dict[t].postings : t \in DOMAIN dict}
      PROVE  x \in ids
  BY <1>1 DEF HasDocuments
<1>2. ASSUME (UNION {dict[t].postings : t \in DOMAIN dict}) \ ids = {},
             NEW t \in DOMAIN dict, NEW x \in dict[t].postings
      PROVE  x \in ids
  <2>1. x \in UNION {dict[u].postings : u \in DOMAIN dict}
    OBVIOUS
  <2> QED BY <1>2, <2>1
<1> QED BY <1>1, <1>2 DEF HasDocuments

\* A file whose dictionary is the inverse of its documents is valid.
LEMMA InverseIsValid ==
  ASSUME NEW f, IsPayload(f), f.total = Cardinality(f.documents), NEW texts,
         InverseOf(f.documents, f.dictionary, texts)
  PROVE  Valid(f) /\ HasDocuments(f.documents, f.dictionary)
<1>1. f.kind = "index"
  BY DEF IsPayload
<1>2. HasDocuments(f.documents, f.dictionary)
  BY DEF InverseOf, HasDocuments
<1>3. Orphans(f) = {}
  BY <1>2, NoOrphans DEF Orphans
<1> QED BY <1>1, <1>2, <1>3 DEF Valid

(* Removing a document takes it out of every list, and takes out the lists *)
(* that had no other.                                                      *)
LEMMA RemovedIs ==
  ASSUME NEW dict, IsDictionary(dict), NEW d \in IndexedDoc
  PROVE  /\ DOMAIN Removed(dict, d) =
              {t \in DOMAIN dict : d \in dict[t].postings => dict[t].postings # {d}}
         /\ \A t \in DOMAIN Removed(dict, d) : /\ Removed(dict, d)[t].postings = dict[t].postings \ {d}
                                               /\ Removed(dict, d)[t] \in PostingList
         /\ \A t \in DOMAIN Removed(dict, d) :
              dict[t].df = Cardinality(dict[t].postings)
                => Removed(dict, d)[t].df = Cardinality(dict[t].postings \ {d})
<1>1. ASSUME NEW t \in DOMAIN dict
      PROVE  /\ Shortened(dict[t], d).postings = dict[t].postings \ {d}
             /\ Shortened(dict[t], d) \in PostingList
             /\ dict[t].df = Cardinality(dict[t].postings)
                  => Shortened(dict[t], d).df = Cardinality(dict[t].postings \ {d})
             /\ Gone(dict[t], d) <=> d \in dict[t].postings /\ dict[t].postings = {d}
  <2>1. dict[t] \in PostingList /\ dict[t].postings \subseteq IndexedDoc
    BY DEF IsDictionary, PostingList
  <2> DEFINE P == dict[t].postings \ {d}
  <2>2. IsFiniteSet(P) /\ Cardinality(P) \in 0..Cardinality(IndexedDoc) /\ P \subseteq IndexedDoc
    BY <2>1, DocumentsAreFinite
  <2>3. Cardinality(P) = 0 <=> P = {}
    BY <2>2, FS_EmptySet
  <2>4. CASE d \in dict[t].postings
    <3>1. Shortened(dict[t], d) = [postings |-> P, df |-> Cardinality(P)]
      BY <2>4 DEF Shortened
    <3>2. P = {} <=> dict[t].postings = {d}
      BY <2>4
    <3> HIDE DEF P
    <3>3. Shortened(dict[t], d) \in PostingList
      BY <2>2, <3>1 DEF PostingList
    <3> QED BY <2>3, <2>4, <3>1, <3>2, <3>3 DEF Gone, P
  <2>5. CASE d \notin dict[t].postings
    BY <2>1, <2>5 DEF Shortened, Gone
  <2> QED BY <2>4, <2>5
<1>2. Removed(dict, d) = [t \in {u \in DOMAIN dict : ~Gone(dict[u], d)} |-> Shortened(dict[t], d)]
  BY DEF Removed
<1> QED BY <1>1, <1>2

(* Adding one takes it to the lists of its terms, of which there may be    *)
(* new ones.                                                               *)
Spreads(a, dict, d, ts) ==
  /\ DOMAIN a = DOMAIN dict \cup ts
  /\ \A t \in ts : /\ a[t].postings = PostingsOf(dict, t) \cup {d}
                   /\ a[t].df = Cardinality(PostingsOf(dict, t) \cup {d}) /\ a[t] \in PostingList
  /\ \A t \in DOMAIN dict \ ts : a[t] = dict[t]

LEMMA AddedIs ==
  ASSUME NEW dict, IsDictionary(dict), NEW d \in IndexedDoc, NEW ts \in SUBSET IndexTerm
  PROVE  Spreads(WithPostings(dict, d, ts), dict, d, ts)
<1>1. ASSUME NEW t \in ts
      PROVE  /\ WithPostings(dict, d, ts)[t].postings = PostingsOf(dict, t) \cup {d}
             /\ WithPostings(dict, d, ts)[t].df = Cardinality(PostingsOf(dict, t) \cup {d})
             /\ WithPostings(dict, d, ts)[t] \in PostingList
  <2> DEFINE P == PostingsOf(dict, t) \cup {d}
  <2>1. P \subseteq IndexedDoc
    BY DEF PostingsOf, IsDictionary, PostingList
  <2>2. Cardinality(P) \in 0..Cardinality(IndexedDoc)
    BY <2>1, DocumentsAreFinite
  <2>3. WithPostings(dict, d, ts)[t] = [postings |-> P, df |-> Cardinality(P)]
    BY DEF WithPostings
  <2> HIDE DEF P
  <2>4. WithPostings(dict, d, ts)[t] \in PostingList
    BY <2>1, <2>2, <2>3 DEF PostingList
  <2> QED BY <2>3, <2>4 DEF P
<1>2. DOMAIN WithPostings(dict, d, ts) = DOMAIN dict \cup ts
  BY DEF WithPostings
<1>3. \A t \in DOMAIN dict \ ts : WithPostings(dict, d, ts)[t] = dict[t]
  BY DEF WithPostings
<1> QED BY <1>1, <1>2, <1>3 DEF Spreads

LEMMA RemovedFits ==
  ASSUME NEW ids \in SUBSET IndexedDoc, NEW dict, IsDictionary(dict), HasDocuments(ids, dict),
         NEW d \in IndexedDoc, NEW texts
  PROVE  /\ IsDictionary(Removed(dict, d)) /\ HasDocuments(ids \ {d}, Removed(dict, d))
         /\ InverseOf(ids, dict, texts) => InverseOf(ids \ {d}, Removed(dict, d), texts)
<1> DEFINE r == Removed(dict, d)
<1>1. /\ DOMAIN r = {t \in DOMAIN dict : d \in dict[t].postings => dict[t].postings # {d}}
      /\ \A t \in DOMAIN r : r[t].postings = dict[t].postings \ {d} /\ r[t] \in PostingList
      /\ \A t \in DOMAIN r :
           dict[t].df = Cardinality(dict[t].postings) => r[t].df = Cardinality(dict[t].postings \ {d})
  BY RemovedIs
<1> HIDE DEF r
<1>2. IsDictionary(r)
  BY <1>1 DEF IsDictionary
<1>3. HasDocuments(ids \ {d}, r)
  BY <1>1 DEF HasDocuments
<1>4. ASSUME InverseOf(ids, dict, texts) PROVE InverseOf(ids \ {d}, r, texts)
  <2>1. /\ \A t : t \in DOMAIN dict <=> \E e \in ids : t \in texts[e]
        /\ \A t \in DOMAIN dict : /\ dict[t].postings = {e \in ids : t \in texts[e]}
                                  /\ dict[t].df = Cardinality(dict[t].postings)
    BY <1>4 DEF InverseOf
  <2>2. \A t \in DOMAIN r : r[t].postings = {e \in ids \ {d} : t \in texts[e]}
    BY <1>1, <2>1
  <2>3. \A t \in DOMAIN r : r[t].df = Cardinality(r[t].postings)
    BY <1>1, <2>1
  <2>4. ASSUME NEW t PROVE t \in DOMAIN r <=> \E e \in ids \ {d} : t \in texts[e]
    <3>1. CASE t \in DOMAIN dict
      <4>1. dict[t].postings = {e \in ids : t \in texts[e]} /\ dict[t].postings # {}
        BY <2>1, <3>1
      <4>2. t \in DOMAIN r <=> dict[t].postings # {d}
        BY <1>1, <3>1
      <4> QED BY <4>1, <4>2
    <3>2. CASE t \notin DOMAIN dict
      BY <1>1, <2>1, <3>2
    <3> QED BY <3>1, <3>2
  <2>5. DOMAIN r = UNION {texts[e] : e \in ids \ {d}}
    BY <2>4
  <2> QED BY <2>2, <2>3, <2>5 DEF InverseOf
<1> QED BY <1>2, <1>3, <1>4 DEF r

LEMMA AddedFits ==
  ASSUME NEW ids \in SUBSET IndexedDoc, NEW dict, IsDictionary(dict), HasDocuments(ids, dict),
         NEW d \in IndexedDoc, d \notin ids, NEW ts \in SUBSET IndexTerm,
         NEW texts \in [IndexedDoc -> SUBSET IndexTerm]
  PROVE  /\ IsDictionary(WithPostings(dict, d, ts))
         /\ HasDocuments(ids \cup {d}, WithPostings(dict, d, ts))
         /\ InverseOf(ids, dict, texts)
              => InverseOf(ids \cup {d}, WithPostings(dict, d, ts), [texts EXCEPT ![d] = ts])
<1> DEFINE a == WithPostings(dict, d, ts)
           after == [texts EXCEPT ![d] = ts]
<1>0. Spreads(a, dict, d, ts)
  BY AddedIs
<1>1. after[d] = ts /\ \A e \in ids : after[e] = texts[e]
  OBVIOUS
<1> HIDE DEF a, after
<1>2. /\ DOMAIN a = DOMAIN dict \cup ts
      /\ \A t \in ts : /\ a[t].postings = PostingsOf(dict, t) \cup {d}
                       /\ a[t].df = Cardinality(a[t].postings) /\ a[t] \in PostingList
      /\ \A t \in DOMAIN dict \ ts : a[t] = dict[t]
  BY <1>0 DEF Spreads
<1>3. IsDictionary(a)
  BY <1>2 DEF IsDictionary
<1>4. HasDocuments(ids \cup {d}, a)
  BY <1>2 DEF HasDocuments, PostingsOf
<1>5. ASSUME InverseOf(ids, dict, texts) PROVE InverseOf(ids \cup {d}, a, after)
  <2>1. /\ \A t : t \in DOMAIN dict <=> \E e \in ids : t \in texts[e]
        /\ \A t \in DOMAIN dict : /\ dict[t].postings = {e \in ids : t \in texts[e]}
                                  /\ dict[t].df = Cardinality(dict[t].postings)
    BY <1>5 DEF InverseOf
  <2>2. \A t : PostingsOf(dict, t) = {e \in ids : t \in texts[e]}
    BY <2>1 DEF PostingsOf
  <2>3. ASSUME NEW t \in DOMAIN a
        PROVE  a[t].postings = {e \in ids \cup {d} : t \in after[e]} /\ a[t].df = Cardinality(a[t].postings)
    <3>1. CASE t \in ts
      BY <1>2, <1>1, <2>2, <3>1
    <3>2. CASE t \notin ts
      <4>1. t \in DOMAIN dict /\ a[t] = dict[t]
        BY <1>2, <3>2
      <4> QED BY <1>1, <2>1, <3>2, <4>1
    <3> QED BY <3>1, <3>2
  <2>4. ASSUME NEW t PROVE t \in DOMAIN a <=> \E e \in ids \cup {d} : t \in after[e]
    BY <1>2, <1>1, <2>1
  <2>5. DOMAIN a = UNION {after[e] : e \in ids \cup {d}}
    BY <2>4
  <2> QED BY <2>3, <2>5 DEF InverseOf
<1> QED BY <1>3, <1>4, <1>5 DEF a, after

LEMMA IndexInitInvariant == IndexInit => IndexInv
BY EmptyIndexFits DEF IndexInit, IndexInv, IndexTypes, DictionaryFits, FileFits

LEMMA DamagedIsPayload ==
  ASSUME IsPayload(indexFile), DamageFile
  PROVE  indexFile' = Unreadable \/ IsPayload(indexFile')
<1> DEFINE f == indexFile
           g == indexFile'
<1>1. /\ f = [kind |-> "index", documents |-> f.documents, dictionary |-> f.dictionary,
              total |-> f.total, checksum |-> f.checksum]
      /\ f.documents \subseteq IndexedDoc /\ IsDictionary(f.dictionary)
      /\ f.total \in 0..Cardinality(IndexedDoc)
  BY DEF IsPayload
<1>2. ASSUME NEW ids \in SUBSET IndexedDoc, NEW n \in 0..Cardinality(IndexedDoc), NEW dict, IsDictionary(dict),
             g = [kind |-> "index", documents |-> ids, dictionary |-> dict, total |-> n,
                  checksum |-> f.checksum]
      PROVE  IsPayload(g)
  BY <1>2 DEF IsPayload
<1>3. ASSUME NEW d \in IndexedDoc, g = [f EXCEPT !.documents = @ \ {d}] PROVE IsPayload(g)
  <2>1. g = [kind |-> "index", documents |-> f.documents \ {d}, dictionary |-> f.dictionary,
             total |-> f.total, checksum |-> f.checksum]
    BY <1>1, <1>3
  <2> QED BY <1>1, <1>2, <2>1
<1>4. ASSUME NEW d \in IndexedDoc,
             g = [f EXCEPT !.documents = @ \ {d}, !.total = Cardinality(f.documents \ {d})]
      PROVE  IsPayload(g)
  <2> DEFINE n == Cardinality(f.documents \ {d})
             h == [f EXCEPT !.documents = @ \ {d}]
  <2>1. n \in 0..Cardinality(IndexedDoc)
    BY <1>1, DocumentsAreFinite
  <2>2. h = [kind |-> "index", documents |-> f.documents \ {d}, dictionary |-> f.dictionary,
             total |-> f.total, checksum |-> f.checksum]
    BY <1>1
  <2>3. g = [h EXCEPT !.total = n]
    BY <1>4
  <2> HIDE DEF h, n
  <2>4. g = [kind |-> "index", documents |-> f.documents \ {d}, dictionary |-> f.dictionary,
             total |-> n, checksum |-> f.checksum]
    BY <2>2, <2>3
  <2> QED BY <1>1, <1>2, <2>1, <2>4
<1>5. ASSUME NEW t \in DOMAIN f.dictionary, NEW P \in SUBSET IndexedDoc,
             g = [f EXCEPT !.dictionary[t].postings = P]
      PROVE  IsPayload(g)
  <2> DEFINE l == [f.dictionary[t] EXCEPT !.postings = P]
             dict == [f.dictionary EXCEPT ![t] = l]
  <2>1. l \in PostingList
    BY <1>1 DEF IsDictionary, PostingList
  <2>2. g = [f EXCEPT !.dictionary = dict]
    BY <1>5
  <2> HIDE DEF l
  <2>3. IsDictionary(dict)
    BY <1>1, <2>1 DEF IsDictionary
  <2> HIDE DEF dict
  <2>4. g = [kind |-> "index", documents |-> f.documents, dictionary |-> dict,
             total |-> f.total, checksum |-> f.checksum]
    BY <1>1, <2>2
  <2> QED BY <1>1, <1>2, <2>3, <2>4
<1>6. ASSUME NEW t \in DOMAIN f.dictionary, NEW d \in IndexedDoc,
             g \in {[f EXCEPT !.dictionary[t].postings = @ \ {d}],
                    [f EXCEPT !.dictionary[t].postings = @ \cup {d}]}
      PROVE  IsPayload(g)
  <2>1. f.dictionary[t].postings \subseteq IndexedDoc
    BY <1>1 DEF IsDictionary, PostingList
  <2>2. \/ g = [f EXCEPT !.dictionary[t].postings = f.dictionary[t].postings \ {d}]
        \/ g = [f EXCEPT !.dictionary[t].postings = f.dictionary[t].postings \cup {d}]
    BY <1>6
  <2> QED BY <1>5, <2>1, <2>2
<1> QED BY <1>3, <1>4, <1>6 DEF DamageFile

LEMMA IndexNextStep == IndexInv /\ [IndexNext]_indexVars => IndexInv'
<1> SUFFICES ASSUME IndexInv, [IndexNext]_indexVars PROVE IndexInv'
  OBVIOUS
<1>0. IndexTypes /\ DictionaryFits /\ FileFits
  BY DEF IndexInv
<1>1. ASSUME NEW d \in IndexedDoc, NEW ts \in SUBSET IndexTerm, AddDocument(d, ts) PROVE IndexInv'
  <2> DEFINE base == IF d \in documents THEN Removed(dictionary, d) ELSE dictionary
             others == documents \ {d}
  <2>1. /\ documents' = others \cup {d} /\ dictionary' = WithPostings(base, d, ts)
        /\ contents' = [contents EXCEPT ![d] = ts] /\ UNCHANGED <<indexFile, tmpFile, saved, damaged>>
    BY <1>1 DEF AddDocument
  <2>2. /\ IsDictionary(base) /\ HasDocuments(others, base)
        /\ "memory" \notin damaged => InverseOf(others, base, contents)
    <3>1. CASE d \in documents
      BY <1>0, <3>1, RemovedFits DEF IndexTypes, DictionaryFits
    <3>2. CASE d \notin documents
      <4>1. others = documents
        BY <3>2
      <4> QED BY <1>0, <3>2, <4>1 DEF IndexTypes, DictionaryFits
    <3> QED BY <3>1, <3>2
  <2>3. others \in SUBSET IndexedDoc /\ d \notin others
    BY <1>0 DEF IndexTypes
  <2> HIDE DEF base, others
  <2>4. /\ IsDictionary(dictionary') /\ HasDocuments(documents', dictionary')
        /\ "memory" \notin damaged => InverseOf(documents', dictionary', contents')
    BY <1>0, <2>1, <2>2, <2>3, AddedFits DEF IndexTypes
  <2>5. documents' \subseteq IndexedDoc /\ contents' \in [IndexedDoc -> SUBSET IndexTerm]
    BY <1>0, <2>1, <2>3 DEF IndexTypes
  <2> QED BY <1>0, <2>1, <2>4, <2>5 DEF IndexInv, IndexTypes, DictionaryFits, FileFits
<1>2. ASSUME NEW d \in IndexedDoc, RemoveDocument(d) PROVE IndexInv'
  <2>1. /\ documents' = documents \ {d} /\ dictionary' = Removed(dictionary, d)
        /\ contents' = [contents EXCEPT ![d] = {}] /\ UNCHANGED <<indexFile, tmpFile, saved, damaged>>
    BY <1>2 DEF RemoveDocument
  <2>2. /\ IsDictionary(dictionary') /\ HasDocuments(documents', dictionary')
        /\ "memory" \notin damaged => InverseOf(documents', dictionary', contents)
    BY <1>0, <2>1, RemovedFits DEF IndexTypes, DictionaryFits
  <2>3. /\ documents' \subseteq IndexedDoc /\ contents' \in [IndexedDoc -> SUBSET IndexTerm]
        /\ \A e \in documents' : contents'[e] = contents[e]
    BY <1>0, <2>1 DEF IndexTypes
  <2>4. InverseOf(documents', dictionary', contents) => InverseOf(documents', dictionary', contents')
    <3> SUFFICES ASSUME InverseOf(documents', dictionary', contents)
                 PROVE  InverseOf(documents', dictionary', contents')
      OBVIOUS
    <3>1. UNION {contents[e] : e \in documents'} = UNION {contents'[e] : e \in documents'}
      BY <2>3
    <3>2. \A t : {e \in documents' : t \in contents[e]} = {e \in documents' : t \in contents'[e]}
      BY <2>3
    <3> QED BY <3>1, <3>2 DEF InverseOf
  <2> QED BY <1>0, <2>1, <2>2, <2>3, <2>4 DEF IndexInv, IndexTypes, DictionaryFits, FileFits
<1>3. ASSUME ClearIndex PROVE IndexInv'
  BY <1>0, <1>3, EmptyIndexFits DEF ClearIndex, IndexInv, IndexTypes, DictionaryFits, FileFits
<1>4. ASSUME SaveIndex PROVE IndexInv'
  <2>1. /\ UNCHANGED <<documents, dictionary, contents>> /\ saved' = contents /\ tmpFile' = FALSE
        /\ indexFile' = Payload
        /\ damaged' = IF "memory" \in damaged THEN damaged \cup {"file"} ELSE damaged \ {"file"}
    BY <1>4 DEF SaveIndex
  <2> DEFINE n == Cardinality(documents)
             c == Checksum(documents, dictionary)
  <2>2. indexFile' = [kind |-> "index", documents |-> documents, dictionary |-> dictionary,
                      total |-> n, checksum |-> c]
    BY <2>1 DEF Payload
  <2>3. n \in 0..Cardinality(IndexedDoc)
    BY <1>0, DocumentsAreFinite DEF IndexTypes
  <2> HIDE DEF n, c
  <2>4. IsPayload(indexFile')
    BY <1>0, <2>2, <2>3 DEF IsPayload, IndexTypes
  <2>5. /\ indexFile'.documents = documents /\ indexFile'.dictionary = dictionary /\ indexFile'.total = n
    BY <2>2
  <2> QED BY <1>0, <2>1, <2>4, <2>5 DEF n, IndexInv, IndexTypes, DictionaryFits, FileFits
<1>5. ASSUME SaveDies PROVE IndexInv'
  BY <1>0, <1>5, EmptyIndexFits DEF SaveDies, Forgotten, IndexInv, IndexTypes, DictionaryFits, FileFits
<1>6. ASSUME LoadIndex PROVE IndexInv'
  <2>1. /\ Valid(indexFile) /\ documents' = indexFile.documents /\ dictionary' = indexFile.dictionary
        /\ contents' = saved /\ UNCHANGED <<indexFile, tmpFile, saved>>
        /\ damaged' = IF "file" \in damaged THEN damaged \cup {"memory"} ELSE damaged \ {"memory"}
    BY <1>6 DEF LoadIndex
  <2>2. IsPayload(indexFile) /\ indexFile # None
    <3>1. indexFile.kind = "index" /\ None.kind = "none" /\ Unreadable.kind = "unreadable"
      BY <2>1 DEF Valid, None, Unreadable
    <3> QED BY <1>0, <3>1 DEF FileFits
  <2>3. HasDocuments(indexFile.documents, indexFile.dictionary)
    BY <2>1, NoOrphans DEF Valid, Orphans
  <2>4. "file" \notin damaged => InverseOf(documents', dictionary', contents')
    BY <1>0, <2>1, <2>2 DEF FileFits
  <2>5. documents' \subseteq IndexedDoc /\ IsDictionary(dictionary')
    BY <2>1, <2>2 DEF IsPayload
  <2> QED BY <1>0, <2>1, <2>3, <2>4, <2>5 DEF IndexInv, IndexTypes, DictionaryFits, FileFits
<1>7. ASSUME DamageFile PROVE IndexInv'
  <2>1. /\ indexFile.kind = "index" /\ damaged' = damaged \cup {"file"}
        /\ UNCHANGED <<documents, dictionary, tmpFile, contents, saved>>
    BY <1>7 DEF DamageFile
  <2>2. IsPayload(indexFile)
    <3>1. None.kind = "none" /\ Unreadable.kind = "unreadable"
      BY DEF None, Unreadable
    <3> QED BY <1>0, <2>1, <3>1 DEF FileFits
  <2>3. indexFile' = Unreadable \/ IsPayload(indexFile')
    BY <1>7, <2>2, DamagedIsPayload
  <2> QED BY <1>0, <2>1, <2>3 DEF IndexInv, IndexTypes, DictionaryFits, FileFits
<1>8. ASSUME UNCHANGED indexVars PROVE IndexInv'
  BY <1>0, <1>8 DEF indexVars, IndexInv, IndexTypes, DictionaryFits, FileFits
<1> QED BY <1>1, <1>2, <1>3, <1>4, <1>5, <1>6, <1>7, <1>8 DEF IndexNext

LEMMA IndexProperties ==
  IndexInv => IndexTypeOK /\ InverseOfDocuments /\ PostingsHaveDocuments /\ SavedIndexLoads
<1> SUFFICES ASSUME IndexInv
             PROVE  IndexTypeOK /\ InverseOfDocuments /\ PostingsHaveDocuments /\ SavedIndexLoads
  OBVIOUS
<1>1. IndexTypes /\ DictionaryFits /\ FileFits
  BY DEF IndexInv
<1>2. IndexTypeOK
  <2>1. IsPayload(indexFile) => IsFile(indexFile)
    BY DEF IsPayload, IsFile
  <2> QED BY <1>1, <2>1 DEF IndexTypes, IndexTypeOK, FileFits, IsFile
<1>3. InverseOfDocuments
  BY <1>1 DEF DictionaryFits, InverseOf, InverseOfDocuments
<1>4. PostingsHaveDocuments
  BY <1>1 DEF DictionaryFits, HasDocuments, PostingsHaveDocuments
<1>5. SavedIndexLoads
  BY <1>1, InverseIsValid DEF FileFits, SavedIndexLoads
<1> QED BY <1>2, <1>3, <1>4, <1>5

(***************************************************************************)
(* The link graph.  Each page has a rank, no more than the redirects so    *)
(* far, that falls along every redirect, so that none closes a circle; and *)
(* a snapshot finds room for each of its edges when it is loaded, as the   *)
(* graph had room for all of them.                                         *)
(***************************************************************************)
GraphEdge == [from : Page, to : Page, count : Nat \ {0}]
GraphRecord ==
  [nodes : SUBSET Page, inDeg : [Page -> Nat], outDeg : [Page -> Nat],
   out : [Page -> SUBSET Page], back : [Page -> SUBSET Page], edges : Seq(GraphEdge)]

EdgesFit(g) ==
  /\ \A i \in DOMAIN g.edges :
       /\ g.edges[i].from \in g.nodes /\ g.edges[i].to \in g.nodes
       /\ g.edges[i].to \in g.out[g.edges[i].from] /\ g.edges[i].from \in g.back[g.edges[i].to]
       /\ g.edges[i].from = g.edges[i].to => AllowSelfLoops
  /\ \A i, j \in DOMAIN g.edges :
       g.edges[i].from = g.edges[j].from /\ g.edges[i].to = g.edges[j].to => i = j

MapsFit(g) ==
  \A s, t \in Page :
    /\ t \in g.out[s] => \E i \in DOMAIN g.edges : g.edges[i].from = s /\ g.edges[i].to = t
    /\ s \in g.back[t] => \E i \in DOMAIN g.edges : g.edges[i].from = s /\ g.edges[i].to = t

SizesFit(g) ==
  /\ IsFiniteSet(g.nodes) /\ Cardinality(g.nodes) <= MaxNodes
  /\ \A p \in Page : /\ g.outDeg[p] = Cardinality(g.out[p]) /\ g.inDeg[p] = Cardinality(g.back[p])
                     /\ g.outDeg[p] <= MaxOut

LinkGraphs == {g \in GraphRecord : EdgesFit(g) /\ MapsFit(g) /\ SizesFit(g)}

Falls(r, rs) == \A p \in Page : rs[p] # "" => r[rs[p]] < r[p]

LinksInv ==
  /\ graph \in LinkGraphs /\ redirects \in [Page -> Page \cup {""}]
  /\ ingested \in 0..MaxIngested /\ byHand \in BOOLEAN
  /\ ~byHand /\ ingested <= MaxHops => \E r \in [Page -> 0..ingested] : Falls(r, redirects)

LEMMA GraphConstants ==
  /\ MaxNodes \in Nat /\ MaxOut \in Nat /\ MaxHops \in Nat /\ MaxIngested \in Nat
  BY GraphAssumption

(* What a page links to, and what links to it, are nodes, and so finite. *)
LEMMA NeighboursAreFinite ==
  ASSUME NEW g \in LinkGraphs, NEW p \in Page
  PROVE  /\ g.out[p] \subseteq g.nodes /\ g.back[p] \subseteq g.nodes
         /\ IsFiniteSet(g.out[p]) /\ IsFiniteSet(g.back[p]) /\ IsFiniteSet(g.nodes)
         /\ Cardinality(g.out[p]) \in Nat /\ Cardinality(g.back[p]) \in Nat /\ Cardinality(g.nodes) \in Nat
<1>1. g.out[p] \subseteq Page /\ g.back[p] \subseteq Page
  BY DEF LinkGraphs, GraphRecord
<1>2. g.out[p] \subseteq g.nodes /\ g.back[p] \subseteq g.nodes
  BY <1>1 DEF LinkGraphs, MapsFit, EdgesFit
<1>3. IsFiniteSet(g.nodes)
  BY DEF LinkGraphs, SizesFit
<1> QED BY <1>2, <1>3, FS_Subset, FS_CardinalityType

(* A graph without edges. *)
LEMMA BareGraphFits ==
  ASSUME NEW N \in SUBSET Page, IsFiniteSet(N), Cardinality(N) <= MaxNodes
  PROVE  /\ [NoGraph EXCEPT !.nodes = N] \in LinkGraphs
         /\ [NoGraph EXCEPT !.nodes = N].nodes = N
         /\ [NoGraph EXCEPT !.nodes = N].edges = <<>>
<1> DEFINE h == [NoGraph EXCEPT !.nodes = N]
<1>1. /\ h.nodes = N /\ h.edges = <<>> /\ h \in GraphRecord
      /\ \A p \in Page : h.out[p] = {} /\ h.back[p] = {} /\ h.outDeg[p] = 0 /\ h.inDeg[p] = 0
  <2>1. <<>> \in Seq(GraphEdge)
    OBVIOUS
  <2> QED BY <2>1 DEF NoGraph, GraphRecord
<1>2. Cardinality({}) = 0 /\ DOMAIN <<>> = {}
  BY FS_EmptySet
<1> HIDE DEF h
<1>3. EdgesFit(h) /\ MapsFit(h)
  BY <1>1, <1>2 DEF EdgesFit, MapsFit
<1>4. SizesFit(h)
  <2>1. IsFiniteSet(h.nodes) /\ Cardinality(h.nodes) <= MaxNodes
    BY <1>1
  <2>2. 0 <= MaxOut
    BY GraphConstants
  <2>3. \A p \in Page : h.outDeg[p] = Cardinality(h.out[p]) /\ h.inDeg[p] = Cardinality(h.back[p]) /\ h.outDeg[p] <= MaxOut
    BY <1>1, <1>2, <2>2
  <2> QED BY <2>1, <2>3 DEF SizesFit
<1>5. h \in LinkGraphs
  BY <1>1, <1>3, <1>4 DEF LinkGraphs
<1> QED BY <1>1, <1>5 DEF h

LEMMA WithNodeFits ==
  ASSUME NEW g \in LinkGraphs, NEW p \in Page
  PROVE  /\ WithNode(g, p) \in LinkGraphs
         /\ WithNode(g, p).edges = g.edges /\ WithNode(g, p).out = g.out
         /\ WithNode(g, p).nodes = IF HasRoom(g, p) THEN g.nodes \cup {p} ELSE g.nodes
<1> DEFINE h == WithNode(g, p)
<1>1. CASE ~ HasRoom(g, p)
  BY <1>1 DEF WithNode
<1>2. CASE HasRoom(g, p)
  <2>1. g \in GraphRecord /\ EdgesFit(g) /\ MapsFit(g) /\ SizesFit(g)
    BY DEF LinkGraphs
  <2>2. /\ h \in GraphRecord /\ h.nodes = g.nodes \cup {p} /\ h.edges = g.edges /\ h.out = g.out
        /\ h.back = g.back /\ h.outDeg = g.outDeg /\ h.inDeg = g.inDeg
    BY <1>2, <2>1 DEF WithNode, GraphRecord
  <2>3. IsFiniteSet(h.nodes) /\ Cardinality(h.nodes) <= MaxNodes
    <3>1. IsFiniteSet(g.nodes) /\ Cardinality(g.nodes) \in Nat /\ Cardinality(g.nodes) <= MaxNodes
      BY <2>1, FS_CardinalityType DEF SizesFit
    <3>2. /\ IsFiniteSet(g.nodes \cup {p})
          /\ Cardinality(g.nodes \cup {p}) = IF p \in g.nodes THEN Cardinality(g.nodes)
                                             ELSE Cardinality(g.nodes) + 1
      BY <3>1, FS_AddElement
    <3> QED BY <1>2, <2>2, <3>1, <3>2, GraphConstants DEF HasRoom
  <2> HIDE DEF h
  <2>4. EdgesFit(h) /\ MapsFit(h)
    BY <2>1, <2>2 DEF EdgesFit, MapsFit
  <2>5. SizesFit(h)
    BY <2>1, <2>2, <2>3 DEF SizesFit
  <2>6. h \in LinkGraphs
    BY <2>2, <2>4, <2>5 DEF LinkGraphs
  <2> QED BY <1>2, <2>2, <2>6 DEF h
<1> QED BY <1>1, <1>2

(* One more of the links of an edge there is. *)
LEMMA CountedEdgeFits ==
  ASSUME NEW g \in LinkGraphs, NEW i \in DOMAIN g.edges
  PROVE  /\ [g EXCEPT !.edges[i].count = @ + 1] \in LinkGraphs
         /\ [g EXCEPT !.edges[i].count = @ + 1].nodes = g.nodes
<1> DEFINE h == [g EXCEPT !.edges[i].count = @ + 1]
           list == [g.edges EXCEPT ![i].count = @ + 1]
<1>1. g \in GraphRecord /\ EdgesFit(g) /\ MapsFit(g) /\ SizesFit(g)
  BY DEF LinkGraphs
<1>2. /\ g.edges \in Seq(GraphEdge) /\ DOMAIN g.edges = 1..Len(g.edges) /\ Len(g.edges) \in Nat
      /\ \A j \in DOMAIN g.edges : g.edges[j] \in GraphEdge
  BY <1>1 DEF GraphRecord
<1>3. list = [g.edges EXCEPT ![i].count = @ + 1]
  OBVIOUS
<1>4. /\ DOMAIN list = DOMAIN g.edges
      /\ \A j \in DOMAIN g.edges : list[j] \in GraphEdge /\ list[j].from = g.edges[j].from /\ list[j].to = g.edges[j].to
  BY <1>2, <1>3 DEF GraphEdge
<1>5. list \in Seq(GraphEdge)
  <2>1. list \in [1..Len(g.edges) -> GraphEdge]
    BY <1>2, <1>3, <1>4
  <2> HIDE DEF list
  <2> QED BY <1>2, <2>1
<1>6. /\ h.nodes = g.nodes /\ h.out = g.out /\ h.back = g.back /\ h.outDeg = g.outDeg /\ h.inDeg = g.inDeg
      /\ h.edges = list
      /\ h \in GraphRecord
  <2>1. h = [g EXCEPT !.edges = list]
    BY <1>1 DEF GraphRecord
  <2> HIDE DEF h, list
  <2> QED BY <1>1, <1>5, <2>1 DEF GraphRecord
<1> HIDE DEF list
<1> HIDE DEF h
<1>9. EdgesFit(h)
  BY <1>1, <1>4, <1>6 DEF EdgesFit
<1>10. MapsFit(h)
  BY <1>1, <1>4, <1>6 DEF MapsFit
<1>11. SizesFit(h)
  BY <1>1, <1>6 DEF SizesFit
<1>12. h \in LinkGraphs
  BY <1>6, <1>9, <1>10, <1>11 DEF LinkGraphs
<1> QED BY <1>6, <1>12 DEF h

(* A new edge, between nodes, of a page that has room for it. *)
IsNewEdge(h, g, s, t) ==
  /\ Len(h.edges) = Len(g.edges) + 1
  /\ \A i \in DOMAIN g.edges : h.edges[i].from = g.edges[i].from /\ h.edges[i].to = g.edges[i].to
  /\ h.edges[Len(g.edges) + 1].from = s /\ h.edges[Len(g.edges) + 1].to = t

LEMMA NewEdgeFits ==
  ASSUME NEW g \in LinkGraphs, NEW s \in g.nodes, NEW t \in g.nodes, s = t => AllowSelfLoops,
         EdgeIndex(g, s, t) = {}, Cardinality(g.out[s]) < MaxOut
  PROVE  /\ WithEdge(g, s, t) \in LinkGraphs /\ WithEdge(g, s, t).nodes = g.nodes
         /\ IsNewEdge(WithEdge(g, s, t), g, s, t)
<1> DEFINE h == WithEdge(g, s, t)
           e == [from |-> s, to |-> t, count |-> 1]
           n == Len(g.edges)
           out == [g.out EXCEPT ![s] = @ \cup {t}]
           back == [g.back EXCEPT ![t] = @ \cup {s}]
           outDeg == [g.outDeg EXCEPT ![s] = Cardinality(out[s])]
           inDeg == [g.inDeg EXCEPT ![t] = Cardinality(back[t])]
<1>1. g \in GraphRecord /\ EdgesFit(g) /\ MapsFit(g) /\ SizesFit(g) /\ s \in Page /\ t \in Page
  BY DEF LinkGraphs, GraphRecord
<1>2. /\ g.edges \in Seq(GraphEdge) /\ e \in GraphEdge /\ n \in Nat /\ DOMAIN g.edges = 1..n
      /\ Append(g.edges, e) \in Seq(GraphEdge) /\ DOMAIN Append(g.edges, e) = 1..(n + 1)
      /\ Len(Append(g.edges, e)) = n + 1 /\ Append(g.edges, e)[n + 1] = e
      /\ \A i \in 1..n : Append(g.edges, e)[i] = g.edges[i]
  BY <1>1 DEF GraphRecord, GraphEdge
<1>3. t \notin g.out[s] /\ s \notin g.back[t]
  BY <1>1 DEF MapsFit, EdgeIndex
<1>4. /\ IsFiniteSet(g.out[s]) /\ IsFiniteSet(g.back[t])
      /\ Cardinality(g.out[s]) \in Nat /\ Cardinality(g.back[t]) \in Nat
  BY <1>1, NeighboursAreFinite
<1>5. /\ Cardinality(g.out[s] \cup {t}) = Cardinality(g.out[s]) + 1
      /\ Cardinality(g.back[t] \cup {s}) = Cardinality(g.back[t]) + 1
  BY <1>3, <1>4, FS_AddElement
<1>6. /\ out \in [Page -> SUBSET Page] /\ back \in [Page -> SUBSET Page]
      /\ \A p \in Page : /\ out[p] = IF p = s THEN g.out[p] \cup {t} ELSE g.out[p]
                         /\ back[p] = IF p = t THEN g.back[p] \cup {s} ELSE g.back[p]
  BY <1>1 DEF GraphRecord
<1>7. /\ outDeg \in [Page -> Nat] /\ inDeg \in [Page -> Nat]
      /\ \A p \in Page : outDeg[p] = Cardinality(out[p]) /\ inDeg[p] = Cardinality(back[p]) /\ outDeg[p] <= MaxOut
  <2> HIDE DEF out, back
  <2>1. \A p \in Page : g.outDeg[p] = Cardinality(g.out[p]) /\ g.inDeg[p] = Cardinality(g.back[p]) /\ g.outDeg[p] <= MaxOut
    BY <1>1 DEF SizesFit
  <2>2. out[s] = g.out[s] \cup {t} /\ back[t] = g.back[t] \cup {s}
    BY <1>1, <1>6
  <2>3. Cardinality(out[s]) \in Nat /\ Cardinality(out[s]) <= MaxOut /\ Cardinality(back[t]) \in Nat
    BY <1>4, <1>5, <2>2, GraphConstants
  <2>4. g.outDeg \in [Page -> Nat] /\ g.inDeg \in [Page -> Nat]
    BY <1>1 DEF GraphRecord
  <2> QED BY <1>1, <1>6, <2>1, <2>3, <2>4
<1>8. h = [nodes |-> g.nodes, inDeg |-> inDeg, outDeg |-> outDeg, out |-> out, back |-> back,
           edges |-> Append(g.edges, e)]
  BY <1>1 DEF WithEdge, GraphRecord
<1> HIDE DEF e, out, back, outDeg, inDeg, h
<1>9. /\ h.nodes = g.nodes /\ h.inDeg = inDeg /\ h.outDeg = outDeg /\ h.out = out /\ h.back = back
      /\ h.edges = Append(g.edges, e) /\ h \in GraphRecord
  BY <1>1, <1>2, <1>6, <1>7, <1>8 DEF GraphRecord
<1>10. e.from = s /\ e.to = t
  BY DEF e
<1>11. \A i \in 1..(n + 1) : (i \in 1..n /\ h.edges[i] = g.edges[i]) \/ (i = n + 1 /\ h.edges[i] = e)
  BY <1>2, <1>9
<1>12. EdgesFit(h)
  <2>1. ASSUME NEW i \in 1..(n + 1)
        PROVE  /\ h.edges[i].from \in h.nodes /\ h.edges[i].to \in h.nodes
               /\ h.edges[i].to \in h.out[h.edges[i].from] /\ h.edges[i].from \in h.back[h.edges[i].to]
               /\ h.edges[i].from = h.edges[i].to => AllowSelfLoops
    <3>1. CASE i \in 1..n /\ h.edges[i] = g.edges[i]
      <4>1. /\ g.edges[i].from \in g.nodes /\ g.edges[i].to \in g.nodes
            /\ g.edges[i].to \in g.out[g.edges[i].from] /\ g.edges[i].from \in g.back[g.edges[i].to]
            /\ g.edges[i].from = g.edges[i].to => AllowSelfLoops
            /\ g.edges[i].from \in Page /\ g.edges[i].to \in Page
        BY <1>1, <1>2, <3>1 DEF EdgesFit, GraphRecord
      <4> QED BY <1>6, <1>9, <3>1, <4>1
    <3>2. CASE i = n + 1 /\ h.edges[i] = e
      BY <1>1, <1>6, <1>9, <1>10, <3>2
    <3> QED BY <1>11, <3>1, <3>2
  <2>2. ASSUME NEW i \in 1..(n + 1), NEW j \in 1..(n + 1),
               h.edges[i].from = h.edges[j].from, h.edges[i].to = h.edges[j].to
        PROVE  i = j
    <3>1. \A k \in 1..n : ~(g.edges[k].from = s /\ g.edges[k].to = t)
      BY <1>2 DEF EdgeIndex
    <3>2. \A k, l \in 1..n : g.edges[k].from = g.edges[l].from /\ g.edges[k].to = g.edges[l].to => k = l
      BY <1>1, <1>2 DEF EdgesFit
    <3> QED BY <1>10, <1>11, <2>2, <3>1, <3>2
  <2> QED BY <1>2, <1>9, <2>1, <2>2 DEF EdgesFit
<1>13. MapsFit(h)
  <2> SUFFICES ASSUME NEW x \in Page, NEW y \in Page, y \in h.out[x] \/ x \in h.back[y]
               PROVE  \E i \in DOMAIN h.edges : h.edges[i].from = x /\ h.edges[i].to = y
    BY DEF MapsFit
  <2>1. (x = s /\ y = t) \/ y \in g.out[x] \/ x \in g.back[y]
    BY <1>6, <1>9
  <2>2. CASE x = s /\ y = t
    <3>1. n + 1 \in DOMAIN h.edges /\ h.edges[n + 1] = e
      BY <1>2, <1>9
    <3> QED BY <1>10, <2>2, <3>1
  <2>3. CASE y \in g.out[x] \/ x \in g.back[y]
    <3>1. PICK i \in DOMAIN g.edges : g.edges[i].from = x /\ g.edges[i].to = y
      BY <1>1, <2>3 DEF MapsFit
    <3>2. i \in DOMAIN h.edges /\ h.edges[i] = g.edges[i]
      BY <1>2, <1>9
    <3> QED BY <3>1, <3>2
  <2> QED BY <2>1, <2>2, <2>3
<1>14. SizesFit(h)
  BY <1>1, <1>7, <1>9 DEF SizesFit
<1>15. h \in LinkGraphs
  BY <1>9, <1>12, <1>13, <1>14 DEF LinkGraphs
<1>16. IsNewEdge(h, g, s, t)
  BY <1>2, <1>9, <1>10 DEF IsNewEdge
<1> QED BY <1>9, <1>15, <1>16 DEF h

LEMMA WithEdgeFits ==
  ASSUME NEW g \in LinkGraphs, NEW s \in g.nodes, NEW t \in g.nodes, s = t => AllowSelfLoops,
         Cardinality(g.out[s]) < MaxOut
  PROVE  WithEdge(g, s, t) \in LinkGraphs
<1>1. CASE EdgeIndex(g, s, t) = {}
  BY <1>1, NewEdgeFits
<1>2. CASE EdgeIndex(g, s, t) # {}
  <2> DEFINE i == CHOOSE i \in EdgeIndex(g, s, t) : TRUE
  <2>1. i \in DOMAIN g.edges /\ WithEdge(g, s, t) = [g EXCEPT !.edges[i].count = @ + 1]
    BY <1>2 DEF EdgeIndex, WithEdge
  <2> HIDE DEF i
  <2> QED BY <2>1, CountedEdgeFits
<1> QED BY <1>1, <1>2

(***************************************************************************)
(* Addresses.                                                              *)
(***************************************************************************)
Hop(rs, q) == IF rs[q] = "" THEN q ELSE rs[q]
Redirects == [Page -> Page \cup {""}]

LEMMA ResolvedIs ==
  ASSUME NEW rs \in Redirects, NEW p \in Page
  PROVE  \E f \in [0..MaxHops -> Page] :
           /\ f[0] = p /\ \A k \in 1..MaxHops : f[k] = Hop(rs, f[k - 1])
           /\ Resolved(rs, p) = f[MaxHops]
<1> DEFINE n == MaxHops
           step == [k \in 1..n |-> [q \in Page |-> Hop(rs, q)]]
           list == CHOOSE f : f = [k \in 0..n |-> IF k = 0 THEN p ELSE Hop(rs, f[k - 1])]
<1>1. n \in Nat
  BY GraphConstants
<1>2. ASSUME NEW q \in Page PROVE Hop(rs, q) \in Page
  BY DEF Hop, Redirects
<1>3. step \in [1..n -> [Page -> Page]]
  BY <1>2
<1>4. PICK f \in [0..n -> Page] : Iterates(f, p, step, n)
  <2> HIDE DEF step, n
  <2> QED BY <1>1, <1>3, RecursionUpTo
<1>5. \A k \in 1..n : f[k] = Hop(rs, f[k - 1])
  <2>1. \A k \in 1..n : k - 1 \in 0..n
    BY <1>1
  <2> QED BY <1>4, <2>1 DEF Iterates
<1>6. f = [k \in 0..n |-> IF k = 0 THEN p ELSE Hop(rs, f[k - 1])]
  <2>1. \A k \in 0..n : k # 0 => k \in 1..n
    BY <1>1
  <2> QED BY <1>4, <1>5, <2>1 DEF Iterates
<1>7. list = [k \in 0..n |-> IF k = 0 THEN p ELSE Hop(rs, list[k - 1])]
  BY <1>6
<1>8. Resolved(rs, p) = list[n]
  BY DEF Resolved, Hop
<1> HIDE DEF list
<1>9. list[0] = p /\ \A k \in 1..n : list[k] = Hop(rs, list[k - 1])
  <2>1. 0 \in 0..n /\ \A k \in 1..n : k \in 0..n /\ k # 0
    BY <1>1
  <2> QED BY <1>7, <2>1
<1>10. list \in [0..n -> Page]
  <2> DEFINE G == {k \in 0..n : list[k] \in Page}
  <2>1. 0 \in G
    <3>1. 0 \in 0..n
      BY <1>1
    <3> QED BY <1>9, <3>1
  <2>2. ASSUME NEW k \in 1..n, k - 1 \in G PROVE k \in G
    BY <1>2, <1>9, <2>2
  <2> HIDE DEF G
  <2>3. \A k \in 0..n : k \in G
    BY <1>1, <2>1, <2>2, InductionUpTo
  <2>4. \A k \in 0..n : list[k] \in Page
    BY <2>3 DEF G
  <2> QED BY <1>7, <2>4
<1> QED BY <1>8, <1>9, <1>10

LEMMA ResolvedIsAPage ==
  ASSUME NEW rs \in Redirects, NEW p \in Page
  PROVE  Resolved(rs, p) \in Page
<1>1. PICK f \in [0..MaxHops -> Page] : Resolved(rs, p) = f[MaxHops]
  BY ResolvedIs
<1> QED BY <1>1, GraphConstants

(* Where no address is redirected, each stands for itself. *)
LEMMA NothingRedirected ==
  NoRedirects \in Redirects /\ \A p \in Page : Resolved(NoRedirects, p) = p
<1>1. NoRedirects \in Redirects
  BY DEF NoRedirects, Redirects
<1>2. ASSUME NEW p \in Page PROVE Resolved(NoRedirects, p) = p
  <2>1. PICK f \in [0..MaxHops -> Page] :
          /\ f[0] = p /\ \A k \in 1..MaxHops : f[k] = Hop(NoRedirects, f[k - 1])
          /\ Resolved(NoRedirects, p) = f[MaxHops]
    BY <1>1, ResolvedIs
  <2> DEFINE G == {k \in 0..MaxHops : f[k] = p}
  <2>2. MaxHops \in Nat /\ 0 \in G
    BY <2>1, GraphConstants
  <2>3. ASSUME NEW k \in 1..MaxHops, k - 1 \in G PROVE k \in G
    <3>1. f[k - 1] = p /\ k \in 0..MaxHops
      BY <2>2, <2>3
    <3>2. f[k] = Hop(NoRedirects, p)
      BY <2>1, <3>1
    <3>3. Hop(NoRedirects, p) = p
      BY DEF NoRedirects, Hop
    <3> QED BY <3>1, <3>2, <3>3
  <2> HIDE DEF G
  <2>4. \A k \in 0..MaxHops : k \in G
    BY <2>2, <2>3, InductionUpTo
  <2>5. MaxHops \in G
    BY <2>2, <2>4
  <2> QED BY <2>1, <2>5 DEF G
<1> QED BY <1>1, <1>2

(* Resolution ends where nothing leads on, if it may follow as many redirects as *)
(* the ranks allow.                                                               *)
LEMMA ResolvedIsTheEnd ==
  ASSUME NEW rs \in Redirects, NEW p \in Page, NEW n \in Nat, NEW r \in [Page -> 0..n], Falls(r, rs),
         n <= MaxHops
  PROVE  rs[Resolved(rs, p)] = ""
<1>1. PICK f \in [0..MaxHops -> Page] :
        /\ f[0] = p /\ \A k \in 1..MaxHops : f[k] = Hop(rs, f[k - 1])
        /\ Resolved(rs, p) = f[MaxHops]
  BY ResolvedIs
<1> DEFINE G == {k \in 0..MaxHops : rs[f[k]] = "" \/ r[f[k]] + k <= r[p]}
<1>2. MaxHops \in Nat
  BY GraphConstants
<1>3. \A q \in Page : r[q] \in Int /\ 0 <= r[q] /\ r[q] <= n
  OBVIOUS
<1>4. 0 \in G
  <2>1. r[p] + 0 <= r[p] /\ 0 \in 0..MaxHops
    BY <1>2, <1>3
  <2> QED BY <1>1, <2>1
<1>5. ASSUME NEW k \in 1..MaxHops, k - 1 \in G PROVE k \in G
  <2>1. k - 1 \in 0..MaxHops /\ k \in 0..MaxHops /\ f[k] = Hop(rs, f[k - 1]) /\ f[k - 1] \in Page /\ f[k] \in Page
    BY <1>1, <1>2
  <2>2. CASE rs[f[k - 1]] = ""
    BY <2>1, <2>2 DEF Hop
  <2>3. CASE rs[f[k - 1]] # ""
    <3>1. f[k] = rs[f[k - 1]] /\ r[f[k]] < r[f[k - 1]]
      BY <2>1, <2>3 DEF Hop, Falls
    <3>2. r[f[k - 1]] + (k - 1) <= r[p]
      BY <1>5, <2>3
    <3>3. r[f[k]] \in Int /\ r[f[k - 1]] \in Int /\ r[p] \in Int
      BY <1>3, <2>1
    <3>4. r[f[k]] + k <= r[p]
      BY <3>1, <3>2, <3>3
    <3> QED BY <2>1, <3>4
  <2> QED BY <2>2, <2>3
<1> HIDE DEF G
<1>6. \A k \in 0..MaxHops : k \in G
  BY <1>2, <1>4, <1>5, InductionUpTo
<1>7. MaxHops \in G
  BY <1>2, <1>6
<1> DEFINE e == f[MaxHops]
<1>8. e \in Page /\ (rs[e] = "" \/ r[e] + MaxHops <= r[p])
  BY <1>2, <1>7 DEF G
<1>9. CASE rs[e] # ""
  <2>1. rs[e] \in Page
    BY <1>8, <1>9 DEF Redirects
  <2>2. r[rs[e]] < r[e]
    BY <1>8, <1>9 DEF Falls
  <2>3. r[e] + MaxHops <= r[p] /\ r[p] <= n /\ 0 <= r[rs[e]] /\ r[rs[e]] \in Int /\ r[e] \in Int /\ r[p] \in Int
    BY <1>3, <1>8, <1>9, <2>1
  <2>4. r[e] + MaxHops <= n
    BY <1>2, <2>3
  <2>5. n <= MaxHops
    OBVIOUS
  <2> HIDE DEF e
  <2>6. FALSE
    BY <1>2, <2>2, <2>3, <2>4, <2>5
  <2> QED BY <2>6
<1> QED BY <1>1, <1>9

(* A redirect to an address that is not redirected itself leaves ranks. *)
IsEnd(rs, p) == rs[p] = ""

LEMMA RedirectedFalls ==
  ASSUME NEW rs \in Redirects, NEW n \in Nat, NEW r \in [Page -> 0..n], Falls(r, rs),
         NEW from \in Page, NEW to \in Page, IsEnd(rs, to)
  PROVE  \E x \in [Page -> 0..(n + 1)] : Falls(x, Redirected(rs, from, to))
<1> DEFINE x == [p \in Page |-> IF p = to THEN 0 ELSE r[p] + 1]
           new == Redirected(rs, from, to)
<1> HIDE DEF x, new
<1>1. \A q \in Page : r[q] \in Int /\ 0 <= r[q] /\ r[q] <= n
  OBVIOUS
<1>2. x \in [Page -> 0..(n + 1)] /\ \A p \in Page : x[p] = IF p = to THEN 0 ELSE r[p] + 1
  <2>1. \A q \in Page : r[q] + 1 \in 0..(n + 1) /\ 0 \in 0..(n + 1)
    BY <1>1
  <2> QED BY <2>1 DEF x
<1>3. \A p \in Page : new[p] = IF p = from /\ from # to THEN to ELSE rs[p]
  BY DEF Redirected, Redirects, new
<1>4. ASSUME NEW p \in Page, new[p] # "" PROVE x[new[p]] < x[p]
  <2>1. CASE p = from /\ from # to
    <3>1. new[p] = to /\ p # to /\ r[p] \in Int /\ 0 <= r[p]
      BY <1>1, <1>3, <2>1
    <3>2. x[to] = 0 /\ x[p] = r[p] + 1
      BY <1>2, <3>1
    <3> QED BY <3>1, <3>2
  <2>2. CASE ~(p = from /\ from # to)
    <3>1. new[p] = rs[p] /\ p # to /\ rs[p] \in Page /\ rs[p] # ""
      BY <1>3, <1>4, <2>2 DEF Redirects, IsEnd
    <3>2. r[rs[p]] < r[p]
      BY <3>1 DEF Falls
    <3>3. x[p] = r[p] + 1 /\ (x[rs[p]] = 0 \/ x[rs[p]] = r[rs[p]] + 1)
      BY <1>2, <3>1
    <3>4. r[p] \in Int /\ r[rs[p]] \in Int /\ 0 <= r[p] /\ r[rs[p]] < r[p]
      BY <1>1, <3>1, <3>2
    <3>5. x[rs[p]] < x[p]
      BY <3>3, <3>4
    <3> QED BY <3>1, <3>5
  <2> QED BY <2>1, <2>2
<1>5. Falls(x, new)
  BY <1>4 DEF Falls
<1> QED BY <1>2, <1>5 DEF new

LEMMA RedirectedIs ==
  ASSUME NEW rs \in Redirects, NEW from \in Page, NEW to \in Page
  PROVE  Redirected(rs, from, to) \in Redirects
  BY DEF Redirected, Redirects

(***************************************************************************)
(* Adding edges, one and many.                                             *)
(***************************************************************************)
LEMMA AddEdgeFits ==
  ASSUME NEW g \in LinkGraphs, NEW rs \in Redirects, NEW from \in Page, NEW to \in Page
  PROVE  AddEdge(g, rs, from, to) \in LinkGraphs
<1> DEFINE s == Resolved(rs, from)
           t == Resolved(rs, to)
           g1 == WithNode(g, s)
           g2 == WithNode(g1, t)
<1>1. s \in Page /\ t \in Page
  BY ResolvedIsAPage
<1>2. \/ AddEdge(g, rs, from, to) = g \/ AddEdge(g, rs, from, to) = g1
      \/ /\ AddEdge(g, rs, from, to) = WithEdge(g2, s, t)
         /\ s = t => AllowSelfLoops
         /\ HasRoom(g, s) /\ HasRoom(g1, t) /\ ~(Cardinality(g1.out[s]) >= MaxOut)
  BY DEF AddEdge
<1> HIDE DEF s, t
<1>3. g1 \in LinkGraphs /\ (HasRoom(g, s) => s \in g1.nodes)
  BY <1>1, WithNodeFits
<1> HIDE DEF g1
<1>4. /\ g2 \in LinkGraphs /\ g2.out = g1.out /\ g1.nodes \subseteq g2.nodes
      /\ HasRoom(g1, t) => t \in g2.nodes
  BY <1>1, <1>3, WithNodeFits
<1> HIDE DEF g2
<1>5. CASE /\ AddEdge(g, rs, from, to) = WithEdge(g2, s, t)
           /\ s = t => AllowSelfLoops
           /\ HasRoom(g, s) /\ HasRoom(g1, t) /\ ~(Cardinality(g1.out[s]) >= MaxOut)
  <2>1. s \in g2.nodes /\ t \in g2.nodes /\ (s = t => AllowSelfLoops)
    BY <1>3, <1>4, <1>5
  <2>2. Cardinality(g2.out[s]) \in Nat
    BY <1>1, <1>4, NeighboursAreFinite
  <2>3. Cardinality(g2.out[s]) < MaxOut
    BY <1>4, <1>5, <2>2, GraphConstants
  <2>4. WithEdge(g2, s, t) \in LinkGraphs
    BY <1>4, <2>1, <2>3, WithEdgeFits
  <2> QED BY <1>5, <2>4
<1> QED BY <1>2, <1>3, <1>5

LEMMA AddEdgesIs ==
  ASSUME NEW g \in LinkGraphs, NEW rs \in Redirects, NEW S, NEW es \in Seq(S),
         \A e \in S : e.from \in Page /\ e.to \in Page
  PROVE  \E f \in [0..Len(es) -> LinkGraphs] :
           /\ f[0] = g /\ \A k \in 1..Len(es) : f[k] = AddEdge(f[k - 1], rs, es[k].from, es[k].to)
           /\ AddEdges(g, rs, es) = f[Len(es)]
<1> DEFINE n == Len(es)
           More(h, k) == AddEdge(h, rs, es[k].from, es[k].to)
           step == [k \in 1..n |-> [h \in LinkGraphs |-> More(h, k)]]
           list == CHOOSE f : f = [k \in 0..n |-> IF k = 0 THEN g ELSE More(f[k - 1], k)]
<1>1. n \in Nat /\ \A k \in 1..n : es[k].from \in Page /\ es[k].to \in Page
  OBVIOUS
<1>2. ASSUME NEW h \in LinkGraphs, NEW k \in 1..n PROVE More(h, k) \in LinkGraphs
  BY <1>1, AddEdgeFits
<1>3. step \in [1..n -> [LinkGraphs -> LinkGraphs]]
  <2> HIDE DEF More
  <2> QED BY <1>2
<1>4. PICK f \in [0..n -> LinkGraphs] : Iterates(f, g, step, n)
  <2> HIDE DEF step, n
  <2> QED BY <1>1, <1>3, RecursionUpTo
<1>5. \A k \in 1..n : f[k] = More(f[k - 1], k)
  <2> HIDE DEF More
  <2>1. \A k \in 1..n : k - 1 \in 0..n
    BY <1>1
  <2> QED BY <1>4, <2>1 DEF Iterates
<1>6. f = [k \in 0..n |-> IF k = 0 THEN g ELSE More(f[k - 1], k)]
  <2> HIDE DEF More
  <2>1. \A k \in 0..n : k # 0 => k \in 1..n
    BY <1>1
  <2> QED BY <1>4, <1>5, <2>1 DEF Iterates
<1>7. list = [k \in 0..n |-> IF k = 0 THEN g ELSE More(list[k - 1], k)]
  <2> HIDE DEF More
  <2> QED BY <1>6
<1>8. AddEdges(g, rs, es) = list[n]
  BY DEF AddEdges
<1> HIDE DEF list
<1>9. list[0] = g /\ \A k \in 1..n : list[k] = More(list[k - 1], k)
  <2> HIDE DEF More
  <2>1. 0 \in 0..n /\ \A k \in 1..n : k \in 0..n /\ k # 0
    BY <1>1
  <2> QED BY <1>7, <2>1
<1>10. list \in [0..n -> LinkGraphs]
  <2> DEFINE G == {k \in 0..n : list[k] \in LinkGraphs}
  <2>1. 0 \in G
    <3>1. 0 \in 0..n
      BY <1>1
    <3> QED BY <1>9, <3>1
  <2>2. ASSUME NEW k \in 1..n, k - 1 \in G PROVE k \in G
    <3> HIDE DEF More
    <3> QED BY <1>2, <1>9, <2>2
  <2> HIDE DEF G
  <2>3. \A k \in 0..n : k \in G
    BY <1>1, <2>1, <2>2, InductionUpTo
  <2>4. \A k \in 0..n : list[k] \in LinkGraphs
    BY <2>3 DEF G
  <2> HIDE DEF More
  <2> QED BY <1>7, <2>4
<1> QED BY <1>8, <1>9, <1>10

LEMMA AddEdgesFit ==
  ASSUME NEW g \in LinkGraphs, NEW rs \in Redirects, NEW S, NEW es \in Seq(S),
         \A e \in S : e.from \in Page /\ e.to \in Page
  PROVE  AddEdges(g, rs, es) \in LinkGraphs
<1>1. PICK f \in [0..Len(es) -> LinkGraphs] : AddEdges(g, rs, es) = f[Len(es)]
  BY AddEdgesIs
<1>2. Len(es) \in 0..Len(es)
  OBVIOUS
<1> QED BY <1>1, <1>2

(* A snapshot that is loaded: after k edges, h has the first k edges of g. *)
Copies(h, g, k) ==
  /\ h.nodes = g.nodes /\ Len(h.edges) = k
  /\ \A i \in 1..k : h.edges[i].from = g.edges[i].from /\ h.edges[i].to = g.edges[i].to

LEMMA ReloadedEdge ==
  ASSUME NEW g \in LinkGraphs, NEW h \in LinkGraphs, NEW k \in 1..Len(g.edges), Copies(h, g, k - 1)
  PROVE  Copies(AddEdge(h, NoRedirects, g.edges[k].from, g.edges[k].to), g, k)
<1> DEFINE s == g.edges[k].from
           t == g.edges[k].to
           g1 == WithNode(h, s)
           g2 == WithNode(g1, t)
           w == AddEdge(h, NoRedirects, s, t)
<1>1. /\ Len(g.edges) \in Nat /\ DOMAIN g.edges = 1..Len(g.edges) /\ k \in DOMAIN g.edges /\ k - 1 \in Nat
      /\ DOMAIN h.edges = 1..(k - 1)
      /\ g \in GraphRecord /\ EdgesFit(g) /\ SizesFit(g) /\ EdgesFit(h) /\ MapsFit(h)
  <2>1. g.edges \in Seq(GraphEdge) /\ h.edges \in Seq(GraphEdge) /\ Len(h.edges) = k - 1
    BY DEF LinkGraphs, GraphRecord, Copies
  <2>2. g \in GraphRecord /\ EdgesFit(g) /\ SizesFit(g) /\ EdgesFit(h) /\ MapsFit(h)
    BY DEF LinkGraphs
  <2> QED BY <2>1, <2>2
<1>2. s \in g.nodes /\ t \in g.nodes /\ s \in Page /\ t \in Page /\ t \in g.out[s] /\ (s = t => AllowSelfLoops)
  BY <1>1 DEF EdgesFit, GraphRecord
<1>3. /\ h.nodes = g.nodes /\ Len(h.edges) = k - 1
      /\ \A i \in 1..(k - 1) : i \in DOMAIN g.edges /\ i # k
                               /\ h.edges[i].from = g.edges[i].from /\ h.edges[i].to = g.edges[i].to
  BY <1>1 DEF Copies
<1>4. \A i \in 1..(k - 1) : ~(h.edges[i].from = s /\ h.edges[i].to = t)
  BY <1>1, <1>3 DEF EdgesFit
<1>5. Cardinality(h.out[s]) < MaxOut
  <2>1. h.out[s] \subseteq (g.out[s] \ {t})
    <3> SUFFICES ASSUME NEW x \in h.out[s] PROVE x \in g.out[s] /\ x # t
      OBVIOUS
    <3>1. x \in Page
      BY <1>2 DEF LinkGraphs, GraphRecord
    <3>2. PICK i \in DOMAIN h.edges : h.edges[i].from = s /\ h.edges[i].to = x
      BY <1>1, <1>2, <3>1 DEF MapsFit
    <3>3. i \in 1..(k - 1) /\ i \in DOMAIN g.edges /\ g.edges[i].from = s /\ g.edges[i].to = x
      BY <1>1, <1>3, <3>2
    <3>4. g.edges[i].to \in g.out[g.edges[i].from]
      BY <1>1, <3>3 DEF EdgesFit
    <3>5. x # t
      BY <1>4, <3>2, <3>3
    <3> HIDE DEF s, t
    <3> QED BY <3>3, <3>4, <3>5
  <2>2. IsFiniteSet(g.out[s]) /\ Cardinality(g.out[s]) \in Nat
    BY <1>2, NeighboursAreFinite
  <2>3. /\ IsFiniteSet(g.out[s] \ {t}) /\ Cardinality(g.out[s] \ {t}) = Cardinality(g.out[s]) - 1
    BY <1>2, <2>2, FS_RemoveElement
  <2>4. Cardinality(h.out[s]) <= Cardinality(g.out[s] \ {t})
    BY <2>1, <2>3, FS_Subset
  <2>5. Cardinality(h.out[s]) \in Nat
    BY <1>2, NeighboursAreFinite
  <2>6. Cardinality(g.out[s]) <= MaxOut
    <3>1. g.outDeg[s] = Cardinality(g.out[s]) /\ g.outDeg[s] <= MaxOut
      BY <1>1, <1>2 DEF SizesFit
    <3> QED BY <3>1
  <2> QED BY <2>2, <2>3, <2>4, <2>5, <2>6, GraphConstants
<1>6. Resolved(NoRedirects, s) = s /\ Resolved(NoRedirects, t) = t
  BY <1>2, NothingRedirected
<1>7. HasRoom(h, s)
  BY <1>2, <1>3 DEF HasRoom
<1> HIDE DEF s, t
<1>8. /\ g1 \in LinkGraphs /\ g1.nodes = h.nodes /\ g1.edges = h.edges /\ g1.out = h.out
  <2>1. h.nodes \cup {s} = h.nodes
    BY <1>2, <1>3
  <2> QED BY <1>2, <1>7, <2>1, WithNodeFits
<1>9. HasRoom(g1, t)
  BY <1>2, <1>3, <1>8 DEF HasRoom
<1>10. /\ g2 \in LinkGraphs /\ g2.nodes = h.nodes /\ g2.edges = h.edges /\ g2.out = h.out
  <2> HIDE DEF g1
  <2>1. g1.nodes \cup {t} = g1.nodes
    BY <1>2, <1>3, <1>8
  <2> QED BY <1>2, <1>8, <1>9, <2>1, WithNodeFits
<1>11. w = WithEdge(g2, s, t)
  <2>1. ~(s = t /\ ~AllowSelfLoops)
    BY <1>2
  <2>2. ~(Cardinality(g1.out[s]) >= MaxOut)
    <3>1. Cardinality(h.out[s]) \in Nat
      BY <1>2, NeighboursAreFinite
    <3> QED BY <1>5, <1>8, <3>1, GraphConstants
  <2> HIDE DEF g1
  <2>3. ~(~HasRoom(h, s) \/ Cardinality(g1.out[s]) >= MaxOut \/ ~HasRoom(g1, t))
    BY <1>7, <1>9, <2>2
  <2> QED BY <1>6, <2>1, <2>3 DEF AddEdge, g1
<1> HIDE DEF g1, g2, w
<1>12. EdgeIndex(g2, s, t) = {}
  BY <1>1, <1>4, <1>10 DEF EdgeIndex
<1>13. w.nodes = g2.nodes /\ IsNewEdge(w, g2, s, t)
  BY <1>2, <1>3, <1>5, <1>10, <1>11, <1>12, NewEdgeFits
<1>14. /\ Len(w.edges) = k /\ w.edges[k].from = s /\ w.edges[k].to = t
       /\ \A i \in 1..(k - 1) : w.edges[i].from = h.edges[i].from /\ w.edges[i].to = h.edges[i].to
  <2>1. Len(g2.edges) = k - 1 /\ (k - 1) + 1 = k /\ DOMAIN g2.edges = 1..(k - 1)
    BY <1>1, <1>3, <1>10
  <2>2. /\ Len(w.edges) = Len(g2.edges) + 1
        /\ \A i \in DOMAIN g2.edges : w.edges[i].from = g2.edges[i].from /\ w.edges[i].to = g2.edges[i].to
        /\ w.edges[Len(g2.edges) + 1].from = s /\ w.edges[Len(g2.edges) + 1].to = t
    BY <1>13 DEF IsNewEdge
  <2> QED BY <1>10, <2>1, <2>2
<1>15. \A i \in 1..k : i = k \/ i \in 1..(k - 1)
  BY <1>1
<1>16. \A i \in 1..k : w.edges[i].from = g.edges[i].from /\ w.edges[i].to = g.edges[i].to
  BY <1>3, <1>14, <1>15 DEF s, t
<1>17. Copies(w, g, k)
  BY <1>3, <1>10, <1>13, <1>14, <1>16 DEF Copies
<1> QED BY <1>17 DEF w, s, t

LEMMA ReloadedIs ==
  ASSUME NEW g \in LinkGraphs
  PROVE  Reloaded(g) \in LinkGraphs /\ Copies(Reloaded(g), g, Len(g.edges))
<1> DEFINE bare == [NoGraph EXCEPT !.nodes = g.nodes]
           n == Len(g.edges)
<1>1. g.nodes \in SUBSET Page /\ IsFiniteSet(g.nodes) /\ Cardinality(g.nodes) <= MaxNodes
  BY DEF LinkGraphs, GraphRecord, SizesFit
<1>2. bare \in LinkGraphs /\ bare.nodes = g.nodes /\ bare.edges = <<>>
  BY <1>1, BareGraphFits
<1>3. g.edges \in Seq(GraphEdge) /\ n \in Nat /\ \A e \in GraphEdge : e.from \in Page /\ e.to \in Page
  BY DEF LinkGraphs, GraphRecord, GraphEdge
<1> HIDE DEF bare
<1>4. PICK f \in [0..n -> LinkGraphs] :
        /\ f[0] = bare /\ \A k \in 1..n : f[k] = AddEdge(f[k - 1], NoRedirects, g.edges[k].from, g.edges[k].to)
        /\ AddEdges(bare, NoRedirects, g.edges) = f[n]
  <2>1. NoRedirects \in Redirects
    BY NothingRedirected
  <2>2. g.edges \in Seq(GraphEdge)
    BY <1>3
  <2>3. \A e \in GraphEdge : e.from \in Page /\ e.to \in Page
    BY <1>3
  <2>4. bare \in LinkGraphs
    BY <1>2
  <2> QED BY <2>1, <2>2, <2>3, <2>4, AddEdgesIs
<1> DEFINE G == {k \in 0..n : Copies(f[k], g, k)}
<1> HIDE DEF n
<1>5. 0 \in G
  <2>1. Len(<<>>) = 0 /\ 1..0 = {} /\ 0 \in 0..n
    BY <1>3
  <2> QED BY <1>2, <1>4, <2>1 DEF Copies
<1>6. ASSUME NEW k \in 1..n, k - 1 \in G PROVE k \in G
  <2>1. k - 1 \in 0..n /\ k \in 0..n /\ f[k - 1] \in LinkGraphs /\ Copies(f[k - 1], g, k - 1)
    BY <1>3, <1>6
  <2>2. Copies(AddEdge(f[k - 1], NoRedirects, g.edges[k].from, g.edges[k].to), g, k)
    BY <2>1, ReloadedEdge DEF n
  <2> QED BY <1>4, <2>1, <2>2
<1> HIDE DEF G
<1>7. \A k \in 0..n : k \in G
  BY <1>3, <1>5, <1>6, InductionUpTo
<1>8. n \in G
  BY <1>3, <1>7
<1>9. Reloaded(g) = f[n]
  BY <1>4 DEF Reloaded, bare
<1>10. f[n] \in LinkGraphs /\ Copies(f[n], g, n)
  BY <1>3, <1>8 DEF G
<1> QED BY <1>9, <1>10 DEF n

(* The edges tell of everything else. *)
LEMMA SameEdgesSameMaps ==
  ASSUME NEW g \in LinkGraphs, NEW h \in LinkGraphs, Copies(h, g, Len(g.edges))
  PROVE  /\ h.nodes = g.nodes /\ h.out = g.out /\ h.back = g.back
         /\ h.outDeg = g.outDeg /\ h.inDeg = g.inDeg
<1>1. /\ g \in GraphRecord /\ EdgesFit(g) /\ MapsFit(g) /\ SizesFit(g)
      /\ h \in GraphRecord /\ EdgesFit(h) /\ MapsFit(h) /\ SizesFit(h)
  BY DEF LinkGraphs
<1>2. /\ DOMAIN g.edges = DOMAIN h.edges /\ h.nodes = g.nodes
      /\ \A i \in DOMAIN g.edges : h.edges[i].from = g.edges[i].from /\ h.edges[i].to = g.edges[i].to
  <2>1. g.edges \in Seq(GraphEdge) /\ h.edges \in Seq(GraphEdge)
    BY <1>1 DEF GraphRecord
  <2> QED BY <2>1 DEF Copies
<1>3. \A s, t \in Page : (t \in h.out[s] <=> t \in g.out[s]) /\ (s \in h.back[t] <=> s \in g.back[t])
  <2> SUFFICES ASSUME NEW s \in Page, NEW t \in Page
               PROVE  (t \in h.out[s] <=> t \in g.out[s]) /\ (s \in h.back[t] <=> s \in g.back[t])
    OBVIOUS
  <2>1. t \in h.out[s] \/ s \in h.back[t] => t \in g.out[s] /\ s \in g.back[t]
    <3> SUFFICES ASSUME t \in h.out[s] \/ s \in h.back[t] PROVE t \in g.out[s] /\ s \in g.back[t]
      OBVIOUS
    <3>1. PICK i \in DOMAIN h.edges : h.edges[i].from = s /\ h.edges[i].to = t
      BY <1>1 DEF MapsFit
    <3> QED BY <1>1, <1>2, <3>1 DEF EdgesFit
  <2>2. t \in g.out[s] \/ s \in g.back[t] => t \in h.out[s] /\ s \in h.back[t]
    <3> SUFFICES ASSUME t \in g.out[s] \/ s \in g.back[t] PROVE t \in h.out[s] /\ s \in h.back[t]
      OBVIOUS
    <3>1. PICK i \in DOMAIN g.edges : g.edges[i].from = s /\ g.edges[i].to = t
      BY <1>1 DEF MapsFit
    <3> QED BY <1>1, <1>2, <3>1 DEF EdgesFit
  <2> QED BY <2>1, <2>2
<1>4. /\ h.out \in [Page -> SUBSET Page] /\ g.out \in [Page -> SUBSET Page]
      /\ h.back \in [Page -> SUBSET Page] /\ g.back \in [Page -> SUBSET Page]
      /\ h.outDeg \in [Page -> Nat] /\ g.outDeg \in [Page -> Nat]
      /\ h.inDeg \in [Page -> Nat] /\ g.inDeg \in [Page -> Nat]
  BY <1>1 DEF GraphRecord
<1>5. \A p \in Page : h.out[p] = g.out[p] /\ h.back[p] = g.back[p]
  BY <1>3, <1>4
<1>6. \A p \in Page : h.outDeg[p] = g.outDeg[p] /\ h.inDeg[p] = g.inDeg[p]
  BY <1>1, <1>5 DEF SizesFit
<1> QED BY <1>2, <1>4, <1>5, <1>6

LEMMA LinksInitInvariant == GraphInit => LinksInv
<1> SUFFICES ASSUME GraphInit PROVE LinksInv
  OBVIOUS
<1>1. graph = NoGraph /\ redirects = [p \in Page |-> ""] /\ ingested = 0 /\ byHand = FALSE
  BY DEF GraphInit
<1>2. NoGraph \in LinkGraphs
  <2>1. IsFiniteSet({}) /\ Cardinality({}) = 0
    BY FS_EmptySet
  <2>2. {} \in SUBSET Page /\ Cardinality({}) <= MaxNodes
    BY <2>1, GraphConstants
  <2>3. [NoGraph EXCEPT !.nodes = {}] \in LinkGraphs
    BY <2>1, <2>2, BareGraphFits
  <2>4. ASSUME NEW g, g = NoGraph PROVE [g EXCEPT !.nodes = g.nodes] = g
    <3>1. g \in GraphRecord
      BY <2>4, <2>2 DEF NoGraph, GraphRecord
    <3> QED BY <3>1 DEF GraphRecord
  <2>5. NoGraph.nodes = {}
    BY DEF NoGraph
  <2>6. [NoGraph EXCEPT !.nodes = {}] = NoGraph
    BY <2>4, <2>5
  <2> QED BY <2>3, <2>6
<1>3. \E r \in [Page -> 0..0] : Falls(r, redirects)
  <2>1. [p \in Page |-> 0] \in [Page -> 0..0]
    OBVIOUS
  <2>2. Falls([p \in Page |-> 0], redirects)
    BY <1>1 DEF Falls
  <2> QED BY <2>1, <2>2
<1>4. redirects \in [Page -> Page \cup {""}]
  BY <1>1
<1>5. ingested \in 0..MaxIngested /\ byHand \in BOOLEAN
  <2>1. 0 \in 0..MaxIngested
    BY GraphConstants
  <2> QED BY <1>1, <2>1
<1> QED BY <1>1, <1>2, <1>3, <1>4, <1>5 DEF LinksInv

LEMMA DocumentFits ==
  ASSUME LinksInv, NEW url \in Page, NEW canonical \in Page, NEW links \in LinkLists,
         AddLinksOfDocument(url, canonical, links)
  PROVE  LinksInv'
<1> DEFINE source == Source(url, canonical)
           rs == Redirected(redirects, url, source)
           es == [i \in DOMAIN links |-> [from |-> source, to |-> links[i]]]
           Links == [from : Page, to : Page]
<1>1. /\ graph \in LinkGraphs /\ redirects \in Redirects /\ ingested \in 0..MaxIngested /\ byHand \in BOOLEAN
      /\ ~byHand /\ ingested <= MaxHops => \E r \in [Page -> 0..ingested] : Falls(r, redirects)
  BY DEF LinksInv, Redirects
<1>2. /\ ingested < MaxIngested /\ ingested' = ingested + 1 /\ redirects' = rs /\ byHand' = byHand
      /\ graph' = IF ~HasRoom(graph, source) THEN graph ELSE AddEdges(WithNode(graph, source), rs, es)
  BY DEF AddLinksOfDocument
<1>3. source \in Page /\ source = Resolved(redirects, canonical)
  BY <1>1, ResolvedIsAPage DEF Source
<1> HIDE DEF source
<1>4. rs \in Redirects
  BY <1>1, <1>3, RedirectedIs
<1>5. es \in Seq(Links) /\ \A e \in Links : e.from \in Page /\ e.to \in Page
  <2>1. links \in Seq(Page)
    BY GraphAssumption
  <2>2. DOMAIN links = 1..Len(links) /\ Len(links) \in Nat /\ \A i \in 1..Len(links) : links[i] \in Page
    BY <2>1
  <2>3. es \in [1..Len(links) -> Links]
    BY <1>3, <2>2
  <2> HIDE DEF es, Links
  <2>4. es \in Seq(Links)
    BY <2>2, <2>3
  <2> QED BY <2>4 DEF Links
<1> HIDE DEF rs, es
<1>6. graph' \in LinkGraphs
  <2>1. WithNode(graph, source) \in LinkGraphs
    BY <1>1, <1>3, WithNodeFits
  <2>2. \A e \in Links : e.from \in Page /\ e.to \in Page
    BY <1>5
  <2>3. es \in Seq(Links)
    BY <1>5
  <2> HIDE DEF Links
  <2>4. AddEdges(WithNode(graph, source), rs, es) \in LinkGraphs
    BY <1>4, <2>1, <2>2, <2>3, AddEdgesFit
  <2> QED BY <1>1, <1>2, <2>4
<1>7. ingested \in Nat /\ ingested + 1 \in 0..MaxIngested /\ (ingested + 1 <= MaxHops => ingested <= MaxHops)
  BY <1>1, <1>2, GraphConstants
<1>8. ASSUME ~byHand, ingested + 1 <= MaxHops
      PROVE  \E r \in [Page -> 0..(ingested + 1)] : Falls(r, rs)
  <2>1. PICK r \in [Page -> 0..ingested] : Falls(r, redirects)
    BY <1>1, <1>7, <1>8
  <2>2. ingested <= MaxHops
    BY <1>7, <1>8
  <2>3. redirects[source] = ""
    BY <1>1, <1>3, <1>7, <2>1, <2>2, ResolvedIsTheEnd
  <2>4. IsEnd(redirects, source)
    BY <2>3 DEF IsEnd
  <2> QED BY <1>1, <1>3, <1>7, <2>1, <2>4, RedirectedFalls DEF rs
<1>9. redirects' \in [Page -> Page \cup {""}]
  BY <1>2, <1>4 DEF Redirects
<1>10. ~byHand' /\ ingested' <= MaxHops => \E r \in [Page -> 0..ingested'] : Falls(r, redirects')
  BY <1>2, <1>8
<1>11. ingested' \in 0..MaxIngested /\ byHand' \in BOOLEAN
  BY <1>1, <1>2, <1>7
<1> QED BY <1>6, <1>9, <1>10, <1>11 DEF LinksInv

LEMMA LinksNextStep == LinksInv /\ [GraphNext]_graphVars => LinksInv'
<1> SUFFICES ASSUME LinksInv, [GraphNext]_graphVars PROVE LinksInv'
  OBVIOUS
<1>1. /\ graph \in LinkGraphs /\ redirects \in Redirects /\ ingested \in 0..MaxIngested /\ byHand \in BOOLEAN
      /\ ~byHand /\ ingested <= MaxHops => \E r \in [Page -> 0..ingested] : Falls(r, redirects)
  BY DEF LinksInv, Redirects
<1>2. CASE UNCHANGED graphVars
  <2>1. graph' = graph /\ redirects' = redirects /\ ingested' = ingested /\ byHand' = byHand
    BY <1>2 DEF graphVars
  <2> QED BY <1>1, <2>1 DEF LinksInv, Redirects
<1>3. CASE ReloadGraph
  <2>1. graph' = Reloaded(graph) /\ redirects' = NoRedirects /\ ingested' = ingested /\ byHand' = byHand
    BY <1>3 DEF ReloadGraph
  <2>2. graph' \in LinkGraphs
    BY <1>1, <2>1, ReloadedIs
  <2>3. redirects' \in [Page -> Page \cup {""}]
    BY <2>1, NothingRedirected DEF Redirects
  <2>4. \E r \in [Page -> 0..ingested'] : Falls(r, redirects')
    <3>1. [p \in Page |-> 0] \in [Page -> 0..ingested]
      BY <1>1, GraphConstants
    <3>2. Falls([p \in Page |-> 0], NoRedirects)
      BY DEF Falls, NoRedirects
    <3> QED BY <2>1, <3>1, <3>2
  <2> QED BY <1>1, <2>1, <2>2, <2>3, <2>4 DEF LinksInv
<1>4. ASSUME NEW p \in Page, NEW q \in Page, RegisterRedirect(p, q) PROVE LinksInv'
  <2>1. /\ ingested < MaxIngested /\ ingested' = ingested + 1 /\ byHand' = TRUE /\ graph' = graph
        /\ redirects' = Redirected(redirects, p, q)
    BY <1>4 DEF RegisterRedirect
  <2>2. redirects' \in [Page -> Page \cup {""}]
    BY <1>1, <2>1, RedirectedIs DEF Redirects
  <2>3. ingested' \in 0..MaxIngested
    BY <1>1, <2>1, GraphConstants
  <2> QED BY <1>1, <2>1, <2>2, <2>3 DEF LinksInv
<1>5. ASSUME NEW p \in Page, NEW q \in Page, NEW links \in LinkLists, AddLinksOfDocument(p, q, links)
      PROVE  LinksInv'
  BY <1>5, DocumentFits
<1> QED BY <1>2, <1>3, <1>4, <1>5 DEF GraphNext

LEMMA EdgesAreCounted ==
  ASSUME NEW g \in LinkGraphs
  PROVE  Cardinality(EdgeSet(g)) = Len(g.edges)
<1> DEFINE n == Len(g.edges)
           f == [i \in 1..n |-> <<g.edges[i].from, g.edges[i].to>>]
<1>1. g.edges \in Seq(GraphEdge) /\ EdgesFit(g)
  BY DEF LinkGraphs, GraphRecord
<1>2. n \in Nat /\ DOMAIN g.edges = 1..n
  BY <1>1
<1>3. /\ f \in [1..n -> EdgeSet(g)] /\ \A e \in EdgeSet(g) : \E i \in 1..n : f[i] = e
      /\ \A i, j \in 1..n : f[i] = f[j] => i = j
  <2>1. \A i \in 1..n : f[i] = <<g.edges[i].from, g.edges[i].to>>
    OBVIOUS
  <2>2. \A e \in EdgeSet(g) : \E i \in 1..n : f[i] = e
    BY <1>2, <2>1 DEF EdgeSet
  <2>3. f \in [1..n -> EdgeSet(g)]
    BY <1>2 DEF EdgeSet
  <2>4. ASSUME NEW i \in 1..n, NEW j \in 1..n, f[i] = f[j] PROVE i = j
    <3>1. g.edges[i].from = g.edges[j].from /\ g.edges[i].to = g.edges[j].to
      BY <2>1, <2>4
    <3> QED BY <1>1, <1>2, <3>1 DEF EdgesFit
  <2> QED BY <2>2, <2>3, <2>4
<1> HIDE DEF f
<1>4. f \in Bijection(1..n, EdgeSet(g))
  BY <1>3 DEF Bijection, Injection, Surjection, IsInjective
<1>5. IsFiniteSet(1..n) /\ Cardinality(1..n) = n
  BY <1>2, FS_Interval
<1>6. ExistsBijection(1..n, EdgeSet(g))
  BY <1>4 DEF ExistsBijection
<1> HIDE DEF n
<1>7. Cardinality(EdgeSet(g)) = n
  BY <1>5, <1>6, FS_Bijection
<1> QED BY <1>7 DEF n

LEMMA LinksProperties ==
  LinksInv => GraphTypeOK /\ GraphAgrees /\ RedirectsEnd /\ ReloadKeepsTopology
<1> SUFFICES ASSUME LinksInv PROVE GraphTypeOK /\ GraphAgrees /\ RedirectsEnd /\ ReloadKeepsTopology
  OBVIOUS
<1>1. /\ graph \in LinkGraphs /\ redirects \in Redirects /\ ingested \in 0..MaxIngested /\ byHand \in BOOLEAN
      /\ ~byHand /\ ingested <= MaxHops => \E r \in [Page -> 0..ingested] : Falls(r, redirects)
  BY DEF LinksInv, Redirects
<1>2. /\ graph \in GraphRecord /\ EdgesFit(graph) /\ MapsFit(graph) /\ SizesFit(graph)
      /\ graph.edges \in Seq(GraphEdge)
  BY <1>1 DEF LinkGraphs, GraphRecord
<1>3. GraphTypeOK
  <2>1. graph.nodes \subseteq Page /\ Cardinality(graph.nodes) <= MaxNodes
    BY <1>2 DEF GraphRecord, SizesFit
  <2>2. graph.out \in [Page -> SUBSET Page] /\ graph.back \in [Page -> SUBSET Page]
        /\ graph.inDeg \in [Page -> Nat] /\ graph.outDeg \in [Page -> Nat]
    BY <1>2 DEF GraphRecord
  <2>3. ASSUME NEW p \in Page PROVE graph.inDeg[p] \in 0..MaxNodes /\ graph.outDeg[p] \in 0..MaxOut
    <3>1. graph.back[p] \subseteq graph.nodes /\ IsFiniteSet(graph.nodes) /\ Cardinality(graph.nodes) \in Nat
      BY <1>1, NeighboursAreFinite
    <3>2. Cardinality(graph.back[p]) <= Cardinality(graph.nodes)
      BY <3>1, FS_Subset
    <3>3. graph.inDeg[p] = Cardinality(graph.back[p]) /\ graph.outDeg[p] <= MaxOut
      BY <1>2 DEF SizesFit
    <3>4. graph.inDeg[p] \in Nat /\ graph.outDeg[p] \in Nat
      BY <2>2
    <3> QED BY <2>1, <3>1, <3>2, <3>3, <3>4, GraphConstants
  <2>4. graph.inDeg \in [Page -> 0..MaxNodes] /\ graph.outDeg \in [Page -> 0..MaxOut]
    BY <2>2, <2>3
  <2>5. \A i \in DOMAIN graph.edges : graph.edges[i] \in [from : Page, to : Page, count : Nat \ {0}]
    <3>1. \A i \in DOMAIN graph.edges : graph.edges[i] \in GraphEdge
      BY <1>2
    <3> QED BY <3>1 DEF GraphEdge
  <2> QED BY <1>1, <2>1, <2>2, <2>4, <2>5 DEF GraphTypeOK, Redirects
<1>4. GraphAgrees
  <2>1. \A i \in DOMAIN graph.edges :
          /\ graph.edges[i].from \in graph.nodes /\ graph.edges[i].to \in graph.nodes
          /\ graph.edges[i].from \in Page /\ graph.edges[i].to \in Page
          /\ graph.edges[i].to \in graph.out[graph.edges[i].from]
          /\ graph.edges[i].from \in graph.back[graph.edges[i].to]
    BY <1>2 DEF EdgesFit, GraphRecord
  <2>2. ASSUME NEW e \in EdgeSet(graph)
        PROVE  /\ e \in Page \X Page /\ e \in graph.nodes \X graph.nodes
               /\ e[2] \in graph.out[e[1]] /\ e[1] \in graph.back[e[2]]
    <3>1. PICK i \in DOMAIN graph.edges : e = <<graph.edges[i].from, graph.edges[i].to>>
      BY DEF EdgeSet
    <3>2. e[1] = graph.edges[i].from /\ e[2] = graph.edges[i].to
      BY <3>1
    <3> QED BY <2>1, <3>1, <3>2
  <2>3. ASSUME NEW e \in Page \X Page, e[2] \in graph.out[e[1]] \/ e[1] \in graph.back[e[2]]
        PROVE  e \in EdgeSet(graph)
    <3>1. e[1] \in Page /\ e[2] \in Page /\ e = <<e[1], e[2]>>
      OBVIOUS
    <3>2. PICK i \in DOMAIN graph.edges : graph.edges[i].from = e[1] /\ graph.edges[i].to = e[2]
      BY <1>2, <2>3, <3>1 DEF MapsFit
    <3> QED BY <3>1, <3>2 DEF EdgeSet
  <2>4. EdgeSet(graph) = {e \in Page \X Page : e[2] \in graph.out[e[1]]}
    BY <2>2, <2>3
  <2>5. EdgeSet(graph) = {e \in Page \X Page : e[1] \in graph.back[e[2]]}
    BY <2>2, <2>3
  <2>6. EdgeSet(graph) \subseteq graph.nodes \X graph.nodes
    BY <2>2
  <2>7. Cardinality(EdgeSet(graph)) = Len(graph.edges)
    BY <1>1, EdgesAreCounted
  <2>8. \A p \in Page : /\ graph.outDeg[p] = Cardinality(graph.out[p])
                        /\ graph.inDeg[p] = Cardinality(graph.back[p])
    BY <1>2 DEF SizesFit
  <2> QED BY <2>4, <2>5, <2>6, <2>7, <2>8 DEF GraphAgrees
<1>5. RedirectsEnd
  <2> SUFFICES ASSUME ~byHand, ingested <= MaxHops, NEW p \in Page
               PROVE  redirects[Resolved(redirects, p)] = ""
    BY DEF RedirectsEnd
  <2>1. PICK r \in [Page -> 0..ingested] : Falls(r, redirects)
    BY <1>1
  <2>2. ingested \in Nat
    BY <1>1, GraphConstants
  <2> QED BY <1>1, <2>1, <2>2, ResolvedIsTheEnd
<1>6. ReloadKeepsTopology
  BY <1>1, ReloadedIs, SameEdgesSameMaps DEF ReloadKeepsTopology
<1> QED BY <1>3, <1>4, <1>5, <1>6

(***************************************************************************)
(* The rule editor of a lens and the registry.  A draft that did not come  *)
(* from outside names every pattern in one rule only; so the rule that was *)
(* accepted last is the only one of its pattern, and nothing else can      *)
(* decide for the hosts that no other rule matches.                        *)
(***************************************************************************)
OncePerPattern(list) ==
  \A i, j \in 1..Len(list) : list[i].pattern = list[j].pattern => i = j

RulesApart(l) ==
  /\ OncePerPattern(l.boosts) /\ OncePerPattern(l.demotes)
  /\ PatternsOf(l.boosts) \cap PatternsOf(l.demotes) = {}
  /\ PatternsOf(l.boosts) \cap l.excludes = {} /\ PatternsOf(l.demotes) \cap l.excludes = {}

\* the list has the pattern, with that multiplier and no other
SetTo(list, p, m) ==
  p \in PatternsOf(list) /\ \A r \in ToSet(list) : r.pattern = p => r.multiplier = m

AnswerStands ==
  answer # NoAnswer /\ answer.valid /\ ~foreign =>
    /\ answer.op = "boost" => /\ SetTo(draft.boosts, answer.pattern, answer.multiplier)
                              /\ InBoostBounds(answer.multiplier)
    /\ answer.op = "demote" => /\ SetTo(draft.demotes, answer.pattern, answer.multiplier)
                               /\ InDemoteBounds(answer.multiplier)
    /\ answer.op = "exclude" => answer.pattern \in draft.excludes /\ answer.multiplier = 0

SafeProfile(l) == ValidProfile(l) /\ (l.health => l.disclaimer)

LensInv ==
  /\ FocusLensTypeOK
  /\ \A id \in CustomId : customs[id] # NoLens => SafeProfile(customs[id])
  /\ ~foreign => RulesApart(draft)
  /\ AnswerStands

LEMMA ProfileFields ==
  ASSUME NEW l \in Profile
  PROVE  /\ l.id \in BuiltinId \cup CustomId /\ l.health \in BOOLEAN /\ l.disclaimer \in BOOLEAN
         /\ l.boosts \in Seq(LensRule) /\ l.demotes \in Seq(LensRule) /\ l.excludes \in SUBSET LensPattern
BY DEF Profile

LEMMA NoRulesAtAll ==
  /\ <<>> \in Seq(LensRule) /\ ToSet(<<>>) = {} /\ PatternsOf(<<>>) = {} /\ OncePerPattern(<<>>)
  /\ Len(<<>>) = 0
<1>1. <<>> \in Seq(LensRule) /\ Len(<<>>) = 0 /\ DOMAIN <<>> = {} /\ 1..0 = {}
  OBVIOUS
<1>2. ToSet(<<>>) = {}
  BY <1>1 DEF ToSet
<1> QED BY <1>1, <1>2 DEF PatternsOf, OncePerPattern

LEMMA GeneralIs ==
  /\ GeneralLens \in Profile /\ RulesApart(GeneralLens) /\ SafeProfile(GeneralLens)
  /\ FreshDraft \in Profile /\ RulesApart(FreshDraft)
<1>1. /\ GeneralLens.id = "general" /\ GeneralLens.boosts = <<>> /\ GeneralLens.demotes = <<>>
      /\ GeneralLens.excludes = {} /\ GeneralLens.health = FALSE
  BY DEF GeneralLens
<1>2. /\ FreshDraft.boosts = <<>> /\ FreshDraft.demotes = <<>> /\ FreshDraft.excludes = {}
  BY DEF FreshDraft, GeneralLens
<1>3. GeneralLens \in Profile
  BY NoRulesAtAll, LensAssumption DEF GeneralLens, Profile
<1>4. FreshDraft \in Profile
  <2>1. "custom-lens" \in BuiltinId \cup CustomId
    BY EditorAssumption
  <2> HIDE DEF GeneralLens
  <2> QED BY <1>3, <2>1 DEF FreshDraft, Profile
<1>5. RulesApart(GeneralLens) /\ RulesApart(FreshDraft)
  BY <1>1, <1>2, NoRulesAtAll DEF RulesApart
<1>6. ValidProfile(GeneralLens)
  <2>1. Cardinality({}) = 0
    BY FS_EmptySet
  <2>2. LensSize(GeneralLens) = 0
    BY <1>1, <2>1, NoRulesAtAll DEF LensSize
  <2> QED BY <1>1, <2>2, NoRulesAtAll, LensAssumption DEF ValidProfile
<1> QED BY <1>1, <1>3, <1>4, <1>5, <1>6 DEF SafeProfile

LEMMA LensInitInvariant == FocusLensInit => LensInv
<1> SUFFICES ASSUME FocusLensInit PROVE LensInv
  OBVIOUS
<1>1. /\ (draft = FreshDraft /\ foreign = FALSE) \/ (draft \in ForeignLens /\ foreign = TRUE)
      /\ initial = draft /\ customs = [i \in CustomId |-> NoLens] /\ edits = 0 /\ answer = NoAnswer
  BY DEF FocusLensInit
<1>2. draft \in Profile /\ (~foreign => RulesApart(draft))
  BY <1>1, GeneralIs, EditorAssumption
<1>3. customs \in [CustomId -> Profile \cup {NoLens}] /\ \A id \in CustomId : customs[id] = NoLens
  BY <1>1
<1>4. edits \in 0..MaxLensEdits /\ foreign \in BOOLEAN /\ answer \in Answer
  <2>1. edits \in 0..MaxLensEdits
    BY <1>1, EditorAssumption
  <2>2. foreign \in BOOLEAN
    BY <1>1, Zenon
  <2>3. answer \in Answer
    BY <1>1 DEF Answer
  <2> QED BY <2>1, <2>2, <2>3
<1>5. FocusLensTypeOK
  BY <1>1, <1>2, <1>3, <1>4 DEF FocusLensTypeOK
<1> QED BY <1>1, <1>2, <1>3, <1>5 DEF LensInv, AnswerStands

(* Taking a pattern out of a list. *)
LEMMA WithoutRuleIs ==
  ASSUME NEW list \in Seq(LensRule), NEW p
  PROVE  /\ WithoutRule(list, p) \in Seq(LensRule)
         /\ ToSet(WithoutRule(list, p)) = {r \in ToSet(list) : r.pattern # p}
         /\ OncePerPattern(list) => OncePerPattern(WithoutRule(list, p))
         /\ PatternsOf(WithoutRule(list, p)) = PatternsOf(list) \ {p}
<1> DEFINE w == WithoutRule(list, p)
           others == {i \in DOMAIN list : list[i].pattern # p}
<1>1. w = Chosen(list, others)
  BY DEF WithoutRule, Chosen
<1>2. DOMAIN list = 1..Len(list) /\ Len(list) \in Nat
  OBVIOUS
<1> HIDE DEF w
<1>3. w \in Seq(LensRule) /\ ChosenFrom(w, list, Len(list), others)
  BY <1>1, ChosenIs
<1>4. /\ \A a \in DOMAIN w : \E i \in 1..Len(list) : i \in others /\ w[a] = list[i]
      /\ \A i \in 1..Len(list) : i \in others => \E a \in DOMAIN w : w[a] = list[i]
      /\ \A a, b \in DOMAIN w : a < b =>
           \E i, j \in 1..Len(list) : i < j /\ i \in others /\ j \in others /\ w[a] = list[i] /\ w[b] = list[j]
  BY <1>3, Zenon DEF ChosenFrom
<1>5. ToSet(w) = {r \in ToSet(list) : r.pattern # p}
  <2>1. ASSUME NEW r \in ToSet(w) PROVE r \in ToSet(list) /\ r.pattern # p
    <3>1. PICK a \in DOMAIN w : r = w[a]
      BY DEF ToSet
    <3>2. PICK i \in 1..Len(list) : i \in others /\ w[a] = list[i]
      BY <1>4, <3>1
    <3> QED BY <1>2, <3>1, <3>2 DEF ToSet
  <2>2. ASSUME NEW r \in ToSet(list), r.pattern # p PROVE r \in ToSet(w)
    <3>1. PICK i \in 1..Len(list) : r = list[i]
      BY <1>2 DEF ToSet
    <3>2. PICK a \in DOMAIN w : w[a] = list[i]
      BY <1>2, <1>4, <2>2, <3>1
    <3> QED BY <3>1, <3>2 DEF ToSet
  <2> QED BY <2>1, <2>2
<1>6. OncePerPattern(list) => OncePerPattern(w)
  <2> SUFFICES ASSUME OncePerPattern(list) PROVE OncePerPattern(w)
    OBVIOUS
  <2>1. ASSUME NEW a \in DOMAIN w, NEW b \in DOMAIN w, a < b PROVE w[a].pattern # w[b].pattern
    <3>1. PICK i, j \in 1..Len(list) : i < j /\ w[a] = list[i] /\ w[b] = list[j]
      BY <1>4, <2>1
    <3>2. i # j
      BY <1>2, <3>1
    <3> QED BY <3>1, <3>2 DEF OncePerPattern
  <2>2. DOMAIN w = 1..Len(w) /\ Len(w) \in Nat
    BY <1>3
  <2>3. \A a, b \in 1..Len(w) : a < b \/ b < a \/ a = b
    BY <2>2
  <2> QED BY <2>1, <2>2, <2>3 DEF OncePerPattern
<1>7. PatternsOf(w) = PatternsOf(list) \ {p}
  BY <1>5 DEF PatternsOf
<1> QED BY <1>3, <1>5, <1>6, <1>7 DEF w

(* Putting a rule into a list. *)
LEMMA PutIs ==
  ASSUME NEW list \in Seq(LensRule), NEW p \in LensPattern, NEW m \in LensMultiplier
  PROVE  /\ Put(list, p, m) \in Seq(LensRule)
         /\ PatternsOf(Put(list, p, m)) = PatternsOf(list) \cup {p}
         /\ OncePerPattern(list) => OncePerPattern(Put(list, p, m)) /\ SetTo(Put(list, p, m), p, m)
<1> DEFINE n == Len(list)
           places == {i \in DOMAIN list : list[i].pattern = p}
           rule == [pattern |-> p, multiplier |-> m]
           q == Put(list, p, m)
<1>1. DOMAIN list = 1..n /\ n \in Nat /\ places \in SUBSET (1..n)
  OBVIOUS
<1>2. rule \in LensRule /\ rule.pattern = p /\ rule.multiplier = m
  BY DEF LensRule
<1>3. q = IF places = {} THEN Append(list, rule) ELSE [list EXCEPT ![Min(places)] = rule]
  BY DEF Put
<1>4. \A i \in 1..n : list[i].pattern = p <=> i \in places
  BY <1>1
<1> HIDE DEF places, rule, q
<1>5. CASE places = {}
  <2>1. q = Append(list, rule)
    BY <1>3, <1>5
  <2>2. q \in Seq(LensRule) /\ ToSet(q) = ToSet(list) \cup {rule}
    BY <1>2, <2>1, AppendElements
  <2>3. Len(q) = n + 1 /\ q[n + 1] = rule /\ \A i \in 1..n : q[i] = list[i]
    BY <1>1, <1>2, <2>1
  <2>4. \A i \in 1..(n + 1) : i \in 1..n \/ i = n + 1
    BY <1>1
  <2>5. PatternsOf(q) = PatternsOf(list) \cup {p}
    BY <1>2, <2>2 DEF PatternsOf
  <2>6. OncePerPattern(list) => OncePerPattern(q)
    BY <1>2, <1>4, <1>5, <2>3, <2>4 DEF OncePerPattern
  <2>7. SetTo(q, p, m)
    <3>1. \A r \in ToSet(list) : r.pattern # p
      BY <1>1, <1>4, <1>5 DEF ToSet
    <3> QED BY <1>2, <2>2, <2>5, <3>1 DEF SetTo
  <2> QED BY <2>2, <2>5, <2>6, <2>7 DEF q
<1>6. CASE places # {}
  <2>1. PICK k : k = Min(places)
    OBVIOUS
  <2>2. k \in places /\ k \in 1..n
    BY <1>1, <1>6, <2>1, MinOfPositions
  <2>3. q = [list EXCEPT ![k] = rule]
    BY <1>3, <1>6, <2>1
  <2>4. q \in Seq(LensRule) /\ Len(q) = n /\ DOMAIN q = 1..n
    BY <1>1, <1>2, <2>2, <2>3
  <2>5. q[k] = rule /\ \A i \in 1..n : i # k => q[i] = list[i]
    BY <1>1, <2>2, <2>3
  <2>6. \A i \in 1..n : q[i].pattern = list[i].pattern
    BY <1>2, <1>4, <2>2, <2>5
  <2>7. PatternsOf(q) = PatternsOf(list) /\ p \in PatternsOf(list)
    <3>1. PatternsOf(q) = {q[i].pattern : i \in 1..n} /\ PatternsOf(list) = {list[i].pattern : i \in 1..n}
      BY <1>1, <2>4 DEF PatternsOf, ToSet
    <3> QED BY <1>4, <2>2, <2>6, <3>1
  <2>8. OncePerPattern(list) => OncePerPattern(q)
    BY <2>4, <2>6 DEF OncePerPattern
  <2>9. OncePerPattern(list) => SetTo(q, p, m)
    <3> SUFFICES ASSUME OncePerPattern(list) PROVE SetTo(q, p, m)
      OBVIOUS
    <3>1. \A i \in 1..n : list[i].pattern = p => i = k
      BY <1>4, <2>2 DEF OncePerPattern
    <3>2. ASSUME NEW r \in ToSet(q), r.pattern = p PROVE r.multiplier = m
      <4>1. PICK i \in 1..n : r = q[i]
        BY <2>4 DEF ToSet
      <4>2. i = k
        BY <2>6, <3>1, <3>2, <4>1
      <4> QED BY <1>2, <2>5, <4>1, <4>2
    <3> QED BY <2>7, <3>2 DEF SetTo
  <2> QED BY <2>4, <2>7, <2>8, <2>9 DEF q
<1> QED BY <1>5, <1>6

LEMMA AnswerIs ==
  ASSUME NEW op \in {"boost", "demote", "exclude"}, NEW p \in LensPattern, NEW m \in LensMultiplier, NEW v \in BOOLEAN
  PROVE  [op |-> op, pattern |-> p, multiplier |-> m, valid |-> v] \in Answer
BY DEF Answer

LEMMA ValidIsBoolean == \A l : ValidProfile(l) \in BOOLEAN
BY DEF ValidProfile

(* What all calls of an editor have in common. *)
LEMMA EditFits ==
  ASSUME LensInv, Edit, UNCHANGED <<initial, customs>>,
         draft' \in Profile, foreign' \in BOOLEAN, answer' \in Answer,
         ~foreign' => RulesApart(draft'), AnswerStands'
  PROVE  LensInv'
<1>1. /\ initial' = initial /\ customs' = customs /\ edits \in 0..MaxLensEdits /\ edits < MaxLensEdits
      /\ edits' = edits + 1
  BY DEF LensInv, FocusLensTypeOK, Edit
<1>2. edits' \in 0..MaxLensEdits
  BY <1>1, EditorAssumption
<1>3. FocusLensTypeOK'
  BY <1>1, <1>2 DEF LensInv, FocusLensTypeOK
<1> QED BY <1>1, <1>3 DEF LensInv

(* A call without an answer. *)
LEMMA SilentEditFits ==
  ASSUME LensInv, Edit, UNCHANGED <<initial, customs>>, answer' = NoAnswer,
         draft' \in Profile, foreign' \in BOOLEAN, ~foreign' => RulesApart(draft')
  PROVE  LensInv'
<1>1. answer' \in Answer
  BY DEF Answer
<1>2. AnswerStands'
  BY DEF AnswerStands
<1> QED BY <1>1, <1>2, EditFits

(* A call that is refused. *)
LEMMA RefusedFits ==
  ASSUME LensInv, Edit, UNCHANGED <<initial, customs, foreign>>,
         NEW op \in {"boost", "demote", "exclude"}, NEW p \in LensPattern, NEW m \in LensMultiplier,
         Unchanged(op, p, m)
  PROVE  LensInv'
<1>1. /\ answer' = [op |-> op, pattern |-> p, multiplier |-> m, valid |-> FALSE]
      /\ draft' = draft /\ foreign' = foreign
  BY DEF Unchanged
<1>2. answer' \in Answer /\ ~answer'.valid
  <2>1. FALSE \in BOOLEAN
    OBVIOUS
  <2> QED BY <1>1, <2>1, AnswerIs
<1>3. draft' \in Profile /\ foreign' \in BOOLEAN /\ (~foreign' => RulesApart(draft'))
  BY <1>1 DEF LensInv, FocusLensTypeOK
<1>4. AnswerStands'
  BY <1>2 DEF AnswerStands
<1> QED BY <1>2, <1>3, <1>4, EditFits

LEMMA TriedIs == Tried \subseteq LensMultiplier /\ 0 \in LensMultiplier
<1>1. BoostMax \in Nat
  BY LensAssumption
<1>2. 0 \in 0..(BoostMax + 1)
  BY <1>1
<1> QED BY <1>2, EditorAssumption DEF LensMultiplier

LEMMA AddBoostStep ==
  ASSUME LensInv, NEW p \in LensPattern, NEW m \in Tried, AddBoostDomain(p, m)
  PROVE  LensInv'
<1> DEFINE b == Put(draft.boosts, p, m)
           w == WithoutRule(draft.demotes, p)
           d == [draft EXCEPT !.demotes = w, !.boosts = b]
<1>1. Edit /\ UNCHANGED <<initial, customs, foreign>> /\ m \in LensMultiplier
  BY TriedIs DEF AddBoostDomain
<1>2. /\ draft \in Profile /\ draft.boosts \in Seq(LensRule) /\ draft.demotes \in Seq(LensRule)
      /\ draft.excludes \in SUBSET LensPattern /\ foreign \in BOOLEAN
  BY ProfileFields DEF LensInv, FocusLensTypeOK
<1>3. CASE ~ValidPattern(p) \/ ~InBoostBounds(m) \/ p \in draft.excludes
  <2>1. Unchanged("boost", p, m)
    BY <1>3 DEF AddBoostDomain
  <2> QED BY <1>1, <2>1, RefusedFits
<1>4. CASE ~(~ValidPattern(p) \/ ~InBoostBounds(m) \/ p \in draft.excludes)
  <2>1. draft' = d /\ answer' = [op |-> "boost", pattern |-> p, multiplier |-> m, valid |-> ValidProfile(d)]
    BY <1>4 DEF AddBoostDomain, Answers
  <2>2. /\ b \in Seq(LensRule) /\ PatternsOf(b) = PatternsOf(draft.boosts) \cup {p}
        /\ OncePerPattern(draft.boosts) => OncePerPattern(b) /\ SetTo(b, p, m)
    BY <1>1, <1>2, PutIs
  <2>3. /\ w \in Seq(LensRule) /\ PatternsOf(w) = PatternsOf(draft.demotes) \ {p}
        /\ OncePerPattern(draft.demotes) => OncePerPattern(w)
    BY <1>2, WithoutRuleIs
  <2>4. PICK q : q = d
    OBVIOUS
  <2> HIDE DEF b, w
  <2>5. q \in Profile /\ q.boosts = b /\ q.demotes = w /\ q.excludes = draft.excludes
    BY <1>2, <2>2, <2>3, <2>4 DEF Profile
  <2> HIDE DEF d
  <2>6. draft' = q /\ answer' = [op |-> "boost", pattern |-> p, multiplier |-> m, valid |-> ValidProfile(q)]
    BY <2>1, <2>4
  <2>7. foreign' = foreign /\ p \notin draft.excludes /\ InBoostBounds(m)
    BY <1>1, <1>4
  <2>8. ~foreign => RulesApart(draft)
    BY DEF LensInv
  <2>9. ~foreign => RulesApart(q) /\ SetTo(b, p, m)
    BY <2>2, <2>3, <2>5, <2>7, <2>8 DEF RulesApart
  <2>10. answer' \in Answer
    BY <1>1, <2>6, ValidIsBoolean, AnswerIs
  <2>11. AnswerStands'
    <3>1. answer'.op = "boost" /\ answer'.pattern = p /\ answer'.multiplier = m /\ draft'.boosts = b
      BY <2>5, <2>6
    <3>2. ~foreign' => SetTo(b, p, m)
      BY <2>7, <2>9
    <3> QED BY <2>7, <3>1, <3>2 DEF AnswerStands
  <2> QED BY <1>1, <1>2, <2>5, <2>6, <2>7, <2>9, <2>10, <2>11, EditFits
<1> QED BY <1>3, <1>4

LEMMA AddDemoteStep ==
  ASSUME LensInv, NEW p \in LensPattern, NEW m \in Tried, AddDemoteDomain(p, m)
  PROVE  LensInv'
<1> DEFINE b == WithoutRule(draft.boosts, p)
           w == Put(draft.demotes, p, m)
           d == [draft EXCEPT !.boosts = b, !.demotes = w]
<1>1. Edit /\ UNCHANGED <<initial, customs, foreign>> /\ m \in LensMultiplier
  BY TriedIs DEF AddDemoteDomain
<1>2. /\ draft \in Profile /\ draft.boosts \in Seq(LensRule) /\ draft.demotes \in Seq(LensRule)
      /\ draft.excludes \in SUBSET LensPattern /\ foreign \in BOOLEAN
  BY ProfileFields DEF LensInv, FocusLensTypeOK
<1>3. CASE ~ValidPattern(p) \/ ~InDemoteBounds(m) \/ p \in draft.excludes
  <2>1. Unchanged("demote", p, m)
    BY <1>3 DEF AddDemoteDomain
  <2> QED BY <1>1, <2>1, RefusedFits
<1>4. CASE ~(~ValidPattern(p) \/ ~InDemoteBounds(m) \/ p \in draft.excludes)
  <2>1. draft' = d /\ answer' = [op |-> "demote", pattern |-> p, multiplier |-> m, valid |-> ValidProfile(d)]
    BY <1>4 DEF AddDemoteDomain, Answers
  <2>2. /\ w \in Seq(LensRule) /\ PatternsOf(w) = PatternsOf(draft.demotes) \cup {p}
        /\ OncePerPattern(draft.demotes) => OncePerPattern(w) /\ SetTo(w, p, m)
    BY <1>1, <1>2, PutIs
  <2>3. /\ b \in Seq(LensRule) /\ PatternsOf(b) = PatternsOf(draft.boosts) \ {p}
        /\ OncePerPattern(draft.boosts) => OncePerPattern(b)
    BY <1>2, WithoutRuleIs
  <2>4. PICK q : q = d
    OBVIOUS
  <2> HIDE DEF b, w
  <2>5. q \in Profile /\ q.boosts = b /\ q.demotes = w /\ q.excludes = draft.excludes
    BY <1>2, <2>2, <2>3, <2>4 DEF Profile
  <2> HIDE DEF d
  <2>6. draft' = q /\ answer' = [op |-> "demote", pattern |-> p, multiplier |-> m, valid |-> ValidProfile(q)]
    BY <2>1, <2>4
  <2>7. foreign' = foreign /\ p \notin draft.excludes /\ InDemoteBounds(m)
    BY <1>1, <1>4
  <2>8. ~foreign => RulesApart(draft)
    BY DEF LensInv
  <2>9. ~foreign => RulesApart(q) /\ SetTo(w, p, m)
    BY <2>2, <2>3, <2>5, <2>7, <2>8 DEF RulesApart
  <2>10. answer' \in Answer
    BY <1>1, <2>6, ValidIsBoolean, AnswerIs
  <2>11. AnswerStands'
    <3>1. answer'.op = "demote" /\ answer'.pattern = p /\ answer'.multiplier = m /\ draft'.demotes = w
      BY <2>5, <2>6
    <3>2. ~foreign' => SetTo(w, p, m)
      BY <2>7, <2>9
    <3> QED BY <2>7, <3>1, <3>2 DEF AnswerStands
  <2> QED BY <1>1, <1>2, <2>5, <2>6, <2>7, <2>9, <2>10, <2>11, EditFits
<1> QED BY <1>3, <1>4

LEMMA AddExcludeStep ==
  ASSUME LensInv, NEW p \in LensPattern, AddExcludeDomain(p)
  PROVE  LensInv'
<1> DEFINE b == WithoutRule(draft.boosts, p)
           w == WithoutRule(draft.demotes, p)
           e == draft.excludes \cup {p}
           d == [draft EXCEPT !.boosts = b, !.demotes = w, !.excludes = e]
<1>1. Edit /\ UNCHANGED <<initial, customs, foreign>> /\ 0 \in LensMultiplier
  BY TriedIs DEF AddExcludeDomain
<1>2. /\ draft \in Profile /\ draft.boosts \in Seq(LensRule) /\ draft.demotes \in Seq(LensRule)
      /\ draft.excludes \in SUBSET LensPattern /\ foreign \in BOOLEAN
  BY ProfileFields DEF LensInv, FocusLensTypeOK
<1>3. CASE ~ValidPattern(p)
  <2>1. Unchanged("exclude", p, 0)
    BY <1>3 DEF AddExcludeDomain
  <2> QED BY <1>1, <2>1, RefusedFits
<1>4. CASE ValidPattern(p)
  <2>1. draft' = d /\ answer' = [op |-> "exclude", pattern |-> p, multiplier |-> 0, valid |-> ValidProfile(d)]
    BY <1>4 DEF AddExcludeDomain, Answers
  <2>2. /\ w \in Seq(LensRule) /\ PatternsOf(w) = PatternsOf(draft.demotes) \ {p}
        /\ OncePerPattern(draft.demotes) => OncePerPattern(w)
    BY <1>2, WithoutRuleIs
  <2>3. /\ b \in Seq(LensRule) /\ PatternsOf(b) = PatternsOf(draft.boosts) \ {p}
        /\ OncePerPattern(draft.boosts) => OncePerPattern(b)
    BY <1>2, WithoutRuleIs
  <2>4. PICK q : q = d
    OBVIOUS
  <2>a. e \in SUBSET LensPattern /\ p \in e /\ \A x \in e : x \in draft.excludes \/ x = p
    BY <1>2
  <2> HIDE DEF b, w, e
  <2>5. q \in Profile /\ q.boosts = b /\ q.demotes = w /\ q.excludes = e
    BY <1>2, <2>2, <2>3, <2>4, <2>a DEF Profile
  <2> HIDE DEF d
  <2>6. draft' = q /\ answer' = [op |-> "exclude", pattern |-> p, multiplier |-> 0, valid |-> ValidProfile(q)]
    BY <2>1, <2>4
  <2>7. foreign' = foreign
    BY <1>1
  <2>8. ~foreign => RulesApart(draft)
    BY DEF LensInv
  <2>9. ~foreign => RulesApart(q)
    BY <2>2, <2>3, <2>5, <2>8, <2>a DEF RulesApart
  <2>10. answer' \in Answer
    BY <1>1, <2>6, ValidIsBoolean, AnswerIs
  <2>11. AnswerStands'
    <3>1. answer'.op = "exclude" /\ answer'.pattern = p /\ answer'.multiplier = 0 /\ draft'.excludes = e
      BY <2>5, <2>6
    <3> QED BY <2>a, <3>1 DEF AnswerStands
  <2> QED BY <1>1, <1>2, <2>5, <2>6, <2>7, <2>9, <2>10, <2>11, EditFits
<1> QED BY <1>3, <1>4

LEMMA RemoveRuleStep ==
  ASSUME LensInv, NEW p \in LensPattern, RemoveRule(p)
  PROVE  LensInv'
<1> DEFINE b == WithoutRule(draft.boosts, p)
           w == WithoutRule(draft.demotes, p)
           e == draft.excludes \ {p}
<1>1. Edit /\ UNCHANGED <<initial, customs, foreign>> /\ answer' = NoAnswer
  BY DEF RemoveRule
<1>2. /\ draft \in Profile /\ draft.boosts \in Seq(LensRule) /\ draft.demotes \in Seq(LensRule)
      /\ draft.excludes \in SUBSET LensPattern /\ foreign \in BOOLEAN
  BY ProfileFields DEF LensInv, FocusLensTypeOK
<1>3. /\ w \in Seq(LensRule) /\ PatternsOf(w) = PatternsOf(draft.demotes) \ {p}
      /\ OncePerPattern(draft.demotes) => OncePerPattern(w)
  BY <1>2, WithoutRuleIs
<1>4. /\ b \in Seq(LensRule) /\ PatternsOf(b) = PatternsOf(draft.boosts) \ {p}
      /\ OncePerPattern(draft.boosts) => OncePerPattern(b)
  BY <1>2, WithoutRuleIs
<1>5. e \in SUBSET LensPattern /\ e \subseteq draft.excludes
  BY <1>2
<1>6. \/ draft' = [draft EXCEPT !.boosts = b] \/ draft' = [draft EXCEPT !.demotes = w]
      \/ draft' = [draft EXCEPT !.excludes = e]
  BY DEF RemoveRule
<1>7. PICK q : q = draft'
  OBVIOUS
<1> HIDE DEF b, w, e
<1>8. /\ q \in Profile
      /\ q.boosts = draft.boosts \/ q.boosts = b
      /\ q.demotes = draft.demotes \/ q.demotes = w
      /\ q.excludes = draft.excludes \/ q.excludes = e
  BY <1>2, <1>3, <1>4, <1>5, <1>6, <1>7 DEF Profile
<1>9. ~foreign => RulesApart(draft)
  BY DEF LensInv
<1>10. /\ ~foreign => OncePerPattern(q.boosts) /\ OncePerPattern(q.demotes)
       /\ PatternsOf(q.boosts) \subseteq PatternsOf(draft.boosts)
       /\ PatternsOf(q.demotes) \subseteq PatternsOf(draft.demotes) /\ q.excludes \subseteq draft.excludes
  BY <1>3, <1>4, <1>5, <1>8, <1>9 DEF RulesApart
<1>11. ~foreign => RulesApart(q)
  BY <1>9, <1>10 DEF RulesApart
<1> QED BY <1>1, <1>2, <1>7, <1>8, <1>11, SilentEditFits

LEMMA SetMetadataStep ==
  ASSUME LensInv, NEW id \in CustomId \cup {"general"}, NEW health \in BOOLEAN, SetMetadata(id, health)
  PROVE  LensInv'
<1> DEFINE d == [draft EXCEPT !.id = id, !.health = health, !.disclaimer = @ \/ health]
<1>1. /\ Edit /\ UNCHANGED <<initial, customs, foreign>> /\ answer' = NoAnswer
      /\ draft' = d \/ draft' = draft
  BY DEF SetMetadata
<1>2. draft \in Profile /\ foreign \in BOOLEAN /\ (~foreign => RulesApart(draft))
  BY DEF LensInv, FocusLensTypeOK
<1>3. id \in BuiltinId \cup CustomId
  BY LensAssumption
<1>4. d \in Profile /\ d.boosts = draft.boosts /\ d.demotes = draft.demotes /\ d.excludes = draft.excludes
  <2>1. PICK v : v = (draft.disclaimer \/ health)
    OBVIOUS
  <2>2. v \in BOOLEAN
    BY <2>1, Zenon
  <2>3. d = [draft EXCEPT !.id = id, !.health = health, !.disclaimer = v]
    BY <2>1
  <2> HIDE DEF d
  <2> QED BY <1>2, <1>3, <2>2, <2>3 DEF Profile
<1> HIDE DEF d
<1>5. RulesApart(draft) => RulesApart(d)
  BY <1>4 DEF RulesApart
<1>6. draft' \in Profile /\ foreign' \in BOOLEAN /\ (~foreign' => RulesApart(draft'))
  BY <1>1, <1>2, <1>4, <1>5
<1> QED BY <1>1, <1>6, SilentEditFits

LEMMA RestoreStep ==
  ASSUME LensInv, RestoreDefault \/ ResetToInitial
  PROVE  LensInv'
<1>1. initial \in Profile
  BY DEF LensInv, FocusLensTypeOK
<1>2. CASE RestoreDefault
  <2>1. /\ Edit /\ UNCHANGED <<initial, customs>> /\ answer' = NoAnswer
        /\ draft' = GeneralLens /\ foreign' = FALSE
    BY <1>2 DEF RestoreDefault
  <2>2. foreign' \in BOOLEAN
    BY <2>1, Zenon
  <2> QED BY <2>1, <2>2, GeneralIs, SilentEditFits
<1>3. CASE ResetToInitial
  <2>1. /\ Edit /\ UNCHANGED <<initial, customs>> /\ answer' = NoAnswer
        /\ draft' = initial /\ foreign' = (initial # FreshDraft)
    BY <1>3 DEF ResetToInitial
  <2>2. foreign' \in BOOLEAN
    BY <2>1, Zenon
  <2>3. ~foreign' => RulesApart(draft')
    BY <2>1, GeneralIs
  <2> QED BY <1>1, <2>1, <2>2, <2>3, SilentEditFits
<1> QED BY <1>2, <1>3

(* What a valid profile is turned into is valid, and safe. *)
LEMMA SanitizedIs ==
  ASSUME NEW l \in Profile
  PROVE  /\ Sanitized(l) \in Profile /\ Sanitized(l).id = l.id
         /\ ValidProfile(l) => SafeProfile(Sanitized(l))
<1> DEFINE s == Sanitized(l)
<1>1. PICK v : v = (l.disclaimer \/ l.health)
  OBVIOUS
<1>2. v \in BOOLEAN
  BY <1>1, Zenon
<1>3. s = [l EXCEPT !.disclaimer = v]
  BY <1>1 DEF Sanitized
<1> HIDE DEF s
<1>4. /\ s \in Profile /\ s.id = l.id /\ s.boosts = l.boosts /\ s.demotes = l.demotes
      /\ s.excludes = l.excludes /\ s.health = l.health /\ s.disclaimer = v
  BY <1>2, <1>3 DEF Profile
<1>5. ValidProfile(l) => ValidProfile(s)
  BY <1>4 DEF ValidProfile, LensSize
<1>6. s.health => s.disclaimer
  BY <1>1, <1>4
<1> QED BY <1>4, <1>5, <1>6 DEF s, SafeProfile

LEMMA ImportStep ==
  ASSUME LensInv, NEW l \in ForeignLens, ImportJson(l)
  PROVE  LensInv'
<1>1. /\ Edit /\ UNCHANGED <<initial, customs>> /\ answer' = NoAnswer
      /\ \/ draft' = Sanitized(l) /\ foreign' = TRUE
         \/ draft' = draft /\ foreign' = foreign
  BY DEF ImportJson
<1>2. draft \in Profile /\ foreign \in BOOLEAN /\ (~foreign => RulesApart(draft))
  BY DEF LensInv, FocusLensTypeOK
<1>3. Sanitized(l) \in Profile
  BY EditorAssumption, SanitizedIs
<1>4. CASE draft' = Sanitized(l) /\ foreign' = TRUE
  <2>1. foreign' \in BOOLEAN
    BY <1>4, Zenon
  <2> QED BY <1>1, <1>3, <1>4, <2>1, SilentEditFits
<1>5. CASE draft' = draft /\ foreign' = foreign
  BY <1>1, <1>2, <1>5, SilentEditFits
<1> QED BY <1>1, <1>4, <1>5

(* A step of the registry leaves the editor alone. *)
LEMMA RegistryFits ==
  ASSUME LensInv, UNCHANGED <<draft, initial, edits, foreign, answer>>,
         customs' \in [CustomId -> Profile \cup {NoLens}],
         \A id \in CustomId : customs'[id] # NoLens => SafeProfile(customs'[id])
  PROVE  LensInv'
<1>1. draft' = draft /\ initial' = initial /\ edits' = edits /\ foreign' = foreign /\ answer' = answer
  OBVIOUS
<1>2. FocusLensTypeOK'
  BY <1>1 DEF LensInv, FocusLensTypeOK
<1>3. AnswerStands'
  BY <1>1 DEF LensInv, AnswerStands
<1> QED BY <1>1, <1>2, <1>3 DEF LensInv

LEMMA RegistryStep ==
  ASSUME LensInv,
         \/ \E l \in Profile : RegisterProfile(l)
         \/ \E id \in CustomId : RemoveProfile(id)
         \/ ClearCustomProfiles
  PROVE  LensInv'
<1>1. /\ customs \in [CustomId -> Profile \cup {NoLens}]
      /\ \A id \in CustomId : customs[id] # NoLens => SafeProfile(customs[id])
  BY DEF LensInv, FocusLensTypeOK
<1>2. ASSUME NEW l \in Profile, RegisterProfile(l) PROVE LensInv'
  <2>1. /\ ValidProfile(l) /\ l.id \notin BuiltinId /\ customs' = [customs EXCEPT ![l.id] = Sanitized(l)]
        /\ UNCHANGED <<draft, initial, edits, foreign, answer>>
    BY <1>2 DEF RegisterProfile
  <2>2. PICK s : s = Sanitized(l)
    OBVIOUS
  <2>3. s \in Profile /\ SafeProfile(s) /\ l.id \in CustomId
    BY <2>1, <2>2, SanitizedIs, ProfileFields
  <2>4. customs' = [customs EXCEPT ![l.id] = s]
    BY <2>1, <2>2
  <2>5. customs' \in [CustomId -> Profile \cup {NoLens}]
    BY <1>1, <2>3, <2>4
  <2>6. \A id \in CustomId : customs'[id] = IF id = l.id THEN s ELSE customs[id]
    BY <1>1, <2>4
  <2>7. \A id \in CustomId : customs'[id] # NoLens => SafeProfile(customs'[id])
    BY <1>1, <2>3, <2>6
  <2> QED BY <2>1, <2>5, <2>7, RegistryFits
<1>3. ASSUME NEW id \in CustomId, RemoveProfile(id) PROVE LensInv'
  <2>1. /\ customs' = [customs EXCEPT ![id] = NoLens]
        /\ UNCHANGED <<draft, initial, edits, foreign, answer>>
    BY <1>3 DEF RemoveProfile
  <2>2. customs' \in [CustomId -> Profile \cup {NoLens}]
    BY <1>1, <2>1
  <2>3. \A i \in CustomId : customs'[i] = IF i = id THEN NoLens ELSE customs[i]
    BY <1>1, <2>1
  <2>4. \A i \in CustomId : customs'[i] # NoLens => SafeProfile(customs'[i])
    BY <1>1, <2>3
  <2> QED BY <2>1, <2>2, <2>4, RegistryFits
<1>4. CASE ClearCustomProfiles
  <2>1. /\ customs' = [i \in CustomId |-> NoLens]
        /\ UNCHANGED <<draft, initial, edits, foreign, answer>>
    BY <1>4 DEF ClearCustomProfiles
  <2>2. customs' \in [CustomId -> Profile \cup {NoLens}] /\ \A i \in CustomId : customs'[i] = NoLens
    BY <2>1
  <2> QED BY <2>1, <2>2, RegistryFits
<1> QED BY <1>2, <1>3, <1>4

LEMMA LensNextStep == LensInv /\ [FocusLensNext]_lensVars => LensInv'
<1> SUFFICES ASSUME LensInv, [FocusLensNext]_lensVars PROVE LensInv'
  OBVIOUS
<1>1. CASE UNCHANGED lensVars
  <2>1. /\ draft' = draft /\ initial' = initial /\ edits' = edits /\ foreign' = foreign
        /\ answer' = answer /\ customs' = customs
    BY <1>1 DEF lensVars
  <2> QED BY <2>1 DEF LensInv, FocusLensTypeOK, AnswerStands
<1>2. ASSUME NEW p \in LensPattern, NEW m \in Tried, AddBoostDomain(p, m) \/ AddDemoteDomain(p, m)
      PROVE  LensInv'
  BY <1>2, AddBoostStep, AddDemoteStep
<1>3. ASSUME NEW p \in LensPattern, AddExcludeDomain(p) \/ RemoveRule(p) PROVE LensInv'
  BY <1>3, AddExcludeStep, RemoveRuleStep
<1>4. ASSUME NEW id \in CustomId \cup {"general"}, NEW health \in BOOLEAN, SetMetadata(id, health)
      PROVE  LensInv'
  BY <1>4, SetMetadataStep
<1>5. CASE RestoreDefault \/ ResetToInitial
  BY <1>5, RestoreStep
<1>6. ASSUME NEW l \in ForeignLens, ImportJson(l) PROVE LensInv'
  BY <1>6, ImportStep
<1>7. CASE \/ RegisterProfile(draft) \/ \E l \in ForeignLens : RegisterProfile(l)
           \/ \E id \in CustomId : RemoveProfile(id)
           \/ ClearCustomProfiles
  <2>1. draft \in Profile /\ ForeignLens \subseteq Profile
    BY EditorAssumption DEF LensInv, FocusLensTypeOK
  <2>2. \/ \E l \in Profile : RegisterProfile(l)
        \/ \E id \in CustomId : RemoveProfile(id)
        \/ ClearCustomProfiles
    BY <1>7, <2>1
  <2> QED BY <2>2, RegistryStep
<1> QED BY <1>1, <1>2, <1>3, <1>4, <1>5, <1>6, <1>7 DEF FocusLensNext

(* The multipliers of a list, of which one is the greatest and one the least. *)
LEMMA MultipliersAre ==
  ASSUME NEW list \in Seq(LensRule), NEW h
  PROVE  LET S == MatchingMultipliers(h, list)
         IN  S # {} => Max(S) \in Int /\ Min(S) \in Int
<1> DEFINE S == MatchingMultipliers(h, list)
<1>1. BoostMax + 1 \in Nat
  BY LensAssumption
<1>2. \A r \in ToSet(list) : r.multiplier \in 0..(BoostMax + 1)
  <2>1. \A r \in ToSet(list) : r \in LensRule
    BY DEF ToSet
  <2> QED BY <2>1 DEF LensRule, LensMultiplier
<1>3. S \in SUBSET (0..(BoostMax + 1)) /\ S \in SUBSET Nat
  BY <1>1, <1>2 DEF MatchingMultipliers
<1> HIDE DEF S
<1>4. ASSUME S # {} PROVE Max(S) \in Int /\ Min(S) \in Int
  <2>1. \E m \in S : \A k \in S : m >= k
    BY <1>1, <1>3, <1>4, GreatestElement
  <2>2. \E m \in S : \A k \in S : m <= k
    BY <1>3, <1>4, LeastElement
  <2>3. Max(S) \in S /\ Min(S) \in S
    BY <2>1, <2>2 DEF Max, Min
  <2>4. \A x \in S : x \in Int
    BY <1>3
  <2> QED BY <2>3, <2>4
<1> QED BY <1>4 DEF S

LEMMA OnlyOneIs ==
  ASSUME NEW m \in Int
  PROVE  Max({m}) = m /\ Min({m}) = m
<1>1. m \in {m} /\ \A k \in {m} : m >= k /\ m <= k
  OBVIOUS
<1>2. Max({m}) \in {m} /\ Min({m}) \in {m}
  BY <1>1 DEF Max, Min
<1> QED BY <1>2

(* Whatever the rules, the multiplier is within its bounds. *)
LEMMA EvaluatedInBounds ==
  ASSUME NEW l \in Profile, NEW h
  PROVE  EvaluateLens(h, l).multiplier \in {0} \cup DemoteMin..BoostMax
<1> DEFINE boosts  == MatchingMultipliers(h, l.boosts)
           demotes == MatchingMultipliers(h, l.demotes)
           bounds  == {0} \cup DemoteMin..BoostMax
<1>1. /\ LensOne \in Nat /\ BoostMax \in Nat /\ DemoteMin \in Nat
      /\ DemoteMin <= LensOne /\ LensOne <= BoostMax
  BY LensAssumption
<1>2. l.boosts \in Seq(LensRule) /\ l.demotes \in Seq(LensRule)
  BY ProfileFields
<1>3. boosts # {} => Max(boosts) \in Int
  BY <1>2, MultipliersAre
<1>4. demotes # {} => Min(demotes) \in Int
  BY <1>2, MultipliersAre
<1>5. EvaluateLens(h, l) =
        IF l.id = "general" \/ h = <<>> THEN Neutral
        ELSE IF \E p \in l.excludes : MatchesPattern(h, p) THEN [action |-> "exclude", multiplier |-> 0]
        ELSE IF boosts # {} THEN [action |-> "boost", multiplier |-> Clamp(LensOne, BoostMax, Max(boosts))]
        ELSE IF demotes # {} THEN [action |-> "demote", multiplier |-> Clamp(DemoteMin, LensOne, Min(demotes))]
        ELSE Neutral
  BY DEF EvaluateLens
<1> HIDE DEF boosts, demotes
<1>6. Neutral.multiplier \in bounds
  BY <1>1 DEF Neutral
<1>7. boosts # {} => Clamp(LensOne, BoostMax, Max(boosts)) \in bounds
  BY <1>1, <1>3 DEF Clamp
<1>8. demotes # {} => Clamp(DemoteMin, LensOne, Min(demotes)) \in bounds
  BY <1>1, <1>4 DEF Clamp
<1> HIDE DEF bounds
<1>9. 0 \in bounds
  BY DEF bounds
<1>10. \/ EvaluateLens(h, l) = Neutral
       \/ EvaluateLens(h, l) = [action |-> "exclude", multiplier |-> 0]
       \/ boosts # {} /\ EvaluateLens(h, l) = [action |-> "boost", multiplier |-> Clamp(LensOne, BoostMax, Max(boosts))]
       \/ demotes # {} /\ EvaluateLens(h, l) = [action |-> "demote", multiplier |-> Clamp(DemoteMin, LensOne, Min(demotes))]
  BY <1>5, Zenon
<1>11. EvaluateLens(h, l).multiplier \in bounds
  BY <1>6, <1>7, <1>8, <1>9, <1>10
<1> QED BY <1>11 DEF bounds

(* For a host that none of the other rules matches, a list that has the pattern decides *)
(* by its multiplier, and one that has not decides nothing.                             *)
LEMMA MatchingIs ==
  ASSUME NEW list \in Seq(LensRule), NEW h, NEW p, MatchesPattern(h, p),
         MatchingMultipliers(h, WithoutRule(list, p)) = {}
  PROVE  /\ p \notin PatternsOf(list) => MatchingMultipliers(h, list) = {}
         /\ \A m : SetTo(list, p, m) => MatchingMultipliers(h, list) = {m}
<1>1. ToSet(WithoutRule(list, p)) = {r \in ToSet(list) : r.pattern # p}
  BY WithoutRuleIs
<1>2. \A r \in ToSet(list) : MatchesPattern(h, r.pattern) => r.pattern = p
  <2> HIDE DEF MatchesPattern
  <2>1. ASSUME NEW r \in ToSet(list), MatchesPattern(h, r.pattern), r.pattern # p PROVE FALSE
    <3>1. r.multiplier \in MatchingMultipliers(h, WithoutRule(list, p))
      BY <1>1, <2>1 DEF MatchingMultipliers
    <3> QED BY <3>1
  <2> QED BY <2>1
<1>3. p \notin PatternsOf(list) => MatchingMultipliers(h, list) = {}
  BY <1>2 DEF MatchingMultipliers, PatternsOf
<1>4. ASSUME NEW m, SetTo(list, p, m) PROVE MatchingMultipliers(h, list) = {m}
  <2>1. PICK r \in ToSet(list) : r.pattern = p /\ r.multiplier = m
    BY <1>4 DEF SetTo, PatternsOf
  <2>2. \A q \in ToSet(list) : MatchesPattern(h, q.pattern) => q.multiplier = m
    BY <1>2, <1>4 DEF SetTo
  <2>3. m \in MatchingMultipliers(h, list)
    BY <2>1 DEF MatchingMultipliers
  <2>4. \A x \in MatchingMultipliers(h, list) : x = m
    BY <2>2 DEF MatchingMultipliers
  <2> QED BY <2>3, <2>4
<1> QED BY <1>3, <1>4

(* Of the other rules, none matches a host for which they decide nothing. *)
LEMMA OthersAreSilent ==
  ASSUME NEW l \in Profile, NEW h, NEW p, MatchesPattern(h, p), l.id # "general",
         EvaluateLens(h, OtherRules(l, p)) = Neutral
  PROVE  /\ \A x \in l.excludes : MatchesPattern(h, x) => x = p
         /\ MatchingMultipliers(h, WithoutRule(l.boosts, p)) = {}
         /\ MatchingMultipliers(h, WithoutRule(l.demotes, p)) = {}
         /\ h # <<>>
<1> DEFINE o == OtherRules(l, p)
           boosts  == MatchingMultipliers(h, WithoutRule(l.boosts, p))
           demotes == MatchingMultipliers(h, WithoutRule(l.demotes, p))
<1>1. h # <<>>
  BY DEF MatchesPattern
<1>2. PICK b, d, e : b = WithoutRule(l.boosts, p) /\ d = WithoutRule(l.demotes, p) /\ e = l.excludes \ {p}
  OBVIOUS
<1>3. o = [l EXCEPT !.boosts = b, !.demotes = d, !.excludes = e]
  BY <1>2 DEF OtherRules
<1> HIDE DEF o
<1>4. o.id = l.id /\ o.boosts = b /\ o.demotes = d /\ o.excludes = e
  BY <1>3 DEF Profile
<1>5. /\ MatchingMultipliers(h, o.boosts) = boosts /\ MatchingMultipliers(h, o.demotes) = demotes
      /\ o.excludes = l.excludes \ {p} /\ o.id # "general"
  BY <1>2, <1>4
<1>6. EvaluateLens(h, o) =
        IF o.id = "general" \/ h = <<>> THEN Neutral
        ELSE IF \E x \in o.excludes : MatchesPattern(h, x) THEN [action |-> "exclude", multiplier |-> 0]
        ELSE IF MatchingMultipliers(h, o.boosts) # {}
             THEN [action |-> "boost", multiplier |-> Clamp(LensOne, BoostMax, Max(MatchingMultipliers(h, o.boosts)))]
        ELSE IF MatchingMultipliers(h, o.demotes) # {}
             THEN [action |-> "demote", multiplier |-> Clamp(DemoteMin, LensOne, Min(MatchingMultipliers(h, o.demotes)))]
        ELSE Neutral
  BY DEF EvaluateLens
<1>7. EvaluateLens(h, o).action = "none"
  BY DEF o, Neutral
<1> HIDE DEF boosts, demotes
<1>8. /\ ~\E x \in o.excludes : MatchesPattern(h, x)
      /\ boosts = {} /\ demotes = {}
  <2> HIDE DEF MatchesPattern
  <2>1. PICK x1, x2, x3 : /\ x1 = [action |-> "exclude", multiplier |-> 0]
                          /\ x2 = [action |-> "boost", multiplier |-> Clamp(LensOne, BoostMax, Max(boosts))]
                          /\ x3 = [action |-> "demote", multiplier |-> Clamp(DemoteMin, LensOne, Min(demotes))]
    OBVIOUS
  <2>2. x1.action # "none" /\ x2.action # "none" /\ x3.action # "none"
    BY <2>1
  <2>3. EvaluateLens(h, o) =
          IF \E x \in o.excludes : MatchesPattern(h, x) THEN x1
          ELSE IF boosts # {} THEN x2 ELSE IF demotes # {} THEN x3 ELSE Neutral
    BY <1>1, <1>5, <1>6, <2>1
  <2> QED BY <1>7, <2>2, <2>3
<1>9. \A x \in l.excludes : MatchesPattern(h, x) => x = p
  BY <1>5, <1>8
<1> QED BY <1>1, <1>8, <1>9 DEF boosts, demotes

LEMMA LensDecides ==
  ASSUME LensInv
  PROVE  AcceptedRuleDecides
<1> SUFFICES ASSUME answer # NoAnswer, ~foreign, draft.id # "general", NEW h \in LensHost, answer.valid,
                    MatchesPattern(h, answer.pattern),
                    EvaluateLens(h, OtherRules(draft, answer.pattern)) = Neutral
             PROVE  EvaluateLens(h, draft) = [action |-> answer.op, multiplier |-> answer.multiplier]
  BY DEF AcceptedRuleDecides
<1> DEFINE p == answer.pattern
           m == answer.multiplier
           boosts  == MatchingMultipliers(h, draft.boosts)
           demotes == MatchingMultipliers(h, draft.demotes)
<1>1. /\ draft \in Profile /\ RulesApart(draft) /\ answer \in Answer /\ AnswerStands
  BY DEF LensInv, FocusLensTypeOK
<1>2. answer.op \in {"boost", "demote", "exclude"}
  BY <1>1 DEF Answer
<1>3. draft.boosts \in Seq(LensRule) /\ draft.demotes \in Seq(LensRule)
  BY <1>1, ProfileFields
<1>4. /\ \A x \in draft.excludes : MatchesPattern(h, x) => x = p
      /\ MatchingMultipliers(h, WithoutRule(draft.boosts, p)) = {}
      /\ MatchingMultipliers(h, WithoutRule(draft.demotes, p)) = {}
      /\ h # <<>>
  BY <1>1, OthersAreSilent
<1>5. /\ p \notin PatternsOf(draft.boosts) => boosts = {}
      /\ \A x : SetTo(draft.boosts, p, x) => boosts = {x}
  BY <1>3, <1>4, MatchingIs
<1>6. /\ p \notin PatternsOf(draft.demotes) => demotes = {}
      /\ \A x : SetTo(draft.demotes, p, x) => demotes = {x}
  BY <1>3, <1>4, MatchingIs
<1>7. EvaluateLens(h, draft) =
        IF draft.id = "general" \/ h = <<>> THEN Neutral
        ELSE IF \E x \in draft.excludes : MatchesPattern(h, x) THEN [action |-> "exclude", multiplier |-> 0]
        ELSE IF boosts # {} THEN [action |-> "boost", multiplier |-> Clamp(LensOne, BoostMax, Max(boosts))]
        ELSE IF demotes # {} THEN [action |-> "demote", multiplier |-> Clamp(DemoteMin, LensOne, Min(demotes))]
        ELSE Neutral
  BY DEF EvaluateLens
<1>8. LensOne \in Nat /\ BoostMax \in Nat /\ DemoteMin \in Nat
  BY LensAssumption
<1>9. CASE answer.op = "boost"
  <2>1. SetTo(draft.boosts, p, m) /\ InBoostBounds(m)
    BY <1>1, <1>9 DEF AnswerStands
  <2>2. p \in PatternsOf(draft.boosts)
    BY <2>1 DEF SetTo
  <2>3. p \notin draft.excludes /\ boosts = {m}
    BY <1>1, <1>5, <2>1, <2>2 DEF RulesApart
  <2>4. ~\E x \in draft.excludes : MatchesPattern(h, x)
    BY <1>4, <2>3
  <2>5. m \in Int /\ Max({m}) = m /\ Clamp(LensOne, BoostMax, m) = m
    <3>1. m \in LensOne..BoostMax
      BY <2>1 DEF InBoostBounds
    <3>2. m \in Int /\ ~(m < LensOne) /\ ~(m > BoostMax)
      BY <1>8, <3>1
    <3> HIDE DEF m
    <3> QED BY <3>2, OnlyOneIs DEF Clamp
  <2> HIDE DEF boosts, demotes, m
  <2>6. EvaluateLens(h, draft) = [action |-> "boost", multiplier |-> Clamp(LensOne, BoostMax, Max(boosts))]
    BY <1>4, <1>7, <2>3, <2>4
  <2>7. EvaluateLens(h, draft) = [action |-> answer.op, multiplier |-> m]
    BY <1>9, <2>3, <2>5, <2>6
  <2> QED BY <2>7 DEF m
<1>10. CASE answer.op = "demote"
  <2>1. SetTo(draft.demotes, p, m) /\ InDemoteBounds(m)
    BY <1>1, <1>10 DEF AnswerStands
  <2>2. p \in PatternsOf(draft.demotes)
    BY <2>1 DEF SetTo
  <2>3. p \notin draft.excludes /\ demotes = {m} /\ boosts = {}
    BY <1>1, <1>5, <1>6, <2>1, <2>2 DEF RulesApart
  <2>4. ~\E x \in draft.excludes : MatchesPattern(h, x)
    BY <1>4, <2>3
  <2>5. m \in Int /\ Min({m}) = m /\ Clamp(DemoteMin, LensOne, m) = m
    <3>1. m \in DemoteMin..LensOne
      BY <2>1 DEF InDemoteBounds
    <3>2. m \in Int /\ ~(m < DemoteMin) /\ ~(m > LensOne)
      BY <1>8, <3>1
    <3> HIDE DEF m
    <3> QED BY <3>2, OnlyOneIs DEF Clamp
  <2> HIDE DEF boosts, demotes, m
  <2>6. EvaluateLens(h, draft) = [action |-> "demote", multiplier |-> Clamp(DemoteMin, LensOne, Min(demotes))]
    BY <1>4, <1>7, <2>3, <2>4
  <2>7. EvaluateLens(h, draft) = [action |-> answer.op, multiplier |-> m]
    BY <1>10, <2>3, <2>5, <2>6
  <2> QED BY <2>7 DEF m
<1>11. CASE answer.op = "exclude"
  <2>1. p \in draft.excludes /\ m = 0
    BY <1>1, <1>11 DEF AnswerStands
  <2>2. \E x \in draft.excludes : MatchesPattern(h, x)
    BY <2>1
  <2> HIDE DEF boosts, demotes, m
  <2>3. EvaluateLens(h, draft) = [action |-> "exclude", multiplier |-> 0]
    BY <1>4, <1>7, <2>2
  <2>4. EvaluateLens(h, draft) = [action |-> answer.op, multiplier |-> m]
    BY <1>11, <2>1, <2>3
  <2> QED BY <2>4 DEF m
<1> QED BY <1>2, <1>9, <1>10, <1>11

LEMMA LensProperties ==
  ASSUME LensInv
  PROVE  FocusLensTypeOK /\ OneRuleForAPattern /\ AcceptedRuleDecides /\ ResolvedLensIsValid
<1>1. FocusLensTypeOK /\ (~foreign => RulesApart(draft))
  BY DEF LensInv
<1>2. OneRuleForAPattern
  <2> SUFFICES ASSUME ~foreign
               PROVE  /\ PatternsOf(draft.boosts) \cap PatternsOf(draft.demotes) = {}
                      /\ (PatternsOf(draft.boosts) \cup PatternsOf(draft.demotes)) \cap draft.excludes = {}
                      /\ IsInjective([i \in DOMAIN draft.boosts |-> draft.boosts[i].pattern])
                      /\ IsInjective([i \in DOMAIN draft.demotes |-> draft.demotes[i].pattern])
    BY DEF OneRuleForAPattern
  <2>1. draft.boosts \in Seq(LensRule) /\ draft.demotes \in Seq(LensRule) /\ RulesApart(draft)
    BY <1>1, ProfileFields DEF FocusLensTypeOK
  <2>2. \A list \in Seq(LensRule) :
          OncePerPattern(list) => IsInjective([i \in DOMAIN list |-> list[i].pattern])
    BY DEF OncePerPattern, IsInjective
  <2>3. /\ IsInjective([i \in DOMAIN draft.boosts |-> draft.boosts[i].pattern])
        /\ IsInjective([i \in DOMAIN draft.demotes |-> draft.demotes[i].pattern])
    BY <2>1, <2>2 DEF RulesApart
  <2> QED BY <2>1, <2>3 DEF RulesApart
<1>3. ResolvedLensIsValid
  <2> SUFFICES ASSUME NEW id \in CustomId
               PROVE  LET l == ResolveLens(id)
                      IN  /\ ValidProfile(l) /\ (l.health => l.disclaimer)
                          /\ \A h \in LensHost : EvaluateLens(h, l).multiplier \in {0} \cup DemoteMin..BoostMax
    BY DEF ResolvedLensIsValid
  <2>1. PICK l : l = ResolveLens(id)
    OBVIOUS
  <2>2. customs \in [CustomId -> Profile \cup {NoLens}] /\ (customs[id] # NoLens => SafeProfile(customs[id]))
    BY <1>1 DEF LensInv, FocusLensTypeOK
  <2>3. l \in Profile /\ SafeProfile(l)
    BY <2>1, <2>2, GeneralIs DEF ResolveLens
  <2>4. \A h \in LensHost : EvaluateLens(h, l).multiplier \in {0} \cup DemoteMin..BoostMax
    BY <2>3, EvaluatedInBounds
  <2> QED BY <2>1, <2>3, <2>4 DEF SafeProfile
<1> QED BY <1>1, <1>2, <1>3, LensDecides

(***************************************************************************)
(* The component that runs.                                                *)
(***************************************************************************)
Parts ==
  {"storage", "repository", "limiter", "feedback", "offline", "launcher", "index", "links", "lens"}

StoresInv ==
  /\ part \in Parts
  /\ part = "storage"    => StorageInv
  /\ part = "repository" => RepoInv
  /\ part = "limiter"    => LimiterInv
  /\ part = "feedback"   => FeedbackInv
  /\ part = "offline"    => OfflineInv
  /\ part = "launcher"   => LauncherInv
  /\ part = "index"      => IndexInv
  /\ part = "links"      => LinksInv
  /\ part = "lens"       => LensInv

LEMMA StoresInit == Init => StoresInv
<1> SUFFICES ASSUME Init PROVE StoresInv
  OBVIOUS
<1>1. /\ part \in Parts /\ StorageInit /\ RepoInit /\ LimiterInit /\ FeedbackInit
      /\ OfflineInit /\ LauncherInit /\ IndexInit /\ GraphInit /\ FocusLensInit
  BY DEF Init, Parts
<1> QED BY <1>1, StorageInitInvariant, RepoInitInvariant, LimiterInitInvariant, FeedbackInitInvariant,
           OfflineInitInvariant, LauncherInitInvariant, IndexInitInvariant,
           LinksInitInvariant, LensInitInvariant DEF StoresInv

(* A step is one of the component that runs, or leaves it as it is. *)
LEMMA StoresMoves ==
  ASSUME [Next]_allVars
  PROVE  /\ part' = part
         /\ part = "storage"    => [StorageNext]_storageVars
         /\ part = "repository" => [RepoNext]_repoVars
         /\ part = "limiter"    => [LimiterNext]_limiterVars
         /\ part = "feedback"   => [FeedbackNext]_feedbackVars
         /\ part = "offline"    => [OfflineNext]_offlineVars
         /\ part = "launcher"   => [LauncherNext]_launcherVars
         /\ part = "index"      => [IndexNext]_indexVars
         /\ part = "links"      => [GraphNext]_graphVars
         /\ part = "lens"       => [FocusLensNext]_lensVars
         /\ part # "storage"    => UNCHANGED storageVars
         /\ part # "repository" => UNCHANGED repoVars
<1>1. CASE Next
  BY <1>1 DEF Next
<1>2. CASE UNCHANGED allVars
  BY <1>2 DEF allVars
<1> QED BY <1>1, <1>2

LEMMA StoresStep == StoresInv /\ [Next]_allVars => StoresInv'
<1> SUFFICES ASSUME StoresInv, [Next]_allVars PROVE StoresInv'
  OBVIOUS
<1>1. part' = part /\ part \in Parts
  BY StoresMoves DEF StoresInv
<1>2. part = "storage" => StorageInv'
  BY StoresMoves, StorageNextStep DEF StoresInv
<1>3. part = "repository" => RepoInv'
  BY StoresMoves, RepoNextStep DEF StoresInv
<1>4. part = "limiter" => LimiterInv'
  BY StoresMoves, LimiterNextStep DEF StoresInv
<1>5. part = "feedback" => FeedbackInv'
  BY StoresMoves, FeedbackNextStep DEF StoresInv
<1>6. part = "offline" => OfflineInv'
  BY StoresMoves, OfflineNextStep DEF StoresInv
<1>7. part = "launcher" => LauncherInv'
  BY StoresMoves, LauncherNextStep DEF StoresInv
<1>8. part = "index" => IndexInv'
  BY StoresMoves, IndexNextStep DEF StoresInv
<1>9. part = "links" => LinksInv'
  BY StoresMoves, LinksNextStep DEF StoresInv
<1>10. part = "lens" => LensInv'
  BY StoresMoves, LensNextStep DEF StoresInv
<1> QED BY <1>1, <1>2, <1>3, <1>4, <1>5, <1>6, <1>7, <1>8, <1>9, <1>10 DEF StoresInv

(* The inductive invariant of whichever component runs. *)
THEOREM StoresInvariance == Spec => []StoresInv
<1> QED BY StoresInit, StoresStep, PTL DEF Spec

(* The state of every component that keeps records is well formed. *)
THEOREM StoresAreTyped == Spec => []StoresTypeOK
<1>1. StoresInv => StoresTypeOK
  BY StorageProperties, RepoProperties, LimiterProperties, FeedbackProperties, OfflineProperties,
     LauncherProperties, IndexProperties, LinksProperties, LensProperties DEF StoresInv, StoresTypeOK
<1> QED BY <1>1, StoresInvariance, PTL

(* Through any backups, restores, migrations and rollbacks, in any order, that fail or *)
(* die between two files: a damaged backup replaces nothing; and as long as no adapter *)
(* is open during a migration and nobody damages or restores files by hand, the schema *)
(* version tells what was applied to every file, nothing is applied more often than    *)
(* deaths and failures without a backup account for, and the open adapter holds what   *)
(* the files hold.                                                                     *)
THEOREM MaintenanceKeepsData == Spec => []DataSurvivesMaintenance
<1>1. StoresInv => DataSurvivesMaintenance
  BY StorageProperties DEF StoresInv, DataSurvivesMaintenance
<1> QED BY <1>1, StoresInvariance, PTL

(* What was crawled is served and on disk, and twice only after a write that failed;   *)
(* a vote is kept until it expires, is deleted or is pushed out; an imported vote is   *)
(* in the review queue once, marked when it is one of a burst; and the index in memory *)
(* is the exact inverse of its documents through additions, updates, removals, deaths  *)
(* and loads of its file, and finds no document it does not have, whatever was done to *)
(* that file from outside.                                                             *)
THEOREM RecordsAreKept == Spec => []RecordsAreKeptOnce
<1>1. StoresInv => RecordsAreKeptOnce
  BY RepoProperties, FeedbackProperties, IndexProperties DEF StoresInv, RecordsAreKeptOnce
<1> QED BY <1>1, StoresInvariance, PTL

(* Through documents in any order, redirects added by hand and reloads of the snapshot, *)
(* with the bounds on pages and links reached or not: both adjacency maps, the edges    *)
(* and the degrees tell of the same links between known pages; a snapshot loads with    *)
(* all its pages and links; and what documents redirect, as long as no chain can be     *)
(* longer than what is followed, ends at a page that is redirected nowhere.  And however *)
(* the rules of a lens are added, changed, removed, reset and imported: those set here   *)
(* name a pattern once, the one accepted last decides where no other matches, and every  *)
(* lens that is resolved is valid and within its bounds.                                 *)
THEOREM NothingContradictsItself == Spec => []NothingContradicts
<1>1. StoresInv => NothingContradicts
  BY LinksProperties, LensProperties DEF StoresInv, NothingContradicts
<1> QED BY <1>1, StoresInvariance, PTL

(* However many processes share the rate limiter's file, crash and have it cached: as  *)
(* long as no two race for it, no write fails and no buckets are dropped, no key is    *)
(* granted more than twice its limit in any span of a window, and the file says what   *)
(* was granted in the present one.                                                     *)
THEOREM GrantsAreBounded == Spec => []GrantsAreAccountedFor
<1>1. StoresInv => GrantsAreAccountedFor
  BY LimiterProperties DEF StoresInv, GrantsAreAccountedFor
<1> QED BY <1>1, StoresInvariance, PTL

(* Visitors are served the whole corpus, or a page with the assets of its worker, and  *)
(* a clean exit cuts no request short.                                                 *)
THEOREM VisitorsGetWhole == Spec => []ServedWhole
<1>1. StoresInv => ServedWhole
  BY LauncherProperties, OfflineProperties DEF StoresInv, ServedWhole
<1> QED BY <1>1, StoresInvariance, PTL

(* A migration with a backup that fails before its record leaves every file as it was, *)
(* but for a death or a restore that throws; a backup with a                           *)
(* manifest holds what all the files held at one moment; and no step of the            *)
(* repositories loses a document or a URL that was written.                            *)
THEOREM StepsLoseNothing == Spec => StepsAreAllOrNothing
<1>1. StoresInv /\ [Next]_allVars =>
        [job.kind = "migrate" /\ job.snap # 0 /\ job.pc # "record" /\ job'.kind = "none"
           /\ past'["died"] = past["died"] /\ past'["restoreThrew"] = past["restoreThrew"]
           /\ past["overlap"] = 0
         => file' = job.before]_storageVars
  BY StoresMoves, MigrationEndsRestored DEF StoresInv, MigrationEnds
<1>2. StoresInv /\ [Next]_allVars =>
        [\A s \in DOMAIN snapshot :
           snapshot'[s].manifest /\ ~snapshot[s].manifest /\ past["overlap"] = 0
             => snapshot'[s].files = job.before /\ Verifiable(snapshot'[s])]_storageVars
  BY StoresMoves, ManifestIsOfCopies DEF StoresInv
<1>3. StoresInv /\ [Next]_allVars =>
        [\A i \in DOMAIN docFile :
           /\ i \in DOMAIN docFile' /\ docFile'[i].hash = docFile[i].hash
           /\ docFile'[i].page >= docFile[i].page]_repoVars
  BY StoresMoves, RepoNextStep DEF StoresInv
<1>4. StoresInv /\ [Next]_allVars => [knownFile \subseteq knownFile']_repoVars
  BY StoresMoves, RepoNextStep DEF StoresInv
<1> QED BY <1>1, <1>2, <1>3, <1>4, StoresInvariance, PTL
        DEF Spec, StepsAreAllOrNothing, FailedMigrationRestores, BackupIsSnapshot, FileOnlyGrows, UrlRecordsStay
===============================================================================
