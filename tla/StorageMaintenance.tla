-------------------------- MODULE StorageMaintenance --------------------------
(***************************************************************************)
(* Backups, restores and schema migrations of the JSON storage             *)
(* (packages/storage/src/backup, migration and adapters/json-adapter.ts).  *)
(*                                                                         *)
(* A collection is one file, and the open adapter of the application holds *)
(* a copy of all of them in memory, from which it overwrites the file at   *)
(* every change.  A maintenance job goes through the files one after the   *)
(* other.  An adapter's own backup and restore block its process; a        *)
(* migration or rollback is run by a process of its own, so the adapter    *)
(* may save at any point of it.  A job may fail or its process may die     *)
(* between any two files, a restore as well, and when all files are done   *)
(* but schema-version.json is not written yet.                             *)
(*                                                                         *)
(* Abstractions: what a collection holds is the number of its last change  *)
(* and how often each schema version has been applied to it; a checksum is *)
(* what it was computed of.                                                *)
(***************************************************************************)
EXTENDS Integers, Sequences, FiniteSets, Functions

CONSTANTS
  NumFiles,       \* the length of STORAGE_COLLECTION_FILES
  Corrupt,        \* a file that does not parse
  Closed,         \* no adapter is open
  MaxVersion,     \* bound: the newest schema version there is a migration for
  MaxChanges,     \* bound: changes by the application
  MaxSnapshots,   \* bound: backup directories
  MaxMishaps      \* bound: things that go wrong or are done by hand, and restores that throw

File    == 1..NumFiles
Version == 1..MaxVersion
Content == [change : Nat, applied : [Version -> Nat]]

ASSUME StorageAssumption ==
  /\ NumFiles \in Nat \ {0} /\ MaxVersion \in Nat \ {0}
  /\ {MaxChanges, MaxSnapshots, MaxMishaps} \subseteq Nat
  /\ Corrupt \notin Content

VARIABLES
  file,      \* the collections on disk
  loaded,    \* the open adapter's copies, or Closed
  schema,    \* schema-version.json
  snapshot,  \* the backup directories, in the order of creation
  job,       \* the maintenance in progress
  past       \* how often something has gone wrong, or was done by hand

storageVars == <<file, loaded, schema, snapshot, job, past>>

Fresh    == [change |-> 0, applied |-> [v \in Version |-> IF v = 1 THEN 1 ELSE 0]]
Snapshot == [files : [File -> Content \cup {Corrupt}], sums : [File -> Content \cup {Corrupt}],
             manifest : BOOLEAN]
Kinds    == {"none", "backup", "restore", "migrate", "rollback"}
NoJob    == [kind |-> "none", pc |-> "idle", at |-> 1, from |-> 1, version |-> 1, target |-> 1, snap |-> 0,
            before |-> [f \in File |-> Fresh]]
Mishaps  == {"died", "error", "failedWithoutBackup", "damage", "rot", "restoredByHand", "skippedBatch", "overlap",
             "restoreThrew", "unrecorded"}
Idle     == job.kind = "none"

StorageTypeOK ==
  /\ file \in [File -> Content \cup {Corrupt}]
  /\ loaded \in [File -> Content] \cup {Closed}
  /\ schema.version \in Version
  /\ \A i \in DOMAIN schema.applied :
       schema.applied[i] \in [version : Version, snap : 0..Len(snapshot)]
  /\ \A s \in DOMAIN snapshot : snapshot[s] \in Snapshot
  /\ job \in [kind : Kinds, pc : {"idle", "sum", "copy", "manifest", "next", "up", "verify", "restore", "record"},
              at : 1..NumFiles + 1, from : Version, version : Version, target : Version,
              snap : 0..Len(snapshot), before : [File -> Content \cup {Corrupt}]]
  /\ past \in [Mishaps -> Nat]

StorageInit ==
  /\ file = [f \in File |-> Fresh]
  /\ loaded = Closed
  /\ schema = [version |-> 1, applied |-> <<>>]
  /\ snapshot = <<>>
  /\ job = NoJob
  /\ past = [m \in Mishaps |-> 0]

\* what can come after something else has gone wrong has a bound of its own
MayHappen(ms) ==
  IF ms = {"restoreThrew"} THEN past["restoreThrew"] < MaxMishaps
  ELSE FoldFunctionOnSet(+, 0, past, Mishaps \ {"restoreThrew"}) + Cardinality(ms) <= MaxMishaps

AllHappen(ms) ==
  /\ MayHappen(ms)
  /\ past' = [m \in Mishaps |-> IF m \in ms THEN past[m] + 1 ELSE past[m]]
Happens(m) == AllHappen({m})

(***************************************************************************)
(* The adapter.                                                            *)
(***************************************************************************)

\* a file that does not parse is an empty collection
Read(files) == [f \in File |-> IF files[f] = Corrupt THEN Fresh ELSE files[f]]

\* its process is not busy with a backup or restore of its own
Responsive == job.kind \notin {"backup", "restore"}

OpenAdapter ==
  /\ loaded = Closed /\ Responsive
  /\ loaded' = Read(file)
  /\ AllHappen(IF Idle THEN {} ELSE {"overlap"})
  /\ UNCHANGED <<file, schema, snapshot, job>>

CloseAdapter ==
  /\ loaded # Closed /\ Responsive
  /\ loaded' = Closed
  /\ UNCHANGED <<file, schema, snapshot, job, past>>

\* set and update: memory first, then the whole collection is written
Change(f) ==
  /\ loaded # Closed /\ Responsive
  /\ FoldFunction(LAMBDA c, n : c.change + n, 0, loaded) < MaxChanges
  /\ loaded' = [loaded EXCEPT ![f].change = @ + 1]
  /\ \/ file' = [file EXCEPT ![f] = loaded'[f]] /\ UNCHANGED past
     \/ Happens("error") /\ UNCHANGED file
  /\ UNCHANGED <<schema, snapshot, job>>

(***************************************************************************)
(* createStorageBackup                                                     *)
(***************************************************************************)

\* an adapter is open during a migration or rollback
Overlaps == IF loaded = Closed THEN {} ELSE {"overlap"}

\* the job begins: its first step is pc, for the given versions and snapshot
Begins(kind, pc, target, snap) ==
  /\ Idle
  /\ job' = [NoJob EXCEPT !.kind = kind, !.pc = pc, !.from = schema.version,
               !.version = schema.version, !.target = target, !.snap = snap, !.before = file]

EmptySnapshot == [files |-> [f \in File |-> Fresh], sums |-> [f \in File |-> Fresh], manifest |-> FALSE]
NewSnapshot ==
  /\ Len(snapshot) < MaxSnapshots
  /\ snapshot' = Append(snapshot, EmptySnapshot)

StartBackup ==
  /\ loaded # Closed
  /\ Begins("backup", "sum", schema.version, Len(snapshot) + 1)
  /\ NewSnapshot
  /\ UNCHANGED <<file, loaded, schema, past>>

\* the checksum of a source file is computed, and then the file is copied
SumsFile ==
  /\ job.pc = "sum"
  /\ snapshot' = [snapshot EXCEPT ![job.snap].sums[job.at] = file[job.at]]
  /\ job' = [job EXCEPT !.pc = "copy"]
  /\ UNCHANGED <<file, loaded, schema, past>>

CopiesFile ==
  /\ job.pc = "copy"
  /\ snapshot' = [snapshot EXCEPT ![job.snap].files[job.at] = file[job.at]]
  /\ job' = IF job.at < NumFiles THEN [job EXCEPT !.pc = "sum", !.at = @ + 1]
                                 ELSE [job EXCEPT !.pc = "manifest", !.at = 1]
  /\ UNCHANGED <<file, loaded, schema, past>>

WritesManifest ==
  /\ job.pc = "manifest"
  /\ snapshot' = [snapshot EXCEPT ![job.snap].manifest = TRUE]
  /\ job' = IF job.kind = "backup" THEN NoJob ELSE [job EXCEPT !.pc = "next"]
  /\ UNCHANGED <<file, loaded, schema, past>>

\* reading or writing throws: the directory stays as it is, without a manifest
BackupThrows ==
  /\ job.pc \in {"sum", "copy", "manifest"}
  /\ Happens("error")
  /\ job' = NoJob
  /\ UNCHANGED <<file, loaded, schema, snapshot>>

(***************************************************************************)
(* restoreStorageBackup                                                    *)
(***************************************************************************)

StartRestore(s) ==
  /\ loaded # Closed /\ s \in DOMAIN snapshot
  /\ Begins("restore", "verify", schema.version, s)
  /\ Happens("restoredByHand")
  /\ UNCHANGED <<file, loaded, schema, snapshot>>

\* mutant: the checksums are not compared
VerifiableByManifest(s) == s.manifest

Verifiable(s) == s.manifest /\ \A f \in File : s.files[f] = s.sums[f]

\* all files are verified before the first one is replaced
VerifiesSnapshot ==
  /\ job.pc = "verify"
  /\ job' = IF Verifiable(snapshot[job.snap]) THEN [job EXCEPT !.pc = "restore", !.at = 1] ELSE NoJob
  /\ UNCHANGED <<file, loaded, schema, snapshot, past>>

\* mutant: the last collection is not restored
RestoresFileButLast ==
  /\ job.pc = "restore"
  /\ file' = IF job.at < NumFiles THEN [file EXCEPT ![job.at] = snapshot[job.snap].files[job.at]] ELSE file
  /\ job' = IF job.at < NumFiles THEN [job EXCEPT !.at = @ + 1]
            ELSE IF job.kind = "rollback" THEN [job EXCEPT !.pc = "record"] ELSE NoJob
  /\ loaded' = IF job.kind = "restore" /\ job'.kind = "none" THEN Read(file') ELSE loaded
  /\ UNCHANGED <<schema, snapshot, past>>

\* files are replaced one by one; the adapter that restores reloads them all
RestoresFile ==
  /\ job.pc = "restore"
  /\ file' = [file EXCEPT ![job.at] = snapshot[job.snap].files[job.at]]
  /\ job' = IF job.at < NumFiles THEN [job EXCEPT !.at = @ + 1]
            ELSE IF job.kind = "rollback" THEN [job EXCEPT !.pc = "record"] ELSE NoJob
  /\ loaded' = IF job.kind = "restore" /\ job'.kind = "none" THEN Read(file') ELSE loaded
  /\ UNCHANGED <<schema, snapshot, past>>

\* a file that is verified cannot be read, or one is not copied back: the error is
\* thrown, the files replaced so far stay so, and an adapter keeps what it has in memory
RestoreThrows ==
  /\ job.pc \in {"verify", "restore"}
  /\ Happens("restoreThrew")
  /\ job' = NoJob
  /\ UNCHANGED <<file, loaded, schema, snapshot>>

(***************************************************************************)
(* runSchemaMigrations                                                     *)
(***************************************************************************)

Intact == \A f \in File : file[f] # Corrupt

\* some migrations are pending, and the storage is intact
StartMigration(target, autoBackup) ==
  /\ target > schema.version
  /\ Intact
  /\ IF autoBackup THEN Begins("migrate", "sum", target, Len(snapshot) + 1) /\ NewSnapshot
                   ELSE Begins("migrate", "next", target, 0) /\ UNCHANGED snapshot
  /\ AllHappen(Overlaps)
  /\ UNCHANGED <<file, loaded, schema>>

\* mutant: one more
NextMigrationOneMore ==
  /\ job.pc = "next"
  /\ job' = IF job.version <= job.target THEN [job EXCEPT !.pc = "up", !.version = @ + 1, !.at = 1]
                                         ELSE [job EXCEPT !.pc = "record"]
  /\ UNCHANGED <<file, loaded, schema, snapshot, past>>

\* the next version, or all have been applied and validated
NextMigration ==
  /\ job.pc = "next"
  /\ job' = IF job.version < job.target THEN [job EXCEPT !.pc = "up", !.version = @ + 1, !.at = 1]
                                        ELSE [job EXCEPT !.pc = "record"]
  /\ UNCHANGED <<file, loaded, schema, snapshot, past>>

\* the migration to job.version reads and writes one file after the other
MigratesFile ==
  /\ job.pc = "up" /\ job.at <= NumFiles /\ file[job.at] # Corrupt
  /\ file' = [file EXCEPT ![job.at].applied[job.version] = @ + 1]
  /\ job' = [job EXCEPT !.at = @ + 1]
  /\ UNCHANGED <<loaded, schema, snapshot, past>>

\* it is validated
ValidatesMigration ==
  /\ job.pc = "up" /\ job.at = NumFiles + 1
  /\ job' = [job EXCEPT !.pc = "next"]
  /\ UNCHANGED <<file, loaded, schema, snapshot, past>>

\* it throws, or the validation fails: with a backup it is restored, without one
\* the versions applied so far are not recorded
MigrationFails ==
  /\ job.pc = "up"
  /\ IF job.snap # 0 THEN Happens("error") /\ job' = [job EXCEPT !.pc = "verify", !.at = 1]
                     ELSE Happens("failedWithoutBackup") /\ job' = NoJob
  /\ UNCHANGED <<file, loaded, schema, snapshot>>

Pending == [i \in 1..job.target - job.from |-> [version |-> job.from + i, snap |-> job.snap]]
RecordsMigration ==
  /\ job.pc = "record" /\ job.kind = "migrate"
  /\ schema' = [version |-> job.target, applied |-> schema.applied \o Pending]
  /\ job' = NoJob
  /\ UNCHANGED <<file, loaded, snapshot, past>>

(***************************************************************************)
(* rollbackSchemaMigration                                                 *)
(***************************************************************************)

\* the last record above the target that has a snapshot says what is restored
Undone(target) == {i \in DOMAIN schema.applied : schema.applied[i].version > target /\ schema.applied[i].snap # 0}
LastUndone(target) == CHOOSE i \in Undone(target) : \A j \in Undone(target) : j <= i

StartRollback(target) ==
  /\ target < schema.version /\ Undone(target) # {}
  /\ LET snap == schema.applied[LastUndone(target)].snap
     IN  /\ Begins("rollback", "verify", target, snap)
         /\ AllHappen(Overlaps \cup
              (IF \A r \in Range(schema.applied) : r.version > target <=> r.snap = snap
               THEN {} ELSE {"skippedBatch"}))
  /\ UNCHANGED <<file, loaded, schema, snapshot>>

\* the records that remain
KeptRecords(records, target) ==
  LET kept[n \in 0..Len(records)] ==
        IF n = 0 THEN <<>>
        ELSE IF records[n].version <= target THEN Append(kept[n - 1], records[n]) ELSE kept[n - 1]
  IN  kept[Len(records)]

RecordsRollback ==
  /\ job.pc = "record" /\ job.kind = "rollback"
  /\ schema' = [version |-> job.target,
                applied |-> KeptRecords(schema.applied, job.target)]
  /\ job' = NoJob
  /\ UNCHANGED <<file, loaded, snapshot, past>>

\* the write of schema-version.json throws, after a migration or a rollback: the files
\* have been changed, and nothing changes them back
RecordThrows ==
  /\ job.pc = "record"
  /\ Happens("unrecorded")
  /\ job' = NoJob
  /\ UNCHANGED <<file, loaded, schema, snapshot>>

(***************************************************************************)
(* The environment                                                         *)
(***************************************************************************)

\* the process of the job dies, and with it the adapter if the job was its own
JobDies ==
  /\ ~Idle /\ Happens("died")
  /\ job' = NoJob
  /\ loaded' = IF Responsive THEN loaded ELSE Closed
  /\ UNCHANGED <<file, schema, snapshot>>

\* a file of the storage, or of a backup, is damaged between two jobs
Damage ==
  /\ Idle
  /\ \/ /\ Happens("damage")
        /\ \E f \in File : file' = [file EXCEPT ![f] = Corrupt]
        /\ UNCHANGED snapshot
     \/ /\ Happens("rot")
        /\ \E s \in DOMAIN snapshot, f \in File :
             snapshot' = [snapshot EXCEPT ![s].files[f] = Corrupt]
        /\ UNCHANGED file
  /\ UNCHANGED <<loaded, schema, job>>

StorageNext ==
  \/ OpenAdapter \/ CloseAdapter \/ \E f \in File : Change(f)
  \/ StartBackup \/ SumsFile \/ CopiesFile \/ WritesManifest \/ BackupThrows
  \/ \E s \in 1..MaxSnapshots : StartRestore(s)
  \/ VerifiesSnapshot \/ RestoresFile \/ RestoreThrows
  \/ \E target \in Version, autoBackup \in BOOLEAN : StartMigration(target, autoBackup)
  \/ NextMigration \/ MigratesFile \/ ValidatesMigration \/ MigrationFails \/ RecordsMigration
  \/ \E target \in Version : StartRollback(target)
  \/ RecordsRollback \/ RecordThrows
  \/ JobDies \/ Damage

StorageSpec == StorageInit /\ [][StorageNext]_storageVars

(***************************************************************************)
(* Properties                                                              *)
(***************************************************************************)

\* A migration with a backup that does not get to its record leaves every file as it
\* was, unless its process dies, the restore itself throws, or an adapter is open.  That
\* leaves out the write of the record, which nothing catches: see AbortRestores.
FailedMigrationRestores ==
  [][job.kind = "migrate" /\ job.snap # 0 /\ job.pc # "record" /\ job'.kind = "none"
       /\ past'["died"] = past["died"] /\ past'["restoreThrew"] = past["restoreThrew"]
       /\ past["overlap"] = 0
     => file' = job.before]_storageVars

\* Divergence, which TLC refutes and no run repeats.  "If any step fails or throws an
\* exception, the system automatically aborts and restores the pre-migration backup,
\* leaving the existing index completely intact" (docs/release-and-rollback.md:82): a
\* migration with a backup that ends without its record, in a process that goes on,
\* leaves every file as it was.  A record that cannot be written leaves them migrated.
AbortRestores ==
  [][job.kind = "migrate" /\ job.snap # 0 /\ job'.kind = "none" /\ schema' = schema
       /\ past'["died"] = past["died"] /\ past["overlap"] = 0
     => file' = job.before]_storageVars

\* What schema-version.json says is what has been applied to every file, whatever
\* migration fails on the way and is rolled back by batches.  It need not be after a
\* failure that leaves the files half way or without their record (a death, a restore
\* or a record's write that throws, a failure without a backup), or what was done by hand.
Orderly == past["overlap"] = 0 /\ \A m \in Mishaps \ {"error", "rot"} : past[m] = 0
VersionTellsData ==
  Orderly /\ Idle =>
    \A f \in File, v \in Version : file[f].applied[v] = IF v <= schema.version THEN 1 ELSE 0

\* A migration is applied to a file once, and once more for each process that died,
\* each failure without a backup, each restore and each record that threw: none of
\* them leaves a record of what was applied.
AppliedOnce ==
  past["overlap"] = 0 /\ (\A m \in {"damage", "restoredByHand", "skippedBatch"} : past[m] = 0) =>
    \A f \in File, v \in Version :
      file[f].applied[v] <= 1 + past["died"] + past["failedWithoutBackup"]
                              + past["restoreThrew"] + past["unrecorded"]

\* "If any file is corrupt or tampered with, restore immediately aborts before
\* modifying the target storage."
DamagedBackupNeverRestored == past["damage"] = 0 => Intact

\* A backup with a manifest holds what all the files held at one moment, and can be
\* restored, unless an adapter was open during a migration's backup.
BackupIsSnapshot ==
  [][\A s \in DOMAIN snapshot :
       snapshot'[s].manifest /\ ~snapshot[s].manifest /\ past["overlap"] = 0
         => snapshot'[s].files = job.before /\ Verifiable(snapshot'[s])]_storageVars

\* The open adapter's copies are what the files hold, after a restore as well, unless
\* a write failed, a file was damaged, or a restore threw and left them as they were.
MemoryFollowsFiles ==
  loaded # Closed /\ Responsive /\ (\A m \in {"overlap", "error", "damage", "restoreThrew"} : past[m] = 0)
    => loaded = file
===============================================================================
