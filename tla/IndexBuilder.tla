----------------------------- MODULE IndexBuilder -----------------------------
(***************************************************************************)
(* Index generations (packages/indexer/src/builder/index-builder.ts).      *)
(*                                                                         *)
(* A build writes a new generation into a directory of its own and then    *)
(* activates it by updates of the metadata records; indexDocument and      *)
(* deleteDocument change the active generation in place; the cleanup after *)
(* a build deletes the generations it does not retain.  All of them are    *)
(* async functions of one process, so they interleave at every await, and  *)
(* the process may die there.  An update of the JSON storage changes       *)
(* memory first and then writes the file, which may throw.                 *)
(*                                                                         *)
(* Abstractions: a document is a version number, an index maps documents   *)
(* to the version it holds (0: none), a fingerprint is the version, one    *)
(* batch holds all documents.  One build and one document operation are in *)
(* progress at a time.                                                     *)
(***************************************************************************)
EXTENDS Integers, Sequences, FiniteSets

CONSTANTS
  Doc,
  NoIndex,      \* this.activeIndex === null; a directory that does not exist
  Corrupt,      \* a directory whose index file does not load
  MaxRetained,  \* GenerationCleanupOptions.maxRetained
  MaxVer,       \* bound: versions of a document
  MaxBuilds,    \* bound: builds in a behaviour
  MaxEdits,     \* bound: document operations in a behaviour
  MaxCrashes,   \* bound: crashes in a behaviour
  MaxErrors     \* bound: failing file operations and damaged files

ASSUME ConstantsAssumption ==
  /\ Doc # {}
  /\ {NoIndex, Corrupt} \cap [Doc -> 0..MaxVer] = {} /\ NoIndex # Corrupt
  /\ MaxRetained \in Nat \ {0}
  /\ {MaxVer, MaxBuilds, MaxEdits, MaxCrashes, MaxErrors} \subseteq Nat

VARIABLES
  docs,       \* storage.documents: version and index status of each document
  docFile,    \* documents.json
  meta,       \* storage.indexMetadata: the records in the order of creation
  metaFile,   \* index-metadata.json
  dir,        \* <indexDir>/builds: what each generation's directory holds
  index,      \* this.activeIndex
  current,    \* this.activeMetadata: the buildId it caches, or 0
  build,      \* the build or cleanup in progress
  edit,       \* the document operation in progress
  \* history
  overlapped, \* something was changed while a build or a document operation ran
  served,     \* the generation activated last, or 0: none, or it was given up
  torn,       \* the pairs of updates that were cut off: "create" that make a record
              \* and give it its path, "activate" since the last activation
  edits, crashes, errors

storage == <<docs, docFile, meta, metaFile>>
memory  == <<index, current>>
history == <<overlapped, served, torn, edits, crashes, errors>>
vars    == <<storage, dir, memory, build, edit, history>>

BuildId == 1..MaxBuilds
Index   == [Doc -> 0..MaxVer]
Empty   == [d \in Doc |-> 0]
Modes   == {"full", "incremental", "forced"}
Record  == [status : {"building", "ready", "failed", "stale"}, active : BOOLEAN,
            path : {"root", "own"}]
Stored  == [ver : {0}, status : {"none"}]
             \cup [ver : 1..MaxVer, status : {"pending", "indexed", "not_indexed"}]

BuildPC == {"idle", "create", "path", "clone", "query", "save", "retire", "activate",
            "mark", "clean", "prune"}
BuildState(n) == [pc : BuildPC, id : 0..n, mode : Modes, new : Index,
                  marks : SUBSET Doc, prune : SUBSET (1..n)]
EditState == [pc : {"idle", "save", "mark"}, op : {"index", "delete"}, doc : Doc]

NoBuild == [pc |-> "idle", id |-> 0, mode |-> "full", new |-> Empty, marks |-> {}, prune |-> {}]
NoEdit  == [pc |-> "idle", op |-> "index", doc |-> CHOOSE d \in Doc : TRUE]
Quiet   == build.pc = "idle" /\ edit.pc = "idle"

TypeOK ==
  /\ docs \in [Doc -> Stored] /\ docFile \in [Doc -> Stored]
  /\ meta \in Seq(Record) /\ metaFile \in Seq(Record)
  /\ dir \in [BuildId -> Index \cup {NoIndex, Corrupt}]
  /\ index \in Index \cup {NoIndex}
  /\ current \in 0..Len(meta)
  /\ build \in BuildState(Len(meta))
  /\ edit \in EditState
  /\ overlapped \in BOOLEAN /\ torn \in SUBSET {"create", "activate"}
  /\ served \in BuildId \cup {0}

Init ==
  /\ docs = [d \in Doc |-> [ver |-> 0, status |-> "none"]] /\ docFile = docs
  /\ meta = <<>> /\ metaFile = <<>>
  /\ dir = [b \in BuildId |-> NoIndex]
  /\ index = NoIndex /\ current = 0
  /\ build = NoBuild /\ edit = NoEdit
  /\ overlapped = FALSE /\ served = 0 /\ torn = {}
  /\ edits = 0 /\ crashes = 0 /\ errors = 0

(***************************************************************************)
(* Storage.                                                                *)
(***************************************************************************)

\* an update of the metadata, and one whose write throws
UpdateMeta(m) == meta' = m /\ metaFile' = m
UpdateMetaThrows(m) ==
  /\ errors < MaxErrors
  /\ errors' = errors + 1
  /\ meta' = m
  /\ UNCHANGED metaFile

UpdateDocs(ds) == docs' = ds /\ docFile' = ds
UpdateDocsThrows(ds) ==
  /\ errors < MaxErrors
  /\ errors' = errors + 1
  /\ docs' = ds
  /\ UNCHANGED docFile

\* findActive: the first record that is active and ready
ActiveIn(m) == {b \in DOMAIN m : m[b].active /\ m[b].status = "ready"}
FindActive ==
  IF ActiveIn(meta) = {} THEN 0
  ELSE CHOOSE b \in ActiveIn(meta) : \A c \in ActiveIn(meta) : b <= c

\* getActiveMetadata: the cached record, or the one storage has
ActiveMetadata == IF current # 0 THEN current ELSE FindActive

\* what its directory holds
ActiveDir == IF ActiveMetadata = 0 THEN NoIndex ELSE dir[ActiveMetadata]

\* the crawler stores a document that is new or whose content has changed
Crawl(d) ==
  /\ docs[d].ver < MaxVer
  /\ UpdateDocs([docs EXCEPT ![d] = [ver |-> @.ver + 1, status |-> "pending"]])
  /\ overlapped' = (overlapped \/ ~Quiet)
  /\ UNCHANGED <<meta, metaFile, dir, memory, build, edit, served, torn, edits, crashes, errors>>

(***************************************************************************)
(* build                                                                   *)
(***************************************************************************)

Goto(pc) == build' = [build EXCEPT !.pc = pc]

StartBuild(mode) ==
  /\ build.pc = "idle" /\ Len(meta) < MaxBuilds
  /\ build' = [NoBuild EXCEPT !.pc = "create", !.mode = mode]
  /\ overlapped' = (overlapped \/ edit.pc # "idle")
  /\ UNCHANGED <<storage, dir, memory, edit, served, torn, edits, crashes, errors>>

\* the record is created with the root directory as its path ...
Created == Append(meta, [status |-> "building", active |-> FALSE, path |-> "root"])
BuildCreates ==
  /\ build.pc = "create"
  /\ UpdateMeta(Created)
  /\ build' = [build EXCEPT !.pc = "path", !.id = Len(meta) + 1]
  /\ UNCHANGED <<docs, docFile, dir, memory, edit, history>>

\* ... and given the path of its own directory by a second update
PathRecorded == [meta EXCEPT ![build.id].path = "own"]
BuildRecordsPath ==
  /\ build.pc = "path"
  /\ UpdateMeta(PathRecorded)
  /\ Goto("clone")
  /\ UNCHANGED <<docs, docFile, dir, memory, edit, history>>

\* both of these are outside build's try block: build rejects
BuildRejects ==
  /\ \/ build.pc = "create" /\ UpdateMetaThrows(Created)
     \/ build.pc = "path" /\ UpdateMetaThrows(PathRecorded)
  /\ build' = NoBuild
  /\ torn' = torn \cup {"create"}
  /\ UNCHANGED <<docs, docFile, dir, memory, edit, overlapped, served, edits, crashes>>

\* mutant: every build starts from nothing
BuildClonesNothing ==
  /\ build.pc = "clone"
  /\ Goto("query")
  /\ UNCHANGED <<storage, dir, memory, edit, history>>

\* an incremental build starts from the active generation, if it has a directory
BuildClones ==
  /\ build.pc = "clone"
  /\ IF build.mode = "full"
     THEN build' = [build EXCEPT !.pc = "query"] /\ UNCHANGED current
     ELSE /\ current' = ActiveMetadata
          /\ ActiveDir # Corrupt
          /\ build' = [build EXCEPT !.pc = "query",
                         !.new = IF ActiveDir = NoIndex THEN Empty ELSE ActiveDir]
  /\ UNCHANGED <<storage, dir, index, edit, history>>

\* mutant: documents that are not there are not skipped
SelectedUnskipped(mode) ==
  {d \in Doc : mode = "incremental" => docs[d].status = "pending"}

\* the documents a build adds: an incremental one takes the pending ones only
Selected(mode) ==
  {d \in Doc : docs[d].ver > 0 /\ (mode = "incremental" => docs[d].status = "pending")}

BuildQueries ==
  /\ build.pc = "query"
  /\ LET sel == Selected(build.mode)
     IN  build' = [build EXCEPT !.pc = "save", !.marks = sel,
                     !.new = [d \in Doc |-> IF d \in sel THEN docs[d].ver ELSE @[d]]]
  /\ UNCHANGED <<storage, dir, memory, edit, history>>

BuildSaves ==
  /\ build.pc = "save"
  /\ dir' = [dir EXCEPT ![build.id] = build.new]
  /\ Goto("retire")
  /\ UNCHANGED <<storage, memory, edit, history>>

\* mutant: the previous generation stays active
RetiredKept == meta

\* activation, first update: the previous generation becomes stale
Retired ==
  IF FindActive = 0 THEN meta
  ELSE [meta EXCEPT ![FindActive].active = FALSE, ![FindActive].status = "stale"]
BuildRetires ==
  /\ build.pc = "retire"
  /\ UpdateMeta(Retired)
  /\ Goto("activate")
  /\ UNCHANGED <<docs, docFile, dir, memory, edit, history>>

\* activation, second update: the new one becomes active
Activated == [meta EXCEPT ![build.id].active = TRUE, ![build.id].status = "ready"]
BuildActivates ==
  /\ build.pc = "activate"
  /\ UpdateMeta(Activated)
  /\ Goto("mark")
  /\ served' = build.id /\ torn' = torn \ {"activate"}
  /\ UNCHANGED <<docs, docFile, dir, memory, edit, overlapped, edits, crashes, errors>>

\* the documents are marked as indexed one by one; an error is ignored
BuildMarks(d) ==
  /\ build.pc = "mark" /\ d \in build.marks
  /\ LET marked == [docs EXCEPT ![d].status = "indexed"]
     IN  \/ UpdateDocs(marked) /\ UNCHANGED errors
         \/ UpdateDocsThrows(marked)
  /\ build' = [build EXCEPT !.marks = @ \ {d}]
  /\ UNCHANGED <<meta, metaFile, dir, memory, edit, overlapped, served, torn, edits, crashes>>

BuildSwaps ==
  /\ build.pc = "mark" /\ build.marks = {}
  /\ index' = build.new /\ current' = build.id
  /\ Goto("clean")
  /\ UNCHANGED <<storage, dir, edit, history>>

\* the catch block: the record becomes failed and the directory is removed, whatever
\* had been activated; an error of either is ignored.  n operations failed before it.
Failed(m) == [m EXCEPT ![build.id].status = "failed"]
CatchBlock(m, n) ==
  /\ \E unwritten, unremoved \in {0, 1} :
       /\ errors + n + unwritten + unremoved <= MaxErrors
       /\ errors' = errors + n + unwritten + unremoved
       /\ meta' = Failed(m)
       /\ metaFile' = IF unwritten = 0 THEN Failed(m) ELSE metaFile
       /\ dir' = IF unremoved = 0 THEN [dir EXCEPT ![build.id] = NoIndex] ELSE dir
  /\ build' = NoBuild
  /\ UNCHANGED <<docs, docFile, index, edit, overlapped, served, edits, crashes>>

\* the base does not load, or the new index cannot be written
BuildFails ==
  /\ \/ /\ build.pc = "clone" /\ build.mode # "full"
        /\ ActiveDir = Corrupt
        /\ current' = ActiveMetadata
        /\ CatchBlock(meta, 0)
     \/ /\ build.pc = "save"
        /\ UNCHANGED current
        /\ CatchBlock(meta, 1)
  /\ UNCHANGED torn

\* an update of the activation throws, after memory has changed
ActivationFails ==
  /\ build.pc \in {"retire", "activate"}
  /\ CatchBlock(IF build.pc = "retire" THEN Retired ELSE Activated, 1)
  /\ torn' = torn \cup {"activate"}
  /\ UNCHANGED current

(***************************************************************************)
(* cleanObsoleteGenerations, after a build or called by itself             *)
(***************************************************************************)

\* mutant: the newest generation, whether active or not
RetainedNewest == {Len(meta)}

\* the active generation, and the newest ready ones as long as there is room
Retained ==
  LET kept  == IF ActiveMetadata = 0 THEN {} ELSE {ActiveMetadata}
      ready == {b \in DOMAIN meta : meta[b].status = "ready"} \ kept
  IN  kept \cup {b \in ready :
                   Cardinality({c \in ready : b <= c}) + Cardinality(kept) <= MaxRetained}

\* every other record is pruned: ready, stale, failed and building ones
Obsolete == DOMAIN meta \ Retained

CleanObsoleteGenerations ==
  /\ build.pc = "clean" \/ (build.pc = "idle" /\ Obsolete # {})
  /\ current' = ActiveMetadata
  /\ build' = [NoBuild EXCEPT !.pc = "prune", !.prune = Obsolete]
  /\ UNCHANGED <<storage, dir, index, edit, history>>

\* newest record first, the directory its path names is removed with all it holds;
\* an error of that, or of the update, is ignored
Removed(b) ==
  [c \in BuildId |-> IF c = b \/ meta[b].path = "root" THEN NoIndex ELSE dir[c]]
Prune ==
  /\ build.pc = "prune"
  /\ \E b \in build.prune :
       /\ \A c \in build.prune : c <= b
       /\ build' = [build EXCEPT !.prune = @ \ {b}]
       /\ meta' = [meta EXCEPT ![b].status = "stale"]
       /\ \E unwritten, unremoved \in {0, 1} :
            /\ errors + unwritten + unremoved <= MaxErrors
            /\ errors' = errors + unwritten + unremoved
            /\ metaFile' = IF unwritten = 0 THEN meta' ELSE metaFile
            /\ dir' = IF unremoved = 0 THEN Removed(b) ELSE dir
  /\ UNCHANGED <<docs, docFile, memory, edit, overlapped, served, torn, edits, crashes>>

\* the scan of the directory finds nothing the records do not name
CleanDone ==
  /\ build.pc = "prune" /\ build.prune = {}
  /\ build' = NoBuild
  /\ UNCHANGED <<storage, dir, memory, edit, history>>

(***************************************************************************)
(* loadActiveIndex                                                         *)
(***************************************************************************)

LoadActiveIndex ==
  /\ index = NoIndex /\ ActiveDir \notin {NoIndex, Corrupt}
  /\ index' = ActiveDir /\ current' = ActiveMetadata
  /\ UNCHANGED <<storage, dir, build, edit, history>>

\* no directory: a full build
LoadRebuilds ==
  /\ index = NoIndex /\ build.pc = "idle" /\ Len(meta) < MaxBuilds
  /\ ActiveDir = NoIndex
  /\ current' = ActiveMetadata
  /\ build' = [NoBuild EXCEPT !.pc = "create"]
  /\ UNCHANGED <<storage, dir, index, edit, history>>

\* the file does not load: the generation is given up (an error of the update
\* is ignored) and a full build started
LoadRecovers ==
  /\ index = NoIndex /\ build.pc = "idle" /\ Len(meta) < MaxBuilds
  /\ ActiveDir = Corrupt
  /\ LET m == [meta EXCEPT ![ActiveMetadata].status = "failed", ![ActiveMetadata].active = FALSE]
     IN  \/ UpdateMeta(m) /\ UNCHANGED <<errors, torn>>
         \/ UpdateMetaThrows(m) /\ torn' = torn \cup {"activate"}
  /\ current' = 0 /\ served' = 0
  /\ build' = [NoBuild EXCEPT !.pc = "create"]
  /\ UNCHANGED <<docs, docFile, dir, index, edit, overlapped, edits, crashes>>

(***************************************************************************)
(* indexDocument and deleteDocument, after loadActiveIndex has returned    *)
(***************************************************************************)

\* both change the index in memory first
EditBegins(op, d, v) ==
  /\ index # NoIndex /\ edit.pc = "idle"
  /\ edits < MaxEdits
  /\ edits' = edits + 1
  /\ index' = [index EXCEPT ![d] = v]
  /\ edit' = [pc |-> "save", op |-> op, doc |-> d]
  /\ overlapped' = (overlapped \/ build.pc # "idle")
  /\ UNCHANGED <<storage, dir, current, build, served, torn, crashes, errors>>

\* a document whose content is indexed already is skipped
IndexDocument(d) ==
  docs[d].ver > 0 /\ index # NoIndex /\ index[d] # docs[d].ver
    /\ EditBegins("index", d, docs[d].ver)

DeleteDocument(d) == index # NoIndex /\ index[d] # 0 /\ EditBegins("delete", d, 0)

\* the index in memory is written to the generation the metadata names, and the
\* record's counts are updated
EditSaves ==
  /\ edit.pc = "save"
  /\ current' = ActiveMetadata
  /\ IF ActiveMetadata = 0 THEN UNCHANGED <<meta, metaFile, dir>>
     ELSE dir' = [dir EXCEPT ![ActiveMetadata] = index] /\ UpdateMeta(meta)
  /\ edit' = [edit EXCEPT !.pc = "mark"]
  /\ UNCHANGED <<docs, docFile, index, build, history>>

\* the index or the counts cannot be written: the call rejects
EditFails ==
  /\ edit.pc = "save" /\ ActiveMetadata # 0
  /\ errors < MaxErrors
  /\ errors' = errors + 1
  /\ current' = ActiveMetadata
  /\ dir' \in {dir, [dir EXCEPT ![ActiveMetadata] = index]}
  /\ edit' = NoEdit
  /\ UNCHANGED <<storage, index, build, overlapped, served, torn, edits, crashes>>

\* an error of this update rejects indexDocument and is ignored by deleteDocument
EditMarks ==
  /\ edit.pc = "mark"
  /\ LET status == IF edit.op = "index" THEN "indexed" ELSE "not_indexed"
         marked == [docs EXCEPT ![edit.doc].status = status]
     IN  \/ UpdateDocs(marked) /\ UNCHANGED errors
         \/ UpdateDocsThrows(marked)
  /\ edit' = NoEdit
  /\ UNCHANGED <<meta, metaFile, dir, memory, build, overlapped, served, torn, edits, crashes>>

(***************************************************************************)
(* The environment                                                         *)
(***************************************************************************)

Damage(b) ==
  /\ errors < MaxErrors /\ dir[b] \in Index
  /\ errors' = errors + 1
  /\ dir' = [dir EXCEPT ![b] = Corrupt]
  /\ UNCHANGED <<storage, memory, build, edit, overlapped, served, torn, edits, crashes>>

\* the process dies and another one reads the files
Crash ==
  /\ crashes < MaxCrashes
  /\ crashes' = crashes + 1
  /\ docs' = docFile /\ meta' = metaFile
  /\ index' = NoIndex /\ current' = 0
  /\ build' = NoBuild /\ edit' = NoEdit
  /\ torn' = torn \cup (IF build.pc = "path" THEN {"create"}
                       ELSE IF build.pc = "activate" THEN {"activate"} ELSE {})
  /\ UNCHANGED <<docFile, metaFile, dir, overlapped, served, edits, errors>>

Next ==
  \/ \E d \in Doc : Crawl(d) \/ IndexDocument(d) \/ DeleteDocument(d) \/ BuildMarks(d)
  \/ \E mode \in Modes : StartBuild(mode)
  \/ BuildCreates \/ BuildRecordsPath \/ BuildRejects \/ BuildClones \/ BuildQueries
  \/ BuildSaves \/ BuildRetires \/ BuildActivates \/ BuildSwaps
  \/ BuildFails \/ ActivationFails
  \/ CleanObsoleteGenerations \/ Prune \/ CleanDone
  \/ LoadActiveIndex \/ LoadRebuilds \/ LoadRecovers
  \/ EditSaves \/ EditFails \/ EditMarks
  \/ \E b \in BuildId : Damage(b)
  \/ Crash

Spec == Init /\ [][Next]_vars

(***************************************************************************)
(* Properties                                                              *)
(***************************************************************************)

\* findActive is never ambiguous, neither in memory nor after a restart.
AtMostOneActive ==
  \A m \in {meta, metaFile} : \A a, b \in ActiveIn(m) : a = b

\* "Guarantees the active generation is never pruned": the generation findActive
\* names has a directory, before and after a restart.
OnDisk(m) == \A b \in ActiveIn(m) : dir[b] # NoIndex
ActiveNeverPruned == OnDisk(meta) /\ OnDisk(metaFile)

\* Divergence, which TLC refutes and no run repeats.  "Failed builds never corrupt or
\* replace an active index": the generation that was activated last keeps its directory
\* until another is activated.  An activation whose second update fails has retired the
\* old generation and activated none, and the next cleanup removes what was served.
ServedKeepsItsDirectory == served # 0 /\ "create" \notin torn => dir[served] # NoIndex

\* What the code keeps of both, through failing builds, failing cleanups and crashes,
\* as long as no build was cut off between the two updates that create its record or
\* the two that activate it (after the latter findActive names nothing, and a cleanup
\* without a cached generation prunes the one that was served): the generation
\* activated last is the one findActive names, in memory and after a restart, and it
\* has its directory.
ServedIsKept ==
  served # 0 /\ torn = {} =>
    /\ dir[served] # NoIndex
    /\ build.pc # "activate" => ActiveIn(meta) = {served} /\ ActiveIn(metaFile) = {served}

\* The index in memory and the active generation on disk are the same, across
\* crashes and failing builds, as long as no document operation overlaps a build
\* (a build that was started before the index was loaded would put its own over
\* the changes of the other) or has failed.
MemoryMatchesDisk ==
  edit.pc = "idle" /\ index # NoIndex /\ ~overlapped /\ errors = 0
    /\ build.pc # "mark" /\ (\A b \in DOMAIN meta : meta[b].path = "own")
    => dir[current] = index

\* A document marked as indexed is in the active generation with the content it
\* was marked for: the incremental builds skip it.
IndexedIsServed ==
  Quiet /\ FindActive # 0 /\ dir[FindActive] \in Index =>
    \A d \in Doc : docs[d].status = "indexed" => dir[FindActive][d] = docs[d].ver

\* It holds as long as operations come one after the other and nothing fails.
ServedWhenUndisturbed ==
  ~overlapped /\ crashes = 0 /\ errors = 0 => IndexedIsServed

\* The same with operations one after the other and a crash: "Preserves the
\* active index intact if a build encounters failure".
ServedAfterCrash == ~overlapped /\ errors = 0 => IndexedIsServed

\* The disk holds the active generation, one in progress and one for each
\* interruption, whatever maxRetained is: a replaced generation is stale at
\* once, and stale ones are always pruned.
GenerationsBounded ==
  Cardinality({b \in BuildId : dir[b] # NoIndex})
    <= 1 + (IF build.pc = "idle" THEN 0 ELSE 1) + crashes + errors

\* Cleanup neither removes what is served nor leaves what has been replaced, wherever
\* builds fail or are interrupted (with the exceptions ServedIsKept names).
CleanupIsRight == ServedIsKept /\ GenerationsBounded

\* What is served is what the records say: the index in memory, the active generation
\* and the documents marked as indexed agree, when operations did not overlap.
ServedFollowsRecords == MemoryMatchesDisk /\ ServedWhenUndisturbed
===============================================================================
