-------------------------- MODULE IndexBuilderProofs --------------------------
(***************************************************************************)
(* Proofs about IndexBuilder, whatever builds, cleanups, document          *)
(* operations, crashes and failing file operations come together:          *)
(*                                                                         *)
(*   IInv       types, and at most one generation is active: an activation *)
(*              is two updates, and nothing is active between them.        *)
(*   DiskInv    whatever is on disk has a record, and the disk does not     *)
(*              fill up: what a cleanup leaves is active or was left by a  *)
(*              failing operation.                                         *)
(*   KeepInv    the generation activated last is active and on disk, as    *)
(*              long as no creation or activation was cut off.             *)
(*   ServedInv  the index in memory, the active generation and the marks   *)
(*              on the documents agree while nothing overlaps or fails.    *)
(***************************************************************************)
EXTENDS IndexBuilder, FiniteSetTheorems, TLAPS

\* A build that is going to create its record has room for it.
BuildsBounded ==
  /\ Len(meta) <= MaxBuilds /\ Len(metaFile) <= MaxBuilds
  /\ build.pc = "create" => Len(meta) < MaxBuilds

\* After the first update of an activation and before the second.
NoneActiveBetween == build.pc = "activate" => ActiveIn(meta) = {}

\* Whatever an index holds is a document that storage has, now and after a
\* restart: this is why a document can be marked as indexed.
Known(i) == \A d \in Doc : i \notin {NoIndex, Corrupt} /\ i[d] # 0 => docs[d].ver # 0
StoredOnly ==
  /\ \A d \in Doc : docFile[d].ver = docs[d].ver
  /\ Known(index) /\ Known(build.new)
  /\ \A b \in BuildId : Known(dir[b])
  /\ \A d \in build.marks : docs[d].ver # 0
  /\ edit.pc # "idle" => docs[edit.doc].ver # 0

IInv == TypeOK /\ BuildsBounded /\ AtMostOneActive /\ NoneActiveBetween /\ StoredOnly

Unique(m) == \A a, b \in ActiveIn(m) : a = b

(***************************************************************************)
(* What the updates of the metadata do to the set of active records.       *)
(***************************************************************************)

\* An update of one field of one record keeps a list of records one.
LEMMA Updated ==
  ASSUME NEW m \in Seq(Record), NEW b,
         NEW r, b \in DOMAIN m => r \in Record
  PROVE  /\ [m EXCEPT ![b] = r] \in Seq(Record)
         /\ Len([m EXCEPT ![b] = r]) = Len(m)
         /\ DOMAIN [m EXCEPT ![b] = r] = DOMAIN m
         /\ \A c \in DOMAIN m : [m EXCEPT ![b] = r][c] = IF c = b THEN r ELSE m[c]
  <1> DEFINE n == [m EXCEPT ![b] = r]
  <1>1. Len(m) \in Nat /\ DOMAIN m = 1..Len(m) /\ \A c \in 1..Len(m) : m[c] \in Record
    OBVIOUS
  <1>2. n \in [1..Len(m) -> Record]
    BY <1>1
  <1>3. n \in Seq(Record) /\ Len(n) = Len(m)
    BY <1>1, <1>2
  <1> QED BY <1>1, <1>3

\* A record that gets another status than "ready" is not active any more.
LEMMA StatusUpdate ==
  ASSUME NEW m \in Seq(Record), NEW b, NEW st \in {"stale", "failed"}
  PROVE  LET n == [m EXCEPT ![b].status = st]
         IN  /\ n \in Seq(Record) /\ Len(n) = Len(m)
             /\ ActiveIn(n) \subseteq ActiveIn(m) \ {b}
  <1> DEFINE r == [m[b] EXCEPT !.status = st]
             n == [m EXCEPT ![b] = r]
  <1>1. ASSUME b \in DOMAIN m PROVE r \in Record /\ r.status = st
    <2>1. m[b] \in Record
      BY <1>1
    <2> QED BY <2>1 DEF Record
  <1>2. n \in Seq(Record) /\ Len(n) = Len(m) /\ DOMAIN n = DOMAIN m
        /\ \A c \in DOMAIN m : n[c] = IF c = b THEN r ELSE m[c]
    <2>1. b \in DOMAIN m => r \in Record
      BY <1>1
    <2> HIDE DEF r
    <2> QED BY <2>1, Updated
  <1>3. ActiveIn(n) \subseteq ActiveIn(m) \ {b}
    BY <1>1, <1>2 DEF ActiveIn
  <1> QED BY <1>2, <1>3

\* The first update of an activation, and the one of loadActiveIndex.
LEMMA Deactivation ==
  ASSUME NEW m \in Seq(Record), NEW b, NEW st \in {"stale", "failed"}
  PROVE  LET n == [m EXCEPT ![b].active = FALSE, ![b].status = st]
         IN  /\ n \in Seq(Record) /\ Len(n) = Len(m)
             /\ ActiveIn(n) \subseteq ActiveIn(m) \ {b}
  <1> DEFINE q == [m[b] EXCEPT !.active = FALSE]
             k == [m EXCEPT ![b] = q]
             n == [k EXCEPT ![b].status = st]
  <1>1. ASSUME b \in DOMAIN m PROVE q \in Record /\ q.active = FALSE
    <2>1. m[b] \in Record
      BY <1>1
    <2> QED BY <2>1 DEF Record
  <1>2. k \in Seq(Record) /\ Len(k) = Len(m) /\ DOMAIN k = DOMAIN m
        /\ \A c \in DOMAIN m : k[c] = IF c = b THEN q ELSE m[c]
    BY <1>1, Updated
  <1>3. ActiveIn(k) \subseteq ActiveIn(m) \ {b}
    BY <1>1, <1>2 DEF ActiveIn
  <1>4. n \in Seq(Record) /\ Len(n) = Len(k) /\ ActiveIn(n) \subseteq ActiveIn(k)
    BY <1>2, StatusUpdate
  <1> QED BY <1>2, <1>3, <1>4

\* The second update of an activation.
LEMMA Activation ==
  ASSUME NEW m \in Seq(Record), NEW b
  PROVE  LET n == [m EXCEPT ![b].active = TRUE, ![b].status = "ready"]
         IN  /\ n \in Seq(Record) /\ Len(n) = Len(m)
             /\ ActiveIn(n) \subseteq ActiveIn(m) \cup {b}
  <1> DEFINE r == [m[b] EXCEPT !.active = TRUE, !.status = "ready"]
             n == [m EXCEPT ![b] = r]
  <1>1. ASSUME b \in DOMAIN m PROVE r \in Record
    <2>1. m[b] \in Record
      BY <1>1
    <2> QED BY <2>1 DEF Record
  <1>2. n \in Seq(Record) /\ Len(n) = Len(m) /\ DOMAIN n = DOMAIN m
        /\ \A c \in DOMAIN m : n[c] = IF c = b THEN r ELSE m[c]
    BY <1>1, Updated
  <1>3. ActiveIn(n) \subseteq ActiveIn(m) \cup {b}
    BY <1>2 DEF ActiveIn
  <1>4. n = [m EXCEPT ![b].active = TRUE, ![b].status = "ready"]
    OBVIOUS
  <1> QED BY <1>2, <1>3, <1>4

\* A record gets its path.
LEMMA PathUpdate ==
  ASSUME NEW m \in Seq(Record), NEW b
  PROVE  LET n == [m EXCEPT ![b].path = "own"]
         IN  /\ n \in Seq(Record) /\ Len(n) = Len(m)
             /\ ActiveIn(n) \subseteq ActiveIn(m)
  <1> DEFINE r == [m[b] EXCEPT !.path = "own"]
             n == [m EXCEPT ![b] = r]
  <1>1. ASSUME b \in DOMAIN m
        PROVE  r \in Record /\ r.status = m[b].status /\ r.active = m[b].active
    <2>1. m[b] \in Record
      BY <1>1
    <2> QED BY <2>1 DEF Record
  <1>2. n \in Seq(Record) /\ Len(n) = Len(m) /\ DOMAIN n = DOMAIN m
        /\ \A c \in DOMAIN m : n[c] = IF c = b THEN r ELSE m[c]
    BY <1>1, Updated
  <1>3. ActiveIn(n) \subseteq ActiveIn(m)
    BY <1>1, <1>2 DEF ActiveIn
  <1> QED BY <1>2, <1>3

\* A new record is not active.
LEMMA CreatedNotActive ==
  ASSUME meta \in Seq(Record)
  PROVE  /\ Created \in Seq(Record) /\ Len(Created) = Len(meta) + 1
         /\ ActiveIn(Created) \subseteq ActiveIn(meta)
  <1> DEFINE r == [status |-> "building", active |-> FALSE, path |-> "root"]
  <1>1. r \in Record
    BY DEF Record
  <1>2. Append(meta, r) \in Seq(Record) /\ Len(Append(meta, r)) = Len(meta) + 1
        /\ \A c \in 1..Len(meta) : Append(meta, r)[c] = meta[c]
        /\ Append(meta, r)[Len(meta) + 1] = r
    BY <1>1
  <1>3. ActiveIn(Append(meta, r)) \subseteq ActiveIn(meta)
    BY <1>2 DEF ActiveIn
  <1> QED BY <1>2, <1>3 DEF Created

\* Since at most one record is active, findActive finds it or nothing.
LEMMA FindActiveFinds ==
  ASSUME meta \in Seq(Record), Unique(meta)
  PROVE  /\ FindActive \in 0..Len(meta)
         /\ ActiveIn(meta) \subseteq {FindActive}
  <1>1. ActiveIn(meta) \subseteq 1..Len(meta)
    BY DEF ActiveIn
  <1>2. CASE ActiveIn(meta) = {}
    BY <1>2 DEF FindActive
  <1>3. CASE ActiveIn(meta) # {}
    <2>1. PICK x : x \in ActiveIn(meta)
      BY <1>3
    <2>2. x \in Nat /\ \A c \in ActiveIn(meta) : c = x
      BY <1>1, <2>1 DEF Unique
    <2>3. \E b \in ActiveIn(meta) : \A c \in ActiveIn(meta) : b <= c
      BY <2>1, <2>2
    <2>4. FindActive \in ActiveIn(meta)
      BY <2>3, <1>3 DEF FindActive
    <2> QED BY <2>2, <2>4, <1>1
  <1> QED BY <1>2, <1>3

LEMMA ActiveMetadataType ==
  ASSUME IInv
  PROVE  /\ ActiveMetadata \in 0..Len(meta)
         /\ ActiveDir \in Index \cup {NoIndex, Corrupt}
  <1>1. ActiveMetadata \in 0..Len(meta)
    BY FindActiveFinds DEF IInv, TypeOK, AtMostOneActive, Unique, ActiveMetadata
  <1>2. ActiveMetadata # 0 => ActiveMetadata \in BuildId
    BY <1>1, ConstantsAssumption DEF IInv, TypeOK, BuildsBounded, BuildId
  <1> QED BY <1>1, <1>2 DEF IInv, TypeOK, ActiveDir

(***************************************************************************)
(* The invariant.                                                          *)
(***************************************************************************)

\* A step that makes no further record active, and writes what memory holds
\* afterwards or nothing, keeps the invariant.
LEMMA NothingActivated ==
  ASSUME IInv, TypeOK', StoredOnly',
         ActiveIn(meta') \subseteq ActiveIn(meta),
         metaFile' \in {metaFile, meta'},
         Len(meta') <= MaxBuilds,
         build'.pc = "create" => Len(meta') < MaxBuilds,
         build'.pc = "activate" => ActiveIn(meta') = {} \/ build.pc = "activate"
  PROVE  IInv'
  <1>1. BuildsBounded'
    BY DEF IInv, BuildsBounded
  <1>2. Unique(meta) /\ Unique(metaFile)
    BY DEF IInv, AtMostOneActive, Unique
  <1>3. Unique(meta') /\ Unique(metaFile')
    BY <1>2 DEF Unique
  <1>4. AtMostOneActive'
    BY <1>3 DEF AtMostOneActive, Unique
  <1>5. NoneActiveBetween'
    BY DEF IInv, NoneActiveBetween
  <1> QED BY <1>1, <1>4, <1>5 DEF IInv

LEMMA InitInvariant == Init => IInv
  <1> SUFFICES ASSUME Init PROVE IInv
    OBVIOUS
  <1> USE ConstantsAssumption
  <1>1. TypeOK
    <2>1. docs \in [Doc -> Stored] /\ docFile \in [Doc -> Stored]
      BY DEF Init, Stored
    <2>2. meta \in Seq(Record) /\ metaFile \in Seq(Record) /\ Len(meta) = 0 /\ DOMAIN meta = {}
      BY DEF Init
    <2>3. dir \in [BuildId -> Index \cup {NoIndex, Corrupt}]
          /\ index \in Index \cup {NoIndex} /\ current \in 0..Len(meta)
      BY <2>2 DEF Init
    <2>4. Empty \in Index
      BY DEF Empty, Index
    <2>5. build \in BuildState(0)
      BY <2>4 DEF Init, NoBuild, Modes, BuildState, BuildPC
    <2>6. edit \in EditState
      BY DEF Init, NoEdit, EditState
    <2> QED BY <2>1, <2>2, <2>3, <2>5, <2>6 DEF Init, TypeOK
  <1>2. BuildsBounded
    BY DEF Init, BuildsBounded, NoBuild
  <1>3. AtMostOneActive
    BY DEF Init, AtMostOneActive, ActiveIn
  <1>4. NoneActiveBetween
    BY DEF Init, NoneActiveBetween, NoBuild
  <1>5. StoredOnly
    BY DEF Init, StoredOnly, Known, NoBuild, Empty, NoEdit
  <1> QED BY <1>1, <1>2, <1>3, <1>4, <1>5 DEF IInv

\* The builds in progress that fit a list of records fit a longer one.
LEMMA BuildStates ==
  ASSUME NEW n \in Nat
  PROVE  /\ NoBuild \in BuildState(n)
         /\ \A k \in 0..n : BuildState(k) \subseteq BuildState(n)
         /\ \A s \in BuildState(n), pc \in BuildPC : [s EXCEPT !.pc = pc] \in BuildState(n)
  <1>1. Empty \in Index
    BY ConstantsAssumption DEF Empty, Index
  <1>2. NoBuild \in BuildState(n)
    BY <1>1 DEF NoBuild, BuildState, BuildPC, Modes
  <1>3. ASSUME NEW k \in 0..n PROVE BuildState(k) \subseteq BuildState(n)
    BY DEF BuildState
  <1>4. ASSUME NEW s \in BuildState(n), NEW pc \in BuildPC
        PROVE  [s EXCEPT !.pc = pc] \in BuildState(n)
    BY DEF BuildState
  <1> QED BY <1>2, <1>3, <1>4

\* A new build that waits to create its record or prunes some.
LEMMA StartedBuilds ==
  ASSUME NEW n \in Nat, NEW mode \in Modes, NEW p \in SUBSET (1..n)
  PROVE  /\ [NoBuild EXCEPT !.pc = "create", !.mode = mode] \in BuildState(n)
         /\ [NoBuild EXCEPT !.pc = "create"] \in BuildState(n)
         /\ [NoBuild EXCEPT !.pc = "prune", !.prune = p] \in BuildState(n)
  <1>1. NoBuild \in BuildState(n)
    BY BuildStates
  <1> QED BY <1>1 DEF BuildState, BuildPC

\* Steps that leave the metadata alone.
LEMMA MetadataUntouched ==
  ASSUME IInv, TypeOK', StoredOnly', UNCHANGED <<meta, metaFile>>,
         build'.pc = "create" => build.pc = "create" \/ Len(meta) < MaxBuilds,
         build'.pc = "activate" => build.pc = "activate"
  PROVE  IInv'
  <1>1. ActiveIn(meta') \subseteq ActiveIn(meta) /\ metaFile' \in {metaFile, meta'}
    OBVIOUS
  <1>2. Len(meta') <= MaxBuilds /\ (build'.pc = "create" => Len(meta') < MaxBuilds)
    BY DEF IInv, BuildsBounded
  <1> QED BY <1>1, <1>2, NothingActivated

(***************************************************************************)
(* Steps that only change documents or the index.                          *)
(***************************************************************************)

\* A document that exists can be marked.
LEMMA Marked ==
  ASSUME NEW r \in Stored, r.ver # 0, NEW st \in {"pending", "indexed", "not_indexed"}
  PROVE  [r EXCEPT !.status = st] \in Stored /\ [r EXCEPT !.status = st].ver = r.ver
  <1>1. r \in [ver : 1..MaxVer, status : {"pending", "indexed", "not_indexed"}]
    BY DEF Stored
  <1> QED BY <1>1 DEF Stored

LEMMA DocumentSteps ==
  ASSUME IInv,
         \/ \E d \in Doc : Crawl(d) \/ IndexDocument(d) \/ DeleteDocument(d) \/ BuildMarks(d)
         \/ EditSaves \/ EditFails \/ EditMarks
         \/ \E b \in BuildId : Damage(b)
  PROVE  IInv'
  <1> USE DEF IInv
  <1>1. ASSUME NEW d \in Doc, Crawl(d) PROVE IInv'
    <2>1. /\ docs[d].ver \in 0..MaxVer /\ MaxVer \in Nat
      BY ConstantsAssumption DEF TypeOK, Stored
    <2>2. docs[d].ver + 1 \in 1..MaxVer
      BY <1>1, <2>1 DEF Crawl
    <2> DEFINE r == [ver |-> docs[d].ver + 1, status |-> "pending"]
    <2>3. r \in Stored /\ r.ver # 0
      BY <2>2 DEF Stored
    <2>4. docs' = [docs EXCEPT ![d] = r] /\ docFile' = docs'
      BY <1>1 DEF Crawl, UpdateDocs
    <2>5. docs' \in [Doc -> Stored] /\ \A c \in Doc : docs[c].ver # 0 => docs'[c].ver # 0
      BY <2>3, <2>4 DEF TypeOK
    <2>6. TypeOK'
      BY <1>1, <2>4, <2>5 DEF TypeOK, Crawl, memory
    <2>7. StoredOnly'
      BY <1>1, <2>4, <2>5 DEF StoredOnly, Known, Crawl, memory, TypeOK, EditState, BuildState
    <2> QED BY <1>1, <2>6, <2>7, MetadataUntouched DEF Crawl
  <1>2. ASSUME NEW op \in {"index", "delete"}, NEW d \in Doc, NEW v \in 0..MaxVer,
               docs[d].ver # 0, EditBegins(op, d, v)
        PROVE  IInv'
    <2>1. index \in Index /\ index' = [index EXCEPT ![d] = v]
      BY <1>2 DEF EditBegins, TypeOK
    <2>2. index' \in Index /\ edit' \in EditState
      BY <1>2, <2>1 DEF Index, EditBegins, EditState
    <2>3. TypeOK'
      BY <1>2, <2>2 DEF TypeOK, EditBegins, storage
    <2>4. index \notin {NoIndex, Corrupt} /\ \A c \in Doc : index'[c] # 0 => docs[c].ver # 0
      BY <1>2, <2>1, ConstantsAssumption DEF StoredOnly, Known, Index
    <2>5. edit'.doc = d /\ UNCHANGED <<docs, docFile, build, dir>>
      BY <1>2 DEF EditBegins, storage
    <2>6. StoredOnly'
      BY <1>2, <2>4, <2>5 DEF StoredOnly, Known
    <2> QED BY <1>2, <2>3, <2>6, MetadataUntouched DEF EditBegins, storage
  <1>3. ASSUME NEW d \in Doc, IndexDocument(d) PROVE IInv'
    <2>1. docs[d].ver \in 0..MaxVer /\ docs[d].ver # 0
      BY <1>3, ConstantsAssumption DEF IndexDocument, TypeOK, Stored
    <2> QED BY <1>2, <1>3, <2>1 DEF IndexDocument
  <1>4. ASSUME NEW d \in Doc, DeleteDocument(d) PROVE IInv'
    <2>1. index \in Index /\ index \notin {NoIndex, Corrupt} /\ index[d] # 0
      BY <1>4, ConstantsAssumption DEF DeleteDocument, TypeOK, Index
    <2>2. 0 \in 0..MaxVer /\ docs[d].ver # 0
      BY <1>4, <2>1, ConstantsAssumption DEF StoredOnly, Known
    <2> QED BY <1>2, <1>4, <2>1, <2>2 DEF DeleteDocument
  <1>5. ASSUME NEW d \in Doc, NEW st \in {"pending", "indexed", "not_indexed"},
               docs[d].ver # 0, docs' = [docs EXCEPT ![d].status = st],
               docFile' \in {docFile, docs'}
        PROVE  /\ docs' \in [Doc -> Stored] /\ docFile' \in [Doc -> Stored]
               /\ \A c \in Doc : docs'[c].ver = docs[c].ver /\ docFile'[c].ver = docs[c].ver
    <2>1. docs \in [Doc -> Stored] /\ docFile \in [Doc -> Stored]
          /\ \A c \in Doc : docFile[c].ver = docs[c].ver
      BY DEF TypeOK, StoredOnly
    <2> DEFINE r == [docs[d] EXCEPT !.status = st]
    <2>2. r \in Stored /\ r.ver = docs[d].ver
      BY <1>5, <2>1, Marked
    <2>3. docs' = [docs EXCEPT ![d] = r]
      BY <1>5
    <2> HIDE DEF r
    <2>4. docs' \in [Doc -> Stored] /\ \A c \in Doc : docs'[c].ver = docs[c].ver
      BY <2>1, <2>2, <2>3
    <2> QED BY <1>5, <2>1, <2>4
  <1>6. ASSUME NEW d \in Doc, BuildMarks(d) PROVE IInv'
    <2>1. docs[d].ver # 0 /\ docs' = [docs EXCEPT ![d].status = "indexed"]
          /\ docFile' \in {docFile, docs'}
      BY <1>6 DEF BuildMarks, UpdateDocs, UpdateDocsThrows, StoredOnly
    <2>2. build' = [build EXCEPT !.marks = @ \ {d}] /\ UNCHANGED <<meta, metaFile, dir, memory, edit, overlapped, served, torn>>
      BY <1>6 DEF BuildMarks
    <2>3. /\ docs' \in [Doc -> Stored] /\ docFile' \in [Doc -> Stored]
          /\ \A c \in Doc : docs'[c].ver = docs[c].ver /\ docFile'[c].ver = docs[c].ver
      BY <1>5, <2>1
    <2>4. build' \in BuildState(Len(meta)) /\ build'.pc = build.pc /\ build'.new = build.new
          /\ build'.marks \subseteq build.marks
      BY <2>2 DEF TypeOK, BuildState
    <2>5. TypeOK'
      BY <2>2, <2>3, <2>4 DEF TypeOK, memory
    <2>6. StoredOnly'
      BY <2>2, <2>3, <2>4, ZenonT(40) DEF StoredOnly, Known, TypeOK, EditState, BuildState, memory
    <2> QED BY <2>2, <2>4, <2>5, <2>6, MetadataUntouched
  <1>7. ASSUME EditMarks PROVE IInv'
    <2>1. PICK st \in {"indexed", "not_indexed"} :
            docs' = [docs EXCEPT ![edit.doc].status = st] /\ docFile' \in {docFile, docs'}
      BY <1>7 DEF EditMarks, UpdateDocs, UpdateDocsThrows
    <2>2. edit.doc \in Doc /\ docs[edit.doc].ver # 0
      BY <1>7 DEF EditMarks, TypeOK, EditState, StoredOnly
    <2>3. /\ docs' \in [Doc -> Stored] /\ docFile' \in [Doc -> Stored]
          /\ \A c \in Doc : docs'[c].ver = docs[c].ver /\ docFile'[c].ver = docs[c].ver
      BY <1>5, <2>1, <2>2
    <2>4. edit' = NoEdit /\ NoEdit \in EditState /\ NoEdit.pc = "idle"
          /\ UNCHANGED <<meta, metaFile, dir, memory, build, overlapped, served, torn>>
      BY <1>7, ConstantsAssumption DEF EditMarks, NoEdit, EditState
    <2>5. TypeOK'
      BY <2>3, <2>4 DEF TypeOK, memory
    <2>6. StoredOnly'
      BY <2>3, <2>4 DEF StoredOnly, Known, memory, TypeOK, BuildState
    <2> QED BY <2>4, <2>5, <2>6, MetadataUntouched
  <1>8. ASSUME EditSaves \/ EditFails PROVE IInv'
    <2>1. /\ UNCHANGED <<docs, docFile, meta, index, build, overlapped, served, torn>>
          /\ metaFile' \in {metaFile, meta}
          /\ current' = ActiveMetadata
          /\ dir' \in {dir, [dir EXCEPT ![ActiveMetadata] = index]}
          /\ edit' \in {NoEdit, [edit EXCEPT !.pc = "mark"]}
          /\ edit.pc = "save"
      BY <1>8 DEF EditSaves, EditFails, UpdateMeta, storage, history
    <2>2. edit' \in EditState /\ (edit'.pc = "idle" \/ edit'.doc = edit.doc)
      BY <2>1, ConstantsAssumption DEF NoEdit, EditState, TypeOK
    <2>3. dir' \in [BuildId -> Index \cup {NoIndex, Corrupt}]
          /\ \A b \in BuildId : dir'[b] \in {dir[b], index}
      BY <2>1 DEF TypeOK
    <2>4. TypeOK'
      BY <2>1, <2>2, <2>3, ActiveMetadataType DEF TypeOK
    <2>5. StoredOnly'
      BY <2>1, <2>2, <2>3 DEF StoredOnly, Known
    <2>6. Len(meta) <= MaxBuilds /\ (build.pc = "create" => Len(meta) < MaxBuilds)
      BY DEF BuildsBounded
    <2> QED BY <2>1, <2>4, <2>5, <2>6, NothingActivated
  <1>9. ASSUME NEW b \in BuildId, Damage(b) PROVE IInv'
    <2>1. dir' = [dir EXCEPT ![b] = Corrupt]
          /\ UNCHANGED <<storage, memory, build, edit, overlapped, served, torn>>
      BY <1>9 DEF Damage
    <2>2. TypeOK'
      BY <2>1 DEF TypeOK, storage, memory
    <2>3. StoredOnly'
      BY <2>1 DEF StoredOnly, Known, storage, memory, TypeOK
    <2> QED BY <2>1, <2>2, <2>3, MetadataUntouched DEF storage
  <1> QED BY <1>1, <1>3, <1>4, <1>6, <1>7, <1>8, <1>9

(***************************************************************************)
(* Steps of a build before its activation.                                 *)
(***************************************************************************)

LEMMA BuildSteps ==
  ASSUME IInv,
         \/ \E mode \in Modes : StartBuild(mode)
         \/ BuildCreates \/ BuildRecordsPath \/ BuildRejects \/ BuildClones \/ BuildQueries
         \/ BuildSaves \/ BuildSwaps
  PROVE  IInv'
  <1> USE DEF IInv
  <1>1. Len(meta) \in Nat /\ build \in BuildState(Len(meta)) /\ NoBuild.new = Empty
        /\ NoBuild.marks = {} /\ Known(Empty)
    BY DEF TypeOK, NoBuild, Known, Empty
  <1>2. ASSUME NEW mode \in Modes, StartBuild(mode) PROVE IInv'
    <2>1. build' = [NoBuild EXCEPT !.pc = "create", !.mode = mode]
          /\ Len(meta) < MaxBuilds /\ UNCHANGED <<storage, dir, memory, edit, served, torn>>
          /\ overlapped' = (overlapped \/ edit.pc # "idle")
      BY <1>2 DEF StartBuild
    <2>2. build' \in BuildState(Len(meta))
      BY <1>1, <2>1, StartedBuilds
    <2>3. build'.new = Empty /\ build'.marks = {} /\ build'.pc = "create"
      BY <2>1 DEF NoBuild
    <2>4. TypeOK'
      BY <2>1, <2>2 DEF TypeOK, storage, memory
    <2>5. StoredOnly'
      BY <1>1, <2>1, <2>3 DEF StoredOnly, Known, storage, memory
    <2> QED BY <2>1, <2>3, <2>4, <2>5, MetadataUntouched DEF storage
  <1>3. ASSUME BuildCreates PROVE IInv'
    <2>1. /\ meta' = Created /\ metaFile' = meta' /\ build.pc = "create"
          /\ build' = [build EXCEPT !.pc = "path", !.id = Len(meta) + 1]
          /\ UNCHANGED <<docs, docFile, dir, memory, edit, overlapped, served, torn>>
      BY <1>3 DEF BuildCreates, UpdateMeta, history
    <2>2. meta' \in Seq(Record) /\ Len(meta') = Len(meta) + 1
          /\ ActiveIn(meta') \subseteq ActiveIn(meta)
      BY <2>1, CreatedNotActive DEF TypeOK
    <2>3. build' \in BuildState(Len(meta')) /\ build'.new = build.new
          /\ build'.marks = build.marks /\ build'.pc = "path"
      <3>1. Len(meta') \in Nat /\ build \in BuildState(Len(meta'))
            /\ Len(meta) + 1 \in 0..Len(meta')
        BY <1>1, <2>2, BuildStates
      <3> QED BY <2>1, <3>1 DEF BuildState, BuildPC
    <2>4. TypeOK'
      BY <2>1, <2>2, <2>3 DEF TypeOK, memory
    <2>5. StoredOnly'
      BY <2>1, <2>3 DEF StoredOnly, Known, memory
    <2>6. Len(meta') <= MaxBuilds
      BY <1>1, <2>1, <2>2, ConstantsAssumption DEF BuildsBounded
    <2> QED BY <2>1, <2>2, <2>3, <2>4, <2>5, <2>6, NothingActivated
  <1>4. ASSUME BuildRecordsPath PROVE IInv'
    <2>1. /\ meta' = PathRecorded /\ metaFile' = meta' /\ build.pc = "path"
          /\ build' = [build EXCEPT !.pc = "clone"]
          /\ UNCHANGED <<docs, docFile, dir, memory, edit, overlapped, served, torn>>
      BY <1>4 DEF BuildRecordsPath, UpdateMeta, history, Goto
    <2>2. meta' \in Seq(Record) /\ Len(meta') = Len(meta)
          /\ ActiveIn(meta') \subseteq ActiveIn(meta)
      BY <2>1, PathUpdate DEF TypeOK, PathRecorded
    <2>3. build' \in BuildState(Len(meta')) /\ build'.new = build.new
          /\ build'.marks = build.marks /\ build'.pc = "clone"
      BY <1>1, <2>1, <2>2 DEF BuildState, BuildPC
    <2>4. TypeOK'
      BY <2>1, <2>2, <2>3 DEF TypeOK, memory
    <2>5. StoredOnly'
      BY <2>1, <2>3 DEF StoredOnly, Known, memory
    <2>6. Len(meta') <= MaxBuilds
      BY <2>2 DEF BuildsBounded
    <2> QED BY <2>1, <2>2, <2>3, <2>4, <2>5, <2>6, NothingActivated
  <1>5. ASSUME BuildRejects PROVE IInv'
    <2>1. /\ \/ build.pc = "create" /\ meta' = Created
             \/ build.pc = "path" /\ meta' = PathRecorded
          /\ metaFile' = metaFile /\ build' = NoBuild /\ torn' = torn \cup {"create"}
          /\ UNCHANGED <<docs, docFile, dir, memory, edit, overlapped, served>>
      BY <1>5 DEF BuildRejects, UpdateMetaThrows
    <2>2. meta' \in Seq(Record) /\ Len(meta') \in {Len(meta), Len(meta) + 1}
          /\ ActiveIn(meta') \subseteq ActiveIn(meta)
          /\ (build.pc # "create" => Len(meta') = Len(meta))
      <3>1. CASE build.pc = "create" /\ meta' = Created
        BY <3>1, CreatedNotActive DEF TypeOK
      <3>2. CASE build.pc = "path" /\ meta' = PathRecorded
        <4>1. PathRecorded \in Seq(Record) /\ Len(PathRecorded) = Len(meta)
              /\ ActiveIn(PathRecorded) \subseteq ActiveIn(meta)
          BY PathUpdate DEF TypeOK, PathRecorded
        <4> QED BY <3>2, <4>1
      <3> QED BY <2>1, <3>1, <3>2
    <2>3. build' \in BuildState(Len(meta')) /\ build'.pc = "idle"
      <3>1. Len(meta') \in Nat
        BY <1>1, <2>2
      <3> QED BY <2>1, <3>1, BuildStates DEF NoBuild
    <2>4. TypeOK'
      BY <1>1, <2>1, <2>2, <2>3 DEF TypeOK, memory
    <2>5. StoredOnly'
      BY <1>1, <2>1 DEF StoredOnly, Known, memory
    <2>6. Len(meta') <= MaxBuilds
      BY <1>1, <2>1, <2>2, ConstantsAssumption DEF BuildsBounded
    <2> QED BY <2>1, <2>2, <2>3, <2>4, <2>5, <2>6, NothingActivated
  <1>6. ASSUME BuildClones PROVE IInv'
    <2> DEFINE base == IF ActiveDir = NoIndex THEN Empty ELSE ActiveDir
    <2>1. /\ UNCHANGED <<storage, dir, index, edit, overlapped, served, torn>>
          /\ \/ build' = [build EXCEPT !.pc = "query"] /\ current' = current
             \/ /\ ActiveDir # Corrupt /\ current' = ActiveMetadata
                /\ build' = [build EXCEPT !.pc = "query", !.new = base]
      BY <1>6 DEF BuildClones, history
    <2>2. ActiveDir # Corrupt => base \in Index /\ Known(base)
      <3>1. Empty \in Index
        BY ConstantsAssumption DEF Empty, Index
      <3>2. ActiveDir = NoIndex \/ Known(ActiveDir)
        <4>1. ActiveMetadata \in 0..Len(meta)
          BY ActiveMetadataType
        <4>2. ActiveMetadata = 0 \/ ActiveMetadata \in BuildId
          BY <4>1, <1>1, ConstantsAssumption DEF BuildsBounded, BuildId
        <4> QED BY <4>2 DEF ActiveDir, StoredOnly
      <3> QED BY <1>1, <3>1, <3>2, ActiveMetadataType
    <2> HIDE DEF base
    <2>3. build' \in BuildState(Len(meta)) /\ Known(build'.new)
          /\ build'.marks = build.marks /\ build'.pc = "query"
      BY <1>1, <2>1, <2>2 DEF BuildState, BuildPC, StoredOnly
    <2>4. current' \in 0..Len(meta)
      BY <2>1, ActiveMetadataType DEF TypeOK
    <2>5. TypeOK'
      BY <2>1, <2>3, <2>4 DEF TypeOK, storage
    <2>6. StoredOnly'
      BY <2>1, <2>3 DEF StoredOnly, Known, storage
    <2> QED BY <2>1, <2>3, <2>5, <2>6, MetadataUntouched DEF storage
  <1>7. ASSUME BuildQueries PROVE IInv'
    <2> DEFINE sel == Selected(build.mode)
               new == [d \in Doc |-> IF d \in sel THEN docs[d].ver ELSE build.new[d]]
    <2>1. /\ build' = [build EXCEPT !.pc = "save", !.marks = sel, !.new = new]
          /\ UNCHANGED <<storage, dir, memory, edit, overlapped, served, torn>>
      BY <1>7 DEF BuildQueries, history
    <2>2. sel \subseteq Doc /\ \A d \in sel : docs[d].ver # 0
      BY ConstantsAssumption DEF Selected, TypeOK, Stored
    <2>3. build.new \in Index /\ build.new \notin {NoIndex, Corrupt}
      BY <1>1, ConstantsAssumption DEF BuildState, Index
    <2>4. \A d \in Doc : docs[d].ver \in 0..MaxVer
      BY ConstantsAssumption DEF TypeOK, Stored
    <2>5. new \in Index
      BY <2>3, <2>4 DEF Index
    <2>6. Known(new)
      BY <2>2, <2>3 DEF Known, StoredOnly
    <2> HIDE DEF sel, new
    <2>7. build' \in BuildState(Len(meta)) /\ build'.new = new
          /\ build'.marks = sel /\ build'.pc = "save"
      BY <1>1, <2>1, <2>2, <2>5 DEF BuildState, BuildPC
    <2>8. TypeOK'
      BY <2>1, <2>7 DEF TypeOK, storage, memory
    <2>9. StoredOnly'
      BY <2>1, <2>2, <2>6, <2>7 DEF StoredOnly, Known, storage, memory
    <2> QED BY <2>1, <2>7, <2>8, <2>9, MetadataUntouched DEF storage
  <1>8. ASSUME BuildSaves PROVE IInv'
    <2>1. /\ dir' = [dir EXCEPT ![build.id] = build.new]
          /\ build' = [build EXCEPT !.pc = "retire"]
          /\ UNCHANGED <<storage, memory, edit, overlapped, served, torn>>
      BY <1>8 DEF BuildSaves, history, Goto
    <2>2. build' \in BuildState(Len(meta)) /\ build'.new = build.new
          /\ build'.marks = build.marks /\ build'.pc = "retire" /\ build.new \in Index
      BY <1>1, <2>1 DEF BuildState, BuildPC
    <2>3. dir' \in [BuildId -> Index \cup {NoIndex, Corrupt}]
          /\ \A b \in BuildId : dir'[b] \in {dir[b], build.new}
      BY <2>1, <2>2 DEF TypeOK
    <2>4. TypeOK'
      BY <2>1, <2>2, <2>3 DEF TypeOK, storage, memory
    <2>5. StoredOnly'
      BY <2>1, <2>2, <2>3 DEF StoredOnly, Known, storage, memory
    <2> QED BY <2>1, <2>2, <2>4, <2>5, MetadataUntouched DEF storage
  <1>9. ASSUME BuildSwaps PROVE IInv'
    <2>1. /\ index' = build.new /\ current' = build.id
          /\ build' = [build EXCEPT !.pc = "clean"]
          /\ UNCHANGED <<storage, dir, edit, overlapped, served, torn>>
      BY <1>9 DEF BuildSwaps, history, Goto
    <2>2. build' \in BuildState(Len(meta)) /\ build'.new = build.new
          /\ build'.marks = build.marks /\ build'.pc = "clean"
          /\ build.new \in Index /\ build.id \in 0..Len(meta)
      BY <1>1, <2>1 DEF BuildState, BuildPC
    <2>3. TypeOK'
      BY <2>1, <2>2 DEF TypeOK, storage
    <2>4. StoredOnly'
      BY <2>1, <2>2 DEF StoredOnly, Known, storage
    <2> QED BY <2>1, <2>2, <2>3, <2>4, MetadataUntouched DEF storage
  <1> QED BY <1>2, <1>3, <1>4, <1>5, <1>6, <1>7, <1>8, <1>9

(***************************************************************************)
(* The activation, and the builds that fail.                               *)
(***************************************************************************)

\* The first update leaves nothing active.
LEMMA Retirement ==
  ASSUME IInv
  PROVE  Retired \in Seq(Record) /\ Len(Retired) = Len(meta) /\ ActiveIn(Retired) = {}
  <1>1. meta \in Seq(Record) /\ ActiveIn(meta) \subseteq {FindActive}
    BY FindActiveFinds DEF IInv, TypeOK, AtMostOneActive, Unique
  <1>2. CASE FindActive = 0
    <2>1. 0 \notin ActiveIn(meta)
      BY <1>1 DEF ActiveIn
    <2> QED BY <1>1, <1>2, <2>1 DEF Retired
  <1>3. CASE FindActive # 0
    <2>1. /\ Retired \in Seq(Record) /\ Len(Retired) = Len(meta)
          /\ ActiveIn(Retired) \subseteq ActiveIn(meta) \ {FindActive}
      BY <1>1, <1>3, Deactivation DEF Retired
    <2> QED BY <1>1, <2>1
  <1> QED BY <1>2, <1>3

\* The second update makes the new generation active and no other.
LEMMA NewActivated ==
  ASSUME IInv, build.pc = "activate"
  PROVE  /\ Activated \in Seq(Record) /\ Len(Activated) = Len(meta)
         /\ ActiveIn(Activated) \subseteq {build.id}
  <1>1. meta \in Seq(Record) /\ ActiveIn(meta) = {}
    BY DEF IInv, TypeOK, NoneActiveBetween
  <1>2. /\ Activated \in Seq(Record) /\ Len(Activated) = Len(meta)
        /\ ActiveIn(Activated) \subseteq ActiveIn(meta) \cup {build.id}
    BY <1>1, Activation DEF Activated
  <1> QED BY <1>1, <1>2

\* A build that fails makes nothing active, whichever update it fails in.
LEMMA Failures ==
  ASSUME NEW m \in Seq(Record), Len(m) = Len(meta),
         ActiveIn(m) \subseteq ActiveIn(meta) \cup {build.id}
  PROVE  /\ Failed(m) \in Seq(Record) /\ Len(Failed(m)) = Len(meta)
         /\ ActiveIn(Failed(m)) \subseteq ActiveIn(meta)
  <1>1. /\ Failed(m) \in Seq(Record) /\ Len(Failed(m)) = Len(m)
        /\ ActiveIn(Failed(m)) \subseteq ActiveIn(m) \ {build.id}
    BY StatusUpdate DEF Failed
  <1> QED BY <1>1

LEMMA ActivationSteps ==
  ASSUME IInv, BuildRetires \/ BuildActivates \/ BuildFails \/ ActivationFails
  PROVE  IInv'
  <1> USE DEF IInv
  <1>1. Len(meta) \in Nat /\ build \in BuildState(Len(meta)) /\ NoBuild.new = Empty
        /\ NoBuild.marks = {} /\ Known(Empty) /\ meta \in Seq(Record)
        /\ Len(meta) <= MaxBuilds
    BY DEF TypeOK, NoBuild, Known, Empty, BuildsBounded
  <1>2. ASSUME NEW pc \in {"activate", "mark"}, build' = [build EXCEPT !.pc = pc],
               meta' \in Seq(Record), Len(meta') = Len(meta), metaFile' = meta',
               served' \in {served, build.id}, torn' \in SUBSET torn,
               UNCHANGED <<docs, docFile, dir, memory, edit, overlapped>>
        PROVE  TypeOK' /\ StoredOnly' /\ BuildsBounded' /\ build'.pc = pc
    <2>1. build' \in BuildState(Len(meta)) /\ build'.new = build.new
          /\ build'.marks = build.marks /\ build'.pc = pc
      BY <1>1, <1>2 DEF BuildState, BuildPC
    <2>2. TypeOK'
      <3>1. build.id \in BuildId \cup {0} /\ served \in BuildId \cup {0}
            /\ torn' \in SUBSET {"create", "activate"}
        <4>1. build.id \in 0..Len(meta) /\ MaxBuilds \in Nat
          BY <1>1, ConstantsAssumption DEF BuildState
        <4> QED BY <1>1, <1>2, <4>1 DEF BuildId, TypeOK
      <3> QED BY <1>2, <2>1, <3>1 DEF TypeOK, memory
    <2>3. StoredOnly'
      BY <1>2, <2>1 DEF StoredOnly, Known, memory
    <2>4. BuildsBounded'
      BY <1>1, <1>2, <2>1 DEF BuildsBounded
    <2> QED BY <2>1, <2>2, <2>3, <2>4
  <1>3. ASSUME BuildRetires PROVE IInv'
    <2>1. meta' = Retired /\ metaFile' = meta' /\ build' = [build EXCEPT !.pc = "activate"]
          /\ UNCHANGED <<docs, docFile, dir, memory, edit, overlapped, served, torn>>
      BY <1>3 DEF BuildRetires, UpdateMeta, Goto, history
    <2>2. meta' \in Seq(Record) /\ Len(meta') = Len(meta) /\ ActiveIn(meta') = {}
      BY <2>1, Retirement
    <2>3. TypeOK' /\ StoredOnly' /\ BuildsBounded' /\ build'.pc = "activate"
      BY <1>2, <2>1, <2>2
    <2>4. Len(meta') <= MaxBuilds
      BY <1>1, <2>2
    <2> QED BY <2>1, <2>2, <2>3, <2>4, NothingActivated
  <1>4. ASSUME BuildActivates PROVE IInv'
    <2>1. meta' = Activated /\ metaFile' = meta' /\ build' = [build EXCEPT !.pc = "mark"]
          /\ served' = build.id /\ torn' \in SUBSET torn
          /\ build.pc = "activate" /\ UNCHANGED <<docs, docFile, dir, memory, edit, overlapped>>
      BY <1>4 DEF BuildActivates, UpdateMeta, Goto
    <2>2. /\ meta' \in Seq(Record) /\ Len(meta') = Len(meta)
          /\ ActiveIn(meta') \subseteq {build.id}
      BY <2>1, NewActivated
    <2>3. TypeOK' /\ StoredOnly' /\ BuildsBounded' /\ build'.pc = "mark"
      BY <1>2, <2>1, <2>2
    <2>4. AtMostOneActive'
      BY <2>1, <2>2 DEF AtMostOneActive
    <2>5. NoneActiveBetween'
      BY <2>3 DEF NoneActiveBetween
    <2> QED BY <2>3, <2>4, <2>5
  <1>5. ASSUME BuildFails \/ ActivationFails PROVE IInv'
    <2>1. PICK m : /\ \/ m = meta
                      \/ m = Retired
                      \/ m = Activated /\ build.pc = "activate"
                   /\ meta' = Failed(m) /\ metaFile' \in {metaFile, meta'}
      BY <1>5 DEF BuildFails, ActivationFails, CatchBlock
    <2>2. m \in Seq(Record) /\ Len(m) = Len(meta)
          /\ ActiveIn(m) \subseteq ActiveIn(meta) \cup {build.id}
      BY <1>1, <2>1, Retirement, NewActivated
    <2>3. meta' \in Seq(Record) /\ Len(meta') = Len(meta)
          /\ ActiveIn(meta') \subseteq ActiveIn(meta)
      BY <2>1, <2>2, Failures
    <2>4. build' = NoBuild /\ current' \in {current, ActiveMetadata}
          /\ dir' \in {dir, [dir EXCEPT ![build.id] = NoIndex]}
          /\ torn' \in {torn, torn \cup {"activate"}}
          /\ UNCHANGED <<docs, docFile, index, edit, overlapped, served>>
      BY <1>5 DEF BuildFails, ActivationFails, CatchBlock
    <2>5. build' \in BuildState(Len(meta)) /\ build'.pc = "idle"
      BY <1>1, <2>4, BuildStates DEF NoBuild
    <2>6. current' \in 0..Len(meta)
      BY <2>4, ActiveMetadataType DEF TypeOK
    <2>7. dir' \in [BuildId -> Index \cup {NoIndex, Corrupt}]
          /\ \A b \in BuildId : dir'[b] \in {dir[b], NoIndex}
      BY <2>4 DEF TypeOK
    <2>8. metaFile' \in Seq(Record)
      BY <2>1, <2>3 DEF TypeOK
    <2>9. TypeOK'
      BY <2>3, <2>4, <2>5, <2>6, <2>7, <2>8 DEF TypeOK
    <2>10. StoredOnly'
      BY <1>1, <2>4, <2>7 DEF StoredOnly, Known
    <2>11. Len(meta') <= MaxBuilds
      BY <1>1, <2>3
    <2> QED BY <2>1, <2>3, <2>5, <2>9, <2>10, <2>11, NothingActivated
  <1> QED BY <1>3, <1>4, <1>5

(***************************************************************************)
(* Cleanup, loading and restarting.                                        *)
(***************************************************************************)

LEMMA CleanupSteps ==
  ASSUME IInv, CleanObsoleteGenerations \/ Prune \/ CleanDone
  PROVE  IInv'
  <1> USE DEF IInv
  <1>1. Len(meta) \in Nat /\ build \in BuildState(Len(meta)) /\ NoBuild.new = Empty
        /\ NoBuild.marks = {} /\ Known(Empty) /\ meta \in Seq(Record)
        /\ Len(meta) <= MaxBuilds
    BY DEF TypeOK, NoBuild, Known, Empty, BuildsBounded
  <1>2. ASSUME CleanObsoleteGenerations PROVE IInv'
    <2>1. /\ current' = ActiveMetadata
          /\ build' = [NoBuild EXCEPT !.pc = "prune", !.prune = Obsolete]
          /\ UNCHANGED <<storage, dir, index, edit, overlapped, served, torn>>
      BY <1>2 DEF CleanObsoleteGenerations, history
    <2>2. Obsolete \in SUBSET (1..Len(meta))
      BY <1>1 DEF Obsolete
    <2>3. build' \in BuildState(Len(meta))
      <3>1. "full" \in Modes
        BY DEF Modes
      <3> QED BY <1>1, <2>1, <2>2, <3>1, StartedBuilds
    <2>4. build'.new = Empty /\ build'.marks = {} /\ build'.pc = "prune"
      BY <2>1 DEF NoBuild
    <2>5. TypeOK'
      BY <2>1, <2>3, ActiveMetadataType DEF TypeOK, storage
    <2>6. StoredOnly'
      BY <1>1, <2>1, <2>4 DEF StoredOnly, Known, storage
    <2> QED BY <2>1, <2>4, <2>5, <2>6, MetadataUntouched DEF storage
  <1>3. ASSUME Prune PROVE IInv'
    <2>1. PICK b \in build.prune :
            /\ dir' \in {dir, Removed(b)} /\ build' = [build EXCEPT !.prune = @ \ {b}]
            /\ meta' = [meta EXCEPT ![b].status = "stale"] /\ metaFile' \in {metaFile, meta'}
            /\ build.pc = "prune"
            /\ UNCHANGED <<docs, docFile, memory, edit, overlapped, served, torn>>
      BY <1>3 DEF Prune
    <2>2. meta' \in Seq(Record) /\ Len(meta') = Len(meta)
          /\ ActiveIn(meta') \subseteq ActiveIn(meta)
      BY <1>1, <2>1, StatusUpdate
    <2>3. build' \in BuildState(Len(meta)) /\ build'.new = build.new
          /\ build'.marks = build.marks /\ build'.pc = "prune"
      BY <1>1, <2>1 DEF BuildState
    <2>4. dir' \in [BuildId -> Index \cup {NoIndex, Corrupt}]
          /\ \A c \in BuildId : dir'[c] \in {dir[c], NoIndex}
      BY <2>1 DEF TypeOK, Removed
    <2>5. metaFile' \in Seq(Record)
      BY <2>1, <2>2 DEF TypeOK
    <2>6. TypeOK'
      BY <2>1, <2>2, <2>3, <2>4, <2>5 DEF TypeOK, memory
    <2>7. StoredOnly'
      BY <2>1, <2>3, <2>4 DEF StoredOnly, Known, memory
    <2>8. Len(meta') <= MaxBuilds
      BY <1>1, <2>2
    <2> QED BY <2>1, <2>2, <2>3, <2>6, <2>7, <2>8, NothingActivated
  <1>4. ASSUME CleanDone PROVE IInv'
    <2>1. build' = NoBuild /\ UNCHANGED <<storage, dir, memory, edit, overlapped, served, torn>>
      BY <1>4 DEF CleanDone, history
    <2>2. build' \in BuildState(Len(meta)) /\ build'.pc = "idle"
      BY <1>1, <2>1, BuildStates DEF NoBuild
    <2>3. TypeOK'
      BY <2>1, <2>2 DEF TypeOK, storage, memory
    <2>4. StoredOnly'
      BY <1>1, <2>1 DEF StoredOnly, Known, storage, memory
    <2> QED BY <2>1, <2>2, <2>3, <2>4, MetadataUntouched DEF storage
  <1> QED BY <1>2, <1>3, <1>4

LEMMA LoadSteps ==
  ASSUME IInv, LoadActiveIndex \/ LoadRebuilds \/ LoadRecovers \/ Crash
  PROVE  IInv'
  <1> USE DEF IInv
  <1>1. Len(meta) \in Nat /\ Len(metaFile) \in Nat /\ NoBuild.new = Empty
        /\ NoBuild.marks = {} /\ Known(Empty) /\ meta \in Seq(Record)
        /\ Len(meta) <= MaxBuilds
    BY DEF TypeOK, NoBuild, Known, Empty, BuildsBounded
  <1>2. [NoBuild EXCEPT !.pc = "create"] \in BuildState(Len(meta))
    <2>1. "full" \in Modes /\ {} \in SUBSET (1..Len(meta))
      BY DEF Modes
    <2> QED BY <1>1, <2>1, StartedBuilds
  <1>3. ASSUME LoadActiveIndex PROVE IInv'
    <2>1. /\ index' = ActiveDir /\ ActiveDir \notin {NoIndex, Corrupt}
          /\ current' = ActiveMetadata
          /\ UNCHANGED <<storage, dir, build, edit, overlapped, served, torn>>
      BY <1>3 DEF LoadActiveIndex, history
    <2>2. ActiveMetadata \in BuildId /\ ActiveDir = dir[ActiveMetadata]
      BY <1>1, <2>1, ActiveMetadataType, ConstantsAssumption DEF ActiveDir, BuildId
    <2>3. TypeOK'
      BY <2>1, ActiveMetadataType DEF TypeOK, storage
    <2>4. StoredOnly'
      BY <2>1, <2>2 DEF StoredOnly, Known, storage
    <2> QED BY <2>1, <2>3, <2>4, MetadataUntouched DEF storage
  <1>4. ASSUME LoadRebuilds PROVE IInv'
    <2>1. /\ current' = ActiveMetadata /\ build' = [NoBuild EXCEPT !.pc = "create"]
          /\ Len(meta) < MaxBuilds
          /\ UNCHANGED <<storage, dir, index, edit, overlapped, served, torn>>
      BY <1>4 DEF LoadRebuilds, history
    <2>2. build'.new = Empty /\ build'.marks = {} /\ build'.pc = "create"
      BY <2>1 DEF NoBuild
    <2>3. TypeOK'
      BY <1>2, <2>1, ActiveMetadataType DEF TypeOK, storage
    <2>4. StoredOnly'
      BY <1>1, <2>1, <2>2 DEF StoredOnly, Known, storage
    <2> QED BY <2>1, <2>2, <2>3, <2>4, MetadataUntouched DEF storage
  <1>5. ASSUME LoadRecovers PROVE IInv'
    <2>1. /\ meta' = [meta EXCEPT ![ActiveMetadata].status = "failed",
                                  ![ActiveMetadata].active = FALSE]
          /\ metaFile' \in {metaFile, meta'} /\ current' = 0
          /\ build' = [NoBuild EXCEPT !.pc = "create"]
          /\ served' = 0 /\ torn' \in {torn, torn \cup {"activate"}}
          /\ Len(meta) < MaxBuilds /\ UNCHANGED <<docs, docFile, dir, index, edit, overlapped>>
      BY <1>5 DEF LoadRecovers, UpdateMeta, UpdateMetaThrows
    <2>2. meta' = [meta EXCEPT ![ActiveMetadata].active = FALSE,
                               ![ActiveMetadata].status = "failed"]
      BY <2>1
    <2>3. meta' \in Seq(Record) /\ Len(meta') = Len(meta)
          /\ ActiveIn(meta') \subseteq ActiveIn(meta)
      BY <1>1, <2>2, Deactivation
    <2>4. build'.new = Empty /\ build'.marks = {} /\ build'.pc = "create"
      BY <2>1 DEF NoBuild
    <2>5. metaFile' \in Seq(Record)
      <3>1. metaFile \in Seq(Record)
        BY DEF TypeOK
      <3> HIDE DEF IInv
      <3> QED BY <2>1, <2>3, <3>1
    <2>6. TypeOK'
      BY <1>1, <1>2, <2>1, <2>3, <2>5 DEF TypeOK
    <2>7. StoredOnly'
      BY <1>1, <2>1, <2>4 DEF StoredOnly, Known
    <2>8. Len(meta') < MaxBuilds /\ Len(meta') <= MaxBuilds
      BY <1>1, <2>1, <2>3
    <2> QED BY <2>1, <2>3, <2>4, <2>6, <2>7, <2>8, NothingActivated
  <1>6. ASSUME Crash PROVE IInv'
    <2>1. /\ docs' = docFile /\ meta' = metaFile /\ index' = NoIndex /\ current' = 0
          /\ build' = NoBuild /\ edit' = NoEdit
          /\ torn' \in SUBSET (torn \cup {"create", "activate"})
          /\ UNCHANGED <<docFile, metaFile, dir, overlapped, served>>
      BY <1>6 DEF Crash
    <2>2. build' \in BuildState(Len(metaFile)) /\ build'.pc = "idle" /\ 0 \in 0..Len(metaFile)
      <3>1. NoBuild \in BuildState(Len(metaFile))
        BY <1>1, BuildStates
      <3>2. NoBuild.pc = "idle" /\ 0 \in 0..Len(metaFile)
        BY <1>1 DEF NoBuild
      <3> QED BY <2>1, <3>1, <3>2
    <2>3. edit' \in EditState /\ edit'.pc = "idle"
      BY <2>1, ConstantsAssumption DEF NoEdit, EditState
    <2>4. TypeOK'
      BY <2>1, <2>2, <2>3 DEF TypeOK
    <2>5. StoredOnly'
      BY <1>1, <2>1, <2>3 DEF StoredOnly, Known
    <2>6. BuildsBounded' /\ NoneActiveBetween'
      BY <2>1, <2>2 DEF BuildsBounded, NoneActiveBetween
    <2>7. AtMostOneActive'
      BY <2>1 DEF AtMostOneActive, ActiveIn
    <2> QED BY <2>4, <2>5, <2>6, <2>7
  <1> QED BY <1>3, <1>4, <1>5, <1>6

(***************************************************************************)
(* The theorems.                                                           *)
(***************************************************************************)

LEMMA Stuttering == ASSUME IInv, UNCHANGED vars PROVE IInv'
  <1> USE DEF IInv, vars, storage, memory, history
  <1>1. TypeOK'
    BY DEF TypeOK
  <1>2. BuildsBounded' /\ NoneActiveBetween'
    BY DEF BuildsBounded, NoneActiveBetween, ActiveIn
  <1>3. AtMostOneActive'
    BY DEF AtMostOneActive, ActiveIn
  <1>4. StoredOnly'
    BY DEF StoredOnly, Known
  <1> QED BY <1>1, <1>2, <1>3, <1>4

LEMMA InvariantStep == IInv /\ [Next]_vars => IInv'
  BY DocumentSteps, BuildSteps, ActivationSteps, CleanupSteps, LoadSteps, Stuttering DEF Next

\* The invariant holds whatever builds, cleanups, document operations, crashes
\* and failing writes come together, for every number of each of them.
THEOREM Invariance == Spec => []IInv
  BY InitInvariant, InvariantStep, PTL DEF Spec

\* Every value the builder keeps in memory and on disk has its type: a build or
\* a cleanup in progress names records that exist, and only documents that
\* storage has are marked as indexed.
THEOREM TypeCorrect == Spec => []TypeOK
  <1>1. IInv => TypeOK
    BY DEF IInv
  <1> QED BY <1>1, Invariance, PTL

\* At most one generation is active, in memory and in the file a restart reads:
\* the activation of a build is two updates with awaits between them.
THEOREM UniqueActiveGeneration == Spec => []AtMostOneActive
  <1>1. IInv => AtMostOneActive
    BY DEF IInv
  <1> QED BY <1>1, Invariance, PTL

(***************************************************************************)
(* The generations on disk.                                                *)
(***************************************************************************)

RootsIn(m)     == {b \in DOMAIN m : m[b].path = "root"}
ReadyActive(m) == \A b \in DOMAIN m : m[b].status = "ready" => m[b].active

OnDirs  == {b \in BuildId : dir[b] # NoIndex}
Unnamed == IF build.pc = "path" THEN {build.id} ELSE {}
Written == {"retire", "activate", "mark"}
Busy    == Written \cup {"clean", "prune"}
Building == {"path", "clone", "query", "save", "retire", "activate"}

\* What is ready is active, and the file follows memory until a write fails.
RecordsOK ==
  /\ ReadyActive(meta) /\ ReadyActive(metaFile)
  /\ errors \in Nat /\ crashes \in Nat
  /\ Len(metaFile) <= Len(meta)
  /\ errors = 0 => metaFile = meta
  /\ ActiveIn(meta) \subseteq DOMAIN metaFile

\* Nothing but the generation in memory is active, nor is one being built.
ActivityOK ==
  /\ build.pc # "mark" /\ current # 0 => ActiveIn(meta) \subseteq {current}
  /\ build.pc = "mark" => ActiveIn(meta) = {build.id}
  /\ build.pc \in Building \cup {"mark"} => build.id \in DOMAIN metaFile
  /\ build.pc \in Building => build.id \notin {current} \cup ActiveIn(meta) \cup ActiveIn(metaFile)
  /\ edit.pc # "idle" => index # NoIndex
  /\ index # NoIndex => current # 0

\* Whatever is on disk has a record a restart reads.
DirsOK ==
  /\ OnDirs \cup ({current} \ {0}) \subseteq DOMAIN metaFile
  /\ \A b \in BuildId : dir[b] = Corrupt => errors >= 1
  /\ build.pc \in Written => dir[build.id] # NoIndex

\* GenerationsBounded with the active generation counted, on disk or not.
Counted == OnDirs \cup ({ActiveMetadata} \ {0}) \cup ActiveIn(metaFile)
Room    == 1 + (IF build.pc \in Busy THEN 1 ELSE 0) + crashes + errors
CountOK == IsFiniteSet(Counted) /\ Cardinality(Counted) <= Room

\* A cleanup under way leaves the active generation alone, and what it does not
\* remove is that one, or has been left by a failing operation.
PruneOK ==
  build.pc = "prune" => /\ build.prune \cap (ActiveIn(meta) \cup {current}) = {}
                        /\ Cardinality(Counted \ build.prune) <= 1 + crashes + errors

DiskInv == RecordsOK /\ ActivityOK /\ DirsOK /\ PruneOK /\ CountOK

(***************************************************************************)
(* What the updates of the metadata keep besides.                          *)
(***************************************************************************)

\* The update of one record that does not make it active or ready.
Keeps(m, n) ==
  /\ DOMAIN n = DOMAIN m /\ Len(n) = Len(m)
  /\ ActiveIn(n) \subseteq ActiveIn(m)
  /\ ReadyActive(m) => ReadyActive(n)

LEMMA UpdatedKeeps ==
  ASSUME NEW m \in Seq(Record), NEW b, NEW r, NEW n, n = [m EXCEPT ![b] = r],
         b \in DOMAIN m => /\ r \in Record
                           /\ r.status = "ready" => m[b].status = "ready" /\ r.active = m[b].active
  PROVE  /\ Keeps(m, n)
         /\ \A c \in DOMAIN m : c # b => n[c] = m[c]
         /\ b \in DOMAIN m => n[b] = r
  <1>1. /\ Len(n) = Len(m) /\ DOMAIN n = DOMAIN m
        /\ \A c \in DOMAIN m : n[c] = IF c = b THEN r ELSE m[c]
    BY Updated
  <1>2. ActiveIn(n) \subseteq ActiveIn(m)
    BY <1>1 DEF ActiveIn
  <1>3. ReadyActive(m) => ReadyActive(n)
    BY <1>1 DEF ReadyActive
  <1> QED BY <1>1, <1>2, <1>3 DEF Keeps

LEMMA StatusKeeps ==
  ASSUME NEW m \in Seq(Record), NEW b, NEW st \in {"stale", "failed"}
  PROVE  LET n == [m EXCEPT ![b].status = st]
         IN  /\ Keeps(m, n) /\ RootsIn(n) = RootsIn(m)
             /\ ActiveIn(n) = ActiveIn(m) \ {b}
  <1> DEFINE r == [m[b] EXCEPT !.status = st]
             n == [m EXCEPT ![b] = r]
  <1>1. ASSUME b \in DOMAIN m PROVE r \in Record /\ r.status = st /\ r.path = m[b].path
    <2>1. m[b] \in Record
      BY <1>1
    <2> QED BY <2>1 DEF Record
  <1>2. /\ Keeps(m, n) /\ \A c \in DOMAIN m : c # b => n[c] = m[c]
        /\ b \in DOMAIN m => n[b] = r
    <2> HIDE DEF r
    <2> QED BY <1>1, UpdatedKeeps
  <1>3. RootsIn(n) = RootsIn(m)
    BY <1>1, <1>2 DEF RootsIn, Keeps
  <1>4. ActiveIn(n) = ActiveIn(m) \ {b}
    BY <1>1, <1>2 DEF ActiveIn, Keeps
  <1> QED BY <1>2, <1>3, <1>4

LEMMA DeactivationKeeps ==
  ASSUME NEW m \in Seq(Record), NEW b, NEW st \in {"stale", "failed"}
  PROVE  LET n == [m EXCEPT ![b].active = FALSE, ![b].status = st]
         IN  /\ Keeps(m, n) /\ RootsIn(n) = RootsIn(m)
             /\ ActiveIn(n) = ActiveIn(m) \ {b}
  <1> DEFINE r == [m[b] EXCEPT !.active = FALSE, !.status = st]
             n == [m EXCEPT ![b] = r]
  <1>1. ASSUME b \in DOMAIN m PROVE r \in Record /\ r.status = st /\ r.path = m[b].path
    <2>1. m[b] \in Record
      BY <1>1
    <2> QED BY <2>1 DEF Record
  <1>2. /\ Keeps(m, n) /\ \A c \in DOMAIN m : c # b => n[c] = m[c]
        /\ b \in DOMAIN m => n[b] = r
    <2> HIDE DEF r
    <2> QED BY <1>1, UpdatedKeeps
  <1>3. RootsIn(n) = RootsIn(m)
    BY <1>1, <1>2 DEF RootsIn, Keeps
  <1>4. ActiveIn(n) = ActiveIn(m) \ {b}
    BY <1>1, <1>2 DEF ActiveIn, Keeps
  <1>5. n = [m EXCEPT ![b].active = FALSE, ![b].status = st]
    OBVIOUS
  <1> QED BY <1>2, <1>3, <1>4, <1>5

\* The update that gives a record its path.
LEMMA PathKeeps ==
  ASSUME NEW m \in Seq(Record), NEW b
  PROVE  LET n == [m EXCEPT ![b].path = "own"]
         IN  /\ Keeps(m, n) /\ RootsIn(n) = RootsIn(m) \ {b}
             /\ ActiveIn(n) = ActiveIn(m)
  <1> DEFINE r == [m[b] EXCEPT !.path = "own"]
             n == [m EXCEPT ![b] = r]
  <1>1. ASSUME b \in DOMAIN m
        PROVE  /\ r \in Record /\ r.path = "own"
               /\ r.status = m[b].status /\ r.active = m[b].active
    <2>1. m[b] \in Record
      BY <1>1
    <2> QED BY <2>1 DEF Record
  <1>2. /\ Keeps(m, n) /\ \A c \in DOMAIN m : c # b => n[c] = m[c]
        /\ b \in DOMAIN m => n[b] = r
    <2> HIDE DEF r
    <2> QED BY <1>1, UpdatedKeeps, SMTT(30)
  <1>3. RootsIn(n) = RootsIn(m) \ {b}
    BY <1>1, <1>2 DEF RootsIn, Keeps
  <1>4. ActiveIn(n) = ActiveIn(m)
    BY <1>1, <1>2 DEF ActiveIn, Keeps
  <1> QED BY <1>2, <1>3, <1>4

\* The new record is the last one, and has the root for its path.
LEMMA CreatedKeeps ==
  ASSUME meta \in Seq(Record)
  PROVE  /\ DOMAIN Created = DOMAIN meta \cup {Len(meta) + 1}
         /\ Len(Created) = Len(meta) + 1
         /\ ActiveIn(Created) = ActiveIn(meta)
         /\ RootsIn(Created) = RootsIn(meta) \cup {Len(meta) + 1}
         /\ ReadyActive(meta) => ReadyActive(Created)
         /\ Len(meta) + 1 \notin DOMAIN meta
  <1> DEFINE r == [status |-> "building", active |-> FALSE, path |-> "root"]
             k == Len(meta) + 1
  <1>1. /\ DOMAIN Append(meta, r) = DOMAIN meta \cup {k} /\ k \notin DOMAIN meta
        /\ Len(Append(meta, r)) = k
        /\ \A c \in DOMAIN meta : Append(meta, r)[c] = meta[c]
        /\ Append(meta, r)[k] = r
    <2>1. r \in Record
      BY DEF Record
    <2>2. Len(meta) \in Nat /\ DOMAIN meta = 1..Len(meta)
      OBVIOUS
    <2>3. DOMAIN Append(meta, r) = 1..k /\ Len(Append(meta, r)) = k
      BY <2>1, <2>2
    <2> QED BY <2>1, <2>2, <2>3
  <1>2. r.status = "building" /\ r.active = FALSE /\ r.path = "root"
    OBVIOUS
  <1> HIDE DEF r, k
  <1>3. ActiveIn(Append(meta, r)) = ActiveIn(meta)
    BY <1>1, <1>2 DEF ActiveIn
  <1>4. RootsIn(Append(meta, r)) = RootsIn(meta) \cup {k}
    BY <1>1, <1>2 DEF RootsIn
  <1>5. ReadyActive(meta) => ReadyActive(Append(meta, r))
    BY <1>1, <1>2 DEF ReadyActive
  <1> QED BY <1>1, <1>3, <1>4, <1>5 DEF Created, r, k

LEMMA ActivatedKeeps ==
  ASSUME NEW m \in Seq(Record), NEW b
  PROVE  LET n == [m EXCEPT ![b].active = TRUE, ![b].status = "ready"]
         IN  /\ DOMAIN n = DOMAIN m /\ RootsIn(n) = RootsIn(m) /\ Len(n) = Len(m)
             /\ ReadyActive(m) => ReadyActive(n)
             /\ b \in DOMAIN m => ActiveIn(n) = ActiveIn(m) \cup {b}
  <1> DEFINE r == [m[b] EXCEPT !.active = TRUE, !.status = "ready"]
             n == [m EXCEPT ![b] = r]
  <1>1. ASSUME b \in DOMAIN m
        PROVE  r \in Record /\ r.status = "ready" /\ r.active = TRUE /\ r.path = m[b].path
    <2>1. m[b] \in Record
      BY <1>1
    <2> QED BY <2>1 DEF Record
  <1>2. /\ DOMAIN n = DOMAIN m /\ Len(n) = Len(m)
        /\ \A c \in DOMAIN m : n[c] = IF c = b THEN r ELSE m[c]
    <2> HIDE DEF r
    <2> QED BY <1>1, Updated
  <1>3. RootsIn(n) = RootsIn(m)
    BY <1>1, <1>2 DEF RootsIn
  <1>4. ReadyActive(m) => ReadyActive(n)
    BY <1>1, <1>2 DEF ReadyActive
  <1>5. b \in DOMAIN m => ActiveIn(n) = ActiveIn(m) \cup {b}
    BY <1>1, <1>2 DEF ActiveIn
  <1>6. n = [m EXCEPT ![b].active = TRUE, ![b].status = "ready"]
    OBVIOUS
  <1> QED BY <1>2, <1>3, <1>4, <1>5, <1>6

(***************************************************************************)
(* The active generation as a function of the records and of the cache, to *)
(* compare it in two states.                                               *)
(***************************************************************************)

First(S) == IF S = {} THEN 0 ELSE CHOOSE b \in S : \A c \in S : b <= c
ActiveOf(m, c) == IF c # 0 THEN c ELSE First(ActiveIn(m))

LEMMA FirstIs ==
  ASSUME NEW m \in Seq(Record), Unique(m)
  PROVE  /\ ActiveIn(m) \subseteq DOMAIN m /\ 0 \notin DOMAIN m
         /\ First(ActiveIn(m)) = 0 <=> ActiveIn(m) = {}
         /\ First(ActiveIn(m)) # 0 => ActiveIn(m) = {First(ActiveIn(m))}
  <1>1. ActiveIn(m) \subseteq DOMAIN m /\ DOMAIN m = 1..Len(m) /\ Len(m) \in Nat
    BY DEF ActiveIn
  <1>2. CASE ActiveIn(m) = {}
    BY <1>1, <1>2 DEF First
  <1>3. CASE ActiveIn(m) # {}
    <2>1. PICK x : x \in ActiveIn(m)
      BY <1>3
    <2>2. x \in Nat \ {0} /\ \A c \in ActiveIn(m) : c = x
      BY <1>1, <2>1 DEF Unique
    <2>3. \E b \in ActiveIn(m) : \A c \in ActiveIn(m) : b <= c
      BY <2>1, <2>2
    <2>4. First(ActiveIn(m)) \in ActiveIn(m)
      BY <2>3, <1>3 DEF First
    <2> QED BY <1>1, <2>2, <2>4
  <1> QED BY <1>2, <1>3

LEMMA ActiveIs ==
  /\ ActiveMetadata = ActiveOf(meta, current)
  /\ ActiveMetadata' = ActiveOf(meta', current')
  /\ FindActive = First(ActiveIn(meta)) /\ FindActive' = First(ActiveIn(meta'))
  BY DEF ActiveMetadata, FindActive, ActiveOf, First

\* What the cleanups, loads and operations ask for the active generation.
LEMMA ActiveFacts ==
  ASSUME IInv, ActivityOK
  PROVE  /\ meta \in Seq(Record) /\ metaFile \in Seq(Record)
         /\ ActiveIn(meta) \subseteq DOMAIN meta /\ 0 \notin DOMAIN meta
         /\ ActiveIn(metaFile) \subseteq DOMAIN metaFile /\ 0 \notin DOMAIN metaFile
         /\ ActiveMetadata \in {0, current} \cup ActiveIn(meta)
         /\ current # 0 => ActiveMetadata = current
         /\ build.pc # "mark" => ActiveIn(meta) \subseteq {ActiveMetadata}
  <1>1. /\ meta \in Seq(Record) /\ metaFile \in Seq(Record)
        /\ Unique(meta) /\ Unique(metaFile)
    BY DEF IInv, TypeOK, AtMostOneActive, Unique
  <1>2. ActiveMetadata = ActiveOf(meta, current)
    BY ActiveIs
  <1> QED BY <1>1, <1>2, FirstIs DEF ActiveOf, ActivityOK

\* A cache that is filled does not change the active generation.
LEMMA ActiveKept ==
  ASSUME ActiveIn(meta') = ActiveIn(meta), current' \in {current, ActiveMetadata}
  PROVE  ActiveMetadata' = ActiveMetadata
  BY ActiveIs DEF ActiveOf

LEMMA RoomGrows ==
  ASSUME NEW e \in Nat, NEW c \in Nat, NEW b \in 0..1,
         NEW e2 \in Nat, NEW c2 \in Nat, NEW b2 \in 0..1,
         e2 >= e, c2 >= c, b <= b2 \/ e2 > e \/ c2 > c
  PROVE  1 + b2 + c2 + e2 >= 1 + b + c + e
  OBVIOUS

LEMMA CountShrinks ==
  ASSUME CountOK, Counted' \subseteq Counted, RecordsOK,
         errors' \in Nat, crashes' \in Nat, errors' >= errors, crashes' >= crashes,
         build.pc \in Busy => build'.pc \in Busy \/ errors' > errors \/ crashes' > crashes
  PROVE  CountOK'
  <1>1. IsFiniteSet(Counted') /\ Cardinality(Counted') <= Cardinality(Counted)
        /\ Cardinality(Counted) \in Nat /\ Cardinality(Counted') \in Nat
        /\ Cardinality(Counted) <= Room
    BY FS_Subset, FS_CardinalityType DEF CountOK
  <1> DEFINE one == IF build.pc \in Busy THEN 1 ELSE 0
             new == IF build'.pc \in Busy THEN 1 ELSE 0
  <1>2. /\ one \in 0..1 /\ new \in 0..1
        /\ one <= new \/ errors' > errors \/ crashes' > crashes
    OBVIOUS
  <1>3. Room = 1 + one + crashes + errors /\ Room' = 1 + new + crashes' + errors'
    BY DEF Room, Busy, Written
  <1> HIDE DEF one, new
  <1>4. errors \in Nat /\ crashes \in Nat
    BY DEF RecordsOK
  <1>5. 1 + new + crashes' + errors' >= 1 + one + crashes + errors
    BY <1>2, <1>4, RoomGrows
  <1>6. Room' >= Room
    BY <1>3, <1>5
  <1>7. 1 + one + crashes + errors \in Int /\ 1 + new + crashes' + errors' \in Int
    BY <1>2, <1>4
  <1>8. Room \in Int /\ Room' \in Int
    BY <1>3, <1>7
  <1> HIDE DEF Room
  <1> QED BY <1>1, <1>6, <1>8 DEF CountOK

(***************************************************************************)
(* Steps beside the build: documents, edits, loading, damage.              *)
(***************************************************************************)

Aside ==
  /\ meta' = meta /\ metaFile' \in {metaFile, meta}
  /\ build'.pc = build.pc /\ build'.id = build.id /\ build'.prune = build.prune
  /\ current' \in {current, ActiveMetadata}
  /\ errors' \in Nat /\ errors' >= errors /\ crashes' = crashes
  /\ \A b \in BuildId :
       \/ dir'[b] = dir[b]
       \/ /\ dir'[b] # NoIndex /\ (dir[b] # NoIndex \/ b = ActiveMetadata)
          /\ dir'[b] = Corrupt => errors' >= 1
  /\ edit'.pc # "idle" => index' # NoIndex
  /\ index' # NoIndex => current' # 0

LEMMA IdsFit ==
  ASSUME IInv
  PROVE  DOMAIN meta \subseteq BuildId /\ DOMAIN metaFile \subseteq BuildId /\ 0 \notin BuildId
  <1>1. /\ DOMAIN meta = 1..Len(meta) /\ DOMAIN metaFile = 1..Len(metaFile)
        /\ Len(meta) \in Nat /\ Len(metaFile) \in Nat /\ MaxBuilds \in Nat
        /\ Len(meta) <= MaxBuilds /\ Len(metaFile) <= MaxBuilds
    BY ConstantsAssumption DEF IInv, TypeOK, BuildsBounded
  <1> QED BY <1>1 DEF BuildId

LEMMA NotAnIndex == NoIndex \notin Index /\ Corrupt \notin Index /\ NoIndex # Corrupt
  BY ConstantsAssumption DEF Index

LEMMA AsideMoves ==
  ASSUME IInv, DiskInv,
         \/ \E d \in Doc : Crawl(d) \/ IndexDocument(d) \/ DeleteDocument(d) \/ BuildMarks(d)
         \/ EditSaves \/ EditFails \/ EditMarks \/ LoadActiveIndex
         \/ \E b \in BuildId : Damage(b)
  PROVE  Aside
  <1>1. /\ errors \in Nat /\ errors >= errors /\ errors + 1 \in Nat /\ errors + 1 >= errors
        /\ errors + 1 >= 1
        /\ build \in BuildState(Len(meta)) /\ index \in Index \cup {NoIndex}
        /\ dir \in [BuildId -> Index \cup {NoIndex, Corrupt}]
        /\ edit.pc # "idle" => index # NoIndex
        /\ index # NoIndex => current # 0
    BY DEF IInv, TypeOK, DiskInv, RecordsOK, ActivityOK
  <1>2. ASSUME NEW d \in Doc, Crawl(d) PROVE Aside
    BY <1>1, <1>2 DEF Crawl, Aside, memory
  <1>3. ASSUME NEW d \in Doc, NEW op, NEW v, EditBegins(op, d, v), v \in 0..MaxVer PROVE Aside
    <2>1. index' \in Index
      BY <1>1, <1>3 DEF EditBegins, Index
    <2>2. index' # NoIndex /\ index # NoIndex
      BY <1>3, <2>1, NotAnIndex DEF EditBegins
    <2> QED BY <1>1, <1>3, <2>2 DEF EditBegins, Aside, storage
  <1>4. ASSUME NEW d \in Doc, IndexDocument(d) \/ DeleteDocument(d) PROVE Aside
    <2>1. docs[d].ver \in 0..MaxVer /\ 0 \in 0..MaxVer
      BY ConstantsAssumption DEF IInv, TypeOK, Stored
    <2> QED BY <1>3, <1>4, <2>1 DEF IndexDocument, DeleteDocument
  <1>5. ASSUME NEW d \in Doc, BuildMarks(d) PROVE Aside
    <2>1. /\ UNCHANGED <<meta, metaFile, dir, memory, edit, crashes>>
          /\ build' = [build EXCEPT !.marks = @ \ {d}] /\ errors' \in {errors, errors + 1}
      BY <1>5 DEF BuildMarks, UpdateDocs, UpdateDocsThrows
    <2>2. build'.pc = build.pc /\ build'.id = build.id /\ build'.prune = build.prune
      BY <1>1, <2>1 DEF BuildState
    <2> QED BY <1>1, <2>1, <2>2 DEF Aside, memory
  <1>6. ASSUME EditMarks PROVE Aside
    <2>1. /\ UNCHANGED <<meta, metaFile, dir, memory, build, crashes>>
          /\ edit' = NoEdit /\ errors' \in {errors, errors + 1}
      BY <1>6 DEF EditMarks, UpdateDocs, UpdateDocsThrows
    <2> QED BY <1>1, <2>1 DEF Aside, memory, NoEdit
  <1>7. ASSUME EditSaves \/ EditFails PROVE Aside
    <2>1. /\ UNCHANGED <<meta, index, build, crashes>> /\ metaFile' \in {metaFile, meta}
          /\ current' = ActiveMetadata
          /\ dir' \in {dir, [dir EXCEPT ![ActiveMetadata] = index]}
          /\ edit.pc = "save" /\ errors' \in {errors, errors + 1}
      BY <1>7 DEF EditSaves, EditFails, UpdateMeta, storage, history
    <2>2. index \in Index /\ index # NoIndex /\ index # Corrupt /\ current # 0
      BY <1>1, <2>1, NotAnIndex
    <2>3. current' # 0
      BY <2>1, <2>2 DEF ActiveMetadata
    <2>4. \A b \in BuildId :
            dir'[b] = dir[b] \/ (dir'[b] = index /\ b = ActiveMetadata)
      BY <1>1, <2>1
    <2> QED BY <1>1, <2>1, <2>2, <2>3, <2>4 DEF Aside
  <1>8. ASSUME LoadActiveIndex PROVE Aside
    <2>1. ActiveDir # NoIndex /\ current' = ActiveMetadata /\ index = NoIndex
          /\ UNCHANGED <<storage, dir, build, edit, history>>
      BY <1>8 DEF LoadActiveIndex
    <2>2. ActiveMetadata # 0
      BY <2>1 DEF ActiveDir
    <2> QED BY <1>1, <2>1, <2>2 DEF Aside, storage, history
  <1>9. ASSUME NEW b \in BuildId, Damage(b) PROVE Aside
    <2>1. dir' = [dir EXCEPT ![b] = Corrupt] /\ dir[b] \in Index /\ errors' = errors + 1
          /\ UNCHANGED <<storage, memory, build, edit, crashes>>
      BY <1>9 DEF Damage
    <2>2. \A c \in BuildId : dir'[c] = dir[c] \/ (dir'[c] = Corrupt /\ dir[c] # NoIndex)
      BY <1>1, <2>1, NotAnIndex
    <2> QED BY <1>1, <2>1, <2>2, NotAnIndex DEF Aside, storage, memory
  <1> QED BY <1>2, <1>4, <1>5, <1>6, <1>7, <1>8, <1>9

\* Of a finite set that is small enough, a part is.
LEMMA PartFits ==
  ASSUME NEW S, IsFiniteSet(S), NEW T \in SUBSET S, NEW c \in Nat, NEW e \in Nat,
         NEW e2 \in Nat, e2 >= e, Cardinality(S) <= 1 + c + e
  PROVE  Cardinality(T) <= 1 + c + e2
  <1>1. Cardinality(T) <= Cardinality(S) /\ Cardinality(T) \in Nat /\ Cardinality(S) \in Nat
    BY FS_Subset, FS_CardinalityType
  <1> QED BY <1>1

LEMMA AsideKeeps ==
  ASSUME IInv, IInv', DiskInv, Aside
  PROVE  DiskInv'
  <1> USE DEF Aside
  <1>1. /\ RecordsOK /\ ActivityOK /\ DirsOK /\ PruneOK /\ CountOK
        /\ errors \in Nat /\ errors' \in Nat /\ errors' >= errors
        /\ meta \in Seq(Record) /\ metaFile \in Seq(Record)
        /\ DOMAIN meta = 1..Len(meta) /\ DOMAIN metaFile = 1..Len(metaFile)
        /\ Len(meta) \in Nat /\ Len(metaFile) \in Nat
    BY DEF DiskInv, RecordsOK, IInv, TypeOK
  <1>2. RecordsOK'
    BY <1>1 DEF RecordsOK
  <1>3. /\ ActiveMetadata \in {0, current} \cup ActiveIn(meta)
        /\ current # 0 => ActiveMetadata = current
        /\ build.pc # "mark" => ActiveIn(meta) \subseteq {ActiveMetadata}
        /\ ActiveIn(meta) \subseteq DOMAIN meta /\ 0 \notin DOMAIN meta
    BY <1>1, ActiveFacts
  <1>4. ActiveMetadata' = ActiveMetadata /\ ActiveIn(meta') = ActiveIn(meta)
    BY ActiveKept
  <1>5. ActiveIn(metaFile') \in {ActiveIn(metaFile), ActiveIn(meta)}
        /\ DOMAIN metaFile \subseteq DOMAIN metaFile'
    BY <1>1 DEF RecordsOK
  <1>6. ActivityOK'
    <2>1. build'.pc # "mark" /\ current' # 0 => ActiveIn(meta') \subseteq {current'}
      BY <1>1, <1>3, <1>4 DEF ActivityOK
    <2>2. build'.pc \in Building => build.id # 0 /\ build.id # ActiveMetadata
      BY <1>1, <1>3 DEF ActivityOK
    <2> QED BY <1>1, <1>3, <1>4, <1>5, <2>1, <2>2 DEF ActivityOK
  <1>7. OnDirs' \subseteq OnDirs \cup ({ActiveMetadata} \ {0}) /\ OnDirs \subseteq OnDirs'
    <2>1. 0 \notin BuildId
      BY ConstantsAssumption DEF BuildId
    <2> QED BY <2>1 DEF OnDirs
  <1>8. DirsOK'
    <2>1. OnDirs' \cup ({current'} \ {0}) \subseteq DOMAIN metaFile'
      BY <1>1, <1>3, <1>5, <1>7 DEF DirsOK, RecordsOK
    <2>2. \A b \in BuildId : dir'[b] = Corrupt => errors' >= 1
      BY <1>1 DEF DirsOK
    <2>3. build'.pc \in Written => dir'[build'.id] # NoIndex
      <3>1. build'.pc \in Written => build.id \in BuildId
        BY <1>1, IdsFit DEF ActivityOK, Written, Building
      <3> QED BY <1>1, <3>1 DEF DirsOK
    <2> QED BY <2>1, <2>2, <2>3 DEF DirsOK
  <1>9. Counted' \subseteq Counted
    <2>1. ActiveIn(meta) \subseteq OnDirs \cup ({ActiveMetadata} \ {0})
      <3>1. CASE build.pc = "mark"
        <4>1. ActiveIn(meta) = {build.id} /\ dir[build.id] # NoIndex /\ build.id \in BuildId
          BY <1>1, <1>3, <3>1, IdsFit DEF ActivityOK, DirsOK, Written
        <4> QED BY <4>1 DEF OnDirs
      <3> QED BY <1>3, <3>1
    <2> QED BY <1>4, <1>5, <1>7, <2>1 DEF Counted
  <1>10. CountOK'
    <2>1. crashes \in Nat /\ crashes' = crashes
      BY <1>1 DEF RecordsOK
    <2>2. crashes' >= crashes
      BY <2>1
    <2> QED BY <1>1, <1>9, <2>1, <2>2, CountShrinks
  <1>11. PruneOK'
    <2>1. CASE build'.pc = "prune"
      <3>1. Counted' \ build'.prune \in SUBSET (Counted \ build.prune)
            /\ IsFiniteSet(Counted \ build.prune) /\ crashes \in Nat
        BY <1>1, <1>9, FS_Subset DEF CountOK, RecordsOK
      <3>2. Cardinality(Counted' \ build'.prune) <= 1 + crashes + errors'
        BY <1>1, <2>1, <3>1, PartFits DEF PruneOK
      <3>3. build.prune \in SUBSET (1..Len(meta))
        BY <2>1 DEF IInv, TypeOK, BuildState
      <3> QED BY <1>1, <1>3, <1>4, <2>1, <3>2, <3>3 DEF PruneOK
    <2> QED BY <2>1 DEF PruneOK
  <1> QED BY <1>2, <1>6, <1>8, <1>10, <1>11 DEF DiskInv

(***************************************************************************)
(* Steps that make no further generation active and write no directory.    *)
(***************************************************************************)

LEMMA DiskFacts ==
  ASSUME IInv, DiskInv
  PROVE  /\ RecordsOK /\ ActivityOK /\ DirsOK /\ PruneOK /\ CountOK
         /\ meta \in Seq(Record) /\ metaFile \in Seq(Record)
         /\ DOMAIN meta = 1..Len(meta) /\ DOMAIN metaFile = 1..Len(metaFile)
         /\ Len(meta) \in Nat /\ Len(metaFile) \in Nat /\ Len(metaFile) <= Len(meta)
         /\ errors \in Nat /\ crashes \in Nat
         /\ ActiveIn(meta) \subseteq DOMAIN meta
         /\ ActiveIn(metaFile) \subseteq DOMAIN metaFile
         /\ DOMAIN meta \subseteq BuildId /\ DOMAIN metaFile \subseteq BuildId /\ 0 \notin BuildId
         /\ DOMAIN metaFile \subseteq DOMAIN meta /\ current \in {0} \cup DOMAIN meta
         /\ ActiveMetadata \in {0, current} \cup ActiveIn(meta)
         /\ current # 0 => ActiveMetadata = current
         /\ build.pc # "mark" => ActiveIn(meta) \subseteq {ActiveMetadata}
  <1>1. RecordsOK /\ ActivityOK /\ DirsOK /\ PruneOK /\ CountOK
        /\ meta \in Seq(Record) /\ metaFile \in Seq(Record)
    BY DEF DiskInv, IInv, TypeOK
  <1>2. /\ DOMAIN meta = 1..Len(meta) /\ DOMAIN metaFile = 1..Len(metaFile)
        /\ Len(meta) \in Nat /\ Len(metaFile) \in Nat
    BY <1>1
  <1>3. errors \in Nat /\ crashes \in Nat /\ Len(metaFile) <= Len(meta)
    BY <1>1 DEF RecordsOK
  <1>4. DOMAIN metaFile \subseteq DOMAIN meta
    BY <1>2, <1>3
  <1>5. current \in {0} \cup DOMAIN meta
    BY <1>1, <1>4 DEF DirsOK
  <1> QED BY <1>1, <1>2, <1>3, <1>4, <1>5, ActiveFacts, IdsFit

\* What such a step does.
Tame ==
  /\ RecordsOK' /\ PruneOK'
  /\ ActiveIn(meta') \subseteq ActiveIn(meta) /\ metaFile' \in {metaFile, meta'}
  /\ DOMAIN metaFile \subseteq DOMAIN metaFile'
  /\ build.pc # "mark" /\ build'.pc # "mark"
  /\ build'.pc \in Building =>
       /\ build'.id \in DOMAIN metaFile'
       /\ \/ build.pc \in Building /\ build'.id = build.id
          \/ build'.id \notin {current} \cup DOMAIN meta
  /\ edit' = edit /\ index' = index
  /\ \/ current' \in {current, ActiveMetadata}
     \/ current' = 0 /\ index = NoIndex
  /\ \A b \in BuildId : dir'[b] \in {dir[b], NoIndex}
  /\ build'.pc \in Written =>
       build.pc \in Written /\ build'.id = build.id /\ dir'[build.id] = dir[build.id]
  /\ errors' >= errors /\ crashes' = crashes
  /\ (build.pc \in Busy => build'.pc \in Busy \/ errors' > errors) \/ CountOK'

LEMMA TameKeeps ==
  ASSUME IInv, IInv', DiskInv, Tame
  PROVE  DiskInv'
  <1>1. RecordsOK' /\ PruneOK'
    BY DEF Tame
  <1>2. /\ RecordsOK /\ ActivityOK /\ DirsOK /\ CountOK
        /\ 0 \notin BuildId /\ DOMAIN metaFile \subseteq BuildId
        /\ DOMAIN meta \subseteq BuildId
        /\ ActiveIn(meta) \subseteq DOMAIN meta
        /\ ActiveMetadata \in {0, current} \cup ActiveIn(meta)
        /\ current # 0 => ActiveMetadata = current
        /\ ActiveIn(meta) \subseteq {ActiveMetadata}
        /\ ActiveIn(meta) \subseteq DOMAIN metaFile
    BY DiskFacts DEF Tame, RecordsOK
  <1>3. ActiveIn(meta') \subseteq ActiveIn(meta)
        /\ ActiveIn(metaFile') \subseteq ActiveIn(metaFile) \cup ActiveIn(meta)
        /\ DOMAIN metaFile \subseteq DOMAIN metaFile'
    BY DEF Tame
  <1>4. ActivityOK'
    <2>1. build'.pc # "mark" /\ current' # 0 => ActiveIn(meta') \subseteq {current'}
      BY <1>2, <1>3 DEF Tame
    <2>2. build'.pc \in Building =>
            build'.id \notin {current'} \cup ActiveIn(meta') \cup ActiveIn(metaFile')
      <3>1. ASSUME build'.pc \in Building, build.pc \in Building, build'.id = build.id
            PROVE  build'.id \notin {current'} \cup ActiveIn(meta') \cup ActiveIn(metaFile')
        BY <1>2, <1>3, <3>1 DEF ActivityOK, Tame
      <3>2. ASSUME build'.id \notin {current} \cup DOMAIN meta, build'.id \in DOMAIN metaFile',
                   build'.pc \in Building
            PROVE  build'.id \notin {current'} \cup ActiveIn(meta') \cup ActiveIn(metaFile')
        <4>1. ActiveIn(metaFile) \subseteq DOMAIN meta /\ 0 \notin DOMAIN metaFile'
          BY DiskFacts, IdsFit DEF IInv, TypeOK, BuildsBounded
        <4> QED BY <1>2, <1>3, <3>2, <4>1 DEF Tame
      <3> QED BY <3>1, <3>2 DEF Tame
    <2>3. build'.pc \in Building \cup {"mark"} => build'.id \in DOMAIN metaFile'
      BY DEF Tame
    <2>4. /\ edit'.pc # "idle" => index' # NoIndex
          /\ index' # NoIndex => current' # 0
      BY <1>2 DEF Tame, ActivityOK
    <2>5. build'.pc # "mark"
      BY DEF Tame
    <2> QED BY <2>1, <2>2, <2>3, <2>4, <2>5 DEF ActivityOK
  <1>5. OnDirs' \subseteq OnDirs
    BY DEF OnDirs, Tame
  <1>6. DirsOK'
    <2>1. OnDirs' \cup ({current'} \ {0}) \subseteq DOMAIN metaFile'
      BY <1>2, <1>3, <1>5 DEF DirsOK, Tame
    <2>2. \A b \in BuildId : dir'[b] = Corrupt => errors' >= 1
      <3>1. errors \in Nat /\ errors' \in Nat /\ errors' >= errors
        BY <1>1, <1>2 DEF RecordsOK, Tame
      <3>2. \A b \in BuildId : dir'[b] = Corrupt => errors >= 1
        BY <1>2, NotAnIndex DEF DirsOK, Tame
      <3> QED BY <3>1, <3>2
    <2>3. build'.pc \in Written => dir'[build'.id] # NoIndex
      BY <1>2 DEF DirsOK, Tame
    <2> QED BY <2>1, <2>2, <2>3 DEF DirsOK
  <1>7. CountOK'
    <2>1. ActiveMetadata' \in {0, ActiveMetadata}
      <3>1. First(ActiveIn(meta')) \in ActiveIn(meta') \cup {0}
        <4>1. meta' \in Seq(Record) /\ Unique(meta')
          BY DEF IInv, TypeOK, AtMostOneActive, Unique
        <4> QED BY <4>1, FirstIs
      <3> QED BY <1>2, <1>3, <3>1, ActiveIs DEF ActiveOf, Tame
    <2>2. Counted' \subseteq Counted
      BY <1>2, <1>3, <1>5, <2>1 DEF Counted
    <2>3. errors' \in Nat /\ crashes' \in Nat /\ errors' >= errors /\ crashes' >= crashes
      BY <1>1, <1>2 DEF RecordsOK, Tame
    <2> QED BY <1>2, <2>2, <2>3, CountShrinks DEF Tame
  <1> QED BY <1>1, <1>4, <1>6, <1>7 DEF DiskInv

\* Those that leave the records and the directories alone.
LEMMA UntouchedKeeps ==
  ASSUME IInv, IInv', DiskInv,
         UNCHANGED <<meta, metaFile, dir, index, edit, errors, crashes>>,
         current' \in {current, ActiveMetadata},
         build.pc \notin {"path", "mark"}, build'.pc \notin {"path", "mark"} \cup Written,
         build'.pc \in Building => build.pc \in Building /\ build'.id = build.id,
         PruneOK',
         (build.pc \in Busy => build'.pc \in Busy) \/ CountOK'
  PROVE  DiskInv'
  <1>1. /\ RecordsOK /\ ActivityOK /\ errors \in Nat
    BY DiskFacts
  <1>2. RecordsOK' /\ errors' >= errors
    BY <1>1 DEF RecordsOK
  <1>4. build'.pc \in Building => build'.id \in DOMAIN metaFile'
    BY <1>1 DEF ActivityOK
  <1>5. Tame
    BY <1>2, <1>4 DEF Tame
  <1> QED BY <1>5, TameKeeps

Onward ==
  /\ UNCHANGED <<meta, metaFile, dir, index, edit, errors, crashes>>
  /\ current' \in {current, ActiveMetadata}
  /\ \/ build.pc = "idle" /\ build'.pc = "create"
     \/ build.pc \in {"clone", "query"} /\ build'.pc \in {"query", "save"} /\ build'.id = build.id

LEMMA OnwardKeeps ==
  ASSUME IInv, IInv', DiskInv,
         \/ \E mode \in Modes : StartBuild(mode)
         \/ LoadRebuilds \/ BuildClones \/ BuildQueries
  PROVE  DiskInv'
  <1>1. Onward
    <2>1. build \in BuildState(Len(meta)) /\ [NoBuild EXCEPT !.pc = "create"].pc = "create"
      BY DEF IInv, TypeOK, NoBuild
    <2>2. ASSUME NEW mode \in Modes, StartBuild(mode) PROVE Onward
      BY <2>2 DEF Onward, StartBuild, storage, memory, NoBuild
    <2>3. ASSUME LoadRebuilds PROVE Onward
      BY <2>1, <2>3 DEF Onward, LoadRebuilds, storage, history
    <2>4. ASSUME BuildClones PROVE Onward
      BY <2>1, <2>4 DEF Onward, BuildClones, storage, history, BuildState
    <2>5. ASSUME BuildQueries PROVE Onward
      BY <2>1, <2>5 DEF Onward, BuildQueries, storage, history, memory, BuildState
    <2> QED BY <2>2, <2>3, <2>4, <2>5
  <1>2. PruneOK'
    BY <1>1 DEF PruneOK, Onward
  <1> QED BY <1>1, <1>2, UntouchedKeeps DEF Onward, Building, Written, Busy

(***************************************************************************)
(* The cleanup.                                                            *)
(***************************************************************************)

\* It retains the active generation and nothing else.
LEMMA RetainedIs ==
  ASSUME IInv, DiskInv, build.pc # "mark"
  PROVE  ActiveMetadata \in Retained \cup {0} /\ Retained \subseteq {ActiveMetadata}
  <1>1. /\ ActiveIn(meta) \subseteq {ActiveMetadata} /\ ReadyActive(meta)
    BY DiskFacts DEF RecordsOK
  <1>2. {b \in DOMAIN meta : meta[b].status = "ready"} \subseteq {ActiveMetadata}
    BY <1>1 DEF ReadyActive, ActiveIn
  <1> QED BY <1>2 DEF Retained

LEMMA AtMostTwo ==
  ASSUME NEW S, NEW x, NEW y, S \subseteq {x, y}
  PROVE  /\ IsFiniteSet(S) /\ Cardinality(S) \in Nat /\ Cardinality(S) <= 2
         /\ x = y => Cardinality(S) <= 1
  <1>1. IsFiniteSet({x}) /\ Cardinality({x}) = 1
    BY FS_Singleton
  <1>2. IsFiniteSet({x} \cup {y}) /\ Cardinality({x} \cup {y}) \in {1, 2}
    BY <1>1, FS_AddElement
  <1>3. IsFiniteSet(S) /\ Cardinality(S) \in Nat /\ Cardinality(S) <= Cardinality({x} \cup {y})
    <2>1. S \subseteq {x} \cup {y}
      OBVIOUS
    <2> QED BY <1>2, <2>1, FS_Subset, FS_CardinalityType
  <1>4. x = y => {x} \cup {y} = {x}
    OBVIOUS
  <1> QED BY <1>1, <1>2, <1>3, <1>4

LEMMA CleanStartKeeps ==
  ASSUME IInv, IInv', DiskInv, CleanObsoleteGenerations
  PROVE  DiskInv'
  <1>1. /\ UNCHANGED <<meta, metaFile, dir, index, edit, errors, crashes>>
        /\ current' = ActiveMetadata /\ build.pc \in {"clean", "idle"}
        /\ build'.pc = "prune" /\ build'.prune = Obsolete
    BY DEF CleanObsoleteGenerations, storage, history, NoBuild
  <1>2. PruneOK'
    <2>1. ActiveMetadata' = ActiveMetadata /\ ActiveIn(meta') = ActiveIn(meta)
      BY <1>1, ActiveKept
    <2>2. ActiveMetadata \in Retained \cup {0} /\ Retained \subseteq {ActiveMetadata}
      BY <1>1, RetainedIs
    <2>3. /\ ActiveIn(meta) \subseteq {ActiveMetadata} /\ ActiveIn(meta) \subseteq DOMAIN meta
          /\ 0 \notin DOMAIN meta /\ OnDirs \subseteq DOMAIN meta
      BY <1>1, DiskFacts, IdsFit DEF DirsOK
    <2>4. Counted' \ Obsolete \subseteq {ActiveMetadata} \cup ActiveIn(metaFile)
      BY <1>1, <2>1, <2>2, <2>3 DEF Counted, OnDirs, Obsolete
    <2>5. PICK x : ActiveIn(metaFile) \subseteq {x}
      BY DEF IInv, AtMostOneActive
    <2>6. errors = 0 => ActiveIn(metaFile) \subseteq {ActiveMetadata}
      <3>1. errors = 0 => metaFile = meta
        BY DiskFacts DEF RecordsOK
      <3> QED BY <2>3, <3>1
    <2>7. PICK y : Counted' \ Obsolete \subseteq {ActiveMetadata, y}
                   /\ (errors = 0 => y = ActiveMetadata)
      BY <2>4, <2>5, <2>6
    <2>8. Cardinality(Counted' \ Obsolete) <= 1 + crashes + errors
      <3>1. /\ Cardinality(Counted' \ Obsolete) \in Nat /\ Cardinality(Counted' \ Obsolete) <= 2
            /\ errors = 0 => Cardinality(Counted' \ Obsolete) <= 1
        BY <2>7, AtMostTwo
      <3>2. errors \in Nat /\ crashes \in Nat
        BY DiskFacts
      <3> QED BY <3>1, <3>2
    <2> QED BY <1>1, <2>1, <2>2, <2>3, <2>8 DEF PruneOK, Obsolete
  <1> QED BY <1>1, <1>2, UntouchedKeeps DEF Building, Written, Busy

LEMMA CleanEndKeeps ==
  ASSUME IInv, IInv', DiskInv, CleanDone
  PROVE  DiskInv'
  <1>1. /\ UNCHANGED <<meta, metaFile, dir, index, edit, errors, crashes, current>>
        /\ build.pc = "prune" /\ build.prune = {} /\ build'.pc = "idle"
    BY DEF CleanDone, storage, memory, history, NoBuild
  <1>2. PruneOK'
    BY <1>1 DEF PruneOK
  <1>3. CountOK'
    <2>1. ActiveMetadata' = ActiveMetadata
      BY <1>1, ActiveKept
    <2>2. Counted' = Counted /\ Counted \ build.prune = Counted
      BY <1>1, <2>1 DEF Counted, OnDirs
    <2>3. IsFiniteSet(Counted) /\ Cardinality(Counted) <= 1 + crashes + errors
      BY <1>1, <2>2, DiskFacts DEF CountOK, PruneOK
    <2>4. Room' = 1 + 0 + crashes + errors
      BY <1>1 DEF Room, Busy, Written
    <2>5. errors \in Nat /\ crashes \in Nat
      BY DiskFacts
    <2> HIDE DEF Room
    <2>6. Room' = 1 + crashes + errors
      BY <2>4, <2>5
    <2> QED BY <2>2, <2>3, <2>6 DEF CountOK
  <1> QED BY <1>1, <1>2, <1>3, UntouchedKeeps DEF Building, Written, Busy

\* A record that gets another status, and the file with it or not.
LEMMA RecordsStep ==
  ASSUME IInv, DiskInv,
         ReadyActive(meta) => ReadyActive(meta'), Len(meta') \in Nat, Len(meta') >= Len(meta),
         DOMAIN meta \subseteq DOMAIN meta', ActiveIn(meta') \subseteq DOMAIN meta',
         ActiveIn(meta') \subseteq ActiveIn(meta) \/ metaFile' = meta',
         metaFile' \in {metaFile, meta'}, errors' \in Nat, errors' >= errors, crashes' = crashes,
         metaFile' # meta' => errors' > errors
  PROVE  RecordsOK' /\ DOMAIN metaFile \subseteq DOMAIN metaFile'
  <1>1. /\ RecordsOK /\ DOMAIN metaFile \subseteq DOMAIN meta
        /\ errors \in Nat /\ crashes \in Nat /\ Len(meta) \in Nat /\ Len(metaFile) \in Nat
    BY DiskFacts
  <1>2. CASE metaFile' = meta'
    BY <1>1, <1>2 DEF RecordsOK
  <1>3. CASE metaFile' = metaFile /\ metaFile' # meta'
    BY <1>1, <1>3 DEF RecordsOK
  <1> QED BY <1>2, <1>3

(***************************************************************************)
(* The steps of a build that change its record.                            *)
(***************************************************************************)

LEMMA CreateKeeps ==
  ASSUME IInv, IInv', DiskInv, BuildCreates \/ (build.pc = "create" /\ BuildRejects)
  PROVE  DiskInv'
  <1>1. /\ RecordsOK /\ meta \in Seq(Record) /\ Len(meta) \in Nat /\ errors \in Nat
        /\ ActiveIn(meta) \subseteq DOMAIN meta /\ DOMAIN metaFile \subseteq DOMAIN meta
        /\ current \in {0} \cup DOMAIN meta
    BY DiskFacts DEF DirsOK
  <1>2. /\ meta' = Created /\ metaFile' \in {metaFile, meta'} /\ build.pc = "create"
        /\ UNCHANGED <<dir, index, current, edit, crashes>>
        /\ errors' \in Nat /\ errors' >= errors
        /\ \/ metaFile' = meta' /\ build'.pc = "path" /\ build'.id = Len(meta) + 1
           \/ build'.pc = "idle" /\ errors' > errors
    <2>1. build \in BuildState(Len(meta)) /\ NoBuild.pc = "idle" /\ errors + 1 \in Nat
          /\ errors + 1 > errors /\ errors >= errors /\ errors + 1 >= errors
      BY <1>1 DEF IInv, TypeOK, NoBuild
    <2> QED BY <1>1, <2>1 DEF BuildCreates, BuildRejects, UpdateMeta, UpdateMetaThrows, memory,
                              history, BuildState
  <1>3. /\ DOMAIN meta' = DOMAIN meta \cup {Len(meta) + 1} /\ Len(meta') = Len(meta) + 1
        /\ ActiveIn(meta') = ActiveIn(meta) /\ RootsIn(meta') = RootsIn(meta) \cup {Len(meta) + 1}
        /\ ReadyActive(meta) => ReadyActive(meta')
        /\ Len(meta) + 1 \notin DOMAIN meta
    BY <1>1, <1>2, CreatedKeeps
  <1>4. Len(meta') \in Nat /\ Len(meta') >= Len(meta)
        /\ (metaFile' # meta' => errors' > errors)
    BY <1>1, <1>2, <1>3
  <1>5. RecordsOK' /\ DOMAIN metaFile \subseteq DOMAIN metaFile'
    BY <1>1, <1>2, <1>3, <1>4, RecordsStep
  <1>7. PruneOK' /\ build'.pc \notin Written /\ build'.pc # "mark" /\ build.pc \notin Busy
    BY <1>2 DEF PruneOK, Written, Busy
  <1>8. build'.pc \in Building =>
          build'.id \in DOMAIN metaFile' /\ build'.id \notin {current} \cup DOMAIN meta
    <2>1. Len(meta) + 1 # 0
      BY <1>1
    <2> QED BY <1>1, <1>2, <1>3, <2>1 DEF Building
  <1>9. Tame
    BY <1>2, <1>3, <1>5, <1>7, <1>8 DEF Tame
  <1> QED BY <1>9, TameKeeps

LEMMA PathSteps ==
  ASSUME IInv, IInv', DiskInv, BuildRecordsPath \/ (build.pc = "path" /\ BuildRejects)
  PROVE  DiskInv'
  <1>1. /\ RecordsOK /\ ActivityOK /\ meta \in Seq(Record) /\ Len(meta) \in Nat /\ errors \in Nat
        /\ ActiveIn(meta) \subseteq DOMAIN meta
    BY DiskFacts
  <1>2. /\ meta' = PathRecorded /\ metaFile' \in {metaFile, meta'} /\ build.pc = "path"
        /\ UNCHANGED <<dir, index, current, edit, crashes>>
        /\ errors' \in Nat /\ errors' >= errors
        /\ \/ metaFile' = meta' /\ build'.pc = "clone" /\ build'.id = build.id
           \/ build'.pc = "idle" /\ errors' > errors
    <2>1. build \in BuildState(Len(meta)) /\ NoBuild.pc = "idle" /\ errors + 1 \in Nat
          /\ errors + 1 > errors /\ errors >= errors /\ errors + 1 >= errors
      BY <1>1 DEF IInv, TypeOK, NoBuild
    <2> QED BY <1>1, <2>1 DEF BuildRecordsPath, BuildRejects, UpdateMeta, UpdateMetaThrows, memory,
                              history, BuildState, Goto
  <1>3. /\ Keeps(meta, meta') /\ RootsIn(meta') = RootsIn(meta) \ {build.id}
        /\ ActiveIn(meta') = ActiveIn(meta)
    BY <1>1, <1>2, PathKeeps DEF PathRecorded
  <1>4. RecordsOK' /\ DOMAIN metaFile \subseteq DOMAIN metaFile'
    <2>1. /\ DOMAIN meta' = DOMAIN meta /\ Len(meta') = Len(meta)
          /\ ReadyActive(meta) => ReadyActive(meta')
      BY <1>3 DEF Keeps
    <2>2. Len(meta') \in Nat /\ Len(meta') >= Len(meta)
          /\ (metaFile' # meta' => errors' > errors)
      BY <1>1, <1>2, <2>1
    <2> QED BY <1>1, <1>2, <1>3, <2>1, <2>2, RecordsStep
  <1>6. PruneOK' /\ build'.pc \notin Written /\ build'.pc # "mark" /\ build.pc \notin Busy
    BY <1>2 DEF PruneOK, Written, Busy
  <1>7. build'.pc \in Building =>
          build'.id \in DOMAIN metaFile' /\ build.pc \in Building /\ build'.id = build.id
    BY <1>1, <1>2, <1>4 DEF Building, ActivityOK
  <1>8. Tame
    BY <1>2, <1>3, <1>4, <1>6, <1>7 DEF Tame
  <1> QED BY <1>8, TameKeeps

LEMMA RetireKeeps ==
  ASSUME IInv, IInv', DiskInv, BuildRetires
  PROVE  DiskInv'
  <1>1. /\ RecordsOK /\ ActivityOK /\ DirsOK /\ meta \in Seq(Record) /\ Len(meta) \in Nat
        /\ errors \in Nat /\ ActiveIn(meta) \subseteq DOMAIN meta
    BY DiskFacts
  <1>2. /\ meta' = Retired /\ metaFile' = meta' /\ build.pc = "retire"
        /\ UNCHANGED <<dir, index, current, edit, crashes, errors>>
        /\ build'.pc = "activate" /\ build'.id = build.id
    BY DEF BuildRetires, UpdateMeta, memory, history, Goto, IInv, TypeOK, BuildState
  <1>3. /\ Keeps(meta, meta') /\ ActiveIn(meta') = {}
    <2>1. Retired = meta \/ Keeps(meta, Retired)
      BY <1>1, DeactivationKeeps DEF Retired
    <2>2. Keeps(meta, meta)
      BY DEF Keeps
    <2> QED BY <1>2, <2>1, <2>2, Retirement
  <1>5. RecordsOK' /\ DOMAIN metaFile \subseteq DOMAIN metaFile'
    <2>1. /\ DOMAIN meta' = DOMAIN meta /\ Len(meta') = Len(meta)
          /\ ReadyActive(meta) => ReadyActive(meta')
      BY <1>3 DEF Keeps
    <2>2. Len(meta') \in Nat /\ Len(meta') >= Len(meta) /\ errors' >= errors
      BY <1>1, <1>2, <2>1
    <2> QED BY <1>1, <1>2, <1>3, <2>1, <2>2, RecordsStep
  <1>7. PruneOK' /\ build'.pc # "mark" /\ build'.pc \in Busy /\ errors' >= errors
    BY <1>1, <1>2 DEF PruneOK, Written, Busy
  <1>8. build'.pc \in Building =>
          build'.id \in DOMAIN metaFile' /\ build.pc \in Building /\ build'.id = build.id
    BY <1>1, <1>2, <1>5 DEF Building, ActivityOK
  <1>9. Tame
    BY <1>2, <1>3, <1>5, <1>7, <1>8 DEF Tame, Written
  <1> QED BY <1>9, TameKeeps

\* What a failing build, a pruned generation and one that does not load have in
\* common: a record is made stale or failed, and directories are removed.
Removes ==
  /\ Keeps(meta, meta') /\ RootsIn(meta') = RootsIn(meta)
  /\ metaFile' \in {metaFile, meta'}
  /\ errors' \in Nat /\ errors' >= errors /\ crashes' = crashes
  /\ metaFile' # meta' => errors' > errors
  /\ build.pc # "path" /\ build'.pc # "path"
  /\ \A b \in BuildId : dir'[b] \in {dir[b], NoIndex}

LEMMA RemovesKeeps ==
  ASSUME IInv, DiskInv, Removes
  PROVE  RecordsOK' /\ DOMAIN metaFile \subseteq DOMAIN metaFile'
  <1>1. /\ RecordsOK /\ Len(meta) \in Nat /\ errors \in Nat
        /\ ActiveIn(meta) \subseteq DOMAIN meta
    BY DiskFacts
  <1>2. RecordsOK' /\ DOMAIN metaFile \subseteq DOMAIN metaFile'
    <2>1. /\ DOMAIN meta' = DOMAIN meta /\ Len(meta') = Len(meta)
          /\ ActiveIn(meta') \subseteq ActiveIn(meta)
          /\ ReadyActive(meta) => ReadyActive(meta')
      BY DEF Keeps, Removes
    <2>2. Len(meta') \in Nat /\ Len(meta') >= Len(meta)
      BY <1>1, <2>1
    <2> QED BY <1>1, <2>1, <2>2, RecordsStep DEF Removes
  <1> QED BY <1>2

LEMMA FailureKeeps ==
  ASSUME IInv, IInv', DiskInv, BuildFails \/ ActivationFails
  PROVE  DiskInv'
  <1>1. /\ RecordsOK /\ ActivityOK /\ DirsOK /\ meta \in Seq(Record)
        /\ errors \in Nat /\ ActiveIn(meta) \subseteq DOMAIN meta
        /\ DOMAIN metaFile \subseteq DOMAIN meta
    BY DiskFacts
  <1>2. PICK m \in {meta, Retired, Activated}, n \in {0, 1}, u \in {0, 1}, r \in {0, 1} :
          /\ n = 0 => build.pc = "clone"
          /\ meta' = Failed(m) /\ metaFile' = IF u = 0 THEN Failed(m) ELSE metaFile
          /\ errors' = errors + n + u + r
          /\ dir' = IF r = 0 THEN [dir EXCEPT ![build.id] = NoIndex] ELSE dir
    BY DEF BuildFails, ActivationFails, CatchBlock
  <1>3. /\ build' = NoBuild /\ current' \in {current, ActiveMetadata}
        /\ UNCHANGED <<index, edit, crashes>>
        /\ build.pc \in {"clone", "save", "retire", "activate"}
    BY DEF BuildFails, ActivationFails, CatchBlock
  <1>4. build.id \in DOMAIN meta /\ build.id \notin ActiveIn(meta)
    BY <1>1, <1>3 DEF ActivityOK, Building
  <1>5. /\ Keeps(meta, meta') /\ RootsIn(meta') = RootsIn(meta)
        /\ ActiveIn(meta') \subseteq ActiveIn(meta) \ {build.id}
    <2>1. /\ m \in Seq(Record) /\ DOMAIN m = DOMAIN meta /\ Len(m) = Len(meta)
          /\ RootsIn(m) = RootsIn(meta) /\ (ReadyActive(meta) => ReadyActive(m))
          /\ ActiveIn(m) \subseteq ActiveIn(meta) \cup {build.id}
      <3>1. CASE m = meta
        BY <1>1, <3>1
      <3>2. CASE m = Retired
        <4>1. Retired = meta \/ (Keeps(meta, Retired) /\ RootsIn(Retired) = RootsIn(meta))
          BY <1>1, DeactivationKeeps DEF Retired
        <4>2. Retired \in Seq(Record)
          BY Retirement
        <4> QED BY <1>1, <3>2, <4>1, <4>2 DEF Keeps
      <3>3. CASE m = Activated
        <4>1. Activated \in Seq(Record)
          BY <1>1, Activation DEF Activated
        <4>2. /\ DOMAIN Activated = DOMAIN meta /\ RootsIn(Activated) = RootsIn(meta)
              /\ Len(Activated) = Len(meta) /\ (ReadyActive(meta) => ReadyActive(Activated))
              /\ ActiveIn(Activated) = ActiveIn(meta) \cup {build.id}
          BY <1>1, <1>4, ActivatedKeeps DEF Activated
        <4> QED BY <3>3, <4>1, <4>2
      <3> QED BY <1>2, <3>1, <3>2, <3>3
    <2>2. Keeps(m, meta') /\ RootsIn(meta') = RootsIn(m) /\ ActiveIn(meta') = ActiveIn(m) \ {build.id}
      BY <1>2, <2>1, StatusKeeps DEF Failed
    <2>3. RootsIn(meta') = RootsIn(meta) /\ ActiveIn(meta') \subseteq ActiveIn(meta) \ {build.id}
      BY <2>1, <2>2
    <2>4. DOMAIN meta' = DOMAIN meta /\ Len(meta') = Len(meta)
          /\ (ReadyActive(m) => ReadyActive(meta'))
      BY <2>1, <2>2 DEF Keeps
    <2>5. ReadyActive(meta) => ReadyActive(meta')
      BY <2>1, <2>4
    <2> QED BY <2>3, <2>4, <2>5 DEF Keeps
  <1>6. /\ errors' \in Nat /\ errors' >= errors
        /\ (metaFile' # meta' => errors' > errors)
        /\ (build.pc \in Busy => errors' > errors)
    <2>1. errors + n + u + r \in Nat /\ errors + n + u + r >= errors
          /\ (n = 1 \/ u = 1 => errors + n + u + r > errors)
      BY <1>1
    <2>2. n \in {0, 1} /\ u \in {0, 1}
      OBVIOUS
    <2>3. (metaFile' # meta' => u = 1) /\ (build.pc \in Busy => n = 1)
      BY <1>2, <2>2 DEF Busy, Written
    <2> QED BY <1>2, <2>1, <2>3
  <1>7. NoBuild.pc = "idle"
    BY DEF NoBuild
  <1>8. \A b \in BuildId : dir'[b] \in {dir[b], NoIndex}
    BY <1>2 DEF IInv, TypeOK
  <1>9. Removes
    BY <1>2, <1>3, <1>5, <1>6, <1>7, <1>8 DEF Removes
  <1>10. RecordsOK' /\ DOMAIN metaFile \subseteq DOMAIN metaFile'
    BY <1>9, RemovesKeeps
  <1>11. PruneOK'
    BY <1>3, <1>7 DEF PruneOK
  <1>12. Tame
    BY <1>3, <1>6, <1>7, <1>9, <1>10, <1>11 DEF Tame, Removes, Keeps, Building, Written, Busy
  <1> QED BY <1>12, TameKeeps

LEMMA PruneKeeps ==
  ASSUME IInv, IInv', DiskInv, Prune
  PROVE  DiskInv'
  <1>1. /\ RecordsOK /\ PruneOK /\ meta \in Seq(Record) /\ errors \in Nat /\ 0 \notin BuildId
        /\ ActiveIn(meta) \subseteq DOMAIN meta /\ DOMAIN meta \subseteq BuildId
        /\ build \in BuildState(Len(meta))
        /\ DOMAIN meta = 1..Len(meta)
    BY DiskFacts DEF IInv, TypeOK
  <1>2. PICK b \in build.prune, u \in {0, 1}, r \in {0, 1} :
          /\ build.pc = "prune" /\ dir' = IF r = 0 THEN Removed(b) ELSE dir
          /\ build' = [build EXCEPT !.prune = @ \ {b}]
          /\ meta' = [meta EXCEPT ![b].status = "stale"]
          /\ metaFile' = IF u = 0 THEN meta' ELSE metaFile
          /\ errors' = errors + u + r
          /\ UNCHANGED <<index, current, edit, crashes>>
    BY DEF Prune, memory
  <1>3. /\ b \notin ActiveIn(meta) /\ b # current /\ b \in DOMAIN meta
        /\ build'.pc = "prune" /\ build'.prune = build.prune \ {b}
    BY <1>1, <1>2 DEF PruneOK, BuildState
  <1>4. /\ Keeps(meta, meta') /\ RootsIn(meta') = RootsIn(meta)
        /\ ActiveIn(meta') = ActiveIn(meta)
    <2>1. "stale" \in {"stale", "failed"}
      OBVIOUS
    <2>2. /\ Keeps(meta, meta') /\ RootsIn(meta') = RootsIn(meta)
          /\ ActiveIn(meta') = ActiveIn(meta) \ {b}
      BY <1>1, <1>2, <2>1, StatusKeeps
    <2> QED BY <1>3, <2>2
  <1>5. /\ \A c \in BuildId : dir'[c] \in {dir[c], NoIndex}
        /\ r = 0 => dir'[b] = NoIndex
    BY <1>1, <1>2, <1>3 DEF Removed
  <1>6. /\ errors' \in Nat /\ errors' >= errors
        /\ (metaFile' # meta' => errors' > errors)
        /\ (r = 1 => errors' > errors)
    <2>1. u \in {0, 1} /\ r \in {0, 1}
      OBVIOUS
    <2> QED BY <1>1, <1>2, <2>1
  <1>7. Removes
    BY <1>2, <1>3, <1>4, <1>5, <1>6 DEF Removes
  <1>8. RecordsOK' /\ DOMAIN metaFile \subseteq DOMAIN metaFile'
    BY <1>7, RemovesKeeps
  <1>9. PruneOK'
    <2>1. ActiveMetadata' = ActiveMetadata
      BY <1>2, <1>4, ActiveKept
    <2>2. IsFiniteSet(Counted \ build.prune) /\ Cardinality(Counted \ build.prune) \in Nat
          /\ Cardinality(Counted \ build.prune) <= 1 + crashes + errors /\ crashes \in Nat
      <3>1. Counted \ build.prune \subseteq Counted /\ crashes \in Nat /\ CountOK
        BY DiskFacts
      <3> QED BY <1>1, <1>2, <3>1, FS_Subset, FS_CardinalityType DEF CountOK, PruneOK
    <2>3. OnDirs' \subseteq OnDirs /\ ActiveIn(meta) \subseteq {ActiveMetadata}
      BY <1>2, <1>5, DiskFacts DEF OnDirs
    <2>4. ActiveIn(metaFile') \subseteq ActiveIn(metaFile) \cup {ActiveMetadata}
          /\ 0 \notin ActiveIn(metaFile')
      <3>1. 0 \notin DOMAIN metaFile /\ 0 \notin DOMAIN meta
            /\ ActiveIn(metaFile) \subseteq DOMAIN metaFile
        BY DiskFacts
      <3> QED BY <1>1, <1>2, <1>4, <2>3, <3>1
    <2>5. Counted' \subseteq Counted
      BY <2>1, <2>3, <2>4 DEF Counted
    <2>6. CASE errors' > errors
      <3>1. IsFiniteSet((Counted \ build.prune) \cup {b})
            /\ Cardinality((Counted \ build.prune) \cup {b}) <= 1 + crashes + errors'
        <4>1. /\ IsFiniteSet((Counted \ build.prune) \cup {b})
              /\ Cardinality((Counted \ build.prune) \cup {b})
                   \in {Cardinality(Counted \ build.prune), Cardinality(Counted \ build.prune) + 1}
          BY <2>2, FS_AddElement
        <4> QED BY <1>1, <1>6, <2>2, <2>6, <4>1
      <3>2. Counted' \ build'.prune \in SUBSET ((Counted \ build.prune) \cup {b})
        BY <1>3, <2>5
      <3>3. Cardinality(Counted' \ build'.prune) <= 1 + crashes + errors'
        BY <1>6, <2>2, <3>1, <3>2, PartFits
      <3> QED BY <1>1, <1>2, <1>3, <1>4, <3>3 DEF PruneOK
    <2>7. CASE ~ errors' > errors
      <3>1. metaFile' = meta' /\ r = 0
        <4>1. r \in {0, 1}
          OBVIOUS
        <4> QED BY <1>6, <2>7, <4>1
      <3>2. b \notin Counted'
        <4>1. b \notin OnDirs'
          BY <1>5, <3>1 DEF OnDirs
        <4>2. b \notin {ActiveMetadata} \ {0}
          BY <1>3, DiskFacts
        <4> QED BY <1>3, <1>4, <2>1, <3>1, <4>1, <4>2 DEF Counted
      <3>3. Counted' \ build'.prune \in SUBSET (Counted \ build.prune)
        BY <1>3, <2>5, <3>2
      <3>4. Cardinality(Counted' \ build'.prune) <= 1 + crashes + errors'
        BY <1>1, <1>6, <2>2, <3>3, PartFits
      <3> QED BY <1>1, <1>2, <1>3, <1>4, <3>4 DEF PruneOK
    <2> QED BY <2>6, <2>7
  <1>10. Tame
    BY <1>2, <1>3, <1>6, <1>7, <1>8, <1>9 DEF Tame, Removes, Keeps, Building, Written, Busy
  <1> QED BY <1>10, TameKeeps

LEMMA RecoverKeeps ==
  ASSUME IInv, IInv', DiskInv, LoadRecovers
  PROVE  DiskInv'
  <1>1. /\ RecordsOK /\ DirsOK /\ meta \in Seq(Record) /\ errors \in Nat /\ 0 \notin BuildId
        /\ ActiveIn(meta) \subseteq DOMAIN meta /\ DOMAIN meta \subseteq BuildId
        /\ DOMAIN metaFile \subseteq DOMAIN meta
        /\ ActiveMetadata \in {0, current} \cup ActiveIn(meta)
        /\ current \in {0} \cup DOMAIN meta
    BY DiskFacts
  <1>2. /\ meta' = [meta EXCEPT ![ActiveMetadata].active = FALSE,
                                ![ActiveMetadata].status = "failed"]
        /\ \/ metaFile' = meta' /\ errors' = errors
           \/ metaFile' = metaFile /\ errors' = errors + 1
        /\ build.pc = "idle" /\ build'.pc = "create" /\ ActiveDir = Corrupt
        /\ current' = 0 /\ index = NoIndex
        /\ UNCHANGED <<dir, index, edit, crashes>>
    <2>1. [NoBuild EXCEPT !.pc = "create"].pc = "create"
      BY DEF NoBuild
    <2> QED BY <2>1 DEF LoadRecovers, UpdateMeta, UpdateMetaThrows
  <1>4. /\ Keeps(meta, meta') /\ RootsIn(meta') = RootsIn(meta)
    <2>1. "failed" \in {"stale", "failed"}
      OBVIOUS
    <2> QED BY <1>1, <1>2, <2>1, DeactivationKeeps
  <1>5. /\ errors' \in Nat /\ errors' >= errors
        /\ (metaFile' # meta' => errors' > errors)
    <2>1. errors + 1 \in Nat /\ errors + 1 > errors /\ errors + 1 >= errors /\ errors >= errors
      BY <1>1
    <2> QED BY <1>1, <1>2, <2>1
  <1>6. Removes
    BY <1>2, <1>4, <1>5 DEF Removes
  <1>7. RecordsOK' /\ DOMAIN metaFile \subseteq DOMAIN metaFile'
    BY <1>6, RemovesKeeps
  <1>8. PruneOK'
    BY <1>2 DEF PruneOK
  <1>9. Tame
    BY <1>2, <1>6, <1>7, <1>8 DEF Tame, Removes, Keeps, Building, Written, Busy
  <1> QED BY <1>9, TameKeeps

(***************************************************************************)
(* The steps of a build that put the new generation in place, and a crash. *)
(***************************************************************************)

LEMMA SaveKeeps ==
  ASSUME IInv, IInv', DiskInv, BuildSaves
  PROVE  DiskInv'
  <1>1. /\ RecordsOK /\ ActivityOK /\ DirsOK /\ CountOK
        /\ errors \in Nat /\ crashes \in Nat
        /\ DOMAIN metaFile \subseteq BuildId /\ DOMAIN meta \subseteq BuildId
        /\ ActiveIn(meta) \subseteq DOMAIN meta /\ ActiveIn(metaFile) \subseteq DOMAIN metaFile
    BY DiskFacts
  <1>2. /\ build.pc = "save" /\ build'.pc = "retire" /\ build'.id = build.id
        /\ dir' = [dir EXCEPT ![build.id] = build.new]
        /\ build.new # NoIndex /\ build.new # Corrupt
        /\ UNCHANGED <<meta, metaFile, index, current, edit, errors, crashes>>
    <2>1. build.new \in Index /\ build \in BuildState(Len(meta))
      BY DEF IInv, TypeOK, BuildState
    <2> QED BY <2>1, NotAnIndex DEF BuildSaves, Goto, storage, memory, history, BuildState
  <1>3. build.id \in DOMAIN metaFile /\ build.id \in BuildId
        /\ build.id \notin {current} \cup ActiveIn(meta) \cup ActiveIn(metaFile)
    BY <1>1, <1>2 DEF ActivityOK, Building
  <1>4. \A b \in BuildId : dir'[b] = IF b = build.id THEN build.new ELSE dir[b]
    BY <1>2 DEF IInv, TypeOK
  <1>5. RecordsOK'
    BY <1>1, <1>2 DEF RecordsOK
  <1>6. ActivityOK'
    BY <1>1, <1>2, <1>3 DEF ActivityOK, Building
  <1>7. OnDirs' \subseteq OnDirs \cup {build.id}
    BY <1>4 DEF OnDirs
  <1>8. DirsOK'
    BY <1>1, <1>2, <1>3, <1>4, <1>7 DEF DirsOK
  <1>9. PruneOK'
    BY <1>2 DEF PruneOK
  <1>10. CountOK'
    <2>1. ActiveMetadata' = ActiveMetadata
      BY <1>2, ActiveKept
    <2>2. Counted' \subseteq Counted \cup {build.id}
      BY <1>2, <1>7, <2>1 DEF Counted
    <2>3. IsFiniteSet(Counted) /\ Cardinality(Counted) \in Nat /\ Cardinality(Counted) <= Room
      BY <1>1, FS_CardinalityType DEF CountOK
    <2>4. IsFiniteSet(Counted \cup {build.id})
          /\ Cardinality(Counted \cup {build.id}) \in {Cardinality(Counted), Cardinality(Counted) + 1}
      BY <2>3, FS_AddElement
    <2>5. IsFiniteSet(Counted') /\ Cardinality(Counted') \in Nat
          /\ Cardinality(Counted') <= Cardinality(Counted \cup {build.id})
      BY <2>2, <2>4, FS_Subset, FS_CardinalityType
    <2>6. Room = 1 + 0 + crashes + errors /\ Room' = 1 + 1 + crashes + errors
      BY <1>2 DEF Room, Busy, Written
    <2> HIDE DEF Room
    <2>7. Room' = Room + 1 /\ Room \in Nat
      BY <1>1, <2>6
    <2>8. Cardinality(Counted') <= Room'
      BY <2>3, <2>4, <2>5, <2>7
    <2> QED BY <2>5, <2>8 DEF CountOK
  <1> QED BY <1>5, <1>6, <1>8, <1>9, <1>10 DEF DiskInv

LEMMA ActivateKeeps ==
  ASSUME IInv, IInv', DiskInv, BuildActivates
  PROVE  DiskInv'
  <1>1. /\ RecordsOK /\ ActivityOK /\ DirsOK /\ CountOK /\ meta \in Seq(Record)
        /\ errors \in Nat /\ crashes \in Nat /\ Len(meta) \in Nat
        /\ DOMAIN metaFile \subseteq BuildId /\ DOMAIN metaFile \subseteq DOMAIN meta
        /\ 0 \notin BuildId /\ current \in {0} \cup DOMAIN meta
        /\ current # 0 => ActiveMetadata = current
        /\ ReadyActive(meta)
    BY DiskFacts DEF RecordsOK
  <1>2. /\ build.pc = "activate" /\ build'.pc = "mark" /\ build'.id = build.id
        /\ meta' = Activated /\ metaFile' = meta'
        /\ UNCHANGED <<dir, index, current, edit, errors, crashes>>
    BY DEF BuildActivates, UpdateMeta, Goto, memory, history, IInv, TypeOK, BuildState
  <1>3. build.id \in DOMAIN metaFile /\ build.id \in DOMAIN meta
    BY <1>1, <1>2 DEF ActivityOK, Building
  <1>4. /\ DOMAIN meta' = DOMAIN meta /\ Len(meta') = Len(meta) /\ ReadyActive(meta')
        /\ ActiveIn(meta') = {build.id}
    <2>1. ActiveIn(meta) = {}
      BY <1>2 DEF IInv, NoneActiveBetween
    <2>2. /\ DOMAIN meta' = DOMAIN meta /\ Len(meta') = Len(meta)
          /\ ReadyActive(meta) => ReadyActive(meta')
          /\ ActiveIn(meta') = ActiveIn(meta) \cup {build.id}
      BY <1>1, <1>2, <1>3, ActivatedKeeps DEF Activated
    <2> QED BY <1>1, <2>1, <2>2
  <1>5. RecordsOK'
    BY <1>1, <1>2, <1>3, <1>4 DEF RecordsOK
  <1>6. ActivityOK'
    BY <1>1, <1>2, <1>3, <1>4 DEF ActivityOK, Building
  <1>7. dir[build.id] # NoIndex /\ build.id \in OnDirs
    BY <1>1, <1>2, <1>3 DEF DirsOK, Written, OnDirs
  <1>8. DirsOK'
    <2>1. OnDirs' = OnDirs
      BY <1>2 DEF OnDirs
    <2> QED BY <1>1, <1>2, <1>4, <1>7, <2>1 DEF DirsOK
  <1>9. PruneOK'
    BY <1>2 DEF PruneOK
  <1>10. CountOK'
    <2>1. ActiveMetadata' \in {0, ActiveMetadata, build.id}
      <3>1. First(ActiveIn(meta')) \in {0, build.id}
        <4>1. meta' \in Seq(Record) /\ Unique(meta')
          BY DEF IInv, TypeOK, AtMostOneActive, Unique
        <4> QED BY <1>4, <4>1, FirstIs
      <3> QED BY <1>1, <1>2, <3>1, ActiveIs DEF ActiveOf
    <2>2. OnDirs' = OnDirs
      BY <1>2 DEF OnDirs
    <2>3. Counted' \subseteq Counted
      BY <1>2, <1>4, <1>7, <2>1, <2>2 DEF Counted
    <2>4. errors' >= errors /\ crashes' >= crashes /\ errors' \in Nat /\ crashes' \in Nat
          /\ build'.pc \in Busy
      BY <1>1, <1>2 DEF Busy, Written
    <2> QED BY <1>1, <2>3, <2>4, CountShrinks
  <1> QED BY <1>5, <1>6, <1>8, <1>9, <1>10 DEF DiskInv

LEMMA SwapKeeps ==
  ASSUME IInv, IInv', DiskInv, BuildSwaps
  PROVE  DiskInv'
  <1>1. /\ RecordsOK /\ ActivityOK /\ DirsOK /\ CountOK
        /\ errors \in Nat /\ crashes \in Nat
        /\ DOMAIN metaFile \subseteq BuildId /\ 0 \notin BuildId
    BY DiskFacts
  <1>2. /\ build.pc = "mark" /\ build'.pc = "clean" /\ build'.id = build.id
        /\ current' = build.id /\ index' = build.new
        /\ UNCHANGED <<meta, metaFile, dir, edit, errors, crashes>>
    BY DEF BuildSwaps, Goto, storage, history, IInv, TypeOK, BuildState
  <1>3. /\ build.id \in DOMAIN metaFile /\ build.id \in BuildId /\ build.id # 0
        /\ ActiveIn(meta) = {build.id} /\ dir[build.id] # NoIndex
    BY <1>1, <1>2 DEF ActivityOK, DirsOK, Written
  <1>4. index' # NoIndex
    <2>1. build.new \in Index
      BY DEF IInv, TypeOK, BuildState
    <2> QED BY <1>2, <2>1, NotAnIndex
  <1>5. RecordsOK'
    BY <1>1, <1>2 DEF RecordsOK
  <1>6. ActivityOK'
    BY <1>2, <1>3, <1>4 DEF ActivityOK, Building
  <1>7. OnDirs' = OnDirs /\ build.id \in OnDirs
    BY <1>2, <1>3 DEF OnDirs
  <1>8. DirsOK'
    BY <1>1, <1>2, <1>3, <1>7 DEF DirsOK, Written
  <1>9. PruneOK'
    BY <1>2 DEF PruneOK
  <1>10. CountOK'
    <2>1. ActiveMetadata' = build.id
      BY <1>2, <1>3 DEF ActiveMetadata
    <2>2. Counted' \subseteq Counted
      BY <1>2, <1>7, <2>1 DEF Counted
    <2>3. errors' >= errors /\ crashes' >= crashes /\ errors' \in Nat /\ crashes' \in Nat
          /\ build'.pc \in Busy
      BY <1>1, <1>2 DEF Busy, Written
    <2> QED BY <1>1, <2>2, <2>3, CountShrinks
  <1> QED BY <1>5, <1>6, <1>8, <1>9, <1>10 DEF DiskInv

LEMMA CrashKeeps ==
  ASSUME IInv, IInv', DiskInv, Crash
  PROVE  DiskInv'
  <1>1. /\ RecordsOK /\ DirsOK /\ CountOK
        /\ errors \in Nat /\ crashes \in Nat /\ metaFile \in Seq(Record)
        /\ Len(metaFile) \in Nat
        /\ ActiveIn(metaFile) \subseteq DOMAIN metaFile
    BY DiskFacts
  <1>2. /\ meta' = metaFile /\ index' = NoIndex /\ current' = 0 /\ crashes' = crashes + 1
        /\ build'.pc = "idle" /\ edit'.pc = "idle"
        /\ UNCHANGED <<metaFile, dir, errors>>
    BY DEF Crash, NoBuild, NoEdit
  <1>3. crashes' \in Nat /\ crashes' > crashes /\ crashes' >= crashes /\ errors' >= errors
    BY <1>1, <1>2
  <1>4. RecordsOK'
    <2>1. Len(metaFile') <= Len(meta') /\ ReadyActive(meta') /\ ReadyActive(metaFile')
          /\ metaFile' = meta'
      BY <1>1, <1>2 DEF RecordsOK
    <2> QED BY <1>1, <1>2, <1>3, <2>1 DEF RecordsOK
  <1>5. ActivityOK'
    BY <1>2 DEF ActivityOK, Building
  <1>6. OnDirs' = OnDirs
    BY <1>2 DEF OnDirs
  <1>7. DirsOK'
    BY <1>1, <1>2, <1>6 DEF DirsOK, Written
  <1>8. PruneOK'
    BY <1>2 DEF PruneOK
  <1>9. CountOK'
    <2>1. ActiveMetadata' \in {0} \cup ActiveIn(metaFile)
      <3>1. Unique(metaFile)
        BY DEF IInv, AtMostOneActive, Unique
      <3>2. First(ActiveIn(metaFile)) \in {0} \cup ActiveIn(metaFile)
        BY <1>1, <3>1, FirstIs
      <3> QED BY <1>2, <3>2, ActiveIs DEF ActiveOf
    <2>2. Counted' \subseteq Counted
      BY <1>2, <1>6, <2>1 DEF Counted
    <2> QED BY <1>1, <1>2, <1>3, <2>2, CountShrinks
  <1> QED BY <1>4, <1>5, <1>7, <1>8, <1>9 DEF DiskInv

(***************************************************************************)
(* The theorem about the generations on disk.                              *)
(***************************************************************************)

LEMMA DiskInit == Init => DiskInv
  <1> SUFFICES ASSUME Init PROVE DiskInv
    OBVIOUS
  <1>1. /\ meta = <<>> /\ metaFile = <<>> /\ DOMAIN meta = {} /\ Len(meta) = 0
        /\ ActiveIn(meta) = {} /\ ActiveIn(metaFile) = {}
        /\ current = 0 /\ index = NoIndex /\ errors = 0 /\ crashes = 0
        /\ build.pc = "idle" /\ edit.pc = "idle" /\ OnDirs = {}
        /\ \A b \in BuildId : dir[b] = NoIndex
    BY DEF Init, ActiveIn, NoBuild, NoEdit, OnDirs
  <1>2. RecordsOK
    BY <1>1 DEF RecordsOK, ReadyActive
  <1>3. ActivityOK /\ PruneOK
    BY <1>1 DEF ActivityOK, Building, PruneOK
  <1>4. DirsOK
    BY <1>1, NotAnIndex DEF DirsOK, Written
  <1>5. CountOK
    <2>1. ActiveMetadata = 0
      BY <1>1 DEF ActiveMetadata, FindActive
    <2>2. Counted = {}
      BY <1>1, <2>1 DEF Counted
    <2>3. Room = 1
      BY <1>1 DEF Room, Busy, Written
    <2> QED BY <2>2, <2>3, FS_EmptySet DEF CountOK
  <1> QED BY <1>2, <1>3, <1>4, <1>5 DEF DiskInv

LEMMA DiskStep == IInv /\ DiskInv /\ [Next]_vars => DiskInv'
  <1> SUFFICES ASSUME IInv, DiskInv, [Next]_vars PROVE DiskInv'
    OBVIOUS
  <1>1. IInv'
    BY InvariantStep
  <1>2. CASE UNCHANGED vars
    <2>1. UNCHANGED <<meta, metaFile, dir, current, index, build, edit, errors, crashes>>
      BY <1>2 DEF vars, storage, memory, history
    <2>2. Aside
      BY <2>1, DiskFacts DEF Aside, ActivityOK
    <2> QED BY <1>1, <2>2, AsideKeeps
  <1>3. ASSUME \/ \E d \in Doc : Crawl(d) \/ IndexDocument(d) \/ DeleteDocument(d) \/ BuildMarks(d)
               \/ EditSaves \/ EditFails \/ EditMarks \/ LoadActiveIndex
               \/ \E b \in BuildId : Damage(b)
        PROVE  DiskInv'
    BY <1>1, <1>3, AsideMoves, AsideKeeps
  <1>4. ASSUME BuildRejects PROVE DiskInv'
    BY <1>1, <1>4, CreateKeeps, PathSteps DEF BuildRejects
  <1> QED BY <1>1, <1>2, <1>3, <1>4, OnwardKeeps, CreateKeeps, PathSteps, SaveKeeps, RetireKeeps,
             ActivateKeeps, SwapKeeps, FailureKeeps, CleanStartKeeps, PruneKeeps, CleanEndKeeps,
             RecoverKeeps, CrashKeeps
          DEF Next

(***************************************************************************)
(* The generation that is served.                                          *)
(***************************************************************************)

\* As long as no pair of updates was cut off, the file names the same active
\* generation as memory, it is the one activated last, and no record but that of a
\* build about to correct it names the root directory.
RootsKept   == "create" \notin torn => RootsIn(meta) \cup RootsIn(metaFile) \subseteq Unnamed
FileAgrees  == "activate" \notin torn => ActiveIn(metaFile) = ActiveIn(meta)
ServedFound ==
  served # 0 /\ "activate" \notin torn /\ build.pc # "activate" => ActiveIn(meta) = {served}
ServedOnDisk == served # 0 /\ torn = {} => dir[served] # NoIndex

KeepInv == RootsKept /\ FileAgrees /\ ServedFound /\ ServedOnDisk

LEMMA KeepInit == Init => KeepInv
  <1> SUFFICES ASSUME Init PROVE KeepInv
    OBVIOUS
  <1>1. RootsIn(meta) = {} /\ RootsIn(metaFile) = {} /\ metaFile = meta /\ served = 0
    BY DEF Init, RootsIn
  <1> QED BY <1>1 DEF KeepInv, RootsKept, FileAgrees, ServedFound, ServedOnDisk

\* Steps that leave the records alone, or write them to the file once more.
LEMMA RecordsAlone ==
  ASSUME IInv, KeepInv, meta' = meta, metaFile' \in {metaFile, meta},
         Unnamed' = Unnamed, UNCHANGED <<served, torn>>,
         build.pc = "activate" => build'.pc = "activate",
         \A b \in BuildId : dir[b] # NoIndex => dir'[b] # NoIndex
  PROVE  KeepInv'
  <1>1. served \in BuildId \cup {0}
    BY DEF IInv, TypeOK
  <1>2. RootsKept'
    BY DEF KeepInv, RootsKept
  <1>3. FileAgrees' /\ ServedFound'
    BY DEF KeepInv, FileAgrees, ServedFound
  <1>4. ServedOnDisk'
    BY <1>1 DEF KeepInv, ServedOnDisk
  <1> QED BY <1>2, <1>3, <1>4 DEF KeepInv

LEMMA AsideServes ==
  ASSUME IInv, DiskInv, KeepInv,
         \/ \E d \in Doc : Crawl(d) \/ IndexDocument(d) \/ DeleteDocument(d) \/ BuildMarks(d)
         \/ EditSaves \/ EditFails \/ EditMarks \/ LoadActiveIndex
         \/ \E b \in BuildId : Damage(b)
  PROVE  KeepInv'
  <1>1. Aside
    BY AsideMoves
  <1>2. UNCHANGED <<served, torn>>
    <2>1. ASSUME NEW d \in Doc, Crawl(d) \/ BuildMarks(d) PROVE UNCHANGED <<served, torn>>
      BY <2>1 DEF Crawl, BuildMarks
    <2>2. ASSUME NEW d \in Doc, IndexDocument(d) \/ DeleteDocument(d)
          PROVE  UNCHANGED <<served, torn>>
      BY <2>2 DEF IndexDocument, DeleteDocument, EditBegins
    <2>3. ASSUME EditSaves \/ EditFails \/ EditMarks \/ LoadActiveIndex
          PROVE  UNCHANGED <<served, torn>>
      BY <2>3 DEF EditSaves, EditFails, EditMarks, LoadActiveIndex, history
    <2>4. ASSUME NEW b \in BuildId, Damage(b) PROVE UNCHANGED <<served, torn>>
      BY <2>4 DEF Damage
    <2> QED BY <2>1, <2>2, <2>3, <2>4
  <1>3. Unnamed' = Unnamed /\ (build.pc = "activate" => build'.pc = "activate")
    BY <1>1 DEF Aside, Unnamed
  <1>4. \A b \in BuildId : dir[b] # NoIndex => dir'[b] # NoIndex
    BY <1>1 DEF Aside
  <1> QED BY <1>1, <1>2, <1>3, <1>4, RecordsAlone DEF Aside

LEMMA BesideServes ==
  ASSUME IInv, DiskInv, KeepInv,
         \/ \E mode \in Modes : StartBuild(mode)
         \/ LoadRebuilds \/ BuildClones \/ BuildQueries \/ BuildSaves \/ BuildSwaps
         \/ CleanObsoleteGenerations \/ CleanDone
  PROVE  KeepInv'
  <1>1. /\ UNCHANGED <<meta, metaFile, served, torn>>
        /\ build.pc # "activate" /\ build.pc # "path" /\ build'.pc # "path"
        /\ dir' \in {dir, [dir EXCEPT ![build.id] = build.new]}
    <2>1. build \in BuildState(Len(meta)) /\ NoBuild.pc = "idle"
          /\ \A mode \in Modes : [NoBuild EXCEPT !.pc = "create", !.mode = mode].pc = "create"
          /\ [NoBuild EXCEPT !.pc = "create"].pc = "create"
          /\ [NoBuild EXCEPT !.pc = "prune", !.prune = Obsolete].pc = "prune"
      BY DEF IInv, TypeOK, NoBuild
    <2>2. ASSUME NEW mode \in Modes, StartBuild(mode)
          PROVE  UNCHANGED <<meta, metaFile, dir, served, torn>> /\ build.pc = "idle"
                 /\ build'.pc = "create"
      BY <2>1, <2>2 DEF StartBuild, storage
    <2>3. ASSUME LoadRebuilds \/ BuildClones \/ BuildQueries \/ BuildSwaps
          PROVE  UNCHANGED <<meta, metaFile, dir, served, torn>>
                 /\ build.pc \in {"idle", "clone", "query", "mark"}
                 /\ build'.pc \in {"create", "query", "save", "clean"}
      BY <2>1, <2>3 DEF LoadRebuilds, BuildClones, BuildQueries, BuildSwaps, Goto, storage,
                        history, BuildState
    <2>4. ASSUME BuildSaves
          PROVE  UNCHANGED <<meta, metaFile, served, torn>> /\ build.pc = "save"
                 /\ build'.pc = "retire" /\ dir' = [dir EXCEPT ![build.id] = build.new]
      BY <2>1, <2>4 DEF BuildSaves, Goto, storage, history, BuildState
    <2>5. ASSUME CleanObsoleteGenerations
          PROVE  UNCHANGED <<meta, metaFile, dir, served, torn>>
                 /\ build.pc \in {"idle", "clean"} /\ build'.pc = "prune"
      BY <2>1, <2>5 DEF CleanObsoleteGenerations, storage, history
    <2>6. ASSUME CleanDone
          PROVE  UNCHANGED <<meta, metaFile, dir, served, torn>>
                 /\ build.pc = "prune" /\ build'.pc = "idle"
      BY <2>1, <2>6 DEF CleanDone, storage, history
    <2> QED BY <2>2, <2>3, <2>4, <2>5, <2>6
  <1>2. Unnamed' = Unnamed
    BY <1>1 DEF Unnamed
  <1>3. \A b \in BuildId : dir[b] # NoIndex => dir'[b] # NoIndex
    <2>1. build.new \in Index /\ dir \in [BuildId -> Index \cup {NoIndex, Corrupt}]
      BY DEF IInv, TypeOK, BuildState
    <2> QED BY <1>1, <2>1, NotAnIndex
  <1> QED BY <1>1, <1>2, <1>3, RecordsAlone

\* Steps that make other records of the list, with the same active one.
LEMMA ActiveAlone ==
  ASSUME IInv, KeepInv, ActiveIn(meta') = ActiveIn(meta), metaFile' \in {metaFile, meta'},
         RootsKept', served' = served, torn \subseteq torn',
         build.pc = "activate" => build'.pc = "activate",
         torn' = {} /\ dir[served] # NoIndex /\ served # 0 => dir'[served] # NoIndex
  PROVE  KeepInv'
  <1>1. FileAgrees' /\ ServedFound'
    BY DEF KeepInv, FileAgrees, ServedFound
  <1>2. ServedOnDisk'
    BY DEF KeepInv, ServedOnDisk
  <1> QED BY <1>1, <1>2 DEF KeepInv

LEMMA RecordServes ==
  ASSUME IInv, DiskInv, KeepInv, BuildCreates \/ BuildRecordsPath \/ BuildRejects
  PROVE  KeepInv'
  <1>1. /\ meta \in Seq(Record) /\ Len(meta) \in Nat
    BY DiskFacts
  <1>2. /\ \/ build.pc = "create" /\ meta' = Created
              /\ build'.pc \in {"path", "idle"} /\ (build'.pc = "path" => build'.id = Len(meta) + 1)
           \/ build.pc = "path" /\ meta' = PathRecorded /\ build'.pc \in {"clone", "idle"}
        /\ \/ metaFile' = meta' /\ torn' = torn /\ build'.pc # "idle"
           \/ metaFile' = metaFile /\ torn' = torn \cup {"create"}
        /\ UNCHANGED <<dir, served>>
    <2>1. build \in BuildState(Len(meta)) /\ NoBuild.pc = "idle"
      BY DEF IInv, TypeOK, NoBuild
    <2> QED BY <2>1 DEF BuildCreates, BuildRecordsPath, BuildRejects, UpdateMeta,
                        UpdateMetaThrows, history, BuildState, Goto
  <1>3. /\ ActiveIn(meta') = ActiveIn(meta)
        /\ build.pc = "create" => RootsIn(meta') = RootsIn(meta) \cup {Len(meta) + 1}
        /\ build.pc = "path" => RootsIn(meta') = RootsIn(meta) \ {build.id}
    BY <1>1, <1>2, CreatedKeeps, PathKeeps DEF PathRecorded
  <1>4. RootsKept'
    <2> SUFFICES ASSUME metaFile' = meta', torn' = torn, build'.pc # "idle", "create" \notin torn
                 PROVE  RootsIn(meta') \subseteq Unnamed'
      BY <1>2 DEF RootsKept
    <2>1. RootsIn(meta) \subseteq Unnamed
      BY DEF KeepInv, RootsKept
    <2> QED BY <1>2, <1>3, <2>1 DEF Unnamed
  <1> QED BY <1>2, <1>3, <1>4, ActiveAlone

\* The two updates of an activation.
LEMMA ActivationServes ==
  ASSUME IInv, IInv', DiskInv, KeepInv, BuildRetires \/ BuildActivates
  PROVE  KeepInv'
  <1>1. /\ meta \in Seq(Record) /\ DirsOK /\ ActivityOK
        /\ DOMAIN metaFile \subseteq DOMAIN meta
    BY DiskFacts
  <1>2. /\ metaFile' = meta' /\ dir' = dir /\ Unnamed = {} /\ Unnamed' = {}
        /\ RootsIn(meta') = RootsIn(meta) /\ ("create" \notin torn' => "create" \notin torn)
    <2>1. build \in BuildState(Len(meta))
      BY DEF IInv, TypeOK
    <2>2. metaFile' = meta' /\ dir' = dir /\ Unnamed = {} /\ Unnamed' = {}
          /\ ("create" \notin torn' => "create" \notin torn)
      BY <2>1 DEF BuildRetires, BuildActivates, UpdateMeta, Goto, Unnamed, BuildState, history
    <2>3. meta' \in {meta, Retired, Activated}
      BY DEF BuildRetires, BuildActivates, UpdateMeta
    <2>4. RootsIn(Retired) = RootsIn(meta)
      BY <1>1, DeactivationKeeps DEF Retired
    <2>5. RootsIn(Activated) = RootsIn(meta)
      BY <1>1, ActivatedKeeps DEF Activated
    <2> QED BY <2>2, <2>3, <2>4, <2>5
  <1>3. RootsKept' /\ FileAgrees'
    BY <1>2 DEF KeepInv, RootsKept, FileAgrees
  <1>4. CASE BuildRetires
    <2>1. build'.pc = "activate" /\ UNCHANGED <<served, torn>>
      BY <1>4 DEF BuildRetires, Goto, history, IInv, TypeOK, BuildState
    <2> QED BY <1>2, <1>3, <2>1 DEF KeepInv, ServedFound, ServedOnDisk
  <1>5. CASE BuildActivates
    <2>1. build.pc = "activate" /\ served' = build.id /\ meta' = Activated
      BY <1>5 DEF BuildActivates, UpdateMeta
    <2>2. build.id \in DOMAIN meta /\ dir[build.id] # NoIndex
      BY <1>1, <2>1 DEF ActivityOK, DirsOK, Building, Written
    <2>3. ActiveIn(meta) = {}
      BY <2>1 DEF IInv, NoneActiveBetween
    <2>4. ActiveIn(meta') = {build.id}
      BY <1>1, <2>1, <2>2, <2>3, ActivatedKeeps DEF Activated
    <2> QED BY <1>2, <1>3, <2>1, <2>2, <2>4 DEF KeepInv, ServedFound, ServedOnDisk
  <1> QED BY <1>4, <1>5

LEMMA FailedServes ==
  ASSUME IInv, DiskInv, KeepInv, BuildFails \/ ActivationFails
  PROVE  KeepInv'
  <1>1. PICK m \in {meta, Retired, Activated} :
          /\ meta' = Failed(m) /\ metaFile' \in {metaFile, meta'}
          /\ BuildFails => m = meta /\ torn' = torn
          /\ ActivationFails => torn' = torn \cup {"activate"}
          /\ dir' \in {dir, [dir EXCEPT ![build.id] = NoIndex]}
    BY DEF BuildFails, ActivationFails, CatchBlock
  <1>2. /\ meta \in Seq(Record) /\ ActivityOK /\ DOMAIN metaFile \subseteq DOMAIN meta
    BY DiskFacts
  <1>3. /\ served' = served /\ build' = NoBuild /\ torn \subseteq torn'
        /\ build.pc \in {"clone", "save", "retire", "activate"}
        /\ BuildFails => build.pc \in {"clone", "save"}
    BY <1>1 DEF BuildFails, ActivationFails, CatchBlock
  <1>4. NoBuild.pc = "idle" /\ Unnamed = {} /\ Unnamed' = {}
    BY <1>3 DEF NoBuild, Unnamed
  <1>5. build.id \in DOMAIN meta /\ build.id \notin ActiveIn(meta)
    BY <1>2, <1>3 DEF ActivityOK, Building
  <1>6. RootsIn(meta') = RootsIn(meta) /\ (BuildFails => ActiveIn(meta') = ActiveIn(meta))
    <2>1. m \in Seq(Record) /\ RootsIn(m) = RootsIn(meta)
      <3>1. Retired \in Seq(Record) /\ RootsIn(Retired) = RootsIn(meta)
        BY <1>2, Retirement, DeactivationKeeps DEF Retired
      <3>2. Activated \in Seq(Record) /\ RootsIn(Activated) = RootsIn(meta)
        BY <1>2, Activation, ActivatedKeeps DEF Activated
      <3> QED BY <1>2, <3>1, <3>2
    <2>2. RootsIn(meta') = RootsIn(m) /\ ActiveIn(meta') = ActiveIn(m) \ {build.id}
      BY <1>1, <2>1, StatusKeeps DEF Failed
    <2> QED BY <1>1, <1>5, <2>1, <2>2
  <1>7. RootsKept'
    BY <1>1, <1>3, <1>4, <1>6 DEF KeepInv, RootsKept
  <1>8. CASE BuildFails
    <2>1. torn' = {} /\ dir[served] # NoIndex /\ served # 0 => dir'[served] # NoIndex
      <3>1. torn' = {} /\ served # 0 => ActiveIn(meta) = {served}
        BY <1>1, <1>3, <1>8 DEF KeepInv, ServedFound
      <3>2. torn' = {} /\ served # 0 => served # build.id
        BY <1>5, <3>1
      <3> QED BY <1>1, <3>2 DEF IInv, TypeOK
    <2>2. build.pc # "activate"
      BY <1>3, <1>8
    <2> QED BY <1>1, <1>3, <1>6, <1>7, <1>8, <2>1, <2>2, ActiveAlone
  <1>9. CASE ActivationFails
    BY <1>1, <1>7, <1>9 DEF KeepInv, FileAgrees, ServedFound, ServedOnDisk
  <1> QED BY <1>8, <1>9

\* A cleanup only prunes what is not active, and then no path is the root.
LEMMA PrunedServes ==
  ASSUME IInv, DiskInv, KeepInv, Prune
  PROVE  KeepInv'
  <1>1. PICK b \in build.prune :
          /\ dir' \in {dir, Removed(b)} /\ meta' = [meta EXCEPT ![b].status = "stale"]
          /\ metaFile' \in {metaFile, meta'}
    BY DEF Prune
  <1>2. /\ build.pc = "prune" /\ build'.pc = "prune" /\ UNCHANGED <<served, torn>>
        /\ build.prune \in SUBSET (1..Len(meta))
    BY DEF Prune, IInv, TypeOK, BuildState
  <1>3. /\ meta \in Seq(Record) /\ b \in DOMAIN meta /\ b \notin ActiveIn(meta)
    BY <1>1, <1>2, DiskFacts DEF PruneOK
  <1>4. RootsIn(meta') = RootsIn(meta) /\ ActiveIn(meta') = ActiveIn(meta)
    <2>1. "stale" \in {"stale", "failed"}
      OBVIOUS
    <2>2. RootsIn(meta') = RootsIn(meta) /\ ActiveIn(meta') = ActiveIn(meta) \ {b}
      BY <1>1, <1>3, <2>1, StatusKeeps
    <2> QED BY <1>3, <2>2
  <1>5. Unnamed = {} /\ Unnamed' = {}
    BY <1>2 DEF Unnamed
  <1>6. RootsKept'
    BY <1>1, <1>2, <1>4, <1>5 DEF KeepInv, RootsKept
  <1>7. ASSUME torn' = {}, served # 0, dir[served] # NoIndex PROVE dir'[served] # NoIndex
    <2>1. ActiveIn(meta) = {served} /\ RootsIn(meta) = {}
      BY <1>2, <1>5, <1>7 DEF KeepInv, ServedFound, RootsKept
    <2>2. served # b /\ meta[b].path # "root" /\ served \in BuildId
      BY <1>3, <1>7, <2>1 DEF RootsIn, IInv, TypeOK
    <2> QED BY <1>1, <1>7, <2>2 DEF Removed
  <1>8. build.pc # "activate"
    BY <1>2
  <1> QED BY <1>1, <1>2, <1>4, <1>6, <1>7, <1>8, ActiveAlone

\* A generation that does not load is given up.
LEMMA RecoverServes ==
  ASSUME IInv, DiskInv, KeepInv, LoadRecovers
  PROVE  KeepInv'
  <1>1. meta \in Seq(Record)
    BY DiskFacts
  <1>2. /\ meta' = [meta EXCEPT ![ActiveMetadata].active = FALSE,
                                ![ActiveMetadata].status = "failed"]
        /\ \/ metaFile' = meta' /\ torn' = torn
           \/ metaFile' = metaFile /\ torn' = torn \cup {"activate"}
        /\ build.pc = "idle" /\ build'.pc = "create" /\ served' = 0
    <2>1. [NoBuild EXCEPT !.pc = "create"].pc = "create"
      BY DEF NoBuild
    <2> QED BY <2>1 DEF LoadRecovers, UpdateMeta, UpdateMetaThrows
  <1>3. RootsIn(meta') = RootsIn(meta)
    <2>1. "failed" \in {"stale", "failed"}
      OBVIOUS
    <2> QED BY <1>1, <1>2, <2>1, DeactivationKeeps
  <1>4. RootsKept'
    BY <1>2, <1>3 DEF KeepInv, RootsKept, Unnamed
  <1> QED BY <1>2, <1>4 DEF KeepInv, FileAgrees, ServedFound, ServedOnDisk

LEMMA RestartServes ==
  ASSUME IInv, DiskInv, KeepInv, Crash
  PROVE  KeepInv'
  <1>1. /\ meta' = metaFile /\ UNCHANGED <<metaFile, dir, served>> /\ build'.pc = "idle"
        /\ torn \subseteq torn'
        /\ build.pc = "path" => "create" \in torn'
        /\ build.pc = "activate" => "activate" \in torn'
    BY DEF Crash, NoBuild
  <1>2. RootsKept'
    BY <1>1 DEF KeepInv, RootsKept, Unnamed
  <1>3. FileAgrees' /\ ServedFound'
    BY <1>1 DEF KeepInv, FileAgrees, ServedFound
  <1>4. ServedOnDisk'
    BY <1>1 DEF KeepInv, ServedOnDisk
  <1> QED BY <1>2, <1>3, <1>4 DEF KeepInv

LEMMA KeepStep == IInv /\ DiskInv /\ KeepInv /\ [Next]_vars => KeepInv'
  <1> SUFFICES ASSUME IInv, DiskInv, KeepInv, [Next]_vars PROVE KeepInv'
    OBVIOUS
  <1>1. IInv'
    BY InvariantStep
  <1>2. CASE UNCHANGED vars
    <2>1. UNCHANGED <<meta, metaFile, dir, build, served, torn>>
      BY <1>2 DEF vars, storage, history
    <2>2. Unnamed' = Unnamed
      BY <2>1 DEF Unnamed
    <2> QED BY <2>1, <2>2, RecordsAlone
  <1> QED BY <1>1, <1>2, AsideServes, BesideServes, RecordServes, ActivationServes, FailedServes,
             PrunedServes, RecoverServes, RestartServes DEF Next

LEMMA DiskSuffices == IInv /\ DiskInv /\ KeepInv => CleanupIsRight
  <1> SUFFICES ASSUME IInv, DiskInv, KeepInv PROVE CleanupIsRight
    OBVIOUS
  <1>1. /\ CountOK /\ errors \in Nat /\ crashes \in Nat
    BY DiskFacts
  <1>2. ServedIsKept
    BY DEF ServedIsKept, KeepInv, FileAgrees, ServedFound, ServedOnDisk
  <1>3. GenerationsBounded
    <2> DEFINE one == IF build.pc \in Busy THEN 1 ELSE 0
               any == IF build.pc = "idle" THEN 0 ELSE 1
    <2>1. OnDirs \subseteq Counted
      BY DEF Counted
    <2>2. Cardinality(OnDirs) <= Cardinality(Counted) /\ Cardinality(Counted) <= Room
          /\ Cardinality(OnDirs) \in Nat /\ Cardinality(Counted) \in Nat
      BY <1>1, <2>1, FS_Subset, FS_CardinalityType DEF CountOK
    <2>3. one \in 0..1 /\ any \in 0..1 /\ one <= any
      BY DEF Busy, Written
    <2>4. Room = 1 + one + crashes + errors
      BY DEF Room
    <2>5. Cardinality({b \in BuildId : dir[b] # NoIndex}) = Cardinality(OnDirs)
      BY DEF OnDirs
    <2> HIDE DEF one, any, Room
    <2>6. Cardinality(OnDirs) <= 1 + any + crashes + errors
      BY <1>1, <2>2, <2>3, <2>4
    <2> QED BY <2>5, <2>6 DEF GenerationsBounded, any
  <1> QED BY <1>2, <1>3 DEF CleanupIsRight

\* The generation that was activated last stays on disk and active, in memory and
\* after a restart, whatever builds and cleanups fail and wherever the process dies,
\* unless one of the two pairs of updates is cut off; and the disk holds no more than
\* the active generation, the one being built and one for each crash and failure.
THEOREM CleanupKeepsTheActive == Spec => []CleanupIsRight
  <1>1. IInv /\ DiskInv /\ KeepInv /\ [Next]_vars => IInv' /\ DiskInv' /\ KeepInv'
    BY InvariantStep, DiskStep, KeepStep
  <1> QED BY <1>1, InitInvariant, DiskInit, KeepInit, DiskSuffices, PTL DEF Spec

(***************************************************************************)
(* What is served.                                                         *)
(***************************************************************************)

Calm  == ~overlapped /\ errors = 0
Found == IF FindActive = 0 THEN NoIndex ELSE dir[FindActive]
Served(i, S) == \A d \in S : docs[d].status = "indexed" => i \in Index /\ i[d] = docs[d].ver

\* A document operation has no build beside it, at most a cleanup.
EditsAlone == ~overlapped /\ edit.pc # "idle" => build.pc \in {"idle", "prune"}

\* What is written of a new generation is what the build will put in memory.
SavedAsBuilt == build.pc \in Written => dir[build.id] = build.new

\* MemoryMatchesDisk, and what is known while the index has yet to be written.
Matches ==
  index # NoIndex /\ build.pc # "mark" /\ RootsIn(meta) \subseteq Unnamed =>
    IF edit.pc = "save"
    THEN dir[current] \in Index /\ \A c \in Doc \ {edit.doc} : dir[current][c] = index[c]
    ELSE dir[current] = index

\* As long as the process lives, every record gets its path and the cached
\* record is the active one between builds ...
Cached ==
  /\ RootsIn(meta) \subseteq Unnamed
  /\ current # 0 /\ build.pc \notin {"activate", "mark"} => current \in ActiveIn(meta)

\* ... the active generation holds what is marked as indexed, but for the
\* document of an operation under way ...
Between ==
  /\ edit.pc = "idle" /\ build.pc \notin {"query", "save"} \cup Written => Served(Found, Doc)
  /\ edit.pc # "idle" => Served(Found, Doc \ {edit.doc})
  /\ edit.pc # "idle" /\ edit.op = "index" => index[edit.doc] = docs[edit.doc].ver

\* ... and from its read of the documents on, the build holds it.
Within ==
  /\ build.pc = "query" /\ build.mode # "full" => Served(build.new, Doc)
  /\ build.pc \in {"save"} \cup Written =>
       Served(build.new, Doc) /\ \A d \in build.marks : build.new[d] = docs[d].ver

Alive == Cached /\ Between /\ Within

ServedInv ==
  /\ EditsAlone
  /\ Calm => SavedAsBuilt /\ Matches /\ (crashes = 0 => Alive)

LEMMA FindIs ==
  ASSUME IInv
  PROVE  /\ FindActive = 0 <=> ActiveIn(meta) = {}
         /\ FindActive # 0 => ActiveIn(meta) = {FindActive}
         /\ FindActive # 0 => FindActive \in BuildId
  <1>1. meta \in Seq(Record) /\ Unique(meta)
    BY DEF IInv, TypeOK, AtMostOneActive, Unique
  <1> QED BY <1>1, FirstIs, ActiveIs, IdsFit

\* While the process lives the active generation is the one on record.
LEMMA ActiveIsFound ==
  ASSUME IInv, Cached, build.pc \notin {"activate", "mark"}
  PROVE  /\ ActiveMetadata = FindActive /\ ActiveDir = Found
         /\ ActiveMetadata # 0 => ActiveMetadata \in ActiveIn(meta)
  <1>1. current # 0 => current = FindActive
    BY FindIs DEF Cached
  <1>2. ActiveMetadata = FindActive
    BY <1>1 DEF ActiveMetadata
  <1> QED BY <1>2, FindIs DEF ActiveDir, Found

(***************************************************************************)
(* Steps that change neither records, documents, directories nor the index *)
(* in memory.                                                              *)
(***************************************************************************)

LEMMA FrameServes ==
  ASSUME IInv, DiskInv, ServedInv,
         UNCHANGED <<docs, meta, dir, index, edit, errors, crashes>>,
         current' \in {current, ActiveMetadata}, ~overlapped' => ~overlapped,
         build.pc \notin {"path", "mark", "activate"},
         build'.pc \notin {"path"} \cup Written,
         build.pc \in {"query", "save"} \cup Written => build'.pc \in {"query", "save"},
         EditsAlone',
         Calm' /\ crashes = 0 => Within'
  PROVE  ServedInv'
  <1> SUFFICES ASSUME Calm' PROVE SavedAsBuilt' /\ Matches' /\ (crashes' = 0 => Alive')
    BY DEF ServedInv
  <1>1. Calm
    BY DEF Calm
  <1>2. /\ Matches /\ (crashes = 0 => Alive)
        /\ index # NoIndex => current # 0
        /\ current # 0 => ActiveMetadata = current
    BY <1>1, DiskFacts DEF ServedInv, ActivityOK
  <1>3. Unnamed = {} /\ Unnamed' = {}
    BY DEF Unnamed
  <1>4. SavedAsBuilt'
    BY DEF SavedAsBuilt
  <1>5. index # NoIndex => current' = current
    BY <1>2
  <1>6. Matches'
    BY <1>2, <1>3, <1>5 DEF Matches
  <1>7. ASSUME crashes' = 0 PROVE Alive'
    <2>1. crashes = 0 /\ Alive /\ Within'
      BY <1>2, <1>7
    <2>2. current' # 0 => current' \in ActiveIn(meta)
      BY <2>1, ActiveIsFound DEF Alive, Cached, Written
    <2>3. Cached'
      BY <1>3, <2>1, <2>2 DEF Cached, Alive
    <2>4. Found' = Found
      BY ActiveIs DEF Found
    <2>5. Between'
      BY <2>1, <2>4 DEF Between, Alive, Served, Written
    <2> QED BY <2>1, <2>3, <2>5 DEF Alive
  <1> QED BY <1>4, <1>6, <1>7

Starts ==
  /\ UNCHANGED <<docs, meta, dir, index, edit, errors, crashes>>
  /\ current' \in {current, ActiveMetadata} /\ (~overlapped' => ~overlapped /\ edit.pc = "idle")
  /\ build.pc = "idle" /\ build'.pc = "create"

LEMMA StartServes ==
  ASSUME IInv, DiskInv, ServedInv,
         (\E mode \in Modes : StartBuild(mode)) \/ LoadRebuilds
  PROVE  ServedInv'
  <1>1. Starts
    <2>1. ASSUME NEW mode \in Modes, StartBuild(mode) PROVE Starts
      BY <2>1 DEF StartBuild, storage, memory, NoBuild, Starts
    <2>2. CASE LoadRebuilds
      <3>1. edit.pc = "idle"
        BY <2>2, DiskFacts DEF LoadRebuilds, ActivityOK
      <3> QED BY <2>2, <3>1 DEF LoadRebuilds, storage, history, NoBuild, Starts
    <2> QED BY <2>1, <2>2
  <1>2. EditsAlone' /\ Within'
    BY <1>1 DEF EditsAlone, Within, Written, Starts
  <1> QED BY <1>1, <1>2, FrameServes DEF Written, Starts

Cleans ==
  /\ UNCHANGED <<docs, meta, dir, index, edit, errors, crashes, overlapped>>
  /\ current' \in {current, ActiveMetadata}
  /\ build.pc \in {"clean", "idle", "prune"} /\ build'.pc \in {"idle", "prune"}

LEMMA CleanServes ==
  ASSUME IInv, DiskInv, ServedInv, CleanObsoleteGenerations \/ CleanDone
  PROVE  ServedInv'
  <1>1. Cleans
    <2>1. CASE CleanObsoleteGenerations
      <3>1. [NoBuild EXCEPT !.pc = "prune", !.prune = Obsolete].pc = "prune"
        BY DEF NoBuild
      <3> QED BY <2>1, <3>1 DEF CleanObsoleteGenerations, storage, history, Cleans
    <2>2. CASE CleanDone
      BY <2>2 DEF CleanDone, storage, memory, history, NoBuild, Cleans
    <2> QED BY <2>1, <2>2
  <1>2. EditsAlone' /\ Within'
    BY <1>1 DEF EditsAlone, Within, Written, Cleans
  <1> QED BY <1>1, <1>2, FrameServes DEF Written, Cleans

\* An incremental build starts from the active generation.
LEMMA CloneServes ==
  ASSUME IInv, DiskInv, ServedInv, BuildClones
  PROVE  ServedInv'
  <1>1. /\ UNCHANGED <<docs, meta, dir, index, edit, errors, crashes, overlapped>>
        /\ current' \in {current, ActiveMetadata}
        /\ build.pc = "clone" /\ build'.pc = "query" /\ build'.mode = build.mode
        /\ build.mode # "full" =>
             ActiveDir # Corrupt /\ build'.new = IF ActiveDir = NoIndex THEN Empty ELSE ActiveDir
    BY DEF BuildClones, storage, history, IInv, TypeOK, BuildState
  <1>2. ~overlapped => edit.pc = "idle"
    BY <1>1 DEF ServedInv, EditsAlone
  <1>3. EditsAlone'
    BY <1>1, <1>2 DEF EditsAlone
  <1>4. ASSUME Calm', crashes = 0 PROVE Within'
    <2>1. Cached /\ Between /\ edit.pc = "idle"
      BY <1>1, <1>2, <1>4 DEF ServedInv, Calm, Alive
    <2>2. ActiveDir = Found /\ Served(Found, Doc)
      BY <1>1, <2>1, ActiveIsFound DEF Between, Written
    <2>3. build.mode # "full" => Served(build'.new, Doc)
      <3>1. Found = NoIndex => \A d \in Doc : docs[d].status # "indexed"
        BY <2>2, NotAnIndex DEF Served
      <3> QED BY <1>1, <2>2, <3>1 DEF Served
    <2> QED BY <1>1, <2>3 DEF Within, Served, Written
  <1> QED BY <1>1, <1>3, <1>4, FrameServes DEF Written

\* It takes over the pending documents; what is indexed it has already.
LEMMA QueryServes ==
  ASSUME IInv, DiskInv, ServedInv, BuildQueries
  PROVE  ServedInv'
  <1> DEFINE sel == Selected(build.mode)
             new == [d \in Doc |-> IF d \in sel THEN docs[d].ver ELSE build.new[d]]
  <1>1. /\ UNCHANGED <<docs, meta, dir, index, edit, errors, crashes, overlapped, current>>
        /\ build.pc = "query" /\ build'.pc = "save"
        /\ build'.new = new /\ build'.marks = sel
    BY DEF BuildQueries, storage, memory, history, IInv, TypeOK, BuildState
  <1>2. EditsAlone'
    BY <1>1 DEF ServedInv, EditsAlone
  <1>3. ASSUME Calm', crashes = 0 PROVE Within'
    <2>1. Within
      BY <1>1, <1>3 DEF ServedInv, Calm, Alive
    <2>2. new \in Index
      <3>1. build.new \in Index /\ docs \in [Doc -> Stored]
        BY DEF IInv, TypeOK, BuildState
      <3>2. \A d \in Doc : docs[d].ver \in 0..MaxVer
        BY <3>1, ConstantsAssumption DEF Stored
      <3> QED BY <3>1, <3>2 DEF Index
    <2>3. \A d \in sel : new[d] = docs[d].ver
      BY DEF Selected
    <2>4. ASSUME NEW d \in Doc, docs[d].status = "indexed" PROVE new[d] = docs[d].ver
      <3>1. docs[d] \in Stored
        BY DEF IInv, TypeOK
      <3>2. docs[d].ver > 0
        BY <2>4, <3>1, ConstantsAssumption DEF Stored
      <3>3. CASE build.mode = "incremental"
        BY <1>1, <2>1, <2>4, <3>3 DEF Within, Served, Selected
      <3>4. CASE build.mode # "incremental"
        BY <2>3, <3>2, <3>4 DEF Selected
      <3> QED BY <3>3, <3>4
    <2> HIDE DEF new, sel
    <2> QED BY <1>1, <2>2, <2>3, <2>4 DEF Within, Served
  <1> QED BY <1>1, <1>2, <1>3, FrameServes DEF Written

(***************************************************************************)
(* Steps that fail, and steps that change documents.                       *)
(***************************************************************************)

\* What is known before a step that leaves the system undisturbed.
LEMMA CalmFacts ==
  ASSUME IInv, DiskInv, ServedInv, Calm
  PROVE  /\ SavedAsBuilt /\ Matches /\ (crashes = 0 => Alive)
         /\ build.pc \notin {"idle", "prune"} => edit.pc = "idle"
  BY DEF ServedInv, Calm, EditsAlone

Fails == EditsAlone' /\ errors' # 0

LEMMA FailureServes ==
  ASSUME IInv, DiskInv, ServedInv,
         BuildRejects \/ BuildFails \/ ActivationFails \/ EditFails \/ LoadRecovers
           \/ \E b \in BuildId : Damage(b)
  PROVE  ServedInv'
  <1>1. /\ errors \in Nat /\ errors + 1 # 0 /\ errors + 2 # 0 /\ EditsAlone
        /\ edit.pc # "idle" => index # NoIndex
        /\ ActiveDir = Corrupt => errors # 0
    <2>1. /\ errors \in Nat /\ ActivityOK /\ DirsOK /\ DOMAIN meta \subseteq BuildId
          /\ ActiveMetadata \in {0, current} \cup ActiveIn(meta)
          /\ ActiveIn(meta) \subseteq DOMAIN meta /\ current \in {0} \cup DOMAIN meta
      BY DiskFacts
    <2>2. errors + 1 # 0 /\ errors + 2 # 0
      BY <2>1
    <2>3. ActiveDir = Corrupt => errors # 0
      <3>1. ActiveDir = Corrupt => ActiveMetadata \in BuildId /\ dir[ActiveMetadata] = Corrupt
        BY <2>1, NotAnIndex DEF ActiveDir
      <3>2. ActiveDir = Corrupt => errors >= 1
        BY <2>1, <3>1 DEF DirsOK
      <3> QED BY <2>1, <3>2
    <2> QED BY <2>1, <2>2, <2>3 DEF ServedInv, ActivityOK
  <1>2. CASE BuildRejects \/ ActivationFails
    <2>1. build'.pc = "idle" /\ errors' # 0
      BY <1>1, <1>2 DEF BuildRejects, ActivationFails, CatchBlock, UpdateMetaThrows, NoBuild
    <2> QED BY <1>1, <2>1 DEF Calm, EditsAlone, ServedInv
  <1>3. CASE BuildFails
    <2>1. build'.pc = "idle" /\ errors' # 0
      BY <1>1, <1>3 DEF BuildFails, CatchBlock, NoBuild
    <2> QED BY <2>1 DEF Calm, EditsAlone, ServedInv
  <1>4. CASE EditFails
    <2>1. edit'.pc = "idle" /\ errors' = errors + 1
      BY <1>4 DEF EditFails, NoEdit
    <2> QED BY <1>1, <2>1 DEF Calm, EditsAlone, ServedInv
  <1>5. CASE LoadRecovers
    <2>1. edit'.pc = "idle" /\ errors' \in {errors, errors + 1} /\ errors # 0
      BY <1>1, <1>5 DEF LoadRecovers, UpdateMetaThrows
    <2> QED BY <1>1, <2>1 DEF Calm, EditsAlone, ServedInv
  <1>6. ASSUME NEW b \in BuildId, Damage(b) PROVE ServedInv'
    <2>1. UNCHANGED <<edit, build, overlapped>> /\ errors' = errors + 1
      BY <1>6 DEF Damage
    <2> QED BY <1>1, <2>1 DEF Calm, EditsAlone, ServedInv
  <1> QED BY <1>2, <1>3, <1>4, <1>5, <1>6

\* A document that is crawled again waits for a build.
LEMMA CrawlServes ==
  ASSUME IInv, DiskInv, ServedInv, NEW d \in Doc, Crawl(d)
  PROVE  ServedInv'
  <1>1. /\ docs' = [docs EXCEPT ![d] = [ver |-> docs[d].ver + 1, status |-> "pending"]]
        /\ overlapped' = (overlapped \/ ~Quiet)
        /\ UNCHANGED <<meta, dir, index, current, build, edit, crashes, errors>>
    BY DEF Crawl, UpdateDocs, memory
  <1>2. \A c \in Doc : docs'[c].status = "indexed" => docs[c].status = "indexed" /\ docs'[c] = docs[c]
    BY <1>1 DEF IInv, TypeOK
  <1>3. EditsAlone'
    BY <1>1 DEF ServedInv, EditsAlone
  <1>4. ASSUME Calm' PROVE SavedAsBuilt' /\ Matches' /\ (crashes' = 0 => Alive')
    <2>1. Calm /\ build.pc = "idle" /\ edit.pc = "idle"
      BY <1>1, <1>4 DEF Calm, Quiet
    <2>2. Matches /\ (crashes = 0 => Cached /\ Served(Found, Doc))
      BY <2>1, CalmFacts DEF Alive, Between, Written
    <2>3. SavedAsBuilt'
      BY <1>1, <2>1 DEF SavedAsBuilt, Written
    <2>4. Matches'
      BY <1>1, <2>2 DEF Matches, Unnamed
    <2>5. Cached <=> Cached'
      BY <1>1 DEF Cached, Unnamed
    <2>6. Found' = Found
      BY <1>1, ActiveIs DEF Found
    <2>7. Served(Found, Doc) => Served(Found, Doc)'
      BY <1>2, <2>6 DEF Served
    <2>8. Served(Found, Doc)' => Between'
      BY <1>1, <2>1 DEF Between
    <2>9. Within'
      BY <1>1, <2>1 DEF Within, Written
    <2> QED BY <1>1, <2>2, <2>3, <2>4, <2>5, <2>7, <2>8, <2>9 DEF Alive
  <1> QED BY <1>3, <1>4 DEF ServedInv

\* A build marks what it holds.
LEMMA MarkServes ==
  ASSUME IInv, DiskInv, ServedInv, NEW d \in Doc, BuildMarks(d)
  PROVE  ServedInv'
  <1>1. /\ docs' = [docs EXCEPT ![d].status = "indexed"]
        /\ build.pc = "mark" /\ d \in build.marks
        /\ build'.pc = "mark" /\ build'.id = build.id /\ build'.new = build.new
        /\ build'.marks \subseteq build.marks
        /\ errors' \in {errors, errors + 1}
        /\ UNCHANGED <<meta, dir, index, current, edit, overlapped, crashes>>
    BY DEF BuildMarks, UpdateDocs, UpdateDocsThrows, memory, IInv, TypeOK, BuildState
  <1>2. \A c \in Doc : /\ docs'[c].ver = docs[c].ver
                       /\ c # d => docs'[c].status = docs[c].status
    <2>1. docs[d] \in Stored
      BY DEF IInv, TypeOK
    <2>2. [docs[d] EXCEPT !.status = "indexed"].ver = docs[d].ver
      BY <2>1 DEF Stored
    <2> QED BY <1>1, <2>2 DEF IInv, TypeOK
  <1>3. EditsAlone'
    BY <1>1 DEF ServedInv, EditsAlone
  <1>4. ASSUME Calm' PROVE SavedAsBuilt' /\ Matches' /\ (crashes' = 0 => Alive')
    <2>1. Calm
      BY <1>1, <1>4, DiskFacts DEF Calm
    <2>2. SavedAsBuilt /\ (crashes = 0 => Cached /\ Within) /\ edit.pc = "idle"
      BY <1>1, <2>1, CalmFacts DEF Alive
    <2>3. SavedAsBuilt' /\ Matches'
      BY <1>1, <2>2 DEF SavedAsBuilt, Matches
    <2>4. Cached <=> Cached'
      BY <1>1 DEF Cached, Unnamed
    <2>5. Between'
      BY <1>1, <2>2 DEF Between, Written
    <2>6. Within => Within'
      <3>1. build.new \in Index
        BY DEF IInv, TypeOK, BuildState
      <3> QED BY <1>1, <1>2, <3>1 DEF Within, Served, Written
    <2> QED BY <1>1, <2>2, <2>3, <2>4, <2>5, <2>6 DEF Alive
  <1> QED BY <1>3, <1>4 DEF ServedInv

(***************************************************************************)
(* The document operations.                                                *)
(***************************************************************************)

\* They change the index in memory first; the document is the one in "edit".
LEMMA BeginServes ==
  ASSUME IInv, DiskInv, ServedInv, NEW d \in Doc, IndexDocument(d) \/ DeleteDocument(d)
  PROVE  ServedInv'
  <1>1. PICK op \in {"index", "delete"}, v \in Nat :
          EditBegins(op, d, v) /\ (op = "index" => v = docs[d].ver)
    <2>1. docs[d].ver \in Nat
      BY ConstantsAssumption DEF IInv, TypeOK, Stored
    <2> QED BY <2>1 DEF IndexDocument, DeleteDocument
  <1>2. /\ index \in Index /\ index # NoIndex /\ edit.pc = "idle"
        /\ index' = [index EXCEPT ![d] = v]
        /\ edit'.pc = "save" /\ edit'.op = op /\ edit'.doc = d
        /\ overlapped' = (overlapped \/ build.pc # "idle")
        /\ UNCHANGED <<docs, meta, dir, current, build, crashes, errors>>
    BY <1>1 DEF EditBegins, storage, IInv, TypeOK
  <1>3. EditsAlone'
    BY <1>2 DEF EditsAlone
  <1>4. ASSUME Calm' PROVE SavedAsBuilt' /\ Matches' /\ (crashes' = 0 => Alive')
    <2>1. Calm /\ build.pc = "idle"
      BY <1>2, <1>4 DEF Calm
    <2>2. Matches /\ (crashes = 0 => Cached /\ Served(Found, Doc))
      BY <1>2, <2>1, CalmFacts DEF Alive, Between, Written
    <2>3. SavedAsBuilt'
      BY <1>2, <2>1 DEF SavedAsBuilt, Written
    <2>4. \A c \in Doc \ {d} : index'[c] = index[c]
      BY <1>2 DEF Index
    <2>5. Matches'
      BY <1>2, <2>2, <2>4 DEF Matches, Unnamed
    <2>6. Cached <=> Cached'
      BY <1>2 DEF Cached, Unnamed
    <2>7. Found' = Found
      BY <1>2, ActiveIs DEF Found
    <2>8. Served(Found, Doc) => Served(Found, Doc \ {d})'
      BY <1>2, <2>7 DEF Served
    <2>9. edit'.op = "index" => index'[d] = docs'[d].ver
      BY <1>1, <1>2 DEF Index
    <2>10. Served(Found, Doc \ {d})' => Between'
      BY <1>2, <2>9 DEF Between
    <2>11. Within'
      BY <1>2, <2>1 DEF Within, Written
    <2> QED BY <1>2, <2>2, <2>3, <2>5, <2>6, <2>8, <2>10, <2>11 DEF Alive
  <1> QED BY <1>3, <1>4 DEF ServedInv

\* The generation of the index in memory is written with it.
LEMMA EditSaveServes ==
  ASSUME IInv, DiskInv, ServedInv, EditSaves
  PROVE  ServedInv'
  <1>1. /\ index \in Index /\ index # NoIndex /\ current # 0
        /\ ActiveMetadata = current /\ current \in BuildId
    <2>1. index # NoIndex
      BY DiskFacts DEF EditSaves, ActivityOK
    <2> QED BY <2>1, DiskFacts DEF ActivityOK, IInv, TypeOK
  <1>2. /\ edit.pc = "save" /\ edit'.pc = "mark" /\ edit'.op = edit.op /\ edit'.doc = edit.doc
        /\ current' = current
        /\ dir' = [dir EXCEPT ![current] = index]
        /\ UNCHANGED <<docs, meta, index, build, overlapped, crashes, errors>>
    BY <1>1 DEF EditSaves, UpdateMeta, history, IInv, TypeOK, EditState
  <1>3. dir'[current] = index
    BY <1>1, <1>2 DEF IInv, TypeOK
  <1>4. EditsAlone'
    BY <1>2 DEF ServedInv, EditsAlone
  <1>5. ASSUME Calm' PROVE SavedAsBuilt' /\ Matches' /\ (crashes' = 0 => Alive')
    <2>1. Calm
      BY <1>2, <1>5 DEF Calm
    <2>2. /\ Matches /\ (crashes = 0 => Cached /\ Between)
          /\ build.pc \in {"idle", "prune"}
      BY <1>2, <2>1, CalmFacts DEF Alive
    <2>3. SavedAsBuilt' /\ Within'
      BY <1>2, <2>2 DEF SavedAsBuilt, Written, Within
    <2>4. Matches'
      BY <1>2, <1>3 DEF Matches
    <2>5. Cached <=> Cached'
      BY <1>2 DEF Cached, Unnamed
    <2>6. ASSUME Cached, Between PROVE Between'
      <3>1. FindActive = current /\ FindActive' = current
        BY <1>1, <1>2, <2>2, <2>6, FindIs, ActiveIs DEF Cached
      <3>2. Found = dir[current] /\ Found' = index
        BY <1>1, <1>2, <1>3, <3>1 DEF Found
      <3>3. dir[current] \in Index /\ \A c \in Doc \ {edit.doc} : dir[current][c] = index[c]
        BY <1>1, <1>2, <2>2, <2>6 DEF Matches, Cached
      <3>4. Served(dir[current], Doc \ {edit.doc})
        BY <1>2, <2>6, <3>2 DEF Between
      <3>5. Served(Found, Doc \ {edit.doc})'
        BY <1>1, <1>2, <3>2, <3>3, <3>4 DEF Served
      <3> QED BY <1>2, <2>6, <3>5, SMTT(30) DEF Between
    <2> QED BY <1>2, <2>2, <2>3, <2>4, <2>5, <2>6 DEF Alive
  <1> QED BY <1>4, <1>5 DEF ServedInv

\* What is marked then is what has been written.
LEMMA EditMarkServes ==
  ASSUME IInv, DiskInv, ServedInv, EditMarks
  PROVE  ServedInv'
  <1> DEFINE status == IF edit.op = "index" THEN "indexed" ELSE "not_indexed"
  <1>1. /\ docs' = [docs EXCEPT ![edit.doc].status = status]
        /\ edit.pc = "mark" /\ edit'.pc = "idle" /\ edit.doc \in Doc
        /\ errors' \in {errors, errors + 1}
        /\ UNCHANGED <<meta, dir, index, current, build, overlapped, crashes>>
    BY DEF EditMarks, UpdateDocs, UpdateDocsThrows, memory, NoEdit, IInv, TypeOK, EditState
  <1>2. /\ \A c \in Doc : docs'[c].ver = docs[c].ver
        /\ \A c \in Doc \ {edit.doc} : docs'[c].status = docs[c].status
        /\ docs'[edit.doc].status = "indexed" => edit.op = "index"
    <2>1. docs[edit.doc] \in Stored
      BY <1>1 DEF IInv, TypeOK
    <2>2. /\ [docs[edit.doc] EXCEPT !.status = status].ver = docs[edit.doc].ver
          /\ [docs[edit.doc] EXCEPT !.status = status].status = status
      BY <2>1 DEF Stored
    <2>3. docs'[edit.doc] = [docs[edit.doc] EXCEPT !.status = status]
      BY <1>1 DEF IInv, TypeOK
    <2>4. \A c \in Doc \ {edit.doc} : docs'[c] = docs[c]
      BY <1>1 DEF IInv, TypeOK
    <2>5. status = "indexed" => edit.op = "index"
      OBVIOUS
    <2> HIDE DEF status
    <2>6. ASSUME NEW c \in Doc PROVE docs'[c].ver = docs[c].ver
      BY <2>2, <2>3, <2>4
    <2> QED BY <2>2, <2>3, <2>4, <2>5, <2>6
  <1>3. EditsAlone'
    BY <1>1 DEF EditsAlone
  <1>4. ASSUME Calm' PROVE SavedAsBuilt' /\ Matches' /\ (crashes' = 0 => Alive')
    <2>1. Calm
      BY <1>1, <1>4, DiskFacts DEF Calm
    <2>2. /\ SavedAsBuilt /\ Matches /\ (crashes = 0 => Cached /\ Between)
          /\ build.pc \in {"idle", "prune"}
      BY <1>1, <2>1, CalmFacts DEF Alive
    <2>3. SavedAsBuilt' /\ Within'
      BY <1>1, <2>2 DEF SavedAsBuilt, Written, Within
    <2>4. Matches'
      BY <1>1, <2>2 DEF Matches, Unnamed
    <2>5. Cached <=> Cached'
      BY <1>1 DEF Cached, Unnamed
    <2>6. ASSUME Cached, Between PROVE Between'
      <3>1. index \in Index /\ index # NoIndex /\ current # 0
        BY <1>1, DiskFacts DEF ActivityOK, IInv, TypeOK
      <3>2. FindActive = current /\ FindActive' = current
        BY <1>1, <2>2, <2>6, <3>1, FindIs, ActiveIs DEF Cached
      <3>3. Found = index /\ Found' = index
        BY <1>1, <2>2, <2>6, <3>1, <3>2 DEF Found, Matches, Cached
      <3>4. Served(index, Doc \ {edit.doc}) /\ (edit.op = "index" => index[edit.doc] = docs[edit.doc].ver)
        BY <1>1, <2>6, <3>3 DEF Between
      <3>5. Served(Found, Doc)'
        BY <1>1, <1>2, <3>1, <3>3, <3>4 DEF Served
      <3> QED BY <1>1, <3>5 DEF Between
    <2> QED BY <1>1, <2>2, <2>3, <2>4, <2>5, <2>6 DEF Alive
  <1> QED BY <1>3, <1>4 DEF ServedInv

(***************************************************************************)
(* Loading, and the steps of a build that change records or directories.   *)
(***************************************************************************)

LEMMA LoadServes ==
  ASSUME IInv, DiskInv, ServedInv, LoadActiveIndex
  PROVE  ServedInv'
  <1>1. /\ index = NoIndex /\ edit.pc = "idle" /\ ActiveMetadata # 0
        /\ index' = dir[ActiveMetadata] /\ current' = ActiveMetadata
        /\ UNCHANGED <<docs, meta, dir, build, edit, overlapped, crashes, errors>>
    BY DiskFacts DEF LoadActiveIndex, ActiveDir, ActivityOK, storage, history
  <1>2. EditsAlone'
    BY <1>1 DEF EditsAlone
  <1>3. ASSUME Calm' PROVE SavedAsBuilt' /\ Matches' /\ (crashes' = 0 => Alive')
    <2>1. Calm
      BY <1>1, <1>3 DEF Calm
    <2>2. SavedAsBuilt /\ (crashes = 0 => Alive)
      BY <2>1, CalmFacts
    <2>3. SavedAsBuilt' /\ Matches'
      BY <1>1, <2>2 DEF SavedAsBuilt, Matches
    <2>4. ASSUME Alive PROVE Alive'
      <3>1. Cached /\ (build.pc \notin {"activate", "mark"} => ActiveMetadata \in ActiveIn(meta))
        BY <1>1, <2>4, ActiveIsFound DEF Alive
      <3>2. Cached'
        BY <1>1, <3>1 DEF Cached, Unnamed
      <3>3. Found' = Found
        BY <1>1, ActiveIs DEF Found
      <3>4. Between' /\ Within'
        BY <1>1, <2>4, <3>3 DEF Alive, Between, Within, Served
      <3> QED BY <3>2, <3>4 DEF Alive
    <2> QED BY <1>1, <2>2, <2>3, <2>4
  <1> QED BY <1>2, <1>3 DEF ServedInv

\* A step of a build that leaves the index in memory alone and keeps the active
\* generation, until it is replaced.
BuildStep ==
  /\ UNCHANGED <<docs, index, current, edit, overlapped, crashes, errors>>
  /\ build.pc \notin {"idle", "prune", "mark"} /\ build'.pc \notin {"idle", "prune"}
  /\ build'.id = build.id \/ build'.pc = "path"
  /\ build'.new = build.new /\ build'.marks = build.marks
  /\ RootsIn(meta') \subseteq Unnamed' => RootsIn(meta) \subseteq Unnamed
  /\ RootsIn(meta) \subseteq Unnamed => RootsIn(meta') \subseteq Unnamed'
  /\ build'.pc \in Written => dir'[build'.id] = build'.new \/ build.pc \in Written
  /\ build'.pc \in Written <=> build.pc \in {"save"} \cup Written
  /\ build.pc # "query"
  /\ build'.pc \notin {"query", "save"}
  /\ build.pc = "activate" => build'.pc \in {"activate", "mark"}
  /\ build'.pc \notin {"activate", "mark"} => ActiveIn(meta') = ActiveIn(meta)
  /\ dir' = dir \/ (build.pc = "save" /\ dir' = [dir EXCEPT ![build.id] = build.new])

LEMMA BuildStepServes ==
  ASSUME IInv, DiskInv, ServedInv, BuildStep
  PROVE  ServedInv'
  <1> USE DEF BuildStep
  <1>1. /\ build.pc = "save" => build.id \notin {current} \cup ActiveIn(meta)
        /\ index # NoIndex => current \in BuildId
        /\ ActiveIn(meta) \subseteq BuildId
    BY DiskFacts DEF ActivityOK, Building
  <1>2. \A b \in BuildId : b \in {current} \cup ActiveIn(meta) => dir'[b] = dir[b]
    BY <1>1 DEF IInv, TypeOK
  <1>3. EditsAlone'
    BY DEF ServedInv, EditsAlone
  <1>4. ASSUME Calm' PROVE SavedAsBuilt' /\ Matches' /\ (crashes' = 0 => Alive')
    <2>1. SavedAsBuilt /\ Matches /\ (crashes = 0 => Alive) /\ edit.pc = "idle"
      BY <1>4, CalmFacts DEF Calm
    <2>2. SavedAsBuilt'
      <3>1. build.pc \in Written => dir' = dir /\ build'.id = build.id
        BY DEF Written
      <3> QED BY <2>1, <3>1 DEF SavedAsBuilt
    <2>3. Matches'
      BY <1>1, <1>2, <2>1 DEF Matches
    <2>4. ASSUME Alive PROVE Alive'
      <3>1. Cached'
        BY <2>4 DEF Alive, Cached
      <3>2. build'.pc \notin {"activate", "mark"} => Found' = Found
        <4>1. ASSUME build'.pc \notin {"activate", "mark"} PROVE Found' = Found
          <5>1. FindActive' = FindActive
            BY <4>1, ActiveIs
          <5>2. FindActive = 0 \/ (FindActive \in ActiveIn(meta) /\ FindActive \in BuildId)
            BY FindIs
          <5> QED BY <1>2, <5>1, <5>2 DEF Found
        <4> QED BY <4>1
      <3>3. Between'
        BY <2>1, <2>4, <3>2 DEF Alive, Between, Served, Written
      <3>4. Within'
        BY <2>4 DEF Alive, Within, Served, Written
      <3> QED BY <3>1, <3>3, <3>4 DEF Alive
    <2> QED BY <2>1, <2>2, <2>3, <2>4
  <1> QED BY <1>3, <1>4 DEF ServedInv

LEMMA BuildStepsServe ==
  ASSUME IInv, DiskInv, ServedInv,
         BuildCreates \/ BuildRecordsPath \/ BuildSaves \/ BuildRetires \/ BuildActivates
  PROVE  ServedInv'
  <1>1. /\ meta \in Seq(Record) /\ DOMAIN meta = 1..Len(meta) /\ Len(meta) \in Nat
        /\ build \in BuildState(Len(meta))
        /\ RootsIn(meta) \subseteq DOMAIN meta
    BY DiskFacts DEF IInv, TypeOK, RootsIn
  <1>2. CASE BuildCreates
    <2>1. /\ meta' = Created /\ build.pc = "create"
          /\ build'.pc = "path" /\ build'.id = Len(meta) + 1
          /\ build'.new = build.new /\ build'.marks = build.marks
          /\ UNCHANGED <<docs, dir, index, current, edit, overlapped, crashes, errors>>
      BY <1>1, <1>2 DEF BuildCreates, UpdateMeta, memory, history, BuildState
    <2>2. /\ ActiveIn(meta') = ActiveIn(meta)
          /\ RootsIn(meta') = RootsIn(meta) \cup {Len(meta) + 1}
          /\ Len(meta) + 1 \notin DOMAIN meta
      BY <1>1, <2>1, CreatedKeeps
    <2>3. RootsIn(meta') \subseteq Unnamed' <=> RootsIn(meta) \subseteq Unnamed
      BY <1>1, <2>1, <2>2 DEF Unnamed
    <2>4. BuildStep
      BY <2>1, <2>2, <2>3 DEF BuildStep, Written
    <2> QED BY <2>4, BuildStepServes
  <1>3. CASE BuildRecordsPath
    <2>1. /\ meta' = PathRecorded /\ build.pc = "path"
          /\ build'.pc = "clone" /\ build'.id = build.id
          /\ build'.new = build.new /\ build'.marks = build.marks
          /\ UNCHANGED <<docs, dir, index, current, edit, overlapped, crashes, errors>>
      BY <1>1, <1>3 DEF BuildRecordsPath, Goto, UpdateMeta, memory, history, BuildState
    <2>2. ActiveIn(meta') = ActiveIn(meta) /\ RootsIn(meta') = RootsIn(meta) \ {build.id}
      BY <1>1, <2>1, PathKeeps DEF PathRecorded
    <2>3. RootsIn(meta') \subseteq Unnamed' <=> RootsIn(meta) \subseteq Unnamed
      BY <2>1, <2>2 DEF Unnamed
    <2>4. BuildStep
      BY <2>1, <2>2, <2>3 DEF BuildStep, Written
    <2> QED BY <2>4, BuildStepServes
  <1>4. CASE BuildSaves
    <2>1. /\ build.pc = "save" /\ build'.pc = "retire" /\ build'.id = build.id
          /\ build'.new = build.new /\ build'.marks = build.marks
          /\ dir' = [dir EXCEPT ![build.id] = build.new]
          /\ UNCHANGED <<docs, meta, index, current, edit, overlapped, crashes, errors>>
      BY <1>1, <1>4 DEF BuildSaves, Goto, storage, memory, history, BuildState
    <2>2. build.id \in BuildId
      BY <2>1, DiskFacts DEF ActivityOK, Building
    <2>3. dir'[build.id] = build.new
      BY <2>1, <2>2 DEF IInv, TypeOK
    <2>4. BuildStep
      BY <2>1, <2>3 DEF BuildStep, Written, Unnamed
    <2> QED BY <2>4, BuildStepServes
  <1>5. CASE BuildRetires
    <2>1. /\ meta' = Retired /\ build.pc = "retire" /\ build'.pc = "activate"
          /\ build'.id = build.id /\ build'.new = build.new /\ build'.marks = build.marks
          /\ UNCHANGED <<docs, dir, index, current, edit, overlapped, crashes, errors>>
      BY <1>1, <1>5 DEF BuildRetires, Goto, UpdateMeta, memory, history, BuildState
    <2>2. RootsIn(meta') = RootsIn(meta)
      BY <1>1, <2>1, DeactivationKeeps DEF Retired
    <2>3. BuildStep
      BY <2>1, <2>2 DEF BuildStep, Written, Unnamed
    <2> QED BY <2>3, BuildStepServes
  <1>6. CASE BuildActivates
    <2>1. /\ meta' = Activated /\ build.pc = "activate" /\ build'.pc = "mark"
          /\ build'.id = build.id /\ build'.new = build.new /\ build'.marks = build.marks
          /\ UNCHANGED <<docs, dir, index, current, edit, overlapped, crashes, errors>>
      BY <1>1, <1>6 DEF BuildActivates, Goto, UpdateMeta, memory, history, BuildState
    <2>2. RootsIn(meta') = RootsIn(meta)
      BY <1>1, <2>1, ActivatedKeeps DEF Activated
    <2>3. BuildStep
      BY <2>1, <2>2 DEF BuildStep, Written, Unnamed
    <2> QED BY <2>3, BuildStepServes
  <1> QED BY <1>2, <1>3, <1>4, <1>5, <1>6

\* The build puts in memory what it has written and marked.
LEMMA SwapServes ==
  ASSUME IInv, DiskInv, ServedInv, BuildSwaps
  PROVE  ServedInv'
  <1>1. /\ build.pc = "mark" /\ build'.pc = "clean"
        /\ index' = build.new /\ current' = build.id
        /\ UNCHANGED <<docs, meta, dir, edit, overlapped, crashes, errors>>
    BY DEF BuildSwaps, Goto, storage, history, IInv, TypeOK, BuildState
  <1>2. ActiveIn(meta) = {build.id} /\ build.id # 0
    BY <1>1, DiskFacts DEF ActivityOK
  <1>3. EditsAlone'
    BY <1>1 DEF ServedInv, EditsAlone
  <1>4. ASSUME Calm' PROVE SavedAsBuilt' /\ Matches' /\ (crashes' = 0 => Alive')
    <2>1. Calm
      BY <1>1, <1>4 DEF Calm
    <2>2. dir[build.id] = build.new /\ edit.pc = "idle" /\ (crashes = 0 => Alive)
      BY <1>1, <2>1, CalmFacts DEF SavedAsBuilt, Written
    <2>3. SavedAsBuilt' /\ Matches' /\ Within'
      BY <1>1, <2>2 DEF SavedAsBuilt, Matches, Within, Written
    <2>4. ASSUME Alive PROVE Cached' /\ Between'
      <3>1. Cached'
        BY <1>1, <1>2, <2>4 DEF Alive, Cached, Unnamed
      <3>2. FindActive = build.id /\ Found' = Found
        BY <1>1, <1>2, FindIs, ActiveIs DEF Found
      <3>3. Found' = build.new
        BY <1>2, <2>2, <3>2 DEF Found
      <3>4. Served(build.new, Doc)
        BY <1>1, <2>4 DEF Alive, Within, Written
      <3>5. Served(Found, Doc)'
        BY <1>1, <3>3, <3>4 DEF Served
      <3>6. Between'
        BY <1>1, <2>2, <3>5 DEF Between
      <3> QED BY <3>1, <3>6
    <2> QED BY <1>1, <2>2, <2>3, <2>4 DEF Alive
  <1> QED BY <1>3, <1>4 DEF ServedInv

(***************************************************************************)
(* The cleanup, and a crash.                                               *)
(***************************************************************************)

LEMMA PruneServes ==
  ASSUME IInv, DiskInv, ServedInv, Prune
  PROVE  ServedInv'
  <1>1. PICK b \in build.prune :
          /\ dir' \in {dir, Removed(b)} /\ meta' = [meta EXCEPT ![b].status = "stale"]
          /\ build'.pc = build.pc /\ build.pc = "prune"
          /\ errors' \in Nat /\ errors' >= errors
          /\ UNCHANGED <<docs, index, current, edit, overlapped, crashes>>
    <2>1. PICK b \in build.prune, u \in {0, 1}, r \in {0, 1} :
            /\ build.pc = "prune" /\ build' = [build EXCEPT !.prune = @ \ {b}]
            /\ dir' \in {dir, Removed(b)} /\ meta' = [meta EXCEPT ![b].status = "stale"]
            /\ errors' = errors + u + r
            /\ UNCHANGED <<docs, index, current, edit, overlapped, crashes>>
      BY DEF Prune, memory
    <2>2. errors + u + r \in Nat /\ errors + u + r >= errors
      BY DiskFacts
    <2>3. build'.pc = build.pc
      BY <2>1 DEF IInv, TypeOK, BuildState
    <2> QED BY <2>1, <2>2, <2>3
  <1>2. /\ meta \in Seq(Record) /\ b \in DOMAIN meta
        /\ b \notin ActiveIn(meta) \cup {current}
        /\ index # NoIndex => current \in BuildId
        /\ ActiveIn(meta) \subseteq BuildId
    <2>1. build.prune \in SUBSET (1..Len(meta))
      BY DEF IInv, TypeOK, BuildState
    <2> QED BY <1>1, <2>1, DiskFacts DEF PruneOK, ActivityOK
  <1>3. RootsIn(meta') = RootsIn(meta) /\ ActiveIn(meta') = ActiveIn(meta)
    <2>1. "stale" \in {"stale", "failed"}
      OBVIOUS
    <2>2. RootsIn(meta') = RootsIn(meta) /\ ActiveIn(meta') = ActiveIn(meta) \ {b}
      BY <1>1, <1>2, <2>1, StatusKeeps
    <2> QED BY <1>2, <2>2
  <1>4. Unnamed = {} /\ Unnamed' = {}
    BY <1>1 DEF Unnamed
  <1>5. ASSUME RootsIn(meta) = {}, NEW c \in BuildId, c # b PROVE dir'[c] = dir[c]
    <2>1. meta[b].path # "root"
      BY <1>2, <1>5 DEF RootsIn
    <2> QED BY <1>1, <1>5, <2>1 DEF Removed
  <1>6. EditsAlone'
    BY <1>1 DEF ServedInv, EditsAlone
  <1>7. ASSUME Calm' PROVE SavedAsBuilt' /\ Matches' /\ (crashes' = 0 => Alive')
    <2>1. Calm
      BY <1>1, <1>7, DiskFacts DEF Calm
    <2>2. Matches /\ (crashes = 0 => Alive)
      BY <2>1, CalmFacts
    <2>3. SavedAsBuilt' /\ Within'
      BY <1>1 DEF SavedAsBuilt, Within, Written
    <2>4. Matches'
      <3>1. index # NoIndex /\ RootsIn(meta) = {} => dir'[current] = dir[current]
        BY <1>2, <1>5
      <3> QED BY <1>1, <1>3, <1>4, <2>2, <3>1 DEF Matches
    <2>5. ASSUME Alive PROVE Cached' /\ Between'
      <3>1. Cached'
        BY <1>1, <1>3, <1>4, <2>5 DEF Alive, Cached
      <3>2. RootsIn(meta) = {}
        BY <1>4, <2>5 DEF Alive, Cached
      <3>3. FindActive' = FindActive
        BY <1>3, ActiveIs
      <3>4. FindActive = 0 \/ (FindActive \in BuildId /\ FindActive # b)
        BY <1>2, FindIs
      <3>5. Found' = Found
        BY <1>5, <3>2, <3>3, <3>4 DEF Found
      <3>6. Between'
        BY <1>1, <2>5, <3>5 DEF Alive, Between, Served, Written
      <3> QED BY <3>1, <3>6
    <2> QED BY <1>1, <2>2, <2>3, <2>4, <2>5 DEF Alive
  <1> QED BY <1>6, <1>7 DEF ServedInv

LEMMA CrashServes ==
  ASSUME IInv, DiskInv, ServedInv, Crash
  PROVE  ServedInv'
  <1>1. /\ index' = NoIndex /\ build'.pc = "idle" /\ edit'.pc = "idle"
        /\ crashes' = crashes + 1 /\ crashes \in Nat
    BY DiskFacts DEF Crash, NoBuild, NoEdit
  <1>2. crashes' # 0
    BY <1>1
  <1> QED BY <1>1, <1>2 DEF ServedInv, EditsAlone, SavedAsBuilt, Matches, Written

LEMMA StutterServes ==
  ASSUME ServedInv, UNCHANGED vars
  PROVE  ServedInv'
  <1>1. /\ UNCHANGED <<docs, meta, dir, index, current, build, edit, overlapped, crashes, errors>>
        /\ FindActive' = FindActive
    BY ActiveIs DEF vars, storage, memory, history
  <1>2. /\ Found' = Found /\ Unnamed' = Unnamed
        /\ (Calm' <=> Calm) /\ (EditsAlone <=> EditsAlone')
        /\ (SavedAsBuilt <=> SavedAsBuilt')
    BY <1>1 DEF Found, Unnamed, Calm, EditsAlone, SavedAsBuilt
  <1>3. Matches => Matches'
    BY <1>1, <1>2 DEF Matches
  <1>4. Alive => Alive'
    BY <1>1, <1>2 DEF Alive, Cached, Between, Within, Served
  <1> QED BY <1>1, <1>2, <1>3, <1>4 DEF ServedInv

(***************************************************************************)
(* The theorem about what is served.                                       *)
(***************************************************************************)

LEMMA ServedInit == Init => ServedInv
  <1> SUFFICES ASSUME Init PROVE ServedInv
    OBVIOUS
  <1>1. /\ index = NoIndex /\ build.pc = "idle" /\ edit.pc = "idle" /\ current = 0
        /\ meta = <<>> /\ DOMAIN meta = {}
        /\ \A d \in Doc : docs[d].status # "indexed"
    BY DEF Init, NoBuild, NoEdit
  <1>2. EditsAlone /\ SavedAsBuilt /\ Matches
    BY <1>1 DEF EditsAlone, SavedAsBuilt, Matches, Written
  <1>3. Cached /\ Between /\ Within
    BY <1>1 DEF Cached, Between, Within, Served, Written, RootsIn
  <1> QED BY <1>2, <1>3 DEF ServedInv, Alive

LEMMA ServedStep == IInv /\ DiskInv /\ ServedInv /\ [Next]_vars => ServedInv'
  <1> SUFFICES ASSUME IInv, DiskInv, ServedInv, [Next]_vars PROVE ServedInv'
    OBVIOUS
  <1> QED BY CrawlServes, MarkServes, BeginServes, EditSaveServes, EditMarkServes, StartServes,
             BuildStepsServe, CloneServes, QueryServes, SwapServes, CleanServes, PruneServes,
             LoadServes, FailureServes, CrashServes, StutterServes
          DEF Next

LEMMA ServedSuffices == IInv /\ DiskInv /\ ServedInv => ServedFollowsRecords
  <1> SUFFICES ASSUME IInv, DiskInv, ServedInv PROVE ServedFollowsRecords
    OBVIOUS
  <1>1. MemoryMatchesDisk
    <2>1. (\A b \in DOMAIN meta : meta[b].path = "own") => RootsIn(meta) = {}
      BY DEF RootsIn
    <2> QED BY <2>1 DEF MemoryMatchesDisk, ServedInv, Calm, Matches
  <1>2. ServedWhenUndisturbed
    <2> SUFFICES ASSUME ~overlapped, crashes = 0, errors = 0, Quiet, FindActive # 0
                 PROVE  Served(dir[FindActive], Doc)
      BY DEF ServedWhenUndisturbed, IndexedIsServed, Served
    <2> QED BY DEF ServedInv, Calm, Alive, Between, Found, Quiet, Written
  <1> QED BY <1>1, <1>2 DEF ServedFollowsRecords

\* The index in memory is the active generation on disk, across crashes, and every
\* document marked as indexed is in it with the content it was marked for, as long
\* as document operations and builds come one after the other and nothing fails.
THEOREM ServedIsRecorded == Spec => []ServedFollowsRecords
  <1>1. IInv /\ DiskInv /\ ServedInv /\ [Next]_vars => IInv' /\ DiskInv' /\ ServedInv'
    BY InvariantStep, DiskStep, ServedStep
  <1> QED BY <1>1, InitInvariant, DiskInit, ServedInit, ServedSuffices, PTL DEF Spec
===============================================================================
