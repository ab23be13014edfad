---------------------------- MODULE SegmentedIndex ----------------------------
(***************************************************************************)
(* The segmented inverted index (packages/indexer/src/segments): a write   *)
(* buffer in memory, immutable segment files, and a manifest naming the    *)
(* active segments.                                                        *)
(*                                                                         *)
(* flushSegment, mergeSegments and recover run to completion on the event  *)
(* loop, but each performs several file operations, and a crash or an      *)
(* exception can fall between any two of them.  compact awaits between its *)
(* flush, its merge and its reload, so other calls run in those gaps.      *)
(*                                                                         *)
(* A document's content is a version number; the terms of a version are    *)
(* the constant Terms.  Checksums only ever confirm what an atomic rename  *)
(* installed, and are left out.                                            *)
(***************************************************************************)
EXTENDS Integers, Sequences, FiniteSets, SequencesExt, FiniteSetsExt

CONSTANTS
  Doc,
  Term,
  MaxVer,         \* bound: versions of each document ever added
  Terms,          \* the terms of each version of each document
  MaxBufferSize,  \* options.maxBufferSize
  MaxSegs,        \* bound: segment files ever written
  MaxCrashes,     \* bound: crashes
  MaxErrors,      \* bound: file operations that throw
  PartialMerges,  \* whether callers use mergeSegments on some of the segments
  MayClear        \* whether callers use clear

ASSUME ConstantsAssumption ==
  /\ MaxVer \in Nat /\ MaxBufferSize \in Nat \ {0} /\ MaxSegs \in Nat
  /\ MaxCrashes \in Nat /\ MaxErrors \in Nat
  /\ Terms \in [Doc \X (1..MaxVer) -> SUBSET Term]
  /\ PartialMerges \in BOOLEAN /\ MayClear \in BOOLEAN
  /\ IsFiniteSet(Doc)

SegId   == 1..MaxSegs
Version == [doc : Doc, ver : 1..MaxVer]

\* documents in file order; for each term and document the version its posting has
Payload == [docs : Seq(Version), post : [Term \X Doc -> 0..MaxVer]]
Manifest == [gen : Nat, segs : Seq(SegId)]

VARIABLES
  opened,      \* the process has constructed the index and loaded it
  buffer,      \* writeBuffer
  segments,    \* activeSegments, by id
  payload,     \* the contents of every segment written so far
  files,       \* the segment files on disk
  manifest,    \* manifest.json; generation 0 stands for no file
  call,        \* the synchronous call in progress
  compaction,  \* where compact() is: "none", or the await it is at
  \* history
  added,       \* the newest version of each document ever added
  removed,     \* documents whose last change was a successful removal
  discarded,   \* a load or clear the caller asked for dropped unsaved documents
  unread,      \* documents of segments a flush saved and could not read back
  crashes, errors

disk    == <<payload, files, manifest>>
history == <<added, removed, discarded, unread, crashes, errors>>
vars    == <<opened, buffer, segments, disk, call, compaction, history>>

NoCall == [op |-> "none", docs |-> <<>>, ids |-> <<>>, new |-> 0, compact |-> FALSE]
Idle == call.op = "none"

TypeOK ==
  /\ opened \in BOOLEAN
  /\ buffer \in Seq(Version)
  /\ segments \in Seq(SegId)
  /\ payload \in Seq(Payload) /\ Len(payload) <= MaxSegs
  /\ files \subseteq DOMAIN payload
  /\ manifest \in Manifest
  /\ call \in [op : {"none", "flush", "flushed", "merge", "merged", "promoted"},
               docs : Seq(Version), ids : Seq(SegId), new : SegId \cup {0},
               compact : BOOLEAN]
  /\ compaction \in {"none", "flushing", "merging"}
  /\ added \in [Doc -> 0..MaxVer] /\ removed \subseteq Doc
  /\ discarded \in BOOLEAN /\ unread \subseteq Doc
  /\ crashes \in Nat /\ errors \in Nat

(***************************************************************************)
(* Reading.                                                                *)
(***************************************************************************)

LastVersion(docs, d) ==
  LET at == {i \in DOMAIN docs : docs[i].doc = d}
  IN  IF at = {} THEN 0 ELSE docs[Max(at)].ver

FirstVersion(docs, d) ==
  LET at == {i \in DOMAIN docs : docs[i].doc = d}
  IN  IF at = {} THEN 0 ELSE docs[Min(at)].ver

\* later segments override earlier ones: the map built by getAllDocumentMeta,
\* and docMap in mergeSegments
InSegments(ids, d) ==
  LET at == {i \in DOMAIN ids : LastVersion(payload[ids[i]].docs, d) # 0}
  IN  IF at = {} THEN 0 ELSE LastVersion(payload[ids[Max(at)]].docs, d)

GetAllDocumentMeta(d) ==
  IF LastVersion(buffer, d) # 0 THEN LastVersion(buffer, d) ELSE InSegments(segments, d)

\* getDocumentMeta: the buffer from its end, then the segments from the newest,
\* each of them from its first document
GetDocumentMeta(d) ==
  LET at == {i \in DOMAIN segments : LastVersion(payload[segments[i]].docs, d) # 0}
  IN  IF LastVersion(buffer, d) # 0 THEN LastVersion(buffer, d)
      ELSE IF at = {} THEN 0
      ELSE FirstVersion(payload[segments[Max(at)]].docs, d)

\* the version in the posting of document d for term t: in a list of documents,
\* and in a list of segments
PostingIn(docs, t, d) ==
  LET at == {i \in DOMAIN docs : docs[i].doc = d /\ t \in Terms[<<d, docs[i].ver>>]}
  IN  IF at = {} THEN 0 ELSE docs[Max(at)].ver

PostingInSegments(ids, t, d) ==
  LET at == {i \in DOMAIN ids : payload[ids[i]].post[<<t, d>>] # 0}
  IN  IF at = {} THEN 0 ELSE payload[ids[Max(at)]].post[<<t, d>>]

GetPosting(t, d) ==
  IF PostingIn(buffer, t, d) # 0 THEN PostingIn(buffer, t, d)
                                 ELSE PostingInSegments(segments, t, d)

(***************************************************************************)
(* The calls that change the buffer.                                       *)
(***************************************************************************)

Init ==
  /\ opened = FALSE
  /\ buffer = <<>> /\ segments = <<>>
  /\ payload = <<>> /\ files = {}
  /\ manifest = [gen |-> 0, segs |-> <<>>]
  /\ call = NoCall /\ compaction = "none"
  /\ added = [d \in Doc |-> 0] /\ removed = {} /\ discarded = FALSE
  /\ unread = {}
  /\ crashes = 0 /\ errors = 0

\* a process constructs the index and loads it
Open ==
  /\ ~opened
  /\ opened' = TRUE
  /\ segments' = manifest.segs
  /\ buffer' = <<>>
  /\ unread' = {}
  /\ UNCHANGED <<disk, call, compaction, added, removed, discarded, crashes, errors>>

\* load: drops the write buffer (a missing manifest is an empty index).  A load
\* that throws leaves everything as it was.
Load ==
  /\ opened /\ Idle
  /\ segments' = manifest.segs
  /\ buffer' = <<>>
  /\ discarded' = (discarded \/ buffer # <<>>)
  /\ unread' = {}
  /\ UNCHANGED <<opened, disk, call, compaction, added, removed, crashes, errors>>

\* clear empties memory only
Clear ==
  /\ MayClear
  /\ opened /\ Idle
  /\ segments' = <<>> /\ buffer' = <<>>
  /\ discarded' = TRUE
  /\ UNCHANGED <<opened, disk, call, compaction, added, removed, unread, crashes, errors>>

Flushing(docs) == [NoCall EXCEPT !.op = "flush", !.docs = docs]

\* addDocument and updateDocument: a full buffer is flushed before they return
AddDocument(d) ==
  /\ opened /\ Idle
  /\ added[d] < MaxVer
  /\ added' = [added EXCEPT ![d] = @ + 1]
  /\ removed' = removed \ {d}
  /\ LET docs == Append(buffer, [doc |-> d, ver |-> added[d] + 1])
     IN  IF Len(docs) >= MaxBufferSize
         THEN buffer' = <<>> /\ call' = Flushing(docs)
         ELSE buffer' = docs /\ UNCHANGED call
  /\ UNCHANGED <<opened, segments, disk, compaction, discarded, unread, crashes, errors>>

\* removeDocument removes the first version it finds in the buffer
RemoveDocument(d) ==
  /\ opened /\ Idle
  /\ LET at == {i \in DOMAIN buffer : buffer[i].doc = d}
     IN  at # {} /\ buffer' = RemoveAt(buffer, Min(at))
  /\ removed' = removed \cup {d}
  /\ UNCHANGED <<opened, segments, disk, call, compaction, added, discarded, unread, crashes,
                 errors>>

(***************************************************************************)
(* flushSegment: take the buffer, write the segment, save the manifest.    *)
(***************************************************************************)

FlushSegment ==
  /\ opened /\ Idle
  /\ buffer # <<>>
  /\ call' = Flushing(buffer)
  /\ buffer' = <<>>
  /\ UNCHANGED <<opened, segments, disk, compaction, history>>

\* mutant: the counter of segment ids is one behind
NextSegBehind == Cardinality(DOMAIN payload)

NextSeg == Cardinality(DOMAIN payload) + 1

\* writeSegmentAtomic, followed by the state `call` goes on from
WriteSegment(p, op) ==
  /\ NextSeg <= MaxSegs
  /\ payload' = Append(payload, p)
  /\ files' = files \cup {NextSeg}
  /\ call' = [call EXCEPT !.op = op, !.new = NextSeg]

FlushWrites ==
  /\ call.op = "flush"
  /\ WriteSegment([docs |-> call.docs,
                   post |-> [td \in Term \X Doc |-> PostingIn(call.docs, td[1], td[2])]],
                  "flushed")
  /\ UNCHANGED <<opened, buffer, segments, manifest, compaction, history>>

\* mutants: the new segment comes first; it is never read back
FlushPublishesFirst ==
  /\ call.op = "flushed"
  /\ manifest' = [gen |-> manifest.gen + 1, segs |-> <<call.new>> \o manifest.segs]
  /\ segments' = <<call.new>> \o segments
  /\ call' = NoCall
  /\ UNCHANGED <<opened, buffer, payload, files, compaction, history>>

FlushPublishesOnDisk ==
  /\ call.op = "flushed"
  /\ manifest' = [gen |-> manifest.gen + 1, segs |-> Append(manifest.segs, call.new)]
  /\ call' = NoCall
  /\ UNCHANGED <<opened, buffer, segments, payload, files, compaction, history>>

\* the manifest is read again before the new segment is appended to it; when it is
\* saved, the segment's file is read back
FlushPublishes ==
  /\ call.op = "flushed"
  /\ manifest' = [gen |-> manifest.gen + 1, segs |-> Append(manifest.segs, call.new)]
  /\ segments' = Append(segments, call.new)
  /\ call' = NoCall
  /\ UNCHANGED <<opened, buffer, payload, files, compaction, history>>

\* a flush that throws ends the compact that called it
EndsWith(c) == IF c.compact THEN "none" ELSE compaction

\* reading the segment back throws: the flush is reported as failed, its
\* documents are neither in the buffer nor in activeSegments, but they are saved
FlushUnread ==
  /\ call.op = "flushed"
  /\ errors < MaxErrors
  /\ errors' = errors + 1
  /\ manifest' = [gen |-> manifest.gen + 1, segs |-> Append(manifest.segs, call.new)]
  /\ unread' = unread \cup {call.docs[i].doc : i \in DOMAIN call.docs}
  /\ call' = NoCall
  /\ compaction' = EndsWith(call)
  /\ UNCHANGED <<opened, buffer, segments, payload, files, added, removed, discarded, crashes>>

(***************************************************************************)
(* mergeSegments: write the merged segment, promote the manifest, delete   *)
(* the merged segments' files one by one.                                  *)
(***************************************************************************)

Merging(ids) == [NoCall EXCEPT !.op = "merge", !.ids = ids]

\* mutant: a document keeps the version of the first segment that has it
MergedDocsOldest(ids) ==
  LET first(d) == SelectSeq(ids, LAMBDA s : LastVersion(payload[s].docs, d) # 0)
      version(d) == [doc |-> d, ver |-> LastVersion(payload[first(d)[1]].docs, d)]
  IN  SetToSeq({version(d) : d \in {e \in Doc : first(e) # <<>>}})

\* the documents of the merged segment: the newest version in the merged ones
MergedDocs(ids) ==
  LET version(d) == [doc |-> d, ver |-> InSegments(ids, d)]
      found == {version(d) : d \in {e \in Doc : InSegments(ids, e) # 0}}
  IN  SetToSeq(found)

MergedPayload(ids) ==
  [docs |-> MergedDocs(ids),
   post |-> [td \in Term \X Doc |-> PostingInSegments(ids, td[1], td[2])]]

MergeWrites ==
  /\ call.op = "merge"
  /\ WriteSegment(MergedPayload(call.ids), "merged")
  /\ UNCHANGED <<opened, buffer, segments, manifest, compaction, history>>

\* mutant: the segments that were not merged are forgotten
MergePromotesAlone ==
  /\ call.op = "merged"
  /\ manifest' = [gen |-> manifest.gen + 1, segs |-> <<call.new>>]
  /\ call' = [call EXCEPT !.op = "promoted"]
  /\ UNCHANGED <<opened, buffer, segments, payload, files, compaction, history>>

\* a list of segments without some of them
Without(ids, out) ==
  LET kept[i \in 0..Len(ids)] ==
        IF i = 0 THEN <<>>
        ELSE IF ids[i] \in out THEN kept[i - 1] ELSE Append(kept[i - 1], ids[i])
  IN  kept[Len(ids)]

\* the remaining segments, then the merged one
MergePromotes ==
  /\ call.op = "merged"
  /\ LET remaining == Without(manifest.segs, ToSet(call.ids))
     IN  manifest' = [gen |-> manifest.gen + 1, segs |-> Append(remaining, call.new)]
  /\ call' = [call EXCEPT !.op = "promoted"]
  /\ UNCHANGED <<opened, buffer, segments, payload, files, compaction, history>>

\* mutant: files are deleted before the manifest is promoted
MergeDeletesEarly ==
  /\ call.op \in {"merged", "promoted"}
  /\ call.ids # <<>>
  /\ files' = files \ {Head(call.ids)}
  /\ call' = [call EXCEPT !.ids = IF call.op = "promoted" THEN Tail(@) ELSE @]
  /\ UNCHANGED <<opened, buffer, segments, payload, manifest, compaction, history>>

MergeDeletes ==
  /\ call.op = "promoted"
  /\ call.ids # <<>>
  /\ files' = files \ {Head(call.ids)}
  /\ call' = [call EXCEPT !.ids = Tail(@)]
  /\ UNCHANGED <<opened, buffer, segments, payload, manifest, compaction, history>>

\* an unlink that throws is ignored
MergeDeleteFails ==
  /\ call.op = "promoted"
  /\ call.ids # <<>>
  /\ errors < MaxErrors
  /\ errors' = errors + 1
  /\ call' = [call EXCEPT !.ids = Tail(@)]
  /\ UNCHANGED <<opened, buffer, segments, disk, compaction, added, removed, discarded, unread,
                 crashes>>

MergeReturns ==
  /\ call.op = "promoted"
  /\ call.ids = <<>>
  /\ call' = NoCall
  /\ UNCHANGED <<opened, buffer, segments, disk, compaction, history>>

\* mergeSegments called on some of the active segments (it is exported)
MergeSome ==
  /\ PartialMerges
  /\ opened /\ Idle
  /\ \E i, j \in DOMAIN manifest.segs :
       i < j /\ call' = Merging(<<manifest.segs[i], manifest.segs[j]>>)
  /\ UNCHANGED <<opened, buffer, segments, disk, compaction, history>>

(***************************************************************************)
(* compact: flush, merge all the active segments, reload.                  *)
(***************************************************************************)

ForCompact(c) == [c EXCEPT !.compact = TRUE]

CompactFlushes ==
  /\ opened /\ Idle
  /\ compaction = "none"
  /\ compaction' = "flushing"
  /\ IF buffer = <<>> THEN UNCHANGED <<buffer, call>>
                      ELSE buffer' = <<>> /\ call' = ForCompact(Flushing(buffer))
  /\ UNCHANGED <<opened, segments, disk, history>>

\* after the await of the flush
CompactMerges ==
  /\ opened /\ Idle
  /\ compaction = "flushing"
  /\ IF Len(manifest.segs) <= 1
     THEN compaction' = "none" /\ UNCHANGED call
     ELSE compaction' = "merging" /\ call' = ForCompact(Merging(manifest.segs))
  /\ UNCHANGED <<opened, buffer, segments, disk, history>>

\* after the await of the merge: load() drops the write buffer
CompactReloads ==
  /\ opened /\ Idle
  /\ compaction = "merging"
  /\ compaction' = "none"
  /\ segments' = manifest.segs
  /\ buffer' = <<>>
  /\ unread' = {}
  /\ UNCHANGED <<opened, disk, call, added, removed, discarded, crashes, errors>>

\* reading the manifest or a segment throws after one of compact's awaits
CompactThrows ==
  /\ opened /\ Idle
  /\ compaction # "none"
  /\ errors < MaxErrors
  /\ errors' = errors + 1
  /\ compaction' = "none"
  /\ UNCHANGED <<opened, buffer, segments, disk, call, added, removed, discarded, unread, crashes>>

\* recover: delete every segment file the manifest does not name
Recover ==
  /\ opened /\ Idle
  /\ manifest.gen > 0
  /\ files' = files \cap ToSet(manifest.segs)
  /\ UNCHANGED <<opened, buffer, segments, payload, manifest, call, compaction, history>>

(***************************************************************************)
(* Failures.                                                               *)
(***************************************************************************)

\* reading or writing a segment or the manifest throws; so does the compact that
\* called it
FileOperationThrows ==
  /\ call.op \in {"flush", "flushed", "merge", "merged"}
  /\ errors < MaxErrors
  /\ errors' = errors + 1
  /\ call' = NoCall
  /\ compaction' = EndsWith(call)
  /\ UNCHANGED <<opened, buffer, segments, disk, added, removed, discarded, unread, crashes>>

Crash ==
  /\ opened
  /\ crashes < MaxCrashes
  /\ crashes' = crashes + 1
  /\ opened' = FALSE
  /\ buffer' = <<>> /\ segments' = <<>>
  /\ call' = NoCall /\ compaction' = "none" /\ unread' = {}
  /\ UNCHANGED <<disk, added, removed, discarded, errors>>

Next ==
  \/ Open \/ Load \/ Clear
  \/ \E d \in Doc : AddDocument(d) \/ RemoveDocument(d)
  \/ FlushSegment \/ FlushWrites \/ FlushPublishes \/ FlushUnread
  \/ MergeSome \/ MergeWrites \/ MergePromotes \/ MergeDeletes
  \/ MergeDeleteFails \/ MergeReturns
  \/ CompactFlushes \/ CompactMerges \/ CompactReloads \/ CompactThrows
  \/ Recover
  \/ FileOperationThrows \/ Crash

Spec == Init /\ [][Next]_vars

(***************************************************************************)
(* Properties                                                              *)
(***************************************************************************)

\* Whatever is interrupted, the manifest names only segments that are on disk:
\* load() always succeeds after a crash.
ManifestSegmentsExist == ToSet(manifest.segs) \subseteq files

\* A segment file the manifest does not name is there only because a flush, a
\* merge or a deletion was interrupted.
OrphansOnlyAfterFailures ==
  Idle /\ crashes = 0 /\ errors = 0 => files = ToSet(manifest.segs)

\* Once a saved version of a document is in the index, no merge of whatever
\* segments, flush, failure or crash takes the document out of it.
DurableDocumentsStay ==
  [][\A d \in Doc :
       InSegments(manifest.segs, d) # 0 => InSegments(manifest.segs, d)' # 0]_vars

VersionsIn(ids, d) ==
  {v \in 1..MaxVer : \E i \in DOMAIN ids : \E j \in DOMAIN payload[ids[i]].docs :
                        payload[ids[i]].docs[j] = [doc |-> d, ver |-> v]}

\* What a reload brings back is the newest version any active segment holds.
NewestVersionWins ==
  \A d \in Doc : InSegments(manifest.segs, d) = Max(VersionsIn(manifest.segs, d) \cup {0})

\* Queries answered from the segments in memory and queries answered after a
\* reload see the same documents and postings, though a merge has replaced the
\* segments under a reader that has not reloaded.  The exceptions are the documents
\* of a flush that saved its segment and failed to read it back, until a reload.
MemoryAgreesWithDisk ==
  opened /\ Idle =>
    \A d \in Doc \ unread :
      /\ InSegments(segments, d) = InSegments(manifest.segs, d)
      /\ \A t \in Term :
           PostingInSegments(segments, t, d) = PostingInSegments(manifest.segs, t, d)

Batched(d) ==
  \E s \in ToSet(segments) : FirstVersion(payload[s].docs, d) # LastVersion(payload[s].docs, d)

\* getDocumentMeta and getAllDocumentMeta answer the same, except for a document
\* of which two versions were flushed into one segment (there the first gives
\* the older version, although it is documented to give the most recent one).
LookupsAgreeUnlessBatched ==
  opened /\ Idle =>
    \A d \in Doc : Batched(d) \/ GetDocumentMeta(d) = GetAllDocumentMeta(d)

\* Every term of a document's current version finds that version.
FoundByItsTerms ==
  opened /\ Idle =>
    \A d \in Doc : LET v == GetAllDocumentMeta(d)
                   IN  v # 0 => \A t \in Terms[<<d, v>>] : GetPosting(t, d) = v

\* The files on disk and the manifest go together, whatever is interrupted.
FilesFollowManifest == ManifestSegmentsExist /\ OrphansOnlyAfterFailures

\* All ways to read agree: memory and disk, one document and all of them, by id and by
\* term, with the exceptions the parts name.
ReadersAgree == MemoryAgreesWithDisk /\ LookupsAgreeUnlessBatched /\ FoundByItsTerms

\* What readers have of what is saved: the segments in memory, or those a process
\* that is down will find.
Loaded(d) == IF opened THEN InSegments(segments, d) ELSE InSegments(manifest.segs, d)

\* What readers see: a flush in progress still holds the documents it has taken
\* from the buffer.
InFlight == IF call.op \in {"flush", "flushed"} THEN call.docs ELSE <<>>
Visible(d) ==
  IF ~opened THEN Loaded(d)
  ELSE IF LastVersion(buffer, d) # 0 THEN LastVersion(buffer, d)
  ELSE IF LastVersion(InFlight, d) # 0 THEN LastVersion(InFlight, d)
  ELSE Loaded(d)

Abstract == INSTANCE DurableIndex
              WITH visible <- [d \in Doc |-> Visible(d)],
                   loaded <- [d \in Doc |-> Loaded(d)],
                   durable <- [d \in Doc |-> InSegments(manifest.segs, d)],
                   failures <- errors

\* The segmented index is an index with a write buffer and saves in one step: no
\* other step of a flush or a merge shows in what readers see or a restart brings
\* back, and only a save that reports a failure parts the two.
ImplementsDurableIndex == Abstract!Spec

(***************************************************************************)
(* What the interface and its comments say, and the code does not do.      *)
(***************************************************************************)

\* Without a failure an added document is in the index: compact flushes pending
\* documents first, and drops none.
AddedIsThere ==
  opened /\ crashes = 0 /\ errors = 0 /\ ~discarded => \A d \in Doc \ removed : Visible(d) = added[d]
===============================================================================
