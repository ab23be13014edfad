---------------------------- MODULE JsonRepository ----------------------------
(***************************************************************************)
(* The document and URL repositories of the JSON storage adapter           *)
(* (packages/storage/src/adapters/json-adapter.ts) as the crawler uses     *)
(* them.                                                                   *)
(*                                                                         *)
(* A change goes to the collection in memory, then the whole collection is *)
(* written, and only then are the indexes updated; the write may throw.    *)
(* A document has two keys: the fingerprint of the URL that was crawled    *)
(* and the URL its page calls canonical.                                   *)
(*                                                                         *)
(* Abstractions: a fingerprint is its URL, a page is the number of its     *)
(* crawl, an id is the position at which the document was inserted.        *)
(***************************************************************************)
EXTENDS Integers, Sequences, FiniteSets

CONSTANTS
  Url,          \* crawled and canonical URLs
  MaxCrawls     \* bound: pages crawled

ASSUME RepoAssumption == MaxCrawls \in Nat

VARIABLES
  open,       \* the adapter is initialized
  docs,       \* documents in memory, in the order of insertion
  docFile,    \* documents.json
  urlIndex,   \* canonical URL -> position
  hashIndex,  \* fingerprint -> position
  known,      \* URL records in memory, by fingerprint
  knownFile,  \* urls.json
  crawls,     \* number of the last page crawled
  \* history
  stored,     \* fingerprint -> the last page reported as stored
  failed      \* canonical URL -> failed creations

repoVars == <<open, docs, docFile, urlIndex, hashIndex, known, knownFile,
              crawls, stored, failed>>

Doc     == [url : Url, hash : Url, page : Nat]
NoIndex == [u \in Url |-> 0]

RepoTypeOK ==
  /\ open \in BOOLEAN
  /\ docs \in Seq(Doc) /\ docFile \in Seq(Doc)
  /\ {urlIndex, hashIndex} \subseteq [Url -> 0..Len(docs)]
  /\ known \subseteq Url /\ knownFile \subseteq Url
  /\ crawls \in 0..MaxCrawls
  /\ stored \in [Url -> 0..MaxCrawls] /\ failed \in [Url -> 0..MaxCrawls]

RepoInit ==
  /\ open = FALSE
  /\ docs = <<>> /\ docFile = <<>>
  /\ urlIndex = NoIndex /\ hashIndex = NoIndex
  /\ known = {} /\ knownFile = {}
  /\ crawls = 0 /\ stored = NoIndex /\ failed = NoIndex

\* load: the indexes are rebuilt, a later document replaces an earlier one
Latest(is) == IF is = {} THEN 0 ELSE CHOOSE i \in is : \A j \in is : j <= i

WithHash(ds, h) == {i \in DOMAIN ds : ds[i].hash = h}

\* mutant: an earlier document is kept
ReloadHashEarliest(ds) ==
  [h \in Url |-> IF WithHash(ds, h) = {} THEN 0
                 ELSE CHOOSE i \in WithHash(ds, h) : \A j \in WithHash(ds, h) : j >= i]
ReloadHash(ds) == [h \in Url |-> Latest(WithHash(ds, h))]

\* initialize
Loaded == [docs |-> docFile, known |-> knownFile]

Open ==
  /\ ~open /\ open' = TRUE
  /\ docs' = Loaded.docs
  /\ urlIndex' = [u \in Url |-> Latest({i \in DOMAIN docs' : docs'[i].url = u})]
  /\ hashIndex' = ReloadHash(docs')
  /\ known' = Loaded.known
  /\ UNCHANGED <<docFile, knownFile, crawls, stored, failed>>

\* close, or the process ends: nothing is written
Shut ==
  /\ open /\ open' = FALSE
  /\ docs' = <<>> /\ urlIndex' = NoIndex /\ hashIndex' = NoIndex
  /\ known' = {}
  /\ UNCHANGED <<docFile, knownFile, crawls, stored, failed>>

\* a page of h whose canonical URL is u: it updates the document found by the fingerprint,
\* a new one is refused when its URL has a document
Found(h) == hashIndex[h] # 0
Refused(u, h) == ~Found(h) /\ urlIndex[u] # 0
Written(u, h) == IF Found(h) THEN [docs EXCEPT ![hashIndex[h]].page = crawls + 1]
                 ELSE Append(docs, [url |-> u, hash |-> h, page |-> crawls + 1])

StoresPage(u, h) ==
  /\ open /\ crawls < MaxCrawls /\ ~Refused(u, h)
  /\ crawls' = crawls + 1
  /\ docs' = Written(u, h) /\ docFile' = docs'
  /\ IF Found(h) THEN UNCHANGED <<urlIndex, hashIndex>>
     ELSE /\ urlIndex' = [urlIndex EXCEPT ![u] = Len(docs')]
          /\ hashIndex' = [hashIndex EXCEPT ![h] = Len(docs')]
  /\ stored' = [stored EXCEPT ![h] = crawls']
  /\ UNCHANGED <<open, known, knownFile, failed>>

\* the write throws after memory has changed; a new document is in no index
StoringThrows(u, h) ==
  /\ open /\ crawls < MaxCrawls /\ ~Refused(u, h)
  /\ crawls' = crawls + 1
  /\ docs' = Written(u, h)
  /\ failed' = IF Found(h) THEN failed ELSE [failed EXCEPT ![u] = @ + 1]
  /\ UNCHANGED <<open, docFile, urlIndex, hashIndex, known, knownFile, stored>>

\* a URL is recorded unless findByHash knows it
RecordsUrl(h) ==
  /\ open /\ h \notin known
  /\ known' = known \cup {h}
  /\ \/ knownFile' = known'
     \/ UNCHANGED knownFile   \* the write throws
  /\ UNCHANGED <<open, docs, docFile, urlIndex, hashIndex, crawls, stored, failed>>

RepoNext ==
  \/ Open \/ Shut
  \/ \E u, h \in Url : StoresPage(u, h) \/ StoringThrows(u, h)
  \/ \E h \in Url : RecordsUrl(h)

RepoSpec == RepoInit /\ [][RepoNext]_repoVars

(***************************************************************************)
(* Properties                                                              *)
(***************************************************************************)

\* What was reported as stored is what the file holds and what findByUrlHash
\* returns, whatever failed or stopped in between: the page, or a later one.
StoredIsServed ==
  \A h \in Url : stored[h] # 0 =>
    /\ \E i \in DOMAIN docFile : docFile[i].hash = h /\ docFile[i].page >= stored[h]
    /\ open => Found(h) /\ docs[hashIndex[h]].hash = h /\ docs[hashIndex[h]].page >= stored[h]

\* "Check duplicates": there is one document for a URL, and one more for each
\* failure to create it, because a record without an index entry is not found.
DuplicatesNeedFailures ==
  \A u \in Url : Cardinality({i \in DOMAIN docs : docs[i].url = u}) <= 1 + failed[u]

\* A document on disk is never lost again and never goes back to an older page.
FileOnlyGrows ==
  [][\A i \in DOMAIN docFile :
       /\ i \in DOMAIN docFile' /\ docFile'[i].hash = docFile[i].hash
       /\ docFile'[i].page >= docFile[i].page]_repoVars

\* A URL record that was written stays on disk.
UrlRecordsStay == [][knownFile \subseteq knownFile']_repoVars
===============================================================================
