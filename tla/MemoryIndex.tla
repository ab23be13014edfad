----------------------------- MODULE MemoryIndex -----------------------------
(***************************************************************************)
(* MemoryInvertedIndex, its file and the validator that a load asks        *)
(* (packages/indexer/src/index/inverted-index.ts and index-validator.ts).  *)
(*                                                                         *)
(* Abstractions: of a posting only its document is kept, of a document's   *)
(* metadata its id; the checksum is what it is computed of.                *)
(***************************************************************************)
EXTENDS Integers, FiniteSets

CONSTANTS IndexedDoc, IndexTerm

ASSUME IndexAssumption == IsFiniteSet(IndexedDoc)

VARIABLES
  documents,   \* ids
  dictionary,  \* the terms that have a posting list -> df and postings
  indexFile,   \* index.json: a payload, or None, or Unreadable
  tmpFile,     \* a temporary file is there; nothing ever reads it
  \* history
  contents,    \* document -> its terms when it was last added
  saved,       \* contents of the documents in the file
  damaged      \* "file", "memory": what no save or load of this code wrote

indexVars == <<documents, dictionary, indexFile, tmpFile, contents, saved, damaged>>

None       == [kind |-> "none"]
Unreadable == [kind |-> "unreadable"]
NoTerms    == [d \in IndexedDoc |-> {}]
EmptyDictionary == [t \in {} |-> {}]

PostingList  == [df : 0..Cardinality(IndexedDoc), postings : SUBSET IndexedDoc]
IsDictionary(f) == /\ DOMAIN f \subseteq IndexTerm
                   /\ \A t \in DOMAIN f : f[t] \in PostingList
IsFile(f) == \/ f \in {None, Unreadable}
             \/ /\ f.kind = "index" /\ f.documents \subseteq IndexedDoc
                /\ f.total \in 0..Cardinality(IndexedDoc) /\ IsDictionary(f.dictionary)

IndexTypeOK ==
  /\ documents \subseteq IndexedDoc /\ IsDictionary(dictionary)
  /\ IsFile(indexFile) /\ tmpFile \in BOOLEAN
  /\ {contents, saved} \subseteq [IndexedDoc -> SUBSET IndexTerm]
  /\ damaged \subseteq {"file", "memory"}

IndexInit ==
  /\ documents = {} /\ dictionary = EmptyDictionary
  /\ indexFile = None /\ tmpFile = FALSE
  /\ contents = NoTerms /\ saved = NoTerms /\ damaged = {}

(***************************************************************************)
(* Changes in memory                                                       *)
(***************************************************************************)
\* removeDocument: lists that have become empty go
Shortened(list, d) ==
  IF d \in list.postings
  THEN [postings |-> list.postings \ {d}, df |-> Cardinality(list.postings \ {d})] ELSE list
Gone(list, d) == d \in list.postings /\ Shortened(list, d).df = 0
Removed(dict, d) ==
  [t \in {u \in DOMAIN dict : ~Gone(dict[u], d)} |-> Shortened(dict[t], d)]

PostingsOf(dict, t) == IF t \in DOMAIN dict THEN dict[t].postings ELSE {}
WithPostings(dict, d, ts) ==
  [t \in DOMAIN dict \cup ts |->
     IF t \in ts THEN [postings |-> PostingsOf(dict, t) \cup {d}, df |-> Cardinality(PostingsOf(dict, t) \cup {d})]
     ELSE dict[t]]

\* addDocument and updateDocument: the postings of what it was are removed first
AddDocument(d, ts) ==
  /\ documents' = documents \cup {d}
  /\ dictionary' = WithPostings(IF d \in documents THEN Removed(dictionary, d) ELSE dictionary, d, ts)
  /\ contents' = [contents EXCEPT ![d] = ts]
  /\ UNCHANGED <<indexFile, tmpFile, saved, damaged>>

RemoveDocument(d) ==
  /\ d \in documents
  /\ documents' = documents \ {d}
  /\ dictionary' = Removed(dictionary, d)
  /\ contents' = [contents EXCEPT ![d] = {}]
  /\ UNCHANGED <<indexFile, tmpFile, saved, damaged>>

ClearIndex ==
  /\ documents' = {} /\ dictionary' = EmptyDictionary /\ contents' = NoTerms
  /\ damaged' = damaged \ {"memory"}
  /\ UNCHANGED <<indexFile, tmpFile, saved>>

(***************************************************************************)
(* The file                                                                *)
(***************************************************************************)
\* the checksum covers the ids, the terms and their counts
Checksum(docs, dict) == [docs |-> docs, counts |-> [t \in DOMAIN dict |-> dict[t].df]]
Payload == [kind |-> "index", documents |-> documents, dictionary |-> dictionary,
            total |-> Cardinality(documents), checksum |-> Checksum(documents, dictionary)]

\* save: the temporary file is written and then renamed; the process may die on the way
SaveIndex ==
  /\ indexFile' = Payload /\ tmpFile' = FALSE
  /\ saved' = contents
  /\ damaged' = IF "memory" \in damaged THEN damaged \cup {"file"} ELSE damaged \ {"file"}
  /\ UNCHANGED <<documents, dictionary, contents>>
Forgotten ==
  /\ documents' = {} /\ dictionary' = EmptyDictionary /\ contents' = NoTerms
  /\ damaged' = damaged \ {"memory"}

\* mutant: the file itself is written
SaveDiesInPlace ==
  /\ indexFile' \in {Unreadable, Payload}
  /\ Forgotten
  /\ UNCHANGED <<tmpFile, saved>>
SaveDies ==
  /\ tmpFile' = TRUE   \* cut or whole
  /\ Forgotten
  /\ UNCHANGED <<indexFile, saved>>

\* validateIndexFile: what are errors; a checksum that differs is a warning
Orphans(f) == (UNION {f.dictionary[t].postings : t \in DOMAIN f.dictionary}) \ f.documents
Valid(f) ==
  /\ f.kind = "index"
  /\ f.total = Cardinality(f.documents)
  /\ Orphans(f) = {}

\* load: an invalid file throws before anything is cleared
LoadIndex ==
  /\ Valid(indexFile)
  /\ documents' = indexFile.documents /\ dictionary' = indexFile.dictionary
  /\ contents' = saved
  /\ damaged' = IF "file" \in damaged THEN damaged \cup {"memory"} ELSE damaged \ {"memory"}
  /\ UNCHANGED <<indexFile, tmpFile, saved>>

\* something else changes the file: it is cut, or loses or gains a document or posting
DamageFile ==
  /\ indexFile.kind = "index" /\ "file" \notin damaged
  /\ \/ indexFile' = Unreadable
     \/ \E d \in IndexedDoc : indexFile' = [indexFile EXCEPT !.documents = @ \ {d}]
     \/ \E d \in IndexedDoc : indexFile' = [indexFile EXCEPT !.documents = @ \ {d},
                                              !.total = Cardinality(indexFile.documents \ {d})]
     \/ \E t \in DOMAIN indexFile.dictionary, d \in IndexedDoc :
          indexFile' \in {[indexFile EXCEPT !.dictionary[t].postings = @ \ {d}],
                          [indexFile EXCEPT !.dictionary[t].postings = @ \cup {d}]}
  /\ damaged' = damaged \cup {"file"}
  /\ UNCHANGED <<documents, dictionary, tmpFile, contents, saved>>

IndexNext ==
  \/ \E d \in IndexedDoc : RemoveDocument(d) \/ \E ts \in SUBSET IndexTerm : AddDocument(d, ts)
  \/ ClearIndex \/ SaveIndex \/ SaveDies \/ LoadIndex \/ DamageFile

IndexSpec == IndexInit /\ [][IndexNext]_indexVars

(***************************************************************************)
(* Properties                                                              *)
(***************************************************************************)
\* The dictionary is the exact inverse of the documents, counts included, through
\* any sequence of additions, updates, removals, saves, crashes and loads.
InverseOfDocuments ==
  "memory" \notin damaged =>
    /\ DOMAIN dictionary = UNION {contents[d] : d \in documents}
    /\ \A t \in DOMAIN dictionary :
         /\ dictionary[t].postings = {d \in documents : t \in contents[d]}
         /\ dictionary[t].df = Cardinality(dictionary[t].postings)

\* "ensuring posting references match indexed document IDs": whatever has happened to
\* the file, a search over the index in memory finds no document it does not have.
PostingsHaveDocuments ==
  \A t \in DOMAIN dictionary : dictionary[t].postings \subseteq documents

\* "Atomic save": once saved, and unless the file is damaged from outside, there is an
\* index to load, wherever a later save dies.
SavedIndexLoads == indexFile # None /\ "file" \notin damaged => Valid(indexFile)
===============================================================================
