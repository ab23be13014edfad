------------------------- MODULE SegmentedIndexProofs -------------------------
(***************************************************************************)
(* The segmented index: its types, the files on disk, what readers see, and  *)
(* that it implements DurableIndex.                                          *)
(***************************************************************************)
EXTENDS SegmentedIndex, ListLemmas

(***************************************************************************)
(* InSegments and PostingInSegments with the segments' contents as a       *)
(* parameter, to speak of a list of segments in two states.                *)
(***************************************************************************)

Newest(pl, ids, d) ==
  LET at == {i \in DOMAIN ids : LastVersion(pl[ids[i]].docs, d) # 0}
  IN  IF at = {} THEN 0 ELSE LastVersion(pl[ids[Max(at)]].docs, d)

NewestPosting(pl, ids, t, d) ==
  LET at == {i \in DOMAIN ids : pl[ids[i]].post[<<t, d>>] # 0}
  IN  IF at = {} THEN 0 ELSE pl[ids[Max(at)]].post[<<t, d>>]

(***************************************************************************)
(* The invariant.                                                          *)
(***************************************************************************)

\* Every segment a list names has been written.
SegmentsWritten ==
  /\ segments \in Seq(DOMAIN payload)
  /\ manifest.segs \in Seq(DOMAIN payload)
  /\ call.ids \in Seq(DOMAIN payload)

\* What is known at each step of a call.
CallOK ==
  /\ call.op \in {"flush", "flushed"} => buffer = <<>>
  /\ call.op \in {"flushed", "merged", "promoted"} => call.new \in DOMAIN payload
  /\ ~opened => Idle

\* The files that no manifest names while a call is under way.
Leftover ==
  CASE call.op \in {"flushed", "merged"} -> {call.new}
    [] call.op = "promoted" -> ToSet(call.ids)
    [] OTHER -> {}

FilesOK ==
  /\ ManifestSegmentsExist
  /\ call.op \in {"flushed", "merged"} => call.new \in files \ ToSet(manifest.segs)
  /\ call.op \in {"merge", "merged"} => ToSet(call.ids) \subseteq ToSet(manifest.segs)
  /\ call.op = "promoted" => ToSet(call.ids) \cap ToSet(manifest.segs) = {}
  /\ crashes = 0 /\ errors = 0 => files \subseteq ToSet(manifest.segs) \cup Leftover

\* A merged segment answers as the segments it was made of.
MergeOf(pl, ids, s) ==
  \A d \in Doc :
    /\ LastVersion(pl[s].docs, d) = Newest(pl, ids, d)
    /\ \A t \in Term : pl[s].post[<<t, d>>] = NewestPosting(pl, ids, t, d)

\* In a segment, the newest version of a document is found by its terms, and a
\* document found by a term is in the segment.
Posted(p) ==
  \A d \in Doc :
    LET v == LastVersion(p.docs, d)
    IN  /\ v # 0 => \A t \in Terms[<<d, v>>] : p.post[<<t, d>>] = v
        /\ v = 0 => \A t \in Term : p.post[<<t, d>>] = 0

ContentsOK ==
  /\ call.op = "flushed" => payload[call.new].docs = call.docs
  /\ call.op = "merged" => MergeOf(payload, call.ids, call.new)
  /\ \A s \in DOMAIN payload : Posted(payload[s])

\* No version is newer than what was added.
Recorded(docs) == \A i \in DOMAIN docs : docs[i].ver <= added[docs[i].doc]
AllRecorded ==
  /\ Recorded(buffer) /\ Recorded(call.docs)
  /\ \A s \in DOMAIN payload : Recorded(payload[s].docs)

\* While every merge is one of compact, it takes all the active segments.
MergesAll == call.op \in {"merge", "merged"} => call.ids = manifest.segs

\* What is in memory answers as what is on disk, but for what could not be read back.
MemoryOK ==
  opened => \A d \in Doc \ unread :
    /\ Newest(payload, segments, d) = Newest(payload, manifest.segs, d)
    /\ \A t \in Term :
         NewestPosting(payload, segments, t, d) = NewestPosting(payload, manifest.segs, t, d)

\* Within a list of documents, and from one list to another, the versions of a
\* document come in the order in which they were added.
Sorted(docs) ==
  \A i, j \in DOMAIN docs : i < j /\ docs[i].doc = docs[j].doc => docs[i].ver < docs[j].ver
Before(docs, more) ==
  \A i \in DOMAIN docs, j \in DOMAIN more :
    docs[i].doc = more[j].doc => docs[i].ver < more[j].ver

VersionsInOrder ==
  /\ Sorted(buffer) /\ Sorted(call.docs)
  /\ \A s \in DOMAIN payload : Sorted(payload[s].docs)
  /\ \A i, j \in DOMAIN manifest.segs :
       i < j => Before(payload[manifest.segs[i]].docs, payload[manifest.segs[j]].docs)
  /\ \A s \in ToSet(manifest.segs) :
       /\ Before(payload[s].docs, buffer)
       /\ call.op \in {"flush", "flushed"} => Before(payload[s].docs, call.docs)
  /\ call.op = "merged" =>
       \A i \in DOMAIN payload[call.new].docs :
         \E s \in ToSet(call.ids) : \E j \in DOMAIN payload[s].docs :
           payload[s].docs[j] = payload[call.new].docs[i]

IInv == TypeOK /\ SegmentsWritten /\ CallOK /\ FilesOK /\ ContentsOK /\ AllRecorded

CompactOnly == ~PartialMerges => MergesAll /\ VersionsInOrder
NeverCleared == ~PartialMerges /\ ~MayClear => MemoryOK

(***************************************************************************)
(* What the reading operators return.                                      *)
(***************************************************************************)

\* Nothing of document d is there, or m is the last place where something is.
LastOne(docs, d) ==
  \/ LastVersion(docs, d) = 0 /\ \A i \in DOMAIN docs : docs[i].doc # d
  \/ \E m \in DOMAIN docs :
       /\ docs[m].doc = d
       /\ LastVersion(docs, d) = docs[m].ver /\ docs[m].ver \in 1..MaxVer
       /\ \A i \in DOMAIN docs : docs[i].doc = d => i <= m

NewestOne(pl, ids, d) ==
  \/ /\ Newest(pl, ids, d) = 0
     /\ \A i \in DOMAIN ids : LastVersion(pl[ids[i]].docs, d) = 0
  \/ \E m \in DOMAIN ids :
       /\ LastVersion(pl[ids[m]].docs, d) # 0
       /\ Newest(pl, ids, d) = LastVersion(pl[ids[m]].docs, d)
       /\ \A i \in DOMAIN ids : LastVersion(pl[ids[i]].docs, d) # 0 => i <= m

NewestPosted(pl, ids, t, d) ==
  \/ /\ NewestPosting(pl, ids, t, d) = 0
     /\ \A i \in DOMAIN ids : pl[ids[i]].post[<<t, d>>] = 0
  \/ \E m \in DOMAIN ids :
       /\ pl[ids[m]].post[<<t, d>>] # 0
       /\ NewestPosting(pl, ids, t, d) = pl[ids[m]].post[<<t, d>>]
       /\ \A i \in DOMAIN ids : pl[ids[i]].post[<<t, d>>] # 0 => i <= m

(* The last document of a list that has the id, if there is one. *)
LEMMA LastVersionIs ==
  ASSUME NEW docs \in Seq(Version), NEW d
  PROVE  LastOne(docs, d)
<1> USE DEF LastOne
<1> DEFINE at == {i \in DOMAIN docs : docs[i].doc = d}
<1>1. Len(docs) \in Nat /\ DOMAIN docs = 1..Len(docs) /\ \A i \in DOMAIN docs : docs[i] \in Version
  OBVIOUS
<1>2. at \in SUBSET (1..Len(docs))
  BY <1>1
<1>3. LastVersion(docs, d) = IF at = {} THEN 0 ELSE docs[Max(at)].ver
  BY DEF LastVersion
<1>4. CASE at = {}
  BY <1>3, <1>4
<1>5. CASE at # {}
  <2>1. Max(at) \in at /\ \A i \in at : i <= Max(at)
    <3> HIDE DEF at
    <3> QED BY <1>1, <1>2, <1>5, MaxOfPositions
  <2>2. docs[Max(at)].ver \in 1..MaxVer
    BY <1>1, <2>1 DEF Version
  <2> QED BY <1>3, <1>5, <2>1, <2>2
<1> QED BY <1>4, <1>5

LEMMA LastVersionType ==
  ASSUME NEW docs \in Seq(Version), NEW d
  PROVE  LastVersion(docs, d) \in 0..MaxVer
<1>1. MaxVer \in Nat
  BY ConstantsAssumption
<1> QED BY <1>1, LastVersionIs DEF LastOne

(* The document of the newest segment that has it, if one has. *)
LEMMA NewestIs ==
  ASSUME NEW pl \in Seq(Payload), NEW ids \in Seq(DOMAIN pl), NEW d
  PROVE  NewestOne(pl, ids, d)
<1> USE DEF NewestOne
<1> DEFINE at == {i \in DOMAIN ids : LastVersion(pl[ids[i]].docs, d) # 0}
<1>1. Len(ids) \in Nat /\ DOMAIN ids = 1..Len(ids)
  OBVIOUS
<1>2. at \in SUBSET (1..Len(ids))
  BY <1>1
<1>3. Newest(pl, ids, d) = IF at = {} THEN 0 ELSE LastVersion(pl[ids[Max(at)]].docs, d)
  BY DEF Newest
<1>4. CASE at = {}
  BY <1>3, <1>4
<1>5. CASE at # {}
  <2>1. Max(at) \in at /\ \A i \in at : i <= Max(at)
    <3> HIDE DEF at
    <3> QED BY <1>1, <1>2, <1>5, MaxOfPositions
  <2> QED BY <1>3, <1>5, <2>1
<1> QED BY <1>4, <1>5

LEMMA NewestPostingIs ==
  ASSUME NEW pl \in Seq(Payload), NEW ids \in Seq(DOMAIN pl), NEW t \in Term, NEW d
  PROVE  NewestPosted(pl, ids, t, d)
<1> USE DEF NewestPosted
<1> DEFINE at == {i \in DOMAIN ids : pl[ids[i]].post[<<t, d>>] # 0}
<1>1. Len(ids) \in Nat /\ DOMAIN ids = 1..Len(ids)
  OBVIOUS
<1>2. at \in SUBSET (1..Len(ids))
  BY <1>1
<1>3. NewestPosting(pl, ids, t, d) = IF at = {} THEN 0 ELSE pl[ids[Max(at)]].post[<<t, d>>]
  BY DEF NewestPosting
<1>4. CASE at = {}
  BY <1>3, <1>4
<1>5. CASE at # {}
  <2>1. Max(at) \in at /\ \A i \in at : i <= Max(at)
    <3> HIDE DEF at
    <3> QED BY <1>1, <1>2, <1>5, MaxOfPositions
  <2> QED BY <1>3, <1>5, <2>1
<1> QED BY <1>4, <1>5

(* The values of both. *)
LEMMA NewestType ==
  ASSUME NEW pl \in Seq(Payload), NEW ids \in Seq(DOMAIN pl), NEW d \in Doc
  PROVE  /\ Newest(pl, ids, d) \in 0..MaxVer
         /\ \A t \in Term : NewestPosting(pl, ids, t, d) \in 0..MaxVer
<1>1. MaxVer \in Nat
  BY ConstantsAssumption
<1>2. \A i \in DOMAIN ids : pl[ids[i]] \in Payload
  OBVIOUS
<1>3. Newest(pl, ids, d) \in 0..MaxVer
  <2>1. \A i \in DOMAIN ids : LastVersion(pl[ids[i]].docs, d) \in 0..MaxVer
    BY <1>2, LastVersionType DEF Payload
  <2> QED BY <1>1, <2>1, NewestIs DEF NewestOne
<1>4. ASSUME NEW t \in Term PROVE NewestPosting(pl, ids, t, d) \in 0..MaxVer
  <2>1. \A i \in DOMAIN ids : pl[ids[i]].post[<<t, d>>] \in 0..MaxVer
    BY <1>2 DEF Payload
  <2> QED BY <1>1, <2>1, NewestPostingIs DEF NewestPosted
<1> QED BY <1>3, <1>4

(* A segment written later changes nothing for the lists that do not name it. *)
LEMMA NewestKept ==
  ASSUME NEW pl \in Seq(Payload), NEW ids \in Seq(DOMAIN pl), NEW d,
         NEW ql, \A s \in DOMAIN pl : ql[s] = pl[s]
  PROVE  /\ Newest(ql, ids, d) = Newest(pl, ids, d)
         /\ \A t \in Term : NewestPosting(ql, ids, t, d) = NewestPosting(pl, ids, t, d)
<1>1. \A i \in DOMAIN ids : ql[ids[i]] = pl[ids[i]]
  OBVIOUS
<1>2. Newest(ql, ids, d) = Newest(pl, ids, d)
  <2> DEFINE at(f) == {i \in DOMAIN ids : LastVersion(f[ids[i]].docs, d) # 0}
  <2>1. at(ql) = at(pl)
    BY <1>1
  <2>2. at(pl) # {} => Max(at(pl)) \in DOMAIN ids
    <3>1. Len(ids) \in Nat /\ DOMAIN ids = 1..Len(ids)
      OBVIOUS
    <3>2. at(pl) \in SUBSET (1..Len(ids))
      BY <3>1
    <3> HIDE DEF at
    <3> QED BY <3>1, <3>2, MaxOfPositions
  <2> QED BY <1>1, <2>1, <2>2 DEF Newest
<1>3. ASSUME NEW t \in Term
      PROVE  NewestPosting(ql, ids, t, d) = NewestPosting(pl, ids, t, d)
  <2> DEFINE at(f) == {i \in DOMAIN ids : f[ids[i]].post[<<t, d>>] # 0}
  <2>1. at(ql) = at(pl)
    BY <1>1
  <2>2. at(pl) # {} => Max(at(pl)) \in DOMAIN ids
    <3>1. Len(ids) \in Nat /\ DOMAIN ids = 1..Len(ids)
      OBVIOUS
    <3>2. at(pl) \in SUBSET (1..Len(ids))
      BY <3>1
    <3> HIDE DEF at
    <3> QED BY <3>1, <3>2, MaxOfPositions
  <2> QED BY <1>1, <2>1, <2>2 DEF NewestPosting
<1> QED BY <1>2, <1>3

(* A segment at the end of the list comes first. *)
LEMMA NewestOfAppended ==
  ASSUME NEW pl \in Seq(Payload), NEW ids \in Seq(DOMAIN pl), NEW s \in DOMAIN pl, NEW d
  PROVE  /\ Newest(pl, Append(ids, s), d) =
              IF LastVersion(pl[s].docs, d) # 0 THEN LastVersion(pl[s].docs, d)
                                               ELSE Newest(pl, ids, d)
         /\ \A t \in Term :
              NewestPosting(pl, Append(ids, s), t, d) =
                IF pl[s].post[<<t, d>>] # 0 THEN pl[s].post[<<t, d>>]
                                            ELSE NewestPosting(pl, ids, t, d)
<1> DEFINE new == Append(ids, s)
<1>1. /\ new \in Seq(DOMAIN pl) /\ Len(ids) \in Nat
      /\ DOMAIN ids = 1..Len(ids) /\ DOMAIN new = 1..(Len(ids) + 1)
      /\ new[Len(ids) + 1] = s /\ \A i \in DOMAIN ids : new[i] = ids[i]
  OBVIOUS
<1> HIDE DEF new
<1>e. /\ Len(ids) + 1 \in DOMAIN new
      /\ \A i \in DOMAIN new : \/ i \in DOMAIN ids /\ new[i] = ids[i]
                               \/ i = Len(ids) + 1 /\ new[i] = s
      /\ \A i \in DOMAIN new : i \in Int /\ i <= Len(ids) + 1
  BY <1>1
<1>a. NewestOne(pl, new, d) /\ NewestOne(pl, ids, d)
  BY <1>1, NewestIs
<1>b. \A t \in Term : NewestPosted(pl, new, t, d) /\ NewestPosted(pl, ids, t, d)
  BY <1>1, NewestPostingIs
<1>2. Newest(pl, new, d) = IF LastVersion(pl[s].docs, d) # 0 THEN LastVersion(pl[s].docs, d)
                                                            ELSE Newest(pl, ids, d)
  <2>1. CASE LastVersion(pl[s].docs, d) # 0
    <3>1. PICK m \in DOMAIN new : /\ Newest(pl, new, d) = LastVersion(pl[new[m]].docs, d)
                                  /\ Len(ids) + 1 <= m
      BY <1>e, <1>a, <2>1 DEF NewestOne
    <3>2. m = Len(ids) + 1
      BY <1>1, <1>e, <3>1
    <3> QED BY <1>1, <2>1, <3>1, <3>2
  <2>2. CASE LastVersion(pl[s].docs, d) = 0
    <3>1. CASE \A i \in DOMAIN ids : LastVersion(pl[ids[i]].docs, d) = 0
      <4>1. Newest(pl, ids, d) = 0
        BY <1>a, <3>1 DEF NewestOne
      <4>2. \A i \in DOMAIN new : LastVersion(pl[new[i]].docs, d) = 0
        BY <1>e, <2>2, <3>1
      <4>3. Newest(pl, new, d) = 0
        BY <1>a, <4>2 DEF NewestOne
      <4> QED BY <2>2, <4>1, <4>3
    <3>2. ASSUME NEW m \in DOMAIN ids,
                 LastVersion(pl[ids[m]].docs, d) # 0,
                 Newest(pl, ids, d) = LastVersion(pl[ids[m]].docs, d),
                 \A i \in DOMAIN ids : LastVersion(pl[ids[i]].docs, d) # 0 => i <= m
          PROVE  Newest(pl, new, d) = Newest(pl, ids, d)
      <4>1. m \in DOMAIN new /\ new[m] = ids[m]
        BY <1>1
      <4>2. \A i \in DOMAIN new : LastVersion(pl[new[i]].docs, d) # 0 => i <= m
        BY <1>e, <2>2, <3>2
      <4>3. PICK k \in DOMAIN new : /\ LastVersion(pl[new[k]].docs, d) # 0
                                    /\ Newest(pl, new, d) = LastVersion(pl[new[k]].docs, d)
                                    /\ m <= k
        BY <1>a, <3>2, <4>1 DEF NewestOne
      <4>4. k = m
        BY <1>1, <4>1, <4>2, <4>3
      <4> QED BY <3>2, <4>1, <4>3, <4>4
    <3> QED BY <1>a, <2>2, <3>1, <3>2 DEF NewestOne
  <2> QED BY <2>1, <2>2
<1>3. ASSUME NEW t \in Term
      PROVE  NewestPosting(pl, new, t, d) =
               IF pl[s].post[<<t, d>>] # 0 THEN pl[s].post[<<t, d>>]
                                           ELSE NewestPosting(pl, ids, t, d)
  <2>1. CASE pl[s].post[<<t, d>>] # 0
    <3>0. NewestPosted(pl, new, t, d) /\ pl[new[Len(ids) + 1]].post[<<t, d>>] # 0
      BY <1>1, <1>b, <1>3, <2>1
    <3>1. PICK m \in DOMAIN new :
            /\ NewestPosting(pl, new, t, d) = pl[new[m]].post[<<t, d>>]
            /\ Len(ids) + 1 <= m
      BY <1>e, <3>0 DEF NewestPosted
    <3>2. m = Len(ids) + 1
      BY <1>1, <1>e, <3>1
    <3> QED BY <1>1, <2>1, <3>1, <3>2
  <2>2. CASE pl[s].post[<<t, d>>] = 0
    <3>1. CASE \A i \in DOMAIN ids : pl[ids[i]].post[<<t, d>>] = 0
      <4>1. NewestPosting(pl, ids, t, d) = 0
        BY <1>b, <3>1 DEF NewestPosted
      <4>2. \A i \in DOMAIN new : pl[new[i]].post[<<t, d>>] = 0
        BY <1>e, <2>2, <3>1
      <4>3. NewestPosting(pl, new, t, d) = 0
        BY <1>b, <4>2 DEF NewestPosted
      <4> QED BY <2>2, <4>1, <4>3
    <3>2. ASSUME NEW m \in DOMAIN ids,
                 pl[ids[m]].post[<<t, d>>] # 0,
                 NewestPosting(pl, ids, t, d) = pl[ids[m]].post[<<t, d>>],
                 \A i \in DOMAIN ids : pl[ids[i]].post[<<t, d>>] # 0 => i <= m
          PROVE  NewestPosting(pl, new, t, d) = NewestPosting(pl, ids, t, d)
      <4>1. m \in DOMAIN new /\ new[m] = ids[m]
        BY <1>1
      <4>2. \A i \in DOMAIN new : pl[new[i]].post[<<t, d>>] # 0 => i <= m
        BY <1>e, <2>2, <3>2
      <4>3. PICK k \in DOMAIN new : /\ pl[new[k]].post[<<t, d>>] # 0
                                    /\ NewestPosting(pl, new, t, d) = pl[new[k]].post[<<t, d>>]
                                    /\ m <= k
        BY <1>b, <3>2, <4>1 DEF NewestPosted
      <4>4. k = m
        BY <1>1, <4>1, <4>2, <4>3
      <4> QED BY <3>2, <4>1, <4>3, <4>4
    <3> QED BY <1>b, <2>2, <3>1, <3>2 DEF NewestPosted
  <2> QED BY <2>1, <2>2
<1> QED BY <1>2, <1>3 DEF new

(* Without takes the elements of out off a list, and nothing else. *)
LEMMA WithoutElements ==
  ASSUME NEW S, NEW ids \in Seq(S), NEW out
  PROVE  Without(ids, out) \in Seq(S) /\ ToSet(Without(ids, out)) = ToSet(ids) \ out
<1> DEFINE n == Len(ids)
           Step(f, i) == IF i = 0 THEN <<>>
                         ELSE IF ids[i] \in out THEN f[i - 1] ELSE Append(f[i - 1], ids[i])
           Exists(k) == \E f : f = [i \in 0..k |-> Step(f, i)]
           bad == {k \in 0..n : ~ Exists(k)}
<1>1. n \in Nat /\ DOMAIN ids = 1..n /\ \A i \in 1..n : ids[i] \in S
  OBVIOUS
<1>2. bad = {}
  <2> SUFFICES ASSUME bad # {} PROVE FALSE
    OBVIOUS
  <2>1. PICK k \in bad : \A j \in bad : k <= j
    <3>1. bad \in SUBSET Nat
      BY <1>1
    <3> HIDE DEF bad
    <3> QED BY <3>1, LeastElement
  <2>2. CASE k = 0
    <3> DEFINE f == [i \in 0..0 |-> <<>>]
    <3>1. f = [i \in 0..0 |-> Step(f, i)]
      OBVIOUS
    <3> QED BY <2>1, <2>2, <3>1
  <2>3. CASE k # 0
    <3>0. k \in 0..n
      BY <2>1
    <3>1. k - 1 \in 0..n /\ k \in 1..n /\ k - 1 \notin bad
      <4> HIDE DEF n, bad
      <4> QED BY <1>1, <2>1, <2>3, <3>0
    <3>2. PICK g : g = [i \in 0..(k - 1) |-> Step(g, i)]
      BY <3>1
    <3> DEFINE h == [i \in 0..k |-> IF i = k THEN Step(g, k) ELSE g[i]]
    <3>3. ASSUME NEW i \in 0..k PROVE h[i] = Step(h, i)
      <4>1. CASE i = k
        <5>1. k - 1 \in 0..k /\ k - 1 # k
          BY <3>1
        <5>2. h[k - 1] = g[k - 1] /\ h[k] = Step(g, k)
          BY <3>1, <5>1
        <5> HIDE DEF h
        <5> QED BY <4>1, <5>2
      <4>2. CASE i # k /\ i # 0
        <5>1. i - 1 \in 0..k /\ i - 1 # k /\ i \in 0..(k - 1)
          BY <3>1, <4>2
        <5>2. h[i - 1] = g[i - 1] /\ h[i] = g[i] /\ g[i] = Step(g, i)
          BY <3>2, <4>2, <5>1
        <5> HIDE DEF h
        <5> QED BY <4>2, <5>2
      <4>3. CASE i # k /\ i = 0
        <5>1. 0 \in 0..(k - 1)
          BY <3>1
        <5>2. h[0] = g[0] /\ g[0] = Step(g, 0)
          BY <3>2, <4>3, <5>1
        <5> HIDE DEF h
        <5> QED BY <4>3, <5>2
      <4> QED BY <4>1, <4>2, <4>3
    <3>4. h = [i \in 0..k |-> Step(h, i)]
      <4>1. h = [i \in 0..k |-> h[i]]
        OBVIOUS
      <4> HIDE DEF h
      <4> QED BY <3>3, <4>1
    <3>5. Exists(k)
      <4> HIDE DEF h
      <4> QED BY <3>4
    <3> QED BY <2>1, <3>5
  <2> QED BY <2>2, <2>3
<1> DEFINE kept == CHOOSE f : f = [i \in 0..n |-> Step(f, i)]
<1>3. kept = [i \in 0..n |-> Step(kept, i)]
  <2>1. Exists(n)
    BY <1>1, <1>2
  <2> QED BY <2>1
<1>4. Without(ids, out) = kept[n]
  BY DEF Without
<1> HIDE DEF kept
<1> DEFINE Right(i) == kept[i] \in Seq(S) /\ ToSet(kept[i]) = {ids[j] : j \in 1..i} \ out
           wrong == {i \in 0..n : ~ Right(i)}
<1>5. wrong = {}
  <2> SUFFICES ASSUME wrong # {} PROVE FALSE
    OBVIOUS
  <2>1. PICK k \in wrong : \A j \in wrong : k <= j
    <3>1. wrong \in SUBSET Nat
      BY <1>1
    <3> HIDE DEF wrong
    <3> QED BY <3>1, LeastElement
  <2>2. kept[k] = Step(kept, k) /\ k \in 0..n
    BY <1>3, <2>1
  <2>3. CASE k = 0
    <3>1. kept[k] = <<>>
      BY <2>2, <2>3
    <3>2. ToSet(<<>>) = {} /\ {ids[j] : j \in 1..0} = {}
      BY DEF ToSet
    <3>3. kept[k] \in Seq(S)
      BY <3>1
    <3>4. Right(k)
      BY <2>3, <3>1, <3>2, <3>3
    <3> HIDE DEF Right
    <3> QED BY <2>1, <3>4
  <2>4. CASE k # 0
    <3>1. k - 1 \in 0..n /\ k \in 1..n /\ k - 1 \notin wrong
      <4> HIDE DEF n, wrong
      <4> QED BY <1>1, <2>1, <2>2, <2>4
    <3>2. Right(k - 1)
      BY <3>1
    <3>3. {ids[j] : j \in 1..k} = {ids[j] : j \in 1..(k - 1)} \cup {ids[k]}
      BY <3>1
    <3>4. CASE ids[k] \in out
      BY <2>1, <2>2, <2>4, <3>2, <3>3, <3>4
    <3>5. CASE ids[k] \notin out
      <4>1. kept[k] = Append(kept[k - 1], ids[k]) /\ ids[k] \in S
        BY <1>1, <2>2, <2>4, <3>1, <3>5
      <4>2. ToSet(kept[k]) = ToSet(kept[k - 1]) \cup {ids[k]} /\ kept[k] \in Seq(S)
        BY <3>2, <4>1, AppendElements
      <4> QED BY <2>1, <3>2, <3>3, <3>5, <4>2
    <3> QED BY <3>4, <3>5
  <2> QED BY <2>3, <2>4
<1>6. n \notin wrong /\ n \in 0..n
  <2> HIDE DEF n, wrong
  <2> QED BY <1>1, <1>5
<1>7. ToSet(ids) = {ids[j] : j \in 1..n}
  BY <1>1 DEF ToSet
<1> QED BY <1>4, <1>6, <1>7

(* The model's reading operators are these, on the segments written so far. *)
LEMMA ReadsPayload ==
  ASSUME NEW ids, NEW d
  PROVE  /\ InSegments(ids, d) = Newest(payload, ids, d)
         /\ \A t \in Term : PostingInSegments(ids, t, d) = NewestPosting(payload, ids, t, d)
BY DEF InSegments, Newest, PostingInSegments, NewestPosting

(* What a merge writes: every document once, in the version of the newest of *)
(* the merged segments that has it.                                          *)
LEMMA MergedPayloadIs ==
  ASSUME payload \in Seq(Payload), NEW ids \in Seq(DOMAIN payload)
  PROVE  LET p == MergedPayload(ids)
         IN  /\ p \in Payload
             /\ \A d \in Doc : LastVersion(p.docs, d) = Newest(payload, ids, d)
             /\ \A d \in Doc, t \in Term : p.post[<<t, d>>] = NewestPosting(payload, ids, t, d)
             /\ \A i, j \in DOMAIN p.docs : p.docs[i].doc = p.docs[j].doc => i = j
             /\ \A i \in DOMAIN p.docs :
                  /\ p.docs[i].ver = Newest(payload, ids, p.docs[i].doc)
                  /\ p.docs[i].ver # 0
<1> DEFINE version(d) == [doc |-> d, ver |-> InSegments(ids, d)]
           some == {e \in Doc : InSegments(ids, e) # 0}
           found == {version(d) : d \in some}
           docs == SetToSeq(found)
           post == [td \in Term \X Doc |-> PostingInSegments(ids, td[1], td[2])]
<1>1. MergedPayload(ids) = [docs |-> docs, post |-> post]
  BY DEF MergedPayload, MergedDocs
<1>2. \A d \in Doc : InSegments(ids, d) = Newest(payload, ids, d) /\ InSegments(ids, d) \in 0..MaxVer
  BY ReadsPayload, NewestType
<1>3. found \subseteq Version
  BY <1>2, ConstantsAssumption DEF Version
<1>4. IsFiniteSet(found)
  <2> DEFINE f == [d \in some |-> version(d)]
  <2>1. IsFiniteSet(some)
    BY ConstantsAssumption, FS_Subset
  <2>2. f \in Surjection(some, found)
    BY DEF Surjection
  <2> HIDE DEF f, some, found
  <2> QED BY <2>1, <2>2, FS_Surjection
<1>5. /\ docs \in Seq(found)
      /\ \A i, j \in DOMAIN docs : docs[i] = docs[j] => i = j
      /\ \A x \in found : \E i \in DOMAIN docs : docs[i] = x
  <2> HIDE DEF found
  <2> QED BY <1>4, ListOfFiniteSet
<1> HIDE DEF docs
<1>6. docs \in Seq(Version)
  BY <1>3, <1>5
<1>7. \A i \in DOMAIN docs : docs[i] \in found
  BY <1>5
<1>8. \A i \in DOMAIN docs : /\ docs[i].doc \in Doc
                             /\ docs[i] = version(docs[i].doc)
                             /\ docs[i].ver = InSegments(ids, docs[i].doc)
                             /\ docs[i].ver # 0
  BY <1>7
<1>9. post \in [Term \X Doc -> 0..MaxVer]
  BY <1>2, ReadsPayload, NewestType
<1>10. ASSUME NEW d \in Doc PROVE LastVersion(docs, d) = Newest(payload, ids, d)
  <2>1. CASE InSegments(ids, d) = 0
    BY <1>2, <1>6, <1>8, <2>1, LastVersionIs DEF LastOne
  <2>2. CASE InSegments(ids, d) # 0
    <3>1. version(d) \in found
      BY <2>2
    <3>2. PICK i \in DOMAIN docs : docs[i] = version(d)
      BY <1>5, <3>1
    <3>3. LastOne(docs, d) /\ docs[i].doc = d
      BY <1>6, <3>2, LastVersionIs
    <3>4. PICK m \in DOMAIN docs : docs[m].doc = d /\ LastVersion(docs, d) = docs[m].ver
      BY <3>3 DEF LastOne
    <3> QED BY <1>2, <1>8, <3>4
  <2> QED BY <2>1, <2>2
<1>11. ASSUME NEW i \in DOMAIN docs, NEW j \in DOMAIN docs, docs[i].doc = docs[j].doc PROVE i = j
  <2>1. docs[i] = docs[j]
    BY <1>8, <1>11
  <2> QED BY <1>5, <2>1
<1>12. \A d \in Doc, t \in Term : post[<<t, d>>] = NewestPosting(payload, ids, t, d)
  BY ReadsPayload
<1>13. [docs |-> docs, post |-> post] \in Payload
  BY <1>6, <1>9 DEF Payload
<1>14. \A i \in DOMAIN docs : docs[i].ver = Newest(payload, ids, docs[i].doc) /\ docs[i].ver # 0
  BY <1>2, <1>8
<1> HIDE DEF post
<1> QED BY <1>1, <1>10, <1>11, <1>12, <1>13, <1>14

(* The postings a flush writes are those of the newest versions, and older ones *)
(* for the terms a newer version no longer has.                                  *)
LEMMA PostingInIs ==
  ASSUME NEW docs \in Seq(Version), NEW t \in Term, NEW d \in Doc
  PROVE  LET v == LastVersion(docs, d)
         IN  /\ PostingIn(docs, t, d) \in 0..MaxVer
             /\ v # 0 /\ t \in Terms[<<d, v>>] => PostingIn(docs, t, d) = v
             /\ v = 0 => PostingIn(docs, t, d) = 0
<1> DEFINE at == {i \in DOMAIN docs : docs[i].doc = d /\ t \in Terms[<<d, docs[i].ver>>]}
<1>1. /\ Len(docs) \in Nat /\ DOMAIN docs = 1..Len(docs)
      /\ \A i \in DOMAIN docs : docs[i] \in Version /\ docs[i].ver \in 1..MaxVer
      /\ MaxVer \in Nat
  <2>1. /\ Len(docs) \in Nat /\ DOMAIN docs = 1..Len(docs)
        /\ \A i \in DOMAIN docs : docs[i] \in Version
    OBVIOUS
  <2> QED BY <2>1, ConstantsAssumption DEF Version
<1>2. PostingIn(docs, t, d) = IF at = {} THEN 0 ELSE docs[Max(at)].ver
  BY DEF PostingIn
<1>3. at # {} => Max(at) \in at /\ \A i \in at : i <= Max(at)
  <2>1. at \in SUBSET (1..Len(docs))
    BY <1>1
  <2> HIDE DEF at
  <2> QED BY <1>1, <2>1, MaxOfPositions
<1>4. PostingIn(docs, t, d) \in 0..MaxVer
  BY <1>1, <1>2, <1>3
<1>5. LastOne(docs, d)
  BY LastVersionIs
<1>6. ASSUME LastVersion(docs, d) = 0 PROVE PostingIn(docs, t, d) = 0
  <2>1. \A i \in DOMAIN docs : docs[i].doc # d
    BY <1>1, <1>5, <1>6 DEF LastOne
  <2> QED BY <1>2, <2>1
<1>7. ASSUME LastVersion(docs, d) # 0, t \in Terms[<<d, LastVersion(docs, d)>>]
      PROVE  PostingIn(docs, t, d) = LastVersion(docs, d)
  <2>1. PICK m \in DOMAIN docs : /\ docs[m].doc = d /\ LastVersion(docs, d) = docs[m].ver
                                 /\ \A i \in DOMAIN docs : docs[i].doc = d => i <= m
    BY <1>5, <1>7 DEF LastOne
  <2>2. m \in at
    BY <1>7, <2>1
  <2>3. Max(at) \in DOMAIN docs /\ docs[Max(at)].doc = d /\ m <= Max(at)
    BY <1>3, <2>2
  <2>4. Max(at) = m
    <3> HIDE DEF at
    <3> QED BY <1>1, <2>1, <2>3
  <2> QED BY <1>2, <2>1, <2>2, <2>4
<1> QED BY <1>4, <1>6, <1>7

(* What a flush writes. *)
FlushedPayload(docs) ==
  [docs |-> docs, post |-> [td \in Term \X Doc |-> PostingIn(docs, td[1], td[2])]]

LEMMA FlushedPayloadType ==
  ASSUME NEW docs \in Seq(Version)
  PROVE  FlushedPayload(docs) \in Payload /\ Posted(FlushedPayload(docs))
<1>1. \A t \in Term, d \in Doc :
        LET v == LastVersion(docs, d)
        IN  /\ PostingIn(docs, t, d) \in 0..MaxVer
            /\ v # 0 /\ t \in Terms[<<d, v>>] => PostingIn(docs, t, d) = v
            /\ v = 0 => PostingIn(docs, t, d) = 0
  BY PostingInIs
<1> DEFINE post == [td \in Term \X Doc |-> PostingIn(docs, td[1], td[2])]
<1>2. post \in [Term \X Doc -> 0..MaxVer]
  BY <1>1
<1>3. \A t \in Term, d \in Doc : post[<<t, d>>] = PostingIn(docs, t, d)
  OBVIOUS
<1>4. FlushedPayload(docs).docs = docs /\ FlushedPayload(docs).post = post
  BY DEF FlushedPayload
<1>5. FlushedPayload(docs) \in Payload
  BY <1>2 DEF FlushedPayload, Payload
<1> HIDE DEF post
<1>6. ASSUME NEW d \in Doc, NEW v, v = LastVersion(docs, d)
      PROVE  /\ v # 0 => \A t \in Terms[<<d, v>>] : post[<<t, d>>] = v
             /\ v = 0 => \A t \in Term : post[<<t, d>>] = 0
  <2>1. v \in 0..MaxVer
    BY <1>6, LastVersionType
  <2>2. v # 0 => Terms[<<d, v>>] \subseteq Term
    <3>1. v # 0 => <<d, v>> \in Doc \X (1..MaxVer)
      BY <2>1, ConstantsAssumption
    <3> QED BY <3>1, ConstantsAssumption
  <2> QED BY <1>1, <1>3, <1>6, <2>2
<1> QED BY <1>4, <1>5, <1>6 DEF Posted

(* Posted carries over from the segments to a list of them. *)
LEMMA FoundInSegments ==
  ASSUME NEW pl \in Seq(Payload), NEW ids \in Seq(DOMAIN pl), NEW d \in Doc,
         \A s \in DOMAIN pl : Posted(pl[s])
  PROVE  LET v == Newest(pl, ids, d)
         IN  /\ v # 0 => \A t \in Terms[<<d, v>>] : NewestPosting(pl, ids, t, d) = v
             /\ v = 0 => \A t \in Term : NewestPosting(pl, ids, t, d) = 0
<1> DEFINE v == Newest(pl, ids, d)
<1>1. v \in 0..MaxVer /\ NewestOne(pl, ids, d)
  BY NewestType, NewestIs
<1>2. \A i \in DOMAIN ids : Posted(pl[ids[i]]) /\ i \in Int
  <2>1. DOMAIN ids = 1..Len(ids) /\ Len(ids) \in Nat
    OBVIOUS
  <2> QED BY <2>1
<1>3. \A t \in Term : NewestPosted(pl, ids, t, d)
  BY NewestPostingIs
<1>4. ASSUME v = 0, NEW t \in Term PROVE NewestPosting(pl, ids, t, d) = 0
  <2>1. \A i \in DOMAIN ids : LastVersion(pl[ids[i]].docs, d) = 0
    BY <1>1, <1>4 DEF NewestOne
  <2>2. \A i \in DOMAIN ids : pl[ids[i]].post[<<t, d>>] = 0
    BY <1>2, <2>1 DEF Posted
  <2> QED BY <1>3, <2>2 DEF NewestPosted
<1>5. ASSUME v # 0, NEW t \in Terms[<<d, v>>] PROVE NewestPosting(pl, ids, t, d) = v
  <2>1. t \in Term
    <3>1. <<d, v>> \in Doc \X (1..MaxVer)
      BY <1>1, <1>5, ConstantsAssumption
    <3> HIDE DEF v
    <3> QED BY <1>5, <3>1, ConstantsAssumption
  <2>2. PICK m \in DOMAIN ids :
          /\ LastVersion(pl[ids[m]].docs, d) = v
          /\ \A i \in DOMAIN ids : LastVersion(pl[ids[i]].docs, d) # 0 => i <= m
    BY <1>1, <1>5 DEF NewestOne
  <2>3. pl[ids[m]].post[<<t, d>>] = v
    BY <1>2, <1>5, <2>2 DEF Posted
  <2>4. PICK k \in DOMAIN ids :
          /\ pl[ids[k]].post[<<t, d>>] # 0
          /\ NewestPosting(pl, ids, t, d) = pl[ids[k]].post[<<t, d>>]
          /\ m <= k
    BY <1>3, <1>5, <2>1, <2>3 DEF NewestPosted
  <2>5. LastVersion(pl[ids[k]].docs, d) # 0
    BY <1>2, <2>1, <2>4 DEF Posted
  <2>6. k = m
    BY <1>2, <2>2, <2>4, <2>5
  <2> QED BY <2>3, <2>4, <2>6
<1> QED BY <1>4, <1>5

(***************************************************************************)
(* The types.                                                              *)
(***************************************************************************)

Typed == TypeOK /\ SegmentsWritten /\ CallOK

(* Segments are numbered in the order in which they are written. *)
LEMMA NextSegment ==
  ASSUME payload \in Seq(Payload), Len(payload) <= MaxSegs
  PROVE  /\ NextSeg = Len(payload) + 1
         /\ DOMAIN payload \subseteq SegId
         /\ NextSeg \notin DOMAIN payload
<1>1. Len(payload) \in Nat /\ DOMAIN payload = 1..Len(payload)
  OBVIOUS
<1>2. Cardinality(1..Len(payload)) = Len(payload)
  BY <1>1, FS_Interval
<1> QED BY <1>1, <1>2, ConstantsAssumption DEF NextSeg, SegId

(* Writing a segment adds it to the contents and leaves the others as they are. *)
LEMMA WriteSegmentAdds ==
  ASSUME Typed, NEW p \in Payload, NEW op, WriteSegment(p, op)
  PROVE  /\ payload' \in Seq(Payload) /\ Len(payload') <= MaxSegs
         /\ DOMAIN payload' = DOMAIN payload \cup {NextSeg}
         /\ payload'[NextSeg] = p /\ \A s \in DOMAIN payload : payload'[s] = payload[s]
         /\ NextSeg \notin DOMAIN payload /\ NextSeg \in SegId
         /\ files' = files \cup {NextSeg}
         /\ call' = [call EXCEPT !.op = op, !.new = NextSeg]
         /\ \A ids \in Seq(DOMAIN payload) : ids \in Seq(DOMAIN payload')
<1>1. payload \in Seq(Payload) /\ Len(payload) <= MaxSegs
  BY DEF Typed, TypeOK
<1>2. payload' = Append(payload, p) /\ NextSeg <= MaxSegs
  BY DEF WriteSegment
<1>3. NextSeg = Len(payload) + 1 /\ NextSeg \notin DOMAIN payload
  BY <1>1, NextSegment
<1>4. /\ Len(payload) \in Nat /\ DOMAIN payload = 1..Len(payload)
      /\ payload' \in Seq(Payload) /\ Len(payload') = Len(payload) + 1
      /\ DOMAIN payload' = 1..(Len(payload) + 1)
      /\ payload'[Len(payload) + 1] = p /\ \A s \in 1..Len(payload) : payload'[s] = payload[s]
  BY <1>1, <1>2
<1>5. NextSeg \in SegId
  BY <1>2, <1>3, <1>4, ConstantsAssumption DEF SegId
<1>6. DOMAIN payload' = DOMAIN payload \cup {NextSeg}
  BY <1>3, <1>4
<1>7. \A ids \in Seq(DOMAIN payload) : ids \in Seq(DOMAIN payload')
  BY <1>6
<1> QED BY <1>2, <1>3, <1>4, <1>5, <1>6, <1>7 DEF WriteSegment

(* The first document with an id is in the list. *)
LEMMA FirstPosition ==
  ASSUME NEW docs \in Seq(Version), NEW d, {i \in DOMAIN docs : docs[i].doc = d} # {}
  PROVE  LET k == Min({i \in DOMAIN docs : docs[i].doc = d})
         IN  /\ k \in DOMAIN docs /\ docs[k].doc = d
             /\ \A i \in DOMAIN docs : docs[i].doc = d => k <= i
<1> DEFINE at == {i \in DOMAIN docs : docs[i].doc = d}
<1>1. Len(docs) \in Nat /\ DOMAIN docs = 1..Len(docs)
  OBVIOUS
<1>2. at \in SUBSET (1..Len(docs))
  BY <1>1
<1>3. Min(at) \in at /\ \A i \in at : Min(at) <= i
  <2> HIDE DEF at
  <2> QED BY <1>1, <1>2, MinOfPositions DEF at
<1> QED BY <1>3

LEMMA InitTyped == Init => Typed
<1> SUFFICES ASSUME Init PROVE Typed
  OBVIOUS
<1>1. payload \in Seq(Payload) /\ Len(payload) <= MaxSegs /\ DOMAIN payload = {}
  BY ConstantsAssumption DEF Init
<1>2. buffer \in Seq(Version) /\ segments \in Seq(SegId) /\ segments \in Seq(DOMAIN payload)
      /\ manifest.segs \in Seq(DOMAIN payload) /\ manifest \in Manifest
  BY DEF Init, Manifest
<1>3. call.ids \in Seq(DOMAIN payload) /\ call.docs \in Seq(Version) /\ call.ids \in Seq(SegId)
  BY DEF Init, NoCall
<1>4. added \in [Doc -> 0..MaxVer]
  BY ConstantsAssumption DEF Init
<1> QED BY <1>1, <1>2, <1>3, <1>4 DEF Init, Typed, TypeOK, SegmentsWritten, CallOK, NoCall, Idle

LEMMA TypedStep == Typed /\ [Next]_vars => Typed'
<1> SUFFICES ASSUME Typed, [Next]_vars PROVE Typed'
  OBVIOUS
<1> USE DEF disk, history, Idle
<1>a. DOMAIN payload \subseteq SegId /\ \A ids \in Seq(DOMAIN payload) : ids \in Seq(SegId)
  BY NextSegment DEF Typed, TypeOK
<1>b. <<>> \in Seq(Version) /\ <<>> \in Seq(SegId) /\ <<>> \in Seq(DOMAIN payload)
  OBVIOUS
<1> USE DEF Typed, TypeOK, SegmentsWritten, CallOK
<1>1. CASE Open
  BY <1>1, <1>a DEF Open
<1>2. CASE Load
  BY <1>2, <1>a DEF Load
<1>3. CASE Clear
  BY <1>3, <1>b DEF Clear
<1>4. ASSUME NEW d \in Doc, AddDocument(d) PROVE Typed'
  <2>1. added[d] + 1 \in 1..MaxVer
    BY <1>4, ConstantsAssumption DEF AddDocument
  <2> DEFINE docs == Append(buffer, [doc |-> d, ver |-> added[d] + 1])
  <2>2. docs \in Seq(Version)
    BY <2>1 DEF Version
  <2> HIDE DEF docs
  <2>3. added' \in [Doc -> 0..MaxVer] /\ removed' \subseteq Doc
    BY <1>4, <2>1 DEF AddDocument
  <2>4. \/ buffer' = <<>> /\ call' = Flushing(docs)
        \/ buffer' = docs /\ UNCHANGED call
    BY <1>4 DEF AddDocument, docs
  <2> QED BY <1>4, <1>b, <2>2, <2>3, <2>4 DEF AddDocument, Flushing, NoCall
<1>5. ASSUME NEW d \in Doc, RemoveDocument(d) PROVE Typed'
  <2>1. buffer' \in Seq(Version)
    <3> DEFINE at == {i \in DOMAIN buffer : buffer[i].doc = d}
    <3>1. at # {} /\ buffer' = RemoveAt(buffer, Min(at))
      BY <1>5 DEF RemoveDocument
    <3>2. Min(at) \in DOMAIN buffer
      BY <3>1, FirstPosition
    <3> QED BY <3>1, <3>2, RemoveAtIs
  <2> QED BY <1>5, <2>1 DEF RemoveDocument
<1>6. CASE FlushSegment
  BY <1>6, <1>b DEF FlushSegment, Flushing, NoCall
<1>7. CASE FlushWrites
  <2> DEFINE p == FlushedPayload(call.docs)
  <2>1. p \in Payload
    BY FlushedPayloadType
  <2>2. WriteSegment(p, "flushed")
    BY <1>7 DEF FlushWrites, FlushedPayload
  <2> HIDE DEF p
  <2>3. /\ payload' \in Seq(Payload) /\ Len(payload') <= MaxSegs
        /\ DOMAIN payload' = DOMAIN payload \cup {NextSeg} /\ NextSeg \in SegId
        /\ files' = files \cup {NextSeg}
        /\ call' = [call EXCEPT !.op = "flushed", !.new = NextSeg]
        /\ \A ids \in Seq(DOMAIN payload) : ids \in Seq(DOMAIN payload')
    BY <2>1, <2>2, WriteSegmentAdds
  <2>4. UNCHANGED <<opened, buffer, segments, manifest, compaction, history>> /\ opened
    BY <1>7 DEF FlushWrites
  <2>5. TypeOK'
    BY <2>3, <2>4
  <2>6. SegmentsWritten'
    BY <2>3, <2>4
  <2>7. CallOK'
    BY <1>7, <2>3, <2>4 DEF FlushWrites
  <2> QED BY <2>5, <2>6, <2>7
<1>8. CASE FlushPublishes
  <2>1. call.new \in DOMAIN payload /\ call.new \in SegId
    BY <1>8, <1>a DEF FlushPublishes
  <2>2. /\ Append(segments, call.new) \in Seq(DOMAIN payload)
        /\ Append(manifest.segs, call.new) \in Seq(DOMAIN payload)
    BY <2>1
  <2> QED BY <1>8, <1>a, <1>b, <2>2 DEF FlushPublishes, Manifest, NoCall
<1>22. CASE FlushUnread
  <2>1. call.new \in DOMAIN payload /\ call.new \in SegId
    BY <1>22, <1>a DEF FlushUnread
  <2>2. Append(manifest.segs, call.new) \in Seq(DOMAIN payload)
    BY <2>1
  <2>3. unread' \subseteq Doc
    <3>1. \A i \in DOMAIN call.docs : call.docs[i] \in Version
      OBVIOUS
    <3> QED BY <1>22, <3>1 DEF FlushUnread, Version
  <2>4. manifest' \in Manifest /\ errors' \in Nat
    BY <1>22, <1>a, <2>2 DEF FlushUnread, Manifest
  <2> QED BY <1>22, <1>b, <2>2, <2>3, <2>4 DEF FlushUnread, EndsWith, NoCall
<1>23. CASE CompactThrows
  BY <1>23 DEF CompactThrows
<1>9. CASE MergeSome
  <2>1. PICK i, j \in DOMAIN manifest.segs : call' = Merging(<<manifest.segs[i], manifest.segs[j]>>)
    BY <1>9 DEF MergeSome
  <2>2. <<manifest.segs[i], manifest.segs[j]>> \in Seq(DOMAIN payload)
    OBVIOUS
  <2> QED BY <1>9, <1>a, <1>b, <2>1, <2>2 DEF MergeSome, Merging, NoCall
<1>10. CASE MergeWrites
  <2>1. MergedPayload(call.ids) \in Payload
    BY MergedPayloadIs
  <2>2. WriteSegment(MergedPayload(call.ids), "merged")
    BY <1>10 DEF MergeWrites
  <2>3. /\ payload' \in Seq(Payload) /\ Len(payload') <= MaxSegs
        /\ DOMAIN payload' = DOMAIN payload \cup {NextSeg} /\ NextSeg \in SegId
        /\ files' = files \cup {NextSeg}
        /\ call' = [call EXCEPT !.op = "merged", !.new = NextSeg]
        /\ \A ids \in Seq(DOMAIN payload) : ids \in Seq(DOMAIN payload')
    BY <2>1, <2>2, WriteSegmentAdds
  <2>4. UNCHANGED <<opened, buffer, segments, manifest, compaction, history>> /\ opened
    BY <1>10 DEF MergeWrites
  <2>5. TypeOK'
    BY <2>3, <2>4
  <2>6. SegmentsWritten'
    BY <2>3, <2>4
  <2>7. CallOK'
    BY <1>10, <2>3, <2>4 DEF MergeWrites
  <2> QED BY <2>5, <2>6, <2>7
<1>11. CASE MergePromotes
  <2> DEFINE rest == Without(manifest.segs, ToSet(call.ids))
  <2>1. rest \in Seq(DOMAIN payload) /\ call.new \in DOMAIN payload
    BY <1>11, WithoutElements DEF MergePromotes
  <2>2. manifest' = [gen |-> manifest.gen + 1, segs |-> Append(rest, call.new)]
    BY <1>11 DEF MergePromotes
  <2>3. Append(rest, call.new) \in Seq(DOMAIN payload)
    BY <2>1
  <2> HIDE DEF rest
  <2>4. /\ call' = [call EXCEPT !.op = "promoted"] /\ call.op = "merged"
        /\ UNCHANGED <<opened, buffer, segments, payload, files, compaction, history>>
    BY <1>11 DEF MergePromotes
  <2>5. manifest' \in Manifest
    BY <1>a, <2>2, <2>3 DEF Manifest
  <2>6. TypeOK'
    BY <2>4, <2>5
  <2>7. SegmentsWritten' /\ CallOK'
    BY <2>2, <2>3, <2>4
  <2> QED BY <2>6, <2>7
<1>12. CASE MergeDeletes
  BY <1>12, HeadAndTail DEF MergeDeletes
<1>13. CASE MergeDeleteFails
  <2>1. Tail(call.ids) \in Seq(DOMAIN payload)
    BY <1>13, HeadAndTail DEF MergeDeleteFails
  <2>2. errors' \in Nat /\ call' = [call EXCEPT !.ids = Tail(call.ids)]
    BY <1>13 DEF MergeDeleteFails
  <2> QED BY <1>13, <1>a, <2>1, <2>2 DEF MergeDeleteFails
<1>14. CASE MergeReturns
  BY <1>14, <1>b DEF MergeReturns, NoCall
<1>15. CASE CompactFlushes
  BY <1>15, <1>b, ZenonT(40) DEF CompactFlushes, Flushing, NoCall, ForCompact
<1>16. CASE CompactMerges
  BY <1>16, <1>a, <1>b, ZenonT(40) DEF CompactMerges, Merging, ForCompact, NoCall
<1>17. CASE CompactReloads
  BY <1>17, <1>a DEF CompactReloads
<1>18. CASE Recover
  BY <1>18 DEF Recover
<1>19. CASE FileOperationThrows
  BY <1>19, <1>b DEF FileOperationThrows, EndsWith, NoCall
<1>20. CASE Crash
  <2>1. call' = NoCall /\ crashes' \in Nat
    BY <1>20 DEF Crash
  <2>2. NoCall.op = "none" /\ NoCall.ids = <<>> /\ NoCall.docs = <<>>
    BY DEF NoCall
  <2>3. call' \in [op : {"none", "flush", "flushed", "merge", "merged", "promoted"},
                   docs : Seq(Version), ids : Seq(SegId), new : SegId \cup {0}, compact : BOOLEAN]
    BY <1>b, <2>1 DEF NoCall
  <2>4. TypeOK'
    BY <1>20, <1>b, <2>1, <2>3 DEF Crash
  <2>5. SegmentsWritten' /\ CallOK'
    BY <1>20, <1>b, <2>1, <2>2 DEF Crash
  <2> QED BY <2>4, <2>5
<1>21. CASE UNCHANGED vars
  BY <1>21 DEF vars
<1> QED BY <1>1, <1>2, <1>3, <1>4, <1>5, <1>6, <1>7, <1>8, <1>9, <1>10, <1>11, <1>12, <1>13,
           <1>14, <1>15, <1>16, <1>17, <1>18, <1>19, <1>20, <1>21, <1>22, <1>23 DEF Next

(***************************************************************************)
(* The files.                                                              *)
(***************************************************************************)

LEMMA FilesStep == Typed /\ FilesOK /\ [Next]_vars => FilesOK'
<1> SUFFICES ASSUME Typed, FilesOK, [Next]_vars PROVE FilesOK'
  OBVIOUS
<1>a. /\ call.ids \in Seq(DOMAIN payload) /\ crashes \in Nat /\ errors \in Nat
      /\ files \subseteq DOMAIN payload /\ manifest.segs \in Seq(DOMAIN payload)
      /\ call.op \in {"none", "flush", "flushed", "merge", "merged", "promoted"}
      /\ call.op \in {"flushed", "merged", "promoted"} => call.new \in DOMAIN payload
      /\ call = [op |-> call.op, docs |-> call.docs, ids |-> call.ids, new |-> call.new,
                 compact |-> call.compact]
  BY DEF Typed, TypeOK, SegmentsWritten, CallOK
<1>b. ToSet(<<>>) = {}
  BY DEF ToSet
<1> USE DEF FilesOK, ManifestSegmentsExist, Leftover, disk, history, Idle
<1>1. CASE Open \/ Load \/ Clear
  BY <1>1 DEF Open, Load, Clear
<1>2. ASSUME NEW d \in Doc, AddDocument(d) PROVE FilesOK'
  <2>1. call.op = "none" /\ call'.op \in {"none", "flush"}
    BY <1>2 DEF AddDocument, Flushing, NoCall
  <2>2. UNCHANGED <<files, manifest, crashes, errors>>
    BY <1>2 DEF AddDocument
  <2> QED BY <2>1, <2>2
<1>3. ASSUME NEW d \in Doc, RemoveDocument(d) PROVE FilesOK'
  BY <1>3 DEF RemoveDocument
<1>4. CASE FlushSegment
  BY <1>4 DEF FlushSegment, Flushing, NoCall
<1>5. ASSUME NEW p \in Payload, NEW op, WriteSegment(p, op),
             \/ call.op = "flush" /\ op = "flushed"
             \/ call.op = "merge" /\ op = "merged",
             UNCHANGED <<manifest, crashes, errors>>
      PROVE  FilesOK'
  <2>1. NextSeg \notin DOMAIN payload /\ files' = files \cup {NextSeg}
        /\ call' = [call EXCEPT !.op = op, !.new = NextSeg]
    BY <1>5, WriteSegmentAdds
  <2>2. call'.op = op /\ call'.new = NextSeg /\ call'.ids = call.ids
    BY <1>a, <2>1
  <2>3. ToSet(manifest.segs) \subseteq files /\ NextSeg \notin files
    BY <1>a, <2>1
  <2> QED BY <1>5, <2>1, <2>2, <2>3
<1>6. CASE FlushWrites
  <2> DEFINE p == FlushedPayload(call.docs)
  <2>1. p \in Payload
    BY FlushedPayloadType DEF Typed, TypeOK
  <2>2. WriteSegment(p, "flushed") /\ call.op = "flush" /\ UNCHANGED <<manifest, crashes, errors>>
    BY <1>6 DEF FlushWrites, FlushedPayload
  <2> HIDE DEF p
  <2> QED BY <1>5, <2>1, <2>2
<1>7. CASE MergeWrites
  <2>1. MergedPayload(call.ids) \in Payload
    BY MergedPayloadIs DEF Typed, TypeOK, SegmentsWritten
  <2>2. WriteSegment(MergedPayload(call.ids), "merged") /\ call.op = "merge"
        /\ UNCHANGED <<manifest, crashes, errors>>
    BY <1>7 DEF MergeWrites
  <2> QED BY <1>5, <2>1, <2>2
<1>8. CASE FlushPublishes \/ FlushUnread
  <2>1. /\ call.op = "flushed" /\ manifest'.segs = Append(manifest.segs, call.new)
        /\ call'.op = "none" /\ UNCHANGED <<files, crashes>> /\ errors' \in {errors, errors + 1}
    BY <1>8 DEF FlushPublishes, FlushUnread, NoCall
  <2>2. ToSet(manifest'.segs) = ToSet(manifest.segs) \cup {call.new}
    BY <1>a, <2>1, AppendElements
  <2> QED BY <1>a, <2>1, <2>2
<1>9. CASE MergeSome
  <2>1. PICK i, j \in DOMAIN manifest.segs : call' = Merging(<<manifest.segs[i], manifest.segs[j]>>)
    BY <1>9 DEF MergeSome
  <2>2. call'.op = "merge" /\ call'.ids = <<manifest.segs[i], manifest.segs[j]>>
    BY <2>1 DEF Merging, NoCall
  <2>3. ToSet(call'.ids) \subseteq ToSet(manifest.segs)
    BY <2>2 DEF ToSet
  <2> QED BY <1>9, <2>2, <2>3 DEF MergeSome
<1>10. CASE MergePromotes
  <2> DEFINE rest == Without(manifest.segs, ToSet(call.ids))
  <2>1. rest \in Seq(DOMAIN payload) /\ ToSet(rest) = ToSet(manifest.segs) \ ToSet(call.ids)
    BY <1>a, WithoutElements
  <2>2. manifest'.segs = Append(rest, call.new) /\ call.op = "merged"
        /\ call' = [call EXCEPT !.op = "promoted"] /\ UNCHANGED <<files, crashes, errors>>
    BY <1>10 DEF MergePromotes
  <2> HIDE DEF rest
  <2>3. ToSet(manifest'.segs) = ToSet(rest) \cup {call.new}
    BY <1>a, <2>1, <2>2, AppendElements
  <2>4. call'.op = "promoted" /\ call'.ids = call.ids
    BY <1>a, <2>2
  <2>5. call.new \notin ToSet(call.ids)
    BY <2>2
  <2> QED BY <2>1, <2>2, <2>3, <2>4, <2>5
<1>11. CASE MergeDeletes
  <2>1. call.op = "promoted" /\ call'.op = "promoted" /\ call'.ids = Tail(call.ids)
        /\ files' = files \ {Head(call.ids)} /\ UNCHANGED <<manifest, crashes, errors>>
    BY <1>11, <1>a DEF MergeDeletes
  <2>2. ToSet(call.ids) = {Head(call.ids)} \cup ToSet(call'.ids)
    BY <1>11, <1>a, <2>1, HeadAndTail DEF MergeDeletes
  <2> QED BY <2>1, <2>2
<1>12. CASE MergeDeleteFails
  <2>1. call.op = "promoted" /\ call'.op = "promoted" /\ call'.ids = Tail(call.ids)
        /\ errors' # 0 /\ UNCHANGED <<files, manifest>>
    BY <1>12, <1>a DEF MergeDeleteFails
  <2>2. ToSet(call.ids) = {Head(call.ids)} \cup ToSet(call'.ids)
    BY <1>12, <1>a, <2>1, HeadAndTail DEF MergeDeleteFails
  <2> QED BY <2>1, <2>2
<1>13. CASE MergeReturns
  BY <1>13, <1>b DEF MergeReturns, NoCall
<1>14. CASE CompactFlushes
  BY <1>14 DEF CompactFlushes, Flushing, NoCall, ForCompact
<1>15. CASE CompactMerges
  BY <1>15 DEF CompactMerges, Merging, ForCompact, NoCall
<1>16. CASE CompactReloads \/ CompactThrows
  BY <1>16, <1>a DEF CompactReloads, CompactThrows
<1>17. CASE Recover
  BY <1>17 DEF Recover
<1>18. CASE FileOperationThrows
  BY <1>18, <1>a DEF FileOperationThrows, NoCall
<1>19. CASE Crash
  BY <1>19, <1>a DEF Crash, NoCall
<1>20. CASE UNCHANGED vars
  BY <1>20 DEF vars
<1> QED BY <1>1, <1>2, <1>3, <1>4, <1>6, <1>7, <1>8, <1>9, <1>10, <1>11, <1>12, <1>13,
           <1>14, <1>15, <1>16, <1>17, <1>18, <1>19, <1>20 DEF Next

(***************************************************************************)
(* The contents of the segments.                                           *)
(***************************************************************************)

(* A merge keeps Posted. *)
LEMMA MergedPosted ==
  ASSUME payload \in Seq(Payload), NEW ids \in Seq(DOMAIN payload),
         \A s \in DOMAIN payload : Posted(payload[s])
  PROVE  Posted(MergedPayload(ids))
<1> DEFINE p == MergedPayload(ids)
<1>1. /\ \A d \in Doc : LastVersion(p.docs, d) = Newest(payload, ids, d)
      /\ \A d \in Doc, t \in Term : p.post[<<t, d>>] = NewestPosting(payload, ids, t, d)
  BY MergedPayloadIs
<1> HIDE DEF p
<1>2. ASSUME NEW d \in Doc, NEW v, v = LastVersion(p.docs, d)
      PROVE  /\ v # 0 => \A t \in Terms[<<d, v>>] : p.post[<<t, d>>] = v
             /\ v = 0 => \A t \in Term : p.post[<<t, d>>] = 0
  <2>1. v = Newest(payload, ids, d) /\ v \in 0..MaxVer
    BY <1>1, <1>2, NewestType
  <2>2. v # 0 => Terms[<<d, v>>] \subseteq Term
    <3>1. v # 0 => <<d, v>> \in Doc \X (1..MaxVer)
      BY <2>1, ConstantsAssumption
    <3> QED BY <3>1, ConstantsAssumption
  <2>3. /\ v # 0 => \A t \in Terms[<<d, v>>] : NewestPosting(payload, ids, t, d) = v
        /\ v = 0 => \A t \in Term : NewestPosting(payload, ids, t, d) = 0
    BY <2>1, FoundInSegments
  <2> QED BY <1>1, <2>2, <2>3
<1>3. Posted(p)
  BY <1>2 DEF Posted
<1> QED BY <1>3 DEF p

(* The new segment of a merge answers as the merged ones. *)
LEMMA MergeWritten ==
  ASSUME Typed, WriteSegment(MergedPayload(call.ids), "merged")
  PROVE  MergeOf(payload', call.ids, NextSeg)
<1>1. payload \in Seq(Payload) /\ call.ids \in Seq(DOMAIN payload)
  BY DEF Typed, TypeOK, SegmentsWritten
<1> DEFINE p == MergedPayload(call.ids)
<1>2. /\ p \in Payload
      /\ \A d \in Doc : LastVersion(p.docs, d) = Newest(payload, call.ids, d)
      /\ \A d \in Doc, t \in Term : p.post[<<t, d>>] = NewestPosting(payload, call.ids, t, d)
  BY <1>1, MergedPayloadIs
<1> HIDE DEF p
<1>3. payload'[NextSeg] = p /\ \A s \in DOMAIN payload : payload'[s] = payload[s]
  BY <1>2, WriteSegmentAdds DEF p
<1>4. ASSUME NEW d \in Doc
      PROVE  /\ Newest(payload', call.ids, d) = Newest(payload, call.ids, d)
             /\ \A t \in Term :
                  NewestPosting(payload', call.ids, t, d) = NewestPosting(payload, call.ids, t, d)
  BY <1>1, <1>3, NewestKept
<1> QED BY <1>2, <1>3, <1>4 DEF MergeOf

LEMMA ContentsStep == Typed /\ ContentsOK /\ [Next]_vars => ContentsOK'
<1> SUFFICES ASSUME Typed, ContentsOK, [Next]_vars PROVE ContentsOK'
  OBVIOUS
<1>a. /\ call.ids \in Seq(DOMAIN payload) /\ call.docs \in Seq(Version)
      /\ payload \in Seq(Payload)
      /\ call.op \in {"none", "flush", "flushed", "merge", "merged", "promoted"}
      /\ call = [op |-> call.op, docs |-> call.docs, ids |-> call.ids, new |-> call.new,
                 compact |-> call.compact]
  BY DEF Typed, TypeOK, SegmentsWritten
\* Only the two writes add a segment and start the steps that know its contents.
<1>b. ASSUME UNCHANGED payload,
             \/ UNCHANGED call
             \/ call'.op \notin {"flushed", "merged"}
      PROVE  ContentsOK'
  BY <1>b DEF ContentsOK
<1>c. ASSUME NEW p \in Payload, NEW op, WriteSegment(p, op), Posted(p)
      PROVE  /\ \A s \in DOMAIN payload' : Posted(payload'[s])
             /\ call'.op = op /\ call'.new = NextSeg
             /\ call'.ids = call.ids /\ call'.docs = call.docs /\ payload'[NextSeg] = p
  <2>1. /\ DOMAIN payload' = DOMAIN payload \cup {NextSeg}
        /\ payload'[NextSeg] = p /\ \A s \in DOMAIN payload : payload'[s] = payload[s]
        /\ call' = [call EXCEPT !.op = op, !.new = NextSeg]
    BY <1>c, WriteSegmentAdds
  <2>2. ASSUME NEW s \in DOMAIN payload' PROVE Posted(payload'[s])
    <3>1. CASE s = NextSeg
      BY <1>c, <2>1, <3>1
    <3>2. CASE s # NextSeg
      <4>1. s \in DOMAIN payload /\ payload'[s] = payload[s]
        BY <2>1, <3>2
      <4> QED BY <4>1 DEF ContentsOK
    <3> QED BY <3>1, <3>2
  <2> QED BY <1>a, <2>1, <2>2
<1> USE DEF disk, history, Idle
<1>1. CASE Open \/ Load \/ Clear \/ Recover \/ CompactReloads \/ CompactThrows
  BY <1>1, <1>b DEF Open, Load, Clear, Recover, CompactReloads, CompactThrows
<1>2. ASSUME NEW d \in Doc, AddDocument(d) PROVE ContentsOK'
  <2>1. UNCHANGED call \/ call'.op = "flush"
    BY <1>2 DEF AddDocument, Flushing, NoCall
  <2> QED BY <1>2, <1>b, <2>1 DEF AddDocument
<1>3. ASSUME NEW d \in Doc, RemoveDocument(d) PROVE ContentsOK'
  BY <1>3, <1>b DEF RemoveDocument
<1>4. CASE FlushSegment
  BY <1>4, <1>b DEF FlushSegment, Flushing, NoCall
<1>5. CASE FlushWrites
  <2> DEFINE p == FlushedPayload(call.docs)
  <2>1. p \in Payload /\ Posted(p) /\ p.docs = call.docs
    BY <1>a, FlushedPayloadType DEF FlushedPayload
  <2>2. WriteSegment(p, "flushed")
    BY <1>5 DEF FlushWrites, FlushedPayload
  <2> HIDE DEF p
  <2>3. /\ \A s \in DOMAIN payload' : Posted(payload'[s])
        /\ call'.op = "flushed" /\ call'.new = NextSeg
        /\ call'.docs = call.docs /\ payload'[NextSeg] = p
    BY <1>c, <2>1, <2>2
  <2> QED BY <2>1, <2>3 DEF ContentsOK
<1>6. CASE MergeWrites
  <2>1. WriteSegment(MergedPayload(call.ids), "merged")
    BY <1>6 DEF MergeWrites
  <2>2. MergedPayload(call.ids) \in Payload /\ Posted(MergedPayload(call.ids))
    BY <1>a, MergedPayloadIs, MergedPosted DEF ContentsOK
  <2>3. MergeOf(payload', call.ids, NextSeg)
    BY <2>1, MergeWritten
  <2>4. /\ \A s \in DOMAIN payload' : Posted(payload'[s])
        /\ call'.op = "merged" /\ call'.new = NextSeg /\ call'.ids = call.ids
    BY <1>c, <2>1, <2>2
  <2> QED BY <2>3, <2>4 DEF ContentsOK
<1>7. CASE FlushPublishes \/ FlushUnread \/ MergeReturns
  BY <1>7, <1>b DEF FlushPublishes, FlushUnread, MergeReturns, NoCall
<1>8. CASE MergeSome
  <2>1. PICK i, j \in DOMAIN manifest.segs : call' = Merging(<<manifest.segs[i], manifest.segs[j]>>)
    BY <1>8 DEF MergeSome
  <2>2. call'.op = "merge"
    BY <2>1 DEF Merging, NoCall
  <2> QED BY <1>8, <1>b, <2>2 DEF MergeSome
<1>9. CASE MergePromotes
  BY <1>9, <1>a, <1>b DEF MergePromotes
<1>10. CASE MergeDeletes \/ MergeDeleteFails
  BY <1>10, <1>a, <1>b DEF MergeDeletes, MergeDeleteFails
<1>11. CASE CompactFlushes
  BY <1>11, <1>b DEF CompactFlushes, Flushing, NoCall, ForCompact
<1>12. CASE CompactMerges
  BY <1>12, <1>b DEF CompactMerges, Merging, ForCompact, NoCall
<1>13. CASE FileOperationThrows \/ Crash
  BY <1>13, <1>b DEF FileOperationThrows, Crash, NoCall
<1>14. CASE UNCHANGED vars
  BY <1>14, <1>b DEF vars
<1> QED BY <1>1, <1>2, <1>3, <1>4, <1>5, <1>6, <1>7, <1>8, <1>9, <1>10, <1>11, <1>12, <1>13,
           <1>14 DEF Next

(***************************************************************************)
(* The versions.                                                           *)
(***************************************************************************)

(* The newest version of a document is held by one of the segments. *)
LEMMA NewestHeld ==
  ASSUME NEW pl \in Seq(Payload), NEW ids \in Seq(DOMAIN pl), NEW d, Newest(pl, ids, d) # 0
  PROVE  \E s \in ToSet(ids) : \E j \in DOMAIN pl[s].docs :
           pl[s].docs[j].doc = d /\ pl[s].docs[j].ver = Newest(pl, ids, d)
<1>1. PICK m \in DOMAIN ids : /\ LastVersion(pl[ids[m]].docs, d) # 0
                              /\ Newest(pl, ids, d) = LastVersion(pl[ids[m]].docs, d)
  BY NewestIs DEF NewestOne
<1>2. ids[m] \in ToSet(ids) /\ pl[ids[m]] \in Payload
  BY DEF ToSet
<1>3. pl[ids[m]].docs \in Seq(Version)
  BY <1>2 DEF Payload
<1>4. PICK j \in DOMAIN pl[ids[m]].docs :
        pl[ids[m]].docs[j].doc = d /\ LastVersion(pl[ids[m]].docs, d) = pl[ids[m]].docs[j].ver
  <2>1. LastOne(pl[ids[m]].docs, d)
    BY <1>3, LastVersionIs
  <2> QED BY <1>1, <2>1 DEF LastOne
<1> QED BY <1>1, <1>2, <1>4

(* No list of segments holds a version newer than what was added. *)
LEMMA NewestRecorded ==
  ASSUME Typed, AllRecorded, NEW ids \in Seq(DOMAIN payload), NEW d \in Doc
  PROVE  Newest(payload, ids, d) <= added[d]
<1>1. payload \in Seq(Payload) /\ added[d] \in 0..MaxVer
  BY DEF Typed, TypeOK
<1>2. CASE Newest(payload, ids, d) = 0
  BY <1>1, <1>2, ConstantsAssumption
<1>3. CASE Newest(payload, ids, d) # 0
  <2>0. PICK s \in ToSet(ids) : \E j \in DOMAIN payload[s].docs :
          payload[s].docs[j].doc = d /\ payload[s].docs[j].ver = Newest(payload, ids, d)
    BY <1>1, <1>3, NewestHeld, SMTT(30)
  <2>1. PICK j \in DOMAIN payload[s].docs :
          payload[s].docs[j].doc = d /\ payload[s].docs[j].ver = Newest(payload, ids, d)
    BY <2>0
  <2>2. s \in DOMAIN payload
    BY DEF ToSet
  <2>3. payload[s].docs[j].ver <= added[payload[s].docs[j].doc]
    BY <2>1, <2>2 DEF AllRecorded, Recorded
  <2> QED BY <2>1, <2>3
<1> QED BY <1>2, <1>3

LEMMA RecordedStep == Typed /\ AllRecorded /\ [Next]_vars => AllRecorded'
<1> SUFFICES ASSUME Typed, AllRecorded, [Next]_vars PROVE AllRecorded'
  OBVIOUS
<1>a. /\ call.ids \in Seq(DOMAIN payload) /\ call.docs \in Seq(Version)
      /\ buffer \in Seq(Version)
      /\ payload \in Seq(Payload) /\ added \in [Doc -> 0..MaxVer]
      /\ call = [op |-> call.op, docs |-> call.docs, ids |-> call.ids, new |-> call.new,
                 compact |-> call.compact]
  BY DEF Typed, TypeOK, SegmentsWritten
<1>b. Recorded(<<>>) /\ Recorded(<<>>)'
  BY DEF Recorded
\* Most steps add no version and move the ones in memory at most.
<1>c. ASSUME UNCHANGED <<payload, added>>,
             Recorded(buffer') /\ Recorded(call'.docs)
      PROVE  AllRecorded'
  BY <1>c DEF AllRecorded, Recorded
<1>d. ASSUME NEW p \in Payload, NEW op, WriteSegment(p, op), Recorded(p.docs),
             UNCHANGED <<buffer, added>>
      PROVE  AllRecorded'
  <2>1. /\ DOMAIN payload' = DOMAIN payload \cup {NextSeg}
        /\ payload'[NextSeg] = p /\ \A s \in DOMAIN payload : payload'[s] = payload[s]
        /\ call' = [call EXCEPT !.op = op, !.new = NextSeg]
    BY <1>d, WriteSegmentAdds
  <2>2. call'.docs = call.docs
    BY <1>a, <2>1
  <2>3. ASSUME NEW s \in DOMAIN payload' PROVE Recorded(payload'[s].docs)
    <3>1. CASE s = NextSeg
      BY <1>d, <2>1, <3>1
    <3>2. CASE s # NextSeg
      <4>1. s \in DOMAIN payload /\ payload'[s] = payload[s]
        BY <2>1, <3>2
      <4> QED BY <4>1 DEF AllRecorded
    <3> QED BY <3>1, <3>2
  <2> QED BY <1>d, <2>2, <2>3 DEF AllRecorded, Recorded
<1>e. Recorded(buffer) /\ Recorded(call.docs)
  BY DEF AllRecorded
<1> USE DEF disk, history, Idle
<1>1. CASE Open \/ Load \/ Clear \/ Recover \/ CompactReloads \/ CompactThrows
  BY <1>1, <1>b, <1>c, <1>e DEF Open, Load, Clear, Recover, CompactReloads, CompactThrows
<1>2. ASSUME NEW d \in Doc, AddDocument(d) PROVE AllRecorded'
  <2> DEFINE new == [doc |-> d, ver |-> added[d] + 1]
             docs == Append(buffer, new)
  <2>1. /\ added' = [added EXCEPT ![d] = added[d] + 1] /\ UNCHANGED payload
        /\ added[d] + 1 \in 1..MaxVer
        /\ \/ buffer' = <<>> /\ call'.docs = docs
           \/ buffer' = docs /\ call'.docs = call.docs
    <3>1. /\ added' = [added EXCEPT ![d] = added[d] + 1] /\ UNCHANGED payload
          /\ added[d] < MaxVer
      BY <1>2 DEF AddDocument
    <3>2. added[d] + 1 \in 1..MaxVer
      BY <1>a, <3>1, ConstantsAssumption
    <3>3. \/ buffer' = <<>> /\ call' = Flushing(docs)
          \/ buffer' = docs /\ UNCHANGED call
      BY <1>2 DEF AddDocument
    <3>4. Flushing(docs).docs = docs
      BY DEF Flushing, NoCall
    <3> HIDE DEF docs
    <3> QED BY <3>1, <3>2, <3>3, <3>4
  <2>2. \A e \in Doc : added[e] <= added'[e] /\ added'[e] \in Int /\ added[e] \in Int
    BY <1>a, <2>1, ConstantsAssumption
  <2>3. ASSUME NEW l \in Seq(Version), Recorded(l)
        PROVE  \A i \in DOMAIN l : l[i].ver <= added'[l[i].doc]
    <3>1. ASSUME NEW i \in DOMAIN l PROVE l[i].ver <= added'[l[i].doc]
      <4>1. l[i] \in Version
        OBVIOUS
      <4>2. l[i].doc \in Doc /\ l[i].ver \in Int /\ l[i].ver <= added[l[i].doc]
        BY <2>3, <4>1, ConstantsAssumption DEF Version, Recorded
      <4> QED BY <2>2, <4>2
    <3> QED BY <3>1
  <2>4. \A i \in DOMAIN docs : docs[i].ver <= added'[docs[i].doc]
    <3>1. new \in Version
      BY <2>1 DEF Version
    <3>2. /\ Len(buffer) \in Nat /\ DOMAIN buffer = 1..Len(buffer)
          /\ DOMAIN docs = 1..(Len(buffer) + 1)
          /\ docs[Len(buffer) + 1] = new /\ \A i \in DOMAIN buffer : docs[i] = buffer[i]
      BY <1>a, <3>1
    <3> HIDE DEF docs
    <3>3. new.ver <= added'[new.doc]
      BY <1>a, <2>1
    <3>4. \A i \in DOMAIN docs : i \in DOMAIN buffer \/ i = Len(buffer) + 1
      BY <3>2
    <3> QED BY <1>a, <1>e, <2>3, <3>2, <3>3, <3>4
  <2>5. \A s \in DOMAIN payload : payload[s].docs \in Seq(Version) /\ Recorded(payload[s].docs)
    <3>1. \A s \in DOMAIN payload : payload[s] \in Payload
      BY <1>a
    <3> QED BY <3>1 DEF AllRecorded, Payload
  <2> HIDE DEF docs
  <2>6. Recorded(buffer)' /\ Recorded(call.docs)'
    BY <1>a, <1>b, <1>e, <2>1, <2>3, <2>4 DEF Recorded
  <2>7. \A s \in DOMAIN payload : Recorded(payload[s].docs)'
    BY <2>1, <2>3, <2>5 DEF Recorded
  <2> QED BY <2>1, <2>6, <2>7 DEF AllRecorded
<1>3. ASSUME NEW d \in Doc, RemoveDocument(d) PROVE AllRecorded'
  <2> DEFINE k == Min({i \in DOMAIN buffer : buffer[i].doc = d})
  <2>1. buffer' = RemoveAt(buffer, k) /\ k \in DOMAIN buffer
    BY <1>3, <1>a, FirstPosition DEF RemoveDocument
  <2>2. \A i \in DOMAIN buffer' : \E j \in DOMAIN buffer : buffer'[i] = buffer[j]
    <3> HIDE DEF k
    <3>1. /\ Len(buffer) \in Nat /\ DOMAIN buffer = 1..Len(buffer)
          /\ DOMAIN buffer' = 1..(Len(buffer) - 1)
          /\ \A i \in DOMAIN buffer' : buffer'[i] = IF i < k THEN buffer[i] ELSE buffer[i + 1]
      BY <1>a, <2>1, RemoveAtIs
    <3>2. \A i \in DOMAIN buffer' : i \in DOMAIN buffer /\ i + 1 \in DOMAIN buffer
      BY <3>1
    <3> QED BY <3>1, <3>2
  <2>3. Recorded(buffer')
    BY <1>e, <2>2 DEF Recorded
  <2> QED BY <1>3, <1>c, <1>e, <2>3 DEF RemoveDocument
<1>4. CASE FlushSegment
  BY <1>4, <1>b, <1>c, <1>e DEF FlushSegment, Flushing, NoCall
<1>5. CASE FlushWrites
  <2> DEFINE p == FlushedPayload(call.docs)
  <2>1. p \in Payload /\ p.docs = call.docs
    BY <1>a, FlushedPayloadType DEF FlushedPayload
  <2>2. WriteSegment(p, "flushed") /\ UNCHANGED <<buffer, added>>
    BY <1>5 DEF FlushWrites, FlushedPayload
  <2> HIDE DEF p
  <2> QED BY <1>d, <1>e, <2>1, <2>2
<1>6. CASE MergeWrites
  <2> DEFINE p == MergedPayload(call.ids)
  <2>1. WriteSegment(p, "merged") /\ UNCHANGED <<buffer, added>>
    BY <1>6 DEF MergeWrites
  <2>2. /\ p \in Payload
        /\ \A i \in DOMAIN p.docs : p.docs[i].ver = Newest(payload, call.ids, p.docs[i].doc)
    BY <1>a, MergedPayloadIs
  <2> HIDE DEF p
  <2>3. \A i \in DOMAIN p.docs : p.docs[i].doc \in Doc
    <3>1. p.docs \in Seq(Version)
      BY <2>2 DEF Payload
    <3>2. \A i \in DOMAIN p.docs : p.docs[i] \in Version
      BY <3>1
    <3> QED BY <3>2 DEF Version
  <2>4. Recorded(p.docs)
    BY <1>a, <2>2, <2>3, NewestRecorded DEF Recorded
  <2> QED BY <1>d, <2>1, <2>2, <2>4
<1>7. CASE FlushPublishes \/ FlushUnread \/ MergeReturns
  BY <1>7, <1>b, <1>c, <1>e DEF FlushPublishes, FlushUnread, MergeReturns, NoCall
<1>8. CASE MergeSome
  <2>1. PICK i, j \in DOMAIN manifest.segs : call' = Merging(<<manifest.segs[i], manifest.segs[j]>>)
    BY <1>8 DEF MergeSome
  <2>2. call'.docs = <<>>
    BY <2>1 DEF Merging, NoCall
  <2> QED BY <1>8, <1>b, <1>c, <1>e, <2>2 DEF MergeSome
<1>9. CASE MergePromotes \/ MergeDeletes \/ MergeDeleteFails
  <2>1. call'.docs = call.docs
    BY <1>9, <1>a DEF MergePromotes, MergeDeletes, MergeDeleteFails
  <2> QED BY <1>9, <1>c, <1>e, <2>1 DEF MergePromotes, MergeDeletes, MergeDeleteFails
<1>10. CASE CompactFlushes
  BY <1>10, <1>b, <1>c, <1>e DEF CompactFlushes, Flushing, NoCall, ForCompact
<1>11. CASE CompactMerges
  BY <1>11, <1>b, <1>c, <1>e DEF CompactMerges, Merging, ForCompact, NoCall
<1>12. CASE FileOperationThrows \/ Crash
  BY <1>12, <1>b, <1>c, <1>e DEF FileOperationThrows, Crash, NoCall
<1>13. CASE UNCHANGED vars
  BY <1>13, <1>c, <1>e DEF vars
<1> QED BY <1>1, <1>2, <1>3, <1>4, <1>5, <1>6, <1>7, <1>8, <1>9, <1>10, <1>11, <1>12, <1>13 DEF Next

(***************************************************************************)
(* Merges of all the segments, and what memory answers.                    *)
(***************************************************************************)

LEMMA MergesAllStep == ~PartialMerges /\ Typed /\ MergesAll /\ [Next]_vars => MergesAll'
<1> SUFFICES ASSUME ~PartialMerges, Typed, MergesAll, [Next]_vars PROVE MergesAll'
  OBVIOUS
<1>a. call = [op |-> call.op, docs |-> call.docs, ids |-> call.ids, new |-> call.new,
              compact |-> call.compact]
  BY DEF Typed, TypeOK
<1> USE DEF MergesAll, disk, history, Idle
<1>1. CASE Open \/ Load \/ Clear \/ Recover \/ CompactReloads \/ CompactThrows \/ UNCHANGED vars
  BY <1>1 DEF Open, Load, Clear, Recover, CompactReloads, CompactThrows, vars
<1>2. ASSUME NEW d \in Doc, AddDocument(d) \/ RemoveDocument(d) PROVE MergesAll'
  <2>1. (UNCHANGED call \/ call'.op = "flush") /\ UNCHANGED manifest
    BY <1>2 DEF AddDocument, RemoveDocument, Flushing, NoCall
  <2> QED BY <2>1
<1>3. CASE FlushSegment \/ CompactFlushes
  BY <1>3 DEF FlushSegment, CompactFlushes, ForCompact, Flushing, NoCall
<1>4. CASE FlushWrites \/ MergeWrites
  BY <1>4, <1>a DEF FlushWrites, MergeWrites, WriteSegment
<1>5. CASE FlushPublishes \/ FlushUnread \/ MergeReturns \/ FileOperationThrows \/ Crash
  BY <1>5 DEF FlushPublishes, FlushUnread, MergeReturns, FileOperationThrows, Crash, NoCall
<1>6. CASE MergeSome
  BY <1>6 DEF MergeSome
<1>7. CASE MergePromotes \/ MergeDeletes \/ MergeDeleteFails
  BY <1>7, <1>a DEF MergePromotes, MergeDeletes, MergeDeleteFails
<1>8. CASE CompactMerges
  BY <1>8 DEF CompactMerges, Merging, ForCompact, NoCall
<1> QED BY <1>1, <1>2, <1>3, <1>4, <1>5, <1>6, <1>7, <1>8 DEF Next

(* Promoting a merge of all segments leaves one, which answers as all of them. *)
LEMMA PromotionKeepsAnswers ==
  ASSUME Typed, ContentsOK, MergesAll, MergePromotes
  PROVE  /\ manifest'.segs = <<call.new>>
         /\ \A d \in Doc :
              /\ Newest(payload, manifest'.segs, d) = Newest(payload, manifest.segs, d)
              /\ \A t \in Term : NewestPosting(payload, manifest'.segs, t, d)
                                   = NewestPosting(payload, manifest.segs, t, d)
<1>1. /\ payload \in Seq(Payload) /\ manifest.segs \in Seq(DOMAIN payload)
      /\ call.op = "merged" /\ call.ids = manifest.segs /\ call.new \in DOMAIN payload
  BY DEF Typed, TypeOK, SegmentsWritten, CallOK, MergesAll, MergePromotes
<1> DEFINE rest == Without(manifest.segs, ToSet(call.ids))
<1>2. manifest'.segs = Append(rest, call.new)
  BY DEF MergePromotes
<1>3. rest \in Seq(DOMAIN payload) /\ ToSet(rest) = {}
  BY <1>1, WithoutElements
<1> HIDE DEF rest
<1>4. rest = <<>>
  <2>1. Len(rest) \in Nat /\ DOMAIN rest = 1..Len(rest)
    BY <1>3
  <2>2. DOMAIN rest = {}
    BY <1>3 DEF ToSet
  <2> QED BY <1>3, <2>1, <2>2
<1>5. manifest'.segs = <<call.new>>
  BY <1>2, <1>4
<1>6. ASSUME NEW d \in Doc
      PROVE  /\ Newest(payload, manifest'.segs, d) = Newest(payload, manifest.segs, d)
             /\ \A t \in Term : NewestPosting(payload, manifest'.segs, t, d)
                                  = NewestPosting(payload, manifest.segs, t, d)
  <2>1. Newest(payload, rest, d) = 0
    BY <1>4 DEF Newest
  <2>2. \A t \in Term : NewestPosting(payload, rest, t, d) = 0
    BY <1>4 DEF NewestPosting
  <2>3. /\ LastVersion(payload[call.new].docs, d) = Newest(payload, manifest.segs, d)
        /\ \A t \in Term :
             payload[call.new].post[<<t, d>>] = NewestPosting(payload, manifest.segs, t, d)
    BY <1>1 DEF ContentsOK, MergeOf
  <2>4. /\ Newest(payload, Append(rest, call.new), d)
             = IF LastVersion(payload[call.new].docs, d) # 0
               THEN LastVersion(payload[call.new].docs, d) ELSE Newest(payload, rest, d)
        /\ \A t \in Term :
             NewestPosting(payload, Append(rest, call.new), t, d)
               = IF payload[call.new].post[<<t, d>>] # 0
                 THEN payload[call.new].post[<<t, d>>] ELSE NewestPosting(payload, rest, t, d)
    BY <1>1, <1>3, NewestOfAppended
  <2> QED BY <1>2, <2>1, <2>2, <2>3, <2>4
<1> QED BY <1>5, <1>6

(* Writing a segment changes no answer of the lists that are in use. *)
LEMMA WriteKeepsAnswers ==
  ASSUME Typed, NEW p \in Payload, NEW op, WriteSegment(p, op),
         NEW ids \in Seq(DOMAIN payload), NEW d
  PROVE  /\ Newest(payload', ids, d) = Newest(payload, ids, d)
         /\ \A t \in Term : NewestPosting(payload', ids, t, d) = NewestPosting(payload, ids, t, d)
<1>1. payload \in Seq(Payload)
  BY DEF Typed, TypeOK
<1>2. \A s \in DOMAIN payload : payload'[s] = payload[s]
  BY WriteSegmentAdds
<1> QED BY <1>1, <1>2, NewestKept

LEMMA MemoryStep ==
  ~PartialMerges /\ ~MayClear /\ Typed /\ ContentsOK /\ MergesAll /\ MemoryOK /\ [Next]_vars
    => MemoryOK'
<1> SUFFICES ASSUME ~PartialMerges, ~MayClear, Typed, ContentsOK, MergesAll, MemoryOK, [Next]_vars
             PROVE  MemoryOK'
  OBVIOUS
<1>a. /\ payload \in Seq(Payload) /\ segments \in Seq(DOMAIN payload)
      /\ manifest.segs \in Seq(DOMAIN payload) /\ call.ids \in Seq(DOMAIN payload)
      /\ call.docs \in Seq(Version)
  BY DEF Typed, TypeOK, SegmentsWritten
<1>b. ASSUME UNCHANGED <<opened, segments, payload, manifest, unread>> PROVE MemoryOK'
  BY <1>b DEF MemoryOK
<1>c. ASSUME segments' = manifest.segs, UNCHANGED manifest PROVE MemoryOK'
  BY <1>c DEF MemoryOK
<1>d. ASSUME NEW p \in Payload, NEW op, WriteSegment(p, op),
             UNCHANGED <<opened, segments, manifest, unread>>
      PROVE  MemoryOK'
  <2>2. ASSUME NEW d \in Doc, NEW ids \in Seq(DOMAIN payload)
        PROVE  /\ Newest(payload', ids, d) = Newest(payload, ids, d)
               /\ \A t \in Term : NewestPosting(payload', ids, t, d) = NewestPosting(payload, ids, t, d)
    BY <1>d, WriteKeepsAnswers
  <2> QED BY <1>a, <1>d, <2>2 DEF MemoryOK
<1> USE DEF disk, history, Idle
<1>1. CASE Open \/ Load \/ CompactReloads
  BY <1>1, <1>c DEF Open, Load, CompactReloads
<1>2. CASE Clear
  BY <1>2 DEF Clear
<1>3. ASSUME NEW d \in Doc, AddDocument(d) \/ RemoveDocument(d) PROVE MemoryOK'
  BY <1>3, <1>b DEF AddDocument, RemoveDocument
<1>4. CASE FlushSegment \/ CompactFlushes \/ MergeSome \/ MergeDeletes \/ MergeDeleteFails
  BY <1>4, <1>b DEF FlushSegment, CompactFlushes, MergeSome, MergeDeletes, MergeDeleteFails
<1>5. CASE \/ MergeReturns \/ CompactMerges \/ CompactThrows \/ Recover \/ FileOperationThrows
           \/ UNCHANGED vars
  BY <1>5, <1>b DEF MergeReturns, CompactMerges, CompactThrows, Recover, FileOperationThrows, vars
<1>6. CASE FlushWrites
  <2> DEFINE p == FlushedPayload(call.docs)
  <2>1. p \in Payload
    BY <1>a, FlushedPayloadType
  <2>2. WriteSegment(p, "flushed") /\ UNCHANGED <<opened, segments, manifest, unread>>
    BY <1>6 DEF FlushWrites, FlushedPayload
  <2> HIDE DEF p
  <2> QED BY <1>d, <2>1, <2>2
<1>7. CASE MergeWrites
  <2>1. WriteSegment(MergedPayload(call.ids), "merged") /\ UNCHANGED <<opened, segments, manifest, unread>>
    BY <1>7 DEF MergeWrites
  <2>2. MergedPayload(call.ids) \in Payload
    BY <1>a, MergedPayloadIs
  <2> QED BY <1>d, <2>1, <2>2
<1>8. CASE FlushPublishes
  <2>1. /\ call.new \in DOMAIN payload /\ UNCHANGED <<opened, payload, unread>>
        /\ segments' = Append(segments, call.new)
        /\ manifest'.segs = Append(manifest.segs, call.new)
    BY <1>8 DEF FlushPublishes, Typed, CallOK
  <2>2. ASSUME NEW d \in Doc, NEW ids \in Seq(DOMAIN payload)
        PROVE  /\ Newest(payload, Append(ids, call.new), d)
                    = IF LastVersion(payload[call.new].docs, d) # 0
                      THEN LastVersion(payload[call.new].docs, d) ELSE Newest(payload, ids, d)
               /\ \A t \in Term :
                    NewestPosting(payload, Append(ids, call.new), t, d)
                      = IF payload[call.new].post[<<t, d>>] # 0
                        THEN payload[call.new].post[<<t, d>>] ELSE NewestPosting(payload, ids, t, d)
    BY <1>a, <2>1, NewestOfAppended
  <2>3. ASSUME opened, NEW d \in Doc \ unread
        PROVE  /\ Newest(payload, segments', d) = Newest(payload, manifest'.segs, d)
               /\ \A t \in Term : NewestPosting(payload, segments', t, d)
                                    = NewestPosting(payload, manifest'.segs, t, d)
    <3>1. /\ Newest(payload, segments, d) = Newest(payload, manifest.segs, d)
          /\ \A t \in Term : NewestPosting(payload, segments, t, d)
                               = NewestPosting(payload, manifest.segs, t, d)
      BY <2>3 DEF MemoryOK
    <3> QED BY <1>a, <2>1, <2>2, <3>1
  <2> QED BY <2>1, <2>3 DEF MemoryOK
<1>11. CASE FlushUnread
  <2>1. /\ call.op = "flushed" /\ call.new \in DOMAIN payload /\ UNCHANGED <<opened, payload, segments>>
        /\ manifest'.segs = Append(manifest.segs, call.new)
        /\ unread' = unread \cup {call.docs[i].doc : i \in DOMAIN call.docs}
        /\ payload[call.new].docs = call.docs /\ Posted(payload[call.new])
    BY <1>11 DEF FlushUnread, Typed, CallOK, ContentsOK
  <2>2. ASSUME NEW d \in Doc \ unread'
        PROVE  /\ d \in Doc \ unread
               /\ Newest(payload, manifest'.segs, d) = Newest(payload, manifest.segs, d)
               /\ \A t \in Term : NewestPosting(payload, manifest'.segs, t, d)
                                    = NewestPosting(payload, manifest.segs, t, d)
    <3>1. LastVersion(call.docs, d) = 0
      <4>1. \A i \in DOMAIN call.docs : call.docs[i].doc # d
        BY <2>1
      <4> QED BY <4>1 DEF LastVersion
    <3>2. \A t \in Term : payload[call.new].post[<<t, d>>] = 0
      BY <2>1, <3>1 DEF Posted
    <3>3. /\ Newest(payload, Append(manifest.segs, call.new), d)
               = IF LastVersion(payload[call.new].docs, d) # 0
                 THEN LastVersion(payload[call.new].docs, d) ELSE Newest(payload, manifest.segs, d)
          /\ \A t \in Term :
               NewestPosting(payload, Append(manifest.segs, call.new), t, d)
                 = IF payload[call.new].post[<<t, d>>] # 0
                   THEN payload[call.new].post[<<t, d>>]
                   ELSE NewestPosting(payload, manifest.segs, t, d)
      BY <1>a, <2>1, NewestOfAppended
    <3> QED BY <2>1, <3>1, <3>2, <3>3
  <2> QED BY <2>1, <2>2 DEF MemoryOK
<1>9. CASE MergePromotes
  <2>1. UNCHANGED <<opened, payload, segments, unread>>
    BY <1>9 DEF MergePromotes
  <2> QED BY <1>9, <2>1, PromotionKeepsAnswers DEF MemoryOK
<1>10. CASE Crash
  BY <1>10 DEF Crash, MemoryOK
<1> QED BY <1>1, <1>2, <1>3, <1>4, <1>5, <1>6, <1>7, <1>8, <1>9, <1>10, <1>11 DEF Next

(***************************************************************************)
(* The order of the versions.                                              *)
(***************************************************************************)

\* Every document of one list is one of another, at a place in the same order.
LEMMA SortedRemoved ==
  ASSUME NEW docs \in Seq(Version), NEW k \in DOMAIN docs, Sorted(docs)
  PROVE  /\ Sorted(RemoveAt(docs, k))
         /\ \A more : Before(more, docs) => Before(more, RemoveAt(docs, k))
<1> DEFINE r == RemoveAt(docs, k)
           at(i) == IF i < k THEN i ELSE i + 1
<1>1. /\ Len(docs) \in Nat /\ DOMAIN docs = 1..Len(docs) /\ DOMAIN r = 1..(Len(docs) - 1)
      /\ \A i \in DOMAIN r : r[i] = IF i < k THEN docs[i] ELSE docs[i + 1]
  BY RemoveAtIs
<1> HIDE DEF r
<1>2. \A i \in DOMAIN r : at(i) \in DOMAIN docs /\ r[i] = docs[at(i)]
  BY <1>1
<1>3. \A i, j \in DOMAIN r : i < j => at(i) < at(j)
  BY <1>1
<1> HIDE DEF at
<1>4. Sorted(r)
  BY <1>2, <1>3 DEF Sorted
<1>5. \A more : Before(more, docs) => Before(more, r)
  BY <1>2 DEF Before
<1> QED BY <1>4, <1>5 DEF r

LEMMA OrderStep ==
  ~PartialMerges /\ Typed /\ ContentsOK /\ AllRecorded /\ MergesAll /\ VersionsInOrder /\ [Next]_vars
    => VersionsInOrder'
<1> SUFFICES ASSUME ~PartialMerges, Typed, ContentsOK, AllRecorded, MergesAll, VersionsInOrder,
                    [Next]_vars
             PROVE  VersionsInOrder'
  OBVIOUS
<1>a. /\ payload \in Seq(Payload) /\ manifest.segs \in Seq(DOMAIN payload)
      /\ call.ids \in Seq(DOMAIN payload) /\ call.docs \in Seq(Version) /\ buffer \in Seq(Version)
      /\ added \in [Doc -> 0..MaxVer]
      /\ call = [op |-> call.op, docs |-> call.docs, ids |-> call.ids, new |-> call.new,
                 compact |-> call.compact]
  BY DEF Typed, TypeOK, SegmentsWritten
<1>b. /\ ToSet(manifest.segs) \subseteq DOMAIN payload
      /\ \A s \in DOMAIN payload : payload[s].docs \in Seq(Version)
  <2>1. \A s \in DOMAIN payload : payload[s] \in Payload
    BY <1>a
  <2>2. ToSet(manifest.segs) \subseteq DOMAIN payload
    BY <1>a DEF ToSet
  <2> QED BY <2>1, <2>2 DEF Payload
<1>c. Sorted(<<>>) /\ \A docs : Before(docs, <<>>)
  BY DEF Sorted, Before
<1>d. /\ Sorted(buffer) /\ Sorted(call.docs)
      /\ \A s \in ToSet(manifest.segs) :
           /\ Before(payload[s].docs, buffer)
           /\ call.op \in {"flush", "flushed"} => Before(payload[s].docs, call.docs)
  BY DEF VersionsInOrder
\* The steps that leave the segments alone.
<1>e. ASSUME UNCHANGED <<payload, manifest>>,
             Sorted(buffer') /\ Sorted(call'.docs),
             \A s \in ToSet(manifest.segs) :
               /\ Before(payload[s].docs, buffer')
               /\ call'.op \in {"flush", "flushed"} => Before(payload[s].docs, call'.docs),
             call'.op = "merged" => UNCHANGED call
      PROVE  VersionsInOrder'
  BY <1>e DEF VersionsInOrder, Sorted, Before
\* The steps that write one.
<1>f. ASSUME NEW p \in Payload, NEW op, WriteSegment(p, op), Sorted(p.docs),
             \/ op = "flushed" /\ call.op = "flush"
             \/ op = "merged" /\ \A i \in DOMAIN p.docs :
                  \E s \in ToSet(call.ids) : \E j \in DOMAIN payload[s].docs :
                    payload[s].docs[j] = p.docs[i],
             UNCHANGED <<buffer, manifest>>
      PROVE  VersionsInOrder'
  <2>1. /\ DOMAIN payload' = DOMAIN payload \cup {NextSeg}
        /\ payload'[NextSeg] = p /\ \A s \in DOMAIN payload : payload'[s] = payload[s]
        /\ call' = [call EXCEPT !.op = op, !.new = NextSeg]
    BY <1>f, WriteSegmentAdds
  <2>2. call'.docs = call.docs /\ call'.op = op /\ call'.new = NextSeg /\ call'.ids = call.ids
    BY <1>a, <2>1
  <2>3. \A s \in DOMAIN payload' : Sorted(payload'[s].docs)
    BY <1>f, <2>1 DEF VersionsInOrder
  <2>4. \A i \in DOMAIN manifest.segs : payload'[manifest.segs[i]] = payload[manifest.segs[i]]
    BY <1>a, <2>1
  <2>5. \A s \in ToSet(manifest.segs) : payload'[s] = payload[s]
    BY <1>b, <2>1
  <2>6. \A s \in ToSet(call.ids) : payload'[s] = payload[s]
    BY <1>a, <2>1 DEF ToSet
  <2>7. /\ Sorted(buffer') /\ Sorted(call'.docs)
        /\ \A s \in ToSet(manifest.segs) :
             /\ Before(payload'[s].docs, buffer')
             /\ call'.op \in {"flush", "flushed"} => Before(payload'[s].docs, call'.docs)
    BY <1>d, <1>f, <2>2, <2>5
  <2>8. \A i, j \in DOMAIN manifest.segs :
          i < j => Before(payload'[manifest.segs[i]].docs, payload'[manifest.segs[j]].docs)
    BY <2>4 DEF VersionsInOrder
  <2>9. call'.op = "merged" =>
          \A i \in DOMAIN payload'[call'.new].docs :
            \E s \in ToSet(call'.ids) : \E j \in DOMAIN payload'[s].docs :
              payload'[s].docs[j] = payload'[call'.new].docs[i]
    BY <1>f, <2>1, <2>2, <2>6
  <2> QED BY <1>f, <2>3, <2>7, <2>8, <2>9 DEF VersionsInOrder, Sorted, Before
<1> USE DEF disk, history, Idle
<1>1. CASE Open \/ Load \/ Clear \/ CompactReloads
  <2>1. UNCHANGED <<payload, manifest, call>> /\ buffer' = <<>>
    BY <1>1 DEF Open, Load, Clear, CompactReloads
  <2> QED BY <1>c, <1>d, <1>e, <2>1
<1>2. ASSUME NEW d \in Doc, AddDocument(d) PROVE VersionsInOrder'
  <2> DEFINE new == [doc |-> d, ver |-> added[d] + 1]
             docs == Append(buffer, new)
  <2>1. /\ UNCHANGED <<payload, manifest>> /\ call.op = "none"
        /\ \/ buffer' = <<>> /\ call'.docs = docs /\ call'.op = "flush"
           \/ buffer' = docs /\ UNCHANGED call
    <3>1. \/ buffer' = <<>> /\ call' = Flushing(docs)
          \/ buffer' = docs /\ UNCHANGED call
      BY <1>2 DEF AddDocument
    <3>2. Flushing(docs).docs = docs /\ Flushing(docs).op = "flush"
      BY DEF Flushing, NoCall
    <3> HIDE DEF docs
    <3> QED BY <1>2, <3>1, <3>2 DEF AddDocument
  <2>2. added[d] + 1 \in 1..MaxVer
    BY <1>2, <1>a, ConstantsAssumption DEF AddDocument
  <2>3. /\ Len(buffer) \in Nat /\ DOMAIN buffer = 1..Len(buffer)
        /\ DOMAIN docs = 1..(Len(buffer) + 1)
        /\ docs[Len(buffer) + 1] = new /\ \A i \in DOMAIN buffer : docs[i] = buffer[i]
    <3>1. new \in Version
      BY <2>2 DEF Version
    <3> QED BY <1>a, <3>1
  <2> HIDE DEF docs
  <2>4. ASSUME NEW l \in Seq(Version), Recorded(l), NEW i \in DOMAIN l, l[i].doc = d
        PROVE  l[i].ver < added[d] + 1
    <3>1. l[i] \in Version
      OBVIOUS
    <3>2. l[i].ver \in Int /\ l[i].ver <= added[d]
      BY <2>4, <3>1, ConstantsAssumption DEF Version, Recorded
    <3> QED BY <2>2, <3>2, <1>a, ConstantsAssumption, SMTT(30)
  <2>5. \A i \in DOMAIN docs : i \in DOMAIN buffer \/ i = Len(buffer) + 1
    BY <2>3
  <2>6. Sorted(docs)
    <3>1. ASSUME NEW i \in DOMAIN docs, NEW j \in DOMAIN docs, i < j, docs[i].doc = docs[j].doc
          PROVE  docs[i].ver < docs[j].ver
      <4>1. i \in DOMAIN buffer
        BY <2>3, <3>1
      <4>2. CASE j \in DOMAIN buffer
        BY <1>d, <2>3, <3>1, <4>1, <4>2 DEF Sorted
      <4>3. CASE j = Len(buffer) + 1
        <5>1. docs[i] = buffer[i] /\ docs[j] = new /\ buffer[i].doc = d
          BY <2>3, <3>1, <4>1, <4>3
        <5>2. buffer[i].ver < added[d] + 1
          BY <1>a, <2>4, <4>1, <5>1 DEF AllRecorded
        <5> QED BY <5>1, <5>2
      <4> QED BY <2>5, <4>2, <4>3
    <3> QED BY <3>1 DEF Sorted
  <2>7. ASSUME NEW s \in ToSet(manifest.segs) PROVE Before(payload[s].docs, docs)
    <3>1. payload[s].docs \in Seq(Version) /\ Recorded(payload[s].docs)
      BY <1>b DEF AllRecorded
    <3>2. ASSUME NEW i \in DOMAIN payload[s].docs, NEW j \in DOMAIN docs,
                 payload[s].docs[i].doc = docs[j].doc
          PROVE  payload[s].docs[i].ver < docs[j].ver
      <4>1. CASE j \in DOMAIN buffer
        BY <1>d, <2>3, <3>2, <4>1 DEF Before
      <4>2. CASE j = Len(buffer) + 1
        <5>1. docs[j] = new
          BY <2>3, <4>2
        <5>2. payload[s].docs[i].doc = d
          BY <3>2, <5>1
        <5> QED BY <2>4, <3>1, <5>1, <5>2
      <4> QED BY <2>5, <4>1, <4>2
    <3> QED BY <3>2 DEF Before
  <2>8. CASE buffer' = <<>> /\ call'.docs = docs /\ call'.op = "flush"
    BY <1>c, <1>e, <2>1, <2>6, <2>7, <2>8
  <2>9. CASE buffer' = docs /\ UNCHANGED call
    BY <1>d, <1>e, <2>1, <2>6, <2>7, <2>9
  <2> QED BY <2>1, <2>8, <2>9
<1>3. ASSUME NEW d \in Doc, RemoveDocument(d) PROVE VersionsInOrder'
  <2> DEFINE k == Min({i \in DOMAIN buffer : buffer[i].doc = d})
  <2>1. /\ buffer' = RemoveAt(buffer, k) /\ k \in DOMAIN buffer
        /\ UNCHANGED <<payload, manifest, call>>
    BY <1>3, <1>a, FirstPosition DEF RemoveDocument
  <2> HIDE DEF k
  <2>2. Sorted(buffer') /\ \A s \in ToSet(manifest.segs) : Before(payload[s].docs, buffer')
    BY <1>a, <1>d, <2>1, SortedRemoved
  <2> QED BY <1>d, <1>e, <2>1, <2>2
<1>4. CASE FlushSegment \/ CompactFlushes
  <2>1. /\ UNCHANGED <<payload, manifest>>
        /\ \/ buffer' = <<>> /\ call'.docs = buffer /\ call'.op = "flush"
           \/ UNCHANGED <<buffer, call>>
    BY <1>4 DEF FlushSegment, CompactFlushes, ForCompact, Flushing, NoCall
  <2> QED BY <1>c, <1>d, <1>e, <2>1
<1>5. CASE FlushWrites
  <2> DEFINE p == FlushedPayload(call.docs)
  <2>1. p \in Payload /\ p.docs = call.docs
    BY <1>a, FlushedPayloadType DEF FlushedPayload
  <2>2. WriteSegment(p, "flushed") /\ call.op = "flush" /\ UNCHANGED <<buffer, manifest>>
    BY <1>5 DEF FlushWrites, FlushedPayload
  <2> HIDE DEF p
  <2> QED BY <1>d, <1>f, <2>1, <2>2
<1>6. CASE MergeWrites
  <2> DEFINE p == MergedPayload(call.ids)
  <2>1. WriteSegment(p, "merged") /\ UNCHANGED <<buffer, manifest>>
    BY <1>6 DEF MergeWrites
  <2>2. /\ p \in Payload
        /\ \A i, j \in DOMAIN p.docs : p.docs[i].doc = p.docs[j].doc => i = j
        /\ \A i \in DOMAIN p.docs : /\ p.docs[i].ver = Newest(payload, call.ids, p.docs[i].doc)
                                    /\ p.docs[i].ver # 0
    BY <1>a, MergedPayloadIs
  <2> HIDE DEF p
  <2>3. p.docs \in Seq(Version)
    BY <2>2 DEF Payload
  <2>4. \A i \in DOMAIN p.docs : i \in Int /\ p.docs[i] \in Version
    <3>1. DOMAIN p.docs = 1..Len(p.docs) /\ Len(p.docs) \in Nat
      BY <2>3
    <3> QED BY <2>3, <3>1
  <2>5. Sorted(p.docs)
    BY <2>2, <2>4 DEF Sorted
  <2>6. ASSUME NEW i \in DOMAIN p.docs
        PROVE  \E s \in ToSet(call.ids) : \E j \in DOMAIN payload[s].docs :
                 payload[s].docs[j] = p.docs[i]
    <3> DEFINE d == p.docs[i].doc
    <3>0. Newest(payload, call.ids, d) = p.docs[i].ver /\ Newest(payload, call.ids, d) # 0
      BY <2>2
    <3>1. PICK s \in ToSet(call.ids) : \E j \in DOMAIN payload[s].docs :
            /\ payload[s].docs[j].doc = p.docs[i].doc
            /\ payload[s].docs[j].ver = p.docs[i].ver
      <4> HIDE DEF d
      <4>1. \E s \in ToSet(call.ids) : \E j \in DOMAIN payload[s].docs :
              payload[s].docs[j].doc = d /\ payload[s].docs[j].ver = Newest(payload, call.ids, d)
        BY <1>a, <3>0, NewestHeld, ZenonT(40)
      <4> QED BY <3>0, <4>1 DEF d
    <3>2. PICK j \in DOMAIN payload[s].docs :
            /\ payload[s].docs[j].doc = p.docs[i].doc
            /\ payload[s].docs[j].ver = p.docs[i].ver
      BY <3>1
    <3>3. s \in DOMAIN payload
      BY <1>a DEF ToSet
    <3>4. payload[s].docs[j] \in Version
      BY <1>b, <3>2, <3>3
    <3>5. payload[s].docs[j] = p.docs[i]
      BY <2>4, <3>2, <3>4 DEF Version
    <3> QED BY <3>5
  <2> QED BY <1>f, <2>1, <2>2, <2>5, <2>6
<1>7. CASE FlushPublishes \/ FlushUnread
  <2>1. /\ call.op = "flushed" /\ buffer = <<>> /\ UNCHANGED <<buffer, payload>>
        /\ call'.op = "none" /\ call'.docs = <<>>
        /\ manifest'.segs = Append(manifest.segs, call.new)
        /\ call.new \in DOMAIN payload /\ payload[call.new].docs = call.docs
    BY <1>7 DEF FlushPublishes, FlushUnread, NoCall, Typed, CallOK, ContentsOK
  <2>2. /\ Len(manifest.segs) \in Nat /\ DOMAIN manifest.segs = 1..Len(manifest.segs)
        /\ DOMAIN manifest'.segs = 1..(Len(manifest.segs) + 1)
        /\ manifest'.segs[Len(manifest.segs) + 1] = call.new
        /\ \A i \in DOMAIN manifest.segs : manifest'.segs[i] = manifest.segs[i]
    BY <1>a, <2>1
  <2>3. ASSUME NEW i \in DOMAIN manifest'.segs, NEW j \in DOMAIN manifest'.segs, i < j
        PROVE  Before(payload[manifest'.segs[i]].docs, payload[manifest'.segs[j]].docs)
    <3>1. i \in DOMAIN manifest.segs /\ (j \in DOMAIN manifest.segs \/ j = Len(manifest.segs) + 1)
      BY <2>2, <2>3
    <3>2. manifest.segs[i] \in ToSet(manifest.segs)
      BY <3>1 DEF ToSet
    <3>3. CASE j \in DOMAIN manifest.segs
      BY <2>2, <2>3, <3>1, <3>3 DEF VersionsInOrder
    <3>4. CASE j = Len(manifest.segs) + 1
      <4>1. manifest'.segs[j] = call.new /\ manifest'.segs[i] = manifest.segs[i]
        BY <2>2, <3>1, <3>4
      <4>2. Before(payload[manifest.segs[i]].docs, call.docs)
        BY <1>d, <2>1, <3>2
      <4> QED BY <2>1, <4>1, <4>2
    <3> QED BY <3>1, <3>3, <3>4
  <2>4. /\ Sorted(buffer') /\ Sorted(call'.docs)
        /\ \A s \in DOMAIN payload' : Sorted(payload'[s].docs)
        /\ \A s \in ToSet(manifest'.segs) : Before(payload'[s].docs, buffer')
        /\ call'.op = "none"
    BY <1>c, <1>d, <2>1 DEF VersionsInOrder
  <2>5. \A i, j \in DOMAIN manifest'.segs :
          i < j => Before(payload'[manifest'.segs[i]].docs, payload'[manifest'.segs[j]].docs)
    BY <2>1, <2>3
  <2> QED BY <2>4, <2>5 DEF VersionsInOrder, Sorted, Before
<1>8. CASE MergePromotes
  <2>1. manifest'.segs = <<call.new>> /\ call.op = "merged" /\ call.ids = manifest.segs
    BY <1>8, PromotionKeepsAnswers DEF MergesAll, MergePromotes
  <2>2. call'.op = "promoted" /\ call'.docs = call.docs /\ UNCHANGED <<buffer, payload>>
    BY <1>8, <1>a DEF MergePromotes
  <2>3. Before(payload[call.new].docs, buffer)
    <3>1. ASSUME NEW i \in DOMAIN payload[call.new].docs, NEW j \in DOMAIN buffer,
                 payload[call.new].docs[i].doc = buffer[j].doc
          PROVE  payload[call.new].docs[i].ver < buffer[j].ver
      <4>1. PICK s \in ToSet(manifest.segs) : \E k \in DOMAIN payload[s].docs :
              payload[s].docs[k] = payload[call.new].docs[i]
        BY <2>1, <3>1 DEF VersionsInOrder
      <4> QED BY <1>d, <3>1, <4>1 DEF Before
    <3> QED BY <3>1 DEF Before
  <2>4. /\ \A i, j \in DOMAIN manifest'.segs : ~ (i < j)
        /\ ToSet(manifest'.segs) = {call.new}
    BY <2>1 DEF ToSet
  <2> QED BY <1>d, <2>2, <2>3, <2>4 DEF VersionsInOrder, Sorted, Before
<1>9. CASE MergeSome
  BY <1>9 DEF MergeSome
<1>10. CASE MergeDeletes \/ MergeDeleteFails
  <2>1. /\ UNCHANGED <<payload, manifest, buffer>>
        /\ call'.docs = call.docs /\ call'.op = "promoted"
    BY <1>10, <1>a DEF MergeDeletes, MergeDeleteFails
  <2> QED BY <1>d, <1>e, <2>1
<1>11. CASE MergeReturns \/ FileOperationThrows
  <2>1. UNCHANGED <<payload, manifest, buffer>> /\ call'.docs = <<>> /\ call'.op = "none"
    BY <1>11 DEF MergeReturns, FileOperationThrows, NoCall
  <2> QED BY <1>c, <1>d, <1>e, <2>1
<1>12. CASE CompactMerges
  <2>1. /\ UNCHANGED <<payload, manifest, buffer>>
        /\ UNCHANGED call \/ (call'.docs = <<>> /\ call'.op = "merge")
    BY <1>12 DEF CompactMerges, Merging, ForCompact, NoCall
  <2> QED BY <1>c, <1>d, <1>e, <2>1
<1>13. CASE Crash
  <2>1. UNCHANGED <<payload, manifest>> /\ buffer' = <<>> /\ call'.docs = <<>> /\ call'.op = "none"
    BY <1>13 DEF Crash, NoCall
  <2> QED BY <1>c, <1>d, <1>e, <2>1
<1>14. CASE Recover \/ CompactThrows \/ UNCHANGED vars
  <2>1. UNCHANGED <<payload, manifest, buffer, call>>
    BY <1>14 DEF Recover, CompactThrows, vars
  <2> QED BY <1>d, <1>e, <2>1
<1> QED BY <1>1, <1>2, <1>3, <1>4, <1>5, <1>6, <1>7, <1>8, <1>9, <1>10, <1>11, <1>12, <1>13,
           <1>14 DEF Next

(***************************************************************************)
(* The theorems.                                                           *)
(***************************************************************************)

LEMMA InitInvariant == Init => IInv /\ MergesAll /\ VersionsInOrder /\ MemoryOK
<1> SUFFICES ASSUME Init PROVE IInv /\ MergesAll /\ VersionsInOrder /\ MemoryOK
  OBVIOUS
<1>1. Typed
  BY InitTyped
<1>2. /\ call = NoCall /\ call.op = "none" /\ call.docs = <<>> /\ payload = <<>> /\ buffer = <<>>
      /\ manifest.segs = <<>> /\ files = {} /\ ~opened
      /\ DOMAIN payload = {} /\ ToSet(manifest.segs) = {}
  BY DEF Init, NoCall, ToSet
<1>3. FilesOK
  BY <1>2 DEF FilesOK, ManifestSegmentsExist
<1>4. ContentsOK /\ AllRecorded
  BY <1>2 DEF ContentsOK, AllRecorded, Recorded
<1>5. MergesAll /\ VersionsInOrder /\ MemoryOK
  BY <1>2 DEF MergesAll, VersionsInOrder, Sorted, Before, MemoryOK
<1> QED BY <1>1, <1>3, <1>4, <1>5 DEF IInv, Typed

LEMMA InvariantStep == IInv /\ [Next]_vars => IInv'
<1> SUFFICES ASSUME IInv, [Next]_vars PROVE IInv'
  OBVIOUS
<1>1. Typed /\ FilesOK /\ ContentsOK /\ AllRecorded
  BY DEF IInv, Typed
<1>2. Typed' /\ FilesOK' /\ ContentsOK' /\ AllRecorded'
  BY <1>1, TypedStep, FilesStep, ContentsStep, RecordedStep
<1> QED BY <1>2 DEF IInv, Typed

(* The inductive invariant holds in every reachable state, whatever crashes *)
(* and whatever file operation throws.                                      *)
THEOREM Invariance == Spec => []IInv
<1>1. Init => IInv
  BY InitInvariant
<1> QED BY <1>1, InvariantStep, PTL DEF Spec

(* Every variable keeps its type: no flush, merge or crash leaves a segment  *)
(* list, a posting or a version outside its range.                           *)
THEOREM TypeCorrect == Spec => []TypeOK
<1>1. IInv => TypeOK
  BY DEF IInv
<1> QED BY <1>1, Invariance, PTL

(* The manifest only names segment files that are on disk, so that a restart *)
(* always loads; and only an interrupted call leaves a file behind it.       *)
THEOREM FilesGoWithTheManifest == Spec => []FilesFollowManifest
<1>1. ASSUME IInv PROVE FilesFollowManifest
  <2>1. ManifestSegmentsExist
    BY <1>1 DEF IInv, FilesOK
  <2>2. ASSUME Idle, crashes = 0, errors = 0 PROVE files = ToSet(manifest.segs)
    <3>1. files \subseteq ToSet(manifest.segs) \cup Leftover /\ Leftover = {}
      BY <1>1, <2>2 DEF IInv, FilesOK, Leftover, Idle
    <3> QED BY <2>1, <3>1 DEF ManifestSegmentsExist
  <2> QED BY <2>1, <2>2 DEF FilesFollowManifest, OrphansOnlyAfterFailures
<1> QED BY <1>1, Invariance, PTL

LEMMA MaxIs ==
  ASSUME NEW S \in SUBSET Int, NEW w \in S, \A x \in S : x <= w
  PROVE  Max(S) = w
<1>1. Max(S) = CHOOSE x \in S : \A y \in S : x >= y
  BY DEF Max
<1>2. \A y \in S : w >= y
  OBVIOUS
<1>3. \A x \in S : (\A y \in S : x >= y) => x = w
  OBVIOUS
<1> QED BY <1>1, <1>2, <1>3

(* In a list in order, the last version of a document is its newest. *)
LEMMA LastIsNewest ==
  ASSUME NEW docs \in Seq(Version), Sorted(docs), NEW j \in DOMAIN docs
  PROVE  LastVersion(docs, docs[j].doc) >= docs[j].ver
<1> DEFINE d == docs[j].doc
<1>1. \A i \in DOMAIN docs : i \in Int /\ docs[i] \in Version
  <2>1. Len(docs) \in Nat /\ DOMAIN docs = 1..Len(docs)
    OBVIOUS
  <2> QED BY <2>1
<1>2. LastOne(docs, d)
  BY LastVersionIs
<1>3. \A i \in DOMAIN docs : docs[i].ver \in Int
  BY <1>1, ConstantsAssumption DEF Version
<1>4. PICK m \in DOMAIN docs : /\ docs[m].doc = d /\ LastVersion(docs, d) = docs[m].ver
                               /\ \A i \in DOMAIN docs : docs[i].doc = d => i <= m
  BY <1>2 DEF LastOne
<1>5. j < m \/ j = m
  BY <1>1, <1>4
<1> QED BY <1>3, <1>4, <1>5 DEF Sorted

(* While every merge is one of compact, what a reload brings back is the     *)
(* newest version that any active segment holds: compaction cannot bring an  *)
(* older version of a document back.                                         *)
THEOREM ReloadsBringTheNewest ==
  ASSUME ~PartialMerges
  PROVE  Spec => []NewestVersionWins
<1> DEFINE Inv == IInv /\ MergesAll /\ VersionsInOrder
<1>1. Init => Inv
  BY InitInvariant
<1>2. Inv /\ [Next]_vars => Inv'
  BY InvariantStep, MergesAllStep, OrderStep DEF IInv, Typed
<1>3. ASSUME Inv, NEW d \in Doc
      PROVE  InSegments(manifest.segs, d) = Max(VersionsIn(manifest.segs, d) \cup {0})
  <2> DEFINE ids == manifest.segs
             S == VersionsIn(ids, d) \cup {0}
             w == Newest(payload, ids, d)
  <2>1. /\ payload \in Seq(Payload) /\ ids \in Seq(DOMAIN payload) /\ MaxVer \in Nat
        /\ \A s \in DOMAIN payload : Sorted(payload[s].docs)
        /\ \A i, j \in DOMAIN ids : i < j => Before(payload[ids[i]].docs, payload[ids[j]].docs)
    BY <1>3, ConstantsAssumption DEF IInv, TypeOK, SegmentsWritten, VersionsInOrder
  <2>2. S \in SUBSET Int
    BY <2>1 DEF VersionsIn
  <2> HIDE DEF ids
  <2>3. NewestOne(payload, ids, d)
    BY <2>1, NewestIs
  <2>4. \A i \in DOMAIN ids : /\ i \in Int /\ ids[i] \in DOMAIN payload
                              /\ payload[ids[i]].docs \in Seq(Version)
    <3>1. Len(ids) \in Nat /\ DOMAIN ids = 1..Len(ids)
      BY <2>1
    <3>2. \A i \in DOMAIN ids : payload[ids[i]] \in Payload
      BY <2>1
    <3> QED BY <2>1, <3>1, <3>2 DEF Payload
  <2>5. w \in 0..MaxVer
    BY <2>1, NewestType
  <2>6. w \in S
    <3>1. CASE w # 0
      <4>1. PICK s \in ToSet(ids) : \E j \in DOMAIN payload[s].docs :
              payload[s].docs[j].doc = d /\ payload[s].docs[j].ver = w
        BY <2>1, <3>1, NewestHeld
      <4>2. PICK j \in DOMAIN payload[s].docs :
              payload[s].docs[j].doc = d /\ payload[s].docs[j].ver = w
        BY <4>1
      <4>3. PICK i \in DOMAIN ids : ids[i] = s
        BY DEF ToSet
      <4>4. payload[ids[i]].docs[j] \in Version
        BY <2>4, <4>2, <4>3
      <4>5. payload[ids[i]].docs[j] = [doc |-> d, ver |-> w]
        BY <4>2, <4>3, <4>4 DEF Version
      <4>6. w \in 1..MaxVer /\ j \in DOMAIN payload[ids[i]].docs
        BY <2>1, <2>5, <3>1, <4>2, <4>3
      <4> HIDE DEF w
      <4> QED BY <4>5, <4>6 DEF VersionsIn
    <3> QED BY <3>1
  <2>7. ASSUME NEW v \in S PROVE v <= w
    <3>1. CASE v = 0
      BY <2>5, <3>1
    <3>2. CASE v # 0
      <4>1. v \in 1..MaxVer /\ \E i \in DOMAIN ids : \E j \in DOMAIN payload[ids[i]].docs :
              payload[ids[i]].docs[j] = [doc |-> d, ver |-> v]
        BY <2>7, <3>2 DEF VersionsIn
      <4>2. PICK i \in DOMAIN ids : \E j \in DOMAIN payload[ids[i]].docs :
              payload[ids[i]].docs[j] = [doc |-> d, ver |-> v]
        BY <4>1
      <4>3. PICK j \in DOMAIN payload[ids[i]].docs :
              payload[ids[i]].docs[j] = [doc |-> d, ver |-> v]
        BY <4>2
      <4> DEFINE docs == payload[ids[i]].docs
      <4>4. LastVersion(docs, d) >= v
        <5>1. docs \in Seq(Version) /\ Sorted(docs) /\ docs[j].doc = d /\ docs[j].ver = v
          BY <2>1, <2>4, <4>3
        <5> HIDE DEF docs
        <5> QED BY <4>3, <5>1, LastIsNewest DEF docs
      <4>5. LastVersion(docs, d) # 0
        <5>1. LastVersion(docs, d) \in 0..MaxVer
          BY <2>4, LastVersionType
        <5> QED BY <2>1, <4>1, <4>4, <5>1
      <4>6. PICK m \in DOMAIN ids : /\ w = LastVersion(payload[ids[m]].docs, d)
                                    /\ LastVersion(payload[ids[m]].docs, d) # 0
                                    /\ i <= m
        BY <2>3, <4>5 DEF NewestOne
      <4>7. CASE i = m
        BY <4>4, <4>6, <4>7, <2>1, <2>5, <4>1
      <4>8. CASE i # m
        <5>1. Before(docs, payload[ids[m]].docs)
          BY <2>1, <2>4, <4>6, <4>8
        <5>2. LastOne(payload[ids[m]].docs, d)
          BY <2>4, LastVersionIs
        <5>3. PICK k \in DOMAIN payload[ids[m]].docs :
                payload[ids[m]].docs[k].doc = d /\ payload[ids[m]].docs[k].ver = w
          BY <4>6, <5>2 DEF LastOne
        <5>4. docs[j].doc = d /\ docs[j].ver = v
          BY <4>3
        <5>5. v < w
          BY <4>3, <5>1, <5>3, <5>4 DEF Before
        <5> QED BY <2>5, <4>1, <5>5, ConstantsAssumption
      <4> QED BY <4>7, <4>8
    <3> QED BY <3>1, <3>2
  <2>8. Max(S) = w
    <3> HIDE DEF S, w
    <3> QED BY <2>2, <2>6, <2>7, MaxIs
  <2>9. InSegments(ids, d) = w
    BY ReadsPayload
  <2> QED BY <2>8, <2>9 DEF ids
<1>4. Inv => NewestVersionWins
  BY <1>3 DEF NewestVersionWins
<1> QED BY <1>1, <1>2, <1>4, PTL DEF Spec

(* The two lookups of one document agree whatever the state: only a segment   *)
(* that holds two versions of a document tells them apart.                    *)
LEMMA LookupsAgree ==
  ASSUME segments \in Seq(DOMAIN payload), NEW d \in Doc, ~Batched(d)
  PROVE  GetDocumentMeta(d) = GetAllDocumentMeta(d)
<1> DEFINE at == {i \in DOMAIN segments : LastVersion(payload[segments[i]].docs, d) # 0}
<1>1. \A s \in ToSet(segments) : FirstVersion(payload[s].docs, d) = LastVersion(payload[s].docs, d)
  BY DEF Batched
<1>2. at # {} => Max(at) \in DOMAIN segments
  <2>1. Len(segments) \in Nat /\ DOMAIN segments = 1..Len(segments)
    OBVIOUS
  <2>2. at \in SUBSET (1..Len(segments))
    BY <2>1
  <2> HIDE DEF at
  <2> QED BY <2>1, <2>2, MaxOfPositions
<1>3. at # {} => segments[Max(at)] \in ToSet(segments)
  <2> HIDE DEF at
  <2> QED BY <1>2 DEF ToSet
<1> QED BY <1>1, <1>3 DEF GetDocumentMeta, GetAllDocumentMeta, InSegments

(* While callers leave merging to compact and do not clear, all ways to read *)
(* agree: memory with disk, one document with all of them, by id and by term, *)
(* though a merge has replaced the segments under a reader that has not       *)
(* reloaded.                                                                  *)
THEOREM AllWaysToReadAgree ==
  ASSUME ~PartialMerges, ~MayClear
  PROVE  Spec => []ReadersAgree
<1> DEFINE Inv == IInv /\ MergesAll /\ MemoryOK
<1>1. Init => Inv
  BY InitInvariant
<1>2. Inv /\ [Next]_vars => Inv'
  BY InvariantStep, MergesAllStep, MemoryStep DEF IInv, Typed
<1>3. Inv => ReadersAgree
  <2> SUFFICES ASSUME Inv PROVE ReadersAgree
    OBVIOUS
  <2>1. /\ payload \in Seq(Payload) /\ segments \in Seq(DOMAIN payload)
        /\ buffer \in Seq(Version) /\ \A s \in DOMAIN payload : Posted(payload[s])
    BY DEF IInv, TypeOK, SegmentsWritten, ContentsOK
  <2>2. MemoryAgreesWithDisk
    BY ReadsPayload DEF MemoryAgreesWithDisk, MemoryOK
  <2>3. LookupsAgreeUnlessBatched
    BY <2>1, LookupsAgree DEF LookupsAgreeUnlessBatched
  <2>4. ASSUME NEW d \in Doc, GetAllDocumentMeta(d) # 0, NEW t \in Terms[<<d, GetAllDocumentMeta(d)>>]
        PROVE  GetPosting(t, d) = GetAllDocumentMeta(d)
    <3> DEFINE v == GetAllDocumentMeta(d)
               b == LastVersion(buffer, d)
               s == Newest(payload, segments, d)
    <3>1. v = (IF b # 0 THEN b ELSE s) /\ b \in 0..MaxVer /\ s \in 0..MaxVer
      BY <2>1, ReadsPayload, LastVersionType, NewestType DEF GetAllDocumentMeta
    <3>2. t \in Term
      <4>1. <<d, v>> \in Doc \X (1..MaxVer)
        BY <2>4, <3>1, ConstantsAssumption
      <4> HIDE DEF v
      <4>2. Terms[<<d, v>>] \subseteq Term
        BY <4>1, ConstantsAssumption
      <4> QED BY <2>4, <4>2 DEF v
    <3>3. /\ b # 0 /\ t \in Terms[<<d, b>>] => PostingIn(buffer, t, d) = b
          /\ b = 0 => PostingIn(buffer, t, d) = 0
      BY <2>1, <3>2, PostingInIs
    <3>4. s # 0 => \A u \in Terms[<<d, s>>] : NewestPosting(payload, segments, u, d) = s
      BY <2>1, FoundInSegments
    <3>5. PostingInSegments(segments, t, d) = NewestPosting(payload, segments, t, d)
      BY <3>2, ReadsPayload
    <3> HIDE DEF v, b, s
    <3> QED BY <2>4, <3>1, <3>3, <3>4, <3>5 DEF GetPosting, v
  <2>5. FoundByItsTerms
    BY <2>4 DEF FoundByItsTerms
  <2> QED BY <2>2, <2>3, <2>5 DEF ReadersAgree
<1> QED BY <1>1, <1>2, <1>3, PTL DEF Spec

(* A list of segments has a document when one of its segments has it. *)
LEMMA HasDocument ==
  ASSUME NEW pl \in Seq(Payload), NEW ids \in Seq(DOMAIN pl), NEW d
  PROVE  Newest(pl, ids, d) # 0 <=> \E s \in ToSet(ids) : LastVersion(pl[s].docs, d) # 0
<1>1. NewestOne(pl, ids, d)
  BY NewestIs
<1>2. ASSUME NEW s \in ToSet(ids), LastVersion(pl[s].docs, d) # 0 PROVE Newest(pl, ids, d) # 0
  <2>1. PICK i \in DOMAIN ids : ids[i] = s
    BY DEF ToSet
  <2> QED BY <1>1, <1>2, <2>1 DEF NewestOne
<1>3. ASSUME Newest(pl, ids, d) # 0
      PROVE  \E s \in ToSet(ids) : LastVersion(pl[s].docs, d) # 0
  <2>1. PICK m \in DOMAIN ids : LastVersion(pl[ids[m]].docs, d) # 0
    BY <1>1, <1>3 DEF NewestOne
  <2>2. ids[m] \in ToSet(ids)
    BY DEF ToSet
  <2> QED BY <2>1, <2>2
<1> QED BY <1>2, <1>3

(* Whatever is merged, cleared or interrupted, a document that a saved       *)
(* segment holds stays in the index: for every buffer size and any merges.   *)
THEOREM SavedDocumentsStay == Spec => DurableDocumentsStay
<1> DEFINE Has(d) == Newest(payload, manifest.segs, d) # 0
<1>1. ASSUME IInv, [Next]_vars, NEW d \in Doc, Has(d) PROVE Has(d)'
  <2>1. /\ payload \in Seq(Payload) /\ manifest.segs \in Seq(DOMAIN payload)
        /\ call.ids \in Seq(DOMAIN payload) /\ call.docs \in Seq(Version)
        /\ Typed /\ ContentsOK
    BY <1>1 DEF IInv, Typed, TypeOK, SegmentsWritten
  <2>2. ASSUME UNCHANGED <<payload, manifest>> PROVE Has(d)'
    BY <1>1, <2>2
  <2>3. ASSUME NEW p \in Payload, NEW op, WriteSegment(p, op), UNCHANGED manifest PROVE Has(d)'
    <3>1. Newest(payload', manifest.segs, d) = Newest(payload, manifest.segs, d)
      BY <2>1, <2>3, WriteKeepsAnswers
    <3> QED BY <1>1, <2>3, <3>1
  <2>4. CASE FlushWrites
    <3> DEFINE p == FlushedPayload(call.docs)
    <3>1. p \in Payload
      BY <2>1, FlushedPayloadType
    <3>2. WriteSegment(p, "flushed") /\ UNCHANGED manifest
      BY <2>4 DEF FlushWrites, FlushedPayload
    <3> HIDE DEF p
    <3> QED BY <2>3, <3>1, <3>2
  <2>5. CASE MergeWrites
    <3>1. WriteSegment(MergedPayload(call.ids), "merged") /\ UNCHANGED manifest
      BY <2>5 DEF MergeWrites
    <3>2. MergedPayload(call.ids) \in Payload
      BY <2>1, MergedPayloadIs
    <3> QED BY <2>3, <3>1, <3>2
  <2>6. CASE FlushPublishes \/ FlushUnread
    <3>1. /\ call.new \in DOMAIN payload /\ UNCHANGED payload
          /\ manifest'.segs = Append(manifest.segs, call.new)
      BY <2>1, <2>6 DEF FlushPublishes, FlushUnread, Typed, CallOK, disk
    <3>2. Newest(payload, Append(manifest.segs, call.new), d)
            = IF LastVersion(payload[call.new].docs, d) # 0
              THEN LastVersion(payload[call.new].docs, d) ELSE Newest(payload, manifest.segs, d)
      BY <2>1, <3>1, NewestOfAppended
    <3> QED BY <1>1, <3>1, <3>2
  <2>7. CASE MergePromotes
    <3> DEFINE rest == Without(manifest.segs, ToSet(call.ids))
    <3>1. /\ call.new \in DOMAIN payload /\ UNCHANGED payload
          /\ manifest'.segs = Append(rest, call.new)
          /\ LastVersion(payload[call.new].docs, d) = Newest(payload, call.ids, d)
      BY <2>1, <2>7 DEF MergePromotes, Typed, CallOK, ContentsOK, MergeOf
    <3>2. rest \in Seq(DOMAIN payload) /\ ToSet(rest) = ToSet(manifest.segs) \ ToSet(call.ids)
      BY <2>1, WithoutElements
    <3> HIDE DEF rest
    <3>3. Newest(payload, Append(rest, call.new), d)
            = IF LastVersion(payload[call.new].docs, d) # 0
              THEN LastVersion(payload[call.new].docs, d) ELSE Newest(payload, rest, d)
      BY <2>1, <3>1, <3>2, NewestOfAppended
    <3>4. PICK s \in ToSet(manifest.segs) : LastVersion(payload[s].docs, d) # 0
      BY <1>1, <2>1, HasDocument
    <3>5. CASE s \in ToSet(call.ids)
      <4>1. Newest(payload, call.ids, d) # 0
        BY <2>1, <3>4, <3>5, HasDocument
      <4> QED BY <3>1, <3>3, <4>1
    <3>6. CASE s \in ToSet(rest)
      <4>1. Newest(payload, rest, d) # 0
        BY <2>1, <3>2, <3>4, <3>6, HasDocument
      <4> QED BY <3>1, <3>3, <4>1
    <3> QED BY <3>2, <3>5, <3>6
  <2>8. CASE Open \/ Load \/ Clear \/ FlushSegment \/ CompactFlushes \/ CompactMerges
    BY <2>2, <2>8 DEF Open, Load, Clear, FlushSegment, CompactFlushes, CompactMerges, disk
  <2>9. ASSUME NEW e \in Doc, AddDocument(e) \/ RemoveDocument(e) PROVE Has(d)'
    BY <2>2, <2>9 DEF AddDocument, RemoveDocument, disk
  <2>10. CASE MergeSome \/ MergeDeletes \/ MergeDeleteFails \/ MergeReturns \/ CompactReloads
    BY <2>2, <2>10 DEF MergeSome, MergeDeletes, MergeDeleteFails, MergeReturns, CompactReloads, disk
  <2>11. CASE Recover \/ CompactThrows \/ FileOperationThrows \/ Crash \/ UNCHANGED vars
    BY <2>2, <2>11 DEF Recover, CompactThrows, FileOperationThrows, Crash, disk, vars
  <2> QED BY <1>1, <2>4, <2>5, <2>6, <2>7, <2>8, <2>9, <2>10, <2>11 DEF Next
<1>2. IInv /\ [Next]_vars =>
        [\A d \in Doc :
           InSegments(manifest.segs, d) # 0 => InSegments(manifest.segs, d)' # 0]_vars
  <2>1. \A d \in Doc : /\ InSegments(manifest.segs, d) = Newest(payload, manifest.segs, d)
                       /\ InSegments(manifest.segs, d)' = Newest(payload, manifest.segs, d)'
    BY DEF InSegments, Newest
  <2> QED BY <1>1, <2>1
<1> QED BY <1>2, Invariance, PTL DEF Spec, DurableDocumentsStay

(***************************************************************************)
(* The segmented index implements DurableIndex.                            *)
(***************************************************************************)

\* What is saved, what readers have of it, and what they see: the pending version of
\* a document, if it has one, and otherwise what they have.
OnDisk(d) == Newest(payload, manifest.segs, d)
Held(d) == IF opened THEN Newest(payload, segments, d) ELSE OnDisk(d)
Pending(d) == IF LastVersion(buffer, d) # 0 THEN LastVersion(buffer, d) ELSE LastVersion(InFlight, d)
Seen(d) == IF opened /\ Pending(d) # 0 THEN Pending(d) ELSE Held(d)

LEMMA VisibleIsSeen ==
  ASSUME NEW d \in Doc
  PROVE  /\ Visible(d) = Seen(d) /\ Visible(d)' = Seen(d)'
         /\ Loaded(d) = Held(d) /\ Loaded(d)' = Held(d)'
         /\ InSegments(manifest.segs, d) = OnDisk(d)
         /\ InSegments(manifest.segs, d)' = OnDisk(d)'
<1>1. InSegments(manifest.segs, d) = OnDisk(d) /\ InSegments(manifest.segs, d)' = OnDisk(d)'
  BY DEF InSegments, Newest, OnDisk
<1>2. /\ InSegments(segments, d) = Newest(payload, segments, d)
      /\ InSegments(segments, d)' = Newest(payload, segments, d)'
  BY DEF InSegments, Newest
<1>3. Loaded(d) = Held(d) /\ Loaded(d)' = Held(d)'
  BY <1>1, <1>2 DEF Loaded, Held
<1> QED BY <1>1, <1>3 DEF Visible, Seen, Pending

(* A document put at the end of a list is the one of its id that is read. *)
LEMMA LastVersionAppended ==
  ASSUME NEW docs \in Seq(Version), NEW new \in Version, NEW d
  PROVE  LastVersion(Append(docs, new), d) = IF d = new.doc THEN new.ver ELSE LastVersion(docs, d)
<1> DEFINE more == Append(docs, new)
<1>1. /\ more \in Seq(Version) /\ Len(docs) \in Nat
      /\ DOMAIN docs = 1..Len(docs) /\ DOMAIN more = 1..(Len(docs) + 1)
      /\ more[Len(docs) + 1] = new /\ \A i \in DOMAIN docs : more[i] = docs[i]
  OBVIOUS
<1> HIDE DEF more
<1> SUFFICES LastVersion(more, d) = IF d = new.doc THEN new.ver ELSE LastVersion(docs, d)
  BY DEF more
<1>2. /\ \A i \in DOMAIN more : i \in Int /\ i <= Len(docs) + 1
      /\ \A i \in DOMAIN more : i \in DOMAIN docs \/ i = Len(docs) + 1
      /\ Len(docs) + 1 \in DOMAIN more /\ DOMAIN docs \subseteq DOMAIN more
  BY <1>1
<1>3. LastOne(more, d) /\ LastOne(docs, d)
  BY <1>1, LastVersionIs
<1>4. CASE d = new.doc
  <2>1. PICK m \in DOMAIN more : /\ LastVersion(more, d) = more[m].ver
                                 /\ Len(docs) + 1 <= m
    BY <1>1, <1>2, <1>3, <1>4 DEF LastOne
  <2>2. m = Len(docs) + 1
    BY <1>1, <1>2, <2>1
  <2> QED BY <1>1, <1>4, <2>1, <2>2
<1>5. CASE d # new.doc
  <2>1. \A i \in DOMAIN more : more[i].doc = d => i \in DOMAIN docs /\ docs[i].doc = d
    BY <1>1, <1>2, <1>5
  <2>2. CASE \A i \in DOMAIN docs : docs[i].doc # d
    <3>1. LastVersion(docs, d) = 0
      BY <1>3, <2>2 DEF LastOne
    <3>2. LastVersion(more, d) = 0
      BY <1>3, <2>1, <2>2 DEF LastOne
    <3> QED BY <1>5, <3>1, <3>2
  <2>3. ASSUME NEW i \in DOMAIN docs, docs[i].doc = d
        PROVE  LastVersion(more, d) = LastVersion(docs, d)
    <3>1. PICK m \in DOMAIN docs : /\ docs[m].doc = d /\ LastVersion(docs, d) = docs[m].ver
                                   /\ \A k \in DOMAIN docs : docs[k].doc = d => k <= m
      BY <1>3, <2>3 DEF LastOne
    <3>2. m \in DOMAIN more /\ more[m].doc = d
      BY <1>1, <1>2, <3>1
    <3>3. PICK n \in DOMAIN more : /\ more[n].doc = d /\ LastVersion(more, d) = more[n].ver
                                   /\ m <= n
      BY <1>3, <3>2 DEF LastOne
    <3>4. n \in DOMAIN docs /\ n <= m /\ n \in Int /\ m \in Int
      BY <1>2, <2>1, <3>1, <3>2, <3>3
    <3>5. n = m
      BY <3>3, <3>4
    <3> QED BY <1>1, <3>1, <3>3, <3>5
  <2> QED BY <1>5, <2>2, <2>3
<1> QED BY <1>4, <1>5

(* Removing the first version of a document leaves what is read of the others, *)
(* and of it the same version or none.                                         *)
LEMMA LastVersionRemoved ==
  ASSUME NEW docs \in Seq(Version), NEW k \in DOMAIN docs,
         \A i \in DOMAIN docs : docs[i].doc = docs[k].doc => k <= i,
         NEW d
  PROVE  \/ LastVersion(RemoveAt(docs, k), d) = LastVersion(docs, d)
         \/ d = docs[k].doc /\ LastVersion(RemoveAt(docs, k), d) = 0
<1> DEFINE r == RemoveAt(docs, k)
           at(i) == IF i < k THEN i ELSE i + 1
<1>1. /\ r \in Seq(Version)
      /\ Len(docs) \in Nat /\ DOMAIN docs = 1..Len(docs) /\ DOMAIN r = 1..(Len(docs) - 1)
      /\ \A i \in DOMAIN r : r[i] = IF i < k THEN docs[i] ELSE docs[i + 1]
  BY RemoveAtIs
<1> HIDE DEF r
<1>2. \A i \in DOMAIN r : at(i) \in DOMAIN docs /\ r[i] = docs[at(i)] /\ i \in Int
  BY <1>1
<1>3. \A i \in DOMAIN docs : i # k => \E j \in DOMAIN r : at(j) = i
  <2> TAKE i \in DOMAIN docs
  <2>1. CASE i < k
    BY <1>1, <2>1
  <2>2. CASE i > k
    <3>1. i - 1 \in DOMAIN r /\ at(i - 1) = i
      BY <1>1, <2>2
    <3> QED BY <3>1
  <2> QED BY <1>1, <2>1, <2>2
<1>4. \A i, j \in DOMAIN r : at(i) <= at(j) <=> i <= j
  BY <1>1
<1>5. LastOne(docs, d) /\ LastOne(r, d)
  BY <1>1, LastVersionIs
<1> HIDE DEF at
<1>6. CASE \A i \in DOMAIN r : r[i].doc # d
  <2>1. LastVersion(r, d) = 0
    BY <1>5, <1>6 DEF LastOne
  <2>2. CASE d # docs[k].doc
    <3>1. \A i \in DOMAIN docs : docs[i].doc # d
      BY <1>2, <1>3, <1>6, <2>2
    <3> QED BY <1>5, <2>1, <3>1 DEF LastOne, r
  <2> QED BY <2>1, <2>2 DEF r
<1>7. ASSUME NEW i \in DOMAIN r, r[i].doc = d
      PROVE  LastVersion(r, d) = LastVersion(docs, d)
  <2>1. PICK n \in DOMAIN r : /\ r[n].doc = d /\ LastVersion(r, d) = r[n].ver
                              /\ \A j \in DOMAIN r : r[j].doc = d => j <= n
    BY <1>5, <1>7 DEF LastOne
  <2>2. at(n) \in DOMAIN docs /\ docs[at(n)] = r[n]
    BY <1>2
  <2>3. PICK m \in DOMAIN docs : /\ docs[m].doc = d /\ LastVersion(docs, d) = docs[m].ver
                                 /\ \A j \in DOMAIN docs : docs[j].doc = d => j <= m
    BY <1>5, <2>1, <2>2 DEF LastOne
  <2>4. m # k
    <3>1. at(n) # k
      BY <1>1, <1>2 DEF at
    <3>2. m = k => at(n) <= k /\ k <= at(n)
      BY <2>1, <2>2, <2>3
    <3> QED BY <1>1, <2>2, <3>1, <3>2
  <2>5. PICK j \in DOMAIN r : at(j) = m
    BY <1>3, <2>4
  <2>6. j <= n /\ at(n) <= at(j)
    BY <1>2, <2>1, <2>2, <2>3, <2>5
  <2>7. j = n
    BY <1>2, <1>4, <2>6
  <2> QED BY <2>1, <2>2, <2>3, <2>5, <2>7
<1> QED BY <1>6, <1>7 DEF r

(* Nothing is newer in what readers see than what was added last. *)
LEMMA SeenRecorded ==
  ASSUME Typed, AllRecorded, NEW d \in Doc
  PROVE  /\ Seen(d) \in 0..MaxVer /\ Held(d) \in 0..MaxVer /\ OnDisk(d) \in 0..MaxVer
         /\ Seen(d) <= added[d]
<1>1. /\ payload \in Seq(Payload) /\ manifest.segs \in Seq(DOMAIN payload)
      /\ segments \in Seq(DOMAIN payload)
      /\ buffer \in Seq(Version) /\ InFlight \in Seq(Version) /\ MaxVer \in Nat
      /\ added[d] \in 0..MaxVer
  BY ConstantsAssumption DEF Typed, TypeOK, SegmentsWritten, InFlight
<1>2. Recorded(buffer) /\ Recorded(InFlight)
  BY DEF AllRecorded, InFlight, Recorded
<1>3. ASSUME NEW docs \in Seq(Version), Recorded(docs)
      PROVE  LastVersion(docs, d) <= added[d] /\ LastVersion(docs, d) \in 0..MaxVer
  <2>1. LastOne(docs, d)
    BY LastVersionIs
  <2> QED BY <1>1, <1>3, <2>1 DEF LastOne, Recorded
<1>4. ASSUME NEW ids \in Seq(DOMAIN payload)
      PROVE  Newest(payload, ids, d) \in 0..MaxVer /\ Newest(payload, ids, d) <= added[d]
  BY <1>1, <1>4, NewestType, NewestRecorded
<1>5. OnDisk(d) \in 0..MaxVer /\ Held(d) \in 0..MaxVer /\ Held(d) <= added[d]
  BY <1>1, <1>4 DEF OnDisk, Held
<1> QED BY <1>1, <1>2, <1>3, <1>5 DEF Seen, Pending

\* What a step may do to the version of every document that readers see, that they have of
\* what is saved, and that a restart brings back.  new are the documents a flush has saved.
SeenSame == \A d \in Doc : Seen(d)' = Seen(d) /\ Held(d)' = Held(d) /\ OnDisk(d)' = OnDisk(d)
SeenReverts == \A d \in Doc : Seen(d)' = OnDisk(d) /\ Held(d)' = OnDisk(d) /\ OnDisk(d)' = OnDisk(d)
SeenSaved == \E new \in SUBSET Doc :
  /\ \A d \in Doc \ new : Seen(d) = Held(d)
  /\ \A d \in Doc : /\ Seen(d)' = Seen(d)
                    /\ Held(d)' = (IF d \in new THEN Seen(d) ELSE Held(d))
                    /\ OnDisk(d)' = (IF d \in new THEN Seen(d) ELSE OnDisk(d))
SeenUnread == \E new \in SUBSET Doc :
  /\ \A d \in Doc \ new : Seen(d) = Held(d)
  /\ \A d \in Doc : /\ Seen(d)' = Held(d) /\ Held(d)' = Held(d)
                    /\ OnDisk(d)' = (IF d \in new THEN Seen(d) ELSE OnDisk(d))
SeenDropped == \A d \in Doc : Seen(d)' = Held(d) /\ Held(d)' = Held(d) /\ OnDisk(d)' = OnDisk(d)
SeenAdds == \E e \in Doc, v \in 1..MaxVer :
  /\ v > Seen(e)
  /\ \A d \in Doc : /\ Seen(d)' = (IF d = e THEN v ELSE Seen(d))
                    /\ Held(d)' = Held(d) /\ OnDisk(d)' = OnDisk(d)
SeenRemoves == \E e \in Doc :
  \A d \in Doc : /\ Seen(d)' = (IF d = e THEN Held(e) ELSE Seen(d))
                 /\ Held(d)' = Held(d) /\ OnDisk(d)' = OnDisk(d)

LEMMA NothingPending ==
  ASSUME NEW d
  PROVE  LastVersion(<<>>, d) = 0
BY DEF LastVersion

LEMMA StepIsSeen ==
  ASSUME ~PartialMerges, ~MayClear, Typed, ContentsOK, AllRecorded, MergesAll, [Next]_vars
  PROVE  \/ (SeenSame \/ SeenReverts \/ SeenSaved \/ SeenAdds \/ SeenRemoves) /\ errors' = errors
         \/ (SeenSame \/ SeenUnread \/ SeenDropped) /\ errors' = errors + 1
<1>a. /\ payload \in Seq(Payload) /\ manifest.segs \in Seq(DOMAIN payload)
      /\ segments \in Seq(DOMAIN payload)
      /\ call.ids \in Seq(DOMAIN payload) /\ call.docs \in Seq(Version) /\ buffer \in Seq(Version)
      /\ added \in [Doc -> 0..MaxVer] /\ MaxVer \in Nat
      /\ call = [op |-> call.op, docs |-> call.docs, ids |-> call.ids, new |-> call.new,
                 compact |-> call.compact]
  BY ConstantsAssumption DEF Typed, TypeOK, SegmentsWritten
<1>b. \A d : LastVersion(<<>>, d) = 0
  BY NothingPending
<1>n. NoCall.op = "none"
  BY DEF NoCall
<1>o. ASSUME UNCHANGED <<payload, manifest>> PROVE \A d \in Doc : OnDisk(d)' = OnDisk(d)
  BY <1>o DEF OnDisk
<1>h. ASSUME UNCHANGED <<payload, manifest, opened, segments>>
      PROVE  \A d \in Doc : Held(d)' = Held(d) /\ OnDisk(d)' = OnDisk(d)
  BY <1>h DEF OnDisk, Held
\* The calls that leave what is pending alone, and those that drop it.
<1>c. ASSUME UNCHANGED <<opened, buffer>>, InFlight' = InFlight,
             \A d \in Doc : Held(d)' = Held(d) /\ OnDisk(d)' = OnDisk(d)
      PROVE  SeenSame
  BY <1>c DEF SeenSame, Seen, Pending
<1>d. ASSUME UNCHANGED <<payload, manifest>>,
             ~opened' \/ (buffer' = <<>> /\ InFlight' = <<>> /\ segments' = manifest.segs)
      PROVE  SeenReverts
  BY <1>b, <1>d, <1>o DEF SeenReverts, Seen, Pending, Held, OnDisk
<1> USE DEF disk, history, Idle
<1>1. CASE Open
  <2>1. ~opened /\ buffer' = <<>> /\ InFlight' = <<>> /\ UNCHANGED <<payload, manifest>>
        /\ segments' = manifest.segs /\ errors' = errors
    BY <1>1 DEF Open, InFlight, Typed, CallOK
  <2>2. SeenReverts
    BY <1>d, <2>1
  <2> QED BY <2>1, <2>2
<1>2. CASE Load \/ CompactReloads
  <2>1. buffer' = <<>> /\ InFlight' = <<>> /\ UNCHANGED <<payload, manifest>>
        /\ segments' = manifest.segs /\ errors' = errors
    BY <1>2 DEF Load, CompactReloads, InFlight
  <2> QED BY <1>d, <2>1
<1>3. CASE Clear
  BY <1>3 DEF Clear
<1>4. ASSUME NEW e \in Doc, AddDocument(e) PROVE SeenAdds /\ errors' = errors
  <2> DEFINE v == added[e] + 1
             new == [doc |-> e, ver |-> v]
             docs == Append(buffer, new)
  <2>1. /\ opened /\ opened' /\ call.op = "none" /\ UNCHANGED <<payload, manifest, opened, segments, errors>>
        /\ added[e] < MaxVer
        /\ \/ buffer' = <<>> /\ call' = Flushing(docs)
           \/ buffer' = docs /\ UNCHANGED call
    BY <1>4 DEF AddDocument
  <2>2. v \in 1..MaxVer
    BY <1>a, <2>1
  <2>3. new \in Version /\ new.doc = e /\ new.ver = v
    BY <2>2 DEF Version
  <2>4. Flushing(docs).docs = docs /\ Flushing(docs).op = "flush"
    BY DEF Flushing, NoCall
  <2> HIDE DEF new
  <2>5. \A d \in Doc : LastVersion(docs, d) = IF d = e THEN v ELSE LastVersion(buffer, d)
    BY <1>a, <2>3, LastVersionAppended
  <2> HIDE DEF docs, v
  <2>6. InFlight = <<>>
    BY <2>1 DEF InFlight
  <2>7. \/ buffer' = <<>> /\ InFlight' = docs
        \/ buffer' = docs /\ InFlight' = <<>>
    BY <2>1, <2>4 DEF InFlight
  <2>8. \A d \in Doc : Pending(d) = LastVersion(buffer, d) /\ Pending(d)' = LastVersion(docs, d)
    BY <1>b, <2>6, <2>7 DEF Pending
  <2>9. \A d \in Doc : /\ Seen(d)' = (IF d = e THEN v ELSE Seen(d))
                       /\ Held(d)' = Held(d) /\ OnDisk(d)' = OnDisk(d)
    BY <1>h, <2>1, <2>2, <2>5, <2>8 DEF Seen
  <2>10. v > Seen(e)
    <3>1. Seen(e) <= added[e] /\ Seen(e) \in 0..MaxVer /\ added[e] \in 0..MaxVer
      BY <1>a, SeenRecorded
    <3> QED BY <1>a, <3>1 DEF v
  <2> QED BY <2>1, <2>2, <2>9, <2>10 DEF SeenAdds
<1>5. ASSUME NEW e \in Doc, RemoveDocument(e) PROVE (SeenSame \/ SeenRemoves) /\ errors' = errors
  <2> DEFINE k == Min({i \in DOMAIN buffer : buffer[i].doc = e})
             docs == RemoveAt(buffer, k)
  <2>1. /\ opened /\ opened' /\ call.op = "none"
        /\ UNCHANGED <<payload, manifest, call, opened, segments, errors>>
        /\ buffer' = docs /\ {i \in DOMAIN buffer : buffer[i].doc = e} # {}
    BY <1>5 DEF RemoveDocument
  <2>2. k \in DOMAIN buffer /\ buffer[k].doc = e /\ \A i \in DOMAIN buffer : buffer[i].doc = e => k <= i
    BY <1>a, <2>1, FirstPosition
  <2> HIDE DEF k
  <2>3. \A d \in Doc : \/ LastVersion(docs, d) = LastVersion(buffer, d)
                       \/ d = e /\ LastVersion(docs, d) = 0
    BY <1>a, <2>2, LastVersionRemoved
  <2> HIDE DEF docs
  <2>4. InFlight = <<>> /\ InFlight' = <<>>
    BY <2>1 DEF InFlight
  <2>5. \A d \in Doc : Pending(d) = LastVersion(buffer, d) /\ Pending(d)' = LastVersion(docs, d)
    BY <1>b, <2>1, <2>4 DEF Pending
  <2>6. CASE LastVersion(docs, e) = LastVersion(buffer, e)
    BY <1>h, <2>1, <2>3, <2>5, <2>6 DEF SeenSame, Seen
  <2>7. CASE LastVersion(docs, e) = 0
    BY <1>h, <2>1, <2>3, <2>5, <2>7 DEF SeenRemoves, Seen
  <2> QED BY <2>1, <2>3, <2>6, <2>7
<1>6. CASE FlushSegment \/ CompactFlushes
  <2>1. /\ UNCHANGED <<opened, payload, manifest, segments, errors>> /\ InFlight = <<>>
        /\ \/ buffer' = <<>> /\ InFlight' = buffer
           \/ UNCHANGED buffer /\ InFlight' = <<>>
    BY <1>6 DEF FlushSegment, CompactFlushes, ForCompact, Flushing, NoCall, InFlight
  <2>2. \A d \in Doc : Pending(d)' = Pending(d)
    BY <1>b, <2>1 DEF Pending
  <2> QED BY <1>h, <2>1, <2>2 DEF SeenSame, Seen
<1>7. ASSUME NEW p \in Payload, NEW op, WriteSegment(p, op), UNCHANGED <<opened, buffer, segments, manifest>>,
             op \in {"flush", "flushed"} <=> call.op \in {"flush", "flushed"}
      PROVE  SeenSame
  <2>1. \A d \in Doc : Held(d)' = Held(d) /\ OnDisk(d)' = OnDisk(d)
    <3>1. ASSUME NEW d \in Doc, NEW ids \in Seq(DOMAIN payload)
          PROVE  Newest(payload', ids, d) = Newest(payload, ids, d)
      BY <1>a, <1>7, WriteKeepsAnswers
    <3> QED BY <1>a, <1>7, <3>1 DEF OnDisk, Held
  <2>2. call' = [call EXCEPT !.op = op, !.new = NextSeg]
    BY <1>7 DEF WriteSegment
  <2>3. InFlight' = InFlight
    BY <1>a, <1>7, <2>2 DEF InFlight
  <2> QED BY <1>c, <1>7, <2>1, <2>3
<1>8. CASE FlushWrites
  <2> DEFINE p == FlushedPayload(call.docs)
  <2>1. p \in Payload
    BY <1>a, FlushedPayloadType
  <2>2. WriteSegment(p, "flushed") /\ call.op = "flush"
        /\ UNCHANGED <<opened, buffer, segments, manifest, errors>>
    BY <1>8 DEF FlushWrites, FlushedPayload
  <2> HIDE DEF p
  <2>3. SeenSame
    BY <1>7, <2>1, <2>2
  <2> QED BY <2>2, <2>3
<1>9. CASE MergeWrites
  <2>1. /\ WriteSegment(MergedPayload(call.ids), "merged")
        /\ call.op = "merge" /\ UNCHANGED <<opened, buffer, segments, manifest, errors>>
    BY <1>9 DEF MergeWrites
  <2>2. MergedPayload(call.ids) \in Payload
    BY <1>a, MergedPayloadIs
  <2>3. SeenSame
    BY <1>7, <2>1, <2>2
  <2> QED BY <2>1, <2>3
<1>10. CASE FlushPublishes \/ FlushUnread
  <2> DEFINE new == {d \in Doc : LastVersion(call.docs, d) # 0}
  <2>1. /\ call.op = "flushed" /\ buffer = <<>> /\ buffer' = <<>> /\ opened /\ opened'
        /\ UNCHANGED payload /\ call'.op = "none"
        /\ manifest'.segs = Append(manifest.segs, call.new)
        /\ call.new \in DOMAIN payload /\ payload[call.new].docs = call.docs
        /\ \/ segments' = Append(segments, call.new) /\ errors' = errors
           \/ segments' = segments /\ errors' = errors + 1
    BY <1>10, <1>n DEF FlushPublishes, FlushUnread, Typed, CallOK, ContentsOK
  <2>2. InFlight = call.docs /\ InFlight' = <<>>
    BY <2>1 DEF InFlight
  <2>3. ASSUME NEW d \in Doc, NEW ids \in Seq(DOMAIN payload)
        PROVE  Newest(payload, Append(ids, call.new), d)
                 = IF d \in new THEN LastVersion(call.docs, d) ELSE Newest(payload, ids, d)
    <3>1. Newest(payload, Append(ids, call.new), d)
            = IF LastVersion(payload[call.new].docs, d) # 0
              THEN LastVersion(payload[call.new].docs, d) ELSE Newest(payload, ids, d)
      BY <1>a, <2>1, NewestOfAppended
    <3> QED BY <2>1, <3>1
  <2>4. \A d \in Doc : Pending(d) = LastVersion(call.docs, d) /\ Pending(d)' = 0
    BY <1>b, <2>1, <2>2 DEF Pending
  <2>5. ASSUME NEW d \in Doc
        PROVE  /\ Seen(d) = IF d \in new THEN LastVersion(call.docs, d) ELSE Held(d)
               /\ Seen(d)' = Held(d)'
               /\ OnDisk(d)' = IF d \in new THEN Seen(d) ELSE OnDisk(d)
               /\ Held(d) = Newest(payload, segments, d) /\ Held(d)' = Newest(payload, segments', d)
    <3>1. Seen(d) = IF d \in new THEN LastVersion(call.docs, d) ELSE Held(d)
      BY <2>1, <2>4 DEF Seen
    <3>2. Seen(d)' = Held(d)'
      BY <2>1, <2>4 DEF Seen
    <3>3. OnDisk(d)' = Newest(payload, Append(manifest.segs, call.new), d)
      BY <2>1 DEF OnDisk
    <3>4. OnDisk(d)' = IF d \in new THEN Seen(d) ELSE OnDisk(d)
      BY <1>a, <2>3, <3>1, <3>3 DEF OnDisk
    <3>5. Held(d) = Newest(payload, segments, d) /\ Held(d)' = Newest(payload, segments', d)
      BY <2>1 DEF Held
    <3> QED BY <3>1, <3>2, <3>4, <3>5
  <2>6. new \in SUBSET Doc
    OBVIOUS
  <2> HIDE DEF new
  <2>7. CASE segments' = Append(segments, call.new) /\ errors' = errors
    <3>1. \A d \in Doc : Held(d)' = IF d \in new THEN Seen(d) ELSE Held(d)
      BY <1>a, <2>3, <2>5, <2>7
    <3>2. SeenSaved
      BY <2>5, <2>6, <3>1 DEF SeenSaved
    <3> QED BY <2>7, <3>2
  <2>8. CASE segments' = segments /\ errors' = errors + 1
    <3>1. SeenUnread
      BY <2>5, <2>6, <2>8 DEF SeenUnread
    <3> QED BY <2>8, <3>1
  <2> QED BY <2>1, <2>7, <2>8
<1>11. CASE MergePromotes
  <2>1. UNCHANGED <<opened, buffer, payload, segments, errors>> /\ InFlight' = InFlight
    BY <1>11, <1>a DEF MergePromotes, InFlight
  <2>2. \A d \in Doc : OnDisk(d)' = OnDisk(d)
    BY <1>11, <2>1, PromotionKeepsAnswers DEF OnDisk
  <2>3. \A d \in Doc : Held(d)' = Held(d)
    BY <2>1, <2>2 DEF Held
  <2> QED BY <1>c, <2>1, <2>2, <2>3
<1>12. CASE MergeSome
  BY <1>12 DEF MergeSome
<1>13. CASE MergeDeletes \/ MergeDeleteFails
  <2>1. /\ UNCHANGED <<opened, buffer, payload, manifest, segments>>
        /\ call.op = "promoted" /\ call'.op = "promoted" /\ errors' \in {errors, errors + 1}
    BY <1>13, <1>a DEF MergeDeletes, MergeDeleteFails
  <2>2. InFlight' = InFlight
    BY <2>1 DEF InFlight
  <2>3. SeenSame
    BY <1>c, <1>h, <2>1, <2>2
  <2> QED BY <2>1, <2>3
<1>14. CASE MergeReturns \/ CompactMerges \/ CompactThrows \/ Recover \/ UNCHANGED vars
  <2>1. /\ UNCHANGED <<opened, buffer, payload, manifest, segments>> /\ InFlight' = InFlight
        /\ errors' \in {errors, errors + 1}
    <3>1. CASE MergeReturns
      BY <1>n, <3>1 DEF MergeReturns, InFlight
    <3>2. CASE CompactMerges
      <4>1. UNCHANGED call \/ call' = ForCompact(Merging(manifest.segs))
        BY <3>2 DEF CompactMerges
      <4>2. ForCompact(Merging(manifest.segs)).op = "merge"
        BY DEF ForCompact, Merging, NoCall
      <4> QED BY <3>2, <4>1, <4>2 DEF CompactMerges, InFlight
    <3>3. CASE Recover \/ CompactThrows \/ UNCHANGED vars
      BY <3>3 DEF Recover, CompactThrows, vars, InFlight
    <3> QED BY <1>14, <3>1, <3>2, <3>3
  <2>2. SeenSame
    BY <1>c, <1>h, <2>1
  <2> QED BY <2>1, <2>2
<1>15. CASE FileOperationThrows
  <2>1. /\ UNCHANGED <<opened, buffer, payload, manifest, segments>> /\ InFlight' = <<>>
        /\ errors' = errors + 1
    BY <1>15, <1>n DEF FileOperationThrows, InFlight
  <2>2. CASE call.op \in {"flush", "flushed"}
    <3>1. buffer' = <<>>
      BY <2>1, <2>2 DEF Typed, CallOK
    <3>2. SeenDropped
      BY <1>b, <1>h, <2>1, <3>1 DEF SeenDropped, Seen, Pending
    <3> QED BY <2>1, <3>2
  <2>3. CASE call.op \notin {"flush", "flushed"}
    <3>1. InFlight' = InFlight
      BY <2>1, <2>3 DEF InFlight
    <3>2. SeenSame
      BY <1>c, <1>h, <2>1, <3>1
    <3> QED BY <2>1, <3>2
  <2> QED BY <2>2, <2>3
<1>16. CASE Crash
  <2>1. ~opened' /\ UNCHANGED <<payload, manifest, errors>>
    BY <1>16 DEF Crash
  <2> QED BY <1>d, <2>1
<1> QED BY <1>1, <1>2, <1>3, <1>4, <1>5, <1>6, <1>8, <1>9, <1>10, <1>11, <1>12, <1>13, <1>14,
           <1>15, <1>16 DEF Next

(* The segmented index is an index with a write buffer and saves in one step:  *)
(* every step of a flush, a merge, a compaction, a failure or a crash shows to *)
(* readers as adding, removing, saving, a save that failed and may be durable  *)
(* all the same, going back to what is durable, or not at all.                 *)
THEOREM SegmentedIndexIsDurable ==
  ASSUME ~PartialMerges, ~MayClear
  PROVE  Spec => ImplementsDurableIndex
<1> DEFINE Inv == IInv /\ MergesAll
           visible == [d \in Doc |-> Visible(d)]
           loaded == [d \in Doc |-> Loaded(d)]
           durable == [d \in Doc |-> InSegments(manifest.segs, d)]
<1>1. Init => Inv
  BY InitInvariant
<1>2. Inv /\ [Next]_vars => Inv'
  BY InvariantStep, MergesAllStep DEF IInv, Typed
<1>3. Init => Abstract!Init
  <2> SUFFICES ASSUME Init PROVE Abstract!Init
    OBVIOUS
  <2>1. ~opened /\ manifest.segs = <<>> /\ errors = 0
    BY DEF Init
  <2>2. \A d \in Doc : InSegments(manifest.segs, d) = 0
    BY <2>1 DEF InSegments
  <2>3. \A d \in Doc : Visible(d) = 0 /\ Loaded(d) = 0
    BY <2>1, <2>2 DEF Visible, Loaded
  <2> QED BY <2>1, <2>2, <2>3 DEF Abstract!Init
<1>4. Inv /\ [Next]_vars => [Abstract!Next]_(Abstract!vars)
  <2> SUFFICES ASSUME Inv, [Next]_vars PROVE [Abstract!Next]_(Abstract!vars)
    OBVIOUS
  <2>1. /\ visible = [d \in Doc |-> Seen(d)] /\ visible' = [d \in Doc |-> Seen(d)']
        /\ loaded = [d \in Doc |-> Held(d)] /\ loaded' = [d \in Doc |-> Held(d)']
        /\ durable = [d \in Doc |-> OnDisk(d)] /\ durable' = [d \in Doc |-> OnDisk(d)']
    BY VisibleIsSeen
  <2>2. \/ (SeenSame \/ SeenReverts \/ SeenSaved \/ SeenAdds \/ SeenRemoves) /\ errors' = errors
        \/ (SeenSame \/ SeenUnread \/ SeenDropped) /\ errors' = errors + 1
    BY StepIsSeen DEF IInv, Typed
  <2> DEFINE With(c, new) == [d \in Doc |-> IF d \in new THEN visible[d] ELSE c[d]]
  <2>3. CASE SeenSame
    <3>1. visible' = visible /\ loaded' = loaded /\ durable' = durable
      <4> HIDE DEF visible, loaded, durable
      <4> QED BY <2>1, <2>3 DEF SeenSame
    <3> QED BY <2>2, <3>1 DEF Abstract!vars, Abstract!Next, Abstract!Failure
  <2>4. CASE SeenReverts /\ errors' = errors
    <3>1. visible' = durable /\ loaded' = durable /\ durable' = durable
      <4> HIDE DEF visible, loaded, durable
      <4> QED BY <2>1, <2>4 DEF SeenReverts
    <3> QED BY <2>4, <3>1 DEF Abstract!Next, Abstract!Revert
  <2>5. CASE SeenSaved /\ errors' = errors
    <3>1. PICK new \in SUBSET Doc :
            /\ \A d \in Doc \ new : Seen(d) = Held(d)
            /\ \A d \in Doc : /\ Seen(d)' = Seen(d)
                              /\ Held(d)' = (IF d \in new THEN Seen(d) ELSE Held(d))
                              /\ OnDisk(d)' = (IF d \in new THEN Seen(d) ELSE OnDisk(d))
      BY <2>5 DEF SeenSaved
    <3>2. /\ \A d \in Doc \ new : visible[d] = loaded[d]
          /\ visible' = visible /\ loaded' = With(loaded, new) /\ durable' = With(durable, new)
      <4> HIDE DEF visible, loaded, durable
      <4> QED BY <2>1, <3>1
    <3>3. new \in Abstract!Saves
      BY <3>2 DEF Abstract!Saves
    <3>4. Abstract!Save
      BY <2>5, <3>2, <3>3 DEF Abstract!Save, Abstract!With
    <3> QED BY <3>4 DEF Abstract!Next
  <2>6. CASE SeenUnread /\ errors' = errors + 1
    <3>1. PICK new \in SUBSET Doc :
            /\ \A d \in Doc \ new : Seen(d) = Held(d)
            /\ \A d \in Doc : /\ Seen(d)' = Held(d) /\ Held(d)' = Held(d)
                              /\ OnDisk(d)' = (IF d \in new THEN Seen(d) ELSE OnDisk(d))
      BY <2>6 DEF SeenUnread
    <3>2. /\ \A d \in Doc \ new : visible[d] = loaded[d]
          /\ visible' = loaded /\ loaded' = loaded /\ durable' = With(durable, new)
      <4> HIDE DEF visible, loaded, durable
      <4> QED BY <2>1, <3>1
    <3>3. new \in Abstract!Saves
      BY <3>2 DEF Abstract!Saves
    <3>4. Abstract!FailedSave
      BY <2>6, <3>2, <3>3 DEF Abstract!FailedSave, Abstract!With
    <3> QED BY <3>4 DEF Abstract!Next
  <2>7. CASE SeenDropped /\ errors' = errors + 1
    <3>1. visible' = loaded /\ loaded' = loaded /\ durable' = With(durable, {})
      <4> HIDE DEF visible, loaded, durable
      <4> QED BY <2>1, <2>7 DEF SeenDropped
    <3>2. Abstract!FailedSave
      BY <2>7, <3>1 DEF Abstract!FailedSave, Abstract!With
    <3> QED BY <3>2 DEF Abstract!Next
  <2>8. CASE SeenAdds /\ errors' = errors
    <3>1. \E d \in Doc, v \in 1..MaxVer :
            /\ v > visible[d]
            /\ visible' = [visible EXCEPT ![d] = v]
            /\ loaded' = loaded /\ durable' = durable
      <4> HIDE DEF visible, loaded, durable
      <4> QED BY <2>1, <2>8 DEF SeenAdds
    <3> QED BY <2>8, <3>1 DEF Abstract!Next, Abstract!Add
  <2>9. CASE SeenRemoves /\ errors' = errors
    <3>1. \E d \in Doc : /\ visible' = [visible EXCEPT ![d] = loaded[d]]
                         /\ loaded' = loaded /\ durable' = durable
      <4> HIDE DEF visible, loaded, durable
      <4> QED BY <2>1, <2>9 DEF SeenRemoves
    <3> QED BY <2>9, <3>1 DEF Abstract!Next, Abstract!Remove
  <2> QED BY <2>2, <2>3, <2>4, <2>5, <2>6, <2>7, <2>8, <2>9
<1> QED BY <1>1, <1>2, <1>3, <1>4, PTL DEF Spec, ImplementsDurableIndex, Abstract!Spec
===============================================================================
