------------------------------ MODULE PostingCodec ------------------------------
(***************************************************************************)
(* The compression of posting lists (VByteCompressor,                      *)
(* packages/storage/src/compression/vbyte-compression.ts): document ids    *)
(* and positions become gaps, and numbers groups of bits with a            *)
(* continuation mark.  Bytes are decoded one by one.                       *)
(*                                                                         *)
(* Abstractions: a group has Base values, 128 in the code, and the mark is *)
(* a field of its own beside the group's value.                            *)
(***************************************************************************)
EXTENDS Integers, Sequences, FiniteSets, SequencesExt

CONSTANTS
  Base,
  Records   \* the lists of posting records that are compressed

ASSUME CodecAssumption == Base \in Nat \ {0, 1}

VARIABLES
  records,   \* the list compressed
  bytes,     \* what is left of the encoded bytes
  current, shift,
  numbers    \* the numbers decoded so far

codecVars == <<records, bytes, current, shift, numbers>>

(***************************************************************************)
(* Encoding                                                                *)
(***************************************************************************)
\* mutant: what is left is taken for the last group at the value Base, and not masked
VarintLate(n) ==
  LET groups == CHOOSE g \in 1..20 : /\ n \div Base^(g - 1) <= Base
                                     /\ g = 1 \/ n \div Base^(g - 2) > Base
      digit(i) == n \div Base^(i - 1)
  IN  [i \in 1..groups |-> [low |-> IF i = groups THEN digit(i) ELSE digit(i) % Base, more |-> i < groups]]

\* encodeVarints: the low groups first, marked while more follow
Varint(n) ==
  LET groups == CHOOSE g \in 1..20 : Base^g > n /\ (g = 1 \/ Base^(g - 1) <= n)
  IN  [i \in 1..groups |-> [low |-> (n \div Base^(i - 1)) % Base, more |-> i < groups]]
EncodeVarints(s) == FlattenSeq([i \in DOMAIN s |-> Varint(s[i])])

DeltaEncode(s) == [i \in DOMAIN s |-> IF i = 1 THEN s[1] ELSE IF s[i] < s[i - 1] THEN 0 ELSE s[i] - s[i - 1]]
DeltaDecode(s) == [i \in DOMAIN s |-> FoldLeft(+, 0, SubSeq(s, 1, i))]

\* mutant: the records are left in the order they came in, so that a gap can be negative
ByArrival(r) == r
ByDocId(r) == SortSeq(r, LAMBDA x, y : x.docId < y.docId)

\* the length, and of each record the gap, the frequency and its positions
Sequence(r) ==
  LET gaps == DeltaEncode([i \in DOMAIN r |-> r[i].docId])
  IN  <<Len(r)>> \o FlattenSeq([i \in DOMAIN r |->
        <<gaps[i], r[i].tf, Len(r[i].positions)>> \o DeltaEncode(SortSeq(r[i].positions, <))])

CompressPostingList(r) == IF r = <<>> THEN <<>> ELSE EncodeVarints(Sequence(ByDocId(r)))

(***************************************************************************)
(* Decoding                                                                *)
(***************************************************************************)
CodecInit ==
  /\ records \in Records
  /\ bytes = CompressPostingList(records)
  /\ current = 0 /\ shift = 0 /\ numbers = <<>>

NextShift(byte) == IF byte.more THEN shift + 1 ELSE 0

DecodesByte ==
  /\ bytes # <<>>
  /\ LET byte  == Head(bytes)
         value == current + byte.low * Base^shift
     IN  /\ bytes' = Tail(bytes)
         /\ shift' = NextShift(byte)
         /\ IF byte.more THEN current' = value /\ UNCHANGED numbers
            ELSE numbers' = Append(numbers, value) /\ current' = 0
  /\ UNCHANGED records

CodecNext == DecodesByte
CodecSpec == CodecInit /\ [][CodecNext]_codecVars

\* decompressPostingList: one record after the other, as far as the numbers go
At(s, i) == IF i \in DOMAIN s THEN s[i] ELSE 0
RecordAt(s, i, previous) ==
  [docId     |-> previous + At(s, i),
   tf        |-> IF i + 1 \in DOMAIN s THEN s[i + 1] ELSE 1,
   positions |-> DeltaDecode(SubSeq(s, i + 3, IF i + 2 + At(s, i + 2) < Len(s) THEN i + 2 + At(s, i + 2) ELSE Len(s)))]

DecompressPostingList(s) ==
  LET step(state, k) ==
        IF state.at > Len(s) THEN state
        ELSE LET r == RecordAt(s, state.at, state.docId)
             IN  [at |-> state.at + 3 + Len(r.positions), docId |-> r.docId, list |-> Append(state.list, r)]
  IN  IF s = <<>> THEN <<>>
      ELSE FoldLeft(step, [at |-> 2, docId |-> 0, list |-> <<>>], [k \in 1..s[1] |-> k]).list

(***************************************************************************)
(* Properties                                                              *)
(***************************************************************************)
CodecTypeOK ==
  /\ \A i \in DOMAIN bytes : bytes[i].low \in 0..Base - 1 /\ bytes[i].more \in BOOLEAN
  /\ shift \in Nat /\ current \in 0..Base^shift - 1 /\ numbers \in Seq(Nat)
  /\ bytes = <<>> => shift = 0

\* The decoder never loses the borders of the numbers: what it has decoded at any
\* byte is a beginning of what was encoded.
DecodedIsAPrefix == IsPrefix(numbers, IF records = <<>> THEN <<>> ELSE Sequence(ByDocId(records)))

\* "lossless": a list comes back, in the order of document ids, with sorted positions,
\* and what is decompressed before its end is a beginning of it, but for a last record.
SortedPositions(r) == [r EXCEPT !.positions = SortSeq(@, <)]
Original == LET r == SortSeq(records, LAMBDA x, y : x.docId < y.docId)
            IN  [i \in DOMAIN r |-> SortedPositions(r[i])]
Lossless ==
  LET out == DecompressPostingList(numbers)
  IN  /\ bytes = <<>> => out = Original
      /\ out # <<>> => IsPrefix(Front(out), Original)
===============================================================================
