------------------------------ MODULE ListLemmas ------------------------------
(***************************************************************************)
(* Facts about numbers, lists and finite sets that the proofs of several   *)
(* components cite.  LeastElement stands in for induction: a statement     *)
(* about all numbers is proved by looking at the least one it fails for.   *)
(***************************************************************************)
EXTENDS Integers, Sequences, FiniteSets, SequencesExt, FiniteSetsExt,
        FiniteSetTheorems, SequenceTheorems, WellFoundedInduction, TLAPS

(* Every nonempty set of natural numbers has a least element. *)
LEMMA LeastElement ==
  ASSUME NEW S \in SUBSET Nat, S # {}
  PROVE  \E m \in S : \A k \in S : m <= k
<1> DEFINE R == OpToRel(<, Nat)
<1>1. IsWellFoundedOn(R, Nat)
  BY NatLessThanWellFounded
<1>2. \A k, m \in Nat : k < m => <<k, m>> \in R
  BY DEF OpToRel
<1> HIDE DEF R
<1>3. PICK m \in S : \A k \in S : <<k, m>> \notin R
  BY <1>1, WFMin
<1>4. ASSUME NEW k \in S PROVE m <= k
  <2>1. k \in Nat /\ m \in Nat /\ ~ (k < m)
    BY <1>2, <1>3
  <2> QED BY <2>1
<1> QED BY <1>4

(* A nonempty set of numbers up to n has a greatest element. *)
LEMMA GreatestElement ==
  ASSUME NEW n \in Nat, NEW S \in SUBSET (0..n), S # {}
  PROVE  \E m \in S : \A k \in S : m >= k
<1> DEFINE T == {x \in 0..n : n - x \in S}
<1>1. \A k \in S : n - k \in 0..n /\ n - (n - k) = k
  OBVIOUS
<1>2. T \in SUBSET Nat /\ \A k \in S : n - k \in T
  BY <1>1
<1>3. T # {}
  BY <1>2
<1>4. PICK m \in T : \A k \in T : m <= k
  <2> HIDE DEF T
  <2> QED BY <1>2, <1>3, LeastElement
<1>5. n - m \in S /\ \A k \in S : m <= n - k
  BY <1>2, <1>4
<1>6. \A k \in S : n - m >= k
  BY <1>5
<1> QED BY <1>5, <1>6

(* Max and Min of a nonempty set of positions of a list. *)
LEMMA MaxOfPositions ==
  ASSUME NEW n \in Nat, NEW S \in SUBSET (1..n), S # {}
  PROVE  Max(S) \in S /\ \A k \in S : k <= Max(S)
<1>1. S \in SUBSET (0..n)
  OBVIOUS
<1>2. \E m \in S : \A k \in S : m >= k
  BY <1>1, GreatestElement
<1>3. Max(S) \in S /\ \A k \in S : Max(S) >= k
  BY <1>2 DEF Max
<1> QED BY <1>3

LEMMA MinOfPositions ==
  ASSUME NEW n \in Nat, NEW S \in SUBSET (1..n), S # {}
  PROVE  Min(S) \in S /\ \A k \in S : Min(S) <= k
<1>1. \E m \in S : \A k \in S : m <= k
  BY LeastElement
<1> QED BY <1>1 DEF Min

(* The list SetToSeq makes of a finite set has the elements of the set, each of *)
(* them once.                                                                    *)
LEMMA ListOfFiniteSet ==
  ASSUME NEW S, IsFiniteSet(S)
  PROVE  /\ SetToSeq(S) \in Seq(S)
         /\ \A i, j \in DOMAIN SetToSeq(S) : SetToSeq(S)[i] = SetToSeq(S)[j] => i = j
         /\ \A x \in S : \E i \in DOMAIN SetToSeq(S) : SetToSeq(S)[i] = x
<1> DEFINE n == Cardinality(S)
           I(f) == \A a, b \in DOMAIN f : f[a] = f[b] => a = b
<1>1. n \in Nat /\ ExistsBijection(1..n, S)
  BY FS_CardinalityType
<1>2. PICK g \in Bijection(1..n, S) : TRUE
  BY <1>1 DEF ExistsBijection
<1>3. g \in [1..n -> S] /\ I(g)
  BY <1>2 DEF Bijection, Injection, IsInjective
<1>4. SetToSeq(S) \in [1..n -> S] /\ I(SetToSeq(S))
  BY <1>3 DEF SetToSeq, IsInjective
<1>5. SetToSeq(S) \in Injection(1..n, S)
  BY <1>4 DEF Injection, IsInjective
<1>6. IsFiniteSet(1..n) /\ Cardinality(1..n) = n
  BY <1>1, FS_Interval
<1>7. SetToSeq(S) \in Surjection(1..n, S)
  BY <1>5, <1>6, FS_Injection
<1> QED BY <1>1, <1>4, <1>7 DEF Surjection

(* Appending to a list adds the element to its elements. *)
LEMMA AppendElements ==
  ASSUME NEW S, NEW s \in Seq(S), NEW e \in S
  PROVE  /\ Append(s, e) \in Seq(S)
         /\ Len(Append(s, e)) = Len(s) + 1
         /\ ToSet(Append(s, e)) = ToSet(s) \cup {e}
<1> DEFINE a == Append(s, e)
<1>1. /\ a \in Seq(S) /\ Len(a) = Len(s) + 1 /\ Len(s) \in Nat
      /\ DOMAIN s = 1..Len(s) /\ DOMAIN a = 1..(Len(s) + 1)
      /\ a[Len(s) + 1] = e /\ \A i \in DOMAIN s : a[i] = s[i]
  OBVIOUS
<1> HIDE DEF a
<1>2. \A i \in DOMAIN a : i \in DOMAIN s \/ i = Len(s) + 1
  BY <1>1
<1>3. Len(s) + 1 \in DOMAIN a /\ DOMAIN s \subseteq DOMAIN a
  BY <1>1
<1>4. ToSet(a) = ToSet(s) \cup {e}
  BY <1>1, <1>2, <1>3 DEF ToSet
<1> QED BY <1>1, <1>4 DEF a

(* Taking the head off a list takes nothing else off it. *)
LEMMA HeadAndTail ==
  ASSUME NEW S, NEW s \in Seq(S), s # <<>>
  PROVE  /\ Head(s) \in S
         /\ Tail(s) \in Seq(S)
         /\ Len(Tail(s)) = Len(s) - 1
         /\ ToSet(s) = {Head(s)} \cup ToSet(Tail(s))
<1> DEFINE t == Tail(s)
<1>1. /\ Len(s) \in Nat \ {0} /\ DOMAIN s = 1..Len(s) /\ Head(s) = s[1] /\ Head(s) \in S
      /\ t \in Seq(S) /\ Len(t) = Len(s) - 1
      /\ DOMAIN t = 1..(Len(s) - 1) /\ \A i \in DOMAIN t : t[i] = s[i + 1]
  OBVIOUS
<1> HIDE DEF t
<1>2. \A i \in DOMAIN s : i = 1 \/ (i - 1 \in DOMAIN t /\ t[i - 1] = s[i])
  BY <1>1
<1>3. 1 \in DOMAIN s /\ \A i \in DOMAIN t : i + 1 \in DOMAIN s
  BY <1>1
<1>4. ToSet(s) = {Head(s)} \cup ToSet(t)
  BY <1>1, <1>2, <1>3, SMTT(30) DEF ToSet
<1> QED BY <1>1, <1>4 DEF t

(* Removing the element at a position moves the later ones up. *)
LEMMA RemoveAtIs ==
  ASSUME NEW S, NEW s \in Seq(S), NEW k \in DOMAIN s
  PROVE  LET r == RemoveAt(s, k)
         IN  /\ r \in Seq(S) /\ Len(s) \in Nat /\ Len(r) = Len(s) - 1
             /\ DOMAIN s = 1..Len(s) /\ DOMAIN r = 1..(Len(s) - 1)
             /\ \A i \in DOMAIN r : r[i] = IF i < k THEN s[i] ELSE s[i + 1]
<1> DEFINE a == SubSeq(s, 1, k - 1)
           b == SubSeq(s, k + 1, Len(s))
           r == a \o b
<1>1. Len(s) \in Nat /\ DOMAIN s = 1..Len(s) /\ k \in 1..Len(s) /\ \A i \in 1..Len(s) : s[i] \in S
  OBVIOUS
<1>2. /\ a \in Seq(S) /\ Len(a) = k - 1
      /\ \A i \in 1..(k - 1) : a[i] = s[i]
  BY <1>1
<1>3. /\ b \in Seq(S) /\ Len(b) = Len(s) - k
      /\ \A i \in 1..(Len(s) - k) : b[i] = s[k + i]
  <2>1. b \in Seq(S) /\ Len(b) = Len(s) - k
    BY <1>1
  <2>2. ASSUME NEW i \in 1..(Len(s) - k) PROVE b[i] = s[k + i]
    <3>1. k + 1 + i - 1 = k + i
      BY <1>1
    <3> QED BY <1>1, <3>1
  <2> QED BY <2>1, <2>2
<1> HIDE DEF a, b
<1>4. /\ r \in Seq(S) /\ Len(r) = Len(s) - 1
      /\ \A i \in 1..(Len(s) - 1) : r[i] = IF i <= k - 1 THEN a[i] ELSE b[i - (k - 1)]
  <2>1. r \in Seq(S) /\ Len(r) = Len(a) + Len(b)
    BY <1>2, <1>3, ConcatProperties
  <2>2. Len(a) + Len(b) = Len(s) - 1 /\ Len(a) = k - 1 /\ k - 1 \in Nat
    BY <1>1, <1>2, <1>3
  <2>3. \A i \in 1..(Len(a) + Len(b)) : r[i] = IF i <= Len(a) THEN a[i] ELSE b[i - Len(a)]
    BY <1>2, <1>3, ConcatProperties
  <2> HIDE DEF r
  <2> QED BY <2>1, <2>2, <2>3
<1>5. DOMAIN r = 1..(Len(s) - 1)
  <2> HIDE DEF r
  <2> QED BY <1>1, <1>4
<1>6. ASSUME NEW i \in 1..(Len(s) - 1) PROVE r[i] = IF i < k THEN s[i] ELSE s[i + 1]
  <2>1. CASE i < k
    BY <1>1, <1>2, <1>4, <2>1
  <2>2. CASE ~ (i < k)
    <3>1. i - (k - 1) \in 1..(Len(s) - k) /\ k + (i - (k - 1)) = i + 1 /\ ~ (i <= k - 1)
      BY <1>1, <2>2
    <3> QED BY <1>3, <1>4, <2>2, <3>1
  <2> QED BY <2>1, <2>2
<1>7. RemoveAt(s, k) = r
  BY DEF RemoveAt, a, b
<1> HIDE DEF r
<1> QED BY <1>1, <1>4, <1>5, <1>6, <1>7

(* Induction up to n: a set of numbers with 0 and with the successor of each of *)
(* its elements has them all.                                                    *)
LEMMA InductionUpTo ==
  ASSUME NEW n \in Nat, NEW G, 0 \in G, \A k \in 1..n : k - 1 \in G => k \in G
  PROVE  \A k \in 0..n : k \in G
<1> DEFINE bad == {k \in 0..n : k \notin G}
<1>1. bad = {}
  <2> SUFFICES ASSUME bad # {} PROVE FALSE
    OBVIOUS
  <2>1. PICK k \in bad : \A j \in bad : k <= j
    <3>1. bad \in SUBSET Nat
      OBVIOUS
    <3> HIDE DEF bad
    <3> QED BY <3>1, LeastElement
  <2>2. k \in 1..n /\ k - 1 \in 0..n /\ ~ (k <= k - 1) /\ k \notin G
    BY <2>1
  <2>3. k - 1 \in G
    BY <2>1, <2>2
  <2> QED BY <2>2, <2>3
<1> QED BY <1>1

(* A function that is given at 0 and from each number to the next exists. *)
Iterates(f, base, step, n) == f[0] = base /\ \A i \in 1..n : f[i] = step[i][f[i - 1]]

LEMMA RecursionUpTo ==
  ASSUME NEW n \in Nat, NEW A, NEW base \in A, NEW step \in [1..n -> [A -> A]]
  PROVE  \E f \in [0..n -> A] : Iterates(f, base, step, n)
<1> DEFINE Right(f, k) == f[0] = base /\ \A i \in 1..k : f[i] = step[i][f[i - 1]]
           G == {k \in 0..n : \E f \in [0..k -> A] : Right(f, k)}
<1>1. 0 \in G
  <2> DEFINE f == [i \in 0..0 |-> base]
  <2>1. f \in [0..0 -> A] /\ f[0] = base
    OBVIOUS
  <2>2. Right(f, 0)
    <3>1. 1..0 = {}
      OBVIOUS
    <3> HIDE DEF f
    <3> QED BY <2>1, <3>1
  <2> HIDE DEF Right, f
  <2> QED BY <2>1, <2>2
<1>2. ASSUME NEW k \in 1..n, k - 1 \in G PROVE k \in G
  <2>1. PICK g \in [0..(k - 1) -> A] : Right(g, k - 1)
    BY <1>2
  <2> DEFINE h == [i \in 0..k |-> IF i = k THEN step[k][g[k - 1]] ELSE g[i]]
  <2>2. g[k - 1] \in A /\ \A i \in 0..(k - 1) : g[i] \in A /\ h[i] = g[i]
    BY <2>1
  <2>3. h \in [0..k -> A] /\ h[0] = base /\ h[k] = step[k][h[k - 1]]
    <3>1. step[k][g[k - 1]] \in A
      BY <2>2
    <3>2. h[k - 1] = g[k - 1] /\ h[0] = g[0] /\ k \in 0..k
      BY <2>2
    <3> QED BY <2>1, <2>2, <3>1, <3>2
  <2>4. ASSUME NEW i \in 1..k, i # k PROVE h[i] = step[i][h[i - 1]]
    <3>1. i \in 1..(k - 1) /\ i \in 0..(k - 1) /\ i - 1 \in 0..(k - 1)
      BY <2>4
    <3> HIDE DEF h
    <3> QED BY <2>1, <2>2, <3>1
  <2>5. Right(h, k)
    BY <2>3, <2>4
  <2> HIDE DEF h, Right
  <2> QED BY <2>3, <2>5
<1>3. n \in G
  <2> HIDE DEF G
  <2>1. \A k \in 0..n : k \in G
    BY <1>1, <1>2, InductionUpTo
  <2> QED BY <2>1
<1> QED BY <1>3 DEF Iterates

(* What a move of one element does to the size of a set. *)
One(b) == IF b THEN 1 ELSE 0

LEMMA CountMoves ==
  ASSUME NEW A, NEW B, NEW w, IsFiniteSet(A), \A v : v # w => (v \in A <=> v \in B)
  PROVE  /\ IsFiniteSet(B)
         /\ Cardinality(A) \in Nat /\ Cardinality(B) \in Nat
         /\ Cardinality(B) = Cardinality(A) - One(w \in A) + One(w \in B)
<1> DEFINE C == A \ {w}
<1>1. IsFiniteSet(C) /\ w \notin C
  BY FS_Subset
<1>2. IsFiniteSet(C \cup {w}) /\ Cardinality(C \cup {w}) = Cardinality(C) + 1
  BY <1>1, FS_AddElement
<1>3. Cardinality(C) \in Nat
  BY <1>1, FS_CardinalityType
<1>4. A = IF w \in A THEN C \cup {w} ELSE C
  OBVIOUS
<1>5. B = IF w \in B THEN C \cup {w} ELSE C
  <2>1. \A v : v \in C <=> v \in B /\ v # w
    OBVIOUS
  <2> HIDE DEF C
  <2> QED BY <2>1
<1> HIDE DEF C
<1> QED BY <1>1, <1>2, <1>3, <1>4, <1>5 DEF One

(* What is left of a list when only some of its places are kept. *)
Chosen(s, places) ==
  LET upTo[i \in 0..Len(s)] == IF i = 0 THEN <<>>
                               ELSE IF i \in places THEN Append(upTo[i - 1], s[i])
                               ELSE upTo[i - 1]
  IN  upTo[Len(s)]

ChosenUpTo(f, s, places) ==
  f[0] = <<>> /\ \A k \in 1..Len(s) : f[k] = IF k \in places THEN Append(f[k - 1], s[k]) ELSE f[k - 1]

LEMMA ChosenByPrefixes ==
  ASSUME NEW S, NEW s \in Seq(S), NEW places
  PROVE  \E f \in [0..Len(s) -> Seq(S)] : ChosenUpTo(f, s, places) /\ Chosen(s, places) = f[Len(s)]
<1> DEFINE n == Len(s)
           More(r, k) == IF k \in places THEN Append(r, s[k]) ELSE r
           step == [k \in 1..n |-> [r \in Seq(S) |-> More(r, k)]]
           list == CHOOSE f : f = [k \in 0..n |-> IF k = 0 THEN <<>> ELSE More(f[k - 1], k)]
<1>1. n \in Nat /\ \A k \in 1..n : s[k] \in S
  OBVIOUS
<1>2. ASSUME NEW r \in Seq(S), NEW k \in 1..n PROVE More(r, k) \in Seq(S)
  BY <1>1
<1>3. step \in [1..n -> [Seq(S) -> Seq(S)]]
  <2> HIDE DEF More
  <2> QED BY <1>2
<1>4. PICK f \in [0..n -> Seq(S)] : Iterates(f, <<>>, step, n)
  <2> HIDE DEF step, n
  <2>1. <<>> \in Seq(S)
    OBVIOUS
  <2> QED BY <1>1, <1>3, <2>1, RecursionUpTo
<1>5. \A k \in 1..n : f[k] = More(f[k - 1], k)
  <2> HIDE DEF More
  <2>1. \A k \in 1..n : k - 1 \in 0..n
    BY <1>1
  <2> QED BY <1>4, <2>1 DEF Iterates
<1>6. f = [k \in 0..n |-> IF k = 0 THEN <<>> ELSE More(f[k - 1], k)]
  <2> HIDE DEF More
  <2>1. \A k \in 0..n : k # 0 => k \in 1..n
    BY <1>1
  <2> QED BY <1>4, <1>5, <2>1 DEF Iterates
<1>7. list = [k \in 0..n |-> IF k = 0 THEN <<>> ELSE More(list[k - 1], k)]
  <2> HIDE DEF More
  <2> QED BY <1>6
<1>8. Chosen(s, places) = list[n]
  BY DEF Chosen
<1> HIDE DEF list
<1>9. list[0] = <<>> /\ \A k \in 1..n : list[k] = More(list[k - 1], k)
  <2> HIDE DEF More
  <2>1. 0 \in 0..n /\ \A k \in 1..n : k \in 0..n /\ k # 0
    BY <1>1
  <2> QED BY <1>7, <2>1
<1>10. list \in [0..n -> Seq(S)]
  <2> DEFINE G == {k \in 0..n : list[k] \in Seq(S)}
  <2>1. 0 \in G
    <3>1. 0 \in 0..n /\ <<>> \in Seq(S)
      BY <1>1
    <3> QED BY <1>9, <3>1
  <2>2. ASSUME NEW k \in 1..n, k - 1 \in G PROVE k \in G
    <3> HIDE DEF More
    <3> QED BY <1>2, <1>9, <2>2
  <2> HIDE DEF G
  <2>3. \A k \in 0..n : k \in G
    BY <1>1, <2>1, <2>2, InductionUpTo
  <2>4. \A k \in 0..n : list[k] \in Seq(S)
    BY <2>3 DEF G
  <2> HIDE DEF More
  <2> QED BY <1>7, <2>4
<1>11. ChosenUpTo(list, s, places)
  BY <1>9 DEF ChosenUpTo
<1> QED BY <1>8, <1>10, <1>11

(* The elements at the places kept are there, in their order, and no others. *)
ChosenFrom(r, s, k, places) ==
  /\ Len(r) <= k /\ ((\E i \in 1..k : i \notin places) => Len(r) < k)
  /\ \A a \in DOMAIN r : \E i \in 1..k : i \in places /\ r[a] = s[i]
  /\ \A i \in 1..k : i \in places => \E a \in DOMAIN r : r[a] = s[i]
  /\ \A a, b \in DOMAIN r : a < b =>
       \E i, j \in 1..k : i < j /\ i \in places /\ j \in places /\ r[a] = s[i] /\ r[b] = s[j]
  /\ \A i, j \in 1..k : i < j /\ i \in places /\ j \in places =>
       \E a, b \in DOMAIN r : a < b /\ r[a] = s[i] /\ r[b] = s[j]

LEMMA ChosenIs ==
  ASSUME NEW S, NEW s \in Seq(S), NEW places
  PROVE  Chosen(s, places) \in Seq(S) /\ ChosenFrom(Chosen(s, places), s, Len(s), places)
<1> DEFINE n == Len(s)
<1>1. PICK f \in [0..n -> Seq(S)] : ChosenUpTo(f, s, places) /\ Chosen(s, places) = f[n]
  BY ChosenByPrefixes
<1>2. n \in Nat /\ \A k \in 1..n : s[k] \in S
  OBVIOUS
<1> DEFINE G == {k \in 0..n : ChosenFrom(f[k], s, k, places)}
<1>3. 0 \in G
  <2>1. f[0] = <<>> /\ Len(<<>>) = 0 /\ DOMAIN <<>> = {} /\ 1..0 = {} /\ 0 \in 0..n
    BY <1>1, <1>2 DEF ChosenUpTo
  <2> QED BY <2>1 DEF ChosenFrom
<1>4. ASSUME NEW k \in 1..n, k - 1 \in G PROVE k \in G
  <2> DEFINE r == f[k - 1]
             q == f[k]
  <2>1. /\ r \in Seq(S) /\ ChosenFrom(r, s, k - 1, places) /\ k - 1 \in Nat /\ k \in 0..n
        /\ q = IF k \in places THEN Append(r, s[k]) ELSE r
    BY <1>1, <1>4 DEF ChosenUpTo
  <2>2. /\ \A i \in 1..k : i \in 1..(k - 1) \/ i = k
        /\ \A i \in 1..(k - 1) : i \in 1..k /\ i < k
        /\ k \in 1..k /\ Len(r) \in Nat /\ DOMAIN r = 1..Len(r)
    BY <2>1
  <2> HIDE DEF r, q
  <2>3. CASE k \notin places
    <3>1. q = r
      BY <2>1, <2>3
    <3>2. Len(r) <= k - 1 /\ Len(r) < k
      BY <2>1, <2>2 DEF ChosenFrom
    <3>3. /\ \A i \in 1..k : i \in places => i \in 1..(k - 1)
          /\ \A i \in 1..(k - 1) : i \in 1..k
      BY <2>2, <2>3
    <3>4. /\ \A a \in DOMAIN r : \E i \in 1..(k - 1) : i \in places /\ r[a] = s[i]
          /\ \A i \in 1..(k - 1) : i \in places => \E a \in DOMAIN r : r[a] = s[i]
          /\ \A a, b \in DOMAIN r : a < b =>
               \E i, j \in 1..(k - 1) : i < j /\ i \in places /\ j \in places /\ r[a] = s[i] /\ r[b] = s[j]
          /\ \A i, j \in 1..(k - 1) : i < j /\ i \in places /\ j \in places =>
               \E a, b \in DOMAIN r : a < b /\ r[a] = s[i] /\ r[b] = s[j]
      BY <2>1 DEF ChosenFrom
    <3>5. \A a \in DOMAIN r : \E i \in 1..k : i \in places /\ r[a] = s[i]
      BY <3>3, <3>4
    <3>6. \A i \in 1..k : i \in places => \E a \in DOMAIN r : r[a] = s[i]
      BY <3>3, <3>4
    <3>7. ASSUME NEW a \in DOMAIN r, NEW b \in DOMAIN r, a < b
          PROVE  \E i, j \in 1..k : i < j /\ i \in places /\ j \in places /\ r[a] = s[i] /\ r[b] = s[j]
      <4>1. PICK i, j \in 1..(k - 1) : i < j /\ i \in places /\ j \in places /\ r[a] = s[i] /\ r[b] = s[j]
        BY <3>4, <3>7
      <4> QED BY <3>3, <4>1
    <3>8. \A i, j \in 1..k : i < j /\ i \in places /\ j \in places =>
            \E a, b \in DOMAIN r : a < b /\ r[a] = s[i] /\ r[b] = s[j]
      BY <3>3, <3>4
    <3>9. Len(r) <= k /\ ((\E i \in 1..k : i \notin places) => Len(r) < k)
      BY <2>1, <2>2, <3>2
    <3>10. ChosenFrom(r, s, k, places)
      BY <3>5, <3>6, <3>7, <3>8, <3>9 DEF ChosenFrom
    <3> QED BY <2>1, <3>1, <3>10 DEF q
  <2>4. CASE k \in places
    <3>1. /\ q \in Seq(S) /\ Len(q) = Len(r) + 1 /\ DOMAIN q = 1..(Len(r) + 1)
          /\ q[Len(r) + 1] = s[k] /\ \A a \in 1..Len(r) : q[a] = r[a]
      BY <1>2, <2>1, <2>4
    <3>2. /\ \A a \in DOMAIN q : a \in DOMAIN r \/ a = Len(r) + 1
          /\ \A a \in DOMAIN r : a \in DOMAIN q /\ a < Len(r) + 1 /\ q[a] = r[a]
          /\ Len(r) + 1 \in DOMAIN q
      BY <2>2, <3>1
    <3>3. Len(q) <= k /\ ((\E i \in 1..k : i \notin places) => Len(q) < k)
      BY <2>1, <2>2, <2>4, <3>1 DEF ChosenFrom
    <3>4. \A a \in DOMAIN q : \E i \in 1..k : i \in places /\ q[a] = s[i]
      BY <2>1, <2>2, <2>4, <3>1, <3>2 DEF ChosenFrom
    <3>5. ASSUME NEW i \in 1..k, i \in places PROVE \E a \in DOMAIN q : q[a] = s[i]
      <4>1. CASE i \in 1..(k - 1)
        <5>1. PICK a \in DOMAIN r : r[a] = s[i]
          BY <2>1, <3>5, <4>1 DEF ChosenFrom
        <5> QED BY <3>2, <5>1
      <4>2. CASE i = k
        BY <3>1, <3>2, <4>2
      <4> QED BY <2>2, <4>1, <4>2
    <3>6. ASSUME NEW a \in DOMAIN q, NEW b \in DOMAIN q, a < b
          PROVE  \E i, j \in 1..k : i < j /\ i \in places /\ j \in places /\ q[a] = s[i] /\ q[b] = s[j]
      <4>1. a \in DOMAIN r
        BY <2>2, <3>1, <3>2, <3>6
      <4>2. CASE b \in DOMAIN r
        <5>1. PICK i, j \in 1..(k - 1) : i < j /\ i \in places /\ j \in places /\ r[a] = s[i] /\ r[b] = s[j]
          BY <2>1, <3>6, <4>1, <4>2 DEF ChosenFrom
        <5> QED BY <2>2, <3>2, <4>1, <4>2, <5>1
      <4>3. CASE b = Len(r) + 1
        <5>1. PICK i \in 1..(k - 1) : i \in places /\ r[a] = s[i]
          BY <2>1, <4>1 DEF ChosenFrom
        <5>2. q[a] = s[i] /\ q[b] = s[k] /\ i < k /\ i \in 1..k
          BY <2>2, <3>1, <3>2, <4>1, <4>3, <5>1
        <5> QED BY <2>2, <2>4, <5>1, <5>2
      <4> QED BY <3>2, <4>2, <4>3
    <3>7. ASSUME NEW i \in 1..k, NEW j \in 1..k, i < j, i \in places, j \in places
          PROVE  \E a, b \in DOMAIN q : a < b /\ q[a] = s[i] /\ q[b] = s[j]
      <4>1. i \in 1..(k - 1)
        BY <2>1, <2>2, <3>7
      <4>2. CASE j \in 1..(k - 1)
        <5>1. PICK a, b \in DOMAIN r : a < b /\ r[a] = s[i] /\ r[b] = s[j]
          BY <2>1, <3>7, <4>1, <4>2 DEF ChosenFrom
        <5> QED BY <3>2, <5>1
      <4>3. CASE j = k
        <5>1. PICK a \in DOMAIN r : r[a] = s[i]
          BY <2>1, <3>7, <4>1 DEF ChosenFrom
        <5>2. a \in DOMAIN q /\ a < Len(r) + 1 /\ q[a] = s[i] /\ Len(r) + 1 \in DOMAIN q /\ q[Len(r) + 1] = s[j]
          BY <3>1, <3>2, <4>3, <5>1
        <5> QED BY <5>2
      <4> QED BY <2>2, <4>2, <4>3
    <3>8. ChosenFrom(q, s, k, places)
      BY <3>3, <3>4, <3>5, <3>6, <3>7 DEF ChosenFrom
    <3> QED BY <2>1, <3>8 DEF q
  <2> QED BY <2>3, <2>4
<1>5. \A k \in 0..n : k \in G
  <2> HIDE DEF G
  <2> QED BY <1>2, <1>3, <1>4, InductionUpTo
<1>6. n \in 0..n
  BY <1>2
<1> QED BY <1>1, <1>5, <1>6

(* When the places kept are the last ones, their elements follow each other. *)
LEMMA ChosenSuffix ==
  ASSUME NEW S, NEW s \in Seq(S), NEW places, NEW d \in 0..Len(s),
         \A i \in 1..Len(s) : i \in places <=> i > d
  PROVE  /\ Chosen(s, places) \in Seq(S) /\ Len(Chosen(s, places)) = Len(s) - d
         /\ \A k \in 1..(Len(s) - d) : Chosen(s, places)[k] = s[d + k]
<1> DEFINE n == Len(s)
<1>1. PICK f \in [0..n -> Seq(S)] : ChosenUpTo(f, s, places) /\ Chosen(s, places) = f[n]
  BY ChosenByPrefixes
<1>2. n \in Nat /\ d \in Nat /\ d <= n /\ \A k \in 1..n : s[k] \in S
  OBVIOUS
<1> DEFINE Ends(r, k) == /\ k <= d => r = <<>>
                         /\ k >= d => Len(r) = k - d /\ \A j \in 1..(k - d) : r[j] = s[d + j]
           G == {k \in 0..n : Ends(f[k], k)}
<1>3. 0 \in G
  <2>1. f[0] = <<>> /\ Len(<<>>) = 0 /\ 0 \in 0..n
    BY <1>1, <1>2 DEF ChosenUpTo
  <2> QED BY <1>2, <2>1
<1>4. ASSUME NEW k \in 1..n, k - 1 \in G PROVE k \in G
  <2> DEFINE r == f[k - 1]
             q == f[k]
  <2>1. /\ r \in Seq(S) /\ Ends(r, k - 1) /\ k - 1 \in Nat /\ k \in 0..n /\ k \in Nat
        /\ q = IF k \in places THEN Append(r, s[k]) ELSE r
    <3> HIDE DEF Ends
    <3>1. k - 1 \in 0..n /\ k \in 0..n /\ k - 1 \in Nat /\ k \in Nat
      BY <1>2
    <3> QED BY <1>1, <1>4, <3>1 DEF ChosenUpTo
  <2> HIDE DEF r, q
  <2>2. CASE k <= d
    <3>1. k \notin places /\ k - 1 <= d
      BY <1>2, <2>1, <2>2
    <3>2. q = <<>> /\ Len(<<>>) = 0
      BY <2>1, <3>1
    <3>3. Ends(q, k)
      BY <1>2, <2>1, <2>2, <3>2
    <3> QED BY <2>1, <3>3 DEF q
  <2>3. CASE k > d
    <3>1. k \in places /\ k - 1 >= d
      BY <1>2, <2>1, <2>3
    <3>2. Len(r) = k - 1 - d /\ \A j \in 1..(k - 1 - d) : r[j] = s[d + j]
      BY <2>1, <3>1
    <3>3. Len(q) = Len(r) + 1 /\ q[Len(r) + 1] = s[k] /\ \A j \in 1..Len(r) : q[j] = r[j]
      BY <1>2, <2>1, <3>1
    <3>4. ASSUME NEW j \in 1..(k - d) PROVE q[j] = s[d + j]
      <4>1. j \in 1..(k - 1 - d) \/ (j = Len(r) + 1 /\ d + j = k)
        BY <1>2, <2>1, <2>3, <3>2
      <4> QED BY <3>2, <3>3, <4>1
    <3>5. Ends(q, k)
      BY <1>2, <2>1, <2>3, <3>2, <3>3, <3>4
    <3> QED BY <2>1, <3>5 DEF q
  <2> QED BY <1>2, <2>1, <2>2, <2>3
<1>5. \A k \in 0..n : k \in G
  <2> HIDE DEF G
  <2> QED BY <1>2, <1>3, <1>4, InductionUpTo
<1>6. n \in 0..n /\ n >= d
  BY <1>2
<1>7. Ends(f[n], n) /\ f[n] \in Seq(S)
  BY <1>1, <1>5, <1>6
<1> QED BY <1>1, <1>6, <1>7
===============================================================================
