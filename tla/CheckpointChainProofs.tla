------------------------ MODULE CheckpointChainProofs ------------------------
(***************************************************************************)
(* Lemmas about the chain operators, for every sequence of entries: which  *)
(* checkpoint is the last one, and when adding an entry keeps the chain    *)
(* linked.  At the end, what other proofs share: a function defined by     *)
(* recursion on naturals exists, and powers of two.                        *)
(***************************************************************************)
EXTENDS CheckpointChain, Powers, SequenceTheorems, FiniteSetTheorems, WellFoundedInduction, TLAPS

\* Every non-empty set of naturals has a least element.
LEMMA LeastElement ==
    ASSUME NEW S \in SUBSET Nat, S # {}
    PROVE  \E m \in S : \A n \in S : m <= n
<1>1. IsWellFoundedOn(OpToRel(<, Nat), Nat)
  BY NatLessThanWellFounded
<1>2. PICK m \in S : \A n \in S : <<n, m>> \notin OpToRel(<, Nat)
  BY <1>1, WFMin
<1>3. ASSUME NEW n \in S PROVE m <= n
  <2>1. <<n, m>> \in Nat \X Nat
    OBVIOUS
  <2>2. ~(n < m)
    BY <1>2, <2>1 DEF OpToRel
  <2> QED
    BY <2>2
<1> QED
  BY <1>3

\* A sequence with a checkpointed entry has a last one, and LastChained is it.
LEMMA LastChainedIsLast ==
    ASSUME NEW E, NEW r \in Seq(E), NEW k \in DOMAIN r, Chained(r[k])
    PROVE  /\ LastChained(r) \in DOMAIN r
           /\ Chained(r[LastChained(r)])
           /\ \A j \in DOMAIN r : Chained(r[j]) => j <= LastChained(r)
<1> DEFINE After == {Len(r) - i : i \in {j \in DOMAIN r : Chained(r[j])}}
<1>1. DOMAIN r = 1..Len(r) /\ Len(r) \in Nat
  BY LenProperties
<1>2. After \in SUBSET Nat /\ After # {}
  BY <1>1
<1>3. PICK m \in After : \A n \in After : m <= n
  BY <1>2, LeastElement
<1>4. PICK i \in DOMAIN r : Chained(r[i]) /\ m = Len(r) - i
  BY <1>3
<1>5. ASSUME NEW j \in DOMAIN r, Chained(r[j]) PROVE j <= i
  <2>1. Len(r) - j \in After
    BY <1>5
  <2>2. Len(r) - i <= Len(r) - j
    BY <1>3, <1>4, <2>1
  <2> QED
    BY <1>1, <2>2
<1> QED
  BY <1>4, <1>5 DEF LastChained

\* LastCheckpoint is NoCheckpoint exactly for a registry without checkpoints.
LEMMA LastCheckpointCases ==
    ASSUME NEW E, NEW r \in Seq(E)
    PROVE  \/ /\ LastCheckpoint(r) = NoCheckpoint
              /\ \A i \in DOMAIN r : ~Chained(r[i])
           \/ /\ LastCheckpoint(r) # NoCheckpoint
              /\ LastCheckpoint(r).leaves # <<>>
              /\ \E i \in DOMAIN r : LastCheckpoint(r) = r[i].cp
<1>1. CASE \A i \in DOMAIN r : ~Chained(r[i])
  BY <1>1 DEF LastCheckpoint
<1>2. CASE \E i \in DOMAIN r : Chained(r[i])
  <2>1. /\ LastChained(r) \in DOMAIN r
        /\ Chained(r[LastChained(r)])
    BY <1>2, LastChainedIsLast
  <2>2. LastCheckpoint(r) = r[LastChained(r)].cp
    BY <1>2 DEF LastCheckpoint
  <2>3. LastCheckpoint(r).leaves # <<>>
    BY <2>1, <2>2 DEF Chained
  <2>4. NoCheckpoint.leaves = <<>>
    BY DEF NoCheckpoint
  <2> QED
    BY <2>1, <2>2, <2>3, <2>4
<1> QED
  BY <1>1, <1>2

\* Without a checkpointed entry there is no leaf.
LEMMA NoChainedNoLeaves ==
    ASSUME NEW r, \A i \in DOMAIN r : ~Chained(r[i])
    PROVE  LeavesOf(r) = <<>>
<1>1. Cardinality(ChainedIn(r)) = 0
  BY FS_EmptySet DEF ChainedIn
<1>2. 1..Cardinality(ChainedIn(r)) = {}
  BY <1>1
<1>3. \A f : f \in [{} -> {}] => f = <<>>
  OBVIOUS
<1>4. DOMAIN Pick(r, ChainedIn(r)) = {}
  BY <1>2 DEF Pick
<1> QED
  BY <1>3, <1>4 DEF LeavesOf

\* Appending a checkpointed entry makes its checkpoint the last one.
LEMMA LastCheckpointOfAppend ==
    ASSUME NEW E, NEW r \in Seq(E), NEW e \in E, Chained(e)
    PROVE  LastCheckpoint(Append(r, e)) = e.cp
<1> DEFINE s == Append(r, e)
<1>1. /\ s \in Seq(E)
      /\ Len(s) = Len(r) + 1
      /\ s[Len(r) + 1] = e
  BY AppendProperties
<1>2. DOMAIN s = 1..Len(r) + 1 /\ Len(r) \in Nat
  BY <1>1, LenProperties
<1>0. Len(r) + 1 \in DOMAIN s /\ Chained(s[Len(r) + 1])
  BY <1>1, <1>2
<1> HIDE DEF s
<1>3. /\ LastChained(s) \in DOMAIN s
      /\ Len(r) + 1 <= LastChained(s)
  BY <1>0, <1>1, LastChainedIsLast
<1>4. LastChained(s) = Len(r) + 1
  BY <1>2, <1>3
<1>5. LastCheckpoint(s) = s[LastChained(s)].cp
  BY <1>0 DEF LastCheckpoint
<1> QED
  BY <1>1, <1>4, <1>5 DEF s

\* An entry whose checkpoint adds its leaf to the last checkpoint keeps a
\* linked registry linked.
LEMMA LinkedAppend ==
    ASSUME NEW E, NEW r \in Seq(E), NEW e \in E, Linked(r),
           e.cp.prev = LastCheckpoint(r).leaves,
           e.cp.leaves = Append(LastCheckpoint(r).leaves, LeafOf(e)),
           LastCheckpoint(r) # NoCheckpoint => e.cp.origin = LastCheckpoint(r).origin
    PROVE  Linked(Append(r, e))
<1> DEFINE s == Append(r, e)
<1>1. /\ s \in Seq(E)
      /\ Len(s) = Len(r) + 1
      /\ \A i \in 1..Len(r) : s[i] = r[i]
      /\ s[Len(r) + 1] = e
  BY AppendProperties
<1>2. /\ DOMAIN s = 1..Len(r) + 1
      /\ DOMAIN r = 1..Len(r)
      /\ Len(r) \in Nat
  BY <1>1, LenProperties
<1>3. ASSUME NEW i \in DOMAIN s PROVE SubSeq(s, 1, i - 1) = SubSeq(r, 1, i - 1)
  <2>1. i - 1 \in Int /\ i - 1 <= Len(r)
    BY <1>2
  <2>2. \A j \in 1..i - 1 : s[j] \in E /\ r[j] \in E /\ s[j] = r[j]
    BY <1>1, <1>2, <2>1, ElementOfSeq
  <2>3. /\ SubSeq(s, 1, i - 1) \in Seq(E)
        /\ Len(SubSeq(s, 1, i - 1)) = IF 1 <= i - 1 THEN i - 1 - 1 + 1 ELSE 0
        /\ \A j \in 1..i - 1 - 1 + 1 : SubSeq(s, 1, i - 1)[j] = s[1 + j - 1]
    BY <2>1, <2>2, SubSeqProperties
  <2>4. /\ SubSeq(r, 1, i - 1) \in Seq(E)
        /\ Len(SubSeq(r, 1, i - 1)) = IF 1 <= i - 1 THEN i - 1 - 1 + 1 ELSE 0
        /\ \A j \in 1..i - 1 - 1 + 1 : SubSeq(r, 1, i - 1)[j] = r[1 + j - 1]
    BY <2>1, <2>2, SubSeqProperties
  <2>5. \A j \in 1..Len(SubSeq(s, 1, i - 1)) : SubSeq(s, 1, i - 1)[j] = SubSeq(r, 1, i - 1)[j]
    BY <1>2, <2>1, <2>2, <2>3, <2>4
  <2> QED
    BY <2>3, <2>4, <2>5, SeqEqual
<1>4. ASSUME NEW i \in DOMAIN s PROVE LinkedAt(s, i)
  <2>1. CASE i \in DOMAIN r
    <3>1. LinkedAt(r, i)
      BY <2>1 DEF Linked
    <3>2. s[i] = r[i]
      BY <1>1, <1>2, <2>1
    <3> QED
      BY <1>3, <3>1, <3>2 DEF LinkedAt
  <2>2. CASE i = Len(r) + 1
    <3>1. SubSeq(s, 1, i - 1) = r
      BY <1>2, <1>3, <2>2, SubSeqFull
    <3>2. s[i] = e
      BY <1>1, <2>2
    <3> QED
      BY <3>1, <3>2 DEF LinkedAt
  <2> QED
    BY <1>2, <2>1, <2>2
<1> QED
  BY <1>4 DEF Linked

-----------------------------------------------------------------------------
(* Ranks number the elements of a finite set of naturals without gaps, so     *)
(* Pick keeps each chosen element of a sequence once and in order.            *)

LEMMA RankGrows ==
    ASSUME NEW I \in SUBSET Nat, IsFiniteSet(I), NEW i \in I
    PROVE  /\ Rank(I, i) \in 1..Cardinality(I)
           /\ \A j \in I : i < j => Rank(I, i) < Rank(I, j)
<1> DEFINE upTo(k) == {j \in I : j <= k}
<1>1. ASSUME NEW k PROVE /\ IsFiniteSet(upTo(k)) /\ Cardinality(upTo(k)) \in Nat
                         /\ Cardinality(upTo(k)) <= Cardinality(I)
  <2>1. upTo(k) \in SUBSET I
    OBVIOUS
  <2> QED
    BY <2>1, FS_Subset, FS_CardinalityType
<1>2. i \in upTo(i)
  OBVIOUS
<1>3. Cardinality(upTo(i)) # 0
  BY <1>1, <1>2, FS_EmptySet
<1>4. ASSUME NEW j \in I, i < j
      PROVE  Cardinality(upTo(i)) < Cardinality(upTo(j))
  <2>1. i \in Nat /\ j \in Nat /\ \A k \in I : k \in Nat
    OBVIOUS
  <2>2. upTo(i) \in SUBSET upTo(j) /\ j \in upTo(j) /\ j \notin upTo(i)
    <3>1. j <= j /\ ~(j <= i) /\ \A k \in I : k <= i => k <= j
      BY <1>4, <2>1
    <3> QED
      BY <3>1
  <2>3. upTo(i) # upTo(j)
    BY <2>2
  <2>4. Cardinality(upTo(i)) <= Cardinality(upTo(j)) /\ Cardinality(upTo(i)) # Cardinality(upTo(j))
    BY <1>1, <2>2, <2>3, FS_Subset
  <2>5. Cardinality(upTo(i)) \in Nat /\ Cardinality(upTo(j)) \in Nat
    BY <1>1
  <2> HIDE DEF upTo
  <2> QED
    BY <2>4, <2>5
<1>5. \A k : Rank(I, k) = Cardinality(upTo(k))
  BY DEF Rank
<1> HIDE DEF upTo
<1>6. Cardinality(I) \in Nat
  BY FS_CardinalityType
<1> QED
  BY <1>1, <1>3, <1>4, <1>5, <1>6

LEMMA NthHasRank ==
    ASSUME NEW I \in SUBSET Nat, IsFiniteSet(I)
    PROVE  /\ \A k \in 1..Cardinality(I) : Nth(I, k) \in I /\ Rank(I, Nth(I, k)) = k
           /\ \A i \in I : Nth(I, Rank(I, i)) = i
<1> DEFINE N == Cardinality(I)
           rank == [i \in I |-> Rank(I, i)]
<1>1. N \in Nat
  BY FS_CardinalityType
<1>2. \A i \in I : Rank(I, i) \in 1..N
  BY RankGrows
<1>3. \A i, j \in I : Rank(I, i) = Rank(I, j) => i = j
  <2> SUFFICES ASSUME NEW i \in I, NEW j \in I, i # j PROVE Rank(I, i) # Rank(I, j)
    OBVIOUS
  <2>1. i < j \/ j < i
    OBVIOUS
  <2>2. Rank(I, i) < Rank(I, j) \/ Rank(I, j) < Rank(I, i)
    BY <2>1, RankGrows
  <2>3. Rank(I, i) \in Nat /\ Rank(I, j) \in Nat
    BY <1>1, <1>2
  <2> QED
    BY <2>2, <2>3
<1>4. rank \in Injection(I, 1..N)
  BY <1>2, <1>3 DEF Injection, IsInjective
<1>5. IsFiniteSet(1..N) /\ Cardinality(1..N) = N
  BY <1>1, FS_Interval
<1>6. rank \in Surjection(I, 1..N)
  BY <1>4, <1>5, FS_Injection
<1>7. \A k \in 1..N : \E i \in I : Rank(I, i) = k
  BY <1>6 DEF Surjection
<1> HIDE DEF rank
<1>8. \A k \in 1..N : Nth(I, k) \in I /\ Rank(I, Nth(I, k)) = k
  BY <1>7 DEF Nth
<1>9. \A i \in I : Nth(I, Rank(I, i)) = i
  BY <1>2, <1>3, <1>8
<1> QED
  BY <1>8, <1>9

\* Indexes of a sequence are a finite set of naturals.
LEMMA IndexesFinite ==
    ASSUME NEW E, NEW s \in Seq(E), NEW I \in SUBSET DOMAIN s
    PROVE  /\ I \in SUBSET Nat
           /\ IsFiniteSet(I)
           /\ Cardinality(I) \in Nat
<1>1. DOMAIN s = 1..Len(s) /\ Len(s) \in Nat
  BY LenProperties
<1>2. IsFiniteSet(1..Len(s))
  BY <1>1, FS_Interval
<1>3. IsFiniteSet(I)
  BY <1>1, <1>2, FS_Subset
<1> QED
  BY <1>1, <1>3, FS_CardinalityType

\* What Pick returns: exactly the chosen elements, each at its rank.
LEMMA PickProperties ==
    ASSUME NEW E, NEW s \in Seq(E), NEW I \in SUBSET DOMAIN s
    PROVE  /\ Pick(s, I) \in Seq(E)
           /\ DOMAIN Pick(s, I) = 1..Cardinality(I)
           /\ Len(Pick(s, I)) = Cardinality(I)
           /\ \A k \in DOMAIN Pick(s, I) : Nth(I, k) \in I /\ Pick(s, I)[k] = s[Nth(I, k)]
           /\ \A i \in I : Rank(I, i) \in DOMAIN Pick(s, I) /\ Pick(s, I)[Rank(I, i)] = s[i]
           /\ \A k, n \in DOMAIN Pick(s, I) : Nth(I, k) = Nth(I, n) => k = n
<1>1. I \in SUBSET Nat /\ IsFiniteSet(I) /\ Cardinality(I) \in Nat
  BY IndexesFinite
<1>2. \A i \in I : s[i] \in E
  BY ElementOfSeq, LenProperties
<1>3. DOMAIN Pick(s, I) = 1..Cardinality(I)
  BY DEF Pick
<1>4. \A k \in 1..Cardinality(I) : /\ Nth(I, k) \in I /\ Rank(I, Nth(I, k)) = k
                                   /\ Pick(s, I)[k] = s[Nth(I, k)]
  BY <1>1, NthHasRank DEF Pick
<1>5. \A i \in I : Rank(I, i) \in 1..Cardinality(I) /\ Nth(I, Rank(I, i)) = i
  BY <1>1, NthHasRank, RankGrows
<1>6. Pick(s, I) \in [1..Cardinality(I) -> E]
  BY <1>2, <1>4 DEF Pick
<1>7. Pick(s, I) \in Seq(E) /\ Len(Pick(s, I)) = Cardinality(I)
  BY <1>1, <1>6
<1> QED
  BY <1>3, <1>4, <1>5, <1>7

\* The checkpointed entries.
LEMMA ChainedFinite ==
    ASSUME NEW E, NEW r \in Seq(E)
    PROVE  /\ ChainedIn(r) \subseteq 1..Len(r) /\ Len(r) \in Nat
           /\ ChainedIn(r) \in SUBSET DOMAIN r
           /\ ChainedIn(r) \in SUBSET Nat
           /\ IsFiniteSet(ChainedIn(r))
           /\ Cardinality(ChainedIn(r)) \in Nat
<1>1. ChainedIn(r) \subseteq 1..Len(r) /\ Len(r) \in Nat /\ DOMAIN r = 1..Len(r)
  BY LenProperties DEF ChainedIn
<1> QED
  BY <1>1, IndexesFinite

\* The leaves and the checkpoints, one by one.
LEMMA ChainElements ==
    ASSUME NEW E, NEW r \in Seq(E)
    PROVE  LET I == ChainedIn(r) IN
           /\ LeavesOf(r) = [k \in 1..Cardinality(I) |-> LeafOf(r[Nth(I, k)])]
           /\ CheckpointsOf(r) = [k \in 1..Cardinality(I) |-> r[Nth(I, k)].cp]
<1> DEFINE I == ChainedIn(r)
<1>1. I \in SUBSET DOMAIN r
  BY ChainedFinite
<1> HIDE DEF I
<1>2. /\ DOMAIN Pick(r, I) = 1..Cardinality(I)
      /\ \A k \in DOMAIN Pick(r, I) : Pick(r, I)[k] = r[Nth(I, k)]
  BY <1>1, PickProperties
<1> QED
  BY <1>2 DEF LeavesOf, CheckpointsOf, I

\* What is folded up to a checkpointed entry: the first leaves, as many as its rank.
LEMMA LeavesUpTo ==
    ASSUME NEW E, NEW r \in Seq(E), NEW i \in ChainedIn(r)
    PROVE  LeavesOf(SubSeq(r, 1, i)) = [k \in 1..Rank(ChainedIn(r), i) |-> LeavesOf(r)[k]]
<1> DEFINE t == SubSeq(r, 1, i)
<1>1. i \in 1..Len(r) /\ Len(r) \in Nat /\ \A j \in ChainedIn(r) : j \in Nat
  BY ChainedFinite
<1>2. t \in Seq(E) /\ Len(t) = i /\ \A j \in 1..i : t[j] = r[j]
  <2>1. \A j \in 1..i : r[j] \in E
    BY <1>1, ElementOfSeq
  <2> QED
    BY <1>1, <2>1, SubSeqProperties
<1>3. DOMAIN t = 1..i /\ DOMAIN r = 1..Len(r)
  BY <1>2, LenProperties
<1> HIDE DEF t
<1>4. ChainedIn(t) = {j \in ChainedIn(r) : j <= i}
  BY <1>1, <1>2, <1>3 DEF ChainedIn
<1>5. Cardinality(ChainedIn(t)) = Rank(ChainedIn(r), i)
  BY <1>4 DEF Rank
<1>6. ASSUME NEW j \in ChainedIn(t) PROVE Rank(ChainedIn(t), j) = Rank(ChainedIn(r), j)
  <2>1. j <= i /\ j \in Nat
    BY <1>1, <1>4
  <2>2. {k \in ChainedIn(t) : k <= j} = {k \in ChainedIn(r) : k <= j}
    <3>1. \A k \in ChainedIn(r) : k <= j => k <= i
      BY <1>1, <2>1
    <3>2. \A k : k \in ChainedIn(t) <=> k \in ChainedIn(r) /\ k <= i
      BY <1>4
    <3> QED
      BY <3>1, <3>2
  <2> QED
    BY <2>2 DEF Rank
<1>7. ASSUME NEW k \in 1..Rank(ChainedIn(r), i) PROVE Nth(ChainedIn(t), k) = Nth(ChainedIn(r), k) /\ t[Nth(ChainedIn(r), k)] = r[Nth(ChainedIn(r), k)]
                                           /\ k \in 1..Cardinality(ChainedIn(r))
  <2>1. k \in 1..Cardinality(ChainedIn(r)) /\ k <= Rank(ChainedIn(r), i) /\ Rank(ChainedIn(r), i) \in Nat
    BY ChainedFinite, RankGrows
  <2>2. Nth(ChainedIn(r), k) \in ChainedIn(r) /\ Rank(ChainedIn(r), Nth(ChainedIn(r), k)) = k
    BY <2>1, ChainedFinite, NthHasRank
  <2>3. ~(i < Nth(ChainedIn(r), k))
    <3>1. i < Nth(ChainedIn(r), k) => Rank(ChainedIn(r), i) < k
      BY <2>2, ChainedFinite, RankGrows
    <3> QED
      BY <2>1, <3>1
  <2>4. Nth(ChainedIn(r), k) \in ChainedIn(t) /\ Nth(ChainedIn(r), k) \in 1..i
    BY <1>1, <1>4, <2>2, <2>3, ChainedFinite
  <2>5. Nth(ChainedIn(t), Rank(ChainedIn(t), Nth(ChainedIn(r), k))) = Nth(ChainedIn(r), k)
    BY <1>2, <2>4, ChainedFinite, NthHasRank
  <2> QED
    BY <1>2, <1>6, <2>1, <2>2, <2>4, <2>5
<1>8. ASSUME NEW k \in 1..Rank(ChainedIn(r), i)
      PROVE  LeafOf(t[Nth(ChainedIn(t), k)]) = LeavesOf(r)[k]
  <2>1. LeavesOf(r) = [n \in 1..Cardinality(ChainedIn(r)) |-> LeafOf(r[Nth(ChainedIn(r), n)])]
    BY ChainElements
  <2>2. LeavesOf(r)[k] = LeafOf(r[Nth(ChainedIn(r), k)])
    BY <1>7, <2>1
  <2> QED
    BY <1>7, <2>2
<1>9. LeavesOf(t) = [k \in 1..Rank(ChainedIn(r), i) |-> LeafOf(t[Nth(ChainedIn(t), k)])]
  BY <1>2, <1>5, ChainElements
<1> QED
  BY <1>8, <1>9 DEF t

-----------------------------------------------------------------------------
(* Opening a log compares the last checkpoint only.  In a registry whose      *)
(* checkpoints each cover more than the one before, that is enough: where the *)
(* last covers exactly the entries there are, so does every earlier one.      *)

Extends(s, t) == Len(s) <= Len(t) /\ \A k \in 1..Len(s) : t[k] = s[k]

\* A checkpoint is minted over one leaf more than the one it names.
OneLeafMore(cp) ==
    Extends(cp.prev, cp.leaves) /\ Len(cp.leaves) = Len(cp.prev) + 1

ChainGrows(r) ==
    \A i \in ChainedIn(r) :
        /\ OneLeafMore(r[i].cp)
        /\ \A j \in ChainedIn(r) : i < j =>
              /\ Extends(r[i].cp.leaves, r[j].cp.leaves)
              /\ Len(r[i].cp.leaves) < Len(r[j].cp.leaves)
              /\ r[i].cp.origin = r[j].cp.origin

\* In a growing chain that ends at as many leaves as it has checkpoints, each
\* checkpoint covers as many as its rank: none covers fewer, as those before it
\* cover fewer still, and none more, as those after it do.
LEMMA GrowthIsByOne ==
    ASSUME NEW E, NEW r \in Seq(E), NEW L, \A j \in DOMAIN r : r[j].cp.leaves \in Seq(L),
           ChainGrows(r), NEW last \in ChainedIn(r),
           \A j \in ChainedIn(r) : j <= last,
           Len(r[last].cp.leaves) = Cardinality(ChainedIn(r)),
           NEW i \in ChainedIn(r)
    PROVE  Len(r[i].cp.leaves) = Rank(ChainedIn(r), i)
<1> DEFINE S == ChainedIn(r)
           N == Cardinality(S)
           size(j) == Len(r[j].cp.leaves)
           before == {j \in S : j <= i}
           after == S \ before
           down == [j \in before |-> size(j)]
           up == [j \in after |-> size(j)]
<1>1. IsFiniteSet(S) /\ N \in Nat /\ S \subseteq 1..Len(r) /\ S \subseteq Nat /\ Len(r) \in Nat
  BY ChainedFinite
<1>2. \A j \in S : size(j) \in Nat /\ size(j) # 0
  <2>1. ASSUME NEW j \in S PROVE size(j) \in Nat /\ size(j) # 0
    <3>1. r[j].cp.leaves \in Seq(L) /\ r[j].cp.leaves # <<>>
      BY DEF ChainedIn, Chained
    <3> QED
      BY <3>1, EmptySeq, LenProperties
  <2> QED
    BY <2>1
<1>3. \A j, k \in S : j < k => size(j) < size(k)
  BY DEF ChainGrows
<1> HIDE DEF size
<1>4. \A j, k \in S : size(j) = size(k) => j = k
  <2>1. ASSUME NEW j \in S, NEW k \in S, j # k PROVE size(j) # size(k)
    <3>1. j < k \/ k < j
      BY <1>1, <2>1
    <3>2. size(j) < size(k) \/ size(k) < size(j)
      BY <1>3, <3>1
    <3> QED
      BY <1>2, <3>2
  <2> QED
    BY <2>1
<1>5. \A j \in S : j < last \/ j = last
  BY <1>1
<1>6. size(last) = N /\ \A j \in S : size(j) <= N
  <2>1. size(last) = N
    BY DEF size
  <2> QED
    BY <1>1, <1>2, <1>3, <1>5, <2>1
<1>7. Rank(ChainedIn(r), i) <= size(i)
  <2>1. \A j \in before : size(j) \in 1..size(i)
    <3>1. ASSUME NEW j \in before PROVE size(j) \in 1..size(i)
      <4>1. j \in S /\ (j < i \/ j = i)
        BY <1>1
      <4>2. size(j) < size(i) \/ j = i
        BY <1>3, <4>1
      <4> QED
        BY <1>2, <4>1, <4>2
    <3> QED
      BY <3>1
  <2>2. \A j, k \in before : size(j) = size(k) => j = k
    BY <1>4
  <2>3. down \in Injection(before, 1..size(i))
    BY <2>1, <2>2 DEF Injection, IsInjective
  <2>4. IsFiniteSet(1..size(i)) /\ Cardinality(1..size(i)) = size(i)
    BY <1>2, FS_Interval
  <2>5. Cardinality(before) <= size(i)
    BY <2>3, <2>4, FS_Injection
  <2> QED
    BY <2>5 DEF Rank
<1>8. N - Rank(ChainedIn(r), i) <= N - size(i)
  <2>1. \A j \in after : size(j) \in size(i) + 1 .. N
    <3>1. ASSUME NEW j \in after PROVE size(j) \in size(i) + 1 .. N
      <4>1. j \in S /\ i < j
        BY <1>1
      <4>2. size(i) < size(j) /\ size(j) <= N
        BY <1>3, <1>6, <4>1
      <4> QED
        BY <1>1, <1>2, <4>1, <4>2
    <3> QED
      BY <3>1
  <2>2. \A j, k \in after : size(j) = size(k) => j = k
    BY <1>4
  <2>3. up \in Injection(after, size(i) + 1 .. N)
    BY <2>1, <2>2 DEF Injection, IsInjective
  <2>4. size(i) \in Nat /\ size(i) <= N
    BY <1>2, <1>6
  <2>5. IsFiniteSet(size(i) + 1 .. N) /\ Cardinality(size(i) + 1 .. N) = N - size(i)
    <3>1. size(i) + 1 \in Int /\ N \in Int
      BY <1>1, <2>4
    <3>2. /\ IsFiniteSet(size(i) + 1 .. N)
          /\ Cardinality(size(i) + 1 .. N) = IF size(i) + 1 > N THEN 0 ELSE N - (size(i) + 1) + 1
      BY <3>1, FS_Interval
    <3>3. \A n, m \in Nat : m <= n => (IF m + 1 > n THEN 0 ELSE n - (m + 1) + 1) = n - m
      OBVIOUS
    <3>4. (IF size(i) + 1 > N THEN 0 ELSE N - (size(i) + 1) + 1) = N - size(i)
      BY <1>1, <2>4, <3>3
    <3> QED
      BY <3>2, <3>4
  <2>6. Cardinality(after) <= N - size(i)
    BY <2>3, <2>5, FS_Injection
  <2>7. Cardinality(after) = N - Cardinality(S \cap before)
    BY <1>1, FS_Difference
  <2>8. S \cap before = before
    OBVIOUS
  <2>9. Cardinality(before) = Rank(ChainedIn(r), i)
    BY DEF Rank
  <2> QED
    BY <2>6, <2>7, <2>8, <2>9
<1>9. Rank(ChainedIn(r), i) \in Nat /\ size(i) \in Nat
  BY <1>1, <1>2, ChainedFinite, RankGrows
<1> HIDE DEF N
<1>10. size(i) = Rank(ChainedIn(r), i)
  BY <1>1, <1>7, <1>8, <1>9
<1> QED
  BY <1>10 DEF size

LEMMA ResumedIsVerified ==
    ASSUME NEW E, NEW r \in Seq(E), NEW L, \A j \in DOMAIN r : r[j].cp.leaves \in Seq(L),
           \A j \in DOMAIN r : r[j].cp.prev \in Seq(L),
           ChainGrows(r), NEW origin, CanResume(r, origin), LastCheckpoint(r) # NoCheckpoint
    PROVE  ChainVerified(r)
<1> DEFINE S == ChainedIn(r)
           N == Cardinality(S)
           last == LastChained(r)
           all == LeavesOf(r)
<1>1. /\ S \subseteq 1..Len(r) /\ Len(r) \in Nat /\ N \in Nat /\ IsFiniteSet(S)
      /\ DOMAIN r = 1..Len(r)
  BY ChainedFinite, LenProperties
<1>2. /\ last \in S /\ \A j \in S : j <= last
      /\ LastCheckpoint(r) = r[last].cp
  <2>1. PICK k \in DOMAIN r : Chained(r[k])
    BY LastCheckpointCases DEF Chained
  <2> QED
    BY <2>1, LastChainedIsLast DEF LastCheckpoint, ChainedIn
<1>3. r[last].cp.leaves = all
  BY <1>2 DEF CanResume
<1>4. DOMAIN all = 1..N
  BY ChainElements
<1>5. all \in Seq(L) /\ Len(all) = N
  <2>1. all \in Seq(L)
    BY <1>1, <1>2, <1>3
  <2> QED
    BY <1>1, <1>4, <2>1, LenProperties
<1> HIDE DEF last
<1>6. ASSUME NEW i \in S
      PROVE  /\ Len(r[i].cp.leaves) = Rank(ChainedIn(r), i)
             /\ Rank(ChainedIn(r), i) \in 1..N
             /\ r[i].cp.leaves \in Seq(L)
             /\ \A k \in 1..Rank(ChainedIn(r), i) : r[i].cp.leaves[k] = all[k]
  <2>1. Len(r[i].cp.leaves) = Rank(ChainedIn(r), i)
    BY <1>2, <1>3, <1>5, GrowthIsByOne
  <2>2. i = last \/ i < last
    BY <1>1, <1>2
  <2>3. i = last \/ Extends(r[i].cp.leaves, all)
    BY <1>2, <1>3, <2>2 DEF ChainGrows
  <2>4. \A k \in 1..Rank(ChainedIn(r), i) : r[i].cp.leaves[k] = all[k]
    BY <1>3, <2>1, <2>3 DEF Extends
  <2> QED
    BY <1>1, <2>1, <2>4, ChainedFinite, RankGrows
<1> HIDE DEF all
<1>7. MatchesEntries(r)
  <2> SUFFICES ASSUME NEW i \in S PROVE r[i].cp.leaves = LeavesOf(SubSeq(r, 1, i))
    BY DEF MatchesEntries, ChainedIn
  <2>1. LeavesOf(SubSeq(r, 1, i)) = [k \in 1..Rank(ChainedIn(r), i) |-> all[k]]
    BY LeavesUpTo DEF all
  <2>2. DOMAIN r[i].cp.leaves = 1..Rank(ChainedIn(r), i)
    BY <1>6, LenProperties
  <2>3. r[i].cp.leaves = [k \in DOMAIN r[i].cp.leaves |-> r[i].cp.leaves[k]]
    BY <1>6
  <2> QED
    BY <1>6, <2>1, <2>2, <2>3
<1>8. CheckpointsOf(r) # <<>>
  <2>1. Rank(ChainedIn(r), last) \in 1..N
    BY <1>2, ChainedFinite, RankGrows
  <2>2. Rank(ChainedIn(r), last) \in DOMAIN CheckpointsOf(r)
    BY <2>1, ChainElements
  <2>3. DOMAIN <<>> = {}
    OBVIOUS
  <2> QED
    BY <2>2, <2>3
<1>9. ChainConsistent(CheckpointsOf(r))
  <2>1. Len(CheckpointsOf(r)) = N
    BY <1>1, ChainElements
  <2>0. \A k \in 1..N : CheckpointsOf(r)[k] = r[Nth(S, k)].cp
    BY ChainElements
  <2> SUFFICES ASSUME NEW k \in 2..N
               PROVE  ValidLink(r[Nth(ChainedIn(r), k - 1)].cp, r[Nth(ChainedIn(r), k)].cp)
    <3>1. \A k \in 2..N : k \in 1..N /\ k - 1 \in 1..N
      BY <1>1
    <3>2. \A k \in 2..N : ValidLink(CheckpointsOf(r)[k - 1], CheckpointsOf(r)[k])
      BY <2>0, <3>1
    <3> QED
      BY <2>1, <3>2 DEF ChainConsistent
  <2> DEFINE a == Nth(ChainedIn(r), k - 1)
             b == Nth(ChainedIn(r), k)
             older == r[a].cp.leaves
             newer == r[b].cp.leaves
  <2>2. a \in S /\ b \in S /\ Rank(ChainedIn(r), a) = k - 1 /\ Rank(ChainedIn(r), b) = k
    <3>1. k - 1 \in 1..N /\ k \in 1..N
      BY <1>1
    <3> QED
      BY <3>1, ChainedFinite, NthHasRank
  <2> HIDE DEF a, b
  <2>3. a < b
    <3>1. ~(b < a)
      BY <2>2, ChainedFinite, RankGrows
    <3>2. a # b /\ a \in Nat /\ b \in Nat
      BY <1>1, <2>2
    <3> QED
      BY <3>1, <3>2
  <2>4. /\ Extends(older, newer) /\ r[a].cp.origin = r[b].cp.origin
        /\ OneLeafMore(r[b].cp)
    BY <2>2, <2>3 DEF ChainGrows
  <2>5. Len(older) = k - 1 /\ Len(newer) = k /\ older \in Seq(L) /\ newer \in Seq(L)
    BY <1>6, <2>2
  <2>6. r[b].cp.prev \in Seq(L) /\ b \in DOMAIN r
    BY <1>1, <2>2
  <2>7. r[b].cp.prev = older
    <3>1. Len(r[b].cp.prev) = k - 1
      BY <2>4, <2>5, <2>6, LenProperties DEF OneLeafMore
    <3>2. \A j \in 1..k - 1 : r[b].cp.prev[j] = older[j]
      BY <2>4, <2>5, <3>1 DEF OneLeafMore, Extends
    <3> QED
      BY <2>5, <2>6, <3>1, <3>2, SeqEqual
  <2>8. IsPrefix(older, newer)
    <3> HIDE DEF older, newer
    <3>1. SubSeq(older, 1, Len(older)) = SubSeq(newer, 1, Len(older))
      BY <2>4, <2>5 DEF Extends
    <3> QED
      BY <2>4, <3>1 DEF IsPrefix, Extends
  <2>9. ValidLink(r[a].cp, r[b].cp)
    BY <2>4, <2>5, <2>7, <2>8 DEF ValidLink
  <2> QED
    BY <2>9 DEF a, b
<1> QED
  BY <1>7, <1>8, <1>9 DEF ChainVerified

-----------------------------------------------------------------------------
(* The verdict on a registry is one on its chain, the checkpointed entries by *)
(* themselves; and a chain that holds a verified one and another is either    *)
(* one of them or forked.                                                     *)

ChainOf(r) == Pick(r, ChainedIn(r))

LeavesTo(c, k) == [m \in 1..k |-> LeafOf(c[m])]

Sound(c) ==
    /\ c # <<>>
    /\ \A k \in DOMAIN c : c[k].cp.leaves = LeavesTo(c, k)
    /\ \A k \in DOMAIN c : k # 1 => /\ c[k].cp.prev = c[k - 1].cp.leaves
                                    /\ c[k].cp.origin = c[k - 1].cp.origin

\* Two entries were folded over the same checkpoint.
Forked(c) == \E i, j \in DOMAIN c : i # j /\ c[i].cp.prev = c[j].cp.prev

LEMMA ChainElementsAt ==
    ASSUME NEW E, NEW r \in Seq(E)
    PROVE  /\ ChainOf(r) \in Seq(E)
           /\ DOMAIN ChainOf(r) = 1..Cardinality(ChainedIn(r))
           /\ Len(ChainOf(r)) = Cardinality(ChainedIn(r))
           /\ Len(ChainOf(r)) \in Nat /\ DOMAIN ChainOf(r) = 1..Len(ChainOf(r))
           /\ \A k \in DOMAIN ChainOf(r) :
                 /\ Nth(ChainedIn(r), k) \in ChainedIn(r)
                 /\ Rank(ChainedIn(r), Nth(ChainedIn(r), k)) = k
                 /\ ChainOf(r)[k] = r[Nth(ChainedIn(r), k)]
           /\ \A i \in ChainedIn(r) : /\ Rank(ChainedIn(r), i) \in DOMAIN ChainOf(r)
                                      /\ ChainOf(r)[Rank(ChainedIn(r), i)] = r[i]
           /\ LeavesOf(r) = [k \in DOMAIN ChainOf(r) |-> LeafOf(ChainOf(r)[k])]
           /\ CheckpointsOf(r) = [k \in DOMAIN ChainOf(r) |-> ChainOf(r)[k].cp]
<1>1. ChainedIn(r) \in SUBSET DOMAIN r /\ IsFiniteSet(ChainedIn(r)) /\ ChainedIn(r) \in SUBSET Nat
  BY ChainedFinite
<1>2. Cardinality(ChainedIn(r)) \in Nat
  BY ChainedFinite
<1>3. /\ ChainOf(r) \in Seq(E)
      /\ DOMAIN ChainOf(r) = 1..Cardinality(ChainedIn(r))
      /\ Len(ChainOf(r)) = Cardinality(ChainedIn(r))
      /\ \A k \in DOMAIN ChainOf(r) : Nth(ChainedIn(r), k) \in ChainedIn(r)
                                      /\ ChainOf(r)[k] = r[Nth(ChainedIn(r), k)]
      /\ \A i \in ChainedIn(r) : /\ Rank(ChainedIn(r), i) \in DOMAIN ChainOf(r)
                                 /\ ChainOf(r)[Rank(ChainedIn(r), i)] = r[i]
  BY <1>1, PickProperties DEF ChainOf
<1>4. \A k \in DOMAIN ChainOf(r) : Rank(ChainedIn(r), Nth(ChainedIn(r), k)) = k
  BY <1>1, <1>3, NthHasRank
<1>5. /\ LeavesOf(r) = [k \in DOMAIN ChainOf(r) |-> LeafOf(ChainOf(r)[k])]
      /\ CheckpointsOf(r) = [k \in DOMAIN ChainOf(r) |-> ChainOf(r)[k].cp]
  BY DEF LeavesOf, CheckpointsOf, ChainOf
<1> QED
  BY <1>2, <1>3, <1>4, <1>5

\* The first k leaves of a chain are a sequence of k leaves.
LEMMA FirstLeaves ==
    ASSUME NEW E, NEW c \in Seq(E), NEW k \in DOMAIN c
    PROVE  /\ LeavesTo(c, k) \in Seq({LeafOf(e) : e \in E})
           /\ Len(LeavesTo(c, k)) = k
           /\ \A m \in 1..k : LeavesTo(c, k)[m] = LeafOf(c[m])
<1>1. k \in 1..Len(c) /\ Len(c) \in Nat
  BY LenProperties
<1>2. \A m \in 1..k : c[m] \in E
  BY <1>1, ElementOfSeq
<1>3. LeavesTo(c, k) \in [1..k -> {LeafOf(e) : e \in E}]
  BY <1>2 DEF LeavesTo
<1>4. LeavesTo(c, k) \in Seq({LeafOf(e) : e \in E}) /\ DOMAIN LeavesTo(c, k) = 1..k
  BY <1>1, <1>3
<1>5. Len(LeavesTo(c, k)) = k
  BY <1>1, <1>4, LenProperties
<1> QED
  BY <1>4, <1>5 DEF LeavesTo

LEMMA VerifiedIsSound ==
    ASSUME NEW E, NEW r \in Seq(E)
    PROVE  ChainVerified(r) <=> Sound(ChainOf(r))
<1> DEFINE c == ChainOf(r)
           S == ChainedIn(r)
<1>1. /\ c \in Seq(E) /\ DOMAIN c = 1..Len(c) /\ Len(c) \in Nat
      /\ \A k \in DOMAIN c : Nth(S, k) \in S /\ Rank(S, Nth(S, k)) = k /\ c[k] = r[Nth(S, k)]
      /\ \A i \in S : Rank(S, i) \in DOMAIN c /\ c[Rank(S, i)] = r[i]
      /\ LeavesOf(r) = [k \in DOMAIN c |-> LeafOf(c[k])]
      /\ CheckpointsOf(r) = [k \in DOMAIN c |-> c[k].cp]
  BY ChainElementsAt
<1>2. ASSUME NEW i \in S
      PROVE  LeavesOf(SubSeq(r, 1, i)) = LeavesTo(c, Rank(S, i))
  <2>1. LeavesOf(SubSeq(r, 1, i)) = [m \in 1..Rank(S, i) |-> LeavesOf(r)[m]]
    BY LeavesUpTo
  <2>2. \A m \in 1..Rank(S, i) : LeavesOf(r)[m] = LeafOf(c[m])
    BY <1>1
  <2> HIDE DEF c, S
  <2> QED
    BY <2>1, <2>2 DEF LeavesTo
<1> HIDE DEF c
<1>3. MatchesEntries(r) <=> \A k \in DOMAIN c : c[k].cp.leaves = LeavesTo(c, k)
  <2>1. MatchesEntries(r) <=> \A i \in S : r[i].cp.leaves = LeavesTo(c, Rank(S, i))
    BY <1>2 DEF MatchesEntries, ChainedIn
  <2> HIDE DEF S
  <2>2. ASSUME \A i \in S : r[i].cp.leaves = LeavesTo(c, Rank(S, i)), NEW k \in DOMAIN c
        PROVE  c[k].cp.leaves = LeavesTo(c, k)
    BY <1>1, <2>2
  <2>3. ASSUME \A k \in DOMAIN c : c[k].cp.leaves = LeavesTo(c, k), NEW i \in S
        PROVE  r[i].cp.leaves = LeavesTo(c, Rank(S, i))
    BY <1>1, <2>3
  <2> QED
    BY <2>1, <2>2, <2>3
<1> HIDE DEF S
<1>4. /\ DOMAIN CheckpointsOf(r) = DOMAIN c
      /\ \A k \in DOMAIN c : CheckpointsOf(r)[k] = c[k].cp
      /\ Len(CheckpointsOf(r)) = Len(c)
      /\ CheckpointsOf(r) # <<>> <=> c # <<>>
  <2>1. CheckpointsOf(r) \in Seq({e.cp : e \in E})
    BY <1>1, ElementOfSeq
  <2>2. DOMAIN CheckpointsOf(r) = DOMAIN c /\ \A k \in DOMAIN c : CheckpointsOf(r)[k] = c[k].cp
    BY <1>1
  <2>3. Len(CheckpointsOf(r)) = Len(c)
    BY <1>1, <2>1, <2>2, LenProperties
  <2> QED
    BY <1>1, <2>1, <2>2, <2>3, EmptySeq
<1>5. ChainConsistent(CheckpointsOf(r)) <=> \A k \in 2..Len(c) : ValidLink(c[k - 1].cp, c[k].cp)
  <2>1. \A k \in 2..Len(c) : k \in DOMAIN c /\ k - 1 \in DOMAIN c
    BY <1>1
  <2> QED
    BY <1>4, <2>1 DEF ChainConsistent
<1>6. ASSUME MatchesEntries(r), NEW k \in 2..Len(c)
      PROVE  ValidLink(c[k - 1].cp, c[k].cp) <=>
                c[k].cp.prev = c[k - 1].cp.leaves /\ c[k].cp.origin = c[k - 1].cp.origin
  <2> DEFINE older == c[k - 1].cp.leaves
             newer == c[k].cp.leaves
             L == {LeafOf(e) : e \in E}
  <2>1. k \in DOMAIN c /\ k - 1 \in DOMAIN c /\ k \in Nat
    BY <1>1
  <2>2. /\ older = LeavesTo(c, k - 1)
        /\ newer = LeavesTo(c, k)
    BY <1>3, <1>6, <2>1
  <2>3. older \in Seq(L) /\ Len(older) = k - 1 /\ newer \in Seq(L) /\ Len(newer) = k
    <3>1. LeavesTo(c, k) \in Seq(L) /\ Len(LeavesTo(c, k)) = k
      BY <1>1, <2>1, FirstLeaves
    <3>2. LeavesTo(c, k - 1) \in Seq(L) /\ Len(LeavesTo(c, k - 1)) = k - 1
      BY <1>1, <2>1, FirstLeaves
    <3> QED
      BY <2>2, <3>1, <3>2
  <2>4. \A m \in 1..k - 1 : older[m] = newer[m]
    BY <2>1, <2>2 DEF LeavesTo
  <2> HIDE DEF older, newer, L
  <2>5. IsPrefix(older, newer) /\ Len(newer) > Len(older)
    <3>1. SubSeq(older, 1, Len(older)) = SubSeq(newer, 1, Len(older))
      BY <2>1, <2>3, <2>4
    <3> QED
      BY <2>1, <2>3, <3>1 DEF IsPrefix
  <2> QED
    BY <2>5 DEF ValidLink, older, newer
<1>7. \A k : k \in 2..Len(c) <=> k \in DOMAIN c /\ k # 1
  BY <1>1
<1>8. Sound(c) <=> ChainVerified(r)
  BY <1>3, <1>4, <1>5, <1>6, <1>7 DEF Sound, ChainVerified
<1> QED
  BY <1>8 DEF c

\* s has the elements of r, in their order, with others among them.
Embeds(e, r, s) ==
    /\ e \in [DOMAIN r -> DOMAIN s]
    /\ \A i, j \in DOMAIN r : i < j => e[i] < e[j]
    /\ \A i \in DOMAIN r : s[e[i]] = r[i]

\* A sequence embedded in one no longer than itself is that sequence.
LEMMA EmbeddedInShorter ==
    ASSUME NEW E, NEW r \in Seq(E), NEW s \in Seq(E), NEW e, Embeds(e, r, s), Len(s) <= Len(r)
    PROVE  r = s
<1>1. /\ DOMAIN r = 1..Len(r) /\ Len(r) \in Nat
      /\ DOMAIN s = 1..Len(s) /\ Len(s) \in Nat
  BY LenProperties
<1>2. \A i \in 1..Len(r) : e[i] \in 1..Len(s)
  BY <1>1 DEF Embeds
<1>3. \A i \in 1..Len(r) : i <= e[i]
  <2> DEFINE B == {i \in 1..Len(r) : ~(i <= e[i])}
  <2> SUFFICES ASSUME B # {} PROVE FALSE
    OBVIOUS
  <2>1. B \in SUBSET Nat
    BY <1>1
  <2>2. PICK m \in B : \A n \in B : m <= n
    BY <2>1, LeastElement
  <2>3. m \in 1..Len(r) /\ e[m] \in Nat /\ e[m] < m /\ m # 1
    BY <1>1, <1>2
  <2>4. m - 1 \in 1..Len(r) /\ m - 1 \notin B
    BY <1>1, <2>2, <2>3
  <2>5. m - 1 <= e[m - 1] /\ e[m - 1] < e[m]
    <3>1. m - 1 < m /\ m - 1 \in DOMAIN r /\ m \in DOMAIN r
      BY <1>1, <2>3, <2>4
    <3>2. e[m - 1] < e[m]
      BY <3>1 DEF Embeds
    <3> QED
      BY <2>4, <3>2
  <2>6. e[m - 1] \in Nat
    BY <1>1, <1>2, <2>4
  <2> QED
    BY <1>1, <2>3, <2>5, <2>6
<1>4. \A i \in 1..Len(r) : e[i] = i
  <2> DEFINE B == {Len(r) - i : i \in {j \in 1..Len(r) : e[j] # j}}
  <2> SUFFICES ASSUME B # {} PROVE FALSE
    OBVIOUS
  <2>1. B \in SUBSET Nat
    BY <1>1
  <2>2. PICK m \in B : \A n \in B : m <= n
    BY <2>1, LeastElement
  <2>3. PICK i \in 1..Len(r) : e[i] # i /\ m = Len(r) - i
    BY <2>2
  <2>4. \A j \in 1..Len(r) : i < j => e[j] = j
    <3> SUFFICES ASSUME NEW j \in 1..Len(r), i < j, e[j] # j PROVE FALSE
      OBVIOUS
    <3>1. Len(r) - j \in B
      OBVIOUS
    <3>2. Len(r) - i <= Len(r) - j
      BY <2>2, <2>3, <3>1
    <3> QED
      BY <1>1, <3>2
  <2>5. i < e[i] /\ e[i] \in 1..Len(s)
    BY <1>1, <1>2, <1>3, <2>3
  <2>6. i + 1 \in 1..Len(r)
    BY <1>1, <2>3, <2>5
  <2>7. e[i + 1] = i + 1 /\ e[i] < e[i + 1]
    BY <1>1, <2>3, <2>4, <2>6 DEF Embeds
  <2> QED
    BY <1>1, <2>3, <2>5, <2>7
<1>5. Len(r) = Len(s)
  <2>1. CASE Len(r) = 0
    BY <1>1, <2>1
  <2>2. CASE Len(r) # 0
    <3>1. Len(r) \in 1..Len(r) /\ e[Len(r)] = Len(r)
      BY <1>1, <1>4, <2>2
    <3>2. Len(r) \in 1..Len(s)
      BY <1>2, <3>1
    <3>3. \A m, n \in Nat : m \in 1..n /\ n <= m => m = n
      OBVIOUS
    <3> QED
      BY <1>1, <3>2, <3>3
  <2> QED
    BY <2>1, <2>2
<1>6. \A i \in 1..Len(r) : r[i] = s[i]
  BY <1>1, <1>4 DEF Embeds
<1> QED
  BY <1>5, <1>6, SeqEqual

\* The chain of an embedded registry is embedded in the chain.
LEMMA ChainsEmbed ==
    ASSUME NEW E, NEW r \in Seq(E), NEW s \in Seq(E), NEW e, Embeds(e, r, s)
    PROVE  \E g : /\ Embeds(g, ChainOf(r), ChainOf(s))
                  /\ \A i \in ChainedIn(r) :
                        /\ e[i] \in ChainedIn(s)
                        /\ g[Rank(ChainedIn(r), i)] = Rank(ChainedIn(s), e[i])
<1> DEFINE R == ChainedIn(r)
           S == ChainedIn(s)
           g == [k \in DOMAIN ChainOf(r) |-> Rank(S, e[Nth(R, k)])]
<1>1. \A i \in R : i \in DOMAIN r /\ e[i] \in S
  BY DEF ChainedIn, Embeds
<1>2. /\ \A k \in DOMAIN ChainOf(r) : /\ Nth(R, k) \in R /\ Rank(R, Nth(R, k)) = k
                                      /\ ChainOf(r)[k] = r[Nth(R, k)]
      /\ \A i \in R : Rank(R, i) \in DOMAIN ChainOf(r)
      /\ \A i \in S : Rank(S, i) \in DOMAIN ChainOf(s) /\ ChainOf(s)[Rank(S, i)] = s[i]
  BY ChainElementsAt
<1>3. /\ R \in SUBSET Nat /\ IsFiniteSet(R) /\ S \in SUBSET Nat /\ IsFiniteSet(S)
      /\ Cardinality(R) \in Nat /\ Cardinality(S) \in Nat
      /\ DOMAIN ChainOf(r) = 1..Cardinality(R) /\ DOMAIN ChainOf(s) = 1..Cardinality(S)
  BY ChainedFinite, ChainElementsAt
<1>4. /\ \A i, j \in R : i < j => Rank(R, i) < Rank(R, j)
      /\ \A i, j \in S : i < j => Rank(S, i) < Rank(S, j)
      /\ \A i \in R : Nth(R, Rank(R, i)) = i
  BY <1>3, RankGrows, NthHasRank
<1> HIDE DEF R, S
<1>5. g \in [DOMAIN ChainOf(r) -> DOMAIN ChainOf(s)]
  BY <1>1, <1>2
<1>6. ASSUME NEW k \in DOMAIN ChainOf(r), NEW n \in DOMAIN ChainOf(r), k < n
      PROVE  g[k] < g[n]
  <2> DEFINE i == Nth(R, k)
             j == Nth(R, n)
  <2>1. i \in R /\ j \in R /\ Rank(R, i) = k /\ Rank(R, j) = n /\ k \in Nat /\ n \in Nat
    BY <1>2, <1>3
  <2> HIDE DEF i, j
  <2>2. i \in Nat /\ j \in Nat
    BY <1>3, <2>1
  <2>3. i < j
    <3>1. ~(j < i)
      <4>1. j < i => n < k
        BY <1>4, <2>1
      <4> QED
        BY <1>6, <2>1, <4>1
    <3>2. i # j
      BY <1>6, <2>1
    <3> QED
      BY <2>2, <3>1, <3>2
  <2>4. e[i] < e[j]
    BY <1>1, <2>1, <2>3 DEF Embeds
  <2>5. Rank(S, e[i]) < Rank(S, e[j])
    BY <1>1, <1>4, <2>1, <2>4
  <2> QED
    BY <2>5 DEF i, j
<1>7. \A k \in DOMAIN ChainOf(r) : ChainOf(s)[g[k]] = ChainOf(r)[k]
  BY <1>1, <1>2 DEF Embeds
<1>8. \A i \in R : g[Rank(R, i)] = Rank(S, e[i])
  BY <1>2, <1>4
<1> HIDE DEF g
<1>9. Embeds(g, ChainOf(r), ChainOf(s))
  BY <1>5, <1>6, <1>7 DEF Embeds
<1> QED
  BY <1>1, <1>8, <1>9 DEF R, S

\* Distinct places stay distinct in an embedding, so a fork stays one.
LEMMA ForkEmbeds ==
    ASSUME NEW E, NEW c \in Seq(E), NEW d \in Seq(E), NEW g, Embeds(g, c, d), Forked(c)
    PROVE  Forked(d)
<1>1. PICK i \in DOMAIN c, j \in DOMAIN c : i # j /\ c[i].cp.prev = c[j].cp.prev
  BY DEF Forked
<1>2. DOMAIN c = 1..Len(c) /\ DOMAIN d = 1..Len(d) /\ Len(c) \in Nat /\ Len(d) \in Nat
  BY LenProperties
<1>3. g[i] \in DOMAIN d /\ g[j] \in DOMAIN d
  BY DEF Embeds
<1>4. g[i] # g[j]
  <2>1. i < j \/ j < i
    BY <1>1, <1>2
  <2>2. g[i] < g[j] \/ g[j] < g[i]
    BY <2>1 DEF Embeds
  <2> QED
    BY <1>2, <1>3, <2>2
<1> QED
  BY <1>1, <1>3, <1>4 DEF Forked, Embeds

\* A checkpoint over one leaf names no earlier one.
FirstNamesNone(cp) == Len(cp.leaves) = 1 => cp.prev = <<>>

LEMMA SoundLengths ==
    ASSUME NEW E, NEW c \in Seq(E), Sound(c), \A k \in DOMAIN c : FirstNamesNone(c[k].cp)
    PROVE  \A k \in DOMAIN c : Len(c[k].cp.leaves) = k /\ Len(c[k].cp.prev) = k - 1
<1> SUFFICES ASSUME NEW k \in DOMAIN c PROVE Len(c[k].cp.leaves) = k /\ Len(c[k].cp.prev) = k - 1
  OBVIOUS
<1>1. DOMAIN c = 1..Len(c) /\ Len(c) \in Nat
  BY LenProperties
<1>2. ASSUME NEW n \in DOMAIN c PROVE Len(c[n].cp.leaves) = n
  <2>1. c[n].cp.leaves = LeavesTo(c, n)
    BY DEF Sound
  <2> QED
    BY <2>1, FirstLeaves
<1>3. CASE k = 1
  <2>1. c[k].cp.prev = <<>>
    BY <1>2, <1>3 DEF FirstNamesNone
  <2>2. Len(c[k].cp.prev) = 0
    BY <2>1, EmptySeq
  <2>3. k - 1 = 0
    BY <1>3
  <2> QED
    BY <1>2, <2>2, <2>3
<1>4. CASE k # 1
  <2>1. k - 1 \in DOMAIN c
    BY <1>1, <1>4
  <2>2. c[k].cp.prev = c[k - 1].cp.leaves
    BY <1>4 DEF Sound
  <2>3. Len(c[k].cp.prev) = k - 1
    BY <1>2, <2>1, <2>2
  <2> QED
    BY <1>2, <2>3
<1> QED
  BY <1>3, <1>4

LEMMA SoundIsNotForked ==
    ASSUME NEW E, NEW c \in Seq(E), Sound(c), \A k \in DOMAIN c : FirstNamesNone(c[k].cp)
    PROVE  ~Forked(c)
<1>1. DOMAIN c = 1..Len(c) /\ Len(c) \in Nat
  BY LenProperties
<1>2. \A k \in DOMAIN c : Len(c[k].cp.prev) = k - 1
  BY SoundLengths
<1>3. \A i, j \in 1..Len(c) : i - 1 = j - 1 => i = j
  BY <1>1
<1> QED
  BY <1>1, <1>2, <1>3 DEF Forked

\* Two sound chains in a third that does not fork have the same beginning.
LEMMA SoundChainsAgree ==
    ASSUME NEW E, NEW a \in Seq(E), NEW b \in Seq(E), NEW c \in Seq(E),
           NEW g, Embeds(g, a, c), NEW h, Embeds(h, b, c),
           Sound(a), Sound(b), ~Forked(c), \A k \in DOMAIN c : FirstNamesNone(c[k].cp)
    PROVE  \A k \in DOMAIN a : k \in DOMAIN b => g[k] = h[k]
<1>1. /\ DOMAIN a = 1..Len(a) /\ DOMAIN b = 1..Len(b) /\ DOMAIN c = 1..Len(c)
      /\ Len(a) \in Nat /\ Len(b) \in Nat /\ Len(c) \in Nat
  BY LenProperties
<1>2. /\ \A k \in DOMAIN a : g[k] \in DOMAIN c /\ c[g[k]] = a[k]
      /\ \A k \in DOMAIN b : h[k] \in DOMAIN c /\ c[h[k]] = b[k]
  BY DEF Embeds
<1> DEFINE B == {k \in DOMAIN a : k \in DOMAIN b /\ g[k] # h[k]}
<1> SUFFICES ASSUME B # {} PROVE FALSE
  OBVIOUS
<1>3. B \in SUBSET Nat
  BY <1>1
<1>4. PICK k \in B : \A n \in B : k <= n
  BY <1>3, LeastElement
<1>5. k \in DOMAIN a /\ k \in DOMAIN b /\ g[k] # h[k]
  BY <1>4
<1>6. a[k].cp.prev = b[k].cp.prev
  <2>1. CASE k = 1
    <3>1. /\ Len(a[k].cp.leaves) = 1 /\ Len(b[k].cp.leaves) = 1
      <4>1. a[k].cp.leaves = LeavesTo(a, k) /\ b[k].cp.leaves = LeavesTo(b, k)
        BY <1>5 DEF Sound
      <4>2. Len(LeavesTo(a, k)) = k
        BY <1>5, FirstLeaves
      <4>3. Len(LeavesTo(b, k)) = k
        BY <1>5, FirstLeaves
      <4> QED
        BY <2>1, <4>1, <4>2, <4>3
    <3>2. FirstNamesNone(a[k].cp) /\ FirstNamesNone(b[k].cp)
      BY <1>2, <1>5
    <3> QED
      BY <3>1, <3>2 DEF FirstNamesNone
  <2>2. CASE k # 1
    <3>1. k - 1 \in DOMAIN a /\ k - 1 \in DOMAIN b /\ ~(k <= k - 1)
      BY <1>1, <1>5, <2>2
    <3>2. k - 1 \notin B
      BY <1>4, <3>1
    <3>3. g[k - 1] = h[k - 1]
      BY <3>1, <3>2
    <3>4. a[k - 1] = b[k - 1]
      BY <1>2, <3>1, <3>3
    <3>5. a[k].cp.prev = a[k - 1].cp.leaves /\ b[k].cp.prev = b[k - 1].cp.leaves
      BY <1>5, <2>2 DEF Sound
    <3> QED
      BY <3>4, <3>5
  <2> QED
    BY <2>1, <2>2
<1> QED
  BY <1>2, <1>5, <1>6 DEF Forked

\* A chain that two sound ones make up between them is sound or forked.
LEMMA UnionSoundOrForked ==
    ASSUME NEW E, NEW a \in Seq(E), NEW b \in Seq(E), NEW c \in Seq(E),
           NEW g, Embeds(g, a, c), NEW h, Embeds(h, b, c),
           Sound(a), Sound(b), \A k \in DOMAIN c : FirstNamesNone(c[k].cp),
           \A n \in DOMAIN c : (\E k \in DOMAIN a : g[k] = n) \/ (\E k \in DOMAIN b : h[k] = n)
    PROVE  Sound(c) \/ Forked(c)
<1> SUFFICES ASSUME ~Forked(c) PROVE Sound(c)
  OBVIOUS
<1>1. /\ DOMAIN a = 1..Len(a) /\ DOMAIN b = 1..Len(b) /\ DOMAIN c = 1..Len(c)
      /\ Len(a) \in Nat /\ Len(b) \in Nat /\ Len(c) \in Nat
  BY LenProperties
<1>2. \A k \in DOMAIN a : k \in DOMAIN b => g[k] = h[k]
  BY SoundChainsAgree
<1>3. ASSUME NEW f, NEW d \in Seq(E), Embeds(f, d, c), \A n \in DOMAIN c : \E k \in DOMAIN d : f[k] = n
      PROVE  d = c
  <2>1. DOMAIN d = 1..Len(d) /\ Len(d) \in Nat
    BY LenProperties
  <2>2. /\ IsFiniteSet(1..Len(d)) /\ Cardinality(1..Len(d)) = Len(d)
        /\ IsFiniteSet(1..Len(c)) /\ Cardinality(1..Len(c)) = Len(c)
    <3>1. ASSUME NEW n \in Nat PROVE IsFiniteSet(1..n) /\ Cardinality(1..n) = n
      BY FS_Interval
    <3> QED
      BY <1>1, <2>1, <3>1
  <2>3. f \in Surjection(1..Len(d), 1..Len(c))
    BY <1>1, <1>3, <2>1 DEF Surjection, Embeds
  <2>4. Len(c) <= Len(d)
    BY <2>2, <2>3, FS_Surjection
  <2> QED
    BY <1>3, <2>4, EmbeddedInShorter
<1>4. CASE Len(a) <= Len(b)
  <2>1. \A k \in DOMAIN a : k \in DOMAIN b
    BY <1>1, <1>4
  <2>2. \A n \in DOMAIN c : \E k \in DOMAIN b : h[k] = n
    BY <1>2, <2>1
  <2> QED
    BY <1>3, <2>2
<1>5. CASE Len(b) <= Len(a)
  <2>1. \A k \in DOMAIN b : k \in DOMAIN a
    BY <1>1, <1>5
  <2>2. \A n \in DOMAIN c : \E k \in DOMAIN a : g[k] = n
    BY <1>2, <2>1
  <2> QED
    BY <1>3, <2>2
<1> QED
  BY <1>1, <1>4, <1>5

\* A chain whose last checkpoint covers as many leaves as it has, and stands in a
\* sound part of it, has no other part.
LEMMA SoundUpToLast ==
    ASSUME NEW E, NEW b \in Seq(E), NEW c \in Seq(E), NEW h, Embeds(h, b, c), Sound(b),
           NEW k \in DOMAIN b, h[k] = Len(c), Len(c[Len(c)].cp.leaves) = Len(c)
    PROVE  b = c
<1>1. b[k].cp.leaves = LeavesTo(b, k) /\ c[Len(c)] = b[k]
  BY DEF Sound, Embeds
<1>2. Len(c) = k
  <2>1. Len(LeavesTo(b, k)) = k
    BY FirstLeaves
  <2> QED
    BY <1>1, <2>1
<1>3. Len(c) <= Len(b)
  BY <1>2, LenProperties
<1> QED
  BY <1>3, EmbeddedInShorter

-----------------------------------------------------------------------------
(* Recursion on naturals, whatever the values, as long as they are of a set. *)

\* Every natural is in a set that has n whenever it has all below n.
Inductive(S) == S \in SUBSET Nat /\ \A n \in Nat : (\A m \in Nat : m < n => m \in S) => n \in S

LEMMA StrongInduction ==
    ASSUME NEW S, Inductive(S)
    PROVE  \A n \in Nat : n \in S
<1> DEFINE B == Nat \ S
<1> SUFFICES ASSUME B # {} PROVE FALSE
  OBVIOUS
<1>1. PICK n \in B : \A k \in B : n <= k
  <2>1. B \in SUBSET Nat
    OBVIOUS
  <2> QED
    BY <2>1, LeastElement
<1>2. ASSUME NEW m \in Nat, m < n PROVE m \in S
  <2>1. ~(n <= m)
    BY <1>1, <1>2
  <2> QED
    BY <1>1, <2>1
<1> QED
  BY <1>1, <1>2 DEF Inductive

\* F gives the value at n of a function from what the function is below n.
IsStep(F, D, V) ==
    /\ D \in SUBSET Nat
    /\ V # {}
    /\ F \in [D \X [D -> V] -> V]
    /\ \A n \in D : \A g, h \in [D -> V] :
           (\A m \in D : m < n => g[m] = h[m]) => F[<<n, g>>] = F[<<n, h>>]

LEMMA Recursion ==
    ASSUME NEW D, NEW V, NEW F, IsStep(F, D, V)
    PROVE  \E f \in [D -> V] : \A n \in D : f[n] = F[<<n, f>>]
<1>a. PICK v \in V : TRUE
  BY DEF IsStep
<1>b. /\ D \in SUBSET Nat
       /\ F \in [D \X [D -> V] -> V]
       /\ \A n \in D : \A g, h \in [D -> V] :
             (\A m \in D : m < n => g[m] = h[m]) => F[<<n, g>>] = F[<<n, h>>]
  BY DEF IsStep
<1> USE <1>a, <1>b
<1> DEFINE Good(g, n) == g \in [D -> V] /\ \A m \in D : m < n => g[m] = F[<<m, g>>]
<1>1. \A n \in Nat : \E g : Good(g, n)
  <2> DEFINE B == {n \in Nat : ~\E g : Good(g, n)}
  <2> SUFFICES ASSUME B # {} PROVE FALSE
    OBVIOUS
  <2>1. PICK n \in B : \A k \in B : n <= k
    <3>1. B \in SUBSET Nat
      OBVIOUS
    <3> QED
      BY <3>1, LeastElement
  <2>2. n \in Nat /\ ~\E g : Good(g, n)
    BY <2>1
  <2>3. n # 0
    <3>1. Good([m \in D |-> v], 0)
      OBVIOUS
    <3> QED
      BY <2>2, <3>1
  <2>4. PICK k \in Nat : n = k + 1 /\ ~(n <= k)
    BY <2>2, <2>3
  <2>5. PICK g : Good(g, k)
    <3> HIDE DEF Good
    <3> QED
      BY <2>1, <2>4
  <2>6. CASE k \notin D
    <3>1. Good(g, n)
      BY <2>4, <2>5, <2>6
    <3> QED
      BY <2>2, <3>1
  <2>7. CASE k \in D
    <3> DEFINE f == [m \in D |-> IF m = k THEN F[<<k, g>>] ELSE g[m]]
    <3>1. F[<<k, g>>] \in V
      BY <2>5, <2>7
    <3>2. f \in [D -> V]
      BY <2>5, <3>1
    <3>3. ASSUME NEW m \in D, m < n PROVE f[m] = F[<<m, f>>]
      <4>1. m \in Nat /\ m <= k
        BY <2>4, <3>3
      <4>2. \A j \in D : j < m => f[j] = g[j]
        BY <2>4, <4>1
      <4>3. F[<<m, f>>] = F[<<m, g>>]
        <5> HIDE DEF f
        <5> QED
          BY <2>5, <3>2, <4>2
      <4> QED
        BY <2>5, <4>1, <4>3
    <3>4. Good(f, n)
      BY <3>2, <3>3
    <3> HIDE DEF Good
    <3> QED
      BY <2>2, <3>4
  <2> QED
    BY <2>6, <2>7
<1>2. ASSUME NEW a \in Nat, NEW b \in Nat, NEW g, NEW h, Good(g, a), Good(h, b),
             NEW m \in D, m < a, m < b
      PROVE  g[m] = h[m]
  <2> DEFINE B == {k \in D : k < a /\ k < b /\ g[k] # h[k]}
  <2> SUFFICES ASSUME B # {} PROVE FALSE
    BY <1>2
  <2>1. PICK k \in B : \A j \in B : k <= j
    <3>1. B \in SUBSET Nat
      OBVIOUS
    <3> QED
      BY <3>1, LeastElement
  <2>2. k \in D /\ k \in Nat /\ k < a /\ k < b /\ g[k] # h[k]
    BY <2>1
  <2>3. \A j \in D : j < k => g[j] = h[j]
    <3> SUFFICES ASSUME NEW j \in D, j < k, g[j] # h[j] PROVE FALSE
      OBVIOUS
    <3>1. j \in Nat /\ j < a /\ j < b
      BY <2>2
    <3>2. j \in B /\ ~(k <= j)
      BY <2>2, <3>1
    <3> QED
      BY <2>1, <3>2
  <2>4. F[<<k, g>>] = F[<<k, h>>]
    BY <1>2, <2>2, <2>3
  <2> QED
    BY <1>2, <2>2, <2>4
<1> DEFINE G(n) == CHOOSE g : Good(g, n)
           f == [n \in D |-> G(n + 1)[n]]
<1>3. \A n \in Nat : Good(G(n), n)
  <2> HIDE DEF Good
  <2> QED
    BY <1>1
<1> HIDE DEF G
<1>4. ASSUME NEW n \in D PROVE n \in Nat /\ n + 1 \in Nat /\ Good(G(n + 1), n + 1)
  <2>1. n \in Nat /\ n + 1 \in Nat
    OBVIOUS
  <2> HIDE DEF Good
  <2> QED
    BY <1>3, <2>1
<1>5. f \in [D -> V]
  BY <1>4
<1>6. ASSUME NEW n \in D PROVE f[n] = F[<<n, f>>]
  <2>1. \A m \in D : m < n => f[m] = G(n + 1)[m]
    <3> SUFFICES ASSUME NEW m \in D, m < n PROVE G(m + 1)[m] = G(n + 1)[m]
      OBVIOUS
    <3>1. m \in Nat /\ n \in Nat
      OBVIOUS
    <3>2. m + 1 \in Nat /\ n + 1 \in Nat /\ m < m + 1 /\ m < n + 1
      BY <3>1
    <3>3. Good(G(m + 1), m + 1) /\ Good(G(n + 1), n + 1)
      BY <1>4
    <3> HIDE DEF Good
    <3> QED
      BY <1>2, <3>2, <3>3
  <2>2. F[<<n, f>>] = F[<<n, G(n + 1)>>]
    <3> HIDE DEF f
    <3> QED
      BY <1>4, <1>5, <2>1
  <2>3. G(n + 1)[n] = F[<<n, G(n + 1)>>]
    BY <1>4
  <2> QED
    BY <2>2, <2>3
<1> HIDE DEF f
<1> QED
  BY <1>5, <1>6

LEMMA PowerEquation ==
    /\ Power[0] = 1
    /\ \A h \in Nat : Power[h + 1] = 2 * Power[h]
<1> DEFINE F == [x \in Nat \X [Nat -> Nat] |-> IF x[1] = 0 THEN 1 ELSE 2 * x[2][x[1] - 1]]
           IsPower(f) == f = [h \in Nat |-> IF h = 0 THEN 1 ELSE 2 * f[h - 1]]
<1>1. F \in [Nat \X [Nat -> Nat] -> Nat]
  <2>1. \A n \in Nat, g \in [Nat -> Nat] : n # 0 => n - 1 \in Nat /\ 2 * g[n - 1] \in Nat
    OBVIOUS
  <2> QED
    BY <2>1
<1>2. \A n \in Nat, g \in [Nat -> Nat] : F[<<n, g>>] = IF n = 0 THEN 1 ELSE 2 * g[n - 1]
  OBVIOUS
<1>3. \A n \in Nat : \A g, h \in [Nat -> Nat] :
         (\A m \in Nat : m < n => g[m] = h[m]) => F[<<n, g>>] = F[<<n, h>>]
  <2> HIDE DEF F
  <2> SUFFICES ASSUME NEW n \in Nat, NEW g \in [Nat -> Nat], NEW h \in [Nat -> Nat],
                      \A m \in Nat : m < n => g[m] = h[m]
               PROVE  F[<<n, g>>] = F[<<n, h>>]
    OBVIOUS
  <2>1. n # 0 => n - 1 \in Nat /\ n - 1 < n
    OBVIOUS
  <2> QED
    BY <1>2, <2>1
<1> HIDE DEF F
<1>4. PICK f \in [Nat -> Nat] : \A n \in Nat : f[n] = F[<<n, f>>]
  <2>1. IsStep(F, Nat, Nat)
    BY <1>1, <1>3 DEF IsStep
  <2> QED
    BY <2>1, Recursion
<1>5. IsPower(f)
  BY <1>2, <1>4
<1>6. Power = CHOOSE p : IsPower(p)
  BY DEF Power
<1>7. IsPower(Power)
  BY <1>5, <1>6
<1>8. \A h \in Nat : h + 1 \in Nat /\ h + 1 # 0 /\ h + 1 - 1 = h
  OBVIOUS
<1> QED
  BY <1>7, <1>8

LEMMA PowerGrows ==
    /\ \A h \in Nat : Power[h] \in Nat /\ Power[h] >= h + 1
    /\ \A g, h \in Nat : g < h => 2 * Power[g] <= Power[h]
<1>1. ASSUME NEW h \in Nat PROVE Power[h] \in Nat /\ Power[h] >= h + 1
  <2> DEFINE Ok(n) == Power[n] \in Nat /\ Power[n] >= n + 1
             B == {n \in Nat : ~Ok(n)}
  <2> SUFFICES ASSUME B # {} PROVE FALSE
    OBVIOUS
  <2>1. PICK n \in B : \A k \in B : n <= k
    <3>1. B \in SUBSET Nat
      OBVIOUS
    <3> QED
      BY <3>1, LeastElement
  <2>2. n \in Nat /\ ~Ok(n)
    BY <2>1
  <2>3. n # 0
    BY <2>2, PowerEquation
  <2>4. PICK m \in Nat : n = m + 1 /\ ~(n <= m)
    BY <2>2, <2>3
  <2>5. Ok(m)
    <3> HIDE DEF Ok
    <3> QED
      BY <2>1, <2>4
  <2>6. Power[n] = 2 * Power[m]
    BY <2>4, PowerEquation
  <2> QED
    BY <2>2, <2>4, <2>5, <2>6
<1>2. ASSUME NEW g \in Nat, NEW h \in Nat, g < h PROVE 2 * Power[g] <= Power[h]
  <2> DEFINE Ok(n) == g < n => 2 * Power[g] <= Power[n]
             B == {n \in Nat : ~Ok(n)}
  <2> SUFFICES ASSUME B # {} PROVE FALSE
    BY <1>2
  <2>1. PICK n \in B : \A k \in B : n <= k
    <3>1. B \in SUBSET Nat
      OBVIOUS
    <3> QED
      BY <3>1, LeastElement
  <2>2. n \in Nat /\ g < n /\ ~(2 * Power[g] <= Power[n])
    BY <2>1
  <2>3. PICK m \in Nat : n = m + 1 /\ ~(n <= m)
    BY <2>2
  <2>4. Ok(m)
    <3> HIDE DEF Ok
    <3> QED
      BY <2>1, <2>3
  <2>5. Power[n] = 2 * Power[m] /\ Power[m] \in Nat /\ Power[g] \in Nat /\ (m = g \/ g < m)
    BY <1>1, <2>2, <2>3, PowerEquation
  <2>6. 2 * Power[g] <= Power[n]
    BY <2>4, <2>5
  <2> QED
    BY <2>2, <2>6
<1> QED
  BY <1>1, <1>2
=============================================================================
