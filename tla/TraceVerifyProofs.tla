-------------------------- MODULE TraceVerifyProofs --------------------------
(***************************************************************************)
(* What exit code 0 of trace-verify's inclusion check promises, and to     *)
(* whom it must be given, for batches of any size.  The verifier sees no   *)
(* tree.  Soundness: the two numbers it shifts are always the place of a   *)
(* node, and the digest it carries is that node's only if the digest       *)
(* before was that of the node below.  Completeness: the digests of an     *)
(* audit path are the siblings at the levels where the ancestor has one,   *)
(* and the verifier skips exactly the other levels.                        *)
(* Exactness: the stages are the subtrees of the tree RFC 6962 defines by  *)
(* recursion, and no two paths are accepted for one leaf.                  *)
(***************************************************************************)
EXTENDS TraceVerify, CheckpointChainProofs

-----------------------------------------------------------------------------
(* The levels of a tree.                                                    *)

IsLevel(l) == Len(l) \in Nat \ {0} /\ DOMAIN l = 1..Len(l)

LEMMA LenOfFunction ==
    ASSUME NEW n \in Nat, NEW f, f = [k \in 1..n |-> f[k]]
    PROVE  Len(f) = n /\ DOMAIN f = 1..n
<1> DEFINE S == {f[k] : k \in 1..n}
<1>1. f \in [1..n -> S]
  OBVIOUS
<1> HIDE DEF S
<1>2. f \in Seq(S)
  BY <1>1
<1> QED
  BY <1>1, <1>2, LenProperties

LEMMA NextLevelIsLevel ==
    ASSUME NEW l, IsLevel(l)
    PROVE  /\ IsLevel(NextLevel(l))
           /\ Len(NextLevel(l)) = (Len(l) + 1) \div 2
           /\ \A k \in 1..(Len(l) + 1) \div 2 :
                NextLevel(l)[k] = IF 2 * k <= Len(l) THEN NodeHash(l[2 * k - 1], l[2 * k])
                                  ELSE l[2 * k - 1]
<1> DEFINE m == (Len(l) + 1) \div 2
           f == NextLevel(l)
<1>1. m \in Nat \ {0}
  <2>1. \A n \in Nat \ {0} : (n + 1) \div 2 \in Nat \ {0}
    OBVIOUS
  <2> QED
    BY <2>1 DEF IsLevel
<1>2. f = [k \in 1..m |-> f[k]]
  BY DEF NextLevel
<1>3. Len(f) = m /\ DOMAIN f = 1..m
  <2> HIDE DEF f, m
  <2> QED
    BY <1>1, <1>2, LenOfFunction
<1>4. \A k \in 1..m : f[k] = IF 2 * k <= Len(l) THEN NodeHash(l[2 * k - 1], l[2 * k])
                             ELSE l[2 * k - 1]
  BY DEF NextLevel
<1> QED
  BY <1>1, <1>3, <1>4 DEF IsLevel

Stages(lev, leaves, n) ==
    lev = [h \in 0..n |-> IF h = 0 THEN leaves ELSE NextLevel(lev[h - 1])]

LEMMA StagesExist ==
    ASSUME NEW leaves, NEW last \in Nat
    PROVE  \E lev : Stages(lev, leaves, last)
<1> DEFINE P(n) == \E lev : Stages(lev, leaves, n)
           B == {n \in Nat : ~P(n)}
<1> SUFFICES ASSUME B # {} PROVE FALSE
  OBVIOUS
<1>1. PICK n \in B : \A k \in B : n <= k
  <2>1. B \in SUBSET Nat
    OBVIOUS
  <2> QED
    BY <2>1, LeastElement
<1>2. n \in Nat /\ ~P(n)
  BY <1>1
<1>3. CASE n = 0
  <2>1. Stages([h \in 0..0 |-> leaves], leaves, 0)
    BY DEF Stages
  <2> QED
    BY <1>2, <1>3, <2>1
<1>4. CASE n # 0
  <2>1. n - 1 \in Nat /\ n - 1 \notin B
    <3>1. n - 1 \in Nat /\ ~(n <= n - 1)
      BY <1>2, <1>4
    <3> HIDE DEF B
    <3> QED
      BY <1>1, <3>1
  <2>2. PICK low : Stages(low, leaves, n - 1)
    BY <2>1
  <2> DEFINE lev == [h \in 0..n |-> IF h = n THEN NextLevel(low[n - 1]) ELSE low[h]]
  <2>3. \A h \in 0..n : h = n \/ h \in 0..n - 1
    BY <1>2
  <2>4. ASSUME NEW h \in 0..n
        PROVE  lev[h] = IF h = 0 THEN leaves ELSE NextLevel(lev[h - 1])
    <3>1. CASE h = n
      <4>1. n - 1 \in 0..n /\ n - 1 # n
        BY <1>2, <1>4
      <4> QED
        BY <1>4, <3>1, <4>1
    <3>2. CASE h \in 0..n - 1
      <4>1. h # n /\ (h # 0 => h - 1 \in 0..n /\ h - 1 # n)
        BY <1>2, <3>2
      <4>2. low[h] = IF h = 0 THEN leaves ELSE NextLevel(low[h - 1])
        BY <2>2, <3>2 DEF Stages
      <4> QED
        BY <4>1, <4>2
    <3> QED
      BY <2>3, <3>1, <3>2
  <2>5. Stages(lev, leaves, n)
    BY <2>4 DEF Stages
  <2> QED
    BY <1>2, <2>5
<1> QED
  BY <1>3, <1>4

\* Every level is about half of the one below it, until one node is left.
LEMMA StagesShrink ==
    ASSUME NEW leaves, IsLevel(leaves), NEW lev, Stages(lev, leaves, Len(leaves)),
           NEW h \in 0..Len(leaves)
    PROVE  IsLevel(lev[h]) /\ (Len(lev[h]) = 1 \/ Len(lev[h]) <= Len(leaves) - h)
<1> DEFINE N == Len(leaves)
           Good(n) == IsLevel(lev[n]) /\ (Len(lev[n]) = 1 \/ Len(lev[n]) <= N - n)
           B == {n \in 0..N : ~Good(n)}
<1>0. N \in Nat
  BY DEF IsLevel
<1> SUFFICES ASSUME B # {} PROVE FALSE
  OBVIOUS
<1>1. PICK n \in B : \A k \in B : n <= k
  <2>1. B \in SUBSET Nat
    BY <1>0
  <2> QED
    BY <2>1, LeastElement
<1>2. n \in 0..N /\ ~Good(n)
  BY <1>1
<1>3. CASE n = 0
  <2>1. lev[0] = leaves
    BY <1>0 DEF Stages
  <2> QED
    BY <1>0, <1>2, <1>3, <2>1
<1>4. CASE n # 0
  <2>1. n - 1 \in 0..N /\ Good(n - 1)
    <3>1. n - 1 \in 0..N /\ ~(n <= n - 1)
      BY <1>0, <1>2, <1>4
    <3> HIDE DEF Good
    <3> QED
      BY <1>1, <3>1
  <2>2. lev[n] = NextLevel(lev[n - 1])
    BY <1>2, <1>4 DEF Stages
  <2>3. IsLevel(lev[n]) /\ Len(lev[n]) = (Len(lev[n - 1]) + 1) \div 2
    BY <2>1, <2>2, NextLevelIsLevel
  <2>4. \A m \in Nat \ {0}, a \in Nat : \A b \in 1..a :
            m = 1 \/ m <= a - (b - 1) => (m + 1) \div 2 = 1 \/ (m + 1) \div 2 <= a - b
    OBVIOUS
  <2>5. Len(lev[n - 1]) \in Nat \ {0} /\ n \in 1..N
    BY <1>0, <1>2, <1>4, <2>1 DEF IsLevel
  <2>6. (Len(lev[n - 1]) + 1) \div 2 = 1 \/ (Len(lev[n - 1]) + 1) \div 2 <= N - n
    <3> HIDE DEF N
    <3> QED
      BY <1>0, <2>1, <2>4, <2>5
  <2> QED
    BY <1>2, <2>3, <2>6
<1> QED
  BY <1>3, <1>4

\* The stages build_tree computes end at the first that has a single node.
IsTree(lev, top, leaves) ==
    /\ Stages(lev, leaves, Len(leaves))
    /\ top \in 0..Len(leaves)
    /\ Len(lev[top]) = 1
    /\ top > 0 => Len(lev[top - 1]) > 1
    /\ Levels(leaves) = [h \in 1..top + 1 |-> lev[h - 1]]
    /\ Root(leaves) = lev[top][1]

LEMMA TreeExists ==
    ASSUME NEW leaves, IsLevel(leaves)
    PROVE  \E lev, top : IsTree(lev, top, leaves)
<1> DEFINE N == Len(leaves)
           lev == CHOOSE f : Stages(f, leaves, N)
           IsTop(h) == Len(lev[h]) = 1 /\ (h > 0 => Len(lev[h - 1]) > 1)
           top == CHOOSE h \in 0..N : IsTop(h)
           levels == [h \in 1..top + 1 |-> lev[h - 1]]
<1>0. N \in Nat \ {0}
  BY DEF IsLevel
<1>1. Stages(lev, leaves, N)
  BY <1>0, StagesExist
<1>2. Levels(leaves) = levels
  BY DEF Levels, Stages
<1> HIDE DEF lev
<1>3. \A h \in 0..N : IsLevel(lev[h]) /\ (Len(lev[h]) = 1 \/ Len(lev[h]) <= N - h)
  BY <1>1, StagesShrink
<1>4. \E h \in 0..N : IsTop(h)
  <2> DEFINE S == {h \in 0..N : Len(lev[h]) = 1}
  <2>1. N - 1 \in 0..N /\ N - (N - 1) = 1
    BY <1>0
  <2>2. Len(lev[N - 1]) = 1
    <3>1. \A n \in Nat \ {0} : n = 1 \/ n <= 1 => n = 1
      OBVIOUS
    <3>2. IsLevel(lev[N - 1]) /\ (Len(lev[N - 1]) = 1 \/ Len(lev[N - 1]) <= 1)
      BY <1>3, <2>1
    <3> QED
      BY <3>1, <3>2 DEF IsLevel
  <2>3. N - 1 \in S
    BY <2>1, <2>2
  <2>4. S \in SUBSET Nat /\ S # {}
    BY <2>3
  <2>5. PICK h \in S : \A k \in S : h <= k
    BY <2>4, LeastElement
  <2>6. h \in 0..N /\ Len(lev[h]) = 1
    BY <2>5
  <2>7. h > 0 => Len(lev[h - 1]) > 1
    <3> SUFFICES ASSUME h > 0 PROVE Len(lev[h - 1]) > 1
      OBVIOUS
    <3>1. h - 1 \in 0..N /\ ~(h <= h - 1)
      BY <1>0, <2>6
    <3>2. Len(lev[h - 1]) # 1
      BY <2>5, <3>1
    <3>3. Len(lev[h - 1]) \in Nat \ {0}
      BY <1>3, <3>1 DEF IsLevel
    <3>4. \A n \in Nat \ {0} : n # 1 => n > 1
      OBVIOUS
    <3> QED
      BY <3>2, <3>3, <3>4
  <2> QED
    BY <2>6, <2>7
<1>5. top \in 0..N /\ IsTop(top)
  BY <1>4
<1> HIDE DEF top
<1>6. Len(levels) = top + 1
  <2>1. top + 1 \in Nat /\ levels = [k \in 1..top + 1 |-> levels[k]]
    BY <1>5
  <2> HIDE DEF levels
  <2> QED
    BY <2>1, LenOfFunction
<1>7. Last(levels) = lev[top]
  BY <1>5, <1>6 DEF Last
<1>8. Root(leaves) = lev[top][1]
  BY <1>2, <1>7 DEF Root
<1>9. IsTree(lev, top, leaves)
  BY <1>1, <1>2, <1>5, <1>8 DEF IsTree
<1> QED
  BY <1>9

LEMMA LevelsHaveLength ==
    ASSUME NEW leaves, IsLevel(leaves)
    PROVE  Len(Levels(leaves)) \in Nat
<1>1. PICK lev, top : IsTree(lev, top, leaves)
  BY TreeExists
<1>2. top \in 0..Len(leaves) /\ Levels(leaves) = [h \in 1..top + 1 |-> lev[h - 1]]
  BY <1>1 DEF IsTree
<1>3. top + 1 \in Nat /\ Levels(leaves) = [h \in 1..top + 1 |-> Levels(leaves)[h]]
  BY <1>2 DEF IsLevel
<1> QED
  BY <1>3, LenOfFunction

\* A stage that is left with one node only repeats it.
LEMMA SingleStagesAgree ==
    ASSUME NEW leaves, IsLevel(leaves), NEW lev, Stages(lev, leaves, Len(leaves)),
           NEW g \in 0..Len(leaves), NEW h \in 0..Len(leaves), g <= h, Len(lev[g]) = 1
    PROVE  Len(lev[h]) = 1 /\ lev[h][1] = lev[g][1]
<1> DEFINE N == Len(leaves)
           Same(n) == Len(lev[n]) = 1 /\ lev[n][1] = lev[g][1]
           B == {n \in g..N : ~Same(n)}
<1>0. N \in Nat
  BY DEF IsLevel
<1> SUFFICES ASSUME B # {} PROVE FALSE
  BY <1>0
<1>1. PICK n \in B : \A k \in B : n <= k
  <2>1. B \in SUBSET Nat
    BY <1>0
  <2> QED
    BY <2>1, LeastElement
<1>2. n \in g..N /\ ~Same(n)
  BY <1>1
<1>3. n # g
  BY <1>2
<1>4. n - 1 \in g..N /\ n - 1 \in 0..N /\ n \in 0..N /\ n # 0 /\ ~(n <= n - 1)
  BY <1>0, <1>2, <1>3
<1>5. Same(n - 1)
  <2> HIDE DEF Same
  <2> QED
    BY <1>1, <1>4
<1>6. lev[n] = NextLevel(lev[n - 1])
  BY <1>4 DEF Stages
<1>7. IsLevel(lev[n - 1])
  BY <1>4, StagesShrink
<1> DEFINE l == lev[n - 1]
<1>8. Len(NextLevel(l)) = (Len(l) + 1) \div 2
      /\ \A k \in 1..(Len(l) + 1) \div 2 :
            NextLevel(l)[k] = IF 2 * k <= Len(l) THEN NodeHash(l[2 * k - 1], l[2 * k])
                              ELSE l[2 * k - 1]
  BY <1>7, NextLevelIsLevel
<1>9. Len(NextLevel(l)) = 1 /\ NextLevel(l)[1] = l[1]
  <2>1. Len(l) = 1
    BY <1>5
  <2> HIDE DEF l
  <2> QED
    BY <1>8, <2>1
<1> QED
  BY <1>2, <1>5, <1>6, <1>9

-----------------------------------------------------------------------------
(* Places in the tree, and how the verifier moves from one to the next.      *)

\* Node fn of a level whose last node is sn.
Place(lev, leaves, h, fn, sn) ==
    /\ h \in 0..Len(leaves)
    /\ fn \in Nat /\ sn \in Nat
    /\ fn <= sn
    /\ Len(lev[h]) = sn + 1

\* What the node above one is made of.
Parent(lev, h, fn, sn) ==
    IF fn % 2 = 1 THEN NodeHash(lev[h][fn], lev[h][fn + 1])
    ELSE IF fn # sn THEN NodeHash(lev[h][fn + 1], lev[h][fn + 2])
    ELSE lev[h][fn + 1]

Ascends(lev, leaves, h, fn, sn) ==
    /\ Place(lev, leaves, h + 1, fn \div 2, sn \div 2)
    /\ lev[h + 1][(fn \div 2) + 1] = Parent(lev, h, fn, sn)

\* Halving both numbers gives the place of the parent.
LEMMA ParentPlace ==
    ASSUME NEW leaves, IsLevel(leaves), NEW lev, Stages(lev, leaves, Len(leaves)),
           NEW h, NEW fn, NEW sn, Place(lev, leaves, h, fn, sn), sn # 0
    PROVE  Ascends(lev, leaves, h, fn, sn)
<1> DEFINE N == Len(leaves)
           l == lev[h]
<1>0. N \in Nat /\ h \in 0..N /\ fn \in Nat /\ sn \in Nat /\ fn <= sn /\ Len(l) = sn + 1
  BY DEF IsLevel, Place
<1>1. IsLevel(l) /\ (Len(l) = 1 \/ Len(l) <= N - h)
  BY <1>0, StagesShrink
<1>2. h + 1 \in 0..N /\ h + 1 # 0 /\ h + 1 - 1 = h
  BY <1>0, <1>1
<1>3. lev[h + 1] = NextLevel(l)
  <2>1. \A g \in 0..N : g # 0 => lev[g] = NextLevel(lev[g - 1])
    BY DEF Stages
  <2> HIDE DEF N, l
  <2>2. PICK g \in 0..N : g = h + 1 /\ g # 0 /\ g - 1 = h
    BY <1>0, <1>2
  <2>3. lev[g] = NextLevel(lev[g - 1])
    BY <2>1, <2>2
  <2> QED
    BY <2>2, <2>3 DEF l
<1>4. Len(NextLevel(l)) = (Len(l) + 1) \div 2
      /\ \A k \in 1..(Len(l) + 1) \div 2 :
            NextLevel(l)[k] = IF 2 * k <= Len(l) THEN NodeHash(l[2 * k - 1], l[2 * k])
                              ELSE l[2 * k - 1]
  BY <1>1, NextLevelIsLevel
<1> HIDE DEF l, N
<1>5. /\ \A n \in Nat : n \div 2 \in Nat /\ (n + 1 + 1) \div 2 = (n \div 2) + 1
      /\ \A m, n \in Nat : m <= n => m \div 2 <= n \div 2
  OBVIOUS
<1>6. (Len(l) + 1) \div 2 = (sn \div 2) + 1 /\ fn \div 2 \in Nat /\ sn \div 2 \in Nat
      /\ fn \div 2 <= sn \div 2
  BY <1>0, <1>5
<1> DEFINE k == (fn \div 2) + 1
<1>7. k \in 1..(Len(l) + 1) \div 2
  BY <1>6
<1>8. NextLevel(l)[k] = IF 2 * k <= sn + 1 THEN NodeHash(l[2 * k - 1], l[2 * k])
                        ELSE l[2 * k - 1]
  BY <1>0, <1>4, <1>7
<1>9. /\ fn % 2 = 1 => 2 * k = fn + 1
      /\ fn % 2 = 0 => 2 * k = fn + 2
  BY <1>0
<1> HIDE DEF k
<1>10. /\ fn % 2 = 1 => NextLevel(l)[k] = NodeHash(l[fn], l[fn + 1])
       /\ fn % 2 = 0 /\ fn # sn => NextLevel(l)[k] = NodeHash(l[fn + 1], l[fn + 2])
       /\ fn % 2 = 0 /\ fn = sn => NextLevel(l)[k] = l[fn + 1]
  <2>1. CASE fn % 2 = 1
    <3>1. 2 * k = fn + 1 /\ 2 * k <= sn + 1 /\ 2 * k - 1 = fn
      BY <1>0, <1>9, <2>1
    <3> QED
      BY <1>8, <2>1, <3>1
  <2>2. CASE fn % 2 = 0 /\ fn # sn
    <3>1. 2 * k = fn + 2 /\ 2 * k <= sn + 1 /\ 2 * k - 1 = fn + 1
      BY <1>0, <1>9, <2>2
    <3> QED
      BY <1>8, <2>2, <3>1
  <2>3. CASE fn % 2 = 0 /\ fn = sn
    <3>1. ~(2 * k <= sn + 1) /\ 2 * k - 1 = fn + 1
      BY <1>0, <1>9, <2>3
    <3> QED
      BY <1>8, <2>3, <3>1
  <2> QED
    BY <2>1, <2>2, <2>3
<1>11. Len(lev[h + 1]) = (sn \div 2) + 1
  BY <1>3, <1>4, <1>6
<1>12. Place(lev, leaves, h + 1, fn \div 2, sn \div 2)
  BY <1>2, <1>6, <1>11 DEF Place, N
<1>13. fn % 2 = 0 \/ fn % 2 = 1
  BY <1>0
<1>14. NextLevel(l)[k] = Parent(lev, h, fn, sn)
  BY <1>10, <1>13 DEF Parent, l
<1> QED
  BY <1>3, <1>12, <1>14 DEF Ascends, k

-----------------------------------------------------------------------------
(* Skipping levels where the node was promoted.                              *)

Pairs == Nat \X Nat
Even(pair) == pair[1] # 0 /\ pair[1] % 2 = 0
SkipsAt(f, pair) == f[pair] = IF Even(pair) THEN f[Shift(pair)] ELSE pair

LEMMA ShiftShrinks ==
    ASSUME NEW pair \in Pairs
    PROVE  /\ Shift(pair) \in Pairs
           /\ Shift(pair)[1] <= pair[1]
           /\ Even(pair) => Shift(pair)[1] < pair[1]
<1>1. \A n \in Nat : n \div 2 \in Nat /\ n \div 2 <= n /\ (n # 0 => n \div 2 < n)
  OBVIOUS
<1>2. pair[1] \in Nat /\ pair[2] \in Nat
  BY DEF Pairs
<1>3. Shift(pair)[1] = pair[1] \div 2 /\ Shift(pair)[2] = pair[2] \div 2
      /\ Shift(pair) = <<pair[1] \div 2, pair[2] \div 2>>
  BY DEF Shift
<1> QED
  BY <1>1, <1>2, <1>3 DEF Even, Pairs

\* A function that skips below a bound.
SkipsBelow(f, n) ==
    /\ f = [pair \in Pairs |-> f[pair]]
    /\ \A pair \in Pairs : pair[1] < n => SkipsAt(f, pair)

LEMMA SkipsBelowExists ==
    ASSUME NEW bound \in Nat
    PROVE  \E f : SkipsBelow(f, bound)
<1> DEFINE P(n) == \E f : SkipsBelow(f, n)
           B == {n \in Nat : ~P(n)}
<1> SUFFICES ASSUME B # {} PROVE FALSE
  OBVIOUS
<1>1. PICK n \in B : \A k \in B : n <= k
  <2>1. B \in SUBSET Nat
    OBVIOUS
  <2> QED
    BY <2>1, LeastElement
<1>2. n \in Nat /\ ~P(n)
  BY <1>1
<1>3. CASE n = 0
  <2> DEFINE f == [pair \in Pairs |-> pair]
  <2>1. f = [pair \in Pairs |-> f[pair]]
    OBVIOUS
  <2>2. \A pair \in Pairs : ~(pair[1] < 0)
    BY DEF Pairs
  <2>3. SkipsBelow(f, 0)
    BY <2>1, <2>2 DEF SkipsBelow
  <2> QED
    BY <1>2, <1>3, <2>3
<1>4. CASE n # 0
  <2>1. n - 1 \in Nat /\ n - 1 \notin B
    <3>1. n - 1 \in Nat /\ ~(n <= n - 1)
      BY <1>2, <1>4
    <3> HIDE DEF B
    <3> QED
      BY <1>1, <3>1
  <2>2. PICK low : SkipsBelow(low, n - 1)
    BY <2>1
  <2> DEFINE f == [pair \in Pairs |-> IF pair[1] = n - 1 /\ Even(pair) THEN low[Shift(pair)]
                                      ELSE IF pair[1] = n - 1 THEN pair ELSE low[pair]]
  <2>3. f = [pair \in Pairs |-> f[pair]]
    OBVIOUS
  <2>4. ASSUME NEW pair \in Pairs, pair[1] < n PROVE SkipsAt(f, pair)
    <3>1. /\ pair[1] \in Nat /\ Shift(pair) \in Pairs /\ Shift(pair)[1] \in Nat
          /\ Shift(pair)[1] <= pair[1] /\ (Even(pair) => Shift(pair)[1] < pair[1])
      BY ShiftShrinks DEF Pairs
    <3>2. Even(pair) => Shift(pair)[1] # n - 1
      BY <1>2, <2>4, <3>1
    <3>3. Even(pair) => f[Shift(pair)] = low[Shift(pair)]
      BY <3>1, <3>2
    <3>4. CASE pair[1] = n - 1
      <4>1. f[pair] = IF Even(pair) THEN low[Shift(pair)] ELSE pair
        BY <3>4
      <4> QED
        BY <3>3, <4>1 DEF SkipsAt
    <3>5. CASE pair[1] # n - 1
      <4>1. pair[1] < n - 1
        BY <1>2, <2>4, <3>1, <3>5
      <4>2. f[pair] = low[pair]
        BY <3>5
      <4>3. SkipsAt(low, pair)
        BY <2>2, <4>1 DEF SkipsBelow
      <4> QED
        BY <3>3, <4>2, <4>3 DEF SkipsAt
    <3> QED
      BY <3>4, <3>5
  <2>5. SkipsBelow(f, n)
    BY <2>3, <2>4 DEF SkipsBelow
  <2> QED
    BY <1>2, <2>5
<1> QED
  BY <1>3, <1>4

LEMMA SkipsBelowAgree ==
    ASSUME NEW f, NEW m \in Nat, SkipsBelow(f, m), NEW g, NEW n \in Nat, SkipsBelow(g, n),
           NEW pair \in Pairs, pair[1] < m, pair[1] < n
    PROVE  f[pair] = g[pair]
<1> DEFINE Differ(k) == \E p \in Pairs : p[1] = k /\ k < m /\ k < n /\ f[p] # g[p]
           B == {k \in Nat : Differ(k)}
<1> SUFFICES ASSUME B # {} PROVE FALSE
  <2>1. pair[1] \in Nat
    BY DEF Pairs
  <2> QED
    BY <2>1
<1>1. PICK k \in B : \A j \in B : k <= j
  <2>1. B \in SUBSET Nat
    OBVIOUS
  <2> QED
    BY <2>1, LeastElement
<1>2. PICK p \in Pairs : p[1] = k /\ k < m /\ k < n /\ f[p] # g[p]
  BY <1>1
<1>3. k \in Nat
  BY <1>1
<1>4. SkipsAt(f, p) /\ SkipsAt(g, p)
  BY <1>2 DEF SkipsBelow
<1>5. Even(p) /\ f[Shift(p)] # g[Shift(p)]
  BY <1>2, <1>4 DEF SkipsAt
<1> DEFINE q == Shift(p)
<1>6. q \in Pairs /\ q[1] \in Nat /\ q[1] < k
  BY <1>2, <1>5, ShiftShrinks DEF Pairs
<1> HIDE DEF q
<1>7. q[1] < m /\ q[1] < n /\ ~(k <= q[1])
  BY <1>2, <1>3, <1>6
<1>8. q[1] \in B
  BY <1>5, <1>6, <1>7 DEF q
<1> HIDE DEF B
<1> QED
  BY <1>1, <1>7, <1>8

\* The function the verifier's inner loop computes exists.
LEMMA SkipPromotedEquation ==
    ASSUME NEW pair \in Pairs
    PROVE  SkipsAt(SkipPromoted, pair)
<1> DEFINE G(n) == CHOOSE f : SkipsBelow(f, n)
           F == [p \in Pairs |-> G(p[1] + 1)[p]]
           Skips(f) == f = [p \in Pairs |-> IF Even(p) THEN f[Shift(p)] ELSE p]
<1>1. \A n \in Nat : SkipsBelow(G(n), n)
  BY SkipsBelowExists
<1> HIDE DEF G
<1>2. ASSUME NEW p \in Pairs PROVE F[p] = IF Even(p) THEN F[Shift(p)] ELSE p
  <2>1. /\ p[1] \in Nat /\ p[1] + 1 \in Nat /\ p[1] < p[1] + 1
        /\ Shift(p) \in Pairs /\ Shift(p)[1] \in Nat /\ Shift(p)[1] + 1 \in Nat
        /\ Shift(p)[1] < Shift(p)[1] + 1 /\ Shift(p)[1] < p[1] + 1
    <3>1. /\ p[1] \in Nat /\ Shift(p) \in Pairs /\ Shift(p)[1] \in Nat
          /\ Shift(p)[1] <= p[1]
      BY ShiftShrinks DEF Pairs
    <3>2. \A a, b \in Nat : a <= b => b + 1 \in Nat /\ b < b + 1 /\ a < b + 1
      OBVIOUS
    <3> QED
      BY <3>1, <3>2
  <2> DEFINE q == Shift(p)
  <2> HIDE DEF q
  <2>2. SkipsBelow(G(p[1] + 1), p[1] + 1) /\ SkipsBelow(G(q[1] + 1), q[1] + 1)
    BY <1>1, <2>1 DEF q
  <2>3. G(p[1] + 1)[q] = G(q[1] + 1)[q]
    BY <2>1, <2>2, SkipsBelowAgree DEF q
  <2>4. SkipsAt(G(p[1] + 1), p)
    BY <2>1, <2>2 DEF SkipsBelow
  <2>5. F[p] = G(p[1] + 1)[p] /\ F[q] = G(q[1] + 1)[q]
    BY <2>1 DEF q
  <2> QED
    BY <2>3, <2>4, <2>5 DEF SkipsAt, q
<1>3. Skips(F)
  BY <1>2
<1> HIDE DEF F
<1>4. SkipPromoted = CHOOSE f : Skips(f)
  BY DEF SkipPromoted, Even, Pairs
<1>5. Skips(SkipPromoted)
  BY <1>3, <1>4
<1> QED
  BY <1>5 DEF SkipsAt

\* Skipping from the trailing node of an odd level ends where this node has a
\* sibling: further up, and it is still the same node.
SkipEnds(lev, leaves, h, n, g, m) ==
    /\ SkipPromoted[<<n, n>>] = <<m, m>>
    /\ Place(lev, leaves, g, m, m)
    /\ m % 2 = 1
    /\ lev[g][m + 1] = lev[h][n + 1]

LEMMA SkipPlace ==
    ASSUME NEW leaves, IsLevel(leaves), NEW lev, Stages(lev, leaves, Len(leaves)),
           NEW last, NEW from, last # 0, Place(lev, leaves, from, last, last)
    PROVE  \E g, m : SkipEnds(lev, leaves, from, last, g, m)
<1> DEFINE Ends(h, n) == \E g, m : SkipEnds(lev, leaves, h, n, g, m)
           B == {n \in Nat : n # 0 /\ \E h : Place(lev, leaves, h, n, n) /\ ~Ends(h, n)}
<1> SUFFICES ASSUME B # {} PROVE FALSE
  <2>1. last \in Nat
    BY DEF Place
  <2> QED
    BY <2>1
<1>1. PICK n \in B : \A k \in B : n <= k
  <2>1. B \in SUBSET Nat
    OBVIOUS
  <2> QED
    BY <2>1, LeastElement
<1>2. n \in Nat /\ n # 0
  BY <1>1
<1>3. PICK h : Place(lev, leaves, h, n, n) /\ ~Ends(h, n)
  BY <1>1
<1>4. /\ SkipPromoted[<<n, n>>] = IF Even(<<n, n>>) THEN SkipPromoted[Shift(<<n, n>>)] ELSE <<n, n>>
      /\ Even(<<n, n>>) <=> n % 2 = 0
      /\ Shift(<<n, n>>) = <<n \div 2, n \div 2>>
  <2>1. <<n, n>> \in Pairs
    BY <1>2 DEF Pairs
  <2> QED
    BY <1>2, <2>1, SkipPromotedEquation DEF SkipsAt, Even, Shift
<1>5. CASE n % 2 # 0
  <2>1. n % 2 = 1
    BY <1>2, <1>5
  <2>2. SkipEnds(lev, leaves, h, n, h, n)
    BY <1>3, <1>4, <1>5, <2>1 DEF SkipEnds
  <2> QED
    BY <1>3, <2>2
<1>6. CASE n % 2 = 0
  <2> DEFINE half == n \div 2
  <2>1. half \in Nat /\ half # 0 /\ half < n /\ ~(n <= half)
    BY <1>2, <1>6
  <2>2. Place(lev, leaves, h + 1, half, half) /\ lev[h + 1][half + 1] = lev[h][n + 1]
    <3>1. Ascends(lev, leaves, h, n, n)
      BY <1>2, <1>3, ParentPlace
    <3>2. Place(lev, leaves, h + 1, half, half) /\ lev[h + 1][half + 1] = Parent(lev, h, n, n)
      BY <3>1 DEF Ascends
    <3>3. Parent(lev, h, n, n) = lev[h][n + 1]
      BY <1>6 DEF Parent
    <3> QED
      BY <3>2, <3>3
  <2> HIDE DEF half
  <2>3. half \notin B
    <3> HIDE DEF B
    <3> QED
      BY <1>1, <2>1
  <2>4. Ends(h + 1, half)
    BY <2>1, <2>2, <2>3
  <2>5. PICK g, m : SkipEnds(lev, leaves, h + 1, half, g, m)
    BY <2>4
  <2>6. SkipPromoted[<<n, n>>] = SkipPromoted[<<half, half>>]
    BY <1>4, <1>6 DEF half
  <2>7. SkipEnds(lev, leaves, h, n, g, m)
    BY <2>2, <2>5, <2>6 DEF SkipEnds
  <2> QED
    BY <1>3, <2>7
<1> QED
  BY <1>5, <1>6

-----------------------------------------------------------------------------
(* The verifier's loop.                                                      *)

LEMMA NodeHashInjective ==
    ASSUME NEW a, NEW b, NEW c, NEW d, NodeHash(a, b) = NodeHash(c, d)
    PROVE  a = c /\ b = d
<1>1. <<a, b>> = <<c, d>>
  BY DEF NodeHash
<1> QED
  BY <1>1

\* Where the verifier is after a digest of the path, and what its own digest can be.
At(lev, leaves, h, x) == Place(lev, leaves, h, x.fn, x.sn)
IsNode(lev, h, x) == x.r = lev[h][x.fn + 1]

LEMMA ClimbStep ==
    ASSUME NEW leaves, IsLevel(leaves), NEW lev, Stages(lev, leaves, Len(leaves)),
           NEW h, NEW x, At(lev, leaves, h, x), x.sn # 0, NEW sibling
    PROVE  \E g : /\ At(lev, leaves, g, Climb(x, sibling))
                  /\ IsNode(lev, g, Climb(x, sibling)) => IsNode(lev, h, x)
<1> DEFINE y == Climb(x, sibling)
<1>0. x.fn \in Nat /\ x.sn \in Nat /\ x.fn <= x.sn
  BY DEF At, Place
<1>1. CASE x.fn % 2 = 1
  <2>1. SkipPromoted[<<x.fn, x.sn>>] = <<x.fn, x.sn>>
    <3>1. <<x.fn, x.sn>> \in Pairs /\ ~Even(<<x.fn, x.sn>>)
      BY <1>0, <1>1 DEF Pairs, Even
    <3> QED
      BY <3>1, SkipPromotedEquation DEF SkipsAt
  <2>2. y.r = NodeHash(sibling, x.r) /\ y.fn = x.fn \div 2 /\ y.sn = x.sn \div 2
    BY <1>1, <2>1 DEF Climb, Shift
  <2>3. /\ Place(lev, leaves, h + 1, x.fn \div 2, x.sn \div 2)
        /\ lev[h + 1][(x.fn \div 2) + 1] = NodeHash(lev[h][x.fn], lev[h][x.fn + 1])
    <3>1. Ascends(lev, leaves, h, x.fn, x.sn)
      BY ParentPlace DEF At
    <3> QED
      BY <1>1, <3>1 DEF Ascends, Parent
  <2> HIDE DEF y
  <2>4. At(lev, leaves, h + 1, y)
    BY <2>2, <2>3 DEF At
  <2>5. IsNode(lev, h + 1, y) => IsNode(lev, h, x)
    <3> SUFFICES ASSUME IsNode(lev, h + 1, y) PROVE IsNode(lev, h, x)
      OBVIOUS
    <3>1. y.r = lev[h + 1][(x.fn \div 2) + 1]
      BY <2>2 DEF IsNode
    <3>2. NodeHash(sibling, x.r) = NodeHash(lev[h][x.fn], lev[h][x.fn + 1])
      BY <2>2, <2>3, <3>1
    <3>3. x.r = lev[h][x.fn + 1]
      BY <3>2, NodeHashInjective
    <3> QED
      BY <3>3 DEF IsNode
  <2> QED
    BY <2>4, <2>5 DEF y
<1>2. CASE x.fn % 2 = 0 /\ x.fn # x.sn
  <2>1. y.r = NodeHash(x.r, sibling) /\ y.fn = x.fn \div 2 /\ y.sn = x.sn \div 2
    BY <1>2 DEF Climb, Shift
  <2>2. /\ Place(lev, leaves, h + 1, x.fn \div 2, x.sn \div 2)
        /\ lev[h + 1][(x.fn \div 2) + 1] = NodeHash(lev[h][x.fn + 1], lev[h][x.fn + 2])
    <3>1. Ascends(lev, leaves, h, x.fn, x.sn)
      BY ParentPlace DEF At
    <3> QED
      BY <1>2, <3>1 DEF Ascends, Parent
  <2> HIDE DEF y
  <2>3. At(lev, leaves, h + 1, y)
    BY <2>1, <2>2 DEF At
  <2>4. IsNode(lev, h + 1, y) => IsNode(lev, h, x)
    <3> SUFFICES ASSUME IsNode(lev, h + 1, y) PROVE IsNode(lev, h, x)
      OBVIOUS
    <3>1. y.r = lev[h + 1][(x.fn \div 2) + 1]
      BY <2>1 DEF IsNode
    <3>2. NodeHash(x.r, sibling) = NodeHash(lev[h][x.fn + 1], lev[h][x.fn + 2])
      BY <2>1, <2>2, <3>1
    <3>3. x.r = lev[h][x.fn + 1]
      BY <3>2, NodeHashInjective
    <3> QED
      BY <3>3 DEF IsNode
  <2> QED
    BY <2>3, <2>4 DEF y
<1>3. CASE x.fn % 2 = 0 /\ x.fn = x.sn
  <2>1. Place(lev, leaves, h, x.sn, x.sn)
    BY <1>3 DEF At
  <2>2. PICK g, m : SkipEnds(lev, leaves, h, x.sn, g, m)
    BY <2>1, SkipPlace
  <2>3. /\ y.r = NodeHash(sibling, x.r) /\ y.fn = m \div 2 /\ y.sn = m \div 2
    BY <1>3, <2>2 DEF Climb, Shift, SkipEnds
  <2>4. Place(lev, leaves, g, m, m) /\ m % 2 = 1 /\ m # 0 /\ lev[g][m + 1] = lev[h][x.sn + 1]
    BY <2>2 DEF SkipEnds
  <2>5. /\ Place(lev, leaves, g + 1, m \div 2, m \div 2)
        /\ lev[g + 1][(m \div 2) + 1] = NodeHash(lev[g][m], lev[g][m + 1])
    <3>1. Ascends(lev, leaves, g, m, m)
      BY <2>4, ParentPlace
    <3> QED
      BY <2>4, <3>1 DEF Ascends, Parent
  <2> HIDE DEF y
  <2>6. At(lev, leaves, g + 1, y)
    BY <2>3, <2>5 DEF At
  <2>7. IsNode(lev, g + 1, y) => IsNode(lev, h, x)
    <3> SUFFICES ASSUME IsNode(lev, g + 1, y) PROVE IsNode(lev, h, x)
      OBVIOUS
    <3>1. y.r = lev[g + 1][(m \div 2) + 1]
      BY <2>3 DEF IsNode
    <3>2. NodeHash(sibling, x.r) = NodeHash(lev[g][m], lev[g][m + 1])
      BY <2>3, <2>5, <3>1
    <3>3. x.r = lev[g][m + 1]
      BY <3>2, NodeHashInjective
    <3> QED
      BY <1>3, <2>4, <3>3 DEF IsNode
  <2> QED
    BY <2>6, <2>7 DEF y
<1>4. x.fn % 2 = 0 \/ x.fn % 2 = 1
  BY <1>0
<1> QED
  BY <1>1, <1>2, <1>3, <1>4

Begin(hash, index, last) == [r |-> hash, fn |-> index, sn |-> last, fits |-> TRUE]
Climbs(at, begin, path, n) ==
    at = [k \in 0..n |-> IF k = 0 THEN begin ELSE Climb(at[k - 1], path[k])]

LEMMA ClimbsExist ==
    ASSUME NEW begin, NEW path, NEW last \in Nat
    PROVE  \E at : Climbs(at, begin, path, last)
<1> DEFINE P(n) == \E at : Climbs(at, begin, path, n)
           B == {n \in Nat : ~P(n)}
<1> SUFFICES ASSUME B # {} PROVE FALSE
  OBVIOUS
<1>1. PICK n \in B : \A k \in B : n <= k
  <2>1. B \in SUBSET Nat
    OBVIOUS
  <2> QED
    BY <2>1, LeastElement
<1>2. n \in Nat /\ ~P(n)
  BY <1>1
<1>3. CASE n = 0
  <2>1. Climbs([k \in 0..0 |-> begin], begin, path, 0)
    BY DEF Climbs
  <2> QED
    BY <1>2, <1>3, <2>1
<1>4. CASE n # 0
  <2>1. n - 1 \in Nat /\ n - 1 \notin B
    <3>1. n - 1 \in Nat /\ ~(n <= n - 1)
      BY <1>2, <1>4
    <3> HIDE DEF B
    <3> QED
      BY <1>1, <3>1
  <2>2. PICK low : Climbs(low, begin, path, n - 1)
    BY <2>1
  <2> DEFINE at == [k \in 0..n |-> IF k = n THEN Climb(low[n - 1], path[n]) ELSE low[k]]
  <2>3. \A k \in 0..n : k = n \/ k \in 0..n - 1
    BY <1>2
  <2>4. ASSUME NEW k \in 0..n
        PROVE  at[k] = IF k = 0 THEN begin ELSE Climb(at[k - 1], path[k])
    <3>1. CASE k = n
      <4>1. n - 1 \in 0..n /\ n - 1 # n
        BY <1>2, <1>4
      <4> QED
        BY <1>4, <3>1, <4>1
    <3>2. CASE k \in 0..n - 1
      <4>1. k # n /\ (k # 0 => k - 1 \in 0..n /\ k - 1 # n)
        BY <1>2, <3>2
      <4>2. low[k] = IF k = 0 THEN begin ELSE Climb(low[k - 1], path[k])
        BY <2>2, <3>2 DEF Climbs
      <4> QED
        BY <4>1, <4>2
    <3> QED
      BY <2>3, <3>1, <3>2
  <2>5. Climbs(at, begin, path, n)
    BY <2>4 DEF Climbs
  <2> QED
    BY <1>2, <2>5
<1> QED
  BY <1>3, <1>4

LEMMA ReplayIsClimbs ==
    ASSUME NEW hash, NEW index, NEW path, NEW last, Len(path) \in Nat
    PROVE  \E at : /\ Climbs(at, Begin(hash, index, last), path, Len(path))
                   /\ Replay(hash, index, path, last) = at[Len(path)]
<1> DEFINE begin == Begin(hash, index, last)
           at == CHOOSE f : Climbs(f, begin, path, Len(path))
<1>1. Climbs(at, begin, path, Len(path))
  BY ClimbsExist
<1>2. Replay(hash, index, path, last) = at[Len(path)]
  BY DEF Replay, Climbs, Begin
<1> QED
  BY <1>1, <1>2

\* No path makes the verifier accept a file that is not the one at the index.
LEMMA InclusionIsSound ==
    ASSUME NEW leaves, IsLevel(leaves), NEW bytes, NEW index \in Nat, NEW path,
           Len(path) \in Nat, VerifyInclusion(bytes, index, path, Len(leaves), Root(leaves))
    PROVE  index + 1 \in DOMAIN leaves /\ leaves[index + 1] = LeafHash(bytes)
<1> DEFINE N == Len(leaves)
           M == Len(path)
           hash == LeafHash(bytes)
<1>0. N \in Nat \ {0} /\ DOMAIN leaves = 1..N /\ M \in Nat
  BY DEF IsLevel
<1>1. PICK lev, top : IsTree(lev, top, leaves)
  BY TreeExists
<1>2. /\ Stages(lev, leaves, Len(leaves))
      /\ top \in 0..N /\ Len(lev[top]) = 1 /\ Root(leaves) = lev[top][1]
  BY <1>1 DEF IsTree
<1>3. PICK at : /\ Climbs(at, Begin(hash, index, N - 1), path, Len(path))
                /\ Replay(hash, index, path, N - 1) = at[Len(path)]
  BY ReplayIsClimbs
<1>4. index < N /\ at[M].fits /\ at[M].sn = 0 /\ at[M].r = Root(leaves)
  BY <1>3 DEF VerifyInclusion
<1> DEFINE Earned(h, x) == At(lev, leaves, h, x) /\ (IsNode(lev, h, x) => hash = leaves[index + 1])
           Good(k) == at[k].fits => \E h : Earned(h, at[k])
<1>5. \A k \in 0..M : Good(k)
  <2> DEFINE B == {k \in 0..M : ~Good(k)}
  <2> SUFFICES ASSUME B # {} PROVE FALSE
    OBVIOUS
  <2>1. PICK k \in B : \A j \in B : k <= j
    <3>1. B \in SUBSET Nat
      BY <1>0
    <3> QED
      BY <3>1, LeastElement
  <2>2. k \in 0..M /\ ~Good(k)
    BY <2>1
  <2>3. CASE k = 0
    <3>1. at[0] = Begin(hash, index, N - 1)
      BY <1>0, <1>3 DEF Climbs
    <3>2. at[0].r = hash /\ at[0].fn = index /\ at[0].sn = N - 1
      BY <3>1 DEF Begin
    <3>3. lev[0] = leaves
      BY <1>0, <1>2 DEF Stages
    <3>4. Place(lev, leaves, 0, index, N - 1)
      BY <1>0, <1>4, <3>3 DEF Place
    <3>5. Earned(0, at[0])
      BY <3>2, <3>3, <3>4 DEF At, IsNode
    <3> QED
      BY <2>2, <2>3, <3>5
  <2>4. CASE k # 0
    <3>1. k - 1 \in 0..M /\ ~(k <= k - 1)
      BY <1>0, <2>2, <2>4
    <3>2. Good(k - 1)
      <4> HIDE DEF Good
      <4> QED
        BY <2>1, <3>1
    <3> DEFINE x == at[k - 1]
    <3>3. at[k] = Climb(x, path[k])
      BY <1>3, <2>2, <2>4 DEF Climbs
    <3>4. at[k].fits
      BY <2>2
    <3>5. x.fits /\ x.sn # 0
      <4> HIDE DEF x
      <4>1. Climb(x, path[k]).fits = (x.fits /\ x.sn # 0)
        BY DEF Climb
      <4> QED
        BY <3>3, <3>4, <4>1
    <3>6. PICK h : Earned(h, x)
      BY <3>2, <3>5
    <3>7. PICK g : /\ At(lev, leaves, g, Climb(x, path[k]))
                   /\ IsNode(lev, g, Climb(x, path[k])) => IsNode(lev, h, x)
      <4> HIDE DEF x
      <4> QED
        BY <1>2, <3>5, <3>6, ClimbStep
    <3>8. Earned(g, at[k])
      <4> HIDE DEF x
      <4> QED
        BY <3>3, <3>6, <3>7
    <3> QED
      BY <2>2, <3>8
  <2> QED
    BY <2>3, <2>4
<1>6. PICK h : Earned(h, at[M])
  BY <1>0, <1>4, <1>5
<1>7. h \in 0..N /\ at[M].fn = 0 /\ Len(lev[h]) = 1
  BY <1>4, <1>6 DEF At, Place
<1>8. lev[h][1] = lev[top][1]
  <2>1. h <= top \/ top <= h
    BY <1>0, <1>2, <1>7
  <2> QED
    BY <1>2, <1>7, <2>1, SingleStagesAgree
<1>9. IsNode(lev, h, at[M])
  BY <1>2, <1>4, <1>7, <1>8 DEF IsNode
<1> QED
  BY <1>0, <1>4, <1>6, <1>9

-----------------------------------------------------------------------------
(* The audit path, and why the verifier accepts it.                          *)

Positions(pos, index, n) == pos = [h \in 1..n |-> IF h = 1 THEN index ELSE pos[h - 1] \div 2]

LEMMA PositionsExist ==
    ASSUME NEW index, NEW last \in Nat
    PROVE  \E pos : Positions(pos, index, last)
<1> DEFINE P(n) == \E pos : Positions(pos, index, n)
           B == {n \in Nat : ~P(n)}
<1> SUFFICES ASSUME B # {} PROVE FALSE
  OBVIOUS
<1>1. PICK n \in B : \A k \in B : n <= k
  <2>1. B \in SUBSET Nat
    OBVIOUS
  <2> QED
    BY <2>1, LeastElement
<1>2. n \in Nat /\ ~P(n)
  BY <1>1
<1>3. CASE n = 0
  <2>1. \A h : h \notin 1..0
    OBVIOUS
  <2>2. Positions([h \in 1..0 |-> index], index, 0)
    BY <2>1 DEF Positions
  <2> QED
    BY <1>2, <1>3, <2>2
<1>4. CASE n # 0
  <2>1. n - 1 \in Nat /\ n - 1 \notin B
    <3>1. n - 1 \in Nat /\ ~(n <= n - 1)
      BY <1>2, <1>4
    <3> HIDE DEF B
    <3> QED
      BY <1>1, <3>1
  <2>2. PICK low : Positions(low, index, n - 1)
    BY <2>1
  <2> DEFINE new == IF n = 1 THEN index ELSE low[n - 1] \div 2
             pos == [h \in 1..n |-> IF h = n THEN new ELSE low[h]]
  <2> HIDE DEF new
  <2>3. \A h \in 1..n : h = n \/ h \in 1..n - 1
    BY <1>2
  <2>4. ASSUME NEW h \in 1..n
        PROVE  pos[h] = IF h = 1 THEN index ELSE pos[h - 1] \div 2
    <3>1. CASE h = n
      <4>1. pos[n] = new
        BY <1>2, <1>4
      <4>2. n # 1 => n - 1 \in 1..n /\ n - 1 # n
        BY <1>2, <1>4
      <4>3. n # 1 => pos[n - 1] = low[n - 1]
        BY <4>2
      <4> QED
        BY <3>1, <4>1, <4>3 DEF new
    <3>2. CASE h \in 1..n - 1
      <4>1. h # n /\ (h # 1 => h - 1 \in 1..n /\ h - 1 # n)
        BY <1>2, <3>2
      <4>2. low[h] = IF h = 1 THEN index ELSE low[h - 1] \div 2
        BY <2>2, <3>2 DEF Positions
      <4>3. pos[h] = low[h] /\ (h # 1 => pos[h - 1] = low[h - 1])
        BY <4>1
      <4> QED
        BY <4>2, <4>3
    <3> QED
      BY <2>3, <3>1, <3>2
  <2>5. Positions(pos, index, n)
    BY <2>4 DEF Positions
  <2> QED
    BY <1>2, <2>5
<1> QED
  BY <1>3, <1>4

\* The last index of a stage; the ancestor of a leaf in it has a sibling or not.
LastOf(lev, h) == Len(lev[h]) - 1
PairedAt(lev, pos, h) == pos[h + 1] % 2 = 1 \/ pos[h + 1] # LastOf(lev, h)
SiblingOf(p) == IF p % 2 = 0 THEN p + 1 ELSE p - 1
PairedLevels(lev, pos, top) == {h \in 1..top : PairedAt(lev, pos, h - 1)}

\* An ancestor is in its stage, and its parent is in the next one.
Ancestors(lev, pos, leaves, top) ==
    /\ \A h \in 0..top : Place(lev, leaves, h, pos[h + 1], LastOf(lev, h))
    /\ \A h \in 0..top : h # top =>
          /\ LastOf(lev, h) # 0
          /\ pos[h + 2] = pos[h + 1] \div 2
          /\ LastOf(lev, h + 1) = LastOf(lev, h) \div 2

LEMMA AncestorPlaces ==
    ASSUME NEW leaves, IsLevel(leaves), NEW lev, NEW top, IsTree(lev, top, leaves),
           NEW index \in Nat, index < Len(leaves), NEW pos, Positions(pos, index, top + 1)
    PROVE  Ancestors(lev, pos, leaves, top)
<1>0. /\ Stages(lev, leaves, Len(leaves)) /\ top \in 0..Len(leaves) /\ top \in Nat
      /\ Len(lev[top]) = 1 /\ (top > 0 => Len(lev[top - 1]) > 1)
      /\ Len(leaves) \in Nat \ {0}
  BY DEF IsTree, IsLevel
<1>1. ASSUME NEW h \in 0..top PROVE h \in 0..Len(leaves) /\ Len(lev[h]) \in Nat \ {0}
  <2>1. h \in 0..Len(leaves)
    BY <1>0
  <2> QED
    BY <1>0, <2>1, StagesShrink DEF IsLevel
<1>2. ASSUME NEW h \in 0..top, h # top PROVE LastOf(lev, h) # 0
  <2> SUFFICES ASSUME LastOf(lev, h) = 0 PROVE FALSE
    OBVIOUS
  <2>1. Len(lev[h]) = 1
    BY <1>1 DEF LastOf
  <2>2. top - 1 \in 0..Len(leaves) /\ h <= top - 1 /\ top > 0
    BY <1>0, <1>2
  <2>3. Len(lev[top - 1]) = 1
    BY <1>0, <1>1, <2>1, <2>2, SingleStagesAgree
  <2> QED
    BY <1>0, <2>2, <2>3
<1>3. ASSUME NEW h \in 0..top, h # top PROVE pos[h + 2] = pos[h + 1] \div 2
  <2>1. PICK g \in 1..top + 1 : g = h + 2 /\ g # 1 /\ g - 1 = h + 1
    BY <1>0, <1>3
  <2>2. pos[g] = pos[g - 1] \div 2
    BY <2>1 DEF Positions
  <2> QED
    BY <2>1, <2>2
<1>4. ASSUME NEW h \in 0..top, h # top, Place(lev, leaves, h, pos[h + 1], LastOf(lev, h))
      PROVE  /\ Place(lev, leaves, h + 1, pos[h + 2], LastOf(lev, h + 1))
             /\ LastOf(lev, h + 1) = LastOf(lev, h) \div 2
  <2>1. Ascends(lev, leaves, h, pos[h + 1], LastOf(lev, h))
    BY <1>0, <1>2, <1>4, ParentPlace
  <2>2. Place(lev, leaves, h + 1, pos[h + 1] \div 2, LastOf(lev, h) \div 2)
    BY <2>1 DEF Ascends
  <2>3. LastOf(lev, h + 1) = LastOf(lev, h) \div 2
    <3> DEFINE half == LastOf(lev, h) \div 2
    <3> HIDE DEF half
    <3>1. half \in Nat /\ Len(lev[h + 1]) = half + 1
      BY <2>2 DEF Place, half
    <3>2. LastOf(lev, h + 1) = half
      BY <3>1 DEF LastOf
    <3> QED
      BY <3>2 DEF half
  <2> QED
    BY <1>3, <1>4, <2>2, <2>3
<1>5. \A h \in 0..top : Place(lev, leaves, h, pos[h + 1], LastOf(lev, h))
  <2> DEFINE At0(h) == Place(lev, leaves, h, pos[h + 1], LastOf(lev, h))
             B == {h \in 0..top : ~At0(h)}
  <2> SUFFICES ASSUME B # {} PROVE FALSE
    OBVIOUS
  <2>1. PICK h \in B : \A k \in B : h <= k
    <3>1. B \in SUBSET Nat
      BY <1>0
    <3> QED
      BY <3>1, LeastElement
  <2>2. h \in 0..top /\ ~At0(h)
    BY <2>1
  <2>3. CASE h = 0
    <3>1. lev[0] = leaves
      BY <1>0 DEF Stages
    <3>2. pos[1] = index
      BY <1>0 DEF Positions
    <3>3. LastOf(lev, 0) = Len(leaves) - 1
      BY <3>1 DEF LastOf
    <3>4. Place(lev, leaves, 0, index, Len(leaves) - 1)
      BY <1>0, <3>1 DEF Place
    <3>5. At0(0)
      BY <3>2, <3>3, <3>4
    <3> QED
      BY <2>2, <2>3, <3>5
  <2>4. CASE h # 0
    <3>1. PICK g \in 0..top : g # top /\ h = g + 1 /\ g + 2 = h + 1 /\ ~(h <= g)
      <4>1. h - 1 \in 0..top /\ h - 1 # top /\ h = (h - 1) + 1 /\ (h - 1) + 2 = h + 1
            /\ ~(h <= h - 1)
        BY <1>0, <2>2, <2>4
      <4> QED
        BY <4>1
    <3>2. At0(g)
      <4> HIDE DEF At0
      <4> QED
        BY <2>1, <3>1
    <3>3. Place(lev, leaves, g + 1, pos[g + 2], LastOf(lev, g + 1))
      BY <1>4, <3>1, <3>2
    <3> QED
      BY <2>2, <3>1, <3>3
  <2> QED
    BY <2>3, <2>4
<1> QED
  BY <1>2, <1>3, <1>4, <1>5 DEF Ancestors

\* The digests of an audit path: siblings, where there are some.
PathDigests(lev, pos, S) == [h \in S |-> lev[h - 1][SiblingOf(pos[h]) + 1]]
IsPath(path, lev, pos, top) ==
    LET S == PairedLevels(lev, pos, top) IN path = Pick(PathDigests(lev, pos, S), S)

LEMMA AuditPathIsPath ==
    ASSUME NEW leaves, IsLevel(leaves), NEW lev, NEW top, IsTree(lev, top, leaves),
           NEW index \in Nat, index < Len(leaves)
    PROVE  \E pos : /\ Positions(pos, index, top + 1)
                    /\ IsPath(AuditPath(leaves, index), lev, pos, top)
<1> DEFINE levels == Levels(leaves)
           pos == CHOOSE f : Positions(f, index, Len(levels))
           sibling(h) == IF pos[h] % 2 = 0 THEN pos[h] + 1 ELSE pos[h] - 1
           paired == {h \in 1..Len(levels) - 1 : sibling(h) < Len(levels[h])}
           S == PairedLevels(lev, pos, top)
<1>1. top \in Nat /\ Levels(leaves) = [h \in 1..top + 1 |-> lev[h - 1]]
  BY DEF IsTree, IsLevel
<1>2. Len(levels) = top + 1
  <2>1. top + 1 \in Nat /\ levels = [h \in 1..top + 1 |-> levels[h]]
    BY <1>1
  <2> HIDE DEF levels
  <2> QED
    BY <2>1, LenOfFunction
<1>3. Positions(pos, index, top + 1)
  BY <1>1, <1>2, PositionsExist
<1>4. AuditPath(leaves, index) = Pick([h \in paired |-> levels[h][sibling(h) + 1]], paired)
  BY DEF AuditPath, Positions
<1>5. Ancestors(lev, pos, leaves, top)
  BY <1>3, AncestorPlaces
<1> HIDE DEF pos
<1>6. \A h \in 1..top : levels[h] = lev[h - 1]
  BY <1>1
<1>7. ASSUME NEW h \in 1..top
      PROVE  sibling(h) < Len(levels[h]) <=> PairedAt(lev, pos, h - 1)
  <2>1. PICK g \in 0..top : g = h - 1 /\ g + 1 = h
    BY <1>1
  <2>2. Place(lev, leaves, g, pos[g + 1], LastOf(lev, g))
    BY <1>5 DEF Ancestors
  <2>3. pos[h] \in Nat /\ LastOf(lev, g) \in Nat /\ pos[h] <= LastOf(lev, g)
        /\ Len(lev[g]) = LastOf(lev, g) + 1
    BY <2>1, <2>2 DEF Place
  <2>4. \A p, n \in Nat : p <= n =>
            ((IF p % 2 = 0 THEN p + 1 ELSE p - 1) < n + 1 <=> p % 2 = 1 \/ p # n)
    OBVIOUS
  <2>5. sibling(h) < LastOf(lev, g) + 1 <=> pos[h] % 2 = 1 \/ pos[h] # LastOf(lev, g)
    BY <2>3, <2>4
  <2> QED
    BY <1>6, <2>1, <2>3, <2>5 DEF PairedAt
<1>8. paired = S
  <2>1. Len(levels) - 1 = top
    BY <1>1, <1>2
  <2> HIDE DEF sibling, levels
  <2>2. paired = {h \in 1..top : sibling(h) < Len(levels[h])}
    BY <2>1
  <2> HIDE DEF paired
  <2> QED
    BY <1>7, <2>2 DEF PairedLevels
<1>9. [h \in paired |-> levels[h][sibling(h) + 1]] = PathDigests(lev, pos, S)
  <2>1. \A h \in S : levels[h] = lev[h - 1] /\ sibling(h) = SiblingOf(pos[h])
    BY <1>6 DEF PairedLevels, SiblingOf
  <2> HIDE DEF sibling, levels, paired
  <2> QED
    BY <1>8, <2>1 DEF PathDigests
<1>10. IsPath(AuditPath(leaves, index), lev, pos, top)
  BY <1>4, <1>8, <1>9 DEF IsPath
<1> QED
  BY <1>3, <1>10

\* From a node without a sibling up to one with a sibling it is the same node.
LEMMA SkipToPaired ==
    ASSUME NEW leaves, IsLevel(leaves), NEW lev, NEW top, IsTree(lev, top, leaves),
           NEW pos, Ancestors(lev, pos, leaves, top),
           NEW h \in 0..top, NEW to \in h..top, to # top,
           \A g \in h..top : g < to => ~PairedAt(lev, pos, g)
    PROVE  /\ SkipPromoted[<<pos[h + 1], LastOf(lev, h)>>]
                = SkipPromoted[<<pos[to + 1], LastOf(lev, to)>>]
           /\ lev[to][pos[to + 1] + 1] = lev[h][pos[h + 1] + 1]
           /\ h # to => pos[to + 1] = LastOf(lev, to)
<1> DEFINE Same(g) == /\ SkipPromoted[<<pos[h + 1], LastOf(lev, h)>>]
                            = SkipPromoted[<<pos[g + 1], LastOf(lev, g)>>]
                      /\ lev[g][pos[g + 1] + 1] = lev[h][pos[h + 1] + 1]
                      /\ h # g => pos[g + 1] = LastOf(lev, g)
           B == {g \in h..to : ~Same(g)}
<1>0. top \in Nat /\ h \in Nat /\ to \in Nat /\ Stages(lev, leaves, Len(leaves))
  BY DEF IsTree, IsLevel
<1> SUFFICES ASSUME B # {} PROVE FALSE
  <2>1. to \in h..to
    BY <1>0
  <2>2. B = {} => Same(to)
    BY <2>1
  <2> QED
    BY <1>0, <2>2
<1>1. PICK g \in B : \A k \in B : g <= k
  <2>1. B \in SUBSET Nat
    BY <1>0
  <2> QED
    BY <2>1, LeastElement
<1>2. g \in h..to /\ ~Same(g)
  BY <1>1
<1>3. g # h
  BY <1>2
<1>4. PICK f \in 0..top : /\ f \in h..to /\ f \in h..top /\ f < to /\ f # top
                          /\ g = f + 1 /\ g + 1 = f + 2 /\ ~(g <= f)
  <2>1. /\ g - 1 \in 0..top /\ g - 1 \in h..to /\ g - 1 \in h..top /\ g - 1 < to /\ g - 1 # top
        /\ g = (g - 1) + 1 /\ g + 1 = (g - 1) + 2 /\ ~(g <= g - 1)
    BY <1>0, <1>2, <1>3
  <2> QED
    BY <2>1
<1>5. Same(f)
  <2> HIDE DEF Same
  <2> QED
    BY <1>1, <1>4
<1> DEFINE p == pos[f + 1]
           n == LastOf(lev, f)
<1>6. /\ Place(lev, leaves, f, p, n) /\ n # 0
      /\ pos[g + 1] = p \div 2 /\ LastOf(lev, g) = n \div 2
  BY <1>4 DEF Ancestors
<1> HIDE DEF p, n
<1>7. p \in Nat /\ n \in Nat
  BY <1>6 DEF Place
<1>8. p % 2 = 0 /\ p = n
  <2>1. p % 2 # 1 /\ p = n
    BY <1>4 DEF PairedAt, p, n
  <2> QED
    BY <1>7, <2>1
<1>9. SkipPromoted[<<p, n>>] = SkipPromoted[<<p \div 2, n \div 2>>]
  <2>1. <<p, n>> \in Pairs /\ Even(<<p, n>>) /\ Shift(<<p, n>>) = <<p \div 2, n \div 2>>
    BY <1>6, <1>7, <1>8 DEF Pairs, Even, Shift
  <2> QED
    BY <2>1, SkipPromotedEquation DEF SkipsAt
<1>10. lev[g][pos[g + 1] + 1] = lev[f][p + 1]
  <2>1. Ascends(lev, leaves, f, p, n)
    BY <1>0, <1>6, ParentPlace
  <2>2. lev[f + 1][(p \div 2) + 1] = lev[f][p + 1]
    BY <1>8, <2>1 DEF Ascends, Parent
  <2> QED
    BY <1>4, <1>6, <2>2
<1>11. Same(g)
  BY <1>5, <1>6, <1>8, <1>9, <1>10 DEF p, n
<1> QED
  BY <1>2, <1>11

\* The verifier carries the ancestor of the leaf in a stage.
Carries(x, lev, pos, h) ==
    /\ x.fn = pos[h + 1] /\ x.sn = LastOf(lev, h)
    /\ x.r = lev[h][pos[h + 1] + 1]
    /\ x.fits = TRUE

\* Given the next sibling it gets to carry the ancestor above that.
LEMMA ClimbWithSibling ==
    ASSUME NEW leaves, IsLevel(leaves), NEW lev, NEW top, IsTree(lev, top, leaves),
           NEW pos, Ancestors(lev, pos, leaves, top),
           NEW h \in 0..top, NEW to \in h..top, to # top,
           \A g \in h..top : g < to => ~PairedAt(lev, pos, g),
           PairedAt(lev, pos, to), NEW x, Carries(x, lev, pos, h)
    PROVE  Carries(Climb(x, lev[to][SiblingOf(pos[to + 1]) + 1]), lev, pos, to + 1)
<1> DEFINE d == lev[to][SiblingOf(pos[to + 1]) + 1]
           y == Climb(x, d)
           p == pos[to + 1]
           n == LastOf(lev, to)
<1>0. top \in Nat /\ h \in Nat /\ to \in Nat /\ to \in 0..top /\ Stages(lev, leaves, Len(leaves))
  BY DEF IsTree, IsLevel
<1>1. /\ SkipPromoted[<<x.fn, x.sn>>] = SkipPromoted[<<p, n>>]
      /\ lev[to][p + 1] = x.r
      /\ h # to => p = n
  BY SkipToPaired DEF Carries
<1>2. /\ Place(lev, leaves, to, p, n) /\ n # 0
      /\ pos[to + 2] = p \div 2 /\ LastOf(lev, to + 1) = n \div 2
  BY <1>0 DEF Ancestors
<1>3. p \in Nat /\ n \in Nat
  BY <1>2 DEF Place
<1>4. Ascends(lev, leaves, to, p, n)
  BY <1>0, <1>2, ParentPlace
<1>5. lev[to + 1][(p \div 2) + 1] = Parent(lev, to, p, n)
  BY <1>4 DEF Ascends
<1>6. x.sn # 0 /\ x.fits = TRUE
  <2>1. h # top
    BY <1>0
  <2>2. LastOf(lev, h) # 0
    BY <2>1 DEF Ancestors
  <2> QED
    BY <2>2 DEF Carries
<1>7. y.fits = TRUE
  <2>1. y.fits = (x.fits /\ x.sn # 0)
    BY DEF Climb
  <2> QED
    BY <1>6, <2>1
<1>8. PairedAt(lev, pos, to) <=> (p % 2 = 1 \/ p # n)
  BY DEF PairedAt
<1> HIDE DEF p, n, y
<1>9. CASE p % 2 = 1
  <2>1. SkipPromoted[<<p, n>>] = <<p, n>>
    <3>1. <<p, n>> \in Pairs /\ ~Even(<<p, n>>)
      BY <1>3, <1>9 DEF Pairs, Even
    <3> QED
      BY <3>1, SkipPromotedEquation DEF SkipsAt
  <2>2. x.fn % 2 = 1 \/ x.fn = x.sn
    <3>1. CASE h = to
      BY <1>9, <3>1 DEF Carries, p
    <3>2. CASE h # to
      <4>1. ~PairedAt(lev, pos, h)
        BY <1>0, <3>2
      <4> QED
        BY <4>1 DEF PairedAt, Carries
    <3> QED
      BY <3>1, <3>2
  <2>3. y.r = NodeHash(d, x.r) /\ y.fn = p \div 2 /\ y.sn = n \div 2
    BY <1>1, <2>1, <2>2 DEF Climb, Shift, y
  <2>4. d = lev[to][p]
    <3>1. p - 1 + 1 = p /\ ~(p % 2 = 0)
      BY <1>3, <1>9
    <3>2. SiblingOf(p) + 1 = p
      BY <3>1 DEF SiblingOf
    <3> QED
      BY <3>2 DEF p
  <2>5. lev[to + 1][(p \div 2) + 1] = NodeHash(lev[to][p], lev[to][p + 1])
    BY <1>5, <1>9 DEF Parent
  <2>6. y.r = lev[to + 1][(p \div 2) + 1]
    BY <1>1, <2>3, <2>4, <2>5
  <2> QED
    BY <1>0, <1>2, <1>7, <2>3, <2>6 DEF Carries, y
<1>10. CASE p % 2 = 0 /\ p # n
  <2>1. h = to
    BY <1>1, <1>10
  <2>2. x.fn = p /\ x.sn = n
    BY <2>1 DEF Carries, p, n
  <2>3. y.r = NodeHash(x.r, d) /\ y.fn = p \div 2 /\ y.sn = n \div 2
    BY <1>10, <2>2 DEF Climb, Shift, y
  <2>4. d = lev[to][p + 2]
    <3>1. p + 1 + 1 = p + 2
      BY <1>3
    <3>2. SiblingOf(p) + 1 = p + 2
      BY <1>10, <3>1 DEF SiblingOf
    <3> QED
      BY <3>2 DEF p
  <2>5. lev[to + 1][(p \div 2) + 1] = NodeHash(lev[to][p + 1], lev[to][p + 2])
    BY <1>5, <1>10 DEF Parent
  <2>6. y.r = lev[to + 1][(p \div 2) + 1]
    BY <1>1, <2>3, <2>4, <2>5
  <2> QED
    BY <1>0, <1>2, <1>7, <2>3, <2>6 DEF Carries, y
<1> QED
  BY <1>3, <1>8, <1>9, <1>10

\* Where the verifier is after k digests: above the k-th stage with a sibling.
Reached(S, k) == IF k = 0 THEN 0 ELSE Nth(S, k)

LEMMA ReachedFacts ==
    ASSUME NEW top \in Nat, NEW S \in SUBSET (1..top), NEW k \in 0..Cardinality(S)
    PROVE  /\ IsFiniteSet(S) /\ Cardinality(S) \in Nat /\ S \in SUBSET Nat
           /\ Reached(S, k) \in 0..top
           /\ k # Cardinality(S) =>
                 /\ Nth(S, k + 1) \in S /\ Reached(S, k + 1) = Nth(S, k + 1)
                 /\ Reached(S, k) < Nth(S, k + 1)
                 /\ \A j \in S : Reached(S, k) < j => Nth(S, k + 1) <= j
           /\ k = Cardinality(S) => \A j \in S : j <= Reached(S, k)
<1>1. IsFiniteSet(S) /\ Cardinality(S) \in Nat /\ S \in SUBSET Nat
  <2>1. IsFiniteSet(1..top)
    BY FS_Interval
  <2>2. IsFiniteSet(S)
    BY <2>1, FS_Subset
  <2>3. \A j \in 1..top : j \in Nat
    OBVIOUS
  <2> QED
    BY <2>2, <2>3, FS_CardinalityType
<1> DEFINE M == Cardinality(S)
<1>2. /\ \A n \in 1..M : Nth(S, n) \in S /\ Rank(S, Nth(S, n)) = n
      /\ \A j \in S : Rank(S, j) \in 1..M
      /\ \A i, j \in S : i < j => Rank(S, i) < Rank(S, j)
  BY <1>1, NthHasRank, RankGrows
<1> HIDE DEF M
<1>3. k \in Nat /\ k \in 0..M /\ M \in Nat
  BY <1>1 DEF M
<1>4. Reached(S, k) \in 0..top
  <2>1. CASE k = 0
    BY <2>1 DEF Reached
  <2>2. CASE k # 0
    <3>1. k \in 1..M
      BY <1>3, <2>2
    <3>2. Nth(S, k) \in 1..top
      BY <1>2, <3>1
    <3>3. Nth(S, k) \in 0..top
      BY <3>2
    <3> QED
      BY <2>2, <3>3 DEF Reached
  <2> QED
    BY <2>1, <2>2
\* Nothing of S has a rank between two successive ones.
<1>5. ASSUME NEW j \in S, Reached(S, k) < j PROVE k < Rank(S, j)
  <2>1. Rank(S, j) \in 1..M
    BY <1>2
  <2>2. CASE k = 0
    BY <2>1, <2>2
  <2>3. CASE k # 0
    <3>1. k \in 1..M
      BY <1>3, <2>3
    <3>2. Nth(S, k) \in S /\ Rank(S, Nth(S, k)) = k /\ Nth(S, k) < j
      BY <1>2, <1>5, <2>3, <3>1 DEF Reached
    <3> QED
      BY <1>2, <3>2
  <2> QED
    BY <2>2, <2>3
<1>6. ASSUME NEW j \in S, j <= Reached(S, k) PROVE Rank(S, j) <= k
  <2>1. k # 0
    <3> SUFFICES ASSUME k = 0 PROVE FALSE
      OBVIOUS
    <3>1. Reached(S, k) = 0
      BY DEF Reached
    <3> QED
      BY <1>6, <3>1
  <2>2. k \in 1..M
    BY <1>3, <2>1
  <2>3. Nth(S, k) \in S /\ Rank(S, Nth(S, k)) = k /\ j <= Nth(S, k)
    BY <1>2, <1>6, <2>1, <2>2 DEF Reached
  <2>4. CASE j = Nth(S, k)
    BY <1>3, <2>3, <2>4
  <2>5. CASE j # Nth(S, k)
    <3>0. j \in Nat /\ Nth(S, k) \in Nat
      BY <1>1, <2>3
    <3>1. j < Nth(S, k)
      BY <2>3, <2>5, <3>0
    <3>2. Rank(S, j) < k /\ Rank(S, j) \in 1..M
      BY <1>2, <2>3, <3>1
    <3> QED
      BY <1>3, <3>2
  <2> QED
    BY <2>4, <2>5
<1>7. ASSUME k # M
      PROVE  /\ Nth(S, k + 1) \in S /\ Reached(S, k + 1) = Nth(S, k + 1)
             /\ Reached(S, k) < Nth(S, k + 1)
             /\ \A j \in S : Reached(S, k) < j => Nth(S, k + 1) <= j
  <2>1. k + 1 \in 1..M /\ k + 1 # 0 /\ ~(k + 1 <= k)
    BY <1>3, <1>7
  <2> DEFINE next == Nth(S, k + 1)
  <2>2. next \in S /\ Rank(S, next) = k + 1
    BY <1>2, <2>1
  <2>3. Reached(S, k + 1) = next
    BY <2>1 DEF Reached
  <2> HIDE DEF next
  <2>4. next \in Nat /\ Reached(S, k) \in Nat
    BY <1>1, <1>4, <2>2
  <2>5. ~(next <= Reached(S, k))
    BY <1>6, <2>1, <2>2
  <2>6. ASSUME NEW j \in S, Reached(S, k) < j PROVE next <= j
    <3> SUFFICES ASSUME ~(next <= j) PROVE FALSE
      OBVIOUS
    <3>1. j < next
      BY <1>1, <2>4
    <3>2. Rank(S, j) < k + 1 /\ k < Rank(S, j) /\ Rank(S, j) \in 1..M
      BY <1>2, <1>5, <2>2, <2>6, <3>1
    <3> QED
      BY <1>3, <3>2
  <2> QED
    BY <2>2, <2>3, <2>4, <2>5, <2>6 DEF next
<1>8. ASSUME k = M, NEW j \in S PROVE j <= Reached(S, k)
  <2> SUFFICES ASSUME ~(j <= Reached(S, k)) PROVE FALSE
    OBVIOUS
  <2>1. Reached(S, k) < j
    BY <1>1, <1>4
  <2>2. k < Rank(S, j) /\ Rank(S, j) \in 1..M
    BY <1>2, <1>5, <2>1
  <2> QED
    BY <1>3, <1>8, <2>2
<1> QED
  BY <1>1, <1>4, <1>7, <1>8 DEF M

\* The path build_tree gives for a leaf is one the verifier accepts.
LEMMA InclusionIsComplete ==
    ASSUME NEW leaves, IsLevel(leaves), NEW bytes, NEW index \in Nat, index < Len(leaves),
           leaves[index + 1] = LeafHash(bytes)
    PROVE  VerifyInclusion(bytes, index, AuditPath(leaves, index), Len(leaves), Root(leaves))
<1> DEFINE N == Len(leaves)
           path == AuditPath(leaves, index)
           hash == LeafHash(bytes)
<1>1. PICK lev, top : IsTree(lev, top, leaves)
  BY TreeExists
<1>2. PICK pos : Positions(pos, index, top + 1) /\ IsPath(path, lev, pos, top)
  BY <1>1, AuditPathIsPath
<1>3. Ancestors(lev, pos, leaves, top)
  BY <1>1, <1>2, AncestorPlaces
<1> DEFINE S == PairedLevels(lev, pos, top)
           M == Cardinality(S)
<1>4. /\ top \in Nat /\ N \in Nat \ {0} /\ Stages(lev, leaves, Len(leaves))
      /\ top \in 0..Len(leaves)
      /\ Len(lev[top]) = 1 /\ Root(leaves) = lev[top][1]
  BY <1>1 DEF IsTree, IsLevel
<1>5. S \in SUBSET (1..top) /\ \A h \in 1..top : h \in S <=> PairedAt(lev, pos, h - 1)
  BY DEF PairedLevels
<1>6. M \in Nat /\ IsFiniteSet(S)
  <2>1. IsFiniteSet(1..top)
    BY <1>4, FS_Interval
  <2> QED
    BY <1>5, <2>1, FS_Subset, FS_CardinalityType
<1>7. /\ Len(path) = M
      /\ \A k \in 1..M : path[k] = PathDigests(lev, pos, S)[Nth(S, k)]
  <2>1. path = Pick(PathDigests(lev, pos, S), S)
    BY <1>2 DEF IsPath
  <2> HIDE DEF path, S
  <2>2. path = [k \in 1..M |-> PathDigests(lev, pos, S)[Nth(S, k)]]
    BY <2>1 DEF Pick
  <2>3. path = [k \in 1..M |-> path[k]]
    BY <2>2
  <2> HIDE DEF M
  <2> QED
    BY <1>6, <2>2, <2>3, LenOfFunction
<1> HIDE DEF S, M, path
<1>8. PICK at : /\ Climbs(at, Begin(hash, index, N - 1), path, Len(path))
                /\ Replay(hash, index, path, N - 1) = at[Len(path)]
  BY <1>6, <1>7, ReplayIsClimbs
<1> DEFINE Good(k) == Carries(at[k], lev, pos, Reached(S, k))
<1>9. \A k \in 0..M : Good(k)
  <2> DEFINE B == {k \in 0..M : ~Good(k)}
  <2> SUFFICES ASSUME B # {} PROVE FALSE
    OBVIOUS
  <2>1. PICK k \in B : \A j \in B : k <= j
    <3>1. B \in SUBSET Nat
      BY <1>6
    <3> QED
      BY <3>1, LeastElement
  <2>2. k \in 0..M /\ ~Good(k)
    BY <2>1
  <2>3. CASE k = 0
    <3>1. at[0] = Begin(hash, index, N - 1) /\ Reached(S, 0) = 0
      BY <1>6, <1>7, <1>8 DEF Climbs, Reached
    <3>2. lev[0] = leaves /\ pos[1] = index
      BY <1>2, <1>4 DEF Stages, Positions
    <3>3. LastOf(lev, 0) = N - 1
      BY <3>2 DEF LastOf
    <3>4. Carries(Begin(hash, index, N - 1), lev, pos, 0)
      BY <3>2, <3>3 DEF Carries, Begin
    <3>5. Good(0)
      BY <3>1, <3>4
    <3> QED
      BY <2>2, <2>3, <3>5
  <2>4. CASE k # 0
    <3>1. PICK j \in 0..M : j # M /\ k = j + 1 /\ ~(k <= j) /\ j = k - 1
      <4>1. k - 1 \in 0..M /\ k - 1 # M /\ k = (k - 1) + 1 /\ ~(k <= k - 1)
        BY <1>6, <2>2, <2>4
      <4> QED
        BY <4>1
    <3>2. Good(j)
      <4> HIDE DEF Good
      <4> QED
        BY <2>1, <3>1
    <3> DEFINE h == Reached(S, j)
               next == Nth(S, k)
    <3>3. /\ h \in 0..top /\ next \in S /\ Reached(S, k) = next /\ h < next
          /\ \A i \in S : h < i => next <= i
      BY <1>4, <1>5, <3>1, ReachedFacts DEF M
    <3> HIDE DEF h, next
    <3>4. PICK to \in h..top : to # top /\ next = to + 1 /\ to = next - 1 /\ to \in 0..top
      <4>1. next \in 1..top
        BY <1>5, <3>3
      <4>2. next - 1 \in h..top /\ next - 1 # top /\ next = (next - 1) + 1 /\ next - 1 \in 0..top
        BY <1>4, <3>3, <4>1
      <4> QED
        BY <4>2
    <3>5. PairedAt(lev, pos, to)
      BY <1>5, <3>3, <3>4
    <3>6. ASSUME NEW g \in h..top, g < to PROVE ~PairedAt(lev, pos, g)
      <4>1. PICK i \in 1..top : i = g + 1 /\ g = i - 1 /\ h < i /\ ~(next <= i)
        <5>1. g + 1 \in 1..top /\ g = (g + 1) - 1 /\ h < g + 1 /\ ~(next <= g + 1)
          BY <1>4, <3>3, <3>4, <3>6
        <5> QED
          BY <5>1
      <4>2. i \notin S
        BY <3>3, <4>1
      <4> QED
        BY <1>5, <4>1, <4>2
    <3>7. at[k] = Climb(at[j], path[k])
      BY <1>7, <1>8, <2>2, <2>4, <3>1 DEF Climbs
    <3>8. path[k] = lev[to][SiblingOf(pos[to + 1]) + 1]
      <4>1. k \in 1..M
        BY <2>2, <2>4
      <4>2. path[k] = PathDigests(lev, pos, S)[next]
        BY <1>7, <4>1 DEF next
      <4>3. PathDigests(lev, pos, S)[next] = lev[next - 1][SiblingOf(pos[next]) + 1]
        BY <3>3 DEF PathDigests
      <4> QED
        BY <3>4, <4>2, <4>3
    <3>9. Carries(at[j], lev, pos, h)
      BY <3>2 DEF h
    <3>10. Carries(Climb(at[j], lev[to][SiblingOf(pos[to + 1]) + 1]), lev, pos, to + 1)
      BY <1>1, <1>3, <3>3, <3>4, <3>5, <3>6, <3>9, ClimbWithSibling
    <3>11. Good(k)
      BY <3>3, <3>4, <3>7, <3>8, <3>10
    <3> QED
      BY <2>2, <3>11
  <2> QED
    BY <2>3, <2>4
\* The stage below the root has two nodes, so the ancestor in it has a sibling.
<1>10. Reached(S, M) = top
  <2>0. M \in 0..Cardinality(S) /\ M = Cardinality(S)
    BY <1>6 DEF M
  <2>1. Reached(S, M) \in 0..top /\ \A j \in S : j <= Reached(S, M)
    BY <1>4, <1>5, <2>0, ReachedFacts
  <2>2. CASE top = 0
    BY <2>1, <2>2
  <2>3. CASE top # 0
    <3>1. PICK g \in 0..top : g # top /\ g + 1 = top /\ g = top - 1
      <4>1. top - 1 \in 0..top /\ top - 1 # top /\ (top - 1) + 1 = top
        BY <1>4, <2>3
      <4> QED
        BY <4>1
    <3> DEFINE p == pos[g + 1]
               n == LastOf(lev, g)
    <3>2. Place(lev, leaves, g, p, n) /\ n # 0 /\ LastOf(lev, g + 1) = n \div 2
      BY <1>3, <3>1 DEF Ancestors
    <3>3. LastOf(lev, g + 1) = 0
      BY <1>4, <3>1 DEF LastOf
    <3> HIDE DEF p, n
    <3>4. p \in Nat /\ n \in Nat /\ p <= n
      BY <3>2 DEF Place
    <3>5. \A a, b \in Nat : a <= b /\ b # 0 /\ b \div 2 = 0 => a % 2 = 1 \/ a # b
      OBVIOUS
    <3>6. p % 2 = 1 \/ p # n
      BY <3>2, <3>3, <3>4, <3>5
    <3>7. PairedAt(lev, pos, g)
      BY <3>6 DEF PairedAt, p, n
    <3>8. top \in S
      <4>1. top \in 1..top
        BY <1>4, <2>3
      <4> QED
        BY <1>5, <3>1, <3>7, <4>1
    <3> QED
      BY <1>4, <2>1, <3>8
  <2> QED
    BY <2>2, <2>3
<1>11. Carries(at[M], lev, pos, top)
  BY <1>6, <1>9, <1>10
<1>12. LastOf(lev, top) = 0 /\ pos[top + 1] = 0
  <2>1. LastOf(lev, top) = 0
    BY <1>4 DEF LastOf
  <2>2. Place(lev, leaves, top, pos[top + 1], LastOf(lev, top))
    BY <1>3, <1>4 DEF Ancestors
  <2> QED
    BY <2>1, <2>2 DEF Place
<1>13. at[M].fits /\ at[M].sn = 0 /\ at[M].r = Root(leaves)
  BY <1>4, <1>11, <1>12 DEF Carries
<1>14. Replay(LeafHash(bytes), index, path, N - 1) = at[M]
  BY <1>7, <1>8
<1> QED
  BY <1>13, <1>14 DEF VerifyInclusion, path

-----------------------------------------------------------------------------
(* The recursive tree of RFC 6962.                                           *)

\* There is one power of two that splits, and it leaves leaves on both sides.
LEMMA SplitIs ==
    ASSUME NEW n \in Nat, NEW h \in Nat, Power[h] < n, n <= 2 * Power[h]
    PROVE  Split(n) = Power[h]
<1> DEFINE S == {Power[g] : g \in 0..n}
<1>1. h \in 0..n /\ Power[h] \in Nat
  BY PowerGrows
<1>2. Power[h] \in S
  BY <1>1
<1>3. ASSUME NEW k \in S, k < n /\ n <= 2 * k PROVE k = Power[h]
  <2>1. PICK g \in 0..n : k = Power[g]
    OBVIOUS
  <2>2. g \in Nat /\ Power[g] \in Nat
    BY PowerGrows
  <2>3. ~(g < h) /\ ~(h < g)
    <3>1. g < h => 2 * Power[g] <= Power[h]
      BY <2>2, PowerGrows
    <3>2. h < g => 2 * Power[h] <= Power[g]
      BY <2>2, PowerGrows
    <3> QED
      BY <1>1, <1>3, <2>1, <2>2, <3>1, <3>2
  <2> QED
    BY <2>1, <2>2, <2>3
<1> HIDE DEF S
<1>4. (CHOOSE k \in S : k < n /\ n <= 2 * k) = Power[h]
  BY <1>2, <1>3
<1> QED
  BY <1>4 DEF Split, S

LEMMA SplitInside ==
    ASSUME NEW n \in Nat, n > 1
    PROVE  Split(n) \in Nat \ {0} /\ Split(n) < n /\ n - Split(n) \in Nat \ {0} /\ n - Split(n) < n
<1> DEFINE S == {h \in Nat : n <= 2 * Power[h]}
<1>1. n \in S
  BY PowerGrows
<1>2. PICK h \in S : \A g \in S : h <= g
  <2>1. S \in SUBSET Nat /\ S # {}
    BY <1>1
  <2> QED
    BY <2>1, LeastElement
<1>3. h \in Nat /\ n <= 2 * Power[h] /\ Power[h] \in Nat /\ Power[h] >= h + 1
  BY <1>2, PowerGrows
<1>4. Power[h] < n
  <2>1. CASE h = 0
    BY <2>1, PowerEquation
  <2>2. CASE h # 0
    <3>1. PICK g \in Nat : h = g + 1 /\ ~(h <= g)
      BY <1>3, <2>2
    <3>2. g \notin S
      <4> HIDE DEF S
      <4> QED
        BY <1>2, <3>1
    <3>3. Power[h] = 2 * Power[g] /\ ~(n <= 2 * Power[g]) /\ Power[g] \in Nat
      BY <3>1, <3>2, PowerEquation, PowerGrows
    <3> QED
      BY <3>3
  <2> QED
    BY <2>1, <2>2
<1>5. Split(n) = Power[h]
  BY <1>3, <1>4, SplitIs
<1> QED
  BY <1>3, <1>4, <1>5

Spans == Nat \X (Nat \ {0})
LeftOf(span) == <<span[1], Split(span[2])>>
RightOf(span) == <<span[1] + Split(span[2]), span[2] - Split(span[2])>>

\* A subtree of one leaf, and one made of two.
OfLeaf(leaves, span) == [hash |-> leaves[span[1] + 1], path |-> <<>>]
OfTwo(left, right, index, span) ==
    [hash |-> NodeHash(left.hash, right.hash),
     path |-> IF index < span[1] + Split(span[2]) THEN Append(left.path, right.hash)
              ELSE Append(right.path, left.hash)]
BuiltAt(t, leaves, index, span) ==
    t[span] = IF span[2] = 1 THEN OfLeaf(leaves, span)
              ELSE OfTwo(t[LeftOf(span)], t[RightOf(span)], index, span)

LEMMA PartsShrink ==
    ASSUME NEW span \in Spans
    PROVE  /\ span[1] \in Nat /\ span[2] \in Nat \ {0}
           /\ span[2] # 1 => /\ LeftOf(span) \in Spans /\ LeftOf(span)[2] < span[2]
                             /\ RightOf(span) \in Spans /\ RightOf(span)[2] < span[2]
<1>1. span[1] \in Nat /\ span[2] \in Nat \ {0}
  BY DEF Spans
<1> SUFFICES ASSUME span[2] # 1
             PROVE  /\ LeftOf(span) \in Spans /\ LeftOf(span)[2] < span[2]
                    /\ RightOf(span) \in Spans /\ RightOf(span)[2] < span[2]
  BY <1>1
<1> DEFINE n == span[2]
           k == Split(n)
<1>2. k \in Nat \ {0} /\ k < n /\ n - k \in Nat \ {0} /\ n - k < n
  <2>1. n \in Nat /\ n > 1
    BY <1>1
  <2> HIDE DEF n
  <2> QED
    BY <2>1, SplitInside
<1>3. LeftOf(span) = <<span[1], k>> /\ RightOf(span) = <<span[1] + k, n - k>>
  BY DEF LeftOf, RightOf
<1> HIDE DEF n, k
<1>4. span[1] + k \in Nat
  BY <1>1, <1>2
<1> QED
  BY <1>1, <1>2, <1>3, <1>4 DEF Spans, n

\* A function that is right below a number of leaves.
TreeBelow(t, leaves, index, n) ==
    \A span \in Spans : span[2] < n => BuiltAt(t, leaves, index, span)

LEMMA TreeBelowExists ==
    ASSUME NEW leaves, NEW index, NEW bound \in Nat
    PROVE  \E t : TreeBelow(t, leaves, index, bound)
<1> DEFINE P(n) == \E t : TreeBelow(t, leaves, index, n)
           B == {n \in Nat : ~P(n)}
<1> SUFFICES ASSUME B # {} PROVE FALSE
  OBVIOUS
<1>1. PICK n \in B : \A k \in B : n <= k
  <2>1. B \in SUBSET Nat
    OBVIOUS
  <2> QED
    BY <2>1, LeastElement
<1>2. n \in Nat /\ ~P(n)
  BY <1>1
<1>3. CASE n = 0
  <2>1. \A span \in Spans : ~(span[2] < 0)
    BY PartsShrink
  <2>2. TreeBelow(<<>>, leaves, index, 0)
    BY <2>1 DEF TreeBelow
  <2> QED
    BY <1>2, <1>3, <2>2
<1>4. CASE n # 0
  <2>1. n - 1 \in Nat /\ n - 1 \notin B
    <3>1. n - 1 \in Nat /\ ~(n <= n - 1)
      BY <1>2, <1>4
    <3> HIDE DEF B
    <3> QED
      BY <1>1, <3>1
  <2>2. PICK low : TreeBelow(low, leaves, index, n - 1)
    BY <2>1
  <2> DEFINE t == [span \in Spans |->
                      IF span[2] # n - 1 THEN low[span]
                      ELSE IF span[2] = 1 THEN OfLeaf(leaves, span)
                      ELSE OfTwo(low[LeftOf(span)], low[RightOf(span)], index, span)]
  <2>3. ASSUME NEW span \in Spans, span[2] < n PROVE BuiltAt(t, leaves, index, span)
    <3>1. span[2] \in Nat
      BY PartsShrink
    <3>2. ASSUME span[2] # 1
          PROVE  t[LeftOf(span)] = low[LeftOf(span)] /\ t[RightOf(span)] = low[RightOf(span)]
      <4> DEFINE l == LeftOf(span)
                 r == RightOf(span)
      <4>1. l \in Spans /\ l[2] < span[2] /\ r \in Spans /\ r[2] < span[2]
        BY <3>2, PartsShrink
      <4> HIDE DEF l, r
      <4>2. l[2] \in Nat /\ r[2] \in Nat
        BY <4>1, PartsShrink
      <4>3. l[2] # n - 1 /\ r[2] # n - 1
        BY <1>2, <2>3, <3>1, <4>1, <4>2
      <4>4. t[l] = low[l] /\ t[r] = low[r]
        BY <4>1, <4>3
      <4> QED
        BY <4>4 DEF l, r
    <3>3. CASE span[2] = n - 1
      <4>1. t[span] = IF span[2] = 1 THEN OfLeaf(leaves, span)
                      ELSE OfTwo(low[LeftOf(span)], low[RightOf(span)], index, span)
        BY <3>3
      <4> HIDE DEF t
      <4> QED
        BY <3>2, <4>1 DEF BuiltAt
    <3>4. CASE span[2] # n - 1
      <4>1. t[span] = low[span]
        BY <3>4
      <4>2. span[2] < n - 1
        BY <1>2, <2>3, <3>1, <3>4
      <4>3. BuiltAt(low, leaves, index, span)
        BY <2>2, <4>2 DEF TreeBelow
      <4> HIDE DEF t
      <4> QED
        BY <3>2, <4>1, <4>3 DEF BuiltAt
    <3> QED
      BY <3>3, <3>4
  <2> HIDE DEF t
  <2>4. TreeBelow(t, leaves, index, n)
    BY <2>3 DEF TreeBelow
  <2> QED
    BY <1>2, <2>4
<1> QED
  BY <1>3, <1>4

LEMMA TreeBelowAgree ==
    ASSUME NEW leaves, NEW index,
           NEW f, NEW m \in Nat, TreeBelow(f, leaves, index, m),
           NEW g, NEW n \in Nat, TreeBelow(g, leaves, index, n),
           NEW span \in Spans, span[2] < m, span[2] < n
    PROVE  f[span] = g[span]
<1> DEFINE Differ(k) == \E p \in Spans : p[2] = k /\ k < m /\ k < n /\ f[p] # g[p]
           B == {k \in Nat : Differ(k)}
<1> SUFFICES ASSUME B # {} PROVE FALSE
  <2>1. span[2] \in Nat
    BY PartsShrink
  <2> QED
    BY <2>1
<1>1. PICK k \in B : \A j \in B : k <= j
  <2>1. B \in SUBSET Nat
    OBVIOUS
  <2> QED
    BY <2>1, LeastElement
<1>2. PICK p \in Spans : p[2] = k /\ k < m /\ k < n /\ f[p] # g[p]
  BY <1>1
<1>3. BuiltAt(f, leaves, index, p) /\ BuiltAt(g, leaves, index, p) /\ k \in Nat
  BY <1>1, <1>2 DEF TreeBelow
<1>4. /\ p[2] # 1
      /\ f[LeftOf(p)] # g[LeftOf(p)] \/ f[RightOf(p)] # g[RightOf(p)]
  BY <1>2, <1>3 DEF BuiltAt
<1>5. PICK q \in Spans : q[2] < k /\ f[q] # g[q]
  BY <1>2, <1>4, PartsShrink
<1>6. q[2] \in Nat
  BY PartsShrink
<1>7. q[2] < m /\ q[2] < n /\ ~(k <= q[2])
  BY <1>2, <1>3, <1>5, <1>6
<1>8. q[2] \in B
  BY <1>5, <1>6, <1>7
<1> HIDE DEF B
<1> QED
  BY <1>1, <1>7, <1>8

\* The recursive tree exists.
LEMMA TreeEquation ==
    ASSUME NEW leaves, NEW index
    PROVE  \E t : /\ Tree(leaves, index) = t[<<0, Len(leaves)>>]
                  /\ \A span \in Spans : BuiltAt(t, leaves, index, span)
<1> DEFINE G(n) == CHOOSE t : TreeBelow(t, leaves, index, n)
           F == [span \in Spans |-> G(span[2] + 1)[span]]
           IsIt(t) == t = [span \in Spans |->
                              IF span[2] = 1 THEN OfLeaf(leaves, span)
                              ELSE OfTwo(t[LeftOf(span)], t[RightOf(span)], index, span)]
           T == CHOOSE t : IsIt(t)
<1>1. \A n \in Nat : TreeBelow(G(n), leaves, index, n)
  BY TreeBelowExists
<1> HIDE DEF G
<1>2. ASSUME NEW span \in Spans PROVE BuiltAt(F, leaves, index, span)
  <2> DEFINE n == span[2] + 1
  <2>1. span[2] \in Nat /\ n \in Nat /\ span[2] < n
    BY PartsShrink
  <2>2. ASSUME NEW q \in Spans, q[2] <= span[2] PROVE F[q] = G(n)[q]
    <3>1. q[2] \in Nat
      BY PartsShrink
    <3>2. q[2] + 1 \in Nat /\ q[2] < q[2] + 1 /\ q[2] < n
      BY <2>1, <2>2, <3>1
    <3>3. TreeBelow(G(q[2] + 1), leaves, index, q[2] + 1) /\ TreeBelow(G(n), leaves, index, n)
      BY <1>1, <2>1, <3>2
    <3> HIDE DEF n
    <3>4. G(q[2] + 1)[q] = G(n)[q]
      BY <2>1, <3>2, <3>3, TreeBelowAgree
    <3> QED
      BY <3>4
  <2>3. BuiltAt(G(n), leaves, index, span)
    BY <1>1, <2>1 DEF TreeBelow
  <2>4. F[span] = G(n)[span]
    BY <2>1, <2>2
  <2>5. span[2] # 1 => F[LeftOf(span)] = G(n)[LeftOf(span)] /\ F[RightOf(span)] = G(n)[RightOf(span)]
    <3> SUFFICES ASSUME span[2] # 1
                 PROVE  F[LeftOf(span)] = G(n)[LeftOf(span)] /\ F[RightOf(span)] = G(n)[RightOf(span)]
      OBVIOUS
    <3> DEFINE l == LeftOf(span)
               r == RightOf(span)
    <3>1. l \in Spans /\ l[2] < span[2] /\ r \in Spans /\ r[2] < span[2]
      BY PartsShrink
    <3> HIDE DEF l, r, n, F
    <3>2. l[2] \in Nat /\ r[2] \in Nat
      BY <3>1, PartsShrink
    <3>3. l[2] <= span[2] /\ r[2] <= span[2]
      BY <2>1, <3>1, <3>2
    <3>4. F[l] = G(n)[l] /\ F[r] = G(n)[r]
      BY <2>2, <3>1, <3>3
    <3> QED
      BY <3>4 DEF l, r
  <2> HIDE DEF F, n
  <2> QED
    BY <2>3, <2>4, <2>5 DEF BuiltAt
<1>3. IsIt(F)
  <2>1. F = [span \in Spans |-> F[span]]
    OBVIOUS
  <2> HIDE DEF F
  <2> QED
    BY <1>2, <2>1 DEF BuiltAt
<1> HIDE DEF F
<1>4. Tree(leaves, index) = T[<<0, Len(leaves)>>]
  BY DEF Tree, Spans, OfLeaf, OfTwo, LeftOf, RightOf
<1>5. IsIt(T)
  BY <1>3
<1> HIDE DEF T
<1>6. \A span \in Spans : BuiltAt(T, leaves, index, span)
  BY <1>5 DEF BuiltAt
<1> QED
  BY <1>4, <1>6

LEMMA PickOneMore ==
    ASSUME NEW I \in SUBSET Nat, IsFiniteSet(I), NEW m \in Nat, \A i \in I : i < m, NEW f
    PROVE  Pick(f, I \cup {m}) = Append(Pick(f, I), f[m])
<1> DEFINE J == I \cup {m}
           n == Cardinality(I)
           old == Pick(f, I)
           new == Pick(f, J)
<1>1. /\ IsFiniteSet(J) /\ J \in SUBSET Nat /\ n \in Nat /\ m \notin I
      /\ Cardinality(J) = n + 1
  <2>1. m \notin I
    OBVIOUS
  <2> QED
    BY <2>1, FS_AddElement, FS_CardinalityType
<1>2. ASSUME NEW i \in I PROVE Rank(J, i) = Rank(I, i)
  <2>1. {j \in J : j <= i} = {j \in I : j <= i}
    <3>1. i \in Nat /\ i < m /\ ~(m <= i)
      OBVIOUS
    <3> QED
      BY <3>1
  <2> QED
    BY <2>1 DEF Rank
<1>3. Rank(J, m) = n + 1
  <2>1. \A j \in J : j <= m
    OBVIOUS
  <2>2. {j \in J : j <= m} = J
    BY <2>1
  <2> QED
    BY <1>1, <2>2 DEF Rank
<1>4. /\ \A k \in 1..n : Nth(I, k) \in I /\ Rank(I, Nth(I, k)) = k
      /\ \A i \in J : Nth(J, Rank(J, i)) = i
  <2> HIDE DEF J
  <2> QED
    BY <1>1, NthHasRank
<1>5. \A k \in 1..n : Nth(J, k) = Nth(I, k)
  BY <1>2, <1>4
<1>6. Nth(J, n + 1) = m
  BY <1>3, <1>4
<1>7. new = [k \in 1..n + 1 |-> f[Nth(J, k)]] /\ old = [k \in 1..n |-> f[Nth(I, k)]]
  BY <1>1 DEF Pick
<1>8. new = [k \in 1..n + 1 |-> IF k \in 1..n THEN old[k] ELSE f[m]]
  <2>1. \A k \in 1..n + 1 : k \in 1..n \/ (k = n + 1 /\ k \notin 1..n)
    BY <1>1
  <2> HIDE DEF J, new, old, n
  <2> QED
    BY <1>5, <1>6, <1>7, <2>1
<1> DEFINE V == {old[k] : k \in 1..n}
<1>9. old \in Seq(V) /\ Len(old) = n
  <2>1. old \in [1..n -> V]
    BY <1>7
  <2> HIDE DEF V, old, n
  <2> QED
    BY <1>1, <2>1
<1>10. Append(old, f[m]) = [k \in 1..n + 1 |-> IF k \in 1..n THEN old[k] ELSE f[m]]
  <2> DEFINE W == V \cup {f[m]}
             e == f[m]
  <2>1. old \in Seq(W) /\ e \in W
    BY <1>9, SeqMonotonic
  <2> HIDE DEF W, V, old, n, e
  <2>2. /\ Append(old, e) \in Seq(W) /\ Len(Append(old, e)) = n + 1
        /\ \A k \in 1..n : Append(old, e)[k] = old[k]
        /\ Append(old, e)[n + 1] = e
    BY <1>9, <2>1, AppendProperties
  <2>3. Append(old, e) = [k \in 1..n + 1 |-> Append(old, e)[k]]
    BY <2>2, LenProperties
  <2>4. \A k \in 1..n + 1 : Append(old, e)[k] = IF k \in 1..n THEN old[k] ELSE e
    <3>1. \A k \in 1..n + 1 : k \in 1..n \/ (k = n + 1 /\ k \notin 1..n)
      BY <1>1
    <3> QED
      BY <2>2, <3>1
  <2> QED
    BY <2>3, <2>4 DEF e
<1> HIDE DEF old, new, n
<1> QED
  BY <1>8, <1>10 DEF old, new

-----------------------------------------------------------------------------
(* Level by level gives the recursive tree.                                  *)

\* The leaves under node j of stage h, of N leaves.
SpanOf(h, j, N) ==
    <<j * Power[h], IF Power[h] <= N - j * Power[h] THEN Power[h] ELSE N - j * Power[h]>>

\* A stage of n nodes over N leaves, each over p but the last.
Covers(n, p, N) == (n - 1) * p < N /\ N <= n * p
Within(j, p, index) == j * p <= index /\ index < (j + 1) * p

LEMMA CoversUp ==
    ASSUME NEW n \in Nat \ {0}, NEW p \in Nat \ {0}, NEW N \in Nat, Covers(n, p, N)
    PROVE  Covers((n + 1) \div 2, 2 * p, N)
<1> DEFINE m == (n + 1) \div 2
<1>1. m \in Nat /\ (n = 2 * m \/ n = 2 * m - 1)
  OBVIOUS
<1> HIDE DEF m
<1>2. CASE n = 2 * m
  <2>1. \A a, b \in Nat : a \in Nat /\ b \in Nat => (2 * a - 1) * b = 2 * (a * b) - b
                           /\ (a - 1) * (2 * b) = 2 * (a * b) - 2 * b /\ a * (2 * b) = 2 * (a * b)
                           /\ (2 * a) * b = 2 * (a * b) /\ a * b \in Nat
    OBVIOUS
  <2> QED
    BY <1>1, <1>2, <2>1 DEF Covers
<1>3. CASE n = 2 * m - 1
  <2>1. \A a, b \in Nat : (2 * a - 1 - 1) * b = 2 * (a * b) - 2 * b
                           /\ (a - 1) * (2 * b) = 2 * (a * b) - 2 * b /\ a * (2 * b) = 2 * (a * b)
                           /\ (2 * a - 1) * b = 2 * (a * b) - b /\ a * b \in Nat
    OBVIOUS
  <2> QED
    BY <1>1, <1>3, <2>1 DEF Covers
<1>4. Covers(m, 2 * p, N)
  BY <1>1, <1>2, <1>3
<1> QED
  BY <1>4 DEF m

LEMMA WithinUp ==
    ASSUME NEW j \in Nat, NEW p \in Nat, NEW index \in Nat, Within(j, p, index)
    PROVE  Within(j \div 2, 2 * p, index)
<1> DEFINE m == j \div 2
<1>1. m \in Nat /\ (j = 2 * m \/ j = 2 * m + 1)
  OBVIOUS
<1> HIDE DEF m
<1>2. \A a, b \in Nat : /\ (2 * a) * b = 2 * (a * b) /\ a * (2 * b) = 2 * (a * b)
                        /\ (2 * a + 1) * b = 2 * (a * b) + b /\ (a + 1) * (2 * b) = 2 * (a * b) + 2 * b
                        /\ (2 * a + 1 + 1) * b = 2 * (a * b) + 2 * b /\ a * b \in Nat
  OBVIOUS
<1>3. Within(m, 2 * p, index)
  BY <1>1, <1>2 DEF Within
<1> QED
  BY <1>3 DEF m

LEMMA TimesMonotone ==
    ASSUME NEW x \in Nat, NEW y \in Nat, x <= y, NEW p \in Nat
    PROVE  x * p \in Nat /\ y * p \in Nat /\ x * p <= y * p
<1>1. \A a, b \in Nat : a * b \in Nat
  OBVIOUS
<1>2. PICK d \in Nat : y = x + d
  <2>1. y - x \in Nat /\ y = x + (y - x)
    OBVIOUS
  <2> QED
    BY <2>1
<1>3. \A a, b, c \in Nat : (a + b) * c = a * c + b * c
  OBVIOUS
<1>4. y * p = x * p + d * p
  BY <1>2, <1>3
<1>5. x * p \in Nat /\ d * p \in Nat
  BY <1>1
<1> DEFINE u == x * p
           v == d * p
<1> HIDE DEF u, v
<1>6. u \in Nat /\ v \in Nat => u + v \in Nat /\ u <= u + v
  OBVIOUS
<1> QED
  BY <1>4, <1>5, <1>6 DEF u, v

\* A node of a stage has leaves under it, and only the last can have fewer.
LEMMA SpanFacts ==
    ASSUME NEW n \in Nat \ {0}, NEW h \in Nat, NEW N \in Nat, Covers(n, Power[h], N),
           NEW j \in 0..n - 1
    PROVE  /\ j * Power[h] \in Nat /\ j * Power[h] < N
           /\ SpanOf(h, j, N) \in Spans
           /\ j # n - 1 => SpanOf(h, j, N) = <<j * Power[h], Power[h]>>
           /\ j = n - 1 => SpanOf(h, j, N) = <<j * Power[h], N - j * Power[h]>>
<1> DEFINE p == Power[h]
           a == j * p
<1>1. p \in Nat \ {0} /\ Covers(n, p, N)
  <2>1. Power[h] \in Nat /\ Power[h] >= h + 1
    BY PowerGrows
  <2> QED
    BY <2>1
<1> HIDE DEF p
<1>2. a \in Nat /\ a < N
  <2>1. j \in Nat /\ n - 1 \in Nat /\ j <= n - 1
    OBVIOUS
  <2>2. a \in Nat /\ (n - 1) * p \in Nat /\ a <= (n - 1) * p
    BY <1>1, <2>1, TimesMonotone
  <2>3. (n - 1) * p < N
    BY <1>1 DEF Covers
  <2> DEFINE c == (n - 1) * p
  <2> HIDE DEF a, c
  <2>4. a \in Nat /\ c \in Nat /\ a <= c /\ c < N
    BY <2>2, <2>3 DEF c
  <2> QED
    BY <2>4
<1>3. j # n - 1 => p <= N - a
  <2> SUFFICES ASSUME j # n - 1 PROVE p <= N - a
    OBVIOUS
  <2>1. j + 1 \in Nat /\ n - 1 \in Nat /\ j + 1 <= n - 1 /\ j \in Nat
    OBVIOUS
  <2>2. (j + 1) * p <= (n - 1) * p /\ (j + 1) * p \in Nat /\ (n - 1) * p \in Nat
    BY <1>1, <2>1, TimesMonotone
  <2>3. \A x, y \in Nat : (x + 1) * y = x * y + y
    OBVIOUS
  <2>4. (j + 1) * p = a + p
    BY <1>1, <2>1, <2>3
  <2>5. (n - 1) * p < N
    BY <1>1 DEF Covers
  <2> DEFINE c == (n - 1) * p
             b == (j + 1) * p
  <2> HIDE DEF a, b, c
  <2>6. b <= c /\ b \in Nat /\ c \in Nat /\ b = a + p /\ c < N
    BY <2>2, <2>4, <2>5 DEF b, c
  <2> QED
    BY <1>1, <1>2, <2>6
<1>4. j = n - 1 => N - a <= p
  <2> SUFFICES ASSUME j = n - 1 PROVE N - a <= p
    OBVIOUS
  <2>1. N <= n * p
    BY <1>1 DEF Covers
  <2>2. \A x, y \in Nat : (x + 1) * y = x * y + y
    OBVIOUS
  <2>3. n = j + 1 /\ j \in Nat
    OBVIOUS
  <2>4. n * p = a + p
    BY <1>1, <2>2, <2>3
  <2> HIDE DEF a
  <2>5. N <= a + p
    BY <2>1, <2>4
  <2> QED
    BY <1>1, <1>2, <2>5
<1>5. SpanOf(h, j, N) = <<a, IF p <= N - a THEN p ELSE N - a>>
  BY DEF SpanOf, p
<1> HIDE DEF a
<1>6. N - a \in Nat \ {0}
  BY <1>2
<1>7. SpanOf(h, j, N) \in Spans
  BY <1>1, <1>2, <1>5, <1>6 DEF Spans
<1>8. j = n - 1 => SpanOf(h, j, N) = <<a, N - a>>
  BY <1>1, <1>4, <1>5, <1>6
<1> QED
  BY <1>2, <1>3, <1>5, <1>7, <1>8 DEF a, p

\* The two halves of a node's leaves, or the node it was promoted from.
LEMMA ParentSpan ==
    ASSUME NEW n \in Nat \ {0}, NEW h \in Nat, NEW N \in Nat, Covers(n, Power[h], N),
           NEW j \in Nat, 2 * j < n
    PROVE  LET span == SpanOf(h + 1, j, N)
           IN  /\ 2 * j + 1 < n =>
                     /\ span \in Spans /\ span[2] # 1
                     /\ LeftOf(span) = SpanOf(h, 2 * j, N)
                     /\ RightOf(span) = SpanOf(h, 2 * j + 1, N)
                     /\ span[1] + Split(span[2]) = (2 * j + 1) * Power[h]
               /\ 2 * j + 1 = n => span = SpanOf(h, 2 * j, N)
<1> DEFINE p == Power[h]
           a == j * p
<1>1. p \in Nat \ {0} /\ Power[h + 1] = 2 * p /\ a \in Nat
  <2>1. Power[h] \in Nat /\ Power[h] >= h + 1 /\ Power[h + 1] = 2 * Power[h]
    BY PowerGrows, PowerEquation
  <2>2. p \in Nat \ {0} /\ Power[h + 1] = 2 * p
    BY <2>1
  <2>3. j <= j
    OBVIOUS
  <2> QED
    BY <2>2, <2>3, TimesMonotone
<1>2. (2 * j) * p = 2 * a /\ j * (2 * p) = 2 * a /\ (2 * j + 1) * p = 2 * a + p
  <2>1. \A x, y \in Nat : (2 * x) * y = 2 * (x * y) /\ x * (2 * y) = 2 * (x * y)
                          /\ (2 * x + 1) * y = 2 * (x * y) + y
    OBVIOUS
  <2> QED
    BY <1>1, <2>1
<1>3. SpanOf(h + 1, j, N) = <<2 * a, IF 2 * p <= N - 2 * a THEN 2 * p ELSE N - 2 * a>>
  <2>1. SpanOf(h + 1, j, N) = <<j * (2 * p), IF 2 * p <= N - j * (2 * p) THEN 2 * p
                                             ELSE N - j * (2 * p)>>
    BY <1>1 DEF SpanOf
  <2> QED
    BY <1>2, <2>1
<1>4. ASSUME 2 * j + 1 < n
      PROVE  LET span == SpanOf(h + 1, j, N)
             IN  /\ span \in Spans /\ span[2] # 1
                 /\ LeftOf(span) = SpanOf(h, 2 * j, N)
                 /\ RightOf(span) = SpanOf(h, 2 * j + 1, N)
                 /\ span[1] + Split(span[2]) = (2 * j + 1) * Power[h]
  <2>1. 2 * j \in 0..n - 1 /\ 2 * j # n - 1 /\ 2 * j + 1 \in 0..n - 1
    BY <1>4
  <2>2. SpanOf(h, 2 * j, N) = <<2 * a, p>>
    <3>1. SpanOf(h, 2 * j, N) = <<(2 * j) * Power[h], Power[h]>>
      BY <2>1, SpanFacts
    <3> QED
      BY <1>2, <3>1
  <2> DEFINE m == IF p <= N - (2 * a + p) THEN p ELSE N - (2 * a + p)
  <2>3. SpanOf(h, 2 * j + 1, N) = <<2 * a + p, m>>
    <3>1. SpanOf(h, 2 * j + 1, N)
             = <<(2 * j + 1) * p, IF p <= N - (2 * j + 1) * p THEN p ELSE N - (2 * j + 1) * p>>
      BY DEF SpanOf
    <3> QED
      BY <1>2, <3>1
  <2>4. 2 * a + p < N
    <3>1. (2 * j + 1) * Power[h] < N
      BY <2>1, SpanFacts
    <3> QED
      BY <1>2, <3>1
  <2>5. m \in Nat \ {0} /\ m <= p
    <3> HIDE DEF a, p
    <3> QED
      BY <1>1, <2>4
  <2>6. SpanOf(h + 1, j, N) = <<2 * a, p + m>>
    <3> HIDE DEF a, p
    <3>1. (IF 2 * p <= N - 2 * a THEN 2 * p ELSE N - 2 * a) = p + m
      BY <1>1, <2>4
    <3> QED
      BY <1>3, <3>1
  <2>7. Split(p + m) = p
    <3> HIDE DEF m
    <3>1. p + m \in Nat /\ p < p + m /\ p + m <= 2 * p
      <4> HIDE DEF p
      <4> QED
        BY <1>1, <2>5
    <3> QED
      BY <3>1, SplitIs
  <2> HIDE DEF m
  <2>8. p + m \in Nat \ {0} /\ p + m # 1 /\ 2 * a \in Nat /\ (p + m) - p = m
    <3> HIDE DEF a, p
    <3> QED
      BY <1>1, <2>5
  <2> DEFINE span == SpanOf(h + 1, j, N)
  <2>9. span = <<2 * a, p + m>>
    BY <2>6
  <2> HIDE DEF span, a, p
  <2>10. span \in Spans /\ span[2] # 1
    BY <2>8, <2>9 DEF Spans
  <2>11. LeftOf(span) = <<2 * a, p>> /\ RightOf(span) = <<2 * a + p, m>>
         /\ span[1] + Split(span[2]) = 2 * a + p
    <3> DEFINE b == 2 * a
               c == p + m
    <3>1. Split(c) = p /\ span = <<b, c>>
      BY <2>7, <2>9
    <3>2. c - p = m
      BY <2>8
    <3> HIDE DEF b, c
    <3>3. span[1] = b /\ span[2] = c
      BY <3>1
    <3>4. LeftOf(span) = <<b, p>> /\ RightOf(span) = <<b + p, m>>
          /\ span[1] + Split(span[2]) = b + p
      BY <3>1, <3>2, <3>3 DEF LeftOf, RightOf
    <3> QED
      BY <3>4 DEF b
  <2> QED
    BY <1>2, <2>2, <2>3, <2>10, <2>11 DEF span, p
<1>5. ASSUME 2 * j + 1 = n PROVE SpanOf(h + 1, j, N) = SpanOf(h, 2 * j, N)
  <2>1. 2 * j \in 0..n - 1 /\ 2 * j = n - 1
    BY <1>5
  <2>2. SpanOf(h, 2 * j, N) = <<2 * a, N - 2 * a>> /\ 2 * a < N
    <3>1. SpanOf(h, 2 * j, N) = <<(2 * j) * p, N - (2 * j) * p>> /\ (2 * j) * p < N
      BY <2>1, SpanFacts
    <3> QED
      BY <1>2, <3>1
  <2>3. N <= 2 * a + p
    <3>1. N <= n * p
      BY DEF Covers
    <3> QED
      BY <1>2, <1>5, <3>1
  <2> HIDE DEF a, p
  <2>4. ~(2 * p <= N - 2 * a)
    BY <1>1, <2>3
  <2> QED
    BY <1>3, <2>2, <2>4
<1> QED
  BY <1>4, <1>5

\* The subtrees of the recursive tree that a stage holds.
Holds(t, h, level, N) ==
    /\ Covers(Len(level), Power[h], N)
    /\ \A j \in 0..Len(level) - 1 : t[SpanOf(h, j, N)].hash = level[j + 1]

LEMMA NextHolds ==
    ASSUME NEW leaves, NEW index, NEW t, \A span \in Spans : BuiltAt(t, leaves, index, span),
           NEW N \in Nat, NEW h \in Nat, NEW low, IsLevel(low), Holds(t, h, low, N)
    PROVE  Holds(t, h + 1, NextLevel(low), N)
<1> DEFINE n == Len(low)
           up == NextLevel(low)
           m == (n + 1) \div 2
<1>1. n \in Nat \ {0} /\ Covers(n, Power[h], N)
  BY DEF IsLevel, Holds
<1>2. /\ Len(up) = m
      /\ \A k \in 1..m : up[k] = IF 2 * k <= n THEN NodeHash(low[2 * k - 1], low[2 * k])
                                 ELSE low[2 * k - 1]
  BY NextLevelIsLevel
<1>3. Power[h] \in Nat \ {0} /\ Power[h + 1] = 2 * Power[h]
  <2>1. Power[h] \in Nat /\ Power[h] >= h + 1
    BY PowerGrows
  <2> QED
    BY <2>1, PowerEquation
<1> HIDE DEF n, up
<1>4. Covers(Len(up), Power[h + 1], N)
  BY <1>1, <1>2, <1>3, CoversUp
<1>5. ASSUME NEW j \in 0..Len(up) - 1 PROVE t[SpanOf(h + 1, j, N)].hash = up[j + 1]
  <2>1. /\ j \in Nat /\ 2 * j < n /\ j + 1 \in 1..m
        /\ 2 * (j + 1) <= n <=> 2 * j + 1 < n
        /\ 2 * (j + 1) - 1 = 2 * j + 1 /\ 2 * (j + 1) = (2 * j + 1) + 1
        /\ 2 * j + 1 < n \/ 2 * j + 1 = n
    BY <1>1, <1>2
  <2>2. up[j + 1] = IF 2 * j + 1 < n THEN NodeHash(low[2 * j + 1], low[(2 * j + 1) + 1])
                    ELSE low[2 * j + 1]
    BY <1>2, <2>1
  <2> DEFINE span == SpanOf(h + 1, j, N)
  <2>3. CASE 2 * j + 1 < n
    <3>1. /\ span \in Spans /\ span[2] # 1
          /\ LeftOf(span) = SpanOf(h, 2 * j, N)
          /\ RightOf(span) = SpanOf(h, 2 * j + 1, N)
      BY <1>1, <2>1, <2>3, ParentSpan
    <3>2. t[SpanOf(h, 2 * j, N)].hash = low[2 * j + 1]
          /\ t[SpanOf(h, 2 * j + 1, N)].hash = low[(2 * j + 1) + 1]
      <4>1. 2 * j \in 0..n - 1 /\ 2 * j + 1 \in 0..n - 1
        BY <1>1, <2>1, <2>3
      <4> QED
        BY <4>1 DEF Holds, n
    <3> HIDE DEF span
    <3>3. t[span] = OfTwo(t[LeftOf(span)], t[RightOf(span)], index, span)
      BY <3>1 DEF BuiltAt
    <3>4. t[span].hash = NodeHash(t[LeftOf(span)].hash, t[RightOf(span)].hash)
      BY <3>3 DEF OfTwo
    <3> QED
      BY <2>2, <2>3, <3>1, <3>2, <3>4 DEF span
  <2>4. CASE 2 * j + 1 = n
    <3>1. span = SpanOf(h, 2 * j, N)
      BY <1>1, <2>1, <2>4, ParentSpan
    <3>2. t[SpanOf(h, 2 * j, N)].hash = low[2 * j + 1]
      <4>1. 2 * j \in 0..n - 1
        BY <1>1, <2>1
      <4> QED
        BY <4>1 DEF Holds, n
    <3>3. ~(2 * j + 1 < n)
      BY <1>1, <2>1, <2>4
    <3> QED
      BY <2>2, <3>1, <3>2, <3>3
  <2> QED
    BY <2>1, <2>3, <2>4
<1> QED
  BY <1>4, <1>5 DEF Holds, up

LEMMA StagesHold ==
    ASSUME NEW leaves, IsLevel(leaves), NEW lev, Stages(lev, leaves, Len(leaves)),
           NEW index, NEW t, \A span \in Spans : BuiltAt(t, leaves, index, span)
    PROVE  \A h \in 0..Len(leaves) : Holds(t, h, lev[h], Len(leaves))
<1> DEFINE N == Len(leaves)
           B == {h \in 0..N : ~Holds(t, h, lev[h], N)}
<1>0. N \in Nat \ {0}
  BY DEF IsLevel
<1> SUFFICES ASSUME B # {} PROVE FALSE
  OBVIOUS
<1>1. PICK h \in B : \A g \in B : h <= g
  <2>1. B \in SUBSET Nat
    BY <1>0
  <2> QED
    BY <2>1, LeastElement
<1>2. h \in 0..N /\ ~Holds(t, h, lev[h], N)
  BY <1>1
<1>3. CASE h = 0
  <2>1. lev[0] = leaves
    BY <1>0 DEF Stages
  <2>2. Covers(N, Power[0], N)
    <3>1. N - 1 \in Nat /\ (N - 1) * 1 = N - 1 /\ N * 1 = N /\ N - 1 < N /\ N <= N
      <4> HIDE DEF N
      <4> QED
        BY <1>0
    <3> QED
      BY <3>1, PowerEquation DEF Covers
  <2>3. ASSUME NEW j \in 0..N - 1 PROVE t[SpanOf(0, j, N)].hash = leaves[j + 1]
    <3>1. SpanOf(0, j, N) = <<j, 1>>
      <4>1. j * 1 = j /\ 1 <= N - j
        BY <1>0
      <4> HIDE DEF N
      <4> QED
        BY <4>1, PowerEquation DEF SpanOf
    <3> DEFINE span == <<j, 1>>
    <3>2. span \in Spans /\ span[1] = j /\ span[2] = 1
      BY <1>0 DEF Spans
    <3> HIDE DEF span
    <3>3. t[span] = OfLeaf(leaves, span)
      BY <3>2 DEF BuiltAt
    <3>4. t[span].hash = leaves[j + 1]
      BY <3>2, <3>3 DEF OfLeaf
    <3> QED
      BY <3>1, <3>4 DEF span
  <2>4. Holds(t, 0, leaves, N)
    BY <2>2, <2>3 DEF Holds
  <2> QED
    BY <1>2, <1>3, <2>1, <2>4
<1>4. CASE h # 0
  <2>1. PICK g \in 0..N : h = g + 1 /\ ~(h <= g) /\ h - 1 = g
    <3>1. h - 1 \in 0..N /\ h = (h - 1) + 1 /\ ~(h <= h - 1)
      BY <1>0, <1>2, <1>4
    <3> QED
      BY <3>1
  <2>2. Holds(t, g, lev[g], N)
    BY <1>1, <2>1
  <2>3. lev[h] = NextLevel(lev[g])
    BY <1>2, <1>4, <2>1 DEF Stages
  <2>4. IsLevel(lev[g])
    BY StagesShrink
  <2> HIDE DEF N, B
  <2>5. g \in Nat /\ N \in Nat
    BY <1>0
  <2>6. Holds(t, g + 1, NextLevel(lev[g]), N)
    BY <2>2, <2>4, <2>5, NextHolds
  <2> QED
    BY <1>2, <2>1, <2>3, <2>6
<1> QED
  BY <1>3, <1>4

\* The siblings at the levels up to h.
PathUpTo(lev, pos, S, h) == Pick(PathDigests(lev, pos, S), {g \in S : g <= h})

\* So does the path, from the leaf up to a stage.
Follows(t, lev, pos, S, h, N, index) ==
    /\ Within(pos[h + 1], Power[h], index)
    /\ t[SpanOf(h, pos[h + 1], N)].path = PathUpTo(lev, pos, S, h)

LEMMA NextFollows ==
    ASSUME NEW leaves, IsLevel(leaves), NEW lev, NEW top, IsTree(lev, top, leaves),
           NEW index \in Nat, NEW t, \A span \in Spans : BuiltAt(t, leaves, index, span),
           NEW pos, Ancestors(lev, pos, leaves, top),
           NEW h \in 0..top, h # top,
           Follows(t, lev, pos, PairedLevels(lev, pos, top), h, Len(leaves), index)
    PROVE  Follows(t, lev, pos, PairedLevels(lev, pos, top), h + 1, Len(leaves), index)
<1> DEFINE N == Len(leaves)
           S == PairedLevels(lev, pos, top)
           fn == pos[h + 1]
           sn == LastOf(lev, h)
           n == Len(lev[h])
           j == pos[h + 2]
           f == PathDigests(lev, pos, S)
           upTo == {g \in S : g <= h}
           span == SpanOf(h + 1, j, N)
<1>0. /\ top \in Nat /\ top \in 0..N /\ N \in Nat \ {0} /\ h \in Nat /\ h \in 0..N
      /\ Stages(lev, leaves, N)
  BY DEF IsTree, IsLevel
<1>1. /\ fn \in Nat /\ sn \in Nat /\ fn <= sn /\ n = sn + 1 /\ j = fn \div 2
  BY DEF Ancestors, Place
<1>2. Holds(t, h, lev[h], N) /\ Covers(n, Power[h], N)
  <2>1. \A g \in 0..Len(leaves) : Holds(t, g, lev[g], Len(leaves))
    BY <1>0, StagesHold
  <2> QED
    BY <1>0, <2>1 DEF Holds
<1>3. Power[h] \in Nat /\ Power[h + 1] = 2 * Power[h]
  BY <1>0, PowerGrows, PowerEquation
<1>4. Within(fn, Power[h], index) /\ t[SpanOf(h, fn, N)].path = Pick(f, upTo)
  BY DEF Follows, PathUpTo
<1>5. /\ h + 1 \in 1..top /\ (h + 1) - 1 = h
      /\ h + 1 \in S <=> PairedAt(lev, pos, h)
  BY <1>0 DEF PairedLevels
<1>6. upTo \in SUBSET Nat /\ IsFiniteSet(upTo) /\ \A g \in upTo : g < h + 1
  <2>1. IsFiniteSet(1..top) /\ S \in SUBSET (1..top)
    BY <1>0, FS_Interval DEF PairedLevels
  <2>2. upTo \in SUBSET (1..top)
    BY <2>1
  <2> HIDE DEF S
  <2>3. \A g \in upTo : g \in Nat /\ g <= h
    BY <2>2
  <2> HIDE DEF upTo
  <2>4. \A g \in upTo : g < h + 1
    BY <1>0, <2>3
  <2> QED
    BY <2>1, <2>2, <2>3, <2>4, FS_Subset
<1>7. {g \in S : g <= h + 1} = IF PairedAt(lev, pos, h) THEN upTo \cup {h + 1} ELSE upTo
  <2>1. \A g \in S : g \in Nat /\ (g <= h + 1 <=> g <= h \/ g = h + 1)
    BY <1>0 DEF PairedLevels
  <2> HIDE DEF S
  <2> QED
    BY <1>5, <2>1
<1>8. PairedAt(lev, pos, h) => f[h + 1] = lev[h][SiblingOf(fn) + 1]
  BY <1>5 DEF PathDigests
<1> HIDE DEF N, S, fn, sn, n, j, f, upTo, span
<1>9. /\ j \in Nat
      /\ fn = 2 * j \/ fn = 2 * j + 1
      /\ fn % 2 = 1 <=> fn = 2 * j + 1
      /\ 2 * j < n
  BY <1>1
<1>10. Within(j, Power[h + 1], index)
  BY <1>1, <1>3, <1>4, WithinUp
<1>11. PairedAt(lev, pos, h) <=> fn = 2 * j + 1 \/ fn # sn
  BY <1>9 DEF PairedAt, fn, sn
<1>12. n \in Nat \ {0} /\ N \in Nat /\ h \in Nat /\ j \in Nat /\ 2 * j < n
  BY <1>0, <1>1, <1>9
<1>13. CASE PairedAt(lev, pos, h)
  <2>1. 2 * j + 1 < n /\ 2 * j \in 0..n - 1 /\ 2 * j + 1 \in 0..n - 1
    BY <1>1, <1>9, <1>11, <1>13
  <2>2. /\ span \in Spans /\ span[2] # 1
        /\ LeftOf(span) = SpanOf(h, 2 * j, N)
        /\ RightOf(span) = SpanOf(h, 2 * j + 1, N)
        /\ span[1] + Split(span[2]) = (2 * j + 1) * Power[h]
    BY <1>2, <1>12, <2>1, ParentSpan DEF span
  <2>3. t[span] = OfTwo(t[LeftOf(span)], t[RightOf(span)], index, span)
    BY <2>2 DEF BuiltAt
  <2>4. t[span].path = IF index < (2 * j + 1) * Power[h]
                       THEN Append(t[SpanOf(h, 2 * j, N)].path, t[SpanOf(h, 2 * j + 1, N)].hash)
                       ELSE Append(t[SpanOf(h, 2 * j + 1, N)].path, t[SpanOf(h, 2 * j, N)].hash)
    BY <2>2, <2>3 DEF OfTwo
  <2>5. t[SpanOf(h, 2 * j, N)].hash = lev[h][2 * j + 1]
        /\ t[SpanOf(h, 2 * j + 1, N)].hash = lev[h][(2 * j + 1) + 1]
    BY <1>2, <2>1 DEF Holds, n
  <2>6. t[span].path = Append(Pick(f, upTo), f[h + 1])
    <3> DEFINE border == (2 * j + 1) * Power[h]
    <3>1. border \in Nat
      <4>1. \A x, y \in Nat : (2 * x + 1) * y \in Nat
        OBVIOUS
      <4> QED
        BY <1>3, <1>9, <4>1
    <3>2. CASE fn = 2 * j
      <4>1. index < border
        BY <1>4, <3>2 DEF Within
      <4>2. SiblingOf(fn) = 2 * j + 1
        BY <1>9, <3>2 DEF SiblingOf
      <4> HIDE DEF border
      <4> QED
        BY <1>4, <1>8, <1>13, <2>4, <2>5, <3>2, <4>1, <4>2 DEF border
    <3>3. CASE fn = 2 * j + 1
      <4>1. border <= index
        BY <1>4, <3>3 DEF Within
      <4>2. ~(index < border)
        <5> HIDE DEF border
        <5> QED
          BY <3>1, <4>1
      <4>3. SiblingOf(fn) = 2 * j
        <5>1. fn % 2 # 0 /\ fn - 1 = 2 * j
          <6> HIDE DEF border
          <6> QED
            BY <1>1, <1>9, <3>3
        <5> QED
          BY <5>1 DEF SiblingOf
      <4> HIDE DEF border
      <4> QED
        BY <1>4, <1>8, <1>13, <2>4, <2>5, <3>3, <4>2, <4>3 DEF border
    <3> QED
      BY <1>9, <3>2, <3>3
  <2>7. Pick(f, upTo \cup {h + 1}) = Append(Pick(f, upTo), f[h + 1])
    <3>1. h + 1 \in Nat
      BY <1>0
    <3> QED
      BY <1>6, <3>1, PickOneMore
  <2>8. t[span].path = PathUpTo(lev, pos, S, h + 1)
    BY <1>7, <1>13, <2>6, <2>7 DEF PathUpTo, f
  <2> QED
    BY <1>0, <1>10, <2>8 DEF Follows, span, j, S, N
<1>14. CASE ~PairedAt(lev, pos, h)
  <2>1. fn = 2 * j /\ 2 * j + 1 = n
    BY <1>1, <1>9, <1>11, <1>14
  <2>2. span = SpanOf(h, 2 * j, N)
    BY <1>2, <1>12, <2>1, ParentSpan DEF span
  <2>3. t[span].path = PathUpTo(lev, pos, S, h + 1)
    BY <1>4, <1>7, <1>14, <2>1, <2>2 DEF PathUpTo, f
  <2> QED
    BY <1>0, <1>10, <2>3 DEF Follows, span, j, S, N
<1> QED
  BY <1>13, <1>14

LEMMA StagesFollow ==
    ASSUME NEW leaves, IsLevel(leaves), NEW lev, NEW top, IsTree(lev, top, leaves),
           NEW index \in Nat, index < Len(leaves),
           NEW t, \A span \in Spans : BuiltAt(t, leaves, index, span),
           NEW pos, Positions(pos, index, top + 1)
    PROVE  Follows(t, lev, pos, PairedLevels(lev, pos, top), top, Len(leaves), index)
<1> DEFINE N == Len(leaves)
           S == PairedLevels(lev, pos, top)
           Good(h) == Follows(t, lev, pos, S, h, N, index)
           B == {h \in 0..top : ~Good(h)}
<1>0. top \in Nat /\ N \in Nat \ {0} /\ Ancestors(lev, pos, leaves, top)
  <2>1. Ancestors(lev, pos, leaves, top)
    BY AncestorPlaces
  <2> QED
    BY <2>1 DEF IsTree, IsLevel
<1> SUFFICES ASSUME B # {} PROVE FALSE
  <2>1. top \in 0..top
    BY <1>0
  <2> HIDE DEF Good
  <2>2. B = {} => Good(top)
    BY <2>1
  <2> QED
    BY <2>2 DEF Good
<1>1. PICK h \in B : \A g \in B : h <= g
  <2>1. B \in SUBSET Nat
    BY <1>0
  <2> QED
    BY <2>1, LeastElement
<1>2. h \in 0..top /\ ~Good(h)
  BY <1>1
<1>3. CASE h = 0
  <2>1. pos[1] = index
    BY <1>0 DEF Positions
  <2>2. Within(index, Power[0], index)
    <3>1. index * 1 = index /\ (index + 1) * 1 = index + 1 /\ index <= index /\ index < index + 1
      OBVIOUS
    <3> QED
      BY <3>1, PowerEquation DEF Within
  <2>3. SpanOf(0, index, N) = <<index, 1>>
    <3>1. index * 1 = index /\ 1 <= N - index
      BY <1>0
    <3> HIDE DEF N
    <3> QED
      BY <3>1, PowerEquation DEF SpanOf
  <2>4. t[<<index, 1>>].path = <<>>
    <3> DEFINE span == <<index, 1>>
    <3>1. span \in Spans /\ span[2] = 1
      BY DEF Spans
    <3> HIDE DEF span
    <3>2. t[span] = OfLeaf(leaves, span)
      BY <3>1 DEF BuiltAt
    <3>3. t[span].path = <<>>
      BY <3>2 DEF OfLeaf
    <3> QED
      BY <3>3 DEF span
  <2>5. PathUpTo(lev, pos, S, 0) = <<>>
    <3>1. \A g \in S : ~(g <= 0)
      BY <1>0 DEF PairedLevels
    <3> HIDE DEF S
    <3>2. {g \in S : g <= 0} = {}
      BY <3>1
    <3> DEFINE f == PathDigests(lev, pos, S)
               none == Pick(f, {})
    <3>3. Cardinality({}) = 0
      BY FS_EmptySet
    <3> HIDE DEF f
    <3>4. none = [k \in 1..0 |-> f[Nth({}, k)]]
      BY <3>3 DEF Pick
    <3>5. none = [k \in 1..0 |-> none[k]]
      BY <3>4
    <3> HIDE DEF none
    <3>6. none \in [1..0 -> {}]
      <4>1. \A k : k \notin 1..0
        OBVIOUS
      <4> QED
        BY <3>5, <4>1
    <3>7. none \in Seq({}) /\ Len(none) = 0
      BY <3>5, <3>6, LenOfFunction
    <3>8. none = <<>>
      BY <3>7, EmptySeq
    <3> QED
      BY <3>2, <3>8 DEF PathUpTo, none, f
  <2>6. Good(0)
    BY <2>1, <2>2, <2>3, <2>4, <2>5 DEF Follows
  <2> QED
    BY <1>2, <1>3, <2>6
<1>4. CASE h # 0
  <2>1. PICK g \in 0..top : g # top /\ h = g + 1 /\ ~(h <= g)
    <3>1. h - 1 \in 0..top /\ h - 1 # top /\ h = (h - 1) + 1 /\ ~(h <= h - 1)
      BY <1>0, <1>2, <1>4
    <3> QED
      BY <3>1
  <2>2. Good(g)
    <3> HIDE DEF Good
    <3> QED
      BY <1>1, <2>1
  <2>3. Follows(t, lev, pos, S, g + 1, N, index)
    BY <1>0, <2>1, <2>2, NextFollows
  <2> QED
    BY <1>2, <2>1, <2>3
<1> QED
  BY <1>3, <1>4

\* build_tree's "equivalent to the RFC 6962 recursive construction", root and paths.
LEMMA TreeIsRecursive ==
    ASSUME NEW leaves, IsLevel(leaves), NEW index \in Nat, index < Len(leaves)
    PROVE  Root(leaves) = Tree(leaves, index).hash /\ AuditPath(leaves, index) = Tree(leaves, index).path
<1> DEFINE N == Len(leaves)
<1>1. PICK lev, top : IsTree(lev, top, leaves)
  BY TreeExists
<1>2. PICK pos : /\ Positions(pos, index, top + 1)
                 /\ IsPath(AuditPath(leaves, index), lev, pos, top)
  BY <1>1, AuditPathIsPath
<1>3. PICK t : /\ Tree(leaves, index) = t[<<0, N>>]
               /\ \A span \in Spans : BuiltAt(t, leaves, index, span)
  BY TreeEquation
<1> DEFINE S == PairedLevels(lev, pos, top)
<1>4. /\ Stages(lev, leaves, N) /\ top \in Nat /\ top \in 0..N /\ N \in Nat \ {0}
      /\ Len(lev[top]) = 1 /\ Root(leaves) = lev[top][1]
  BY <1>1 DEF IsTree, IsLevel
<1>5. pos[top + 1] = 0
  <2>1. Ancestors(lev, pos, leaves, top)
    BY <1>1, <1>2, AncestorPlaces
  <2>2. Place(lev, leaves, top, pos[top + 1], LastOf(lev, top))
    BY <1>4, <2>1 DEF Ancestors
  <2>3. LastOf(lev, top) = 0
    BY <1>4 DEF LastOf
  <2> QED
    BY <2>2, <2>3 DEF Place
<1>6. Holds(t, top, lev[top], N)
  BY <1>3, <1>4, StagesHold
<1>7. Follows(t, lev, pos, S, top, N, index)
  BY <1>1, <1>2, <1>3, StagesFollow
<1>8. Power[top] \in Nat
  BY <1>4, PowerGrows
<1> HIDE DEF N, S
<1>9. SpanOf(top, 0, N) = <<0, N>>
  <2> DEFINE p == Power[top]
  <2>1. N <= 1 * p
    BY <1>4, <1>6 DEF Holds, Covers
  <2> HIDE DEF p
  <2>2. 0 * p = 0 /\ N - 0 = N /\ (p <= N => p = N)
    BY <1>4, <1>8, <2>1 DEF p
  <2> QED
    BY <2>2 DEF SpanOf, p
<1>10. t[<<0, N>>].hash = lev[top][1]
  <2>1. 0 \in 0..Len(lev[top]) - 1
    BY <1>4
  <2> QED
    BY <1>6, <1>9, <2>1 DEF Holds
<1>11. t[<<0, N>>].path = AuditPath(leaves, index)
  <2>1. {g \in S : g <= top} = S
    <3>1. \A g \in S : g <= top
      BY <1>4 DEF S, PairedLevels
    <3> QED
      BY <3>1
  <2> QED
    BY <1>2, <1>5, <1>7, <1>9, <2>1 DEF Follows, PathUpTo, IsPath, S
<1> QED
  BY <1>3, <1>4, <1>10, <1>11

-----------------------------------------------------------------------------
(* Only one path is accepted.                                                *)

\* Two paths that are accepted for the same leaf are one path: where the verifier
\* is depends on the number of digests only, and NodeHash can be taken apart.
SamePlace(x, y) == x.fn = y.fn /\ x.sn = y.sn

LEMMA ClimbTogether ==
    ASSUME NEW x, NEW y, SamePlace(x, y), NEW s, NEW t
    PROVE  /\ SamePlace(Climb(x, s), Climb(y, t))
           /\ Climb(x, s).r = Climb(y, t).r => x.r = y.r /\ s = t
<1> DEFINE right == x.fn % 2 = 1 \/ x.fn = x.sn
           next == Shift(IF right THEN SkipPromoted[<<x.fn, x.sn>>] ELSE <<x.fn, x.sn>>)
<1>1. /\ Climb(x, s).fn = next[1] /\ Climb(x, s).sn = next[2]
      /\ Climb(x, s).r = IF right THEN NodeHash(s, x.r) ELSE NodeHash(x.r, s)
  BY DEF Climb
<1>2. /\ Climb(y, t).fn = next[1] /\ Climb(y, t).sn = next[2]
      /\ Climb(y, t).r = IF right THEN NodeHash(t, y.r) ELSE NodeHash(y.r, t)
  <2>1. y.fn = x.fn /\ y.sn = x.sn
    BY DEF SamePlace
  <2> QED
    BY <2>1 DEF Climb
<1> HIDE DEF right, next
<1>3. SamePlace(Climb(x, s), Climb(y, t))
  BY <1>1, <1>2 DEF SamePlace
<1>4. ASSUME Climb(x, s).r = Climb(y, t).r PROVE x.r = y.r /\ s = t
  <2>1. CASE right
    BY <1>1, <1>2, <1>4, <2>1, NodeHashInjective
  <2>2. CASE ~right
    BY <1>1, <1>2, <1>4, <2>2, NodeHashInjective
  <2> QED
    BY <2>1, <2>2
<1> QED
  BY <1>3, <1>4

\* What fits at the end fitted before every digest.
LEMMA FitsThroughout ==
    ASSUME NEW begin, NEW path, NEW n \in Nat, NEW at, Climbs(at, begin, path, n), at[n].fits
    PROVE  \A k \in 0..n : at[k].fits /\ (k # n => at[k].sn # 0)
<1> DEFINE Ok(k) == at[n - k].fits /\ (k # 0 => at[n - k].sn # 0)
           B == {k \in 0..n : ~Ok(k)}
<1>1. B = {}
  <2> SUFFICES ASSUME B # {} PROVE FALSE
    OBVIOUS
  <2>1. PICK k \in B : \A j \in B : k <= j
    <3>1. B \in SUBSET Nat
      OBVIOUS
    <3> QED
      BY <3>1, LeastElement
  <2>2. k \in 0..n /\ ~Ok(k)
    BY <2>1
  <2>3. k # 0
    BY <2>2
  <2>4. PICK g \in 0..n : g = k - 1 /\ ~(k <= g) /\ n - g \in 0..n /\ n - g # 0 /\ n - g - 1 = n - k
    <3>1. /\ k - 1 \in 0..n /\ ~(k <= k - 1) /\ n - (k - 1) \in 0..n /\ n - (k - 1) # 0
          /\ n - (k - 1) - 1 = n - k
      BY <2>2, <2>3
    <3> QED
      BY <3>1
  <2>5. Ok(g)
    <3> HIDE DEF Ok
    <3> QED
      BY <2>1, <2>4
  <2>6. at[n - g] = Climb(at[n - k], path[n - g])
    BY <2>4 DEF Climbs
  <2>7. Climb(at[n - k], path[n - g]).fits = (at[n - k].fits /\ at[n - k].sn # 0)
    BY DEF Climb
  <2> QED
    BY <2>2, <2>5, <2>6, <2>7
<1>2. ASSUME NEW k \in 0..n PROVE at[k].fits /\ (k # n => at[k].sn # 0)
  <2>1. n - k \in 0..n /\ n - (n - k) = k /\ (k # n => n - k # 0)
    OBVIOUS
  <2>2. Ok(n - k)
    <3> HIDE DEF Ok
    <3> QED
      BY <1>1, <2>1
  <2> QED
    BY <2>1, <2>2
<1> QED
  BY <1>2

LEMMA PathIsUnique ==
    ASSUME NEW bytes, NEW index, NEW count, NEW root, NEW P, NEW p \in Seq(P), NEW Q, NEW q \in Seq(Q),
           VerifyInclusion(bytes, index, p, count, root),
           VerifyInclusion(bytes, index, q, count, root)
    PROVE  p = q
<1> DEFINE begin == Begin(LeafHash(bytes), index, count - 1)
           m == Len(p)
           n == Len(q)
<1>1. m \in Nat /\ n \in Nat /\ p = [k \in 1..m |-> p[k]] /\ q = [k \in 1..n |-> q[k]]
  BY LenProperties
<1>2. PICK a : Climbs(a, begin, p, m) /\ a[m].fits /\ a[m].sn = 0 /\ a[m].r = root
  <2>1. PICK a : /\ Climbs(a, begin, p, Len(p))
                 /\ Replay(LeafHash(bytes), index, p, count - 1) = a[Len(p)]
    BY <1>1, ReplayIsClimbs
  <2> QED
    BY <2>1 DEF VerifyInclusion
<1>3. PICK b : Climbs(b, begin, q, n) /\ b[n].fits /\ b[n].sn = 0 /\ b[n].r = root
  <2>1. PICK b : /\ Climbs(b, begin, q, Len(q))
                 /\ Replay(LeafHash(bytes), index, q, count - 1) = b[Len(q)]
    BY <1>1, ReplayIsClimbs
  <2> QED
    BY <2>1 DEF VerifyInclusion
<1> HIDE DEF begin, m, n
<1>4. /\ a[0] = begin /\ b[0] = begin
      /\ \A k \in 0..m : k # 0 => a[k] = Climb(a[k - 1], p[k])
      /\ \A k \in 0..n : k # 0 => b[k] = Climb(b[k - 1], q[k])
  <2>1. 0 \in 0..m /\ 0 \in 0..n
    BY <1>1
  <2>2. a[0] = begin /\ \A k \in 0..m : k # 0 => a[k] = Climb(a[k - 1], p[k])
    BY <1>2, <2>1 DEF Climbs
  <2>3. b[0] = begin /\ \A k \in 0..n : k # 0 => b[k] = Climb(b[k - 1], q[k])
    BY <1>3, <2>1 DEF Climbs
  <2> QED
    BY <2>2, <2>3
<1>5. \A k \in Nat : k <= m /\ k <= n => SamePlace(a[k], b[k])
  <2> DEFINE Ok(k) == k <= m /\ k <= n => SamePlace(a[k], b[k])
             B == {k \in Nat : ~Ok(k)}
  <2> SUFFICES ASSUME B # {} PROVE FALSE
    OBVIOUS
  <2>1. PICK k \in B : \A j \in B : k <= j
    <3>1. B \in SUBSET Nat
      OBVIOUS
    <3> QED
      BY <3>1, LeastElement
  <2>2. k \in Nat /\ k <= m /\ k <= n /\ ~SamePlace(a[k], b[k])
    BY <2>1
  <2>3. k # 0
    BY <1>4, <2>2 DEF SamePlace
  <2>4. PICK g \in Nat : g = k - 1 /\ ~(k <= g) /\ g <= m /\ g <= n
    <3>1. k - 1 \in Nat /\ ~(k <= k - 1) /\ k - 1 <= m /\ k - 1 <= n
      BY <1>1, <2>2, <2>3
    <3> QED
      BY <3>1
  <2>5. SamePlace(a[g], b[g])
    <3>1. Ok(g)
      <4> HIDE DEF Ok
      <4> QED
        BY <2>1, <2>4
    <3> QED
      BY <2>4, <3>1
  <2>6. a[k] = Climb(a[g], p[k]) /\ b[k] = Climb(b[g], q[k])
    <3>1. k \in 0..m /\ k \in 0..n
      BY <1>1, <2>2
    <3> QED
      BY <1>4, <2>3, <2>4, <3>1
  <2> QED
    BY <2>2, <2>5, <2>6, ClimbTogether
<1>6. m = n
  <2>1. \A k \in 0..m : k # m => a[k].sn # 0
    BY <1>1, <1>2, FitsThroughout
  <2>2. \A k \in 0..n : k # n => b[k].sn # 0
    BY <1>1, <1>3, FitsThroughout
  <2>3. ~(m < n)
    <3> SUFFICES ASSUME m < n PROVE FALSE
      OBVIOUS
    <3>1. m <= m /\ m <= n /\ m \in 0..n /\ m # n
      BY <1>1
    <3>2. a[m].sn = b[m].sn
      BY <1>1, <1>5, <3>1 DEF SamePlace
    <3> QED
      BY <1>2, <2>2, <3>1, <3>2
  <2>4. ~(n < m)
    <3> SUFFICES ASSUME n < m PROVE FALSE
      OBVIOUS
    <3>1. n <= m /\ n <= n /\ n \in 0..m /\ n # m
      BY <1>1
    <3>2. a[n].sn = b[n].sn
      BY <1>1, <1>5, <3>1 DEF SamePlace
    <3> QED
      BY <1>3, <2>1, <3>1, <3>2
  <2> QED
    BY <1>1, <2>3, <2>4
<1>7. ASSUME NEW k \in 1..n, a[k].r = b[k].r
      PROVE  a[k - 1].r = b[k - 1].r /\ p[k] = q[k]
  <2>1. k - 1 \in Nat /\ k - 1 <= m /\ k - 1 <= n /\ k \in 0..m /\ k \in 0..n /\ k # 0
    BY <1>1, <1>6
  <2>2. SamePlace(a[k - 1], b[k - 1])
    BY <1>5, <2>1
  <2>3. a[k] = Climb(a[k - 1], p[k]) /\ b[k] = Climb(b[k - 1], q[k])
    BY <1>4, <2>1
  <2> QED
    BY <1>7, <2>2, <2>3, ClimbTogether
<1>8. \A k \in 0..n : a[n - k].r = b[n - k].r
  <2> DEFINE Ok(k) == a[n - k].r = b[n - k].r
             B == {k \in 0..n : ~Ok(k)}
  <2> SUFFICES ASSUME B # {} PROVE FALSE
    OBVIOUS
  <2>1. PICK k \in B : \A j \in B : k <= j
    <3>1. B \in SUBSET Nat
      BY <1>1
    <3> QED
      BY <3>1, LeastElement
  <2>2. k \in 0..n /\ ~Ok(k)
    BY <2>1
  <2>3. k # 0
    <3>1. n - 0 = n
      BY <1>1
    <3> QED
      BY <1>2, <1>3, <1>6, <2>2, <3>1
  <2>4. PICK g \in 0..n : ~(k <= g) /\ n - g \in 1..n /\ (n - g) - 1 = n - k
    <3>1. k - 1 \in 0..n /\ ~(k <= k - 1) /\ n - (k - 1) \in 1..n /\ (n - (k - 1)) - 1 = n - k
      BY <1>1, <2>2, <2>3
    <3> QED
      BY <3>1
  <2>5. Ok(g)
    <3> HIDE DEF Ok
    <3> QED
      BY <2>1, <2>4
  <2>6. a[(n - g) - 1].r = b[(n - g) - 1].r
    BY <1>7, <2>4, <2>5
  <2> QED
    BY <2>2, <2>4, <2>6
<1>9. ASSUME NEW k \in 1..n PROVE p[k] = q[k]
  <2>1. n - k \in 0..n /\ n - (n - k) = k
    BY <1>1
  <2>2. a[k].r = b[k].r
    BY <1>8, <2>1
  <2> QED
    BY <1>7, <2>2
<1> QED
  BY <1>1, <1>6, <1>9

-----------------------------------------------------------------------------
(* Entries and proof files.                                                  *)

BatchLeaves(batch) == [i \in DOMAIN batch |-> LeafHash(ClaimBytes(batch[i], construction))]

\* An entry anchors a batch.
EntryOver(e, batch) ==
    /\ batch \in Seq(Files) /\ batch # <<>>
    /\ e.root = Root(BatchLeaves(batch))
    /\ e.count = Len(batch)
    /\ ConstructionOf(e) = construction
    /\ \A i \in DOMAIN batch : e.subject = SubjectOf[batch[i].content]

\* A proof file is of a leaf of the batch.
ProofAt(batch, n) == [index |-> n, path |-> AuditPath(BatchLeaves(batch), n)]
IsProofOf(proof, batch) == \E n \in 0..Len(batch) - 1 : proof = ProofAt(batch, n)

Among(file, proof, batch) ==
    /\ proof.index + 1 \in DOMAIN batch
    /\ ClaimBytes(batch[proof.index + 1], construction) = ClaimBytes(file, construction)

LEMMA BatchLeavesAreLevel ==
    ASSUME NEW batch \in Seq(Files), batch # <<>>
    PROVE  /\ IsLevel(BatchLeaves(batch))
           /\ Len(BatchLeaves(batch)) = Len(batch)
           /\ DOMAIN BatchLeaves(batch) = DOMAIN batch
           /\ Len(batch) \in Nat \ {0} /\ DOMAIN batch = 1..Len(batch)
<1>1. Len(batch) \in Nat \ {0} /\ DOMAIN batch = 1..Len(batch)
  BY LenProperties, EmptySeq
<1> DEFINE f == BatchLeaves(batch)
           n == Len(batch)
<1>2. f = [k \in 1..n |-> f[k]]
  BY <1>1 DEF BatchLeaves
<1> HIDE DEF f, n
<1>3. Len(f) = n /\ DOMAIN f = 1..n
  BY <1>1, <1>2, LenOfFunction DEF n
<1> QED
  BY <1>1, <1>3 DEF f, n, IsLevel

LEMMA AuditPathHasLength ==
    ASSUME NEW leaves, IsLevel(leaves), NEW index
    PROVE  LET path == AuditPath(leaves, index)
           IN  Len(path) \in Nat /\ path = [k \in 1..Len(path) |-> path[k]]
<1> DEFINE levels == Levels(leaves)
           position == CHOOSE f : f = [h \in 1..Len(levels) |-> IF h = 1 THEN index
                                                                 ELSE f[h - 1] \div 2]
           sibling(h) == IF position[h] % 2 = 0 THEN position[h] + 1 ELSE position[h] - 1
           paired == {h \in 1..Len(levels) - 1 : sibling(h) < Len(levels[h])}
           nodes == [h \in paired |-> levels[h][sibling(h) + 1]]
<1>1. IsFiniteSet(paired)
  <2>1. Len(levels) \in Nat
    BY LevelsHaveLength
  <2>2. IsFiniteSet(1..Len(levels) - 1)
    BY <2>1, FS_Interval
  <2> QED
    BY <2>2, FS_Subset
<1>2. Cardinality(paired) \in Nat
  BY <1>1, FS_CardinalityType
<1>3. AuditPath(leaves, index) = Pick(nodes, paired)
  BY DEF AuditPath
<1> HIDE DEF nodes, paired
<1>4. Pick(nodes, paired) = [k \in 1..Cardinality(paired) |-> Pick(nodes, paired)[k]]
  BY DEF Pick
<1>5. Len(Pick(nodes, paired)) = Cardinality(paired)
  BY <1>2, <1>4, LenOfFunction
<1> QED
  BY <1>2, <1>3, <1>4, <1>5

LEMMA ProofFields ==
    ASSUME NEW batch \in Seq(Files), batch # <<>>, NEW proof, IsProofOf(proof, batch)
    PROVE  /\ proof.index \in Nat /\ proof.index < Len(batch) /\ proof.index + 1 \in DOMAIN batch
           /\ proof.path = AuditPath(BatchLeaves(batch), proof.index)
           /\ Len(proof.path) \in Nat
<1>1. Len(batch) \in Nat \ {0} /\ DOMAIN batch = 1..Len(batch) /\ IsLevel(BatchLeaves(batch))
  BY BatchLeavesAreLevel
<1>2. PICK n \in 0..Len(batch) - 1 : proof = ProofAt(batch, n)
  BY DEF IsProofOf
<1>3. proof.index = n /\ proof.path = AuditPath(BatchLeaves(batch), n)
  BY <1>2 DEF ProofAt
<1>4. n \in Nat /\ n < Len(batch) /\ n + 1 \in DOMAIN batch
  BY <1>1
<1>5. Len(AuditPath(BatchLeaves(batch), n)) \in Nat
  BY <1>1, AuditPathHasLength
<1> QED
  BY <1>3, <1>4, <1>5

\* What the verdict accepts over a published entry is in its batch ...
LEMMA IncludedIsAmong ==
    ASSUME NEW e, NEW batch, EntryOver(e, batch), NEW proof, proof.index \in Nat,
           Len(proof.path) \in Nat, NEW file, NEW subject, Included(file, subject, proof, e)
    PROVE  Among(file, proof, batch)
<1> DEFINE leaves == BatchLeaves(batch)
           bytes == ClaimBytes(file, construction)
<1>1. batch \in Seq(Files) /\ batch # <<>>
  BY DEF EntryOver
<1>2. IsLevel(leaves) /\ Len(leaves) = Len(batch) /\ DOMAIN leaves = DOMAIN batch
  BY <1>1, BatchLeavesAreLevel
<1>3. VerifyInclusion(bytes, proof.index, proof.path, Len(leaves), Root(leaves))
  BY <1>2 DEF Included, EntryOver
<1>4. proof.index + 1 \in DOMAIN leaves /\ leaves[proof.index + 1] = LeafHash(bytes)
  <2> HIDE DEF leaves, bytes
  <2> QED
    BY <1>2, <1>3, InclusionIsSound
<1>5. LeafHash(ClaimBytes(batch[proof.index + 1], construction)) = LeafHash(bytes)
  BY <1>2, <1>4 DEF BatchLeaves
<1>6. ClaimBytes(batch[proof.index + 1], construction) = bytes
  <2>1. \A a, b : LeafHash(a) = LeafHash(b) => a = b
    <3> SUFFICES ASSUME NEW a, NEW b, LeafHash(a) = LeafHash(b) PROVE a = b
      OBVIOUS
    <3>1. <<a>> = <<b>>
      BY DEF LeafHash
    <3> QED
      BY <3>1
  <2> QED
    BY <1>5, <2>1
<1> QED
  BY <1>2, <1>4, <1>6 DEF Among

\* ... and what is in the batch is accepted with its proof file.
LEMMA GenuineIsIncluded ==
    ASSUME construction \in Constructions, NEW e, NEW batch, EntryOver(e, batch),
           NEW proof, IsProofOf(proof, batch), NEW file, file = batch[proof.index + 1]
    PROVE  /\ Resolved(SubjectOf[file.content], e)
           /\ Included(file, SubjectOf[file.content], proof, e)
<1> DEFINE leaves == BatchLeaves(batch)
           bytes == ClaimBytes(file, construction)
<1>1. batch \in Seq(Files) /\ batch # <<>>
  BY DEF EntryOver
<1>2. IsLevel(leaves) /\ Len(leaves) = Len(batch)
  BY <1>1, BatchLeavesAreLevel
<1>3. /\ proof.index \in Nat /\ proof.index < Len(batch) /\ proof.index + 1 \in DOMAIN batch
      /\ proof.path = AuditPath(leaves, proof.index)
  BY <1>1, ProofFields
<1>4. leaves[proof.index + 1] = LeafHash(bytes)
  BY <1>3 DEF BatchLeaves
<1>5. Resolved(SubjectOf[file.content], e)
  BY <1>3 DEF Resolved, EntryOver
<1>6. VerifyInclusion(bytes, proof.index, proof.path, Len(leaves), Root(leaves))
  <2> HIDE DEF leaves, bytes
  <2> QED
    BY <1>2, <1>3, <1>4, InclusionIsComplete
<1> QED
  BY <1>2, <1>5, <1>6 DEF Included, EntryOver

\* Of the claims of one stem one is the last, and its proof file stays.
IsLastOf(batch, stem, i) ==
    /\ batch[i].stem = stem
    /\ \A j \in DOMAIN batch : batch[j].stem = stem => j <= i

LEMMA LastOfStem ==
    ASSUME NEW batch \in Seq(Files), NEW stem, \E i \in DOMAIN batch : batch[i].stem = stem
    PROVE  \E i \in DOMAIN batch : IsLastOf(batch, stem, i)
<1> DEFINE n == Len(batch)
           Mine(i) == batch[i].stem = stem
           Rest == {n - i : i \in {j \in DOMAIN batch : Mine(j)}}
<1>1. n \in Nat /\ DOMAIN batch = 1..n
  BY LenProperties
<1>2. Rest \in SUBSET Nat /\ Rest # {}
  BY <1>1
<1>3. PICK m \in Rest : \A k \in Rest : m <= k
  BY <1>2, LeastElement
<1>4. PICK i \in DOMAIN batch : Mine(i) /\ m = n - i
  BY <1>3
<1>5. ASSUME NEW j \in DOMAIN batch, Mine(j) PROVE j <= i
  <2>1. n - j \in Rest
    BY <1>5
  <2>2. n - i <= n - j
    BY <1>3, <1>4, <2>1
  <2> QED
    BY <1>1, <2>2
<1> QED
  BY <1>4, <1>5 DEF IsLastOf

-----------------------------------------------------------------------------
(* The files are those of the batch, from the entry on.                      *)

IsLine(line) == line.producer \in Producers /\ EntryOver(line.entry, line.batch)

OwnProofs ==
    /\ \A s \in Stems : proofs[s] # NoProof => IsProofOf(proofs[s], claims)
    /\ \A i \in DOMAIN claims :
          IsLastOf(claims, claims[i].stem, i) => proofs[claims[i].stem] = ProofAt(claims, i - 1)

FilesInv ==
    /\ construction \in Constructions
    /\ claims \in Seq(Files)
    /\ entry = NoEntry => (\A s \in Stems : proofs[s] = NoProof) /\ dayFile = <<>>
    /\ entry # NoEntry => EntryOver(entry, claims) /\ OwnProofs
    /\ dayFile \in Seq(ToSet(dayFile))
    /\ \A line \in ToSet(dayFile) : IsLine(line)

LEMMA FilesInit == Init => FilesInv
<1> SUFFICES ASSUME Init PROVE FilesInv
  OBVIOUS
<1>1. construction \in Constructions /\ claims = <<>> /\ entry = NoEntry
      /\ proofs = [s \in Stems |-> NoProof] /\ dayFile = <<>>
  BY DEF Init
<1>2. ToSet(dayFile) = {} /\ dayFile \in Seq(ToSet(dayFile))
  BY <1>1, EmptySeq DEF ToSet
<1> QED
  BY <1>1, <1>2, EmptySeq DEF FilesInv

\* A sequence with one more element.
LEMMA AppendToSet ==
    ASSUME NEW s, s \in Seq(ToSet(s)), NEW e
    PROVE  /\ Append(s, e) \in Seq(ToSet(Append(s, e)))
           /\ ToSet(Append(s, e)) = ToSet(s) \cup {e}
           /\ Len(Append(s, e)) = Len(s) + 1 /\ Len(s) \in Nat
           /\ \A i \in 1..Len(s) : Append(s, e)[i] = s[i]
<1> DEFINE S == ToSet(s) \cup {e}
<1>1. s \in Seq(S)
  BY SeqMonotonic
<1>2. /\ Append(s, e) \in Seq(S)
      /\ Len(Append(s, e)) = Len(s) + 1
      /\ \A i \in 1..Len(s) : Append(s, e)[i] = s[i]
      /\ Append(s, e)[Len(s) + 1] = e
  <2> HIDE DEF S
  <2>1. e \in S
    BY DEF S
  <2> QED
    BY <1>1, <2>1, AppendProperties
<1>3. Len(s) \in Nat /\ DOMAIN s = 1..Len(s) /\ DOMAIN Append(s, e) = 1..Len(s) + 1
  BY <1>1, <1>2, LenProperties
<1>4. ToSet(Append(s, e)) = S
  <2>1. \A i \in 1..Len(s) + 1 : i \in 1..Len(s) \/ i = Len(s) + 1
    BY <1>3
  <2>2. \A i \in 1..Len(s) : i \in 1..Len(s) + 1
    BY <1>3
  <2>3. Len(s) + 1 \in 1..Len(s) + 1
    BY <1>3
  <2>4. ToSet(Append(s, e)) = {Append(s, e)[i] : i \in 1..Len(s) + 1}
        /\ ToSet(s) = {s[i] : i \in 1..Len(s)}
    BY <1>3 DEF ToSet
  <2> QED
    BY <1>2, <2>1, <2>2, <2>3, <2>4
<1> QED
  BY <1>2, <1>3, <1>4

LEMMA AddLineStep ==
    ASSUME FilesInv, NEW line, AddLine(line), IsLine(line)
    PROVE  FilesInv'
<1>1. /\ dayFile' = Append(dayFile, line) /\ entry # NoEntry
      /\ UNCHANGED <<construction, claims, entry, proofs>>
  BY DEF AddLine
<1>2. /\ dayFile' \in Seq(ToSet(dayFile'))
      /\ ToSet(dayFile') = ToSet(dayFile) \cup {line}
  BY <1>1, AppendToSet DEF FilesInv
<1> QED
  BY <1>1, <1>2 DEF FilesInv, IsLine, EntryOver, BatchLeaves, OwnProofs, IsProofOf, ProofAt

LEMMA AnchorStep ==
    ASSUME FilesInv, Anchor
    PROVE  FilesInv'
<1>1. /\ entry = NoEntry /\ Cardinality(Subjects) = 1
      /\ UNCHANGED <<construction, claims, dayFile>>
  BY DEF Anchor
<1>2. claims \in Seq(Files) /\ claims # <<>>
  <2>1. ASSUME claims = <<>> PROVE FALSE
    <3>1. Subjects = {}
      BY <2>1 DEF Subjects
    <3> QED
      BY <1>1, <3>1, FS_EmptySet
  <2> QED
    BY <2>1 DEF FilesInv
<1>3. Leaves = BatchLeaves(claims) /\ IsLevel(Leaves)
      /\ Len(claims) \in Nat \ {0} /\ DOMAIN claims = 1..Len(claims)
  BY <1>2, BatchLeavesAreLevel DEF Leaves, BatchLeaves
<1>4. entry'.root = Root(Leaves) /\ entry'.count = Len(claims)
      /\ entry'.canonicalization = construction
      /\ entry'.subject = CHOOSE s \in Subjects : TRUE
  BY DEF Anchor
<1>5. \A i \in DOMAIN claims : entry'.subject = SubjectOf[claims[i].content]
  <2>1. IsFiniteSet(Subjects)
    <3> DEFINE f == [i \in DOMAIN claims |-> SubjectOf[claims[i].content]]
    <3>1. IsFiniteSet(DOMAIN claims)
      BY <1>3, FS_Interval
    <3>2. f \in Surjection(DOMAIN claims, Subjects)
      BY DEF Subjects, Surjection
    <3> QED
      BY <3>1, <3>2, FS_Surjection
  <2>2. PICK s : Subjects = {s}
    BY <1>1, <2>1, FS_Singleton
  <2>3. \A i \in DOMAIN claims : SubjectOf[claims[i].content] \in Subjects
    BY DEF Subjects
  <2> QED
    BY <1>4, <2>2, <2>3
<1>6. EntryOver(entry, claims)'
  <2>1. ConstructionOf(entry') = construction
    BY <1>4 DEF FilesInv, ConstructionOf, Constructions, Vintage, Absent
  <2> QED
    BY <1>1, <1>2, <1>3, <1>4, <1>5, <2>1 DEF EntryOver, BatchLeaves
<1>7. entry' # NoEntry
  <2>1. NoEntry.count = 0
    BY DEF NoEntry
  <2> QED
    BY <1>3, <1>4, <2>1
<1>8. ASSUME NEW s \in Stems
      PROVE  IF \E i \in DOMAIN claims : claims[i].stem = s
             THEN \E i \in DOMAIN claims : /\ IsLastOf(claims, s, i)
                                           /\ proofs'[s] = ProofAt(claims, i - 1)
             ELSE proofs'[s] = NoProof
  <2>1. CASE \E i \in DOMAIN claims : claims[i].stem = s
    <3> DEFINE last == CHOOSE i \in DOMAIN claims : IsLastOf(claims, s, i)
    <3>1. proofs'[s] = [index |-> last - 1, path |-> AuditPath(Leaves, last - 1)]
      BY <2>1 DEF Anchor, IsLastOf
    <3>2. last \in DOMAIN claims /\ IsLastOf(claims, s, last)
      BY <1>2, <2>1, LastOfStem
    <3> HIDE DEF last
    <3> QED
      BY <1>3, <2>1, <3>1, <3>2 DEF ProofAt
  <2>2. CASE ~\E i \in DOMAIN claims : claims[i].stem = s
    <3>1. proofs'[s] = proofs[s]
      BY <2>2 DEF Anchor
    <3> QED
      BY <1>1, <2>2, <3>1 DEF FilesInv
  <2> QED
    BY <2>1, <2>2
<1>9. OwnProofs'
  <2>1. ASSUME NEW s \in Stems, proofs'[s] # NoProof PROVE IsProofOf(proofs'[s], claims)
    <3>1. PICK i \in DOMAIN claims : proofs'[s] = ProofAt(claims, i - 1)
      BY <1>8, <2>1
    <3>2. i - 1 \in 0..Len(claims) - 1
      BY <1>3
    <3> QED
      BY <3>1, <3>2 DEF IsProofOf
  <2>2. ASSUME NEW i \in DOMAIN claims, IsLastOf(claims, claims[i].stem, i)
        PROVE  proofs'[claims[i].stem] = ProofAt(claims, i - 1)
    <3> DEFINE s == claims[i].stem
    <3>1. s \in Stems
      <4>1. claims[i] \in Files
        BY <1>2, <1>3, ElementOfSeq
      <4> QED
        BY <4>1 DEF Stems
    <3>2. PICK j \in DOMAIN claims : /\ IsLastOf(claims, s, j)
                                     /\ proofs'[s] = ProofAt(claims, j - 1)
      BY <1>8, <3>1
    <3>3. j <= i /\ i <= j
      BY <2>2, <3>2 DEF IsLastOf
    <3>4. i = j
      BY <1>3, <3>3
    <3> QED
      BY <3>2, <3>4
  <2> QED
    BY <1>1, <2>1, <2>2 DEF OwnProofs, IsProofOf, ProofAt, BatchLeaves
<1> QED
  BY <1>1, <1>2, <1>6, <1>7, <1>9 DEF FilesInv, IsLine, EntryOver, BatchLeaves

LEMMA FilesStutter ==
    ASSUME FilesInv, UNCHANGED vars
    PROVE  FilesInv'
BY DEF FilesInv, IsLine, EntryOver, BatchLeaves, OwnProofs, IsProofOf, ProofAt, vars

LEMMA FilesStep ==
    ASSUME FilesInv, [Next]_vars
    PROVE  FilesInv'
<1>1. ASSUME NEW f \in Files, ReadClaim(f) PROVE FilesInv'
  <2>1. /\ entry = NoEntry /\ claims' = Append(claims, f)
        /\ UNCHANGED <<construction, entry, proofs, dayFile>>
    BY <1>1 DEF ReadClaim
  <2>2. claims' \in Seq(Files)
    BY <2>1, AppendProperties DEF FilesInv
  <2> QED
    BY <2>1, <2>2 DEF FilesInv, IsLine, EntryOver, BatchLeaves
<1>2. CASE Anchor
  BY <1>2, AnchorStep
<1>3. CASE RefuseMixed
  BY <1>3, FilesStutter DEF RefuseMixed
<1>4. ASSUME NEW p \in Producers, Publish(p) PROVE FilesInv'
  <2> DEFINE line == [entry |-> entry, producer |-> p, id |-> OwnId, batch |-> claims]
  <2>1. AddLine(line) /\ entry # NoEntry
    BY <1>4 DEF Publish, AddLine
  <2>2. IsLine(line)
    BY <2>1 DEF FilesInv, IsLine
  <2> HIDE DEF line
  <2> QED
    BY <2>1, <2>2, AddLineStep
<1>5. ASSUME NEW f \in Others, NEW p \in Producers, NEW id \in Ids, OthersPublish(f, p, id)
      PROVE  FilesInv'
  <2> DEFINE e == [root |-> Root(<<LeafHash(ClaimBytes(f, construction))>>), count |-> 1,
                   canonicalization |-> construction, subject |-> SubjectOf[f.content]]
             line == [entry |-> e, producer |-> p, id |-> id, batch |-> <<f>>]
  <2>1. AddLine(line)
    BY <1>5 DEF OthersPublish
  <2>2. EntryOver(e, <<f>>)
    <3>1. <<f>> \in Seq(Files) /\ <<f>> # <<>> /\ Len(<<f>>) = 1
      BY PublishAssumption
    <3>2. BatchLeaves(<<f>>) = <<LeafHash(ClaimBytes(f, construction))>>
      BY DEF BatchLeaves
    <3>3. ConstructionOf(e) = construction
      BY DEF FilesInv, ConstructionOf, Constructions, Vintage, Absent
    <3>4. \A i \in DOMAIN <<f>> : e.subject = SubjectOf[<<f>>[i].content]
      OBVIOUS
    <3> QED
      BY <3>1, <3>2, <3>3, <3>4 DEF EntryOver
  <2>3. IsLine(line)
    <3> HIDE DEF e
    <3> QED
      BY <2>2 DEF IsLine
  <2> HIDE DEF line
  <2> QED
    BY <2>1, <2>3, AddLineStep
<1>6. CASE UNCHANGED vars
  BY <1>6, FilesStutter
<1> QED
  BY <1>1, <1>2, <1>3, <1>4, <1>5, <1>6 DEF Next

\* The proof file of every claim that no later one of its stem follows verifies that
\* claim against the printed entry, in batches of any size: the path build_tree
\* gives a leaf is the one verify_inclusion, which sees no tree, expects.
THEOREM ProofFilesAreGood == Spec => []ProofFilesVerify
<1>1. ASSUME FilesInv PROVE ProofFilesVerify
  <2> SUFFICES ASSUME entry # NoEntry, NEW i \in DOMAIN claims,
                      \A j \in DOMAIN claims : claims[j].stem = claims[i].stem => j <= i
               PROVE  Included(claims[i], SubjectOf[claims[i].content],
                               proofs[claims[i].stem], entry)
    BY DEF ProofFilesVerify, Printed
  <2>1. EntryOver(entry, claims) /\ OwnProofs /\ construction \in Constructions
    BY <1>1 DEF FilesInv
  <2>2. Len(claims) \in Nat \ {0} /\ DOMAIN claims = 1..Len(claims)
    BY <2>1, BatchLeavesAreLevel DEF EntryOver
  <2> DEFINE proof == proofs[claims[i].stem]
  <2>3. proof = ProofAt(claims, i - 1)
    BY <2>1 DEF OwnProofs, IsLastOf
  <2>4. i - 1 \in 0..Len(claims) - 1 /\ i - 1 + 1 = i
    BY <2>2
  <2>5. IsProofOf(proof, claims) /\ proof.index + 1 = i
    BY <2>3, <2>4 DEF IsProofOf, ProofAt
  <2> HIDE DEF proof
  <2>6. Included(claims[i], SubjectOf[claims[i].content], proof, entry)
    BY <2>1, <2>5, GenuineIsIncluded
  <2> QED
    BY <2>6 DEF proof
<1> QED
  BY <1>1, FilesInit, FilesStep, PTL DEF Spec

-----------------------------------------------------------------------------
(* What was printed.                                                         *)

\* Level by level with promotion gives the root of the tree that RFC 6962 defines by
\* recursion (build_tree), for batches of any size.
THEOREM RootsAreRfc6962 == Spec => []RootIsRfc6962
<1>1. ASSUME FilesInv PROVE RootIsRfc6962
  <2> SUFFICES ASSUME entry # NoEntry PROVE entry.root = TreeHash(Leaves)
    BY DEF RootIsRfc6962, Printed
  <2>1. EntryOver(entry, claims)
    BY <1>1 DEF FilesInv
  <2>2. IsLevel(Leaves) /\ entry.root = Root(Leaves)
    BY <2>1, BatchLeavesAreLevel DEF EntryOver, BatchLeaves, Leaves
  <2>3. 0 < Len(Leaves)
    BY <2>2 DEF IsLevel
  <2> QED
    BY <2>2, <2>3, TreeIsRecursive DEF TreeHash
<1> QED
  BY <1>1, FilesInit, FilesStep, PTL DEF Spec

\* The entry as Anchor printed it.
PrintedOver(s) == [root |-> Root(Leaves), count |-> Len(claims),
                   canonicalization |-> construction, subject |-> s]
EntryInv == entry # NoEntry => \E s : entry = PrintedOver(s)

LEMMA EntryStep ==
    ASSUME EntryInv, [Next]_vars
    PROVE  EntryInv'
<1>1. ASSUME NEW f \in Files, ReadClaim(f) PROVE EntryInv'
  BY <1>1 DEF ReadClaim, EntryInv
<1>2. CASE Anchor
  BY <1>2 DEF Anchor, EntryInv, PrintedOver, Leaves
<1>3. ASSUME NEW line, AddLine(line) PROVE EntryInv'
  BY <1>3 DEF AddLine, EntryInv, PrintedOver, Leaves
<1>4. CASE UNCHANGED vars
  BY <1>4 DEF vars, EntryInv, PrintedOver, Leaves
<1> QED
  BY <1>1, <1>2, <1>3, <1>4 DEF Next, RefuseMixed, Publish, OthersPublish

\* A variant of the entry is over the same tree.
LEMMA VariantFields ==
    ASSUME FilesInv, EntryInv, entry # NoEntry, NEW e \in EntryVariants
    PROVE  /\ e.root = Root(BatchLeaves(claims)) /\ e.count = Len(claims)
           /\ e.canonicalization = "jcs" \/ ConstructionOf(e) = construction
           /\ e.subject \in {Absent, entry.subject}
<1>1. PICK s : entry = PrintedOver(s)
  BY DEF EntryInv
<1> DEFINE r == Root(Leaves)
           n == Len(claims)
           of(c, t) == [root |-> r, count |-> n, canonicalization |-> c, subject |-> t]
<1>2. entry = of(construction, s) /\ entry.subject = s
  BY <1>1 DEF PrintedOver
<1>3. r = Root(BatchLeaves(claims))
  BY DEF Leaves, BatchLeaves
<1> HIDE DEF r, n
<1>4. /\ [entry EXCEPT !.subject = Absent] = of(construction, Absent)
      /\ [entry EXCEPT !.canonicalization = "jcs"] = of("jcs", s)
      /\ [entry EXCEPT !.subject = Absent, !.canonicalization = Absent] = of(Absent, Absent)
  <2>1. [entry EXCEPT !.subject = Absent] = of(construction, Absent)
    BY <1>2
  <2>2. [entry EXCEPT !.canonicalization = "jcs"] = of("jcs", s)
    BY <1>2
  <2>3. [entry EXCEPT !.subject = Absent, !.canonicalization = Absent] = of(Absent, Absent)
    <3>1. [entry EXCEPT !.subject = Absent, !.canonicalization = Absent]
             = [[entry EXCEPT !.subject = Absent] EXCEPT !.canonicalization = Absent]
      OBVIOUS
    <3>2. [of(construction, Absent) EXCEPT !.canonicalization = Absent] = of(Absent, Absent)
      OBVIOUS
    <3> QED
      BY <2>1, <3>1, <3>2
  <2> QED
    BY <2>1, <2>2, <2>3
<1>5. PICK c, t : /\ e = of(c, t) /\ t \in {Absent, s}
                  /\ c = "jcs" \/ c = construction \/ (c = Absent /\ construction = Vintage)
  BY <1>2, <1>4 DEF EntryVariants
<1>6. construction # Absent
  BY DEF FilesInv, Constructions, Absent
<1>7. e.root = r /\ e.count = n /\ e.canonicalization = c /\ e.subject = t
  BY <1>5
<1> QED
  BY <1>2, <1>3, <1>5, <1>6, <1>7 DEF ConstructionOf, n

IsSequence(s) == \E S : s \in Seq(S)

LEMMA VariantIsSequence ==
    ASSUME NEW p, IsSequence(p), NEW e
    PROVE  IsSequence(Append(p, e)) /\ (p # <<>> => IsSequence(Front(p)))
<1>1. PICK S : p \in Seq(S)
  BY DEF IsSequence
<1>2. IsSequence(Append(p, e))
  <2>1. p \in Seq(S \cup {e})
    BY <1>1, SeqMonotonic
  <2>2. Append(p, e) \in Seq(S \cup {e})
    BY <2>1, AppendProperties
  <2> QED
    BY <2>2 DEF IsSequence
<1>3. ASSUME p # <<>> PROVE IsSequence(Front(p))
  <2>1. Len(p) \in Nat /\ \A i \in 1..Len(p) - 1 : p[i] \in S
    BY <1>1, ElementOfSeq, LenProperties
  <2>2. SubSeq(p, 1, Len(p) - 1) \in Seq(S)
    BY <2>1, SubSeqProperties
  <2> QED
    BY <2>2 DEF Front, IsSequence
<1> QED
  BY <1>2, <1>3

LEMMA AuditPathIsSequence ==
    ASSUME NEW leaves, IsLevel(leaves), NEW index
    PROVE  IsSequence(AuditPath(leaves, index))
<1> DEFINE path == AuditPath(leaves, index)
           S == {path[k] : k \in 1..Len(path)}
<1>1. Len(path) \in Nat /\ path = [k \in 1..Len(path) |-> path[k]]
  BY AuditPathHasLength
<1> HIDE DEF path
<1>2. path \in [1..Len(path) -> S]
  BY <1>1
<1> HIDE DEF S
<1>3. path \in Seq(S)
  BY <1>1, <1>2
<1> QED
  BY <1>3 DEF IsSequence, path

\* The verdict is exact in batches of any size: verify_inclusion, which sees no tree,
\* accepts a file at an index with a path exactly if the leaf there is built from that
\* file and the path is the RFC 6962 one.  Subject and construction turn away nothing
\* that the tree includes, and nothing passes under a construction no leaf has.
THEOREM VerdictsAreExact == Spec => []VerdictIsExact
<1>1. ASSUME FilesInv, EntryInv PROVE VerdictIsExact
  <2> DEFINE leaves == BatchLeaves(claims)
             n == Len(claims)
             Right(f, i, p, e) == /\ i < n
                                  /\ e.canonicalization # "jcs"
                                  /\ ClaimBytes(f, construction) = ClaimBytes(claims[i + 1], construction)
                                  /\ p = TreePath(leaves, i)
  <2> SUFFICES ASSUME entry # NoEntry,
                      NEW f \in Files, NEW i \in 0..n, NEW p \in PathVariants, NEW e \in EntryVariants
               PROVE  Included(f, SubjectOf[f.content], [index |-> i, path |-> p], e)
                         <=> Right(f, i, p, e)
    BY DEF VerdictIsExact, Printed, Leaves, BatchLeaves
  <2> DEFINE proof == [index |-> i, path |-> p]
             bytes == ClaimBytes(f, construction)
  <2>1. EntryOver(entry, claims) /\ construction \in Constructions
    BY <1>1 DEF FilesInv
  <2>2. /\ IsLevel(leaves) /\ Len(leaves) = n /\ DOMAIN leaves = DOMAIN claims
        /\ n \in Nat \ {0} /\ DOMAIN claims = 1..n
    BY <2>1, BatchLeavesAreLevel DEF EntryOver
  <2>3. /\ e.root = Root(leaves) /\ e.count = n
        /\ e.canonicalization = "jcs" \/ ConstructionOf(e) = construction
        /\ e.subject \in {Absent, entry.subject}
    BY <1>1, VariantFields
  <2> HIDE DEF n, leaves
  <2>4. \A k \in Nat : k < n => TreePath(leaves, k) = AuditPath(leaves, k)
    BY <2>2, TreeIsRecursive DEF TreePath
  <2>5. IsSequence(p)
    <3> DEFINE paths == {TreePath(Leaves, k) : k \in 0..Len(claims) - 1}
    <3>1. \A q \in paths : IsSequence(q)
      <4>1. ASSUME NEW k \in 0..n - 1 PROVE IsSequence(TreePath(leaves, k))
        BY <2>2, <2>4, AuditPathIsSequence
      <4> QED
        BY <4>1 DEF leaves, n, Leaves, BatchLeaves
    <3>2. \/ p \in paths
          \/ \E q \in paths : p = Append(q, entry.root)
          \/ \E q \in paths \ {<<>>} : p = Front(q)
      BY DEF PathVariants
    <3> HIDE DEF paths
    <3> QED
      BY <3>1, <3>2, VariantIsSequence
  <2>6. ASSUME Included(f, SubjectOf[f.content], proof, e) PROVE Right(f, i, p, e)
    <3>1. Resolved(SubjectOf[f.content], e)
          /\ VerifyInclusion(ClaimBytes(f, ConstructionOf(e)), i, p, n, Root(leaves))
      BY <2>3, <2>6 DEF Included
    <3>2. e.canonicalization # "jcs"
      BY <3>1 DEF Resolved, ConstructionOf, Constructions, Absent, Vintage
    <3>3. VerifyInclusion(bytes, i, p, n, Root(leaves)) /\ i < n /\ i \in Nat
      BY <2>3, <3>1, <3>2 DEF VerifyInclusion
    <3>4. PICK P : p \in Seq(P)
      BY <2>5 DEF IsSequence
    <3> HIDE DEF bytes
    <3>5. leaves[i + 1] = LeafHash(bytes)
      BY <2>2, <3>3, <3>4, InclusionIsSound, LenProperties
    <3>6. ClaimBytes(claims[i + 1], construction) = bytes
      <4>1. leaves[i + 1] = LeafHash(ClaimBytes(claims[i + 1], construction))
        BY <2>2, <3>3 DEF leaves, BatchLeaves
      <4>2. <<ClaimBytes(claims[i + 1], construction)>> = <<bytes>>
        BY <3>5, <4>1 DEF LeafHash
      <4> QED
        BY <4>2
    <3>7. VerifyInclusion(bytes, i, AuditPath(leaves, i), n, Root(leaves))
      BY <2>2, <3>3, <3>5, InclusionIsComplete
    <3>8. PICK Q : AuditPath(leaves, i) \in Seq(Q)
      BY <2>2, AuditPathIsSequence DEF IsSequence
    <3>9. p = AuditPath(leaves, i)
      BY <3>3, <3>4, <3>7, <3>8, PathIsUnique
    <3> QED
      BY <2>4, <3>2, <3>3, <3>6, <3>9 DEF bytes
  <2>7. ASSUME Right(f, i, p, e) PROVE Included(f, SubjectOf[f.content], proof, e)
    <3>1. i < n /\ i \in Nat /\ i + 1 \in 1..n /\ ConstructionOf(e) = construction
      BY <2>2, <2>3, <2>7
    <3>2. SubjectOf[f.content] = entry.subject
      <4>1. f.content = claims[i + 1].content
        <5>1. ClaimBytes(f, construction).content = f.content
              /\ ClaimBytes(claims[i + 1], construction).content = claims[i + 1].content
          BY DEF ClaimBytes
        <5> QED
          BY <2>7, <5>1
      <4> QED
        BY <2>1, <2>2, <3>1, <4>1 DEF EntryOver
    <3>3. Resolved(SubjectOf[f.content], e)
      BY <2>1, <2>3, <3>1, <3>2 DEF Resolved
    <3>4. leaves[i + 1] = LeafHash(bytes)
      BY <2>2, <2>7, <3>1 DEF leaves, BatchLeaves
    <3>5. p = AuditPath(leaves, i)
      BY <2>4, <2>7, <3>1
    <3> HIDE DEF bytes
    <3>6. VerifyInclusion(bytes, i, p, n, Root(leaves))
      BY <2>2, <3>1, <3>4, <3>5, InclusionIsComplete
    <3> QED
      BY <2>3, <3>1, <3>3, <3>6 DEF Included, bytes
  <2> QED
    BY <2>6, <2>7
<1>2. Init => EntryInv
  BY DEF Init, EntryInv
<1> QED
  BY <1>1, <1>2, FilesInit, FilesStep, EntryStep, PTL DEF Spec

-----------------------------------------------------------------------------
(* The reader, who takes the day file first and one key after it.            *)

Matching == {j \in DOMAIN dayFile : reader.id \in {Absent, dayFile[j].id}}

KeyRead ==
    \E k \in 1..keys[reader.line.producer] : Signed(reader.file, k, reader.line.producer)

Started ==
    /\ dayFile # <<>> /\ reader.since \in 0..Len(dayFile)
    /\ IsProofOf(reader.proof, claims)

KeyPending ==
    /\ reader.line \in ToSet(dayFile)
    /\ ~reader.skip
    /\ ProducersAgree(reader.file, reader.line)
    /\ \A i \in 1..reader.since : i \in Matching => dayFile[i] = reader.line

Earned ==
    /\ reader.line \in ToSet(dayFile)
    /\ Among(reader.file, reader.proof, reader.line.batch)
    /\ reader.skip \/ KeyRead

\* Line i is that of the retained file, and of the producer whose first key,
\* still the active one, signed it.
Wanted(i) ==
    /\ i \in Matching
    /\ dayFile[i].batch = claims
    /\ reader.file = claims[reader.proof.index + 1]
    /\ NamedIn[reader.file.content] \in {Absent, dayFile[i].producer}
    /\ keys[dayFile[i].producer] = 1
    /\ Signed(reader.file, 1, dayFile[i].producer)

Answered(i) == reader.exit = 0 \/ (reader.exit = 2 /\ Matching # {i})
WantedAnswered == \A i \in 1..reader.since : Wanted(i) => Answered(i)

ReaderInv ==
    /\ keys \in [Producers -> Nat \ {0}]
    /\ DOMAIN reader = DOMAIN NoReader
    /\ reader.stage # "none" => Started
    /\ reader.stage = "key" => KeyPending
    /\ reader.stage = "done" /\ reader.exit = 0 => Earned
    /\ reader.stage = "done" => WantedAnswered

VerifyInv == FilesInv /\ ReaderInv

LEMMA VerifyInit == ReaderInit => VerifyInv
<1> SUFFICES ASSUME ReaderInit PROVE VerifyInv
  OBVIOUS
<1>1. FilesInv
  BY FilesInit DEF ReaderInit
<1>2. keys = [p \in Producers |-> 1] /\ reader = NoReader
  BY DEF ReaderInit
<1>3. keys \in [Producers -> Nat \ {0}]
  BY <1>2
<1>4. NoReader.stage = "none"
  BY DEF NoReader
<1> QED
  BY <1>1, <1>2, <1>3, <1>4 DEF VerifyInv, ReaderInv

\* The published lines, and the batch that is in them.
LEMMA PublishedFacts ==
    ASSUME FilesInv
    PROVE  /\ Len(dayFile) \in Nat /\ DOMAIN dayFile = 1..Len(dayFile)
           /\ \A i \in DOMAIN dayFile : dayFile[i] \in ToSet(dayFile) /\ IsLine(dayFile[i])
           /\ \A line \in ToSet(dayFile) : IsLine(line) /\ \E i \in DOMAIN dayFile : dayFile[i] = line
           /\ dayFile # <<>> => claims \in Seq(Files) /\ claims # <<>>
<1>1. dayFile \in Seq(ToSet(dayFile)) /\ \A line \in ToSet(dayFile) : IsLine(line)
  BY DEF FilesInv
<1>2. Len(dayFile) \in Nat /\ DOMAIN dayFile = 1..Len(dayFile)
  BY <1>1, LenProperties
<1>3. dayFile # <<>> => claims \in Seq(Files) /\ claims # <<>>
  BY DEF FilesInv, EntryOver
<1> QED
  BY <1>1, <1>2, <1>3 DEF ToSet

\* Whatever others do while a reader reads: lines are added, keys replaced.
LEMMA OthersStep ==
    ASSUME VerifyInv, FilesInv', UNCHANGED <<construction, reader>>,
           dayFile # <<>> => claims' = claims,
           \A i \in DOMAIN dayFile : i \in DOMAIN dayFile' /\ dayFile'[i] = dayFile[i],
           keys' \in [Producers -> Nat \ {0}],
           \A p \in Producers : keys[p] <= keys'[p]
    PROVE  VerifyInv'
<1>1. /\ keys \in [Producers -> Nat \ {0}] /\ FilesInv
      /\ reader.stage # "none" => Started
  BY DEF VerifyInv, ReaderInv
<1>2. /\ Len(dayFile) \in Nat /\ DOMAIN dayFile = 1..Len(dayFile)
      /\ \A i \in DOMAIN dayFile : dayFile[i] \in ToSet(dayFile) /\ IsLine(dayFile[i])
      /\ \A line \in ToSet(dayFile) : IsLine(line) /\ \E i \in DOMAIN dayFile : dayFile[i] = line
  BY <1>1, PublishedFacts
<1>3. Len(dayFile') \in Nat /\ DOMAIN dayFile' = 1..Len(dayFile')
  <2>1. dayFile' \in Seq(ToSet(dayFile'))
    BY DEF FilesInv
  <2> QED
    BY <2>1, LenProperties
<1>4. Len(dayFile) <= Len(dayFile')
  <2>1. CASE Len(dayFile) = 0
    BY <1>3, <2>1
  <2>2. CASE Len(dayFile) # 0
    <3>1. Len(dayFile) \in DOMAIN dayFile
      BY <1>2, <2>2
    <3>2. Len(dayFile) \in 1..Len(dayFile')
      BY <1>3, <3>1
    <3> QED
      BY <3>2
  <2> QED
    BY <2>1, <2>2
<1>5. ToSet(dayFile) \subseteq ToSet(dayFile')
  BY <1>2 DEF ToSet
<1>6. ASSUME reader.stage # "none" PROVE Started'
  <2>1. Started /\ claims' = claims
    BY <1>1, <1>6 DEF Started
  <2>2. dayFile' # <<>>
    <3>1. Len(dayFile) # 0
      BY <1>1, <2>1, EmptySeq DEF Started, FilesInv
    <3>2. Len(dayFile') # 0
      BY <1>2, <1>3, <1>4, <3>1
    <3> QED
      BY <3>2
  <2>3. reader.since \in 0..Len(dayFile')
    BY <1>2, <1>3, <1>4, <2>1 DEF Started
  <2> QED
    BY <2>1, <2>2, <2>3 DEF Started, IsProofOf, ProofAt, BatchLeaves
<1>7. ASSUME Started
      PROVE  \A i \in 1..reader.since : i \in DOMAIN dayFile /\ (i \in Matching' <=> i \in Matching)
  <2>1. \A i \in 1..reader.since : i \in DOMAIN dayFile
    BY <1>2, <1>7 DEF Started
  <2> QED
    BY <2>1 DEF Matching
<1>8. Matching \subseteq Matching'
  BY DEF Matching
<1>9. ASSUME reader.stage = "key", KeyPending PROVE KeyPending'
  <2>1. Started
    BY <1>1, <1>9
  <2>2. \A i \in 1..reader.since : i \in Matching' => dayFile'[i] = reader.line
    BY <1>7, <1>9, <2>1 DEF KeyPending
  <2> QED
    BY <1>5, <1>9, <2>2 DEF KeyPending, ProducersAgree
<1>10. ASSUME Earned PROVE Earned'
  <2>1. reader.line \in ToSet(dayFile) /\ reader.line.producer \in Producers
    BY <1>2, <1>10 DEF Earned, IsLine
  <2>2. KeyRead => KeyRead'
    <3> DEFINE p == reader.line.producer
    <3>1. keys[p] \in Nat /\ keys'[p] \in Nat /\ keys[p] <= keys'[p]
      BY <1>1, <2>1
    <3>2. 1..keys[p] \subseteq 1..keys'[p]
      BY <3>1
    <3> QED
      BY <3>2 DEF KeyRead
  <2> QED
    BY <1>5, <1>10, <2>1, <2>2 DEF Earned, Among
<1>11. ASSUME reader.stage = "done", WantedAnswered PROVE WantedAnswered'
  <2> SUFFICES ASSUME NEW i \in 1..reader.since, Wanted(i)' PROVE Answered(i)'
    BY DEF WantedAnswered
  <2>1. Started /\ claims' = claims
    BY <1>1, <1>11 DEF Started
  <2>2. i \in DOMAIN dayFile /\ i \in Matching /\ dayFile'[i] = dayFile[i]
    BY <1>7, <2>1 DEF Wanted
  <2>3. keys[dayFile[i].producer] = 1
    <3> DEFINE p == dayFile[i].producer
    <3>1. p \in Producers
      BY <1>2, <2>2 DEF IsLine
    <3>2. keys[p] \in Nat \ {0} /\ keys[p] <= keys'[p] /\ keys'[p] = 1
      BY <1>1, <2>2, <3>1 DEF Wanted
    <3> QED
      BY <3>2
  <2>4. Wanted(i)
    BY <2>1, <2>2, <2>3 DEF Wanted
  <2>5. Answered(i)
    BY <1>11, <2>4 DEF WantedAnswered
  <2>6. Matching # {i} => Matching' # {i}
    BY <1>8, <2>2
  <2> QED
    BY <2>5, <2>6 DEF Answered
<1>12. ReaderInv'
  BY <1>6, <1>9, <1>10, <1>11 DEF VerifyInv, ReaderInv
<1> QED
  BY <1>12 DEF VerifyInv

LEMMA LinesStay ==
    ASSUME FilesInv, [Next]_vars
    PROVE  /\ UNCHANGED construction
           /\ dayFile # <<>> => claims' = claims
           /\ \A i \in DOMAIN dayFile : i \in DOMAIN dayFile' /\ dayFile'[i] = dayFile[i]
<1> DEFINE Stay == /\ UNCHANGED construction
                   /\ dayFile # <<>> => claims' = claims
                   /\ \A i \in DOMAIN dayFile : i \in DOMAIN dayFile' /\ dayFile'[i] = dayFile[i]
<1>1. ASSUME NEW line, AddLine(line) PROVE Stay
  <2>1. dayFile' = Append(dayFile, line) /\ UNCHANGED <<construction, claims>>
    BY <1>1 DEF AddLine
  <2>2. /\ Len(dayFile) \in Nat /\ DOMAIN dayFile = 1..Len(dayFile)
        /\ Len(dayFile') = Len(dayFile) + 1
        /\ \A i \in 1..Len(dayFile) : dayFile'[i] = dayFile[i]
    BY <2>1, AppendToSet, PublishedFacts DEF FilesInv
  <2>3. DOMAIN dayFile' = 1..Len(dayFile) + 1
    <3>1. dayFile' \in Seq(ToSet(dayFile'))
      BY <2>1, AppendToSet DEF FilesInv
    <3> QED
      BY <2>2, <3>1, LenProperties
  <2>4. \A i \in 1..Len(dayFile) : i \in 1..Len(dayFile) + 1
    BY <2>2
  <2> QED
    BY <2>1, <2>2, <2>3, <2>4
<1>2. ASSUME NEW f \in Files, ReadClaim(f) PROVE Stay
  BY <1>2 DEF ReadClaim, FilesInv
<1>3. Anchor => Stay
  BY DEF Anchor
<1>4. RefuseMixed \/ UNCHANGED vars => Stay
  BY DEF RefuseMixed, vars
<1> HIDE DEF Stay
<1>5. Stay
  BY <1>1, <1>2, <1>3, <1>4 DEF Next, Publish, OthersPublish
<1> QED
  BY <1>5 DEF Stay

LEMMA WriterStep ==
    ASSUME VerifyInv, [Next]_vars, UNCHANGED <<keys, reader>>
    PROVE  VerifyInv'
<1>1. FilesInv /\ keys \in [Producers -> Nat \ {0}]
  BY DEF VerifyInv, ReaderInv
<1>2. FilesInv'
  BY <1>1, FilesStep
<1>3. /\ UNCHANGED construction
      /\ dayFile # <<>> => claims' = claims
      /\ \A i \in DOMAIN dayFile : i \in DOMAIN dayFile' /\ dayFile'[i] = dayFile[i]
  BY <1>1, LinesStay
<1>4. keys' \in [Producers -> Nat \ {0}] /\ \A p \in Producers : keys[p] <= keys'[p]
  BY <1>1
<1> QED
  BY <1>2, <1>3, <1>4, OthersStep

LEMMA ChangeKeyStep ==
    ASSUME VerifyInv, NEW p \in Producers, ChangeKey(p)
    PROVE  VerifyInv'
<1>1. keys' = [keys EXCEPT ![p] = @ + 1] /\ UNCHANGED <<vars, reader>>
  BY DEF ChangeKey
<1>2. FilesInv /\ keys \in [Producers -> Nat \ {0}]
  BY DEF VerifyInv, ReaderInv
<1>3. FilesInv'
  BY <1>1, <1>2, FilesStutter
<1>4. keys' \in [Producers -> Nat \ {0}]
  BY <1>1, <1>2
<1>5. \A q \in Producers : keys[q] <= keys'[q]
  BY <1>1, <1>2
<1>6. UNCHANGED <<construction, claims, dayFile>>
  BY <1>1 DEF vars
<1> QED
  BY <1>1, <1>3, <1>4, <1>5, <1>6, OthersStep

-----------------------------------------------------------------------------
(* The reader's own steps.                                                   *)

ReaderFields == {"stage", "since", "skip", "file", "proof", "id", "line", "exit"}

LEMMA ReaderKeeps ==
    ASSUME VerifyInv, UNCHANGED <<vars, keys>>
    PROVE  /\ FilesInv /\ FilesInv'
           /\ keys' \in [Producers -> Nat \ {0}]
           /\ DOMAIN NoReader = ReaderFields /\ DOMAIN reader = ReaderFields
<1>1. FilesInv /\ FilesInv'
  BY FilesStutter DEF VerifyInv
<1>2. keys' \in [Producers -> Nat \ {0}] /\ DOMAIN reader = DOMAIN NoReader
  BY DEF VerifyInv, ReaderInv
<1>3. DOMAIN NoReader = ReaderFields
  BY DEF NoReader, ReaderFields
<1> QED
  BY <1>1, <1>2, <1>3

LEMMA ReaderStart ==
    ASSUME VerifyInv, NEW f \in Files, NEW s \in Stems, NEW id, NEW skip,
           StartReader(f, s, id, skip)
    PROVE  VerifyInv'
<1>1. /\ reader' = [NoReader EXCEPT !.stage = "entry", !.since = Len(dayFile), !.skip = skip,
                                    !.file = f, !.proof = proofs[s], !.id = id]
      /\ UNCHANGED <<vars, keys>> /\ dayFile # <<>> /\ proofs[s] # NoProof
  BY DEF StartReader
<1>2. /\ FilesInv /\ FilesInv' /\ keys' \in [Producers -> Nat \ {0}]
      /\ DOMAIN NoReader = ReaderFields
  BY <1>1, ReaderKeeps
<1>3. /\ reader'.stage = "entry" /\ reader'.proof = proofs[s] /\ reader'.since = Len(dayFile)
      /\ DOMAIN reader' = DOMAIN NoReader
  BY <1>1, <1>2 DEF ReaderFields
<1>4. IsProofOf(proofs[s], claims)
  BY <1>1, <1>2 DEF FilesInv, OwnProofs
<1>5. Len(dayFile) \in 0..Len(dayFile)
  BY <1>2, PublishedFacts
<1>6. Started'
  BY <1>1, <1>3, <1>4, <1>5 DEF Started, IsProofOf, ProofAt, BatchLeaves, vars
<1> QED
  BY <1>2, <1>3, <1>6 DEF VerifyInv, ReaderInv

\* A reader at work has a proof file whose index and path can be replayed.
LEMMA ReaderProof ==
    ASSUME VerifyInv, reader.stage # "none"
    PROVE  /\ Started /\ construction \in Constructions
           /\ claims \in Seq(Files) /\ claims # <<>>
           /\ IsProofOf(reader.proof, claims)
           /\ reader.proof.index \in Nat /\ Len(reader.proof.path) \in Nat
           /\ reader.since \in Nat /\ 1..reader.since \subseteq DOMAIN dayFile
           /\ \A i \in DOMAIN dayFile : dayFile[i] \in ToSet(dayFile) /\ IsLine(dayFile[i])
<1>1. Started /\ FilesInv
  BY DEF VerifyInv, ReaderInv
<1>2. claims \in Seq(Files) /\ claims # <<>> /\ IsProofOf(reader.proof, claims)
  BY <1>1, PublishedFacts DEF Started
<1>3. reader.proof.index \in Nat /\ Len(reader.proof.path) \in Nat
  BY <1>2, ProofFields
<1>4. reader.since \in Nat /\ 1..reader.since \subseteq DOMAIN dayFile
  <2>1. Len(dayFile) \in Nat /\ DOMAIN dayFile = 1..Len(dayFile)
        /\ reader.since \in 0..Len(dayFile)
    BY <1>1, PublishedFacts DEF Started
  <2>2. \A m \in Nat : \A n \in 0..m : n \in Nat /\ 1..n \subseteq 1..m
    OBVIOUS
  <2> QED
    BY <2>1, <2>2
<1> QED
  BY <1>1, <1>2, <1>3, <1>4, PublishedFacts DEF FilesInv

LEMMA IncludedLine ==
    ASSUME VerifyInv, reader.stage # "none", NEW line, IsLine(line), IncludedIn(line)
    PROVE  Among(reader.file, reader.proof, line.batch)
BY ReaderProof, IncludedIsAmong DEF IncludedIn, IsLine

LEMMA WantedIsIncluded ==
    ASSUME VerifyInv, reader.stage # "none", NEW i \in 1..reader.since, Wanted(i)
    PROVE  /\ Resolved(SubjectOf[reader.file.content], dayFile[i].entry)
           /\ IncludedIn(dayFile[i])
           /\ ProducersAgree(reader.file, dayFile[i])
<1>1. IsLine(dayFile[i]) /\ construction \in Constructions /\ IsProofOf(reader.proof, claims)
  BY ReaderProof
<1>2. EntryOver(dayFile[i].entry, claims) /\ reader.file = claims[reader.proof.index + 1]
  BY <1>1 DEF Wanted, IsLine
<1>3. ProducersAgree(reader.file, dayFile[i])
  BY DEF Wanted, ProducersAgree
<1> QED
  BY <1>1, <1>2, <1>3, GenuineIsIncluded DEF IncludedIn

\* What is selected is the one line that matches.
LEMMA SelectedLine ==
    ASSUME FilesInv
    PROVE  /\ \A line \in Selected(dayFile, reader.id) :
                  line \in ToSet(dayFile) /\ \A i \in Matching : dayFile[i] = line
           /\ \A i : Matching = {i} => Selected(dayFile, reader.id) # {}
<1>1. IsFiniteSet(Matching)
  <2>1. IsFiniteSet(DOMAIN dayFile)
    BY PublishedFacts, FS_Interval
  <2> QED
    BY <2>1, FS_Subset DEF Matching
<1>2. Selected(dayFile, reader.id) = IF Cardinality(Matching) = 1
                                     THEN {dayFile[i] : i \in Matching} ELSE {}
  BY DEF Selected, Matching
<1>3. Matching \subseteq DOMAIN dayFile
  BY DEF Matching
<1>4. ASSUME NEW line \in Selected(dayFile, reader.id)
      PROVE  line \in ToSet(dayFile) /\ \A i \in Matching : dayFile[i] = line
  <2>1. Cardinality(Matching) = 1 /\ line \in {dayFile[i] : i \in Matching}
    BY <1>2, <1>4
  <2>2. PICK j : Matching = {j}
    BY <1>1, <2>1, FS_Singleton
  <2>3. line = dayFile[j] /\ j \in DOMAIN dayFile
    BY <1>3, <2>1, <2>2
  <2> QED
    BY <2>2, <2>3 DEF ToSet
<1>5. ASSUME NEW i, Matching = {i} PROVE Selected(dayFile, reader.id) # {}
  <2>1. Cardinality(Matching) = 1
    BY <1>1, <1>5, FS_Singleton
  <2>2. dayFile[i] \in Selected(dayFile, reader.id)
    BY <1>2, <1>5, <2>1
  <2> QED
    BY <2>2
<1> QED
  BY <1>4, <1>5

LEMMA NoEntryStep ==
    ASSUME VerifyInv, NoEntrySelected
    PROVE  VerifyInv'
<1>1. /\ reader' = [reader EXCEPT !.stage = "done", !.exit = 2]
      /\ UNCHANGED <<vars, keys>> /\ reader.stage = "entry"
      /\ Selected(dayFile, reader.id) = {}
  BY DEF NoEntrySelected, Exit
<1>2. /\ FilesInv /\ FilesInv' /\ keys' \in [Producers -> Nat \ {0}]
      /\ DOMAIN NoReader = ReaderFields /\ DOMAIN reader = ReaderFields
  BY <1>1, ReaderKeeps
<1>3. /\ reader'.stage = "done" /\ reader'.exit = 2 /\ DOMAIN reader' = DOMAIN NoReader
      /\ reader'.proof = reader.proof /\ reader'.since = reader.since /\ reader'.id = reader.id
  BY <1>1, <1>2 DEF ReaderFields
<1>4. UNCHANGED <<construction, claims, dayFile>>
  BY <1>1 DEF vars
<1>5. Started
  BY <1>1, ReaderProof
<1>6. Started'
  BY <1>3, <1>4, <1>5 DEF Started, IsProofOf, ProofAt, BatchLeaves
<1>7. Matching' = Matching /\ \A i : Matching # {i}
  BY <1>1, <1>2, <1>3, <1>4, SelectedLine DEF Matching
<1>8. WantedAnswered'
  BY <1>3, <1>7 DEF WantedAnswered, Answered
<1> QED
  BY <1>2, <1>3, <1>6, <1>8 DEF VerifyInv, ReaderInv

LEMMA ReadEntryStep ==
    ASSUME VerifyInv, ReadEntry
    PROVE  VerifyInv'
<1>1. PICK line \in Selected(dayFile, reader.id) :
          LET next == [reader EXCEPT !.line = line]
              proceeds == /\ Resolved(SubjectOf[reader.file.content], line.entry)
                          /\ ~reader.skip
                          /\ ProducersAgree(reader.file, line)
          IN  reader' = IF proceeds THEN [next EXCEPT !.stage = "key"]
                        ELSE [next EXCEPT !.stage = "done",
                                          !.exit = IF reader.skip /\ IncludedIn(line) THEN 0 ELSE 1]
  BY DEF ReadEntry
<1>2. UNCHANGED <<vars, keys>> /\ reader.stage = "entry"
  BY DEF ReadEntry
<1>3. /\ FilesInv /\ FilesInv' /\ keys' \in [Producers -> Nat \ {0}]
      /\ DOMAIN NoReader = ReaderFields /\ DOMAIN reader = ReaderFields
  BY <1>2, ReaderKeeps
<1>4. UNCHANGED <<construction, claims, dayFile>>
  BY <1>2 DEF vars
<1> DEFINE fits == Resolved(SubjectOf[reader.file.content], line.entry)
<1>5. /\ reader'.line = line /\ DOMAIN reader' = DOMAIN NoReader
      /\ UNCHANGED <<reader.file, reader.proof, reader.skip, reader.since, reader.id>>
      /\ \/ reader'.stage = "key" /\ ~reader.skip /\ ProducersAgree(reader.file, line)
         \/ /\ reader'.stage = "done"
            /\ ~fits \/ reader.skip \/ ~ProducersAgree(reader.file, line)
            /\ reader'.exit = IF reader.skip /\ IncludedIn(line) THEN 0 ELSE 1
  <2> HIDE DEF fits
  <2> QED
    BY <1>1, <1>3 DEF ReaderFields, fits
<1>6. line \in ToSet(dayFile) /\ \A i \in Matching : dayFile[i] = line
  BY <1>3, SelectedLine
<1>7. IsLine(line)
  BY <1>3, <1>6, PublishedFacts
<1>8. Started
  BY <1>2, ReaderProof
<1>9. Started' /\ Matching' = Matching
  BY <1>4, <1>5, <1>8 DEF Started, IsProofOf, ProofAt, BatchLeaves, Matching
<1>10. ASSUME reader'.stage = "key" PROVE KeyPending'
  <2>1. ~reader.skip /\ ProducersAgree(reader.file, line)
    BY <1>5, <1>10
  <2> QED
    BY <1>4, <1>5, <1>6, <1>9, <2>1 DEF KeyPending, ProducersAgree
<1>11. ASSUME reader'.stage = "done", reader'.exit = 0 PROVE Earned'
  <2>1. reader.skip /\ IncludedIn(line)
    BY <1>5, <1>11
  <2>2. Among(reader.file, reader.proof, line.batch)
    BY <1>2, <1>7, <2>1, IncludedLine
  <2> QED
    BY <1>4, <1>5, <1>6, <2>1, <2>2 DEF Earned, Among
<1>12. ASSUME reader'.stage = "done" PROVE WantedAnswered'
  <2> SUFFICES ASSUME NEW i \in 1..reader'.since, Wanted(i)' PROVE reader'.exit = 0
    BY DEF WantedAnswered, Answered
  <2>1. i \in 1..reader.since /\ Wanted(i)
    BY <1>2, <1>4, <1>5, <1>9 DEF Wanted
  <2>2. dayFile[i] = line
    BY <1>6, <2>1 DEF Wanted
  <2>3. fits /\ IncludedIn(line) /\ ProducersAgree(reader.file, line)
    BY <1>2, <2>1, <2>2, WantedIsIncluded
  <2> HIDE DEF fits
  <2> QED
    BY <1>5, <1>12, <2>3
<1>13. ReaderInv'
  BY <1>3, <1>5, <1>9, <1>10, <1>11, <1>12 DEF ReaderInv
<1> QED
  BY <1>3, <1>13 DEF VerifyInv

LEMMA ReadKeyStep ==
    ASSUME VerifyInv, ReadKey
    PROVE  VerifyInv'
<1> DEFINE line == reader.line
           producer == ProducerOf(reader.file, line)
           key == ActiveKey(producer)
           passes == key = SignedWith[reader.file.content] /\ IncludedIn(line)
<1>1. /\ reader.stage = "key" /\ UNCHANGED <<vars, keys>>
      /\ \E code \in IF key = Absent THEN {1, 2} ELSE IF passes THEN {0} ELSE {1} : Exit(code)
  BY DEF ReadKey
<1>2. /\ FilesInv /\ FilesInv' /\ keys' \in [Producers -> Nat \ {0}]
      /\ DOMAIN NoReader = ReaderFields /\ DOMAIN reader = ReaderFields
  BY <1>1, ReaderKeeps
<1>3. UNCHANGED <<construction, claims, dayFile>> /\ keys' = keys
  BY <1>1 DEF vars
<1>4. KeyPending
  BY <1>1 DEF VerifyInv, ReaderInv
<1>5. line \in ToSet(dayFile) /\ IsLine(line) /\ keys \in [Producers -> Nat \ {0}]
  BY <1>2, <1>3, <1>4, PublishedFacts DEF KeyPending
<1>6. producer = line.producer /\ line.producer \in Producers
  BY <1>4, <1>5 DEF KeyPending, ProducersAgree, ProducerOf, IsLine
<1>7. PICK code \in {0, 1, 2} : /\ Exit(code)
                                /\ code = 0 => key # Absent /\ passes
                                /\ key # Absent /\ passes => code = 0
  BY <1>1
<1>8. /\ reader'.stage = "done" /\ reader'.exit = code /\ DOMAIN reader' = DOMAIN NoReader
      /\ UNCHANGED <<reader.line, reader.file, reader.proof, reader.skip, reader.since, reader.id>>
  BY <1>2, <1>7 DEF Exit, ReaderFields
<1>9. Started
  BY <1>1, ReaderProof
<1>10. Started' /\ Matching' = Matching
  BY <1>3, <1>8, <1>9 DEF Started, IsProofOf, ProofAt, BatchLeaves, Matching
<1>11. KeysOf[line.producer] \in Seq(ToSet(KeysOf[line.producer]))
       /\ Absent \notin ToSet(KeysOf[line.producer])
  BY <1>6, KeysAssumption
<1>12. ASSUME code = 0 PROVE Earned'
  <2> DEFINE p == line.producer
             k == keys[p]
  <2>1. key # Absent /\ key = SignedWith[reader.file.content] /\ IncludedIn(line)
    BY <1>7, <1>12
  <2>2. Among(reader.file, reader.proof, line.batch)
    BY <1>1, <1>5, <2>1, IncludedLine
  <2>3. k \in Nat \ {0} /\ k <= Len(KeysOf[p]) /\ key = KeysOf[p][k]
    BY <1>5, <1>6, <2>1 DEF ActiveKey
  <2>4. k \in DOMAIN KeysOf[p] /\ k \in 1..keys[p]
    BY <1>11, <2>3, LenProperties
  <2>5. Signed(reader.file, k, p)
    BY <2>1, <2>3, <2>4 DEF Signed
  <2>6. KeyRead'
    BY <1>3, <1>8, <2>4, <2>5 DEF KeyRead, Signed
  <2> HIDE DEF key, passes, producer
  <2> QED
    BY <1>3, <1>5, <1>8, <2>2, <2>6 DEF Earned, Among
<1>13. WantedAnswered'
  <2> SUFFICES ASSUME NEW i \in 1..reader'.since, Wanted(i)' PROVE code = 0
    BY <1>8 DEF WantedAnswered, Answered
  <2>1. i \in 1..reader.since /\ Wanted(i)
    BY <1>3, <1>8, <1>10 DEF Wanted
  <2>2. dayFile[i] = line
    BY <1>4, <2>1 DEF KeyPending, Wanted
  <2>3. IncludedIn(line)
    BY <1>1, <2>1, <2>2, WantedIsIncluded
  <2> DEFINE p == line.producer
  <2>4. keys[p] = 1 /\ 1 \in DOMAIN KeysOf[p] /\ KeysOf[p][1] = SignedWith[reader.file.content]
    BY <2>1, <2>2 DEF Wanted, Signed
  <2>5. DOMAIN KeysOf[p] = 1..Len(KeysOf[p]) /\ Len(KeysOf[p]) \in Nat
    BY <1>11, LenProperties
  <2>6. 1 <= Len(KeysOf[p]) /\ KeysOf[p][1] # Absent
    BY <1>11, <2>4, <2>5 DEF ToSet
  <2>7. key = KeysOf[p][1]
    BY <1>6, <2>4, <2>6 DEF ActiveKey
  <2> QED
    BY <1>7, <2>3, <2>4, <2>6, <2>7
<1> HIDE DEF key, passes, producer
<1>14. ReaderInv'
  BY <1>2, <1>8, <1>10, <1>12, <1>13 DEF ReaderInv
<1> QED
  BY <1>2, <1>14 DEF VerifyInv

LEMMA VerifyStep ==
    ASSUME VerifyInv, [ReaderNext]_readerVars
    PROVE  VerifyInv'
<1>1. CASE Next /\ UNCHANGED <<keys, reader>>
  BY <1>1, WriterStep
<1>2. ASSUME NEW p \in Producers, ChangeKey(p) PROVE VerifyInv'
  BY <1>2, ChangeKeyStep
<1>3. ASSUME NEW f \in Files, NEW s \in Stems, NEW id \in Ids \cup {Absent}, NEW skip \in BOOLEAN,
             StartReader(f, s, id, skip)
      PROVE  VerifyInv'
  BY <1>3, ReaderStart
<1>4. CASE ReaderStep
  BY <1>4, NoEntryStep, ReadEntryStep, ReadKeyStep DEF ReaderStep
<1>5. CASE UNCHANGED readerVars
  BY <1>5, WriterStep DEF readerVars
<1> QED
  BY <1>1, <1>2, <1>3, <1>4, <1>5 DEF ReaderNext

\* trace-verify exits with 0 only for a retained file that is in the batch of a
\* published entry, at the place its proof file names, and, unless told to skip
\* signatures, that was signed with a key which the producer that this entry names
\* had registered: for batches of any size, whoever publishes what and replaces
\* keys while it reads (_main_inclusion, verify_inclusion, build_tree).
THEOREM PassesAreEarned == ReaderSpec => []PassIsEarned
<1>1. VerifyInv => PassIsEarned
  BY DEF VerifyInv, ReaderInv, Earned, PassIsEarned, Among, KeyRead
<1> QED
  BY <1>1, VerifyInit, VerifyStep, PTL DEF ReaderSpec

\* trace-verify raises no false alarm: the file whose entry is published, signed
\* with the key its producer still has, passes with its proof file, or the reader is
\* told to choose between the entries of one id (_load_entry, _main_inclusion).
THEOREM GenuineAlwaysPasses == ReaderSpec => []GenuinePasses
<1>1. VerifyInv => GenuinePasses
  BY DEF VerifyInv, ReaderInv, GenuinePasses, WantedAnswered, Wanted, Answered, Matching
<1> QED
  BY <1>1, VerifyInit, VerifyStep, PTL DEF ReaderSpec
=============================================================================
