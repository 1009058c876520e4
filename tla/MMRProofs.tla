------------------------------ MODULE MMRProofs -------------------------------
(***************************************************************************)
(* The mountain range for every number of leaves: the position arithmetic  *)
(* agrees with the tree, proofs verify for what they prove and nothing     *)
(* else, and the log over the node file signs one chain through failures   *)
(* of the process.                                                         *)
(*                                                                         *)
(* Everything is said in coordinates: the subtree (h, i) is the i-th one   *)
(* of 2^h leaves.  Sizes, heights, peaks and paths are first shown to be   *)
(* what they are in coordinates (Layout, HeightOfPosition, PathToIs), then *)
(* what the nodes of a store there are: all digests of its leaves (Grown), *)
(* or, when a failed write has left records of its own, at least hashes of *)
(* the nodes below wherever a node names its own position (InPlace).       *)
(***************************************************************************)
EXTENDS CheckpointLog, CheckpointChainProofs

-----------------------------------------------------------------------------
(* What the recursive definitions compute.                                   *)

\* How many nodes n leaves have.
LEMMA SizeEquation ==
    /\ SizeOf[0] = 0
    /\ \A n \in Nat \ {0} : SizeOf[n] = n + SizeOf[n \div 2]
<1> DEFINE F == [x \in Nat \X [Nat -> Nat] |-> IF x[1] = 0 THEN 0 ELSE x[1] + x[2][x[1] \div 2]]
           IsSize(f) == f = [n \in Nat |-> IF n = 0 THEN 0 ELSE n + f[n \div 2]]
<1>1. \A n \in Nat : n # 0 => n \div 2 \in Nat /\ n \div 2 < n
  OBVIOUS
<1>2. F \in [Nat \X [Nat -> Nat] -> Nat]
  <2>1. \A n \in Nat, g \in [Nat -> Nat] : n # 0 => n + g[n \div 2] \in Nat
    BY <1>1
  <2> QED
    BY <2>1
<1>3. \A n \in Nat, g \in [Nat -> Nat] : F[<<n, g>>] = IF n = 0 THEN 0 ELSE n + g[n \div 2]
  OBVIOUS
<1> HIDE DEF F
<1>4. \A n \in Nat : \A g, h \in [Nat -> Nat] :
         (\A m \in Nat : m < n => g[m] = h[m]) => F[<<n, g>>] = F[<<n, h>>]
  BY <1>1, <1>3
<1>5. PICK f \in [Nat -> Nat] : \A n \in Nat : f[n] = F[<<n, f>>]
  <2>1. IsStep(F, Nat, Nat)
    BY <1>2, <1>4 DEF IsStep
  <2> QED
    BY <2>1, Recursion
<1>6. IsSize(f)
  BY <1>3, <1>5
<1>7. SizeOf = CHOOSE s : IsSize(s)
  BY DEF SizeOf
<1>8. IsSize(SizeOf)
  BY <1>6, <1>7
<1> QED
  BY <1>8

LEMMA SizeType == \A n \in Nat : SizeOf[n] \in Nat
<1> DEFINE S == {n \in Nat : SizeOf[n] \in Nat}
<1>1. ASSUME NEW n \in Nat, \A m \in Nat : m < n => SizeOf[m] \in Nat
      PROVE  SizeOf[n] \in Nat
  <2>1. n # 0 => n \div 2 \in Nat /\ n \div 2 < n
    OBVIOUS
  <2> QED
    BY <1>1, <2>1, SizeEquation
<1>2. Inductive(S)
  BY <1>1 DEF Inductive
<1> QED
  BY <1>2, StrongInduction

\* Halving: the subtrees of two or more leaves over 2n or 2n + 1 leaves are those over n.
LEMMA SizeHalves ==
    ASSUME NEW n \in Nat
    PROVE  SizeOf[2 * n] = 2 * n + SizeOf[n] /\ SizeOf[2 * n + 1] = 2 * n + 1 + SizeOf[n]
<1>1. (2 * n) \div 2 = n /\ (2 * n + 1) \div 2 = n /\ 2 * n \in Nat /\ 2 * n + 1 \in Nat \ {0}
  OBVIOUS
<1>2. SizeOf[2 * n] = 2 * n + SizeOf[n]
  <2>1. CASE n = 0
    BY <2>1, SizeEquation
  <2>2. CASE n # 0
    <3>1. 2 * n \in Nat \ {0}
      BY <2>2
    <3> QED
      BY <1>1, <3>1, SizeEquation
  <2> QED
    BY <2>1, <2>2
<1> QED
  BY <1>1, <1>2, SizeEquation

LEMMA SizeOfDigit ==
    ASSUME NEW n \in Nat, NEW e \in {0, 1}
    PROVE  SizeOf[2 * n + e] = 2 * n + e + SizeOf[n]
<1>1. 2 * n + 0 = 2 * n
  OBVIOUS
<1> QED
  BY <1>1, SizeHalves

\* The digits of a number.
LEMMA PopcountEquation ==
    /\ Popcount[0] = 0
    /\ \A n \in Nat \ {0} : Popcount[n] = (n % 2) + Popcount[n \div 2]
<1> DEFINE F == [x \in Nat \X [Nat -> Nat] |->
                    IF x[1] = 0 THEN 0 ELSE (x[1] % 2) + x[2][x[1] \div 2]]
           IsCount(f) == f = [n \in Nat |-> IF n = 0 THEN 0 ELSE (n % 2) + f[n \div 2]]
<1>1. \A n \in Nat : n # 0 => n \div 2 \in Nat /\ n \div 2 < n
  OBVIOUS
<1>2. F \in [Nat \X [Nat -> Nat] -> Nat]
  <2>1. \A n \in Nat, g \in [Nat -> Nat] : n # 0 => (n % 2) + g[n \div 2] \in Nat
    BY <1>1
  <2> QED
    BY <2>1
<1>3. \A n \in Nat, g \in [Nat -> Nat] :
         F[<<n, g>>] = IF n = 0 THEN 0 ELSE (n % 2) + g[n \div 2]
  OBVIOUS
<1> HIDE DEF F
<1>4. \A n \in Nat : \A g, h \in [Nat -> Nat] :
         (\A m \in Nat : m < n => g[m] = h[m]) => F[<<n, g>>] = F[<<n, h>>]
  BY <1>1, <1>3
<1>5. PICK f \in [Nat -> Nat] : \A n \in Nat : f[n] = F[<<n, f>>]
  <2>1. IsStep(F, Nat, Nat)
    BY <1>2, <1>4 DEF IsStep
  <2> QED
    BY <2>1, Recursion
<1>6. IsCount(f)
  BY <1>3, <1>5
<1>7. Popcount = CHOOSE s : IsCount(s)
  BY DEF Popcount
<1>8. IsCount(Popcount)
  BY <1>6, <1>7
<1> QED
  BY <1>8

\* node_count: every node above the leaves pairs two trees off.
LEMMA NodeCountIsSize == \A n \in Nat : NodeCount(n) = SizeOf[n]
<1> DEFINE Ok(n) == Popcount[n] \in Nat /\ SizeOf[n] = 2 * n - Popcount[n]
           S == {n \in Nat : Ok(n)}
<1>1. ASSUME NEW n \in Nat, \A m \in Nat : m < n => Ok(m) PROVE Ok(n)
  <2>1. CASE n = 0
    BY <2>1, SizeEquation, PopcountEquation
  <2>2. CASE n # 0
    <3>1. n \div 2 \in Nat /\ n \div 2 < n /\ n % 2 \in {0, 1} /\ n = 2 * (n \div 2) + (n % 2)
      BY <2>2
    <3>2. Ok(n \div 2)
      BY <1>1, <3>1
    <3>3. /\ SizeOf[n] = n + SizeOf[n \div 2]
          /\ Popcount[n] = (n % 2) + Popcount[n \div 2]
      BY <2>2, SizeEquation, PopcountEquation
    <3> QED
      BY <3>1, <3>2, <3>3
  <2> QED
    BY <2>1, <2>2
<1>2. Inductive(S)
  <2> HIDE DEF Ok
  <2> QED
    BY <1>1 DEF Inductive
<1>3. \A n \in Nat : Ok(n)
  BY <1>2, StrongInduction
<1> QED
  BY <1>3 DEF NodeCount

-----------------------------------------------------------------------------
(* How the sizes grow.                                                       *)

\* Fewer than two nodes a leaf.
LEMMA SizeBounds == \A n \in Nat : n <= SizeOf[n] /\ (n # 0 => SizeOf[n] <= 2 * n - 1)
<1> DEFINE Ok(n) == n <= SizeOf[n] /\ (n # 0 => SizeOf[n] <= 2 * n - 1)
           S == {n \in Nat : Ok(n)}
<1>1. ASSUME NEW n \in Nat, \A m \in Nat : m < n => Ok(m) PROVE Ok(n)
  <2>1. CASE n = 0
    BY <2>1, SizeEquation
  <2>2. CASE n # 0
    <3>1. n \div 2 \in Nat /\ n \div 2 < n /\ 2 * (n \div 2) <= n
      BY <2>2
    <3>2. Ok(n \div 2) /\ SizeOf[n \div 2] \in Nat
      BY <1>1, <3>1, SizeType
    <3>3. SizeOf[n] = n + SizeOf[n \div 2]
      BY <2>2, SizeEquation
    <3>4. n \div 2 = 0 => SizeOf[n \div 2] = 0
      BY SizeEquation
    <3> QED
      BY <2>2, <3>1, <3>2, <3>3, <3>4
  <2> QED
    BY <2>1, <2>2
<1>2. Inductive(S)
  <2> HIDE DEF Ok
  <2> QED
    BY <1>1 DEF Inductive
<1> QED
  BY <1>2, StrongInduction

LEMMA SizeGrows == \A m, n \in Nat : m < n => SizeOf[m] < SizeOf[n]
<1> DEFINE Ok(n) == \A m \in Nat : m < n => SizeOf[m] < SizeOf[n]
           S == {n \in Nat : Ok(n)}
<1>1. ASSUME NEW n \in Nat, \A k \in Nat : k < n => Ok(k) PROVE Ok(n)
  <2> SUFFICES ASSUME NEW m \in Nat, m < n PROVE SizeOf[m] < SizeOf[n]
    OBVIOUS
  <2>1. /\ n # 0 /\ n \div 2 \in Nat /\ n \div 2 < n
        /\ m \div 2 \in Nat /\ m \div 2 <= n \div 2
    OBVIOUS
  <2>2. SizeOf[m \div 2] <= SizeOf[n \div 2]
    <3>1. SizeOf[m \div 2] \in Nat
      BY <2>1, SizeType
    <3>2. m \div 2 < n \div 2 \/ m \div 2 = n \div 2
      BY <2>1
    <3>3. Ok(n \div 2)
      BY <1>1, <2>1
    <3>4. m \div 2 < n \div 2 => SizeOf[m \div 2] < SizeOf[n \div 2]
      BY <2>1, <3>3
    <3> QED
      BY <2>1, <3>1, <3>2, <3>4, SizeType
  <2>3. SizeOf[n] = n + SizeOf[n \div 2] /\ SizeOf[n \div 2] \in Nat
    BY <2>1, SizeEquation, SizeType
  <2>4. SizeOf[m] <= m + SizeOf[m \div 2] /\ SizeOf[m \div 2] \in Nat
    <3>1. CASE m = 0
      BY <2>1, <3>1, SizeEquation, SizeType
    <3>2. CASE m # 0
      BY <2>1, <3>2, SizeEquation, SizeType
    <3> QED
      BY <3>1, <3>2
  <2> QED
    BY <2>2, <2>3, <2>4, SizeType
<1>2. Inductive(S)
  <2> HIDE DEF Ok
  <2> QED
    BY <1>1 DEF Inductive
<1> QED
  BY <1>2, StrongInduction

\* Leaves come in blocks of 2^g.
Aligned(x, g) == \E q \in Nat : x = q * Power[g]

LEMMA AlignedType == ASSUME NEW g \in Nat, NEW x, Aligned(x, g) PROVE x \in Nat
BY PowerGrows DEF Aligned

\* Blocks of 2^(g+1) leaves are blocks of 2^g pairs.
LEMMA AlignedHalf ==
    ASSUME NEW g \in Nat, NEW x
    PROVE  Aligned(x, g + 1) <=> \E y \in Nat : x = 2 * y /\ Aligned(y, g)
<1>1. Power[g] \in Nat /\ Power[g + 1] = 2 * Power[g]
  BY PowerGrows, PowerEquation
<1>2. \A q \in Nat : q * Power[g] \in Nat /\ q * Power[g + 1] = 2 * (q * Power[g])
  BY <1>1
<1> QED
  BY <1>2 DEF Aligned

\* A boundary of larger blocks is one of smaller blocks.
LEMMA AlignedBelow ==
    ASSUME NEW h \in Nat, NEW x, Aligned(x, h)
    PROVE  \A g \in 0..h : Aligned(x, g)
<1> DEFINE Ok(n) == \A y : Aligned(y, n) => \A g \in 0..n : Aligned(y, g)
           S == {n \in Nat : Ok(n)}
<1>1. ASSUME NEW n \in Nat, \A m \in Nat : m < n => Ok(m) PROVE Ok(n)
  <2> SUFFICES ASSUME NEW y, Aligned(y, n), NEW g \in 0..n, g # n PROVE Aligned(y, g)
    OBVIOUS
  <2>1. PICK m \in Nat : n = m + 1
    <3>1. n - 1 \in Nat /\ n = (n - 1) + 1
      OBVIOUS
    <3> QED
      BY <3>1
  <2>2. g \in 0..m /\ m < n
    BY <2>1
  <2>3. PICK q \in Nat : y = q * Power[m + 1]
    BY <2>1 DEF Aligned
  <2>4. 2 * q \in Nat /\ y = (2 * q) * Power[m]
    BY <2>3, PowerEquation, PowerGrows
  <2>5. Aligned(y, m)
    BY <2>4 DEF Aligned
  <2> QED
    BY <1>1, <2>2, <2>5
<1>2. Inductive(S)
  <2> HIDE DEF Ok
  <2> QED
    BY <1>1 DEF Inductive
<1>3. Ok(h)
  BY <1>2, StrongInduction
<1> QED
  BY <1>3

\* Boundaries are whole blocks apart.
LEMMA AlignedSteps ==
    ASSUME NEW g \in Nat, NEW x, NEW y, Aligned(x, g), Aligned(y, g)
    PROVE  /\ Aligned(x + y, g)
           /\ x <= y => Aligned(y - x, g)
           /\ x < y => x + Power[g] <= y
           /\ Aligned(0, g) /\ Aligned(Power[g], g)
<1>1. PICK q \in Nat, r \in Nat : x = q * Power[g] /\ y = r * Power[g]
  BY DEF Aligned
<1> DEFINE P == Power[g]
<1>2. P \in Nat /\ P > 0
  BY PowerGrows
<1> HIDE DEF P
<1>3. x = q * P /\ y = r * P
  BY <1>1 DEF P
<1>4. x + y = (q + r) * P /\ q + r \in Nat
  BY <1>2, <1>3
<1>5. 0 = 0 * P /\ P = 1 * P
  BY <1>2
<1>6. ASSUME q > r PROVE x > y
  <2>1. q = r + (q - r) /\ q - r >= 1 /\ q - r \in Nat
    BY <1>6
  <2>2. q * P = r * P + (q - r) * P
    BY <1>2, <2>1
  <2>3. (q - r) * P >= P
    BY <1>2, <2>1
  <2>4. r * P \in Nat /\ (q - r) * P \in Nat
    BY <1>2, <2>1
  <2> QED
    BY <1>2, <1>3, <2>2, <2>3, <2>4
<1>7. ASSUME q <= r PROVE y - x = (r - q) * P /\ r - q \in Nat /\ (q # r => x + P <= y)
  <2>1. r - q \in Nat /\ r * P = q * P + (r - q) * P
    BY <1>2, <1>7
  <2>2. r * P \in Nat /\ q * P \in Nat /\ (r - q) * P \in Nat
    BY <1>2, <2>1
  <2>3. q # r => r - q >= 1 /\ (r - q) * P >= P
    BY <1>2, <1>7
  <2> QED
    BY <1>2, <1>3, <2>1, <2>2, <2>3
<1>8. x \in Nat /\ y \in Nat
  BY <1>2, <1>3
<1>9. x <= y => q <= r
  BY <1>6, <1>8
<1>10. x < y => q <= r /\ q # r
  BY <1>3, <1>8, <1>9
<1> QED
  BY <1>4, <1>5, <1>7, <1>9, <1>10 DEF Aligned, P

\* The trees over the leaves after x do not reach across a boundary that x is at.
LEMMA SizeSplits ==
    ASSUME NEW g \in Nat, NEW x, Aligned(x, g), NEW b \in Nat, b < Power[g]
    PROVE  SizeOf[x + b] = SizeOf[x] + SizeOf[b]
<1> DEFINE Ok(n) == \A y, c \in Nat : Aligned(y, n) /\ c < Power[n]
                        => SizeOf[y + c] = SizeOf[y] + SizeOf[c]
           S == {n \in Nat : Ok(n)}
<1>1. ASSUME NEW n \in Nat, \A m \in Nat : m < n => Ok(m) PROVE Ok(n)
  <2> SUFFICES ASSUME NEW y \in Nat, NEW c \in Nat, Aligned(y, n), c < Power[n]
               PROVE  SizeOf[y + c] = SizeOf[y] + SizeOf[c]
    OBVIOUS
  <2>1. CASE n = 0
    BY <2>1, SizeEquation, SizeType, PowerEquation
  <2>2. CASE n # 0
    <3>1. PICK m \in Nat : n = m + 1 /\ m < n
      <4>1. n - 1 \in Nat /\ n = (n - 1) + 1 /\ n - 1 < n
        BY <2>2
      <4> QED
        BY <4>1
    <3>2. PICK z \in Nat : y = 2 * z /\ Aligned(z, m)
      BY <3>1, AlignedHalf
    <3>3. PICK d \in Nat, e \in {0, 1} : c = 2 * d + e
      <4>1. c \div 2 \in Nat /\ c % 2 \in {0, 1} /\ c = 2 * (c \div 2) + (c % 2)
        OBVIOUS
      <4> QED
        BY <4>1
    <3>4. d < Power[m]
      BY <3>1, <3>3, PowerEquation, PowerGrows
    <3>5. SizeOf[z + d] = SizeOf[z] + SizeOf[d]
      BY <1>1, <3>1, <3>2, <3>4
    <3>6. y + c = 2 * (z + d) + e /\ z + d \in Nat
      BY <3>2, <3>3
    <3>7. /\ SizeOf[y] = 2 * z + SizeOf[z]
          /\ SizeOf[c] = c + SizeOf[d]
          /\ SizeOf[y + c] = 2 * (z + d) + e + SizeOf[z + d]
      <4>1. SizeOf[y] = 2 * z + SizeOf[z]
        BY <3>2, SizeHalves
      <4>2. SizeOf[c] = c + SizeOf[d]
        BY <3>3, SizeOfDigit
      <4>3. SizeOf[y + c] = 2 * (z + d) + e + SizeOf[z + d]
        BY <3>6, SizeOfDigit
      <4> QED
        BY <4>1, <4>2, <4>3
    <3>8. SizeOf[z] \in Nat /\ SizeOf[d] \in Nat
      BY SizeType
    <3> QED
      BY <3>3, <3>5, <3>7, <3>8
  <2> QED
    BY <2>1, <2>2
<1>2. Inductive(S)
  <2> HIDE DEF Ok
  <2> QED
    BY <1>1 DEF Inductive
<1>3. Ok(g)
  BY <1>2, StrongInduction
<1>4. x \in Nat
  BY AlignedType
<1> QED
  BY <1>3, <1>4

\* A whole block of leaves is one mountain.
LEMMA MountainSizes ==
    \A h \in Nat : /\ MountainSize(h) = SizeOf[Power[h]]
                   /\ MountainSize(h) \in Nat \ {0}
                   /\ MountainSize(h + 1) = 2 * MountainSize(h) + 1
                   /\ h < MountainSize(h)
<1> DEFINE Ok(n) == MountainSize(n) = SizeOf[Power[n]]
           S == {n \in Nat : Ok(n)}
<1>1. ASSUME NEW n \in Nat, \A m \in Nat : m < n => Ok(m) PROVE Ok(n)
  <2>1. CASE n = 0
    <3>1. SizeOf[1] = 1
      <4>1. 1 = 2 * 0 + 1
        OBVIOUS
      <4> QED
        BY <4>1, SizeHalves, SizeEquation
    <3> QED
      BY <2>1, <3>1, PowerEquation DEF MountainSize
  <2>2. CASE n # 0
    <3>1. PICK m \in Nat : n = m + 1 /\ m < n
      <4>1. n - 1 \in Nat /\ n = (n - 1) + 1 /\ n - 1 < n
        BY <2>2
      <4> QED
        BY <4>1
    <3>2. Power[n] = 2 * Power[m] /\ Power[m] \in Nat
      BY <3>1, PowerEquation, PowerGrows
    <3>3. SizeOf[Power[n]] = 2 * Power[m] + SizeOf[Power[m]]
      BY <3>2, SizeHalves
    <3>4. SizeOf[Power[m]] = 2 * Power[m] - 1
      BY <1>1, <3>1 DEF MountainSize
    <3> QED
      BY <3>2, <3>3, <3>4 DEF MountainSize
  <2> QED
    BY <2>1, <2>2
<1>2. Inductive(S)
  <2> HIDE DEF Ok
  <2> QED
    BY <1>1 DEF Inductive
<1>3. \A n \in Nat : Ok(n)
  BY <1>2, StrongInduction
<1>4. ASSUME NEW h \in Nat
      PROVE  /\ MountainSize(h) \in Nat \ {0} /\ h < MountainSize(h)
             /\ MountainSize(h + 1) = 2 * MountainSize(h) + 1
  BY PowerGrows, PowerEquation DEF MountainSize
<1> QED
  BY <1>3, <1>4

\* The last leaf of a block ends the blocks of all lower heights, and its own.
LEMMA SizeAtBoundary ==
    ASSUME NEW h \in Nat, NEW N \in Nat \ {0}, Aligned(N, h)
    PROVE  /\ SizeOf[N - 1] + h + 1 <= SizeOf[N]
           /\ ~Aligned(N, h + 1) => SizeOf[N - 1] + h + 1 = SizeOf[N]
<1> DEFINE Ok(n) == \A M \in Nat \ {0} : Aligned(M, n) =>
                        /\ SizeOf[M - 1] + n + 1 <= SizeOf[M]
                        /\ ~Aligned(M, n + 1) => SizeOf[M - 1] + n + 1 = SizeOf[M]
           S == {n \in Nat : Ok(n)}
<1>1. ASSUME NEW n \in Nat, \A m \in Nat : m < n => Ok(m) PROVE Ok(n)
  <2> SUFFICES ASSUME NEW M \in Nat \ {0}, Aligned(M, n)
               PROVE  /\ SizeOf[M - 1] + n + 1 <= SizeOf[M]
                      /\ ~Aligned(M, n + 1) => SizeOf[M - 1] + n + 1 = SizeOf[M]
    OBVIOUS
  <2>1. CASE n = 0
    <3>1. SizeOf[M - 1] \in Nat /\ SizeOf[M] \in Nat /\ SizeOf[M - 1] < SizeOf[M]
      <4>1. M - 1 \in Nat /\ M - 1 < M
        OBVIOUS
      <4> QED
        BY <4>1, SizeType, SizeGrows
    <3>2. ASSUME ~Aligned(M, 1) PROVE SizeOf[M - 1] + 1 = SizeOf[M]
      <4>1. \A y \in Nat : Aligned(y, 0)
        BY PowerEquation DEF Aligned
      <4>2. 0 \in Nat /\ 0 + 1 = 1
        OBVIOUS
      <4>3. ~\E y \in Nat : M = 2 * y
        <5>1. Aligned(M, 0 + 1) <=> \E y \in Nat : M = 2 * y /\ Aligned(y, 0)
          BY AlignedHalf
        <5> QED
          BY <3>2, <4>1, <4>2, <5>1
      <4>4. PICK y \in Nat : M = 2 * y + 1
        <5>1. M \div 2 \in Nat /\ (M = 2 * (M \div 2) \/ M = 2 * (M \div 2) + 1)
          OBVIOUS
        <5> QED
          BY <4>3, <5>1
      <4>5. SizeOf[M] = 2 * y + 1 + SizeOf[y] /\ SizeOf[M - 1] = 2 * y + SizeOf[y]
        <5>1. M - 1 = 2 * y
          BY <4>4
        <5> QED
          BY <4>4, <5>1, SizeHalves
      <4> QED
        BY <4>4, <4>5, SizeType
    <3> QED
      BY <2>1, <3>1, <3>2
  <2>2. CASE n # 0
    <3>1. PICK m \in Nat : n = m + 1 /\ m < n
      <4>1. n - 1 \in Nat /\ n = (n - 1) + 1 /\ n - 1 < n
        BY <2>2
      <4> QED
        BY <4>1
    <3>2. PICK K \in Nat : M = 2 * K /\ Aligned(K, m)
      BY <3>1, AlignedHalf
    <3>3. K \in Nat \ {0} /\ K - 1 \in Nat /\ M - 1 = 2 * (K - 1) + 1
      BY <3>2
    <3>4. SizeOf[M] = 2 * K + SizeOf[K] /\ SizeOf[M - 1] = 2 * (K - 1) + 1 + SizeOf[K - 1]
      BY <3>2, <3>3, SizeHalves
    <3>5. SizeOf[K] \in Nat /\ SizeOf[K - 1] \in Nat
      BY <3>3, SizeType
    <3>6. /\ SizeOf[K - 1] + m + 1 <= SizeOf[K]
          /\ ~Aligned(K, m + 1) => SizeOf[K - 1] + m + 1 = SizeOf[K]
      BY <1>1, <3>1, <3>2, <3>3
    <3>7. Aligned(K, m + 1) => Aligned(M, n + 1)
      <4>1. m + 1 \in Nat /\ n + 1 = (m + 1) + 1
        BY <3>1
      <4> QED
        BY <3>2, <4>1, AlignedHalf
    <3> QED
      BY <3>1, <3>3, <3>4, <3>5, <3>6, <3>7
  <2> QED
    BY <2>1, <2>2
<1>2. Inductive(S)
  <2> HIDE DEF Ok
  <2> QED
    BY <1>1 DEF Inductive
<1>3. Ok(h)
  BY <1>2, StrongInduction
<1> QED
  BY <1>3

-----------------------------------------------------------------------------
(* Places and positions.                                                     *)

\* Where a subtree's leaves end.
End(h, i) == (i + 1) * Power[h]

LEMMA EndFacts ==
    ASSUME NEW h \in Nat, NEW i \in Nat
    PROVE  /\ End(h, i) \in Nat \ {0} /\ Aligned(End(h, i), h)
           /\ i * Power[h] \in Nat /\ Aligned(i * Power[h], h)
           /\ End(h, i) = i * Power[h] + Power[h]
           /\ i < End(h, i) /\ h < End(h, i)
<1>1. Power[h] \in Nat /\ Power[h] >= h + 1
  BY PowerGrows
<1>2. i * Power[h] \in Nat /\ (i + 1) * Power[h] = i * Power[h] + Power[h] /\ i * Power[h] >= i
  <2>1. \A p \in Nat : p >= 1 => i * p \in Nat /\ (i + 1) * p = i * p + p /\ i * p >= i
    OBVIOUS
  <2> QED
    BY <1>1, <2>1
<1>3. i + 1 \in Nat
  OBVIOUS
<1> QED
  BY <1>1, <1>2, <1>3 DEF End, Aligned

LEMMA EndBefore ==
    ASSUME NEW h \in Nat, NEW i \in Nat
    PROVE  End(h, i) - 1 \in Nat /\ (End(h, i) - 1) + 1 = End(h, i) /\ End(h, i) \in Nat
<1>1. End(h, i) \in Nat \ {0}
  BY EndFacts
<1> QED
  BY <1>1

\* At every boundary but the first a subtree ends.
LEMMA BlockOfEnd ==
    ASSUME NEW h \in Nat, NEW N \in Nat \ {0}, Aligned(N, h)
    PROVE  \E i \in Nat : N = End(h, i)
<1>1. PICK q \in Nat : N = q * Power[h]
  BY DEF Aligned
<1>2. q # 0
  BY <1>1, PowerGrows
<1>3. q - 1 \in Nat /\ (q - 1) + 1 = q
  BY <1>2
<1> QED
  BY <1>1, <1>3 DEF End

LEMMA EndInjective ==
    ASSUME NEW h \in Nat, NEW i \in Nat, NEW j \in Nat, End(h, i) = End(h, j)
    PROVE  i = j
<1>1. \A p \in Nat : p >= 1 /\ (i + 1) * p = (j + 1) * p => i = j
  OBVIOUS
<1>2. Power[h] \in Nat /\ Power[h] >= 1
  BY PowerGrows
<1> QED
  BY <1>1, <1>2 DEF End

\* A subtree's root is written with its last leaf.
LEMMA PositionBounds ==
    ASSUME NEW h \in Nat, NEW i \in Nat
    PROVE  /\ PositionOf(h, i) \in Nat
           /\ PositionOf(h, i) = SizeOf[End(h, i) - 1] + h
           /\ PositionOf(h, i) < SizeOf[End(h, i)]
<1>1. End(h, i) \in Nat \ {0} /\ Aligned(End(h, i), h) /\ End(h, i) - 1 \in Nat
  BY EndFacts
<1>2. SizeOf[End(h, i) - 1] + h + 1 <= SizeOf[End(h, i)]
  BY <1>1, SizeAtBoundary
<1>3. SizeOf[End(h, i) - 1] \in Nat /\ SizeOf[End(h, i)] \in Nat
  BY <1>1, SizeType
<1>4. PositionOf(h, i) = SizeOf[End(h, i) - 1] + h
  BY DEF PositionOf, End
<1> QED
  BY <1>2, <1>3, <1>4

\* Sizes compare as the numbers of leaves do.
LEMMA SizesInOrder ==
    ASSUME NEW m \in Nat, NEW n \in Nat
    PROVE  SizeOf[m] < SizeOf[n] <=> m < n
<1>1. m < n => SizeOf[m] < SizeOf[n]
  BY SizeGrows
<1>2. n < m => SizeOf[n] < SizeOf[m]
  BY SizeGrows
<1> QED
  BY <1>1, <1>2, SizeType

\* No two subtrees share a position.
LEMMA PositionInjective ==
    ASSUME NEW h \in Nat, NEW i \in Nat, NEW g \in Nat, NEW j \in Nat,
           PositionOf(h, i) = PositionOf(g, j)
    PROVE  h = g /\ i = j
<1> DEFINE M == End(h, i) - 1
           N == End(g, j) - 1
<1>1. M \in Nat /\ N \in Nat /\ M + 1 = End(h, i) /\ N + 1 = End(g, j)
  BY EndBefore
<1>2. /\ PositionOf(h, i) \in Nat
      /\ PositionOf(h, i) = SizeOf[M] + h /\ PositionOf(h, i) < SizeOf[M + 1]
      /\ PositionOf(g, j) = SizeOf[N] + g /\ PositionOf(g, j) < SizeOf[N + 1]
  BY <1>1, PositionBounds
<1> HIDE DEF M, N
<1>3. /\ M + 1 \in Nat /\ N + 1 \in Nat /\ SizeOf[M] \in Nat /\ SizeOf[N] \in Nat
      /\ SizeOf[M + 1] \in Nat /\ SizeOf[N + 1] \in Nat
  BY <1>1, SizeType
<1>4. SizeOf[M] < SizeOf[N + 1] /\ SizeOf[N] < SizeOf[M + 1]
  <2>1. SizeOf[M] + h < SizeOf[N + 1] /\ SizeOf[N] + g < SizeOf[M + 1]
    BY <1>2
  <2> QED
    BY <1>3, <2>1
<1>5. M < N + 1 /\ N < M + 1
  BY <1>1, <1>3, <1>4, SizesInOrder
<1>6. M = N
  BY <1>1, <1>5
<1>7. h = g
  <2>1. SizeOf[M] + h = SizeOf[M] + g
    BY <1>2, <1>6
  <2> QED
    BY <1>3, <2>1
<1> QED
  BY <1>1, <1>6, <1>7, EndInjective

\* The reference finds the subtree of a position.
LEMMA PlaceAtPosition ==
    ASSUME NEW h \in Nat, NEW i \in Nat
    PROVE  PlaceAt(PositionOf(h, i)) = <<h, i>>
<1> DEFINE pos == PositionOf(h, i)
           M == End(h, i) - 1
<1>1. M \in Nat /\ M + 1 = End(h, i) /\ M + 1 \in Nat
  BY EndBefore
<1>2. pos \in Nat /\ pos = SizeOf[M] + h /\ pos < SizeOf[M + 1]
  BY <1>1, PositionBounds
<1>3. M \in 0..pos /\ SizeOf[M] <= pos
  BY <1>1, <1>2, SizeBounds, SizeType
<1>4. ASSUME NEW m \in 0..pos, SizeOf[m] <= pos, pos < SizeOf[m + 1] PROVE m = M
  <2>1. m \in Nat /\ m + 1 \in Nat
    OBVIOUS
  <2>2. SizeOf[m] < SizeOf[M + 1] /\ SizeOf[M] < SizeOf[m + 1]
    BY <1>1, <1>2, <1>3, <1>4, <2>1, SizeType
  <2>3. m < M + 1 /\ M < m + 1
    BY <1>1, <2>1, <2>2, SizesInOrder
  <2> QED
    BY <1>1, <2>1, <2>3
<1> DEFINE m == CHOOSE m \in 0..pos : SizeOf[m] <= pos /\ pos < SizeOf[m + 1]
<1>5. m = M
  <2> HIDE DEF M, pos
  <2> QED
    BY <1>2, <1>3, <1>4
<1>6. pos - SizeOf[M] = h
  BY <1>1, <1>2, SizeType
<1>7. (M + 1) \div Power[h] = i + 1
  <2>1. \A p \in Nat \ {0} : ((i + 1) * p) \div p = i + 1
    OBVIOUS
  <2>2. Power[h] \in Nat \ {0}
    BY PowerGrows
  <2> QED
    BY <1>1, <2>1, <2>2 DEF End
<1>8. PlaceAt(pos) = <<pos - SizeOf[m], (m + 1) \div Power[pos - SizeOf[m]] - 1>>
  BY DEF PlaceAt
<1> HIDE DEF m, M, pos
<1>9. PlaceAt(pos) = <<h, (M + 1) \div Power[h] - 1>>
  BY <1>5, <1>6, <1>8
<1> QED
  BY <1>7, <1>9 DEF pos

\* A parent is written right after its right child, and as many nodes after its
\* left child as the right one's mountain has, and one.
LEMMA ChildPositions ==
    ASSUME NEW g \in Nat, NEW i \in Nat
    PROVE  /\ End(g, 2 * i + 1) = End(g + 1, i)
           /\ End(g, 2 * i) = 2 * i * Power[g] + Power[g]
           /\ 2 * i * Power[g] = i * Power[g + 1]
           /\ PositionOf(g, 2 * i + 1) = PositionOf(g + 1, i) - 1
           /\ PositionOf(g, 2 * i) = PositionOf(g + 1, i) - Power[g + 1]
<1> DEFINE P == Power[g]
           x == i * Power[g + 1]
<1>1. P \in Nat /\ P >= 1 /\ Power[g + 1] = 2 * P
  BY PowerGrows, PowerEquation
<1>2. x \in Nat /\ Aligned(x, g + 1)
  <2>1. g + 1 \in Nat
    OBVIOUS
  <2> QED
    BY <2>1, EndFacts
<1>3. /\ End(g, 2 * i + 1) = x + 2 * P
      /\ End(g + 1, i) = x + 2 * P
      /\ End(g, 2 * i) = x + P
      /\ 2 * i * P = x
  <2>1. \A p \in Nat : /\ (2 * i + 1 + 1) * p = i * (2 * p) + 2 * p
                       /\ (i + 1) * (2 * p) = i * (2 * p) + 2 * p
                       /\ (2 * i + 1) * p = i * (2 * p) + p
                       /\ 2 * i * p = i * (2 * p)
    OBVIOUS
  <2> QED
    BY <1>1, <2>1 DEF End
<1>4. Aligned(x, g)
  <2>1. g + 1 \in Nat /\ g \in 0..g + 1
    OBVIOUS
  <2> QED
    BY <1>2, <2>1, AlignedBelow
<1> HIDE DEF x, P
<1>5. SizeOf[x + P - 1] = SizeOf[x] + SizeOf[P - 1]
  <2>1. P - 1 \in Nat /\ P - 1 < Power[g] /\ x + (P - 1) = x + P - 1
    BY <1>1, <1>2 DEF P
  <2> QED
    BY <1>4, <2>1, SizeSplits
<1>6. SizeOf[x + 2 * P - 1] = SizeOf[x] + SizeOf[2 * P - 1]
  <2>1. 2 * P - 1 \in Nat /\ 2 * P - 1 < Power[g + 1] /\ x + (2 * P - 1) = x + 2 * P - 1 /\ g + 1 \in Nat
    BY <1>1, <1>2
  <2> QED
    BY <1>2, <2>1, SizeSplits
<1>7. SizeOf[2 * P - 1] = 2 * P - 1 + SizeOf[P - 1]
  <2>1. 2 * P - 1 = 2 * (P - 1) + 1 /\ P - 1 \in Nat
    BY <1>1
  <2>2. SizeOf[2 * (P - 1) + 1] = 2 * (P - 1) + 1 + SizeOf[P - 1]
    BY <2>1, SizeHalves
  <2> QED
    BY <2>1, <2>2
<1>8. /\ PositionOf(g, 2 * i + 1) = SizeOf[x + 2 * P - 1] + g
      /\ PositionOf(g + 1, i) = SizeOf[x + 2 * P - 1] + (g + 1)
      /\ PositionOf(g, 2 * i) = SizeOf[x + P - 1] + g
  <2>1. 2 * i + 1 \in Nat /\ 2 * i \in Nat /\ g + 1 \in Nat
    OBVIOUS
  <2>2. /\ PositionOf(g, 2 * i + 1) = SizeOf[End(g, 2 * i + 1) - 1] + g
        /\ PositionOf(g + 1, i) = SizeOf[End(g + 1, i) - 1] + (g + 1)
        /\ PositionOf(g, 2 * i) = SizeOf[End(g, 2 * i) - 1] + g
    BY <2>1, PositionBounds
  <2>3. /\ End(g, 2 * i + 1) - 1 = x + 2 * P - 1 /\ End(g + 1, i) - 1 = x + 2 * P - 1
        /\ End(g, 2 * i) - 1 = x + P - 1
    BY <1>1, <1>2, <1>3
  <2> QED
    BY <2>2, <2>3
<1>9. SizeOf[x] \in Nat /\ SizeOf[P - 1] \in Nat
  <2>1. P - 1 \in Nat
    BY <1>1
  <2> QED
    BY <1>2, <2>1, SizeType
<1>10. PositionOf(g, 2 * i + 1) = PositionOf(g + 1, i) - 1
  BY <1>1, <1>6, <1>7, <1>8, <1>9
<1>11. PositionOf(g, 2 * i) = PositionOf(g + 1, i) - 2 * P
  BY <1>1, <1>5, <1>6, <1>7, <1>8, <1>9
<1> QED
  BY <1>1, <1>3, <1>10, <1>11 DEF x, P

\* The subtree (g, j) is part of the subtree (h, i).
Under(g, j, h, i) ==
    /\ g \in Nat /\ j \in Nat /\ h \in Nat /\ i \in Nat
    /\ g <= h
    /\ i * Power[h] < End(g, j) /\ End(g, j) <= End(h, i)

\* The nodes of a subtree end with its root, and its root is the last.
LEMMA UnderPosition ==
    ASSUME NEW g, NEW j, NEW h, NEW i, Under(g, j, h, i)
    PROVE  /\ SizeOf[i * Power[h]] <= PositionOf(g, j)
           /\ PositionOf(g, j) <= PositionOf(h, i)
           /\ PositionOf(g, j) = PositionOf(h, i) => g = h /\ j = i
           /\ g = h => j = i
<1> DEFINE x == i * Power[h]
           M == End(g, j) - 1
           N == End(h, i) - 1
<1>1. /\ g \in Nat /\ j \in Nat /\ h \in Nat /\ i \in Nat /\ g <= h
      /\ x < M + 1 /\ M <= N
      /\ M \in Nat /\ N \in Nat /\ M + 1 = End(g, j) /\ N + 1 = End(h, i)
  <2>1. M \in Nat /\ N \in Nat /\ M + 1 = End(g, j) /\ N + 1 = End(h, i)
    BY EndBefore DEF Under
  <2> HIDE DEF M, N
  <2> QED
    BY <2>1 DEF Under
<1>2. x \in Nat /\ Aligned(x, h) /\ N + 1 = x + Power[h] /\ Power[h] \in Nat
  BY <1>1, EndFacts, PowerGrows
<1>3. /\ PositionOf(g, j) = SizeOf[M] + g /\ PositionOf(g, j) < SizeOf[M + 1]
      /\ PositionOf(h, i) = SizeOf[N] + h
      /\ PositionOf(g, j) \in Nat
  BY <1>1, PositionBounds
<1> HIDE DEF x, M, N
<1>4. /\ M + 1 \in Nat /\ SizeOf[x] \in Nat /\ SizeOf[M] \in Nat /\ SizeOf[N] \in Nat
      /\ SizeOf[M + 1] \in Nat
  BY <1>1, <1>2, SizeType
<1>5. SizeOf[x] <= SizeOf[M]
  <2>1. x < M \/ x = M
    BY <1>1, <1>2
  <2>2. x < M => SizeOf[x] < SizeOf[M]
    BY <1>1, <1>2, SizeGrows
  <2> QED
    BY <1>4, <2>1, <2>2
<1>6. CASE M = N
  <2>1. SizeOf[M] = SizeOf[N]
    BY <1>6
  <2>2. PositionOf(g, j) <= PositionOf(h, i) /\ (PositionOf(g, j) = PositionOf(h, i) => g = h)
    BY <1>1, <1>3, <1>4, <2>1
  <2>3. g = h => j = i
    BY <1>1, <1>6, EndInjective
  <2> QED
    BY <1>1, <1>3, <1>4, <1>5, <2>2, <2>3 DEF x
<1>7. CASE M # N
  <2>1. M + 1 < N \/ M + 1 = N
    BY <1>1, <1>7
  <2>2. M + 1 < N => SizeOf[M + 1] < SizeOf[N]
    BY <1>1, <1>4, SizeGrows
  <2>3. SizeOf[M + 1] <= SizeOf[N]
    BY <1>4, <2>1, <2>2
  <2>4. PositionOf(g, j) < PositionOf(h, i)
    BY <1>1, <1>3, <1>4, <2>3
  <2>5. g # h
    <3> SUFFICES ASSUME g = h PROVE FALSE
      OBVIOUS
    <3>1. Aligned(M + 1, h)
      BY <1>1, EndFacts
    <3>2. x + Power[h] <= M + 1
      BY <1>1, <1>2, <3>1, AlignedSteps
    <3> QED
      BY <1>1, <1>2, <1>7, <3>2
  <2> QED
    BY <1>1, <1>3, <1>4, <1>5, <2>4, <2>5 DEF x
<1> QED
  BY <1>6, <1>7

\* Which child of a subtree a smaller one is part of shows in its position.
LEMMA UnderChild ==
    ASSUME NEW g, NEW j, NEW k \in Nat, NEW i, Under(g, j, k + 1, i), g <= k
    PROVE  IF PositionOf(g, j) <= PositionOf(k, 2 * i)
           THEN Under(g, j, k, 2 * i) ELSE Under(g, j, k, 2 * i + 1)
<1> DEFINE E == End(g, j)
<1>1. /\ g \in Nat /\ j \in Nat /\ i \in Nat /\ 2 * i \in Nat /\ 2 * i + 1 \in Nat
      /\ i * Power[k + 1] < E /\ E <= End(k + 1, i)
  BY DEF Under
<1>2. /\ End(k, 2 * i + 1) = End(k + 1, i)
      /\ 2 * i * Power[k] = i * Power[k + 1]
      /\ End(k, 2 * i) = (2 * i + 1) * Power[k]
  BY <1>1, ChildPositions DEF End
<1>3. E \in Nat /\ End(k, 2 * i) \in Nat
  BY <1>1, EndFacts
<1>4. CASE E <= End(k, 2 * i)
  <2>1. Under(g, j, k, 2 * i)
    BY <1>1, <1>2, <1>4 DEF Under
  <2> QED
    BY <2>1, UnderPosition
<1>5. CASE E > End(k, 2 * i)
  <2>1. Under(g, j, k, 2 * i + 1)
    BY <1>1, <1>2, <1>3, <1>5 DEF Under
  <2>2. SizeOf[End(k, 2 * i)] <= PositionOf(g, j)
    BY <1>2, <2>1, UnderPosition
  <2>3. PositionOf(k, 2 * i) < SizeOf[End(k, 2 * i)]
    BY <1>1, PositionBounds
  <2>4. PositionOf(k, 2 * i) \in Nat /\ PositionOf(g, j) \in Nat /\ SizeOf[End(k, 2 * i)] \in Nat
    BY <1>1, <1>3, PositionBounds, SizeType
  <2> QED
    BY <2>1, <2>2, <2>3, <2>4
<1> QED
  BY <1>3, <1>4, <1>5

-----------------------------------------------------------------------------
(* Heights.                                                                  *)

LEMMA MountainsGrow == \A g, h \in Nat : g < h => MountainSize(g) < MountainSize(h)
<1>1. \A g, h \in Nat : g < h => 2 * Power[g] <= Power[h] /\ Power[g] \in Nat /\ Power[g] >= 1
                                 /\ Power[h] \in Nat
  BY PowerGrows
<1> QED
  BY <1>1 DEF MountainSize

\* The smallest mountain that has room for n nodes, and the largest they fill.
Covering(h, n) == MountainSize(h) >= n /\ (h > 0 => MountainSize(h - 1) < n)
Largest(h, n) == MountainSize(h) <= n /\ n < MountainSize(h + 1)

\* height_at's mountain exists, and there is one of it.
LEMMA CoveringExists ==
    ASSUME NEW n \in Nat \ {0}
    PROVE  \E h \in 0..n : Covering(h, n)
<1> DEFINE S == {h \in Nat : MountainSize(h) >= n}
<1>1. n \in S
  BY MountainSizes
<1>2. PICK h \in S : \A g \in S : h <= g
  <2>1. S \in SUBSET Nat /\ S # {}
    BY <1>1
  <2> QED
    BY <2>1, LeastElement
<1>3. h \in 0..n /\ MountainSize(h) >= n
  BY <1>1, <1>2
<1>4. ASSUME h > 0 PROVE MountainSize(h - 1) < n
  <2>1. h - 1 \in Nat /\ ~(h <= h - 1)
    BY <1>3, <1>4
  <2>2. h - 1 \notin S
    <3> HIDE DEF S
    <3> QED
      BY <1>2, <2>1
  <2>3. MountainSize(h - 1) \in Nat
    BY <2>1, MountainSizes
  <2> QED
    BY <2>1, <2>2, <2>3
<1> QED
  BY <1>3, <1>4 DEF Covering

LEMMA CoveringIsOne ==
    ASSUME NEW n \in Nat, NEW g \in Nat, NEW h \in Nat, Covering(g, n), Covering(h, n)
    PROVE  g = h
<1>1. \A a, b \in Nat : Covering(a, n) /\ Covering(b, n) => ~(a < b)
  <2> SUFFICES ASSUME NEW a \in Nat, NEW b \in Nat, Covering(a, n), Covering(b, n), a < b
               PROVE  FALSE
    OBVIOUS
  <2>1. b - 1 \in Nat /\ b > 0 /\ (a < b - 1 \/ a = b - 1)
    OBVIOUS
  <2>2. MountainSize(a) \in Nat /\ MountainSize(b - 1) \in Nat
    BY <2>1, MountainSizes
  <2>3. MountainSize(a) <= MountainSize(b - 1)
    BY <2>1, <2>2, MountainsGrow
  <2> QED
    BY <2>1, <2>2, <2>3 DEF Covering
<1> QED
  BY <1>1

\* What one step of height_at does.
LEMMA HeightEquation ==
    ASSUME NEW n \in Nat \ {0}, NEW h \in Nat, Covering(h, n)
    PROVE  HeightOfLast[n] = IF n = MountainSize(h) THEN h ELSE HeightOfLast[n - MountainSize(h - 1)]
<1> DEFINE D == Nat \ {0}
           top(m) == CHOOSE k \in 0..m : Covering(k, m)
           rest(m) == m - MountainSize(top(m) - 1)
           F == [x \in D \X [D -> Nat] |->
                    IF x[1] = MountainSize(top(x[1])) THEN top(x[1]) ELSE x[2][rest(x[1])]]
           IsHeight(s) == s = [m \in D |-> IF m = MountainSize(top(m)) THEN top(m) ELSE s[rest(m)]]
<1>1. ASSUME NEW m \in D
      PROVE  /\ top(m) \in Nat /\ Covering(top(m), m)
             /\ m # MountainSize(top(m)) => rest(m) \in D /\ rest(m) < m
  <2>1. top(m) \in 0..m /\ Covering(top(m), m)
    BY CoveringExists
  <2> HIDE DEF top
  <2>2. ASSUME m # MountainSize(top(m)) PROVE rest(m) \in D /\ rest(m) < m
    <3>1. MountainSize(0) = 1
      BY PowerEquation DEF MountainSize
    <3>2. top(m) # 0
      BY <2>1, <2>2, <3>1 DEF Covering
    <3>3. top(m) - 1 \in Nat /\ top(m) > 0
      BY <2>1, <3>2
    <3>4. MountainSize(top(m) - 1) \in Nat \ {0}
      BY <3>3, MountainSizes
    <3>5. MountainSize(top(m) - 1) < m
      BY <2>1, <3>3 DEF Covering
    <3> QED
      BY <3>4, <3>5
  <2> QED
    BY <2>1, <2>2
<1> HIDE DEF top, rest
<1>2. F \in [D \X [D -> Nat] -> Nat]
  BY <1>1
<1>3. \A m \in D, g \in [D -> Nat] :
         F[<<m, g>>] = IF m = MountainSize(top(m)) THEN top(m) ELSE g[rest(m)]
  OBVIOUS
<1> HIDE DEF F
<1>4. \A m \in D : \A f, g \in [D -> Nat] :
         (\A k \in D : k < m => f[k] = g[k]) => F[<<m, f>>] = F[<<m, g>>]
  BY <1>1, <1>3
<1>5. PICK f \in [D -> Nat] : \A m \in D : f[m] = F[<<m, f>>]
  <2>1. IsStep(F, D, Nat)
    BY <1>2, <1>4 DEF IsStep
  <2> HIDE DEF D
  <2> QED
    BY <2>1, Recursion
<1>6. IsHeight(f)
  BY <1>3, <1>5
<1>7. HeightOfLast = CHOOSE s : IsHeight(s)
  BY DEF HeightOfLast, Covering, top, rest
<1>8. IsHeight(HeightOfLast)
  BY <1>6, <1>7
<1>9. top(n) = h
  BY <1>1, CoveringIsOne
<1> QED
  BY <1>8, <1>9 DEF rest

\* Where a subtree has no right neighbour to be joined with, it ends its leaves' nodes.
LEMMA LastPosition ==
    ASSUME NEW h \in Nat, NEW i \in Nat, ~Aligned(End(h, i), h + 1)
    PROVE  PositionOf(h, i) + 1 = SizeOf[End(h, i)]
<1>1. /\ End(h, i) \in Nat \ {0} /\ Aligned(End(h, i), h)
      /\ PositionOf(h, i) = SizeOf[End(h, i) - 1] + h
  BY EndFacts, PositionBounds
<1>2. SizeOf[End(h, i) - 1] + h + 1 = SizeOf[End(h, i)]
  BY <1>1, SizeAtBoundary
<1>3. SizeOf[End(h, i) - 1] \in Nat
  BY EndBefore, SizeType
<1> QED
  BY <1>1, <1>2, <1>3

LEMMA FirstMountain ==
    ASSUME NEW k \in Nat
    PROVE  End(k, 0) = Power[k] /\ PositionOf(k, 0) + 1 = MountainSize(k)
<1>1. Power[k] \in Nat /\ Power[k] >= 1 /\ Power[k + 1] = 2 * Power[k]
  BY PowerGrows, PowerEquation
<1>2. End(k, 0) = Power[k]
  BY <1>1 DEF End
<1>3. ~Aligned(Power[k], k + 1)
  <2>1. \A q \in Nat, p \in Nat : p >= 1 => p # q * (2 * p)
    OBVIOUS
  <2> QED
    BY <1>1, <2>1 DEF Aligned
<1>4. 0 \in Nat
  OBVIOUS
<1> QED
  BY <1>2, <1>3, <1>4, LastPosition, MountainSizes, SMTT(30)

\* height_at finds the height of every subtree from where its root is.
LEMMA HeightOfPosition ==
    ASSUME NEW h \in Nat, NEW i \in Nat
    PROVE  HeightAt(PositionOf(h, i)) = h
<1> DEFINE Ok(k) == \A g, j \in Nat : End(g, j) <= Power[k] =>
                        /\ HeightOfLast[PositionOf(g, j) + 1] = g
                        /\ PositionOf(g, j) + 1 <= MountainSize(k)
           S == {k \in Nat : Ok(k)}
<1>1. ASSUME NEW k \in Nat, \A m \in Nat : m < k => Ok(m) PROVE Ok(k)
  <2> SUFFICES ASSUME NEW g \in Nat, NEW j \in Nat, End(g, j) <= Power[k]
               PROVE  /\ HeightOfLast[PositionOf(g, j) + 1] = g
                      /\ PositionOf(g, j) + 1 <= MountainSize(k)
    OBVIOUS
  <2> DEFINE n == PositionOf(g, j) + 1
  <2>1. n \in Nat \ {0} /\ PositionOf(g, j) \in Nat
    <3>1. PositionOf(g, j) \in Nat
      BY PositionBounds
    <3> QED
      BY <3>1
  <2>2. Under(g, j, k, 0)
    <3>1. Power[g] <= Power[k] /\ End(g, j) \in Nat \ {0}
      <4>1. j * Power[g] \in Nat /\ End(g, j) = j * Power[g] + Power[g] /\ End(g, j) \in Nat \ {0}
        BY EndFacts
      <4> QED
        BY <4>1, PowerGrows
    <3>2. ~(k < g)
      BY <3>1, PowerGrows
    <3>3. 0 * Power[k] = 0
      BY PowerGrows
    <3> QED
      BY <3>1, <3>2, <3>3, FirstMountain DEF Under
  <2>3. PositionOf(g, j) <= PositionOf(k, 0) /\ n <= MountainSize(k)
    <3>1. PositionOf(g, j) <= PositionOf(k, 0)
      BY <2>2, UnderPosition
    <3>2. PositionOf(k, 0) \in Nat /\ PositionOf(k, 0) + 1 = MountainSize(k)
      <4>1. 0 \in Nat
        OBVIOUS
      <4> QED
        BY <4>1, PositionBounds, FirstMountain
    <3> QED
      BY <2>1, <3>1, <3>2
  <2>4. CASE g = k
    <3>1. j = 0
      BY <2>2, <2>4, UnderPosition
    <3>2. n = MountainSize(g)
      BY <2>4, <3>1, FirstMountain
    <3>3. Covering(g, n)
      <4>1. g > 0 => g - 1 \in Nat /\ g - 1 < g
        OBVIOUS
      <4>2. g > 0 => MountainSize(g - 1) < MountainSize(g)
        BY <4>1, MountainsGrow
      <4>3. MountainSize(g) >= n
        BY <2>3, <2>4
      <4> QED
        BY <3>2, <4>2, <4>3 DEF Covering
    <3> QED
      BY <2>1, <2>3, <3>2, <3>3, HeightEquation
  <2>5. CASE g # k
    <3>1. PICK m \in Nat : k = m + 1 /\ m < k /\ g <= m
      <4>1. g <= k
        BY <2>2 DEF Under
      <4>2. k - 1 \in Nat /\ k = (k - 1) + 1 /\ k - 1 < k /\ g <= k - 1
        BY <2>5, <4>1
      <4> QED
        BY <4>2
    <3>2. /\ MountainSize(m) \in Nat \ {0} /\ MountainSize(k) = 2 * MountainSize(m) + 1
          /\ MountainSize(m) = SizeOf[Power[m]]
      BY <3>1, MountainSizes
    <3>3. CASE End(g, j) <= Power[m]
      BY <1>1, <2>3, <3>1, <3>3
    <3>4. CASE ~(End(g, j) <= Power[m])
      <4> DEFINE P == Power[m]
      <4>1. P \in Nat /\ Aligned(P, g) /\ Aligned(P, m) /\ Power[k] = 2 * P /\ P >= 1
        <5>1. Aligned(P, m)
          BY AlignedSteps, EndFacts
        <5>2. g \in 0..m
          BY <3>1
        <5> QED
          BY <3>1, <5>1, <5>2, AlignedBelow, PowerGrows, PowerEquation
      <4>2. /\ End(g, j) \in Nat /\ Aligned(End(g, j), g) /\ P < End(g, j)
        <5>1. End(g, j) \in Nat /\ Aligned(End(g, j), g)
          BY EndFacts
        <5> QED
          BY <3>4, <4>1, <5>1
      <4> HIDE DEF P
      <4>3. End(g, j) - P \in Nat \ {0} /\ Aligned(End(g, j) - P, g)
        BY <4>1, <4>2, AlignedSteps
      <4>4. PICK i2 \in Nat : End(g, j) - P = End(g, i2)
        BY <4>3, BlockOfEnd
      <4>5. End(g, i2) <= P /\ End(g, i2) - 1 \in Nat /\ End(g, j) - 1 = P + (End(g, i2) - 1)
            /\ End(g, i2) - 1 < P
        <5>1. End(g, i2) \in Nat \ {0} /\ End(g, j) = P + End(g, i2)
          BY <4>1, <4>2, <4>3, <4>4
        <5> QED
          BY <4>1, <4>2, <5>1
      <4>6. SizeOf[End(g, j) - 1] = SizeOf[P] + SizeOf[End(g, i2) - 1]
        BY <4>1, <4>5, SizeSplits DEF P
      <4>7. /\ PositionOf(g, j) = SizeOf[End(g, j) - 1] + g
            /\ PositionOf(g, i2) = SizeOf[End(g, i2) - 1] + g
            /\ PositionOf(g, i2) \in Nat
        BY PositionBounds
      <4>8. n = MountainSize(m) + (PositionOf(g, i2) + 1)
        <5>1. SizeOf[End(g, i2) - 1] \in Nat
          BY <4>5, SizeType
        <5> QED
          BY <3>2, <4>6, <4>7, <5>1 DEF P
      <4>9. /\ HeightOfLast[PositionOf(g, i2) + 1] = g
            /\ PositionOf(g, i2) + 1 <= MountainSize(m)
        BY <1>1, <3>1, <4>5 DEF P
      <4>10. MountainSize(m) < n /\ n < MountainSize(k)
        BY <3>2, <4>7, <4>8, <4>9
      <4>11. Covering(k, n)
        <5>1. k - 1 = m
          BY <3>1
        <5> QED
          BY <3>2, <4>10, <5>1, <2>1 DEF Covering
      <4>12. HeightOfLast[n] = HeightOfLast[n - MountainSize(m)]
        <5>1. k - 1 = m /\ n # MountainSize(k)
          BY <2>1, <3>1, <3>2, <4>10
        <5> QED
          BY <2>1, <4>11, <5>1, HeightEquation
      <4>13. n - MountainSize(m) = PositionOf(g, i2) + 1
        BY <3>2, <4>7, <4>8
      <4> QED
        BY <2>3, <4>9, <4>12, <4>13
    <3> QED
      BY <3>3, <3>4
  <2> QED
    BY <2>4, <2>5
<1>2. Inductive(S)
  <2> HIDE DEF Ok
  <2> QED
    BY <1>1 DEF Inductive
<1>3. End(h, i) \in Nat /\ End(h, i) <= Power[End(h, i)]
  <2>1. End(h, i) \in Nat
    BY EndFacts
  <2> QED
    BY <2>1, PowerGrows
<1>4. Ok(End(h, i))
  BY <1>2, <1>3, StrongInduction
<1> QED
  BY <1>3, <1>4 DEF HeightAt

-----------------------------------------------------------------------------
(* Peaks.                                                                    *)

\* peaks()' mountain exists, and there is one of it.
LEMMA LargestExists ==
    ASSUME NEW n \in Nat \ {0}
    PROVE  \E h \in 0..n : Largest(h, n)
<1>1. PICK k \in 0..n + 1 : Covering(k, n + 1)
  <2>1. n + 1 \in Nat \ {0}
    OBVIOUS
  <2> QED
    BY <2>1, CoveringExists
<1>2. MountainSize(0) = 1
  BY PowerEquation DEF MountainSize
<1>3. k \in Nat /\ k # 0
  BY <1>1, <1>2 DEF Covering
<1>4. PICK h \in Nat : k = h + 1 /\ h <= n
  <2>1. k - 1 \in Nat /\ k = (k - 1) + 1 /\ k - 1 <= n
    BY <1>1, <1>3
  <2> QED
    BY <2>1
<1>5. MountainSize(k) >= n + 1 /\ MountainSize(h) < n + 1
  <2>1. k - 1 = h /\ k > 0
    BY <1>4
  <2> QED
    BY <1>1, <2>1 DEF Covering
<1>6. MountainSize(h) \in Nat /\ MountainSize(h + 1) \in Nat
  BY <1>4, MountainSizes
<1>7. Largest(h, n)
  BY <1>4, <1>5, <1>6 DEF Largest
<1> QED
  BY <1>4, <1>7

LEMMA LargestIsOne ==
    ASSUME NEW n \in Nat, NEW g \in Nat, NEW h \in Nat, Largest(g, n), Largest(h, n)
    PROVE  g = h
<1>1. \A a, b \in Nat : Largest(a, n) /\ Largest(b, n) => ~(a < b)
  <2> SUFFICES ASSUME NEW a \in Nat, NEW b \in Nat, Largest(a, n), Largest(b, n), a < b
               PROVE  FALSE
    OBVIOUS
  <2>1. a + 1 \in Nat /\ (a + 1 < b \/ a + 1 = b)
    OBVIOUS
  <2>2. MountainSize(a + 1) \in Nat /\ MountainSize(b) \in Nat
    BY <2>1, MountainSizes
  <2>3. MountainSize(a + 1) <= MountainSize(b)
    BY <2>1, <2>2, MountainsGrow
  <2> QED
    BY <2>2, <2>3 DEF Largest
<1> QED
  BY <1>1

\* What one step of peaks() does.
LEMMA MountainsEquation ==
    /\ MountainsOf[0] = <<>>
    /\ \A n \in Nat \ {0}, h \in Nat :
          Largest(h, n) => MountainsOf[n] = <<h>> \o MountainsOf[n - MountainSize(h)]
<1> DEFINE top(m) == CHOOSE k \in 0..m : Largest(k, m)
           rest(m) == m - MountainSize(top(m))
           V == Seq(Nat)
           none == <<>>
           before(m, s) == <<top(m)>> \o s
           F == [x \in Nat \X [Nat -> V] |->
                    IF x[1] = 0 THEN none ELSE before(x[1], x[2][rest(x[1])])]
           IsMountains(s) == s = [m \in Nat |-> IF m = 0 THEN none ELSE before(m, s[rest(m)])]
<1>1. ASSUME NEW m \in Nat \ {0}
      PROVE  top(m) \in Nat /\ Largest(top(m), m) /\ rest(m) \in Nat /\ rest(m) < m
  <2>1. top(m) \in 0..m /\ Largest(top(m), m)
    BY LargestExists
  <2> HIDE DEF top
  <2>2. MountainSize(top(m)) \in Nat \ {0}
    BY <2>1, MountainSizes
  <2>3. MountainSize(top(m)) <= m
    BY <2>1 DEF Largest
  <2> QED
    BY <2>1, <2>2, <2>3
<1> HIDE DEF top, rest
<1>2. none \in V /\ \A m \in Nat \ {0}, s \in V : before(m, s) \in V
  <2> SUFFICES ASSUME NEW m \in Nat \ {0}, NEW s \in V PROVE <<top(m)>> \o s \in V
    OBVIOUS
  <2>1. <<top(m)>> \in Seq(Nat)
    BY <1>1
  <2> QED
    BY <2>1
<1> HIDE DEF V, none, before
<1>3. F \in [Nat \X [Nat -> V] -> V]
  <2>1. ASSUME NEW m \in Nat \ {0}, NEW g \in [Nat -> V] PROVE before(m, g[rest(m)]) \in V
    BY <1>1, <1>2
  <2> QED
    BY <1>2, <2>1
<1>4. \A m \in Nat, g \in [Nat -> V] :
         F[<<m, g>>] = IF m = 0 THEN none ELSE before(m, g[rest(m)])
  OBVIOUS
<1> HIDE DEF F
<1>5. PICK f \in [Nat -> V] : \A m \in Nat : f[m] = F[<<m, f>>]
  <2>1. \A m \in Nat : \A f, g \in [Nat -> V] :
           (\A k \in Nat : k < m => f[k] = g[k]) => F[<<m, f>>] = F[<<m, g>>]
    BY <1>1, <1>4
  <2>2. IsStep(F, Nat, V)
    BY <1>2, <1>3, <2>1 DEF IsStep
  <2> QED
    BY <2>2, Recursion
<1>6. IsMountains(f)
  BY <1>4, <1>5
<1>7. MountainsOf = CHOOSE s : IsMountains(s)
  BY DEF MountainsOf, Largest, top, rest, none, before
<1>8. IsMountains(MountainsOf)
  BY <1>6, <1>7
<1>9. \A n \in Nat \ {0}, h \in Nat : Largest(h, n) => top(n) = h
  BY <1>1, LargestIsOne
<1> QED
  BY <1>8, <1>9 DEF rest, none, before

LEMMA MountainsType == \A n \in Nat : MountainsOf[n] \in Seq(Nat)
<1> DEFINE Ok(n) == MountainsOf[n] \in Seq(Nat)
           S == {n \in Nat : Ok(n)}
<1>1. ASSUME NEW n \in Nat, \A m \in Nat : m < n => Ok(m) PROVE Ok(n)
  <2>1. CASE n = 0
    BY <2>1, MountainsEquation
  <2>2. CASE n # 0
    <3>1. PICK h \in 0..n : Largest(h, n)
      BY <2>2, LargestExists
    <3>2. h \in Nat /\ MountainSize(h) \in Nat \ {0} /\ MountainSize(h) <= n
      BY <3>1, MountainSizes DEF Largest
    <3>3. n - MountainSize(h) \in Nat /\ n - MountainSize(h) < n
      BY <3>2
    <3>4. MountainsOf[n - MountainSize(h)] \in Seq(Nat) /\ <<h>> \in Seq(Nat)
      BY <1>1, <3>2, <3>3
    <3>5. MountainsOf[n] = <<h>> \o MountainsOf[n - MountainSize(h)]
      BY <2>2, <3>1, <3>2, MountainsEquation
    <3> QED
      BY <3>4, <3>5
  <2> QED
    BY <2>1, <2>2
<1>2. Inductive(S)
  <2> HIDE DEF Ok
  <2> QED
    BY <1>1 DEF Inductive
<1> QED
  BY <1>2, StrongInduction

\* A number is a power of two and less than that.
LEMMA TopDigit ==
    ASSUME NEW n \in Nat \ {0}
    PROVE  \E h \in Nat, m \in Nat : n = Power[h] + m /\ m < Power[h] /\ m < n
<1> DEFINE S == {h \in Nat : n < Power[h + 1]}
<1>1. n \in S
  <2>1. n + 1 \in Nat
    OBVIOUS
  <2>2. Power[n + 1] \in Nat /\ Power[n + 1] >= n + 1 + 1
    BY <2>1, PowerGrows
  <2> QED
    BY <2>2
<1>2. PICK h \in S : \A g \in S : h <= g
  <2>1. S \in SUBSET Nat /\ S # {}
    BY <1>1
  <2> QED
    BY <2>1, LeastElement
<1>3. h \in Nat /\ n < 2 * Power[h] /\ Power[h] \in Nat /\ Power[h] >= 1
  BY <1>2, PowerEquation, PowerGrows
<1>4. Power[h] <= n
  <2>1. CASE h = 0
    BY <2>1, PowerEquation
  <2>2. CASE h # 0
    <3>1. PICK g \in Nat : h = g + 1 /\ ~(h <= g)
      <4>1. h - 1 \in Nat /\ h = (h - 1) + 1 /\ ~(h <= h - 1)
        BY <1>3, <2>2
      <4> QED
        BY <4>1
    <3>2. g \notin S
      <4> HIDE DEF S
      <4> QED
        BY <1>2, <3>1
    <3> QED
      BY <1>3, <3>1, <3>2
  <2> QED
    BY <2>1, <2>2
<1>5. n - Power[h] \in Nat /\ n = Power[h] + (n - Power[h]) /\ n - Power[h] < Power[h] /\ n - Power[h] < n
  BY <1>3, <1>4
<1> QED
  BY <1>3, <1>5

\* The mountains of a number of leaves follow its digits from the top.
LEMMA MountainsOfSize ==
    ASSUME NEW h \in Nat, NEW m \in Nat, m < Power[h]
    PROVE  /\ SizeOf[Power[h] + m] = MountainSize(h) + SizeOf[m]
           /\ MountainsOf[SizeOf[Power[h] + m]] = <<h>> \o MountainsOf[SizeOf[m]]
<1>1. Power[h] \in Nat /\ Aligned(Power[h], h) /\ MountainSize(h) = 2 * Power[h] - 1
  BY PowerGrows, AlignedSteps, EndFacts DEF MountainSize
<1>2. /\ MountainSize(h) \in Nat \ {0} /\ MountainSize(h + 1) = 2 * MountainSize(h) + 1
      /\ MountainSize(h) = SizeOf[Power[h]]
  BY MountainSizes
<1>3. SizeOf[Power[h] + m] = MountainSize(h) + SizeOf[m]
  BY <1>1, <1>2, SizeSplits
<1>4. SizeOf[m] \in Nat /\ SizeOf[m] < MountainSize(h) + 1
  <2>1. SizeOf[m] \in Nat /\ (m # 0 => SizeOf[m] <= 2 * m - 1) /\ (m = 0 => SizeOf[m] = 0)
    BY SizeType, SizeBounds, SizeEquation
  <2> QED
    BY <1>1, <2>1
<1> DEFINE s == SizeOf[Power[h] + m]
<1>5. s \in Nat \ {0} /\ Largest(h, s) /\ s - MountainSize(h) = SizeOf[m]
  BY <1>2, <1>3, <1>4 DEF Largest
<1>6. MountainsOf[s] = <<h>> \o MountainsOf[s - MountainSize(h)]
  <2> HIDE DEF s
  <2> QED
    BY <1>5, MountainsEquation
<1> QED
  BY <1>3, <1>5, <1>6

\* How many leaves the first i mountains have.
Ends(c, hs, n) ==
    /\ hs \in Seq(Nat)
    /\ c \in [0..Len(hs) -> Nat] /\ c[0] = 0 /\ c[Len(hs)] = n
    /\ \A i \in 1..Len(hs) :
          /\ c[i] = c[i - 1] + Power[hs[i]] /\ Aligned(c[i - 1], hs[i] + 1)
          /\ c[i] <= n /\ n < c[i] + Power[hs[i]]

\* One more mountain on the left.
LEMMA EndsOfMore ==
    ASSUME NEW h \in Nat, NEW m \in Nat, m < Power[h], NEW c, NEW hs, Ends(c, hs, m)
    PROVE  \E d : Ends(d, <<h>> \o hs, Power[h] + m)
<1> DEFINE P == Power[h]
           gs == <<h>> \o hs
           L == Len(hs)
           d == [i \in 0..L + 1 |-> IF i = 0 THEN 0 ELSE P + c[i - 1]]
<1>1. /\ P \in Nat /\ Aligned(P, h) /\ P >= 1
  <2>1. P \in Nat /\ P >= 1
    BY PowerGrows
  <2>2. 1 \in Nat /\ P = 1 * P
    BY <2>1
  <2> QED
    BY <2>1, <2>2 DEF Aligned
<1>2. /\ hs \in Seq(Nat) /\ L \in Nat /\ DOMAIN hs = 1..L
      /\ c \in [0..L -> Nat] /\ c[0] = 0 /\ c[L] = m
  BY DEF Ends
<1>3. /\ gs \in Seq(Nat) /\ Len(gs) = L + 1 /\ gs[1] = h
      /\ \A i \in 2..L + 1 : gs[i] = hs[i - 1]
  <2>1. <<h>> \in Seq(Nat) /\ Len(<<h>>) = 1
    OBVIOUS
  <2> QED
    BY <1>2, <2>1
<1> HIDE DEF gs, L
<1>4. d \in [0..L + 1 -> Nat] /\ d[0] = 0 /\ d[L + 1] = P + m
  <2>1. \A i \in 0..L + 1 : i # 0 => i - 1 \in 0..L /\ P + c[i - 1] \in Nat
    BY <1>1, <1>2
  <2>2. L + 1 \in 0..L + 1 /\ 0 \in 0..L + 1 /\ L + 1 # 0 /\ (L + 1) - 1 = L
    BY <1>2
  <2> QED
    BY <1>2, <2>1, <2>2
<1>5. ASSUME NEW i \in 1..L + 1
      PROVE  /\ d[i] = d[i - 1] + Power[gs[i]] /\ Aligned(d[i - 1], gs[i] + 1)
             /\ d[i] <= P + m /\ P + m < d[i] + Power[gs[i]]
  <2>1. CASE i = 1
    <3>1. d[1] = P /\ d[0] = 0 /\ gs[1] = h
      BY <1>1, <1>2, <1>3
    <3>2. Aligned(0, h + 1)
      BY AlignedSteps, EndFacts
    <3> QED
      BY <1>1, <2>1, <3>1, <3>2
  <2>2. CASE i # 1
    <3>1. PICK k \in 1..L : i = k + 1 /\ k - 1 \in 0..L /\ k # 0
      <4>1. i - 1 \in 1..L /\ i = (i - 1) + 1 /\ (i - 1) - 1 \in 0..L /\ i - 1 # 0
        BY <1>2, <2>2
      <4> QED
        BY <4>1
    <3>2. d[i] = P + c[k] /\ d[i - 1] = P + c[k - 1] /\ gs[i] = hs[k]
      <4>1. i \in 0..L + 1 /\ i # 0 /\ i - 1 = k /\ k \in 0..L + 1 /\ i \in 2..L + 1
        BY <1>2, <3>1
      <4> QED
        BY <1>3, <3>1, <4>1
    <3>3. /\ c[k] = c[k - 1] + Power[hs[k]] /\ Aligned(c[k - 1], hs[k] + 1)
          /\ c[k] <= m /\ m < c[k] + Power[hs[k]]
          /\ c[k] \in Nat /\ c[k - 1] \in Nat /\ hs[k] \in Nat /\ Power[hs[k]] \in Nat
      <4>1. /\ c[k] = c[k - 1] + Power[hs[k]] /\ Aligned(c[k - 1], hs[k] + 1)
            /\ c[k] <= m /\ m < c[k] + Power[hs[k]]
        BY <3>1 DEF Ends, L
      <4>2. k \in 0..L /\ hs[k] \in Nat
        BY <1>2, <3>1
      <4> QED
        BY <1>2, <3>1, <4>1, <4>2, PowerGrows
    <3>4. hs[k] + 1 \in 0..h
      <4>1. ~(h < hs[k]) /\ h # hs[k]
        <5>1. Power[hs[k]] < Power[h]
          BY <1>1, <3>3
        <5> QED
          BY <1>1, <3>3, <5>1, PowerGrows
      <4> QED
        BY <3>3, <4>1
    <3>5. Aligned(P, hs[k] + 1)
      BY <1>1, <3>4, AlignedBelow
    <3>6. Aligned(P + c[k - 1], hs[k] + 1)
      BY <3>3, <3>4, <3>5, AlignedSteps
    <3>7. /\ P + c[k] = P + c[k - 1] + Power[hs[k]] /\ P + c[k] <= P + m
          /\ P + m < P + c[k] + Power[hs[k]]
      BY <1>1, <3>3
    <3> QED
      BY <3>2, <3>6, <3>7
  <2> QED
    BY <2>1, <2>2
<1>6. Ends(d, gs, P + m)
  <2> HIDE DEF d, P
  <2> QED
    BY <1>3, <1>4, <1>5 DEF Ends
<1> QED
  BY <1>6 DEF gs

LEMMA EndsExist == \A n \in Nat : \E c : Ends(c, MountainsOf[SizeOf[n]], n)
<1> DEFINE Ok(n) == \E c : Ends(c, MountainsOf[SizeOf[n]], n)
           S == {n \in Nat : Ok(n)}
<1>1. ASSUME NEW n \in Nat, \A m \in Nat : m < n => Ok(m) PROVE Ok(n)
  <2>1. CASE n = 0
    <3>1. MountainsOf[SizeOf[0]] = <<>>
      BY SizeEquation, MountainsEquation
    <3>2. Ends([i \in 0..0 |-> 0], <<>>, 0)
      BY DEF Ends
    <3> QED
      BY <2>1, <3>1, <3>2
  <2>2. CASE n # 0
    <3>1. PICK h \in Nat, m \in Nat : n = Power[h] + m /\ m < Power[h] /\ m < n
      BY <2>2, TopDigit
    <3>2. PICK c : Ends(c, MountainsOf[SizeOf[m]], m)
      BY <1>1, <3>1
    <3>3. PICK d : Ends(d, <<h>> \o MountainsOf[SizeOf[m]], Power[h] + m)
      BY <3>1, <3>2, EndsOfMore
    <3>4. MountainsOf[SizeOf[n]] = <<h>> \o MountainsOf[SizeOf[m]]
      BY <3>1, MountainsOfSize
    <3> QED
      BY <3>1, <3>3, <3>4
  <2> QED
    BY <2>1, <2>2
<1>2. Inductive(S)
  <2> HIDE DEF Ok
  <2> QED
    BY <1>1 DEF Inductive
<1> QED
  BY <1>2, StrongInduction

\* The mountains of n leaves: their heights, the leaves up to each, and their numbers
\* among the subtrees of their height.
Layout(n, hs, c, q) ==
    /\ hs = MountainsOf[SizeOf[n]] /\ Ends(c, hs, n)
    /\ q \in [1..Len(hs) -> Nat]
    /\ \A i \in 1..Len(hs) :
          c[i - 1] = q[i] * Power[hs[i]] /\ c[i] = End(hs[i], q[i]) /\ ~Aligned(c[i], hs[i] + 1)

LEMMA PowerFacts ==
    ASSUME NEW h \in Nat
    PROVE  /\ Power[h] \in Nat /\ Power[h] >= 1 /\ Power[h + 1] = 2 * Power[h]
           /\ h + 1 \in Nat /\ h < Power[h]
<1>1. Power[h] \in Nat /\ Power[h] >= h + 1 /\ Power[h + 1] = 2 * Power[h]
  BY PowerGrows, PowerEquation
<1> QED
  BY <1>1

LEMMA NotAlignedHigher ==
    ASSUME NEW h \in Nat, NEW x, Aligned(x, h + 1)
    PROVE  ~Aligned(x + Power[h], h + 1)
<1>1. PICK k \in Nat : x = k * Power[h + 1]
  BY DEF Aligned
<1>2. Power[h] \in Nat /\ Power[h] >= 1 /\ Power[h + 1] = 2 * Power[h]
  BY PowerGrows, PowerEquation
<1>3. \A l \in Nat, p \in Nat : p >= 1 => k * (2 * p) + p # l * (2 * p)
  <2> SUFFICES ASSUME NEW l \in Nat, NEW p \in Nat, p >= 1, k * (2 * p) + p = l * (2 * p)
               PROVE  FALSE
    OBVIOUS
  <2>1. (2 * (l - k)) * p = 1 * p
    OBVIOUS
  <2>2. 2 * (l - k) = 1
    <3>1. 2 * (l - k) \in Int
      OBVIOUS
    <3>2. \A a \in Int : a * p = 1 * p => a = 1
      OBVIOUS
    <3> QED
      BY <2>1, <3>1, <3>2
  <2> QED
    BY <2>2
<1> QED
  BY <1>1, <1>2, <1>3 DEF Aligned

\* Every number of leaves has its mountains.
LEMMA LayoutExists == \A n \in Nat : \E hs, c, q : Layout(n, hs, c, q)
<1> SUFFICES ASSUME NEW n \in Nat PROVE \E hs, c, q : Layout(n, hs, c, q)
  OBVIOUS
<1> DEFINE hs == MountainsOf[SizeOf[n]]
<1>1. PICK c : Ends(c, hs, n)
  BY EndsExist
<1> DEFINE q == [i \in 1..Len(hs) |-> CHOOSE k \in Nat : c[i - 1] = k * Power[hs[i]]]
<1>2. ASSUME NEW i \in 1..Len(hs)
      PROVE  /\ \E k \in Nat : c[i - 1] = k * Power[hs[i]]
             /\ \A k \in Nat : c[i - 1] = k * Power[hs[i]] => c[i] = End(hs[i], k)
             /\ ~Aligned(c[i], hs[i] + 1)
  <2>1. hs[i] \in Nat /\ hs[i] + 1 \in Nat /\ hs[i] \in 0..hs[i] + 1
    <3>1. hs[i] \in Nat
      BY <1>1 DEF Ends
    <3> QED
      BY <3>1
  <2>2. c[i] = c[i - 1] + Power[hs[i]] /\ Aligned(c[i - 1], hs[i] + 1)
    BY <1>1 DEF Ends
  <2>3. Aligned(c[i - 1], hs[i])
    BY <2>1, <2>2, AlignedBelow
  <2>4. \A k \in Nat : End(hs[i], k) = k * Power[hs[i]] + Power[hs[i]]
    BY <2>1, EndFacts
  <2>5. ~Aligned(c[i], hs[i] + 1)
    BY <2>1, <2>2, NotAlignedHigher
  <2> QED
    BY <2>2, <2>3, <2>4, <2>5 DEF Aligned
<1> HIDE DEF hs
<1>3. Layout(n, hs, c, q)
  <2>1. q \in [1..Len(hs) -> Nat]
    BY <1>2
  <2>2. \A i \in 1..Len(hs) : c[i - 1] = q[i] * Power[hs[i]] /\ q[i] \in Nat
    BY <1>2
  <2> HIDE DEF q
  <2> QED
    BY <1>1, <1>2, <2>1, <2>2 DEF Layout, hs
<1> QED
  BY <1>3

LEMMA LayoutLength ==
    ASSUME NEW n \in Nat, NEW hs, NEW c, NEW q, Layout(n, hs, c, q)
    PROVE  /\ hs \in Seq(Nat) /\ Len(hs) \in Nat /\ DOMAIN hs = 1..Len(hs)
           /\ c \in [0..Len(hs) -> Nat] /\ c[0] = 0 /\ c[Len(hs)] = n
           /\ q \in [1..Len(hs) -> Nat]
BY DEF Layout, Ends

\* One mountain among the others.
LEMMA LayoutFacts ==
    ASSUME NEW n \in Nat, NEW hs, NEW c, NEW q, Layout(n, hs, c, q), NEW i \in 1..Len(hs)
    PROVE  /\ i - 1 \in 0..Len(hs) /\ i \in 0..Len(hs)
           /\ hs[i] \in Nat /\ q[i] \in Nat /\ c[i] \in Nat /\ c[i - 1] \in Nat
           /\ c[i - 1] = q[i] * Power[hs[i]] /\ c[i] = End(hs[i], q[i])
           /\ c[i] = c[i - 1] + Power[hs[i]] /\ c[i - 1] < c[i]
           /\ c[i] <= n /\ n < c[i] + Power[hs[i]]
           /\ Aligned(c[i], hs[i]) /\ ~Aligned(c[i], hs[i] + 1) /\ Aligned(c[i - 1], hs[i] + 1)
           /\ PositionOf(hs[i], q[i]) + 1 = SizeOf[c[i]]
           /\ SizeOf[c[i]] = SizeOf[c[i - 1]] + MountainSize(hs[i])
           /\ PositionOf(hs[i], q[i]) \in Nat
           /\ SizeOf[c[i]] \in Nat /\ SizeOf[c[i - 1]] \in Nat
<1>1. /\ hs \in Seq(Nat) /\ Len(hs) \in Nat
      /\ c \in [0..Len(hs) -> Nat] /\ q \in [1..Len(hs) -> Nat]
  BY LayoutLength
<1>2. i - 1 \in 0..Len(hs) /\ i \in 0..Len(hs)
  BY <1>1
<1>3. hs[i] \in Nat /\ q[i] \in Nat /\ c[i] \in Nat /\ c[i - 1] \in Nat
  <2>1. hs[i] \in Nat
    BY <1>1
  <2>2. q[i] \in Nat
    BY <1>1
  <2>3. c[i] \in Nat /\ c[i - 1] \in Nat
    BY <1>1, <1>2
  <2> QED
    BY <2>1, <2>2, <2>3
<1>4. /\ c[i] = c[i - 1] + Power[hs[i]] /\ Aligned(c[i - 1], hs[i] + 1)
      /\ c[i] <= n /\ n < c[i] + Power[hs[i]]
  BY DEF Layout, Ends
<1>5. c[i - 1] = q[i] * Power[hs[i]] /\ c[i] = End(hs[i], q[i]) /\ ~Aligned(c[i], hs[i] + 1)
  BY DEF Layout
<1>6. Power[hs[i]] \in Nat /\ Power[hs[i]] >= 1 /\ Power[hs[i] + 1] = 2 * Power[hs[i]]
  BY <1>3, PowerFacts
<1>7. c[i - 1] < c[i]
  BY <1>3, <1>4, <1>6
<1>8. Aligned(c[i], hs[i])
  BY <1>3, <1>5, EndFacts
<1>9. PositionOf(hs[i], q[i]) + 1 = SizeOf[c[i]]
  BY <1>3, <1>5, LastPosition
<1>10. SizeOf[c[i]] = SizeOf[c[i - 1]] + MountainSize(hs[i])
  <2>1. hs[i] + 1 \in Nat /\ Power[hs[i]] < Power[hs[i] + 1]
    BY <1>3, <1>6
  <2>2. SizeOf[c[i - 1] + Power[hs[i]]] = SizeOf[c[i - 1]] + SizeOf[Power[hs[i]]]
    BY <1>4, <1>6, <2>1, SizeSplits
  <2> QED
    BY <1>3, <1>4, <2>2, MountainSizes
<1>11. PositionOf(hs[i], q[i]) \in Nat
  BY <1>3, PositionBounds
<1>12. SizeOf[c[i]] \in Nat /\ SizeOf[c[i - 1]] \in Nat
  BY <1>3, SizeType
<1> QED
  BY <1>2, <1>3, <1>4, <1>5, <1>7, <1>8, <1>9, <1>10, <1>11, <1>12

\* peaks(): the roots of the mountains.
LEMMA PeaksOfSize ==
    ASSUME NEW n \in Nat, NEW hs, NEW c, NEW q, Layout(n, hs, c, q)
    PROVE  Peaks(SizeOf[n]) = [i \in 1..Len(hs) |-> PositionOf(hs[i], q[i])]
<1> DEFINE L == Len(hs)
           IsEnd(f) == f = [i \in 0..L |-> IF i = 0 THEN 0 ELSE f[i - 1] + MountainSize(hs[i])]
           e == CHOOSE f : IsEnd(f)
           size == [i \in 0..L |-> SizeOf[c[i]]]
<1>1. /\ L \in Nat /\ DOMAIN hs = 1..L /\ c[0] = 0
      /\ c \in [0..L -> Nat]
  BY LayoutLength
<1>2. \A i \in 1..L : /\ i - 1 \in 0..L /\ i \in 0..L
                      /\ SizeOf[c[i]] = SizeOf[c[i - 1]] + MountainSize(hs[i])
                      /\ PositionOf(hs[i], q[i]) + 1 = SizeOf[c[i]]
                      /\ PositionOf(hs[i], q[i]) \in Nat /\ SizeOf[c[i]] \in Nat
  BY LayoutFacts
<1>3. hs = MountainsOf[SizeOf[n]]
  BY DEF Layout
<1>4. Peaks(SizeOf[n]) = [i \in DOMAIN hs |-> e[i] - 1]
  BY <1>3 DEF Peaks
<1> HIDE DEF L, e
<1>5. IsEnd(size)
  <2>1. \A i \in 0..L : size[i] = IF i = 0 THEN 0 ELSE size[i - 1] + MountainSize(hs[i])
    <3> SUFFICES ASSUME NEW i \in 0..L
                 PROVE  size[i] = IF i = 0 THEN 0 ELSE size[i - 1] + MountainSize(hs[i])
      OBVIOUS
    <3>1. CASE i = 0
      BY <1>1, <3>1, SizeEquation
    <3>2. CASE i # 0
      <4>1. i \in 1..L /\ i - 1 \in 0..L
        BY <1>1, <3>2
      <4> QED
        BY <1>2, <3>2, <4>1
    <3> QED
      BY <3>1, <3>2
  <2> QED
    BY <2>1
<1>6. IsEnd(e)
  BY <1>5 DEF e
<1> DEFINE Ok(k) == k <= L => e[k] = SizeOf[c[k]]
           S == {k \in Nat : Ok(k)}
<1>7. ASSUME NEW k \in Nat, \A m \in Nat : m < k => Ok(m) PROVE Ok(k)
  <2> SUFFICES ASSUME k <= L PROVE e[k] = SizeOf[c[k]]
    OBVIOUS
  <2>1. k \in 0..L
    BY <1>1
  <2>2. CASE k = 0
    BY <1>1, <1>6, <2>1, <2>2, SizeEquation
  <2>3. CASE k # 0
    <3>1. k \in 1..L /\ k - 1 \in Nat /\ k - 1 < k /\ k - 1 <= L
      BY <1>1, <2>1, <2>3
    <3>2. e[k - 1] = SizeOf[c[k - 1]]
      BY <1>7, <3>1
    <3>3. e[k] = e[k - 1] + MountainSize(hs[k])
      BY <1>6, <2>1, <2>3
    <3> QED
      BY <1>2, <3>1, <3>2, <3>3
  <2> QED
    BY <2>2, <2>3
<1>8. Inductive(S)
  <2> HIDE DEF Ok
  <2> QED
    BY <1>7 DEF Inductive
<1>9. \A k \in Nat : Ok(k)
  BY <1>8, StrongInduction
<1>10. \A i \in 1..L : e[i] - 1 = PositionOf(hs[i], q[i])
  <2> SUFFICES ASSUME NEW i \in 1..L PROVE e[i] - 1 = PositionOf(hs[i], q[i])
    OBVIOUS
  <2>1. i \in Nat /\ i <= L
    BY <1>1
  <2>2. e[i] = SizeOf[c[i]]
    BY <1>9, <2>1
  <2> QED
    BY <1>2, <2>2
<1> QED
  BY <1>1, <1>4, <1>10 DEF L


\* The mountains stand side by side.
LEMMA EndsInOrder ==
    ASSUME NEW n \in Nat, NEW hs, NEW c, NEW q, Layout(n, hs, c, q),
           NEW i \in 0..Len(hs), NEW j \in 0..Len(hs), i < j
    PROVE  c[i] < c[j] /\ c[i] \in Nat /\ c[j] \in Nat
<1>1. Len(hs) \in Nat /\ c \in [0..Len(hs) -> Nat]
  BY LayoutLength
<1> DEFINE Ok(k) == i < k /\ k <= Len(hs) => c[i] < c[k]
           S == {k \in Nat : Ok(k)}
<1>2. ASSUME NEW k \in Nat, \A m \in Nat : m < k => Ok(m) PROVE Ok(k)
  <2> SUFFICES ASSUME i < k, k <= Len(hs) PROVE c[i] < c[k]
    OBVIOUS
  <2>1. k \in 1..Len(hs) /\ k - 1 \in Nat /\ k - 1 < k /\ k - 1 <= Len(hs) /\ (i < k - 1 \/ i = k - 1)
    BY <1>1
  <2>2. c[k - 1] < c[k] /\ c[k - 1] \in Nat /\ c[k] \in Nat
    BY <2>1, LayoutFacts
  <2>3. i < k - 1 => c[i] < c[k - 1]
    BY <1>2, <2>1
  <2> QED
    BY <1>1, <2>1, <2>2, <2>3
<1>3. Inductive(S)
  <2> HIDE DEF Ok
  <2> QED
    BY <1>2 DEF Inductive
<1>4. j \in Nat /\ Ok(j)
  BY <1>1, <1>3, StrongInduction
<1> QED
  BY <1>1, <1>4

\* Mountains get lower from left to right.
LEMMA NextIsLower ==
    ASSUME NEW n \in Nat, NEW hs, NEW c, NEW q, Layout(n, hs, c, q),
           NEW i \in 1..Len(hs), i > 1
    PROVE  hs[i] < hs[i - 1]
<1>1. i - 1 \in 1..Len(hs) /\ i - 1 \in Nat
  BY LayoutLength
<1>2. hs[i] \in Nat /\ Aligned(c[i - 1], hs[i] + 1)
  BY LayoutFacts
<1>3. hs[i - 1] \in Nat /\ ~Aligned(c[i - 1], hs[i - 1] + 1)
  BY <1>1, LayoutFacts
<1>4. ASSUME hs[i - 1] <= hs[i] PROVE FALSE
  <2>1. hs[i] + 1 \in Nat /\ hs[i - 1] + 1 \in 0..hs[i] + 1
    BY <1>2, <1>3, <1>4
  <2> QED
    BY <1>2, <1>3, <2>1, AlignedBelow
<1> QED
  BY <1>2, <1>3, <1>4

LEMMA HeightsDescend ==
    ASSUME NEW n \in Nat, NEW hs, NEW c, NEW q, Layout(n, hs, c, q),
           NEW i \in 1..Len(hs), NEW j \in 1..Len(hs), i < j
    PROVE  hs[j] < hs[i] /\ hs[j] \in Nat /\ hs[i] \in Nat
<1>1. Len(hs) \in Nat /\ \A k \in 1..Len(hs) : hs[k] \in Nat
  BY LayoutLength
<1> DEFINE Ok(k) == i < k /\ k <= Len(hs) => hs[k] < hs[i]
           S == {k \in Nat : Ok(k)}
<1>2. ASSUME NEW k \in Nat, \A m \in Nat : m < k => Ok(m) PROVE Ok(k)
  <2> SUFFICES ASSUME i < k, k <= Len(hs) PROVE hs[k] < hs[i]
    OBVIOUS
  <2>1. /\ k \in 1..Len(hs) /\ k > 1 /\ k - 1 \in 1..Len(hs) /\ k - 1 \in Nat /\ k - 1 < k
        /\ k - 1 <= Len(hs) /\ (i < k - 1 \/ i = k - 1)
    BY <1>1
  <2>2. hs[k] < hs[k - 1]
    BY <2>1, NextIsLower
  <2>3. i < k - 1 => hs[k - 1] < hs[i]
    BY <1>2, <2>1
  <2>4. hs[k] \in Nat /\ hs[k - 1] \in Nat /\ hs[i] \in Nat
    BY <1>1, <2>1
  <2> QED
    BY <2>1, <2>2, <2>3, <2>4
<1>3. Inductive(S)
  <2> HIDE DEF Ok
  <2> QED
    BY <1>2 DEF Inductive
<1>4. j \in Nat /\ Ok(j)
  BY <1>1, <1>3, StrongInduction
<1> QED
  BY <1>1, <1>4

\* Every leaf is in a mountain.
LEMMA WhichMountain ==
    ASSUME NEW n \in Nat, NEW hs, NEW c, NEW q, Layout(n, hs, c, q), NEW E \in 1..n
    PROVE  \E i \in 1..Len(hs) : c[i - 1] < E /\ E <= c[i]
<1>1. Len(hs) \in Nat /\ c \in [0..Len(hs) -> Nat] /\ c[0] = 0 /\ c[Len(hs)] = n
  BY LayoutLength
<1> DEFINE S == {i \in Nat : i <= Len(hs) /\ E <= c[i]}
<1>2. PICK i \in S : \A k \in S : i <= k
  <2>1. S \in SUBSET Nat /\ Len(hs) \in S
    BY <1>1
  <2> HIDE DEF S
  <2> QED
    BY <2>1, LeastElement
<1>3. i \in Nat /\ i <= Len(hs) /\ E <= c[i] /\ i # 0
  BY <1>1, <1>2
<1>4. i \in 1..Len(hs) /\ i - 1 \in Nat /\ i - 1 \in 0..Len(hs) /\ ~(i <= i - 1) /\ i - 1 <= Len(hs)
  BY <1>1, <1>3
<1>5. i - 1 \notin S
  <2> HIDE DEF S
  <2> QED
    BY <1>2, <1>4
<1>6. c[i - 1] \in Nat /\ ~(E <= c[i - 1])
  BY <1>1, <1>4, <1>5
<1> QED
  BY <1>3, <1>4, <1>6

\* A subtree is part of the mountain its leaves are in.
LEMMA UnderMountain ==
    ASSUME NEW n \in Nat, NEW hs, NEW c, NEW q, Layout(n, hs, c, q), NEW i \in 1..Len(hs),
           NEW g \in Nat, NEW j \in Nat, c[i - 1] < End(g, j), End(g, j) <= c[i]
    PROVE  Under(g, j, hs[i], q[i])
<1>1. /\ hs[i] \in Nat /\ q[i] \in Nat /\ c[i] \in Nat /\ c[i - 1] \in Nat
      /\ c[i - 1] = q[i] * Power[hs[i]] /\ c[i] = End(hs[i], q[i])
      /\ c[i] = c[i - 1] + Power[hs[i]]
      /\ Aligned(c[i], hs[i]) /\ ~Aligned(c[i], hs[i] + 1) /\ Aligned(c[i - 1], hs[i] + 1)
  BY LayoutFacts
<1>2. End(g, j) \in Nat /\ Aligned(End(g, j), g)
  BY EndFacts
<1>3. ASSUME hs[i] < g PROVE FALSE
  <2>1. hs[i] + 1 \in 0..g /\ hs[i] \in 0..g /\ hs[i] \in 0..hs[i] + 1 /\ hs[i] + 1 \in Nat
    BY <1>1, <1>3
  <2>2. Aligned(End(g, j), hs[i]) /\ Aligned(End(g, j), hs[i] + 1) /\ Aligned(c[i - 1], hs[i])
    BY <1>1, <1>2, <2>1, AlignedBelow
  <2>3. c[i - 1] + Power[hs[i]] <= End(g, j)
    BY <1>1, <2>2, AlignedSteps
  <2>4. End(g, j) = c[i]
    BY <1>1, <1>2, <2>3
  <2> QED
    BY <1>1, <2>2, <2>4
<1> QED
  BY <1>1, <1>2, <1>3 DEF Under

\* _find_containing_peak.
LEMMA FindsMountain ==
    ASSUME NEW n \in Nat, NEW hs, NEW c, NEW q, Layout(n, hs, c, q), NEW i \in 1..Len(hs),
           NEW g \in Nat, NEW j \in Nat, c[i - 1] < End(g, j), End(g, j) <= c[i]
    PROVE  FindContainingPeak(PositionOf(g, j), Peaks(SizeOf[n])) = i
<1> DEFINE pks == Peaks(SizeOf[n])
           pos == PositionOf(g, j)
           Within(k) == pks[k] - MountainSize(HeightAt(pks[k])) < pos /\ pos <= pks[k]
<1>1. pks = [k \in 1..Len(hs) |-> PositionOf(hs[k], q[k])] /\ DOMAIN pks = 1..Len(hs)
  BY PeaksOfSize
<1>2. pos \in Nat
  BY PositionBounds
<1>3. ASSUME NEW k \in 1..Len(hs)
      PROVE  /\ Within(k) <=> SizeOf[c[k - 1]] <= pos /\ pos < SizeOf[c[k]]
             /\ c[k - 1] \in Nat /\ c[k] \in Nat /\ SizeOf[c[k - 1]] \in Nat /\ SizeOf[c[k]] \in Nat
  <2>1. /\ hs[k] \in Nat /\ q[k] \in Nat /\ c[k - 1] \in Nat /\ c[k] \in Nat
        /\ PositionOf(hs[k], q[k]) + 1 = SizeOf[c[k]]
        /\ SizeOf[c[k]] = SizeOf[c[k - 1]] + MountainSize(hs[k])
        /\ PositionOf(hs[k], q[k]) \in Nat
        /\ SizeOf[c[k - 1]] \in Nat /\ SizeOf[c[k]] \in Nat
    BY LayoutFacts
  <2>2. pks[k] = PositionOf(hs[k], q[k])
    BY <1>1
  <2>3. HeightAt(pks[k]) = hs[k]
    BY <2>1, <2>2, HeightOfPosition
  <2>4. MountainSize(hs[k]) \in Nat
    BY <2>1, MountainSizes
  <2> HIDE DEF pos, pks
  <2> DEFINE p == PositionOf(hs[k], q[k])
             t == SizeOf[c[k]]
             s == SizeOf[c[k - 1]]
             m == MountainSize(hs[k])
  <2>5. p \in Nat /\ t \in Nat /\ s \in Nat /\ m \in Nat /\ p + 1 = t /\ t = s + m
    BY <2>1, <2>4
  <2>6. Within(k) <=> p - m < pos /\ pos <= p
    BY <2>2, <2>3
  <2> HIDE DEF p, t, s, m, Within
  <2>7. Within(k) <=> s <= pos /\ pos < t
    BY <1>2, <2>5, <2>6
  <2> QED
    BY <2>1, <2>7 DEF s, t
<1>4. Under(g, j, hs[i], q[i])
  BY UnderMountain
<1>5. Within(i)
  <2>1. /\ c[i - 1] = q[i] * Power[hs[i]] /\ PositionOf(hs[i], q[i]) + 1 = SizeOf[c[i]]
        /\ PositionOf(hs[i], q[i]) \in Nat
    BY LayoutFacts
  <2>2. SizeOf[c[i - 1]] <= pos /\ pos <= PositionOf(hs[i], q[i])
    BY <1>4, <2>1, UnderPosition
  <2> HIDE DEF Within, pos
  <2> QED
    BY <1>2, <1>3, <2>1, <2>2
<1>6. ASSUME NEW k \in 1..Len(hs), Within(k) PROVE k = i
  <2>1. ASSUME NEW a \in 1..Len(hs), NEW b \in 1..Len(hs), a < b, Within(a), Within(b)
        PROVE  FALSE
    <3>1. a \in 0..Len(hs) /\ b - 1 \in 0..Len(hs) /\ (a < b - 1 \/ a = b - 1)
      BY <2>1, LayoutLength
    <3>2. a < b - 1 => c[a] < c[b - 1]
      BY <3>1, EndsInOrder
    <3>3. SizeOf[c[a]] <= SizeOf[c[b - 1]]
      <4>1. c[a] \in Nat /\ c[b - 1] \in Nat /\ SizeOf[c[a]] \in Nat /\ SizeOf[c[b - 1]] \in Nat
        BY <1>3
      <4>2. c[a] < c[b - 1] => SizeOf[c[a]] < SizeOf[c[b - 1]]
        BY <4>1, SizeGrows
      <4> QED
        BY <3>1, <3>2, <4>1, <4>2
    <3>4. pos < SizeOf[c[a]] /\ SizeOf[c[b - 1]] <= pos
      BY <1>3, <2>1
    <3> HIDE DEF pos
    <3> QED
      BY <1>2, <1>3, <3>3, <3>4, SMTT(30)
  <2> HIDE DEF Within
  <2> QED
    BY <1>5, <1>6, <2>1, LayoutLength
<1>7. FindContainingPeak(pos, pks) = CHOOSE k \in DOMAIN pks : Within(k)
  BY DEF FindContainingPeak
<1> HIDE DEF Within
<1> QED
  BY <1>1, <1>5, <1>6, <1>7


\* leaf_count undoes node_count.
LEMMA LeafCountOfSize == \A n \in Nat : LeafCount(SizeOf[n]) = n
<1> SUFFICES ASSUME NEW n \in Nat PROVE LeafCount(SizeOf[n]) = n
  OBVIOUS
<1>0. PICK hs, c, q : Layout(n, hs, c, q)
  BY LayoutExists
<1> DEFINE L == Len(hs)
           pks == Peaks(SizeOf[n])
           IsSum(f) == f = [i \in 0..Len(pks) |-> IF i = 0 THEN 0
                                                 ELSE f[i - 1] + Power[HeightAt(pks[i])]]
           sum == CHOOSE f : IsSum(f)
<1>1. L \in Nat /\ c \in [0..L -> Nat] /\ c[0] = 0 /\ c[L] = n
  BY <1>0, LayoutLength
<1>2. pks = [i \in 1..L |-> PositionOf(hs[i], q[i])] /\ Len(pks) = L
  <2>1. pks = [i \in 1..L |-> PositionOf(hs[i], q[i])]
    BY <1>0, PeaksOfSize
  <2> HIDE DEF pks, L
  <2>2. DOMAIN pks = 1..L
    BY <2>1
  <2>3. Len(pks) = L
    BY <1>1, <2>1
  <2> QED
    BY <2>1, <2>3
<1>3. LeafCount(SizeOf[n]) = sum[Len(pks)]
  BY DEF LeafCount
<1> HIDE DEF sum
<1>4. ASSUME NEW i \in 1..L
      PROVE  /\ c[i] = c[i - 1] + Power[HeightAt(pks[i])]
             /\ i \in 0..L /\ i - 1 \in 0..L
  <2>1. hs[i] \in Nat /\ q[i] \in Nat /\ c[i] = c[i - 1] + Power[hs[i]]
        /\ i \in 0..L /\ i - 1 \in 0..L
    BY <1>0, LayoutFacts
  <2>2. HeightAt(pks[i]) = hs[i]
    BY <1>2, <2>1, HeightOfPosition
  <2> QED
    BY <2>1, <2>2
<1> HIDE DEF pks, L
<1>5. IsSum(c)
  <2>1. \A i \in 0..L : c[i] = IF i = 0 THEN 0 ELSE c[i - 1] + Power[HeightAt(pks[i])]
    <3> SUFFICES ASSUME NEW i \in 0..L
                 PROVE  c[i] = IF i = 0 THEN 0 ELSE c[i - 1] + Power[HeightAt(pks[i])]
      OBVIOUS
    <3>1. i # 0 => i \in 1..L
      BY <1>1
    <3> QED
      BY <1>1, <1>4, <3>1
  <2>2. c = [i \in 0..L |-> c[i]]
    BY <1>1
  <2>3. c = [i \in 0..L |-> IF i = 0 THEN 0 ELSE c[i - 1] + Power[HeightAt(pks[i])]]
    BY <2>1, <2>2
  <2> QED
    BY <1>2, <2>3
<1>6. IsSum(sum)
  BY <1>5 DEF sum
<1> DEFINE Ok(k) == k <= L => sum[k] = c[k]
           S == {k \in Nat : Ok(k)}
<1>7. ASSUME NEW k \in Nat, \A m \in Nat : m < k => Ok(m) PROVE Ok(k)
  <2> SUFFICES ASSUME k <= L PROVE sum[k] = c[k]
    OBVIOUS
  <2>1. k \in 0..L
    BY <1>1
  <2>2. CASE k = 0
    BY <1>1, <1>2, <1>6, <2>1, <2>2
  <2>3. CASE k # 0
    <3>1. k \in 1..L /\ k - 1 \in Nat /\ k - 1 < k /\ k - 1 <= L
      BY <1>1, <2>1, <2>3
    <3>2. sum[k - 1] = c[k - 1]
      BY <1>7, <3>1
    <3>3. sum[k] = sum[k - 1] + Power[HeightAt(pks[k])]
      BY <1>2, <1>6, <2>1, <2>3
    <3> QED
      BY <1>4, <3>1, <3>2, <3>3
  <2> QED
    BY <2>2, <2>3
<1>8. Inductive(S)
  <2> HIDE DEF Ok
  <2> QED
    BY <1>7 DEF Inductive
<1>9. Ok(L)
  BY <1>1, <1>8, StrongInduction
<1> QED
  BY <1>1, <1>2, <1>3, <1>9

\* A size is valid if it is the size of some leaves.
LEMMA SizesAreValid == \A n \in Nat : ValidSize(SizeOf[n])
<1> SUFFICES ASSUME NEW n \in Nat PROVE ValidSize(SizeOf[n])
  OBVIOUS
<1>1. PICK hs, c, q : Layout(n, hs, c, q)
  BY LayoutExists
<1>2. hs = MountainsOf[SizeOf[n]]
  BY <1>1 DEF Layout
<1>3. \A i \in 2..Len(hs) : i \in 1..Len(hs) /\ i > 1
  BY <1>1, LayoutLength
<1>4. \A i \in 2..Len(hs) : hs[i] < hs[i - 1]
  BY <1>1, <1>3, NextIsLower
<1> QED
  BY <1>2, <1>4 DEF ValidSize

LEMMA ValidIsSize == \A size \in Nat : ValidSize(size) => \E n \in Nat : size = SizeOf[n]
<1> DEFINE Ok(s) == ValidSize(s) => \E n \in Nat : s = SizeOf[n]
           S == {s \in Nat : Ok(s)}
<1>1. ASSUME NEW s \in Nat, \A r \in Nat : r < s => Ok(r) PROVE Ok(s)
  <2> SUFFICES ASSUME ValidSize(s) PROVE \E n \in Nat : s = SizeOf[n]
    OBVIOUS
  <2>1. CASE s = 0
    BY <2>1, SizeEquation
  <2>2. CASE s # 0
    <3>1. PICK h \in 0..s : Largest(h, s)
      BY <2>2, LargestExists
    <3> DEFINE r == s - MountainSize(h)
               hs == MountainsOf[s]
               gs == MountainsOf[r]
    <3>2. /\ h \in Nat /\ MountainSize(h) \in Nat \ {0} /\ MountainSize(h) <= s
          /\ s < 2 * MountainSize(h) + 1 /\ MountainSize(h) = SizeOf[Power[h]]
          /\ MountainSize(h + 1) = 2 * MountainSize(h) + 1
      BY <3>1, MountainSizes DEF Largest
    <3>3. r \in Nat /\ r < s /\ r <= MountainSize(h) /\ s = MountainSize(h) + r
      BY <3>2
    <3>4. hs = <<h>> \o gs
      BY <2>2, <3>1, <3>2, MountainsEquation
    <3>5. gs \in Seq(Nat) /\ Len(gs) \in Nat
      BY <3>3, MountainsType
    <3> HIDE DEF r, hs, gs
    <3>6. /\ Len(hs) = Len(gs) + 1 /\ hs[1] = h
          /\ \A i \in 1..Len(gs) : hs[i + 1] = gs[i]
      <4>1. <<h>> \in Seq(Nat) /\ Len(<<h>>) = 1
        BY <3>2
      <4> QED
        BY <3>4, <3>5, <4>1
    <3>7. \A i \in 2..Len(hs) : hs[i] < hs[i - 1]
      BY DEF ValidSize, hs
    <3>8. ValidSize(r)
      <4>1. ASSUME NEW i \in 2..Len(gs) PROVE gs[i] < gs[i - 1]
        <5>1. /\ i \in 1..Len(gs) /\ i - 1 \in 1..Len(gs) /\ i + 1 \in 2..Len(hs)
              /\ (i + 1) - 1 = i /\ (i - 1) + 1 = i
          BY <3>5, <3>6
        <5>2. hs[i + 1] < hs[i]
          BY <3>7, <5>1
        <5> QED
          BY <3>6, <5>1, <5>2
      <4> QED
        BY <4>1 DEF ValidSize, gs
    <3>9. PICK m \in Nat : r = SizeOf[m]
      BY <1>1, <3>3, <3>8
    <3>10. r # MountainSize(h)
      <4> SUFFICES ASSUME r = MountainSize(h) PROVE FALSE
        OBVIOUS
      <4>1. r \in Nat \ {0} /\ Largest(h, r)
        BY <3>2, <3>3 DEF Largest
      <4>2. gs = <<h>> \o MountainsOf[r - MountainSize(h)]
        BY <3>2, <4>1, MountainsEquation DEF gs
      <4>3. r - MountainSize(h) \in Nat
        BY <3>2, <3>3
      <4>4. MountainsOf[r - MountainSize(h)] \in Seq(Nat)
        BY <4>3, MountainsType
      <4>5. Len(gs) >= 1 /\ gs[1] = h
        BY <3>2, <4>2, <4>4
      <4>6. 2 \in 2..Len(hs) /\ 1 \in 1..Len(gs) /\ 1 + 1 = 2 /\ 2 - 1 = 1
        BY <3>5, <3>6, <4>5
      <4>7. hs[2] < hs[1] /\ hs[2] = h
        BY <3>6, <3>7, <4>5, <4>6
      <4> QED
        BY <3>2, <3>6, <4>7
    <3>11. m < Power[h]
      <4>1. SizeOf[m] < SizeOf[Power[h]]
        BY <3>2, <3>3, <3>9, <3>10
      <4>2. Power[h] \in Nat
        BY <3>2, PowerFacts
      <4> QED
        BY <4>1, <4>2, SizesInOrder
    <3>12. s = SizeOf[Power[h] + m] /\ Power[h] + m \in Nat
      <4>1. SizeOf[Power[h] + m] = MountainSize(h) + SizeOf[m]
        BY <3>2, <3>11, MountainsOfSize
      <4>2. Power[h] \in Nat
        BY <3>2, PowerFacts
      <4> QED
        BY <3>3, <3>9, <4>1, <4>2
    <3> QED
      BY <3>12
  <2> QED
    BY <2>1, <2>2
<1>2. Inductive(S)
  <2> HIDE DEF Ok
  <2> QED
    BY <1>1 DEF Inductive
<1> QED
  BY <1>2, StrongInduction


-----------------------------------------------------------------------------
(* Appending.                                                                *)

\* The mountains a new leaf completes are those of heights 0, 1, .., t - 1.
Merging(hs, t) ==
    /\ t \in 0..Len(hs)
    /\ \A j \in 0..t - 1 : hs[Len(hs) - j] = j
    /\ t < Len(hs) => hs[Len(hs) - t] # t

\* There is one such t, and add_leaf finds it.
LEMMA MergingExists ==
    ASSUME NEW hs \in Seq(Nat)
    PROVE  \E t : Merging(hs, t)
<1> DEFINE L == Len(hs)
           S == {k \in Nat : k <= L /\ (k < L => hs[L - k] # k)}
<1>1. L \in Nat
  OBVIOUS
<1>2. PICK t \in S : \A k \in S : t <= k
  <2>1. S \in SUBSET Nat /\ L \in S
    BY <1>1
  <2> HIDE DEF S
  <2> QED
    BY <2>1, LeastElement
<1>3. t \in 0..L /\ (t < L => hs[L - t] # t)
  BY <1>1, <1>2
<1>4. ASSUME NEW j \in 0..t - 1 PROVE hs[L - j] = j
  <2>1. j \in Nat /\ j < L /\ ~(t <= j)
    BY <1>1, <1>3
  <2>2. j \notin S
    <3> HIDE DEF S
    <3> QED
      BY <1>2, <2>1
  <2> QED
    BY <2>1, <2>2
<1> QED
  BY <1>3, <1>4 DEF Merging

LEMMA MergingIsOne ==
    ASSUME NEW hs \in Seq(Nat), NEW s, NEW t, Merging(hs, s), Merging(hs, t)
    PROVE  s = t
<1>1. \A a, b : Merging(hs, a) /\ Merging(hs, b) => ~(a < b)
  <2> SUFFICES ASSUME NEW a, NEW b, Merging(hs, a), Merging(hs, b), a < b PROVE FALSE
    OBVIOUS
  <2>1. Len(hs) \in Nat /\ a \in 0..Len(hs) /\ b \in 0..Len(hs)
    BY DEF Merging
  <2>2. a \in 0..b - 1 /\ a < Len(hs)
    BY <2>1
  <2> QED
    BY <2>2 DEF Merging
<1>2. s \in Int /\ t \in Int
  BY DEF Merging
<1>3. ~(s < t) /\ ~(t < s)
  BY <1>1
<1> QED
  BY <1>2, <1>3

LEMMA MergedPeaksIs ==
    ASSUME NEW n \in Nat, NEW hs, NEW c, NEW q, Layout(n, hs, c, q)
    PROVE  Merging(hs, MergedPeaks(SizeOf[n]))
<1> DEFINE pks == Peaks(SizeOf[n])
           L == Len(hs)
           Is(k) == /\ \A j \in 0..k - 1 : HeightAt(pks[Len(pks) - j]) = j
                    /\ k < Len(pks) => HeightAt(pks[Len(pks) - k]) # k
<1>1. L \in Nat /\ hs \in Seq(Nat)
  BY LayoutLength
<1>2. pks = [i \in 1..L |-> PositionOf(hs[i], q[i])]
  BY PeaksOfSize
<1>3. Len(pks) = L
  <2> HIDE DEF pks, L
  <2> QED
    BY <1>1, <1>2
<1>4. ASSUME NEW i \in 1..L PROVE HeightAt(pks[i]) = hs[i]
  <2>1. hs[i] \in Nat /\ q[i] \in Nat
    BY LayoutFacts
  <2> QED
    BY <1>2, <2>1, HeightOfPosition
<1>5. MergedPeaks(SizeOf[n]) = CHOOSE k \in 0..Len(pks) : Is(k)
  BY DEF MergedPeaks
<1> HIDE DEF pks
<1>6. ASSUME NEW k \in 0..L PROVE Is(k) <=> Merging(hs, k)
  <2>1. \A j \in 0..k - 1 : L - j \in 1..L
    BY <1>1
  <2>2. k < L => L - k \in 1..L
    BY <1>1
  <2> HIDE DEF L
  <2>3. Merging(hs, k) <=> /\ \A j \in 0..k - 1 : hs[L - j] = j
                           /\ k < L => hs[L - k] # k
    BY DEF Merging, L
  <2> QED
    BY <1>3, <1>4, <2>1, <2>2, <2>3
<1>7. PICK t : Merging(hs, t)
  BY <1>1, MergingExists
<1>8. t \in 0..L
  BY <1>7 DEF Merging
<1> HIDE DEF Is
<1>9. \E k \in 0..Len(pks) : Is(k)
  BY <1>3, <1>6, <1>7, <1>8
<1>10. MergedPeaks(SizeOf[n]) \in 0..L /\ Is(MergedPeaks(SizeOf[n]))
  BY <1>3, <1>5, <1>9
<1> QED
  BY <1>6, <1>10

\* They end where the new leaf's subtrees of those heights would start.
LEMMA MergedEnds ==
    ASSUME NEW n \in Nat, NEW hs, NEW c, NEW q, Layout(n, hs, c, q),
           NEW t, Merging(hs, t), NEW j \in 0..t
    PROVE  /\ Len(hs) - j \in 0..Len(hs)
           /\ c[Len(hs) - j] \in Nat /\ c[Len(hs) - j] + Power[j] = n + 1
<1> DEFINE L == Len(hs)
           Ok(k) == k <= t => c[L - k] + Power[k] = n + 1
           S == {k \in Nat : Ok(k)}
<1>1. L \in Nat /\ c \in [0..L -> Nat] /\ c[L] = n /\ t \in 0..L
  BY LayoutLength DEF Merging
<1>2. ASSUME NEW k \in Nat, \A m \in Nat : m < k => Ok(m) PROVE Ok(k)
  <2> SUFFICES ASSUME k <= t PROVE c[L - k] + Power[k] = n + 1
    OBVIOUS
  <2>1. CASE k = 0
    <3>1. L - 0 = L
      BY <1>1
    <3> QED
      BY <1>1, <2>1, <3>1, PowerEquation
  <2>2. CASE k # 0
    <3>1. PICK m \in Nat : k = m + 1 /\ m < k /\ m <= t /\ m \in 0..t - 1
      <4>1. k - 1 \in Nat /\ k = (k - 1) + 1 /\ k - 1 < k /\ k - 1 <= t /\ k - 1 \in 0..t - 1
        BY <1>1, <2>2
      <4> QED
        BY <4>1
    <3>2. L - m \in 1..L /\ (L - m) - 1 = L - k
      BY <1>1, <3>1
    <3>3. hs[L - m] = m
      BY <3>1 DEF Merging
    <3>4. c[L - m] = c[L - k] + Power[m] /\ c[L - k] \in Nat
      <4> DEFINE i == L - m
      <4>1. i \in 1..Len(hs) /\ i - 1 = L - k /\ hs[i] = m
        BY <3>2, <3>3
      <4> HIDE DEF i
      <4>2. c[i] = c[i - 1] + Power[hs[i]] /\ c[i - 1] \in Nat
        BY <4>1, LayoutFacts, SMTT(30)
      <4>3. c[i] = c[L - k] + Power[m] /\ c[L - k] \in Nat
        BY <4>1, <4>2
      <4> QED
        BY <4>3 DEF i
    <3> HIDE DEF L
    <3>5. c[L - m] + Power[m] = n + 1
      BY <1>2, <3>1
    <3>6. Power[k] = 2 * Power[m] /\ Power[m] \in Nat
      BY <3>1, PowerFacts
    <3> QED
      BY <3>4, <3>5, <3>6
  <2> QED
    BY <2>1, <2>2
<1>3. Inductive(S)
  <2> HIDE DEF Ok
  <2> QED
    BY <1>2 DEF Inductive
<1>4. Ok(j)
  BY <1>1, <1>3, StrongInduction
<1>5. L - j \in 0..L
  BY <1>1
<1> QED
  BY <1>1, <1>4, <1>5

\* With its leaf and t parents the store has the size of one leaf more.
LEMMA NewAligned ==
    ASSUME NEW n \in Nat, NEW hs, NEW c, NEW q, Layout(n, hs, c, q), NEW t, Merging(hs, t)
    PROVE  /\ t \in Nat /\ Aligned(n + 1, t) /\ ~Aligned(n + 1, t + 1)
           /\ SizeOf[n + 1] = SizeOf[n] + t + 1
<1> DEFINE L == Len(hs)
<1>1. /\ L \in Nat /\ c \in [0..L -> Nat] /\ c[0] = 0 /\ c[L] = n /\ t \in 0..L /\ t \in Nat
      /\ hs \in Seq(Nat)
  BY LayoutLength DEF Merging
<1>2. c[L - t] \in Nat /\ c[L - t] + Power[t] = n + 1
  BY <1>1, MergedEnds, SMTT(30)
<1>3. Aligned(c[L - t], t + 1)
  <2>1. CASE t = L
    <3>1. L - t = 0 /\ t + 1 \in Nat
      BY <1>1, <2>1
    <3>2. 0 = 0 * Power[t + 1] /\ 0 \in Nat
      <4>1. Power[t + 1] \in Nat
        BY <3>1, PowerFacts
      <4> QED
        BY <4>1
    <3> QED
      BY <1>1, <3>1, <3>2 DEF Aligned
  <2>2. CASE t < L
    <3>1. L - t \in 1..L /\ hs[L - t] # t
      BY <1>1, <2>2 DEF Merging
    <3>2. hs[L - t] \in Nat /\ Aligned(c[L - t], hs[L - t])
      BY <3>1, LayoutFacts
    <3>3. hs[L - t] >= t
      <4>1. CASE t = 0
        BY <3>2, <4>1
      <4>2. CASE t # 0
        <5>1. t - 1 \in 0..t - 1 /\ L - (t - 1) \in 1..L /\ L - t < L - (t - 1)
          BY <1>1, <4>2, <2>2
        <5>2. hs[L - (t - 1)] = t - 1
          BY <5>1 DEF Merging
        <5>3. hs[L - (t - 1)] < hs[L - t]
          BY <3>1, <5>1, HeightsDescend
        <5> QED
          BY <1>1, <3>2, <5>2, <5>3
      <4> QED
        BY <4>1, <4>2
    <3>4. t + 1 \in 0..hs[L - t]
      BY <1>1, <3>1, <3>2, <3>3
    <3> QED
      BY <3>2, <3>4, AlignedBelow
  <2> QED
    BY <1>1, <2>1, <2>2
<1>4. ~Aligned(n + 1, t + 1)
  <2>1. ~Aligned(c[L - t] + Power[t], t + 1)
    BY <1>1, <1>3, NotAlignedHigher
  <2> QED
    BY <1>2, <2>1
<1>5. Aligned(n + 1, t)
  <2>1. t \in 0..t + 1 /\ t + 1 \in Nat
    BY <1>1
  <2>2. Aligned(c[L - t], t)
    BY <1>3, <2>1, AlignedBelow
  <2>3. Aligned(Power[t], t)
    BY <1>1, <2>2, AlignedSteps
  <2>4. Aligned(c[L - t] + Power[t], t)
    BY <1>1, <2>2, <2>3, AlignedSteps
  <2> QED
    BY <1>2, <2>4
<1>6. SizeOf[n + 1] = SizeOf[n] + t + 1
  <2>1. n + 1 \in Nat \ {0} /\ (n + 1) - 1 = n
    OBVIOUS
  <2> QED
    BY <1>1, <1>4, <1>5, <2>1, SizeAtBoundary
<1> QED
  BY <1>1, <1>4, <1>5, <1>6

\* The nodes written with leaf number n: one of each height up to t, and where their
\* children are.
LEMMA NewPlaces ==
    ASSUME NEW n \in Nat, NEW hs, NEW c, NEW q, Layout(n, hs, c, q),
           NEW t, Merging(hs, t), NEW j \in 0..t
    PROVE  \E b \in Nat :
              /\ End(j, b) = n + 1 /\ PositionOf(j, b) = SizeOf[n] + j
              /\ j > 0 => /\ Len(hs) - j + 1 \in 1..Len(hs)
                          /\ Peaks(SizeOf[n])[Len(hs) - j + 1] = PositionOf(j - 1, 2 * b)
                          /\ End(j - 1, 2 * b) <= n
                          /\ PositionOf(j - 1, 2 * b + 1) = SizeOf[n] + (j - 1)
                          /\ End(j - 1, 2 * b + 1) = n + 1
<1> DEFINE L == Len(hs)
<1>1. t \in Nat /\ Aligned(n + 1, t) /\ t \in 0..L /\ L \in Nat
  BY NewAligned, LayoutLength DEF Merging
<1>2. j \in Nat /\ Aligned(n + 1, j)
  BY <1>1, AlignedBelow
<1>3. PICK b \in Nat : n + 1 = End(j, b)
  <2>1. n + 1 \in Nat \ {0}
    OBVIOUS
  <2> QED
    BY <1>2, <2>1, BlockOfEnd
<1>4. PositionOf(j, b) = SizeOf[n] + j
  <2>1. End(j, b) - 1 = n
    BY <1>3
  <2> QED
    BY <1>2, <2>1, PositionBounds
<1>5. ASSUME j > 0
      PROVE  /\ Len(hs) - j + 1 \in 1..Len(hs)
             /\ Peaks(SizeOf[n])[Len(hs) - j + 1] = PositionOf(j - 1, 2 * b)
             /\ End(j - 1, 2 * b) <= n
             /\ PositionOf(j - 1, 2 * b + 1) = SizeOf[n] + (j - 1)
             /\ End(j - 1, 2 * b + 1) = n + 1
  <2>1. PICK g \in Nat : j = g + 1 /\ j - 1 = g /\ g \in 0..t - 1 /\ g \in 0..t
    <3>1. j - 1 \in Nat /\ j = (j - 1) + 1 /\ j - 1 \in 0..t - 1 /\ j - 1 \in 0..t
      BY <1>1, <1>2, <1>5
    <3> QED
      BY <3>1
  <2> DEFINE i == L - g
  <2>2. i \in 1..L /\ L - j + 1 = i
    BY <1>1, <2>1
  <2>3. hs[i] = g
    BY <2>1 DEF Merging
  <2>4. c[i] \in Nat /\ c[i] + Power[g] = n + 1
    BY <2>1, MergedEnds
  <2>5. c[i] = End(g, q[i]) /\ q[i] \in Nat
    BY <2>2, <2>3, LayoutFacts, SMTT(30)
  <2>6. /\ End(g, 2 * b + 1) = End(g + 1, b)
        /\ End(g, 2 * b) = 2 * b * Power[g] + Power[g]
        /\ PositionOf(g, 2 * b + 1) = PositionOf(g + 1, b) - 1
        /\ 2 * b \in Nat /\ 2 * b + 1 \in Nat
    <3>1. 2 * b \in Nat /\ 2 * b + 1 \in Nat
      OBVIOUS
    <3> QED
      BY <2>1, <3>1, ChildPositions
  <2>7. End(g, 2 * b) + Power[g] = End(g, 2 * b + 1) /\ End(g, 2 * b) \in Nat
    <3>1. \A p \in Nat : (2 * b + 1) * p + p = (2 * b + 1 + 1) * p /\ (2 * b + 1) * p \in Nat
      OBVIOUS
    <3> QED
      BY <2>1, <3>1, PowerFacts DEF End
  <2>8. End(g, 2 * b) = c[i]
    <3>1. End(g, 2 * b) + Power[g] = n + 1
      BY <1>3, <2>1, <2>6, <2>7
    <3>2. Power[g] \in Nat
      BY <2>1, PowerFacts
    <3> QED
      BY <2>4, <2>7, <3>1, <3>2
  <2>9. q[i] = 2 * b
    BY <2>1, <2>5, <2>6, <2>8, EndInjective
  <2>10. Peaks(SizeOf[n])[i] = PositionOf(g, 2 * b)
    <3>1. Peaks(SizeOf[n]) = [k \in 1..Len(hs) |-> PositionOf(hs[k], q[k])]
      BY PeaksOfSize
    <3>2. i \in 1..Len(hs)
      BY <2>2
    <3>3. Peaks(SizeOf[n])[i] = PositionOf(hs[i], q[i])
      BY <3>1, <3>2
    <3> QED
      BY <2>3, <2>9, <3>3
  <2>11. End(g, 2 * b) <= n
    <3>1. Power[g] \in Nat /\ Power[g] >= 1
      BY <2>1, PowerFacts
    <3> QED
      BY <2>4, <2>8, <3>1
  <2>12. PositionOf(g, 2 * b + 1) = SizeOf[n] + g
    <3>1. SizeOf[n] \in Nat
      BY SizeType
    <3> QED
      BY <1>4, <2>1, <2>6, <3>1
  <2>13. End(g, 2 * b + 1) = n + 1
    BY <1>3, <2>1, <2>6
  <2> QED
    BY <2>1, <2>2, <2>10, <2>11, <2>12, <2>13
<1> QED
  BY <1>3, <1>4, <1>5

-----------------------------------------------------------------------------
(* Hashes of hashes.                                                         *)

\* A hash fixes what was hashed.
LEMMA HashesDiffer ==
    /\ \A x, y : LeafHash(x) = LeafHash(y) => x = y
    /\ \A a, b, p, c, d, q : InteriorHash(a, b, p) = InteriorHash(c, d, q) => a = c /\ b = d /\ p = q
    /\ \A a, b, c, d : Bag(a, b) = Bag(c, d) => a = c /\ b = d
<1>1. \A x, y : LeafHash(x) = LeafHash(y) => x = y
  <2> SUFFICES ASSUME NEW x, NEW y, LeafHash(x) = LeafHash(y) PROVE x = y
    OBVIOUS
  <2>1. LeafHash(x).at = x /\ LeafHash(y).at = y
    BY DEF LeafHash
  <2> QED
    BY <2>1
<1>2. ASSUME NEW a, NEW b, NEW p, NEW c, NEW d, NEW q, InteriorHash(a, b, p) = InteriorHash(c, d, q)
      PROVE  a = c /\ b = d /\ p = q
  <2>1. /\ InteriorHash(a, b, p).at = p /\ InteriorHash(a, b, p).of = <<a, b>>
        /\ InteriorHash(c, d, q).at = q /\ InteriorHash(c, d, q).of = <<c, d>>
    BY DEF InteriorHash
  <2>2. p = q /\ <<a, b>> = <<c, d>>
    BY <1>2, <2>1
  <2> QED
    BY <2>2
<1>3. ASSUME NEW a, NEW b, NEW c, NEW d, Bag(a, b) = Bag(c, d) PROVE a = c /\ b = d
  <2>1. Bag(a, b).of = <<a, b>> /\ Bag(c, d).of = <<c, d>>
    BY DEF Bag
  <2>2. <<a, b>> = <<c, d>>
    BY <1>3, <2>1
  <2> QED
    BY <2>2
<1> QED
  BY <1>1, <1>2, <1>3

\* One step of a fold: x is bagged, or joined with a node on its left or its right.
Fold1(x, st) ==
    CASE st.op = "bag" -> Bag(x, st.other)
      [] st.op = "left" -> InteriorHash(st.other, x, st.pos)
      [] OTHER -> InteriorHash(x, st.other, st.pos)

Folding(f, N, start, st) == f = [i \in 0..N |-> IF i = 0 THEN start ELSE Fold1(f[i - 1], st[i])]

\* A fold is a function.
LEMMA FoldExists ==
    ASSUME NEW N \in Nat, NEW start, NEW st
    PROVE  \E f : Folding(f, N, start, st)
<1> DEFINE D == 0..N
           Rhs(f, i) == IF i = 0 THEN start ELSE Fold1(f[i - 1], st[i])
           Good(f, k) == f = [i \in D |-> f[i]] /\ \A i \in D : i < k => f[i] = Rhs(f, i)
           Ok(k) == \E f : Good(f, k)
           S == {k \in Nat : Ok(k)}
<1>1. ASSUME NEW k \in Nat, \A m \in Nat : m < k => Ok(m) PROVE Ok(k)
  <2>1. CASE k = 0
    <3>1. Good([i \in D |-> 0], 0)
      OBVIOUS
    <3> QED
      BY <2>1, <3>1
  <2>2. CASE k # 0
    <3>1. PICK m \in Nat : k = m + 1 /\ m < k
      <4>1. k - 1 \in Nat /\ k = (k - 1) + 1 /\ k - 1 < k
        BY <2>2
      <4> QED
        BY <4>1
    <3>2. PICK f : Good(f, m)
      BY <1>1, <3>1
    <3> DEFINE g == [i \in D |-> IF i = m THEN Rhs(f, i) ELSE f[i]]
    <3>3. g = [i \in D |-> g[i]]
      OBVIOUS
    <3>4. ASSUME NEW i \in D, i < k PROVE g[i] = Rhs(g, i)
      <4>1. i < m \/ i = m
        BY <3>1, <3>4
      <4>2. i # 0 => i - 1 \in D /\ i - 1 # m
        BY <4>1
      <4>3. Rhs(g, i) = Rhs(f, i)
        BY <4>2
      <4>4. i < m => f[i] = Rhs(f, i)
        BY <3>2
      <4> HIDE DEF Rhs
      <4> QED
        BY <4>1, <4>3, <4>4
    <3>5. Good(g, k)
      <4> HIDE DEF g, Rhs
      <4> QED
        BY <3>3, <3>4
    <3> QED
      BY <3>5
  <2> QED
    BY <2>1, <2>2
<1>2. Inductive(S)
  <2> HIDE DEF Ok
  <2> QED
    BY <1>1 DEF Inductive
<1>3. PICK f : Good(f, N + 1)
  <2>1. N + 1 \in Nat
    OBVIOUS
  <2>2. Ok(N + 1)
    <3> HIDE DEF Ok
    <3> QED
      BY <1>2, <2>1, StrongInduction
  <2> QED
    BY <2>2
<1>4. \A i \in D : i < N + 1
  OBVIOUS
<1>5. f = [i \in D |-> Rhs(f, i)]
  <2> HIDE DEF Rhs
  <2> QED
    BY <1>3, <1>4
<1> QED
  BY <1>5 DEF Folding

\* bag_peaks.
Bagging(f, hashes) ==
    f = [k \in 0..Len(hashes) - 1 |->
            IF k = 0 THEN hashes[Len(hashes)] ELSE Bag(f[k - 1], hashes[Len(hashes) - k])]

\* RootFromPeaks is one.
LEMMA RootIsBagged ==
    ASSUME NEW hashes, Len(hashes) \in Nat \ {0}
    PROVE  \E f : Bagging(f, hashes) /\ RootFromPeaks(hashes) = f[Len(hashes) - 1]
<1> DEFINE last == Len(hashes)
           st == [k \in 1..last - 1 |-> [op |-> "bag", other |-> hashes[last - k], pos |-> 0]]
           bagged == CHOOSE f : Bagging(f, hashes)
<1>1. last - 1 \in Nat /\ last # 0
  OBVIOUS
<1>2. PICK f : Folding(f, last - 1, hashes[last], st)
  <2> HIDE DEF last, st
  <2> QED
    BY <1>1, FoldExists
<1>3. \A k \in 0..last - 1 : k # 0 => Fold1(f[k - 1], st[k]) = Bag(f[k - 1], hashes[last - k])
  <2> SUFFICES ASSUME NEW k \in 0..last - 1, k # 0
               PROVE  Fold1(f[k - 1], st[k]) = Bag(f[k - 1], hashes[last - k])
    OBVIOUS
  <2>1. k \in 1..last - 1
    BY <1>1
  <2>2. st[k] = [op |-> "bag", other |-> hashes[last - k], pos |-> 0]
    BY <2>1
  <2>3. st[k].op = "bag" /\ st[k].other = hashes[last - k]
    BY <2>2
  <2> QED
    BY <2>3 DEF Fold1
<1>4. Bagging(f, hashes)
  <2> HIDE DEF st
  <2> QED
    BY <1>2, <1>3 DEF Bagging, Folding
<1>5. Bagging(bagged, hashes)
  BY <1>4
<1>6. RootFromPeaks(hashes) = bagged[last - 1]
  BY <1>1 DEF RootFromPeaks, Bagging
<1> QED
  BY <1>5, <1>6

\* Equally many peaks with one root are the same peaks.
LEMMA RootFixesPeaks ==
    ASSUME NEW a, NEW b, Len(a) \in Nat, Len(a) = Len(b), RootFromPeaks(a) = RootFromPeaks(b)
    PROVE  \A i \in 1..Len(a) : a[i] = b[i]
<1> DEFINE last == Len(a)
<1> SUFFICES ASSUME last # 0 PROVE \A i \in 1..last : a[i] = b[i]
  OBVIOUS
<1>1. last \in Nat \ {0}
  OBVIOUS
<1>2. PICK f : Bagging(f, a) /\ RootFromPeaks(a) = f[last - 1]
  BY <1>1, RootIsBagged
<1>3. PICK g : Bagging(g, b) /\ RootFromPeaks(b) = g[last - 1]
  BY <1>1, RootIsBagged
<1>4. \A k \in 0..last - 1 : /\ f[k] = IF k = 0 THEN a[last] ELSE Bag(f[k - 1], a[last - k])
                             /\ g[k] = IF k = 0 THEN b[last] ELSE Bag(g[k - 1], b[last - k])
  BY <1>2, <1>3 DEF Bagging
<1> HIDE DEF last
<1> DEFINE Ok(d) == d <= last - 1 => f[last - 1 - d] = g[last - 1 - d]
           S == {d \in Nat : Ok(d)}
<1>5. ASSUME NEW d \in Nat, \A m \in Nat : m < d => Ok(m) PROVE Ok(d)
  <2> SUFFICES ASSUME d <= last - 1 PROVE f[last - 1 - d] = g[last - 1 - d]
    OBVIOUS
  <2>1. CASE d = 0
    <3>1. last - 1 - d = last - 1
      BY <1>1, <2>1
    <3> QED
      BY <1>2, <1>3, <3>1 DEF last
  <2>2. CASE d # 0
    <3> DEFINE k == last - 1 - (d - 1)
    <3>1. d - 1 \in Nat /\ d - 1 < d /\ d - 1 <= last - 1 /\ k \in 0..last - 1 /\ k # 0
          /\ k - 1 = last - 1 - d
      BY <1>1, <2>2
    <3>2. f[k] = g[k]
      BY <1>5, <3>1
    <3> HIDE DEF k
    <3>3. Bag(f[k - 1], a[last - k]) = Bag(g[k - 1], b[last - k])
      BY <1>4, <3>1, <3>2
    <3>4. f[k - 1] = g[k - 1]
      BY <3>3, HashesDiffer
    <3> QED
      BY <3>1, <3>4
  <2> QED
    BY <2>1, <2>2
<1>6. Inductive(S)
  <2> HIDE DEF Ok
  <2> QED
    BY <1>5 DEF Inductive
<1>7. \A k \in 0..last - 1 : f[k] = g[k]
  <2> SUFFICES ASSUME NEW k \in 0..last - 1 PROVE f[k] = g[k]
    OBVIOUS
  <2> DEFINE d == last - 1 - k
  <2>1. d \in Nat /\ d <= last - 1 /\ last - 1 - d = k
    BY <1>1
  <2>2. Ok(d)
    <3> HIDE DEF Ok, d
    <3> QED
      BY <1>6, <2>1, StrongInduction
  <2> HIDE DEF d
  <2> QED
    BY <2>1, <2>2
<1>8. ASSUME NEW i \in 1..last PROVE a[i] = b[i]
  <2>1. CASE i = last
    <3>1. 0 \in 0..last - 1
      BY <1>1
    <3> QED
      BY <1>4, <1>7, <2>1, <3>1
  <2>2. CASE i # last
    <3> DEFINE k == last - i
    <3>1. k \in 0..last - 1 /\ k # 0 /\ last - k = i
      BY <1>1, <2>2
    <3> HIDE DEF k
    <3>2. Bag(f[k - 1], a[i]) = Bag(g[k - 1], b[i])
      BY <1>4, <1>7, <3>1
    <3> QED
      BY <3>2, HashesDiffer
  <2> QED
    BY <2>1, <2>2
<1> QED
  BY <1>8

\* The verifiers' fold.
Climbing(f, start, path, siblings) ==
    f = [i \in 0..Len(path) |->
            IF i = 0 THEN start
            ELSE IF path[i].targetIsRight
                 THEN InteriorHash(siblings[i], f[i - 1], path[i].parent)
                 ELSE InteriorHash(f[i - 1], siblings[i], path[i].parent)]

\* Climb is one.
LEMMA ClimbIs ==
    ASSUME NEW start, NEW path, NEW siblings, Len(path) \in Nat
    PROVE  \E f : /\ Climbing(f, start, path, siblings)
                  /\ Climb(start, path, siblings) = f[Len(path)]
<1> DEFINE N == Len(path)
           st == [i \in 1..N |-> [op |-> IF path[i].targetIsRight THEN "left" ELSE "right",
                                  other |-> siblings[i], pos |-> path[i].parent]]
           at == CHOOSE f : Climbing(f, start, path, siblings)
<1>1. PICK f : Folding(f, N, start, st)
  <2>1. N \in Nat
    OBVIOUS
  <2> HIDE DEF N, st
  <2> QED
    BY <2>1, FoldExists
<1>2. ASSUME NEW i \in 0..N, i # 0
      PROVE  Fold1(f[i - 1], st[i]) = IF path[i].targetIsRight
                                      THEN InteriorHash(siblings[i], f[i - 1], path[i].parent)
                                      ELSE InteriorHash(f[i - 1], siblings[i], path[i].parent)
  <2>1. i \in 1..N
    BY <1>2
  <2>2. st[i] = [op |-> IF path[i].targetIsRight THEN "left" ELSE "right",
                 other |-> siblings[i], pos |-> path[i].parent]
    BY <2>1
  <2>3. /\ st[i].op = (IF path[i].targetIsRight THEN "left" ELSE "right")
        /\ st[i].other = siblings[i] /\ st[i].pos = path[i].parent
    BY <2>2
  <2> HIDE DEF st
  <2>4. CASE path[i].targetIsRight
    <3>1. st[i].op = "left"
      BY <2>3, <2>4
    <3> QED
      BY <2>3, <2>4, <3>1 DEF Fold1
  <2>5. CASE ~path[i].targetIsRight
    <3>1. st[i].op = "right"
      BY <2>3, <2>5
    <3> QED
      BY <2>3, <2>5, <3>1 DEF Fold1
  <2> QED
    BY <2>4, <2>5
<1>3. Climbing(f, start, path, siblings)
  <2> HIDE DEF st
  <2> QED
    BY <1>1, <1>2 DEF Climbing, Folding
<1>4. Climbing(at, start, path, siblings)
  BY <1>3
<1>5. Climb(start, path, siblings) = at[N]
  BY DEF Climb, Climbing
<1> QED
  BY <1>4, <1>5

\* Different hashes stay different on the way up.
LEMMA ClimbIsInjective ==
    ASSUME NEW x, NEW y, NEW path, NEW siblings, Len(path) \in Nat,
           Climb(x, path, siblings) = Climb(y, path, siblings)
    PROVE  x = y
<1> DEFINE N == Len(path)
<1>1. PICK f : Climbing(f, x, path, siblings) /\ Climb(x, path, siblings) = f[N]
  BY ClimbIs
<1>2. PICK g : Climbing(g, y, path, siblings) /\ Climb(y, path, siblings) = g[N]
  BY ClimbIs
<1> DEFINE Ok(d) == d <= N => f[N - d] = g[N - d]
           S == {d \in Nat : Ok(d)}
<1>3. ASSUME NEW d \in Nat, \A m \in Nat : m < d => Ok(m) PROVE Ok(d)
  <2> SUFFICES ASSUME d <= N PROVE f[N - d] = g[N - d]
    OBVIOUS
  <2>1. CASE d = 0
    <3>1. N - d = N
      BY <2>1
    <3> QED
      BY <1>1, <1>2, <3>1
  <2>2. CASE d # 0
    <3> DEFINE k == N - (d - 1)
    <3>1. d - 1 \in Nat /\ d - 1 < d /\ d - 1 <= N /\ k \in 0..N /\ k # 0 /\ k - 1 = N - d
      BY <2>2
    <3>2. f[k] = g[k]
      BY <1>3, <3>1
    <3> HIDE DEF k
    <3>3. /\ f[k] = IF path[k].targetIsRight
                    THEN InteriorHash(siblings[k], f[k - 1], path[k].parent)
                    ELSE InteriorHash(f[k - 1], siblings[k], path[k].parent)
          /\ g[k] = IF path[k].targetIsRight
                    THEN InteriorHash(siblings[k], g[k - 1], path[k].parent)
                    ELSE InteriorHash(g[k - 1], siblings[k], path[k].parent)
      BY <1>1, <1>2, <3>1 DEF Climbing
    <3>4. f[k - 1] = g[k - 1]
      <4>1. CASE path[k].targetIsRight
        <5>1. InteriorHash(siblings[k], f[k - 1], path[k].parent)
                 = InteriorHash(siblings[k], g[k - 1], path[k].parent)
          BY <3>2, <3>3, <4>1
        <5> QED
          BY <5>1, HashesDiffer
      <4>2. CASE ~path[k].targetIsRight
        <5>1. InteriorHash(f[k - 1], siblings[k], path[k].parent)
                 = InteriorHash(g[k - 1], siblings[k], path[k].parent)
          BY <3>2, <3>3, <4>2
        <5> QED
          BY <5>1, HashesDiffer
      <4> QED
        BY <4>1, <4>2
    <3> QED
      BY <3>1, <3>4
  <2> QED
    BY <2>1, <2>2
<1>4. Inductive(S)
  <2> HIDE DEF Ok
  <2> QED
    BY <1>3 DEF Inductive
<1>5. Ok(N)
  <2> HIDE DEF Ok
  <2> QED
    BY <1>4, StrongInduction
<1>6. f[0] = g[0]
  <2>1. N - N = 0
    OBVIOUS
  <2> QED
    BY <1>5, <2>1
<1> QED
  BY <1>1, <1>2, <1>6 DEF Climbing

-----------------------------------------------------------------------------
(* The tree over leaves.                                                     *)

\* The subtrees of n leaves are those that end among them.
LEMMA PlaceIsHere ==
    ASSUME NEW n \in Nat, NEW h \in Nat, NEW i \in Nat
    PROVE  <<h, i>> \in Places(n) <=> End(h, i) <= n
<1> DEFINE E == End(h, i)
<1>1. E \in Nat \ {0} /\ i < E /\ h < E /\ E = (i + 1) * Power[h]
  BY EndFacts DEF End
<1>2. E <= n => h \in 0..n /\ i \in 0..n
  <2> HIDE DEF E
  <2> QED
    BY <1>1
<1>3. <<h, i>> \in Places(n) <=> h \in 0..n /\ i \in 0..n /\ E <= n
  BY DEF Places, End
<1> QED
  BY <1>2, <1>3

LEMMA PlaceFacts ==
    ASSUME NEW n \in Nat, NEW p \in Places(n)
    PROVE  /\ p[1] \in Nat /\ p[2] \in Nat /\ p = <<p[1], p[2]>> /\ End(p[1], p[2]) <= n
           /\ p[1] <= n
<1>1. p \in (0..n) \X (0..n) /\ (p[2] + 1) * Power[p[1]] <= n
  BY DEF Places
<1>2. p[1] \in 0..n /\ p[2] \in 0..n /\ p = <<p[1], p[2]>>
  BY <1>1
<1> QED
  BY <1>1, <1>2 DEF End

LEMMA ChildPlaces ==
    ASSUME NEW n \in Nat, NEW p \in Places(n), p[1] # 0
    PROVE  /\ <<p[1] - 1, 2 * p[2]>> \in Places(n)
           /\ <<p[1] - 1, 2 * p[2] + 1>> \in Places(n)
<1>1. p[1] \in Nat /\ p[2] \in Nat /\ End(p[1], p[2]) <= n
  BY PlaceFacts
<1>2. PICK g \in Nat : p[1] = g + 1 /\ p[1] - 1 = g
  <2>1. p[1] - 1 \in Nat /\ p[1] = (p[1] - 1) + 1
    BY <1>1
  <2> QED
    BY <2>1
<1> DEFINE i == p[2]
<1>3. i \in Nat /\ 2 * i \in Nat /\ 2 * i + 1 \in Nat /\ End(g + 1, i) <= n
  BY <1>1, <1>2
<1> HIDE DEF i
<1>4. End(g, 2 * i + 1) = End(g + 1, i)
  BY <1>2, <1>3, ChildPositions
<1>5. End(g, 2 * i) <= End(g, 2 * i + 1) /\ End(g, 2 * i) \in Nat /\ End(g, 2 * i + 1) \in Nat
  <2>1. \A p1 \in Nat : (2 * i + 1) * p1 <= (2 * i + 1 + 1) * p1
    BY <1>3
  <2>2. Power[g] \in Nat
    BY <1>2, PowerFacts
  <2>3. End(g, 2 * i) \in Nat /\ End(g, 2 * i + 1) \in Nat
    BY <1>2, <1>3, EndFacts
  <2> QED
    BY <2>1, <2>2, <2>3 DEF End
<1>6. End(g, 2 * i) <= n /\ End(g, 2 * i + 1) <= n
  BY <1>3, <1>4, <1>5
<1>7. <<g, 2 * i>> \in Places(n) /\ <<g, 2 * i + 1>> \in Places(n)
  BY <1>2, <1>3, <1>6, PlaceIsHere
<1> QED
  BY <1>2, <1>7 DEF i

\* What Digests is.
Digesting(f, b) ==
    f = [p \in Places(Len(b)) |->
            IF p[1] = 0 THEN LeafHash(b[p[2] + 1])
            ELSE InteriorHash(f[<<p[1] - 1, 2 * p[2]>>],
                              f[<<p[1] - 1, 2 * p[2] + 1>>], PositionOf(p[1], p[2]))]

\* The reference's digests are the hashes of what is below them.
LEMMA DigestsAre == ASSUME NEW b, Len(b) \in Nat PROVE Digesting(Digests(b), b)
<1> DEFINE n == Len(b)
           D == Places(n)
           Rhs(f, p) == IF p[1] = 0 THEN LeafHash(b[p[2] + 1])
                        ELSE InteriorHash(f[<<p[1] - 1, 2 * p[2]>>],
                                          f[<<p[1] - 1, 2 * p[2] + 1>>], PositionOf(p[1], p[2]))
           Good(f, k) == f = [p \in D |-> f[p]] /\ \A p \in D : p[1] < k => f[p] = Rhs(f, p)
           Ok(k) == \E f : Good(f, k)
           S == {k \in Nat : Ok(k)}
<1>0. \A p \in D : p[1] \in Nat /\ p[1] < n + 1
  <2> SUFFICES ASSUME NEW p \in D PROVE p[1] \in Nat /\ p[1] < n + 1
    OBVIOUS
  <2>1. p[1] \in Nat /\ p[1] <= n
    BY PlaceFacts
  <2> QED
    BY <2>1
<1>1. \A p \in D : p[1] # 0 => <<p[1] - 1, 2 * p[2]>> \in D /\ <<p[1] - 1, 2 * p[2] + 1>> \in D
  BY ChildPlaces
<1> HIDE DEF D
<1>2. ASSUME NEW k \in Nat, \A m \in Nat : m < k => Ok(m) PROVE Ok(k)
  <2>1. CASE k = 0
    <3>1. \A p \in D : ~(p[1] < 0)
      BY <1>0
    <3>2. Good([p \in D |-> 0], 0)
      BY <3>1
    <3> QED
      BY <2>1, <3>2
  <2>2. CASE k # 0
    <3>1. PICK m \in Nat : k = m + 1 /\ m < k
      <4>1. k - 1 \in Nat /\ k = (k - 1) + 1 /\ k - 1 < k
        BY <2>2
      <4> QED
        BY <4>1
    <3>2. PICK f : Good(f, m)
      BY <1>2, <3>1
    <3> DEFINE g == [p \in D |-> IF p[1] = m THEN Rhs(f, p) ELSE f[p]]
    <3>3. g = [p \in D |-> g[p]]
      OBVIOUS
    <3>4. ASSUME NEW p \in D, p[1] < k PROVE g[p] = Rhs(g, p)
      <4>1. p[1] \in Nat /\ (p[1] < m \/ p[1] = m)
        BY <1>0, <3>1, <3>4
      <4>2. CASE p[1] = 0
        <5>1. Rhs(g, p) = Rhs(f, p)
          BY <4>2
        <5>2. p[1] < m => f[p] = Rhs(f, p)
          BY <3>2
        <5> HIDE DEF Rhs
        <5> QED
          BY <4>1, <5>1, <5>2
      <4>3. CASE p[1] # 0
        <5> DEFINE l == <<p[1] - 1, 2 * p[2]>>
                   r == <<p[1] - 1, 2 * p[2] + 1>>
        <5>1. l \in D /\ r \in D /\ l[1] = p[1] - 1 /\ r[1] = p[1] - 1 /\ p[1] - 1 # m
          BY <1>1, <4>1, <4>3
        <5>2. g[l] = f[l] /\ g[r] = f[r]
          <6> HIDE DEF l, r, Rhs
          <6> QED
            BY <5>1
        <5>3. Rhs(g, p) = Rhs(f, p)
          <6> HIDE DEF g
          <6> QED
            BY <4>3, <5>2
        <5>4. p[1] < m => f[p] = Rhs(f, p)
          BY <3>2
        <5> HIDE DEF Rhs, l, r
        <5> QED
          BY <4>1, <5>3, <5>4
      <4> QED
        BY <4>2, <4>3
    <3>5. Good(g, k)
      <4> HIDE DEF g, Rhs
      <4> QED
        BY <3>3, <3>4
    <3> QED
      BY <3>5
  <2> QED
    BY <2>1, <2>2
<1>3. Inductive(S)
  <2> HIDE DEF Ok
  <2> QED
    BY <1>2 DEF Inductive
<1>4. PICK f : Good(f, n + 1)
  <2>1. n + 1 \in Nat
    OBVIOUS
  <2>2. Ok(n + 1)
    <3> HIDE DEF Ok
    <3> QED
      BY <1>3, <2>1, StrongInduction
  <2> QED
    BY <2>2
<1>5. f = [p \in D |-> Rhs(f, p)]
  <2> HIDE DEF Rhs
  <2> QED
    BY <1>0, <1>4
<1>6. Digesting(f, b)
  BY <1>5 DEF Digesting, D
<1>7. Digests(b) = CHOOSE g : Digesting(g, b)
  BY DEF Digests, Digesting
<1> QED
  BY <1>6, <1>7

LEMMA DigestOf ==
    ASSUME NEW b, Len(b) \in Nat, NEW h \in Nat, NEW i \in Nat, End(h, i) <= Len(b)
    PROVE  /\ h = 0 => Digests(b)[<<h, i>>] = LeafHash(b[i + 1])
           /\ h > 0 => Digests(b)[<<h, i>>] = InteriorHash(Digests(b)[<<h - 1, 2 * i>>],
                                                           Digests(b)[<<h - 1, 2 * i + 1>>],
                                                           PositionOf(h, i))
<1> DEFINE d == Digests(b)
           p == <<h, i>>
<1>1. p \in Places(Len(b)) /\ p[1] = h /\ p[2] = i
  BY PlaceIsHere
<1>2. Digesting(d, b)
  BY DigestsAre
<1> HIDE DEF p, d
<1>3. d[p] = IF p[1] = 0 THEN LeafHash(b[p[2] + 1])
             ELSE InteriorHash(d[<<p[1] - 1, 2 * p[2]>>],
                               d[<<p[1] - 1, 2 * p[2] + 1>>], PositionOf(p[1], p[2]))
  BY <1>1, <1>2 DEF Digesting
<1> QED
  BY <1>1, <1>3 DEF p, d

\* A digest fixes the leaves below it and they it.
LEMMA DigestFixesLeaves ==
    ASSUME NEW a, NEW b, Len(a) \in Nat, Len(b) \in Nat, NEW h \in Nat, NEW i \in Nat,
           End(h, i) <= Len(a), End(h, i) <= Len(b)
    PROVE  Digests(a)[<<h, i>>] = Digests(b)[<<h, i>>]
               <=> \A k \in i * Power[h] .. End(h, i) - 1 : a[k + 1] = b[k + 1]
<1> DEFINE Same(g, j) == \A k \in j * Power[g] .. End(g, j) - 1 : a[k + 1] = b[k + 1]
           Ok(g) == \A j \in Nat : End(g, j) <= Len(a) /\ End(g, j) <= Len(b) =>
                       (Digests(a)[<<g, j>>] = Digests(b)[<<g, j>>] <=> Same(g, j))
           S == {g \in Nat : Ok(g)}
<1>1. ASSUME NEW g \in Nat, \A m \in Nat : m < g => Ok(m) PROVE Ok(g)
  <2> SUFFICES ASSUME NEW j \in Nat, End(g, j) <= Len(a), End(g, j) <= Len(b)
               PROVE  Digests(a)[<<g, j>>] = Digests(b)[<<g, j>>] <=> Same(g, j)
    OBVIOUS
  <2>1. CASE g = 0
    <3>1. Digests(a)[<<g, j>>] = LeafHash(a[j + 1]) /\ Digests(b)[<<g, j>>] = LeafHash(b[j + 1])
      BY <2>1, DigestOf, ZenonT(30)
    <3>2. j * Power[g] = j /\ End(g, j) - 1 = j
      BY <2>1, PowerEquation DEF End
    <3>3. Same(g, j) <=> a[j + 1] = b[j + 1]
      <4>1. \A k \in j..j : k = j
        OBVIOUS
      <4>2. j \in j..j
        OBVIOUS
      <4> QED
        BY <3>2, <4>1, <4>2
    <3> QED
      BY <3>1, <3>3, HashesDiffer
  <2>2. CASE g # 0
    <3>1. PICK m \in Nat : g = m + 1 /\ m < g /\ g - 1 = m /\ g > 0
      <4>1. g - 1 \in Nat /\ g = (g - 1) + 1 /\ g - 1 < g /\ g > 0
        BY <2>2
      <4> QED
        BY <4>1
    <3> DEFINE l == <<m, 2 * j>>
               r == <<m, 2 * j + 1>>
    <3>2. /\ Digests(a)[<<g, j>>] = InteriorHash(Digests(a)[l], Digests(a)[r], PositionOf(g, j))
          /\ Digests(b)[<<g, j>>] = InteriorHash(Digests(b)[l], Digests(b)[r], PositionOf(g, j))
      <4>1. /\ Digests(a)[<<g, j>>] = InteriorHash(Digests(a)[<<g - 1, 2 * j>>],
                                        Digests(a)[<<g - 1, 2 * j + 1>>], PositionOf(g, j))
            /\ Digests(b)[<<g, j>>] = InteriorHash(Digests(b)[<<g - 1, 2 * j>>],
                                        Digests(b)[<<g - 1, 2 * j + 1>>], PositionOf(g, j))
        BY <3>1, DigestOf
      <4> QED
        BY <3>1, <4>1
    <3>3. Digests(a)[<<g, j>>] = Digests(b)[<<g, j>>]
             <=> Digests(a)[l] = Digests(b)[l] /\ Digests(a)[r] = Digests(b)[r]
      <4> HIDE DEF l, r
      <4> QED
        BY <3>2, HashesDiffer
    <3>4. 2 * j \in Nat /\ 2 * j + 1 \in Nat
      OBVIOUS
    <3>5. /\ End(m, 2 * j + 1) = End(g, j)
          /\ 2 * j * Power[m] = j * Power[g]
          /\ (2 * j + 1) * Power[m] = End(m, 2 * j)
      BY <3>1, <3>4, ChildPositions DEF End
    <3>6. /\ End(m, 2 * j) \in Nat /\ End(g, j) \in Nat /\ j * Power[g] \in Nat
          /\ j * Power[g] <= End(m, 2 * j) /\ End(m, 2 * j) <= End(g, j)
      <4>1. \A p \in Nat : /\ 2 * j * p <= (2 * j + 1) * p /\ (2 * j + 1) * p <= (2 * j + 1 + 1) * p
        OBVIOUS
      <4>2. Power[m] \in Nat
        BY <3>1, PowerFacts
      <4>3. End(m, 2 * j) \in Nat /\ End(g, j) \in Nat /\ j * Power[g] \in Nat
        BY <3>1, <3>4, EndFacts
      <4>4. 2 * j * Power[m] <= End(m, 2 * j) /\ End(m, 2 * j) <= End(m, 2 * j + 1)
        BY <4>1, <4>2 DEF End
      <4> QED
        BY <3>5, <4>3, <4>4
    <3>7. Same(g, j) <=> Same(m, 2 * j) /\ Same(m, 2 * j + 1)
      <4> DEFINE x == j * Power[g]
                 y == End(m, 2 * j)
                 z == End(g, j)
      <4>1. x \in Nat /\ y \in Nat /\ z \in Nat /\ x <= y /\ y <= z
        BY <3>6
      <4>2. /\ Same(g, j) <=> \A k \in x..z - 1 : a[k + 1] = b[k + 1]
            /\ Same(m, 2 * j) <=> \A k \in x..y - 1 : a[k + 1] = b[k + 1]
            /\ Same(m, 2 * j + 1) <=> \A k \in y..z - 1 : a[k + 1] = b[k + 1]
        BY <3>5
      <4> HIDE DEF x, y, z, Same
      <4>3. x..z - 1 = (x..y - 1) \cup (y..z - 1)
        BY <4>1
      <4> QED
        BY <4>2, <4>3
    <3>8. /\ Digests(a)[l] = Digests(b)[l] <=> Same(m, 2 * j)
          /\ Digests(a)[r] = Digests(b)[r] <=> Same(m, 2 * j + 1)
      <4>1. /\ End(m, 2 * j) <= Len(a) /\ End(m, 2 * j) <= Len(b)
            /\ End(m, 2 * j + 1) <= Len(a) /\ End(m, 2 * j + 1) <= Len(b)
        BY <3>5, <3>6
      <4>2. Ok(m)
        BY <1>1, <3>1
      <4> HIDE DEF Same
      <4> QED
        BY <3>4, <4>1, <4>2
    <3> QED
      BY <3>3, <3>7, <3>8
  <2> QED
    BY <2>1, <2>2
<1>2. Inductive(S)
  <2> HIDE DEF Ok
  <2> QED
    BY <1>1 DEF Inductive
<1>3. Ok(h)
  <2> HIDE DEF Ok
  <2> QED
    BY <1>2, StrongInduction
<1> QED
  BY <1>3

\* Every position is of some subtree.
LEMMA PositionsCovered ==
    ASSUME NEW n \in Nat, NEW pos \in Nat, pos < SizeOf[n]
    PROVE  \E h, i \in Nat : PositionOf(h, i) = pos /\ End(h, i) <= n
<1> DEFINE Ok(m) == pos < SizeOf[m] => \E h, i \in Nat : PositionOf(h, i) = pos /\ End(h, i) <= m
           S == {m \in Nat : Ok(m)}
<1>1. ASSUME NEW k \in Nat, \A m \in Nat : m < k => Ok(m) PROVE Ok(k)
  <2> SUFFICES ASSUME pos < SizeOf[k]
               PROVE  \E h, i \in Nat : PositionOf(h, i) = pos /\ End(h, i) <= k
    OBVIOUS
  <2>1. k # 0
    BY SizeEquation
  <2>2. PICK m \in Nat : k = m + 1 /\ m < k
    <3>1. k - 1 \in Nat /\ k = (k - 1) + 1 /\ k - 1 < k
      BY <2>1
    <3> QED
      BY <3>1
  <2>3. SizeOf[m] \in Nat
    BY SizeType
  <2>4. CASE pos < SizeOf[m]
    <3>1. PICK h \in Nat, i \in Nat : PositionOf(h, i) = pos /\ End(h, i) <= m
      BY <1>1, <2>2, <2>4
    <3>2. End(h, i) \in Nat
      BY EndFacts
    <3>3. End(h, i) <= k
      BY <2>2, <3>1, <3>2
    <3> QED
      BY <3>1, <3>3
  <2>5. CASE ~(pos < SizeOf[m])
    <3>1. PICK hs, c, q : Layout(m, hs, c, q)
      BY LayoutExists
    <3>2. PICK t : Merging(hs, t)
      BY <3>1, LayoutLength, MergingExists
    <3>3. SizeOf[k] = SizeOf[m] + t + 1 /\ t \in Nat
      BY <2>2, <3>1, <3>2, NewAligned
    <3> DEFINE j == pos - SizeOf[m]
    <3>4. j \in 0..t /\ SizeOf[m] + j = pos
      BY <2>3, <2>5, <3>3
    <3> HIDE DEF j
    <3>5. PICK i \in Nat : End(j, i) = m + 1 /\ PositionOf(j, i) = SizeOf[m] + j
      BY <3>1, <3>2, <3>4, NewPlaces
    <3>6. j \in Nat /\ End(j, i) <= k
      BY <2>2, <3>3, <3>4, <3>5
    <3> QED
      BY <3>4, <3>5, <3>6
  <2> QED
    BY <2>4, <2>5
<1>2. Inductive(S)
  <2> HIDE DEF Ok
  <2> QED
    BY <1>1 DEF Inductive
<1>3. Ok(n)
  <2> HIDE DEF Ok
  <2> QED
    BY <1>2, StrongInduction
<1> QED
  BY <1>3

LEMMA PositionWithin ==
    ASSUME NEW n \in Nat, NEW h \in Nat, NEW i \in Nat, End(h, i) <= n
    PROVE  PositionOf(h, i) \in Nat /\ PositionOf(h, i) < SizeOf[n] /\ SizeOf[n] \in Nat
<1>1. /\ PositionOf(h, i) \in Nat /\ PositionOf(h, i) < SizeOf[End(h, i)]
      /\ End(h, i) \in Nat
  BY PositionBounds, EndFacts
<1>2. SizeOf[End(h, i)] \in Nat /\ SizeOf[n] \in Nat
  BY <1>1, SizeType
<1>3. SizeOf[End(h, i)] <= SizeOf[n]
  <2>1. End(h, i) < n \/ End(h, i) = n
    BY <1>1
  <2>2. End(h, i) < n => SizeOf[End(h, i)] < SizeOf[n]
    BY <1>1, SizeGrows
  <2> QED
    BY <1>2, <2>1, <2>2
<1> QED
  BY <1>1, <1>2, <1>3

-----------------------------------------------------------------------------
(* Sequences of nodes.                                                       *)

\* A function on 1..N is a sequence of its own values.
LEMMA IsSequence ==
    ASSUME NEW f, NEW N \in Nat, f = [k \in 1..N |-> f[k]]
    PROVE  f \in Seq({f[k] : k \in 1..N}) /\ Len(f) = N /\ DOMAIN f = 1..N
<1> DEFINE V == {f[k] : k \in 1..N}
<1>1. f \in [1..N -> V]
  OBVIOUS
<1> HIDE DEF V
<1>2. f \in Seq(V) /\ Len(f) = N /\ DOMAIN f = 1..N
  BY <1>1
<1> QED
  BY <1>2 DEF V

\* Joining and cutting sequences, element by element.
LEMMA JoinedIs ==
    ASSUME NEW f, NEW g, NEW M \in Nat, NEW N \in Nat,
           f = [k \in 1..M |-> f[k]], g = [k \in 1..N |-> g[k]]
    PROVE  f \o g = [k \in 1..M + N |-> IF k <= M THEN f[k] ELSE g[k - M]]
<1> DEFINE V == {f[k] : k \in 1..M} \cup {g[k] : k \in 1..N}
<1>1. f \in [1..M -> V] /\ g \in [1..N -> V]
  OBVIOUS
<1> HIDE DEF V
<1>2. f \in Seq(V) /\ g \in Seq(V) /\ Len(f) = M /\ Len(g) = N
  BY <1>1
<1>3. f \o g \in Seq(V) /\ Len(f \o g) = M + N
  BY <1>2
<1>4. \A k \in 1..M + N : (f \o g)[k] = IF k <= M THEN f[k] ELSE g[k - M]
  BY <1>2
<1>5. f \o g = [k \in 1..M + N |-> (f \o g)[k]]
  BY <1>3
<1> QED
  BY <1>4, <1>5

LEMMA FirstOnesAre ==
    ASSUME NEW f, NEW N \in Nat, f = [k \in 1..N |-> f[k]], NEW m \in 0..N
    PROVE  SubSeq(f, 1, m) = [k \in 1..m |-> f[k]]
<1> DEFINE V == {f[k] : k \in 1..N}
<1>1. f \in Seq(V) /\ Len(f) = N
  BY IsSequence
<1> HIDE DEF V
<1>2. SubSeq(f, 1, m) \in Seq(V) /\ Len(SubSeq(f, 1, m)) = m
  BY <1>1
<1>3. \A k \in 1..m : SubSeq(f, 1, m)[k] = f[k]
  BY <1>1
<1>4. SubSeq(f, 1, m) = [k \in 1..m |-> SubSeq(f, 1, m)[k]]
  BY <1>2
<1> QED
  BY <1>3, <1>4

\* The reference's nodes are the digests, each at its position.
LEMMA ForestIs ==
    ASSUME NEW b, Len(b) \in Nat
    PROVE  /\ Forest(b) = [k \in 1..SizeOf[Len(b)] |-> Digests(b)[PlaceAt(k - 1)]]
           /\ Forest(b) = [k \in 1..SizeOf[Len(b)] |-> Forest(b)[k]]
           /\ Len(Forest(b)) = SizeOf[Len(b)] /\ SizeOf[Len(b)] \in Nat
<1>1. Forest(b) = [k \in 1..SizeOf[Len(b)] |-> Digests(b)[PlaceAt(k - 1)]]
  BY DEF Forest
<1>2. Forest(b) = [k \in 1..SizeOf[Len(b)] |-> Forest(b)[k]]
  BY <1>1
<1>3. SizeOf[Len(b)] \in Nat
  BY SizeType
<1> QED
  BY <1>1, <1>2, <1>3, IsSequence

LEMMA NodeOfForest ==
    ASSUME NEW b, Len(b) \in Nat, NEW h \in Nat, NEW i \in Nat, End(h, i) <= Len(b)
    PROVE  Node(Forest(b), PositionOf(h, i)) = Digests(b)[<<h, i>>]
<1> DEFINE pos == PositionOf(h, i)
<1>1. pos \in Nat /\ pos < SizeOf[Len(b)] /\ SizeOf[Len(b)] \in Nat
  BY PositionWithin
<1>2. pos + 1 \in 1..SizeOf[Len(b)] /\ (pos + 1) - 1 = pos
  BY <1>1
<1>3. PlaceAt(pos) = <<h, i>>
  BY PlaceAtPosition
<1> HIDE DEF pos
<1>4. Forest(b)[pos + 1] = Digests(b)[PlaceAt(pos)]
  BY <1>2, ForestIs
<1> QED
  BY <1>3, <1>4 DEF Node, pos

\* add_leaf's nodes, whatever the store s of n leaves' size holds.
Added(new, s, n, leaf, hs, t) ==
    /\ t \in Nat
    /\ new = [j \in 1..t + 1 |-> new[j]] /\ Len(new) = t + 1
    /\ new[1] = leaf
    /\ \A j \in 1..t :
          new[j + 1] = InteriorHash(Node(s, Peaks(SizeOf[n])[Len(hs) - j + 1]), new[j], SizeOf[n] + j)

\* NewNodes is such a sequence.
LEMMA NewNodesAre ==
    ASSUME NEW n \in Nat, NEW hs, NEW c, NEW q, Layout(n, hs, c, q), NEW t, Merging(hs, t),
           NEW s, Len(s) = SizeOf[n], NEW leaf
    PROVE  Added(NewNodes(s, leaf), s, n, leaf, hs, t)
<1> DEFINE size == SizeOf[n]
           pks == Peaks(size)
           L == Len(hs)
           IsNew(f) == f = [j \in 0..t |-> IF j = 0 THEN leaf
                               ELSE InteriorHash(Node(s, pks[L - j + 1]), f[j - 1], size + j)]
           new == CHOOSE f : IsNew(f)
           st == [j \in 1..t |-> [op |-> "left", other |-> Node(s, pks[L - j + 1]), pos |-> size + j]]
<1>1. t \in Nat /\ L \in Nat
  BY NewAligned, LayoutLength
<1>2. MergedPeaks(size) = t
  <2>1. Merging(hs, MergedPeaks(size)) /\ hs \in Seq(Nat)
    BY MergedPeaksIs, LayoutLength
  <2> QED
    BY <2>1, MergingIsOne
<1>3. Len(pks) = L
  <2>1. pks = [i \in 1..L |-> PositionOf(hs[i], q[i])]
    BY PeaksOfSize
  <2> HIDE DEF pks, L
  <2> QED
    BY <1>1, <2>1
<1>4. PICK f : Folding(f, t, leaf, st)
  <2> HIDE DEF st
  <2> QED
    BY <1>1, FoldExists
<1>5. \A j \in 0..t : j # 0 =>
         Fold1(f[j - 1], st[j]) = InteriorHash(Node(s, pks[L - j + 1]), f[j - 1], size + j)
  <2> SUFFICES ASSUME NEW j \in 0..t, j # 0
               PROVE  Fold1(f[j - 1], st[j]) = InteriorHash(Node(s, pks[L - j + 1]), f[j - 1], size + j)
    OBVIOUS
  <2>1. j \in 1..t
    BY <1>1
  <2> HIDE DEF pks, size, L
  <2>2. st[j] = [op |-> "left", other |-> Node(s, pks[L - j + 1]), pos |-> size + j]
    BY <2>1
  <2>3. st[j].op = "left" /\ st[j].other = Node(s, pks[L - j + 1]) /\ st[j].pos = size + j
    BY <2>2
  <2> HIDE DEF st
  <2> QED
    BY <2>3 DEF Fold1
<1>6. IsNew(f)
  <2> HIDE DEF st, pks, size, L
  <2> QED
    BY <1>4, <1>5 DEF Folding
<1>7. IsNew(new)
  <2> HIDE DEF IsNew
  <2> QED
    BY <1>6
<1>8. NewNodes(s, leaf) = [j \in 1..t + 1 |-> new[j - 1]]
  <2> HIDE DEF pks, L
  <2> QED
    BY <1>2, <1>3 DEF NewNodes, pks
<1> HIDE DEF new, pks, L, size
<1>9. \A j \in 0..t : NewNodes(s, leaf)[j + 1] = new[j]
  <2> SUFFICES ASSUME NEW j \in 0..t PROVE NewNodes(s, leaf)[j + 1] = new[j]
    OBVIOUS
  <2>1. j + 1 \in 1..t + 1 /\ (j + 1) - 1 = j
    BY <1>1
  <2> QED
    BY <1>8, <2>1
<1>10. NewNodes(s, leaf)[1] = leaf
  <2>1. 0 \in 0..t /\ 0 + 1 = 1
    BY <1>1
  <2> QED
    BY <1>7, <1>9, <2>1
<1>11. ASSUME NEW j \in 1..t
       PROVE  NewNodes(s, leaf)[j + 1]
                 = InteriorHash(Node(s, pks[L - j + 1]), NewNodes(s, leaf)[j], size + j)
  <2>1. j \in 0..t /\ j # 0 /\ j - 1 \in 0..t /\ (j - 1) + 1 = j
    BY <1>1
  <2>2. new[j] = InteriorHash(Node(s, pks[L - j + 1]), new[j - 1], size + j)
    BY <1>7, <2>1
  <2>3. NewNodes(s, leaf)[j] = new[j - 1]
    BY <1>9, <2>1
  <2> QED
    BY <1>9, <2>1, <2>2, <2>3
<1>12. /\ NewNodes(s, leaf) = [j \in 1..t + 1 |-> NewNodes(s, leaf)[j]]
       /\ Len(NewNodes(s, leaf)) = t + 1
  <2>1. NewNodes(s, leaf) = [j \in 1..t + 1 |-> NewNodes(s, leaf)[j]]
    BY <1>8
  <2>2. t + 1 \in Nat
    BY <1>1
  <2> QED
    BY <2>1, <2>2, IsSequence
<1> QED
  BY <1>1, <1>10, <1>11, <1>12 DEF Added, pks, L, size

\* d is b and one leaf more.
OneMore(b, d) == Len(b) \in Nat /\ Len(d) = Len(b) + 1 /\ \A k \in 1..Len(b) : d[k] = b[k]

\* One leaf more changes no digest.
LEMMA DigestsOfMore ==
    ASSUME NEW b, NEW d, OneMore(b, d), NEW h \in Nat, NEW i \in Nat, End(h, i) <= Len(b)
    PROVE  Digests(d)[<<h, i>>] = Digests(b)[<<h, i>>]
<1>1. /\ Len(b) \in Nat /\ Len(d) \in Nat /\ End(h, i) \in Nat /\ i * Power[h] \in Nat
      /\ End(h, i) <= Len(d)
  <2>1. Len(b) \in Nat /\ Len(d) = Len(b) + 1
    BY DEF OneMore
  <2>2. End(h, i) \in Nat /\ i * Power[h] \in Nat
    BY EndFacts
  <2> QED
    BY <2>1, <2>2
<1>2. \A k \in i * Power[h] .. End(h, i) - 1 : d[k + 1] = b[k + 1]
  <2> SUFFICES ASSUME NEW k \in i * Power[h] .. End(h, i) - 1 PROVE d[k + 1] = b[k + 1]
    OBVIOUS
  <2>1. k + 1 \in 1..Len(b)
    BY <1>1
  <2> QED
    BY <2>1 DEF OneMore
<1> QED
  BY <1>1, <1>2, DigestFixesLeaves

\* And the nodes written for it are the digests of its subtrees.
LEMMA NewNodesOfForest ==
    ASSUME NEW b, NEW d, OneMore(b, d), NEW hs, NEW c, NEW q, Layout(Len(b), hs, c, q),
           NEW t, Merging(hs, t), NEW j \in 0..t, NEW i \in Nat, End(j, i) = Len(d)
    PROVE  NewNodes(Forest(b), LeafHash(d[Len(d)]))[j + 1] = Digests(d)[<<j, i>>]
<1> DEFINE n == Len(b)
           s == Forest(b)
           new == NewNodes(s, LeafHash(d[Len(d)]))
           L == Len(hs)
           Ok(k) == k <= t => \A a \in Nat : End(k, a) = n + 1 => new[k + 1] = Digests(d)[<<k, a>>]
           S == {k \in Nat : Ok(k)}
<1>1. n \in Nat /\ Len(d) = n + 1 /\ Len(d) \in Nat
  BY DEF OneMore
<1>2. Len(s) = SizeOf[n]
  BY <1>1, ForestIs
<1>3. /\ t \in Nat /\ new[1] = LeafHash(d[n + 1])
      /\ \A k \in 1..t : new[k + 1] = InteriorHash(Node(s, Peaks(SizeOf[n])[L - k + 1]),
                                                   new[k], SizeOf[n] + k)
  <2>1. Added(new, s, n, LeafHash(d[n + 1]), hs, t)
    <3> HIDE DEF s
    <3> QED
      BY <1>1, <1>2, NewNodesAre
  <2> HIDE DEF new, s
  <2> QED
    BY <2>1 DEF Added
<1> HIDE DEF new, s
<1>4. ASSUME NEW k \in Nat, \A m \in Nat : m < k => Ok(m) PROVE Ok(k)
  <2> SUFFICES ASSUME k <= t, NEW a \in Nat, End(k, a) = n + 1
               PROVE  new[k + 1] = Digests(d)[<<k, a>>]
    OBVIOUS
  <2>1. End(k, a) <= Len(d)
    BY <1>1
  <2>2. CASE k = 0
    <3>1. a = n
      <4>1. (a + 1) * 1 = n + 1
        BY <2>2, PowerEquation DEF End
      <4> QED
        BY <1>1, <4>1
    <3>2. Digests(d)[<<k, a>>] = LeafHash(d[a + 1])
      BY <1>1, <2>1, <2>2, DigestOf
    <3>3. k + 1 = 1
      BY <2>2
    <3> QED
      BY <1>3, <3>1, <3>2, <3>3
  <2>3. CASE k # 0
    <3>1. PICK m \in Nat : k = m + 1 /\ m < k /\ m <= t /\ k - 1 = m
      <4>1. k - 1 \in Nat /\ k = (k - 1) + 1 /\ k - 1 < k /\ k - 1 <= t
        BY <1>3, <2>3
      <4> QED
        BY <4>1
    <3>2. k \in 0..t /\ k > 0 /\ k \in 1..t
      BY <1>3, <2>3
    <3>3. PICK e \in Nat :
             /\ End(k, e) = n + 1 /\ PositionOf(k, e) = SizeOf[n] + k
             /\ Peaks(SizeOf[n])[L - k + 1] = PositionOf(m, 2 * e)
             /\ End(m, 2 * e) <= n
             /\ End(m, 2 * e + 1) = n + 1
      <4>1. PICK e \in Nat :
               /\ End(k, e) = n + 1 /\ PositionOf(k, e) = SizeOf[n] + k
               /\ Peaks(SizeOf[n])[L - k + 1] = PositionOf(k - 1, 2 * e)
               /\ End(k - 1, 2 * e) <= n
               /\ End(k - 1, 2 * e + 1) = n + 1
        BY <1>1, <3>2, NewPlaces
      <4> QED
        BY <3>1, <4>1
    <3>4. e = a
      BY <3>3, EndInjective
    <3>5. 2 * e \in Nat /\ 2 * e + 1 \in Nat
      OBVIOUS
    <3>6. Node(s, PositionOf(m, 2 * e)) = Digests(d)[<<m, 2 * e>>]
      <4>1. Node(s, PositionOf(m, 2 * e)) = Digests(b)[<<m, 2 * e>>]
        BY <1>1, <3>3, <3>5, NodeOfForest DEF s
      <4> QED
        BY <3>3, <3>5, <4>1, DigestsOfMore
    <3>7. new[k] = Digests(d)[<<m, 2 * e + 1>>]
      BY <1>4, <3>1, <3>3, <3>5
    <3>8. new[k + 1] = InteriorHash(Digests(d)[<<m, 2 * e>>], Digests(d)[<<m, 2 * e + 1>>],
                                    PositionOf(k, e))
      BY <1>3, <3>2, <3>3, <3>6, <3>7
    <3>9. Digests(d)[<<k, a>>] = InteriorHash(Digests(d)[<<m, 2 * a>>], Digests(d)[<<m, 2 * a + 1>>],
                                              PositionOf(k, a))
      <4>1. Digests(d)[<<k, a>>] = InteriorHash(Digests(d)[<<k - 1, 2 * a>>],
                                                Digests(d)[<<k - 1, 2 * a + 1>>], PositionOf(k, a))
        BY <1>1, <2>1, <3>2, DigestOf
      <4> QED
        BY <3>1, <4>1
    <3> QED
      BY <3>4, <3>8, <3>9
  <2> QED
    BY <2>2, <2>3
<1>5. Inductive(S)
  <2> HIDE DEF Ok
  <2> QED
    BY <1>4 DEF Inductive
<1>6. j \in Nat /\ j <= t /\ Ok(j)
  <2>1. j \in Nat /\ j <= t
    BY <1>3
  <2> HIDE DEF Ok
  <2> QED
    BY <1>5, <2>1, StrongInduction
<1> QED
  BY <1>1, <1>6 DEF new, s

\* add_leaf makes the forest of one leaf more.
LEMMA ForestGrows ==
    ASSUME NEW b, NEW d, OneMore(b, d)
    PROVE  Forest(b) \o NewNodes(Forest(b), LeafHash(d[Len(d)])) = Forest(d)
<1> DEFINE n == Len(b)
           s == Forest(b)
           new == NewNodes(s, LeafHash(d[Len(d)]))
<1>1. n \in Nat /\ Len(d) = n + 1 /\ Len(d) \in Nat
  BY DEF OneMore
<1>2. PICK hs, c, q : Layout(n, hs, c, q)
  BY <1>1, LayoutExists
<1>3. PICK t : Merging(hs, t)
  BY <1>1, <1>2, LayoutLength, MergingExists
<1>4. /\ s = [k \in 1..SizeOf[n] |-> s[k]] /\ Len(s) = SizeOf[n] /\ SizeOf[n] \in Nat
      /\ s = [k \in 1..SizeOf[n] |-> Digests(b)[PlaceAt(k - 1)]]
  BY <1>1, ForestIs
<1>5. new = [k \in 1..t + 1 |-> new[k]] /\ t \in Nat /\ t + 1 \in Nat
  <2>1. Added(new, s, n, LeafHash(d[Len(d)]), hs, t)
    <3> HIDE DEF s
    <3> QED
      BY <1>1, <1>2, <1>3, <1>4, NewNodesAre
  <2> HIDE DEF new, s
  <2>2. new = [k \in 1..t + 1 |-> new[k]] /\ t \in Nat
    BY <2>1 DEF Added
  <2> QED
    BY <2>2
<1>6. SizeOf[n + 1] = SizeOf[n] + t + 1
  BY <1>1, <1>2, <1>3, NewAligned
<1>7. Forest(d) = [k \in 1..SizeOf[n + 1] |-> Digests(d)[PlaceAt(k - 1)]]
  BY <1>1, ForestIs
<1>8. \A j \in 0..t : \A i \in Nat : End(j, i) = n + 1 => new[j + 1] = Digests(d)[<<j, i>>]
  BY <1>1, <1>2, <1>3, NewNodesOfForest
<1> HIDE DEF s, new, n
<1>9. s \o new = [k \in 1..SizeOf[n] + (t + 1) |-> IF k <= SizeOf[n] THEN s[k] ELSE new[k - SizeOf[n]]]
  BY <1>4, <1>5, JoinedIs
<1>10. ASSUME NEW k \in 1..SizeOf[n] + (t + 1)
       PROVE  (IF k <= SizeOf[n] THEN s[k] ELSE new[k - SizeOf[n]]) = Digests(d)[PlaceAt(k - 1)]
  <2>1. CASE k <= SizeOf[n]
    <3>1. k - 1 \in Nat /\ k - 1 < SizeOf[n] /\ k \in 1..SizeOf[n]
      BY <1>4, <2>1
    <3>2. PICK h \in Nat, i \in Nat : PositionOf(h, i) = k - 1 /\ End(h, i) <= n
      BY <1>1, <3>1, PositionsCovered
    <3>3. PlaceAt(k - 1) = <<h, i>>
      BY <3>2, PlaceAtPosition
    <3>4. s[k] = Digests(b)[<<h, i>>]
      BY <1>4, <3>1, <3>3
    <3>5. Digests(d)[<<h, i>>] = Digests(b)[<<h, i>>]
      BY <3>2, DigestsOfMore DEF n
    <3> QED
      BY <2>1, <3>3, <3>4, <3>5
  <2>2. CASE ~(k <= SizeOf[n])
    <3> DEFINE j == k - 1 - SizeOf[n]
    <3>1. j \in 0..t /\ SizeOf[n] + j = k - 1 /\ k - SizeOf[n] = j + 1 /\ j \in Nat
      BY <1>4, <1>5, <2>2
    <3> HIDE DEF j
    <3>2. PICK i \in Nat : End(j, i) = n + 1 /\ PositionOf(j, i) = SizeOf[n] + j
      BY <1>1, <1>2, <1>3, <3>1, NewPlaces
    <3>3. PlaceAt(k - 1) = <<j, i>>
      BY <3>1, <3>2, PlaceAtPosition
    <3>4. new[k - SizeOf[n]] = Digests(d)[<<j, i>>]
      BY <1>8, <3>1, <3>2
    <3> QED
      BY <2>2, <3>3, <3>4
  <2> QED
    BY <2>1, <2>2
<1>11. SizeOf[n] + (t + 1) = SizeOf[n + 1]
  <2>1. SizeOf[n] \in Nat /\ t \in Nat
    BY <1>4, <1>5
  <2> QED
    BY <1>6, <2>1
<1>12. s \o new = [k \in 1..SizeOf[n + 1] |-> Digests(d)[PlaceAt(k - 1)]]
  BY <1>9, <1>10, <1>11
<1> QED
  BY <1>7, <1>12 DEF s, new

\* Where the first m leaves are.
FirstLeafNodes(m) == {SizeOf[i] + 1 : i \in 0..m - 1}

\* There are m of them.
LEMMA FirstLeafNodesCount ==
    \A m \in Nat : IsFiniteSet(FirstLeafNodes(m)) /\ Cardinality(FirstLeafNodes(m)) = m
<1> DEFINE Ok(m) == IsFiniteSet(FirstLeafNodes(m)) /\ Cardinality(FirstLeafNodes(m)) = m
           S == {m \in Nat : Ok(m)}
<1>1. ASSUME NEW k \in Nat, \A m \in Nat : m < k => Ok(m) PROVE Ok(k)
  <2>1. CASE k = 0
    <3>1. 0..k - 1 = {}
      BY <2>1
    <3>2. FirstLeafNodes(k) = {}
      BY <3>1 DEF FirstLeafNodes
    <3> QED
      BY <2>1, <3>2, FS_EmptySet
  <2>2. CASE k # 0
    <3>1. PICK m \in Nat : k = m + 1 /\ m < k
      <4>1. k - 1 \in Nat /\ k = (k - 1) + 1 /\ k - 1 < k
        BY <2>2
      <4> QED
        BY <4>1
    <3>2. FirstLeafNodes(k) = FirstLeafNodes(m) \cup {SizeOf[m] + 1}
      <4>1. 0..k - 1 = (0..m - 1) \cup {m}
        BY <3>1
      <4> QED
        BY <4>1 DEF FirstLeafNodes
    <3>3. SizeOf[m] + 1 \notin FirstLeafNodes(m)
      <4>1. ASSUME NEW i \in 0..m - 1 PROVE SizeOf[i] + 1 # SizeOf[m] + 1
        <5>1. i \in Nat /\ i < m
          OBVIOUS
        <5>2. SizeOf[i] < SizeOf[m] /\ SizeOf[i] \in Nat /\ SizeOf[m] \in Nat
          BY <5>1, SizeGrows, SizeType
        <5> QED
          BY <5>2
      <4> QED
        BY <4>1 DEF FirstLeafNodes
    <3>4. Ok(m)
      BY <1>1, <3>1
    <3>5. IsFiniteSet(FirstLeafNodes(k)) /\ Cardinality(FirstLeafNodes(k)) = Cardinality(FirstLeafNodes(m)) + 1
      <4> DEFINE F == FirstLeafNodes(m)
                 x == SizeOf[m] + 1
      <4>1. IsFiniteSet(F) /\ x \notin F /\ FirstLeafNodes(k) = F \cup {x}
        BY <3>2, <3>3, <3>4
      <4> HIDE DEF F, x
      <4>2. IsFiniteSet(F \cup {x}) /\ Cardinality(F \cup {x}) = Cardinality(F) + 1
        BY <4>1, FS_AddElement
      <4> QED
        BY <4>1, <4>2 DEF F
    <3> QED
      BY <3>1, <3>4, <3>5
  <2> QED
    BY <2>1, <2>2
<1>2. Inductive(S)
  <2> HIDE DEF Ok
  <2> QED
    BY <1>1 DEF Inductive
<1> QED
  BY <1>2, StrongInduction

LEMMA LeafPosition ==
    ASSUME NEW i \in Nat
    PROVE  PositionOf(0, i) = SizeOf[i] /\ End(0, i) = i + 1 /\ SizeOf[i] \in Nat
<1>1. End(0, i) = i + 1
  BY PowerEquation DEF End
<1>2. PositionOf(0, i) = SizeOf[End(0, i) - 1] + 0 /\ SizeOf[i] \in Nat
  BY PositionBounds, SizeType
<1>3. End(0, i) - 1 = i
  BY <1>1
<1> QED
  BY <1>1, <1>2, <1>3

\* The nodes that are leaves are those at the leaf positions.
LEMMA LeafNodesOfForest ==
    ASSUME NEW b, Len(b) \in Nat
    PROVE  {k \in DOMAIN Forest(b) : Forest(b)[k].kind = "leaf"} = FirstLeafNodes(Len(b))
<1> DEFINE n == Len(b)
           s == Forest(b)
<1>1. n \in Nat /\ DOMAIN s = 1..SizeOf[n] /\ SizeOf[n] \in Nat
  BY ForestIs
<1>2. ASSUME NEW h \in Nat, NEW i \in Nat, End(h, i) <= n
      PROVE  s[PositionOf(h, i) + 1].kind = "leaf" <=> h = 0
  <2>1. s[PositionOf(h, i) + 1] = Digests(b)[<<h, i>>]
    BY <1>1, <1>2, NodeOfForest DEF Node
  <2>2. CASE h = 0
    <3>1. s[PositionOf(h, i) + 1] = LeafHash(b[i + 1])
      BY <1>2, <2>1, <2>2, DigestOf
    <3> HIDE DEF s
    <3> QED
      BY <2>2, <3>1 DEF LeafHash
  <2>3. CASE h # 0
    <3>1. h > 0
      BY <2>3
    <3>2. Digests(b)[<<h, i>>] = InteriorHash(Digests(b)[<<h - 1, 2 * i>>],
                                              Digests(b)[<<h - 1, 2 * i + 1>>], PositionOf(h, i))
      BY <1>2, <3>1, DigestOf
    <3>3. Digests(b)[<<h, i>>].kind = "interior"
      BY <3>2 DEF InteriorHash
    <3> HIDE DEF s
    <3> QED
      BY <2>1, <2>3, <3>3
  <2> QED
    BY <2>2, <2>3
<1> HIDE DEF s
<1>3. ASSUME NEW k \in 1..SizeOf[n], s[k].kind = "leaf" PROVE k \in FirstLeafNodes(n)
  <2>1. k - 1 \in Nat /\ k - 1 < SizeOf[n] /\ (k - 1) + 1 = k
    BY <1>1
  <2>2. PICK h \in Nat, i \in Nat : PositionOf(h, i) = k - 1 /\ End(h, i) <= n
    BY <1>1, <2>1, PositionsCovered
  <2>3. h = 0
    BY <1>2, <1>3, <2>1, <2>2
  <2>4. SizeOf[i] = k - 1 /\ i + 1 <= n /\ SizeOf[i] \in Nat
    BY <2>2, <2>3, LeafPosition
  <2>5. i \in 0..n - 1 /\ k = SizeOf[i] + 1
    BY <1>1, <2>4
  <2> QED
    BY <2>5 DEF FirstLeafNodes
<1>4. ASSUME NEW i \in 0..n - 1
      PROVE  SizeOf[i] + 1 \in 1..SizeOf[n] /\ s[SizeOf[i] + 1].kind = "leaf"
  <2>1. i \in Nat /\ i < n
    BY <1>1
  <2>2. PositionOf(0, i) = SizeOf[i] /\ End(0, i) <= n /\ SizeOf[i] \in Nat
    BY <2>1, LeafPosition
  <2>3. SizeOf[i] < SizeOf[n]
    BY <1>1, <2>1, SizeGrows
  <2>4. 0 \in Nat
    OBVIOUS
  <2>5. s[PositionOf(0, i) + 1].kind = "leaf"
    BY <1>2, <2>1, <2>2, <2>4
  <2> QED
    BY <1>1, <2>2, <2>3, <2>5
<1>5. FirstLeafNodes(n) = {k \in 1..SizeOf[n] : s[k].kind = "leaf"}
  BY <1>3, <1>4 DEF FirstLeafNodes
<1> QED
  BY <1>1, <1>5 DEF s

\* The leaves in the order of their nodes are those the forest is of.
LEMMA LeavesOfForest ==
    ASSUME NEW b, Len(b) \in Nat, b = [k \in 1..Len(b) |-> b[k]], nodes = Forest(b)
    PROVE  Leaves = b
<1> DEFINE n == Len(b)
           I == {k \in DOMAIN nodes : nodes[k].kind = "leaf"}
           stored == Pick(nodes, I)
<1>1. I = FirstLeafNodes(n) /\ n \in Nat
  BY LeafNodesOfForest
<1>2. Leaves = [i \in DOMAIN stored |-> stored[i].at]
  BY DEF Leaves
<1> HIDE DEF I
<1>3. I \in SUBSET Nat /\ IsFiniteSet(I) /\ Cardinality(I) = n
  <2>1. FirstLeafNodes(n) \in SUBSET Nat
    <3>1. \A i \in 0..n - 1 : SizeOf[i] + 1 \in Nat
      BY <1>1, SizeType
    <3> QED
      BY <3>1 DEF FirstLeafNodes
  <2> QED
    BY <1>1, <2>1, FirstLeafNodesCount
<1>4. ASSUME NEW k \in 1..n PROVE Nth(I, k) = SizeOf[k - 1] + 1
  <2> DEFINE x == SizeOf[k - 1] + 1
  <2>1. k \in Nat /\ k - 1 \in 0..n - 1
    BY <1>1
  <2>2. x \in I
    BY <1>1, <2>1 DEF FirstLeafNodes
  <2>3. {j \in I : j <= x} = FirstLeafNodes(k)
    <3>1. ASSUME NEW i \in 0..n - 1 PROVE SizeOf[i] + 1 <= x <=> i \in 0..k - 1
      <4>1. i \in Nat /\ k - 1 \in Nat
        BY <1>1
      <4>2. SizeOf[k - 1] < SizeOf[i] <=> k - 1 < i
        BY <4>1, SizesInOrder
      <4>3. SizeOf[k - 1] \in Nat /\ SizeOf[i] \in Nat
        BY <4>1, SizeType
      <4> QED
        BY <4>1, <4>2, <4>3
    <3>2. 0..k - 1 \in SUBSET (0..n - 1)
      BY <1>1
    <3> HIDE DEF x
    <3> QED
      BY <1>1, <3>1, <3>2 DEF FirstLeafNodes
  <2>4. Rank(I, x) = k
    <3> HIDE DEF x
    <3> QED
      BY <2>1, <2>3, FirstLeafNodesCount DEF Rank
  <2> HIDE DEF x
  <2>5. Nth(I, Rank(I, x)) = x
    BY <1>3, <2>2, NthHasRank
  <2> QED
    BY <2>4, <2>5 DEF x
<1>5. stored = [k \in 1..n |-> nodes[Nth(I, k)]]
  BY <1>3 DEF Pick
<1> HIDE DEF stored
<1>6. ASSUME NEW k \in 1..n PROVE stored[k].at = b[k]
  <2>1. k - 1 \in Nat /\ k - 1 < n /\ (k - 1) + 1 = k
    BY <1>1
  <2>2. PositionOf(0, k - 1) = SizeOf[k - 1] /\ End(0, k - 1) <= n
    BY <2>1, LeafPosition
  <2>3. Node(nodes, PositionOf(0, k - 1)) = Digests(b)[<<0, k - 1>>]
    BY <1>1, <2>1, <2>2, NodeOfForest
  <2>4. Digests(b)[<<0, k - 1>>] = LeafHash(b[k])
    <3>1. 0 \in Nat /\ n = Len(b)
      OBVIOUS
    <3>2. Digests(b)[<<0, k - 1>>] = LeafHash(b[(k - 1) + 1])
      BY <2>1, <2>2, <3>1, DigestOf
    <3> QED
      BY <2>1, <3>2
  <2>5. stored[k] = LeafHash(b[k])
    BY <1>4, <1>5, <2>2, <2>3, <2>4 DEF Node
  <2> QED
    BY <2>5 DEF LeafHash
<1>7. DOMAIN stored = 1..n
  BY <1>5
<1>8. Leaves = [k \in 1..n |-> b[k]]
  BY <1>2, <1>6, <1>7
<1> QED
  BY <1>8

\* A sequence, as a function of its own length.
Rows(s) == Len(s) \in Nat /\ s = [k \in 1..Len(s) |-> s[k]]

\* A node that names its own position stands over the two nodes it hashes.
InPlace(s) ==
    \A h, i \in Nat :
        /\ h > 0 /\ PositionOf(h, i) < Len(s)
        /\ Node(s, PositionOf(h, i)).kind = "interior"
        /\ Node(s, PositionOf(h, i)).at = PositionOf(h, i)
        => Node(s, PositionOf(h, i)) = InteriorHash(Node(s, PositionOf(h - 1, 2 * i)),
                                                    Node(s, PositionOf(h - 1, 2 * i + 1)),
                                                    PositionOf(h, i))

\* Joining and cutting stores, node by node.
LEMMA RowsJoin ==
    ASSUME NEW s, NEW r, Rows(s), Rows(r)
    PROVE  /\ Rows(s \o r) /\ Len(s \o r) = Len(s) + Len(r)
           /\ \A k \in 1..Len(s) : (s \o r)[k] = s[k]
           /\ \A k \in 1..Len(r) : (s \o r)[Len(s) + k] = r[k]
<1> DEFINE M == Len(s)
           N == Len(r)
           u == s \o r
<1>1. M \in Nat /\ N \in Nat /\ s = [k \in 1..M |-> s[k]] /\ r = [k \in 1..N |-> r[k]]
  BY DEF Rows
<1>2. u = [k \in 1..M + N |-> IF k <= M THEN s[k] ELSE r[k - M]]
  <2> HIDE DEF M, N
  <2> QED
    BY <1>1, JoinedIs
<1>3. M + N \in Nat
  BY <1>1
<1> HIDE DEF M, N, u
<1>4. u = [k \in 1..M + N |-> u[k]]
  BY <1>2
<1>5. Len(u) = M + N
  BY <1>3, <1>4, IsSequence
<1>6. \A k \in 1..M : u[k] = s[k]
  BY <1>1, <1>2
<1>7. ASSUME NEW k \in 1..N PROVE u[M + k] = r[k]
  <2>1. M + k \in 1..M + N /\ ~(M + k <= M) /\ (M + k) - M = k
    BY <1>1
  <2> QED
    BY <1>2, <2>1
<1> QED
  BY <1>3, <1>4, <1>5, <1>6, <1>7 DEF Rows, u, M, N

LEMMA RowsPrefix ==
    ASSUME NEW s, Rows(s), NEW m \in 0..Len(s)
    PROVE  /\ Rows(SubSeq(s, 1, m)) /\ Len(SubSeq(s, 1, m)) = m
           /\ \A k \in 1..m : SubSeq(s, 1, m)[k] = s[k]
<1> DEFINE N == Len(s)
           u == SubSeq(s, 1, m)
<1>1. N \in Nat /\ s = [k \in 1..N |-> s[k]] /\ m \in 0..N
  BY DEF Rows
<1>2. u = [k \in 1..m |-> s[k]]
  <2> HIDE DEF N
  <2> QED
    BY <1>1, FirstOnesAre
<1>3. m \in Nat
  BY <1>1
<1> HIDE DEF u
<1>4. u = [k \in 1..m |-> u[k]]
  BY <1>2
<1>5. Len(u) = m
  BY <1>3, <1>4, IsSequence
<1> QED
  BY <1>2, <1>3, <1>4, <1>5 DEF Rows, u

\* A node is written after the two below it.
LEMMA ChildrenFirst ==
    ASSUME NEW h \in Nat, NEW i \in Nat, h > 0
    PROVE  /\ h - 1 \in Nat /\ 2 * i \in Nat /\ 2 * i + 1 \in Nat
           /\ PositionOf(h, i) \in Nat
           /\ PositionOf(h - 1, 2 * i) \in Nat /\ PositionOf(h - 1, 2 * i + 1) \in Nat
           /\ PositionOf(h - 1, 2 * i) < PositionOf(h, i)
           /\ PositionOf(h - 1, 2 * i + 1) < PositionOf(h, i)
<1>1. PICK g \in Nat : h = g + 1 /\ g = h - 1
  <2>1. h - 1 \in Nat /\ h = (h - 1) + 1
    OBVIOUS
  <2> QED
    BY <2>1
<1>2. /\ PositionOf(g, 2 * i + 1) = PositionOf(g + 1, i) - 1
      /\ PositionOf(g, 2 * i) = PositionOf(g + 1, i) - Power[g + 1]
  BY ChildPositions
<1>3. 2 * i \in Nat /\ 2 * i + 1 \in Nat /\ g + 1 \in Nat
  OBVIOUS
<1>4. PositionOf(g, 2 * i) \in Nat /\ PositionOf(g, 2 * i + 1) \in Nat /\ PositionOf(g + 1, i) \in Nat
  BY <1>3, PositionBounds
<1>5. Power[g + 1] \in Nat /\ Power[g + 1] >= 1
  BY <1>3, PowerFacts
<1> QED
  BY <1>1, <1>2, <1>3, <1>4, <1>5

\* The first nodes of a store are in place if all are.
LEMMA InPlacePrefix ==
    ASSUME NEW s, NEW u, Len(s) \in Nat, Len(u) \in Nat, Len(u) <= Len(s),
           \A k \in 1..Len(u) : u[k] = s[k], InPlace(s)
    PROVE  InPlace(u)
<1> SUFFICES ASSUME NEW h \in Nat, NEW i \in Nat, h > 0, PositionOf(h, i) < Len(u),
                    Node(u, PositionOf(h, i)).kind = "interior",
                    Node(u, PositionOf(h, i)).at = PositionOf(h, i)
             PROVE  Node(u, PositionOf(h, i)) = InteriorHash(Node(u, PositionOf(h - 1, 2 * i)),
                                                             Node(u, PositionOf(h - 1, 2 * i + 1)),
                                                             PositionOf(h, i))
  BY DEF InPlace
<1> DEFINE x == PositionOf(h, i)
           l == PositionOf(h - 1, 2 * i)
           r == PositionOf(h - 1, 2 * i + 1)
<1>1. x \in Nat /\ l \in Nat /\ r \in Nat /\ l < x /\ r < x
  BY ChildrenFirst
<1>2. \A p \in Nat : p < Len(u) => Node(u, p) = Node(s, p)
  <2>1. ASSUME NEW p \in Nat, p < Len(u) PROVE u[p + 1] = s[p + 1]
    BY <2>1
  <2> QED
    BY <2>1 DEF Node
<1>3. x < Len(s)
  BY <1>1
<1> HIDE DEF x, l, r
<1>4. Node(u, x) = Node(s, x) /\ Node(u, l) = Node(s, l) /\ Node(u, r) = Node(s, r)
  BY <1>1, <1>2 DEF x
<1>5. Node(s, x) = InteriorHash(Node(s, l), Node(s, r), x)
  BY <1>3, <1>4 DEF InPlace, x, l, r
<1> QED
  BY <1>4, <1>5 DEF x, l, r

\* What one more leaf appends, to whatever store.
NextNodes(s, new) ==
    /\ Rows(new) /\ Len(new) >= 1
    /\ new[1].kind = "leaf"
    /\ \A k \in 2..Len(new) : new[k].kind = "interior" /\ new[k].at = Len(s) + (k - 1)

\* add_leaf appends the leaf and then parents, each naming the position it gets.
LEMMA NextNodesAre ==
    ASSUME NEW s, Rows(s), ValidSize(Len(s)), NEW body
    PROVE  NextNodes(s, NewNodes(s, LeafHash(body)))
<1> DEFINE leaf == LeafHash(body)
           new == NewNodes(s, leaf)
<1>1. PICK n \in Nat : Len(s) = SizeOf[n]
  BY ValidIsSize DEF Rows
<1>2. PICK hs, c, q : Layout(n, hs, c, q)
  BY LayoutExists
<1>3. PICK t : Merging(hs, t)
  BY <1>2, LayoutLength, MergingExists
<1> HIDE DEF leaf
<1>4. Added(new, s, n, leaf, hs, t)
  BY <1>1, <1>2, <1>3, NewNodesAre
<1> HIDE DEF new
<1>5. t \in Nat /\ new = [j \in 1..t + 1 |-> new[j]] /\ Len(new) = t + 1 /\ new[1] = leaf
  BY <1>4 DEF Added
<1>6. ASSUME NEW k \in 2..Len(new)
      PROVE  new[k].kind = "interior" /\ new[k].at = Len(s) + (k - 1)
  <2>1. k - 1 \in 1..t /\ (k - 1) + 1 = k
    BY <1>5
  <2>2. new[(k - 1) + 1] = InteriorHash(Node(s, Peaks(SizeOf[n])[Len(hs) - (k - 1) + 1]),
                                        new[k - 1], SizeOf[n] + (k - 1))
    BY <1>4, <2>1 DEF Added
  <2>3. new[(k - 1) + 1].kind = "interior" /\ new[(k - 1) + 1].at = SizeOf[n] + (k - 1)
    BY <2>2 DEF InteriorHash
  <2> QED
    BY <1>1, <2>1, <2>3
<1>7. leaf.kind = "leaf"
  BY DEF leaf, LeafHash
<1>8. Rows(new) /\ Len(new) >= 1
  BY <1>5 DEF Rows
<1>9. NextNodes(s, new)
  BY <1>5, <1>6, <1>7, <1>8 DEF NextNodes
<1> QED
  BY <1>9 DEF new, leaf

\* Appended where they were made for, they are in place.
LEMMA InPlaceGrows ==
    ASSUME NEW s, Rows(s), ValidSize(Len(s)), InPlace(s), NEW body
    PROVE  InPlace(s \o NewNodes(s, LeafHash(body)))
<1> DEFINE leaf == LeafHash(body)
           new == NewNodes(s, leaf)
           u == s \o new
<1>0. PICK n \in Nat : Len(s) = SizeOf[n]
  BY ValidIsSize DEF Rows
<1>1. SizeOf[n] \in Nat
  BY SizeType
<1>2. PICK hs, c, q : Layout(n, hs, c, q)
  BY LayoutExists
<1>3. PICK t : Merging(hs, t)
  BY <1>2, LayoutLength, MergingExists
<1>4. NextNodes(s, new)
  BY NextNodesAre
<1> HIDE DEF leaf
<1>5. Added(new, s, n, leaf, hs, t)
  BY <1>0, <1>2, <1>3, NewNodesAre
<1> HIDE DEF new
<1>6. t \in Nat /\ Len(new) = t + 1 /\ Rows(new)
  BY <1>4, <1>5 DEF Added, NextNodes
<1>7. /\ Len(u) = SizeOf[n] + (t + 1)
      /\ \A k \in 1..SizeOf[n] : u[k] = s[k]
      /\ \A k \in 1..t + 1 : u[SizeOf[n] + k] = new[k]
  BY <1>0, <1>6, RowsJoin
<1> HIDE DEF u
<1>8. ASSUME NEW p \in Nat, p < SizeOf[n] PROVE Node(u, p) = Node(s, p)
  <2>1. p + 1 \in 1..SizeOf[n]
    BY <1>1, <1>8
  <2> QED
    BY <1>7, <2>1 DEF Node
<1>9. ASSUME NEW j \in 0..t PROVE Node(u, SizeOf[n] + j) = new[j + 1]
  <2>1. j + 1 \in 1..t + 1 /\ (SizeOf[n] + j) + 1 = SizeOf[n] + (j + 1)
    BY <1>1, <1>6
  <2>2. u[SizeOf[n] + (j + 1)] = new[j + 1]
    BY <1>7, <2>1
  <2> QED
    BY <2>1, <2>2 DEF Node
<1> SUFFICES ASSUME NEW h \in Nat, NEW i \in Nat, h > 0, PositionOf(h, i) < Len(u),
                    Node(u, PositionOf(h, i)).kind = "interior",
                    Node(u, PositionOf(h, i)).at = PositionOf(h, i)
             PROVE  Node(u, PositionOf(h, i)) = InteriorHash(Node(u, PositionOf(h - 1, 2 * i)),
                                                             Node(u, PositionOf(h - 1, 2 * i + 1)),
                                                             PositionOf(h, i))
  BY DEF InPlace, u, new, leaf
<1> DEFINE x == PositionOf(h, i)
           l == PositionOf(h - 1, 2 * i)
           r == PositionOf(h - 1, 2 * i + 1)
<1>10. x \in Nat /\ l \in Nat /\ r \in Nat /\ l < x /\ r < x /\ h - 1 \in Nat
  BY ChildrenFirst
<1> HIDE DEF x, l, r
<1>11. CASE x < SizeOf[n]
  <2>1. Node(u, x) = Node(s, x) /\ Node(u, l) = Node(s, l) /\ Node(u, r) = Node(s, r)
    <3>1. l < SizeOf[n] /\ r < SizeOf[n]
      BY <1>1, <1>10, <1>11
    <3> QED
      BY <1>8, <1>10, <1>11, <3>1
  <2>2. Node(s, x) = InteriorHash(Node(s, l), Node(s, r), x)
    BY <1>0, <1>11, <2>1 DEF InPlace, x, l, r
  <2> QED
    BY <2>1, <2>2 DEF x, l, r
<1>12. CASE x >= SizeOf[n]
  <2>1. PICK j \in 0..t : x = SizeOf[n] + j
    <3>1. x - SizeOf[n] \in 0..t /\ x = SizeOf[n] + (x - SizeOf[n])
      BY <1>1, <1>6, <1>7, <1>10, <1>12, SMTT(30) DEF x
    <3> QED
      BY <3>1
  <2>2. PICK b \in Nat :
          /\ End(j, b) = n + 1 /\ PositionOf(j, b) = SizeOf[n] + j
          /\ j > 0 => /\ Len(hs) - j + 1 \in 1..Len(hs)
                      /\ Peaks(SizeOf[n])[Len(hs) - j + 1] = PositionOf(j - 1, 2 * b)
                      /\ End(j - 1, 2 * b) <= n
                      /\ PositionOf(j - 1, 2 * b + 1) = SizeOf[n] + (j - 1)
                      /\ End(j - 1, 2 * b + 1) = n + 1
    BY <1>2, <1>3, NewPlaces
  <2>3. j \in Nat
    BY <1>6
  <2>4. h = j /\ i = b
    BY <2>1, <2>2, <2>3, PositionInjective DEF x
  <2>5. j \in 1..t
    BY <2>3, <2>4
  <2>6. Node(u, x) = new[j + 1]
    BY <1>9, <2>1
  <2>7. new[j + 1] = InteriorHash(Node(s, Peaks(SizeOf[n])[Len(hs) - j + 1]), new[j], SizeOf[n] + j)
    BY <1>5, <2>5 DEF Added
  <2>8. Peaks(SizeOf[n])[Len(hs) - j + 1] = l
    BY <2>2, <2>4, <2>5 DEF l
  <2>9. Node(u, l) = Node(s, l)
    <3>1. End(h - 1, 2 * i) <= n /\ 2 * i \in Nat
      BY <2>2, <2>4, <2>5
    <3>2. l < SizeOf[n]
      BY <1>10, <3>1, PositionWithin DEF l
    <3> QED
      BY <1>8, <1>10, <3>2
  <2>10. Node(u, r) = new[j]
    <3>1. r = SizeOf[n] + (j - 1)
      BY <2>2, <2>4, <2>5 DEF r
    <3>2. j - 1 \in 0..t /\ (j - 1) + 1 = j
      BY <2>5, <1>6
    <3>3. Node(u, SizeOf[n] + (j - 1)) = new[(j - 1) + 1]
      BY <1>9, <3>2
    <3> QED
      BY <3>1, <3>2, <3>3
  <2> QED
    BY <2>1, <2>6, <2>7, <2>8, <2>9, <2>10 DEF x, l, r
<1> QED
  BY <1>1, <1>10, <1>11, <1>12

\* Records appended elsewhere than where they were made for are not in place, so
\* they promise nothing.
LEMMA InPlaceAside ==
    ASSUME NEW s, Rows(s), NEW f, Rows(f), InPlace(f), NEW new, NextNodes(s, new),
           NEW k \in 0..Len(new), Len(s) # Len(f)
    PROVE  InPlace(f \o SubSeq(new, 1, k))
<1> DEFINE part == SubSeq(new, 1, k)
           u == f \o part
<1>1. Len(s) \in Nat /\ Len(f) \in Nat /\ Len(new) \in Nat /\ k \in Nat
  <2>1. Len(s) \in Nat /\ Len(f) \in Nat
    BY DEF Rows
  <2>2. Len(new) \in Nat
    BY DEF Rows, NextNodes
  <2> QED
    BY <2>1, <2>2
<1>2. Rows(part) /\ Len(part) = k /\ \A j \in 1..k : part[j] = new[j]
  BY RowsPrefix DEF NextNodes
<1> HIDE DEF part
<1>3. /\ Len(u) = Len(f) + k
      /\ \A j \in 1..Len(f) : u[j] = f[j]
      /\ \A j \in 1..k : u[Len(f) + j] = part[j]
  BY <1>2, RowsJoin
<1> HIDE DEF u
<1> SUFFICES ASSUME NEW h \in Nat, NEW i \in Nat, h > 0, PositionOf(h, i) < Len(u),
                    Node(u, PositionOf(h, i)).kind = "interior",
                    Node(u, PositionOf(h, i)).at = PositionOf(h, i)
             PROVE  Node(u, PositionOf(h, i)) = InteriorHash(Node(u, PositionOf(h - 1, 2 * i)),
                                                             Node(u, PositionOf(h - 1, 2 * i + 1)),
                                                             PositionOf(h, i))
  BY DEF InPlace, u, part
<1> DEFINE x == PositionOf(h, i)
           l == PositionOf(h - 1, 2 * i)
           r == PositionOf(h - 1, 2 * i + 1)
<1>4. x \in Nat /\ l \in Nat /\ r \in Nat /\ l < x /\ r < x
  BY ChildrenFirst
<1> HIDE DEF x, l, r
<1>5. x < Len(f)
  <2> SUFFICES ASSUME x >= Len(f) PROVE FALSE
    BY <1>1, <1>4
  <2>1. PICK j \in 1..k : x + 1 = Len(f) + j
    <3>1. x + 1 - Len(f) \in 1..k /\ x + 1 = Len(f) + (x + 1 - Len(f))
      BY <1>1, <1>3, <1>4 DEF x
    <3> QED
      BY <3>1
  <2>2. Node(u, x) = new[j]
    BY <1>2, <1>3, <2>1 DEF Node
  <2>3. new[j].kind = "interior" /\ new[j].at = x
    BY <2>2 DEF x
  <2>4. j # 1
    BY <2>3 DEF NextNodes
  <2>5. j \in 2..Len(new)
    BY <1>1, <2>4
  <2>6. new[j].at = Len(s) + (j - 1)
    BY <2>5 DEF NextNodes
  <2> QED
    BY <1>1, <1>4, <2>1, <2>3, <2>6
<1>6. \A p \in Nat : p < Len(f) => Node(u, p) = Node(f, p)
  <2>1. ASSUME NEW p \in Nat, p < Len(f) PROVE u[p + 1] = f[p + 1]
    <3>1. p + 1 \in 1..Len(f)
      BY <1>1, <2>1
    <3> QED
      BY <1>3, <3>1
  <2> QED
    BY <2>1 DEF Node
<1>7. l < Len(f) /\ r < Len(f)
  BY <1>1, <1>4, <1>5
<1>8. Node(u, x) = Node(f, x) /\ Node(u, l) = Node(f, l) /\ Node(u, r) = Node(f, r)
  BY <1>4, <1>5, <1>6, <1>7
<1>9. Node(f, x) = InteriorHash(Node(f, l), Node(f, r), x)
  BY <1>5, <1>8 DEF InPlace, x, l, r
<1> QED
  BY <1>8, <1>9 DEF x, l, r

\* Stores with the same nodes are one.
LEMMA RowsEqual ==
    ASSUME NEW s, NEW r, Rows(s), Rows(r), Len(s) = Len(r), \A k \in 1..Len(s) : s[k] = r[k]
    PROVE  s = r
BY DEF Rows

LEMMA RowsEnds ==
    ASSUME NEW s, NEW r, Rows(s), Rows(r)
    PROVE  /\ s \o SubSeq(r, 1, 0) = s
           /\ SubSeq(r, 1, Len(r)) = r
<1>1. Len(s) \in Nat /\ Len(r) \in Nat
  BY DEF Rows
<1>2. 0 \in 0..Len(r) /\ Len(r) \in 0..Len(r)
  BY <1>1
<1>3. Rows(SubSeq(r, 1, 0)) /\ Len(SubSeq(r, 1, 0)) = 0
  BY <1>2, RowsPrefix
<1>4. /\ Rows(SubSeq(r, 1, Len(r))) /\ Len(SubSeq(r, 1, Len(r))) = Len(r)
      /\ \A k \in 1..Len(r) : SubSeq(r, 1, Len(r))[k] = r[k]
  BY <1>2, RowsPrefix
<1>5. SubSeq(r, 1, Len(r)) = r
  BY <1>4, RowsEqual
<1> DEFINE e == SubSeq(r, 1, 0)
<1>6. Rows(e) /\ Len(e) = 0
  BY <1>3
<1> HIDE DEF e
<1>7. Rows(s \o e) /\ Len(s \o e) = Len(s) + 0 /\ \A k \in 1..Len(s) : (s \o e)[k] = s[k]
  BY <1>6, RowsJoin
<1>8. Len(s \o e) = Len(s)
  BY <1>1, <1>7
<1> DEFINE u == s \o e
<1>9. Rows(u) /\ Len(u) = Len(s) /\ \A k \in 1..Len(s) : u[k] = s[k]
  BY <1>7, <1>8
<1> HIDE DEF u
<1>10. u = s
  BY <1>9, RowsEqual
<1> QED
  BY <1>5, <1>10 DEF u, e

\* A store that is a mountain range, and one with part of an append at its end.
Grown(s) == \E b \in Seq(Bodies) : s = Forest(b)
HalfGrown(s) ==
    \E b \in Seq(Bodies), body \in Bodies :
        \E k \in 1..Len(NewNodes(Forest(b), LeafHash(body))) - 1 :
            s = Forest(b) \o SubSeq(NewNodes(Forest(b), LeafHash(body)), 1, k)

\* A forest has a valid size.
LEMMA ForestRows ==
    ASSUME NEW b, Len(b) \in Nat
    PROVE  Rows(Forest(b)) /\ Len(Forest(b)) = SizeOf[Len(b)] /\ ValidSize(Len(Forest(b)))
<1>1. /\ Forest(b) = [k \in 1..SizeOf[Len(b)] |-> Forest(b)[k]]
      /\ Len(Forest(b)) = SizeOf[Len(b)] /\ SizeOf[Len(b)] \in Nat
  BY ForestIs
<1>2. ValidSize(SizeOf[Len(b)])
  BY SizesAreValid
<1> DEFINE s == Forest(b)
<1> HIDE DEF s
<1>3. s = [k \in 1..Len(s) |-> s[k]] /\ Len(s) \in Nat
  BY <1>1 DEF s
<1> QED
  BY <1>1, <1>2, <1>3 DEF Rows, s

LEMMA GrownIs ==
    ASSUME NEW s, Grown(s)
    PROVE  Rows(s) /\ ValidSize(Len(s)) /\ \E b \in Seq(Bodies) : s = Forest(b)
<1>1. PICK b \in Seq(Bodies) : s = Forest(b)
  BY DEF Grown
<1>2. Len(b) \in Nat
  BY <1>1
<1> QED
  BY <1>1, <1>2, ForestRows

LEMMA WithBody ==
    ASSUME NEW b \in Seq(Bodies), NEW body \in Bodies
    PROVE  /\ Append(b, body) \in Seq(Bodies) /\ OneMore(b, Append(b, body))
           /\ Append(b, body)[Len(Append(b, body))] = body
BY DEF OneMore

\* A whole append leads from forest to forest, part of one to half an append.
LEMMA GrownGrows ==
    ASSUME NEW s, Grown(s), NEW body \in Bodies
    PROVE  Grown(s \o NewNodes(s, LeafHash(body)))
<1>1. PICK b \in Seq(Bodies) : s = Forest(b)
  BY DEF Grown
<1> DEFINE d == Append(b, body)
<1>2. d \in Seq(Bodies) /\ OneMore(b, d) /\ d[Len(d)] = body
  BY WithBody
<1> HIDE DEF d
<1>3. Forest(b) \o NewNodes(Forest(b), LeafHash(d[Len(d)])) = Forest(d)
  BY <1>2, ForestGrows
<1> QED
  BY <1>1, <1>2, <1>3 DEF Grown

LEMMA PartOfGrowth ==
    ASSUME NEW s, Grown(s), NEW body \in Bodies, NEW k \in 0..Len(NewNodes(s, LeafHash(body)))
    PROVE  \/ Grown(s \o SubSeq(NewNodes(s, LeafHash(body)), 1, k))
           \/ HalfGrown(s \o SubSeq(NewNodes(s, LeafHash(body)), 1, k))
<1> DEFINE new == NewNodes(s, LeafHash(body))
<1>1. Rows(s) /\ ValidSize(Len(s))
  BY GrownIs
<1>2. NextNodes(s, new)
  BY <1>1, NextNodesAre
<1>3. Grown(s \o new)
  BY GrownGrows
<1>4. PICK b \in Seq(Bodies) : s = Forest(b)
  BY DEF Grown
<1>5. ASSUME k \in 1..Len(new) - 1 PROVE HalfGrown(s \o SubSeq(new, 1, k))
  BY <1>4, <1>5 DEF HalfGrown
<1> HIDE DEF new
<1>6. Rows(new) /\ Len(new) \in Nat
  BY <1>2 DEF NextNodes, Rows
<1>7. s \o SubSeq(new, 1, 0) = s /\ SubSeq(new, 1, Len(new)) = new
  BY <1>1, <1>6, RowsEnds
<1>8. k = 0 \/ k = Len(new) \/ k \in 1..Len(new) - 1
  BY <1>6 DEF new
<1>9. Grown(s \o SubSeq(new, 1, k)) \/ HalfGrown(s \o SubSeq(new, 1, k))
  BY <1>3, <1>5, <1>7, <1>8
<1> QED
  BY <1>9 DEF new

\* Half an append is noticed from the number of nodes.
LEMMA HalfGrownIsInvalid ==
    ASSUME NEW s, HalfGrown(s)
    PROVE  Rows(s) /\ ~ValidSize(Len(s))
<1>1. PICK b \in Seq(Bodies), body \in Bodies :
        \E k \in 1..Len(NewNodes(Forest(b), LeafHash(body))) - 1 :
            s = Forest(b) \o SubSeq(NewNodes(Forest(b), LeafHash(body)), 1, k)
  BY DEF HalfGrown
<1> DEFINE new == NewNodes(Forest(b), LeafHash(body))
           n == Len(b)
<1>2. PICK k \in 1..Len(new) - 1 : s = Forest(b) \o SubSeq(new, 1, k)
  BY <1>1
<1>3. n \in Nat
  OBVIOUS
<1>4. Rows(Forest(b)) /\ Len(Forest(b)) = SizeOf[n] /\ ValidSize(Len(Forest(b)))
  BY <1>3, ForestRows
<1>5. NextNodes(Forest(b), new)
  BY <1>4, NextNodesAre
<1>6. PICK hs, c, q : Layout(n, hs, c, q)
  BY <1>3, LayoutExists
<1>7. PICK t : Merging(hs, t)
  BY <1>6, LayoutLength, MergingExists
<1> DEFINE leaf == LeafHash(body)
<1>8. Added(new, Forest(b), n, leaf, hs, t)
  <2> HIDE DEF leaf, n
  <2> QED
    BY <1>3, <1>4, <1>6, <1>7, NewNodesAre DEF leaf
<1> HIDE DEF new, n
<1>9. t \in Nat /\ Len(new) = t + 1 /\ Rows(new)
  BY <1>5, <1>8 DEF Added, NextNodes
<1>10. SizeOf[n + 1] = SizeOf[n] + t + 1 /\ SizeOf[n] \in Nat
  BY <1>3, <1>6, <1>7, NewAligned, SizeType
<1>11. k \in 0..Len(new) /\ k \in Nat /\ k >= 1 /\ k <= t
  BY <1>9
<1>12. Rows(SubSeq(new, 1, k)) /\ Len(SubSeq(new, 1, k)) = k
  BY <1>9, <1>11, RowsPrefix
<1> DEFINE part == SubSeq(new, 1, k)
           old == Forest(b)
<1>13. Rows(old) /\ Rows(part) /\ s = old \o part /\ Len(old) = SizeOf[n] /\ Len(part) = k
  BY <1>2, <1>4, <1>12
<1> HIDE DEF part, old
<1>14. Rows(s) /\ Len(s) = SizeOf[n] + k
  <2>1. Rows(old \o part) /\ Len(old \o part) = Len(old) + Len(part)
    BY <1>13, RowsJoin
  <2> QED
    BY <1>13, <2>1
<1>15. ASSUME NEW m \in Nat, Len(s) = SizeOf[m] PROVE FALSE
  <2>1. SizeOf[m] \in Nat /\ n + 1 \in Nat
    BY <1>3, SizeType
  <2>2. SizeOf[n] < SizeOf[m] /\ SizeOf[m] < SizeOf[n + 1]
    BY <1>9, <1>10, <1>11, <1>14, <1>15, <2>1
  <2>3. n < m /\ m < n + 1
    BY <1>3, <2>1, <2>2, SizesInOrder
  <2> QED
    BY <1>3, <2>3
<1>16. Len(s) \in Nat
  BY <1>14 DEF Rows
<1> QED
  BY <1>14, <1>15, <1>16, ValidIsSize

-----------------------------------------------------------------------------
(* The store through failures.                                              *)

\* The store and its file.  While no write has failed they are the same, half an
\* append apart from a death; whatever happened, only whole appends that were
\* written where they belong say where they are.
StoreInv ==
    /\ errors \in Nat /\ crashes \in Nat
    /\ Rows(nodes) /\ Rows(file)
    /\ InPlace(nodes) /\ InPlace(file)
    /\ up => /\ Len(nodes) <= Len(file)
             /\ Len(nodes) = Len(file) => nodes = file
             /\ errors = 0 => nodes = file
    /\ errors = 0 => Grown(file) \/ HalfGrown(file)
    /\ crashes = 0 => up /\ Grown(nodes)

\* What the store does in a step of the log.
StoreStep ==
    \/ \E body \in Bodies : AppendLeaf(body) \/ AppendFails(body) \/ Crash(body)
    \/ Reopen
    \/ errors' = errors + 1 /\ UNCHANGED <<nodes, file, torn, up, crashes>>
    \/ UNCHANGED vars

\* A step of the log is one of those.
LEMMA LogStepsTheStore == ASSUME [LogNext]_logVars PROVE StoreStep
<1>1. CASE UNCHANGED logVars
  BY <1>1 DEF logVars, StoreStep
<1>2. ASSUME NEW body \in Bodies, Fold(body) \/ FoldFails(body) \/ Die(body) PROVE StoreStep
  BY <1>2 DEF Fold, FoldFails, Die, StoreStep
<1>3. CASE FoldRefused \/ Persist \/ PersistFails
  BY <1>3 DEF FoldRefused, AppendRefused, Persist, PersistFails, StoreStep
<1>4. CASE Restart \/ RestartFails
  BY <1>4 DEF Restart, RestartFails, StoreStep, logVars
<1> QED
  BY <1>1, <1>2, <1>3, <1>4 DEF LogNext

LEMMA EmptyStore == Rows(<<>>) /\ InPlace(<<>>) /\ Grown(<<>>)
<1>1. Rows(<<>>)
  BY DEF Rows
<1>2. InPlace(<<>>)
  <2>1. \A h, i \in Nat : ~(PositionOf(h, i) < 0)
    BY PositionBounds
  <2> QED
    BY <2>1 DEF InPlace
<1>3. <<>> \in Seq(Bodies) /\ Len(<<>>) = 0 /\ 0 \in Nat
  OBVIOUS
<1>4. Rows(Forest(<<>>)) /\ Len(Forest(<<>>)) = SizeOf[0]
  BY <1>3, ForestRows
<1>5. Len(Forest(<<>>)) = 0
  BY <1>4, SizeEquation
<1> DEFINE s == Forest(<<>>)
<1>6. Rows(s) /\ Len(s) = 0
  BY <1>4, <1>5
<1> HIDE DEF s
<1>7. s = <<>>
  BY <1>6 DEF Rows
<1> QED
  BY <1>1, <1>2, <1>3, <1>7 DEF Grown, s

\* The store starts empty.
LEMMA StoreInit == ASSUME Init PROVE StoreInv
BY EmptyStore DEF Init, StoreInv

\* What PartlyWritten leaves in the file.
LEMMA PartKeeps ==
    ASSUME StoreInv, up, ValidSize(Len(nodes)), NEW body \in Bodies, PartlyWritten(body)
    PROVE  /\ Rows(file') /\ InPlace(file') /\ Len(nodes) <= Len(file')
           /\ Len(nodes) = Len(file') => nodes = file'
           /\ errors = 0 => Grown(file') \/ HalfGrown(file')
<1> DEFINE new == NewNodes(nodes, LeafHash(body))
<1>1. PICK k \in 0..Len(new) : file' = file \o SubSeq(new, 1, k)
  BY DEF PartlyWritten
<1>2. Rows(nodes) /\ Rows(file) /\ InPlace(nodes) /\ InPlace(file) /\ Len(nodes) <= Len(file)
  BY DEF StoreInv
<1>3. NextNodes(nodes, new)
  BY <1>2, NextNodesAre
<1>4. Rows(new) /\ Len(new) \in Nat /\ Len(nodes) \in Nat /\ Len(file) \in Nat
  BY <1>2, <1>3 DEF NextNodes, Rows
<1>5. InPlace(nodes \o new)
  BY <1>2, InPlaceGrows
<1>6. ASSUME errors = 0 PROVE Grown(file') \/ HalfGrown(file')
  <2>1. nodes = file
    BY <1>6 DEF StoreInv
  <2>2. Grown(nodes)
    BY <1>6, <2>1, HalfGrownIsInvalid DEF StoreInv
  <2> QED
    BY <1>1, <2>1, <2>2, PartOfGrowth
<1> HIDE DEF new
<1>7. Rows(SubSeq(new, 1, k)) /\ Len(SubSeq(new, 1, k)) = k /\ \A j \in 1..k : SubSeq(new, 1, k)[j] = new[j]
  BY <1>4, RowsPrefix
<1> DEFINE part == SubSeq(new, 1, k)
<1>8. Rows(part) /\ Len(part) = k /\ k \in Nat /\ file' = file \o part
  BY <1>1, <1>4, <1>7
<1> HIDE DEF part
<1>9. Rows(file') /\ Len(file') = Len(file) + k
  BY <1>2, <1>8, RowsJoin
<1>10. InPlace(file')
  <2>1. CASE Len(nodes) # Len(file)
    BY <1>1, <1>2, <1>3, <2>1, InPlaceAside
  <2>2. CASE Len(nodes) = Len(file)
    <3>1. nodes = file
      BY <2>2 DEF StoreInv
    <3> DEFINE whole == file \o new
    <3>2. /\ Len(whole) = Len(file) + Len(new)
          /\ \A j \in 1..Len(file) : whole[j] = file[j]
          /\ \A j \in 1..Len(new) : whole[Len(file) + j] = new[j]
      BY <1>2, <1>4, RowsJoin
    <3>3. /\ \A j \in 1..Len(file) : file'[j] = file[j]
          /\ \A j \in 1..k : file'[Len(file) + j] = part[j]
      BY <1>2, <1>8, RowsJoin
    <3>4. InPlace(whole)
      BY <1>5, <3>1
    <3> HIDE DEF whole
    <3>5. ASSUME NEW j \in 1..Len(file') PROVE file'[j] = whole[j]
      <4>1. CASE j <= Len(file)
        BY <1>4, <3>2, <3>3, <4>1, <1>9
      <4>2. CASE j > Len(file)
        <5>1. PICK i \in 1..k : j = Len(file) + i
          <6>1. j - Len(file) \in 1..k /\ j = Len(file) + (j - Len(file))
            BY <1>4, <1>8, <1>9, <4>2
          <6> QED
            BY <6>1
        <5>2. i \in 1..Len(new)
          BY <1>1, <1>4, <5>1 DEF new
        <5>3. part[i] = new[i]
          BY <1>7, <5>1 DEF part
        <5> QED
          BY <3>2, <3>3, <5>1, <5>2, <5>3
      <4> QED
        BY <1>4, <1>8, <1>9, <4>1, <4>2
    <3>6. Len(file') \in Nat /\ Len(whole) \in Nat /\ Len(file') <= Len(whole)
      BY <1>1, <1>4, <1>8, <1>9, <3>2 DEF new
    <3> QED
      BY <3>4, <3>5, <3>6, InPlacePrefix
  <2> QED
    BY <2>1, <2>2
<1>11. Len(nodes) <= Len(file')
  BY <1>2, <1>4, <1>8, <1>9
<1>12. ASSUME Len(nodes) = Len(file') PROVE nodes = file'
  <2>1. Len(nodes) = Len(file) /\ Len(file') = Len(file)
    BY <1>2, <1>4, <1>8, <1>9, <1>12
  <2>2. nodes = file
    BY <2>1 DEF StoreInv
  <2>3. \A j \in 1..Len(file) : file'[j] = file[j]
    BY <1>2, <1>8, RowsJoin
  <2>4. file' = file
    BY <1>2, <1>9, <2>1, <2>3, RowsEqual
  <2> QED
    BY <2>2, <2>4
<1> QED
  BY <1>6, <1>9, <1>10, <1>11, <1>12

\* Whatever is appended, fails or dies, the store keeps its invariant.
LEMMA StoreKeepsInv == ASSUME StoreInv, StoreStep PROVE StoreInv'
<1>0. Rows(nodes) /\ Rows(file) /\ InPlace(nodes) /\ InPlace(file) /\ errors \in Nat /\ crashes \in Nat
  BY DEF StoreInv
<1>1. ASSUME NEW body \in Bodies, AppendLeaf(body) PROVE StoreInv'
  <2> DEFINE new == NewNodes(nodes, LeafHash(body))
  <2>1. /\ up /\ ValidSize(Len(nodes))
        /\ nodes' = nodes \o new /\ file' = file \o new
        /\ UNCHANGED <<up, errors, crashes>>
        /\ Len(nodes) <= Len(file) /\ (Len(nodes) = Len(file) => nodes = file)
        /\ errors = 0 => nodes = file
    BY <1>1 DEF AppendLeaf, Appendable, StoreInv
  <2>2. NextNodes(nodes, new)
    BY <1>0, <2>1, NextNodesAre
  <2>3. InPlace(nodes')
    BY <1>0, <2>1, InPlaceGrows
  <2>4. Rows(new) /\ Len(new) \in Nat /\ Len(nodes) \in Nat /\ Len(file) \in Nat
    BY <1>0, <2>2 DEF NextNodes, Rows
  <2>5. crashes = 0 => Grown(nodes')
    BY <2>1, GrownGrows DEF StoreInv
  <2>6. errors = 0 => Grown(file')
    <3>1. errors = 0 => Grown(nodes)
      BY <2>1, HalfGrownIsInvalid DEF StoreInv
    <3> QED
      BY <2>1, <3>1, GrownGrows
  <2> HIDE DEF new
  <2>7. SubSeq(new, 1, Len(new)) = new
    BY <2>4, RowsEnds
  <2>8. InPlace(file')
    <3>1. CASE Len(nodes) = Len(file)
      BY <2>1, <2>3, <3>1
    <3>2. CASE Len(nodes) # Len(file)
      <4>1. Len(new) \in 0..Len(new)
        BY <2>4
      <4>2. InPlace(file \o SubSeq(new, 1, Len(new)))
        BY <1>0, <2>2, <3>2, <4>1, InPlaceAside
      <4> QED
        BY <2>1, <2>7, <4>2
    <3> QED
      BY <3>1, <3>2
  <2>9. /\ Rows(nodes') /\ Rows(file')
        /\ Len(nodes') = Len(nodes) + Len(new) /\ Len(file') = Len(file) + Len(new)
    BY <1>0, <2>1, <2>4, RowsJoin
  <2>10. Len(nodes') <= Len(file') /\ (Len(nodes') = Len(file') => nodes' = file')
    <3>1. Len(nodes') = Len(file') => Len(nodes) = Len(file)
      BY <2>4, <2>9
    <3> QED
      BY <2>1, <2>4, <2>9, <3>1
  <2> QED
    BY <1>0, <2>1, <2>3, <2>5, <2>6, <2>8, <2>9, <2>10 DEF StoreInv
<1>2. ASSUME NEW body \in Bodies, AppendFails(body) PROVE StoreInv'
  <2>1. /\ up /\ ValidSize(Len(nodes)) /\ PartlyWritten(body) /\ errors' = errors + 1
        /\ UNCHANGED <<nodes, up, crashes>>
    BY <1>2 DEF AppendFails, Appendable
  <2>2. /\ Rows(file') /\ InPlace(file') /\ Len(nodes) <= Len(file')
        /\ Len(nodes) = Len(file') => nodes = file'
    BY <2>1, PartKeeps
  <2>3. errors' \in Nat /\ errors' # 0
    BY <1>0, <2>1
  <2>4. crashes = 0 => Grown(nodes)
    BY DEF StoreInv
  <2> QED
    BY <1>0, <2>1, <2>2, <2>3, <2>4 DEF StoreInv
<1>3. ASSUME NEW body \in Bodies, Crash(body) PROVE StoreInv'
  <2>1. /\ up /\ crashes' = crashes + 1 /\ ~up' /\ nodes' = <<>> /\ errors' = errors
    BY <1>3 DEF Crash
  <2>2. Rows(file') /\ InPlace(file') /\ (errors = 0 => Grown(file') \/ HalfGrown(file'))
    <3>1. CASE file' = file
      BY <3>1 DEF StoreInv
    <3>2. CASE Appendable /\ PartlyWritten(body)
      BY <3>2, PartKeeps DEF Appendable
    <3> QED
      BY <1>3, <3>1, <3>2 DEF Crash
  <2>3. crashes' \in Nat /\ crashes' # 0
    BY <1>0, <2>1
  <2> QED
    BY <1>0, <2>1, <2>2, <2>3, EmptyStore DEF StoreInv
<1>4. CASE Reopen
  <2>1. ~up /\ up' /\ nodes' = file /\ UNCHANGED <<file, errors, crashes>>
    BY <1>4 DEF Reopen
  <2>2. crashes # 0
    BY <2>1 DEF StoreInv
  <2>3. Len(file) \in Nat
    BY <1>0 DEF Rows
  <2> QED
    BY <1>0, <2>1, <2>2, <2>3 DEF StoreInv
<1>5. CASE errors' = errors + 1 /\ UNCHANGED <<nodes, file, torn, up, crashes>>
  <2>1. errors' \in Nat /\ errors' # 0
    BY <1>0, <1>5
  <2> QED
    BY <1>5, <2>1 DEF StoreInv
<1>6. CASE UNCHANGED vars
  BY <1>6 DEF vars, StoreInv
<1> QED
  BY <1>1, <1>2, <1>3, <1>4, <1>5, <1>6 DEF StoreStep

LEMMA StoreInvHolds == LogSpec => []StoreInv
<1>1. LogInit => StoreInv
  BY StoreInit DEF LogInit
<1>2. StoreInv /\ [LogNext]_logVars => StoreInv'
  BY LogStepsTheStore, StoreKeepsInv
<1> QED
  BY <1>1, <1>2, PTL DEF LogSpec

\* A whole store is a forest, and of the leaves that stand in it.
LEMMA WholeIsGrown == ASSUME StoreInv, Whole PROVE Grown(nodes)
<1>1. CASE errors = 0
  BY <1>1, HalfGrownIsInvalid DEF StoreInv, Whole
<1>2. CASE crashes = 0
  BY <1>2 DEF StoreInv
<1> QED
  BY <1>1, <1>2 DEF Whole

LEMMA BodiesAre ==
    ASSUME NEW b \in Seq(Bodies)
    PROVE  Len(b) \in Nat /\ b = [k \in 1..Len(b) |-> b[k]]
OBVIOUS

LEMMA GrownIsForest == ASSUME Grown(nodes) PROVE nodes = Forest(Leaves) /\ Leaves \in Seq(Bodies)
<1>1. PICK b \in Seq(Bodies) : nodes = Forest(b)
  BY DEF Grown
<1>2. Len(b) \in Nat /\ b = [k \in 1..Len(b) |-> b[k]]
  BY BodiesAre
<1>3. Leaves = b
  BY <1>1, <1>2, LeavesOfForest
<1> QED
  BY <1>1, <1>3

\* The nodes in memory are the mountain range of their leaves, for any number of
\* leaves, whatever append was cut short by a death: a half append has no valid
\* size (FileNodeStore, add_leaf, peaks).
THEOREM StoreIsItsForest == LogSpec => []StoreIsForest
<1>1. StoreInv => StoreIsForest
  BY WholeIsGrown, GrownIsForest DEF StoreIsForest
<1> QED
  BY <1>1, StoreInvHolds, PTL

-----------------------------------------------------------------------------
(* The positions and the drawing.                                            *)

\* Division, as the multiplication it undoes.
LEMMA Quotient ==
    ASSUME NEW n \in Nat, NEW P \in Nat, P >= 1, NEW m \in Nat
    PROVE  n \div P = m <=> m * P <= n /\ n < m * P + P
<1> DEFINE d == n \div P
           r == n % P
<1>1. d \in Nat /\ r \in Nat /\ n = P * d + r /\ r < P
  OBVIOUS
<1> HIDE DEF d, r
<1>2. d = m => m * P <= n /\ n < m * P + P
  <2>1. ASSUME d = m PROVE m * P <= n /\ n < m * P + P
    <3>1. n = P * m + r
      BY <1>1, <2>1
    <3>2. P * m = m * P /\ m * P \in Nat
      OBVIOUS
    <3> QED
      BY <1>1, <3>1, <3>2
  <2> QED
    BY <2>1
<1>3. ASSUME m * P <= n, n < m * P + P PROVE d = m
  <2>1. P * d \in Nat /\ m * P \in Nat /\ P * d <= n /\ n < P * d + P
    BY <1>1
  <2>2. ASSUME d + 1 <= m PROVE FALSE
    <3>1. (d + 1) * P <= m * P
      BY <1>1, <2>2
    <3>2. (d + 1) * P = P * d + P
      BY <1>1
    <3> QED
      BY <1>3, <2>1, <3>1, <3>2
  <2>3. ASSUME m + 1 <= d PROVE FALSE
    <3>1. (m + 1) * P <= d * P
      BY <1>1, <2>3
    <3>2. (m + 1) * P = m * P + P /\ d * P = P * d
      BY <1>1
    <3> QED
      BY <1>3, <2>1, <3>1, <3>2
  <2> QED
    BY <1>1, <2>2, <2>3
<1> QED
  BY <1>2, <1>3 DEF d

\* How many subtrees of a height n leaves have.
LEMMA PlacesCount ==
    ASSUME NEW n \in Nat, NEW h \in Nat, NEW x \in Nat, End(h, x) <= n
    PROVE  n \div Power[h] = x + 1 <=> n < End(h, x) + Power[h]
<1>1. End(h, x) = (x + 1) * Power[h] /\ Power[h] \in Nat /\ Power[h] >= 1 /\ x + 1 \in Nat
  BY PowerFacts DEF End
<1> DEFINE P == Power[h]
           m == x + 1
<1>2. P \in Nat /\ P >= 1 /\ m \in Nat /\ End(h, x) = m * P
  BY <1>1
<1> HIDE DEF P, m
<1>3. n \div P = m <=> m * P <= n /\ n < m * P + P
  BY <1>2, Quotient
<1> QED
  BY <1>2, <1>3 DEF P, m

\* The last of an odd number of subtrees has no right neighbour.
LEMMA EvenBelow ==
    ASSUME NEW h \in Nat, NEW x \in Nat
    PROVE  /\ Aligned(x * Power[h], h + 1) <=> x % 2 = 0
           /\ (x + 1) % 2 = 1 <=> x % 2 = 0
<1> DEFINE P == Power[h]
<1>1. P \in Nat /\ P >= 1 /\ Power[h + 1] = 2 * P
  BY PowerFacts
<1> HIDE DEF P
<1>2. ASSUME NEW y \in Nat, x * P = y * (2 * P) PROVE x = 2 * y
  <2>1. y * (2 * P) = (2 * y) * P /\ 2 * y \in Nat
    BY <1>1
  <2>2. \A a, b \in Nat : a < b => a * P < b * P
    <3>1. ASSUME NEW a \in Nat, NEW b \in Nat, a < b PROVE a * P < b * P
      <4>1. b * P = a * P + (b - a) * P
        BY <1>1
      <4>2. (b - a) * P >= 1
        BY <1>1, <3>1
      <4>3. a * P \in Nat /\ (b - a) * P \in Int /\ b * P \in Nat
        BY <1>1
      <4> QED
        BY <4>1, <4>2, <4>3
    <3> QED
      BY <3>1
  <2>3. ~(x < 2 * y) /\ ~(2 * y < x)
    <3>1. x * P \in Nat /\ (2 * y) * P \in Nat /\ x * P = (2 * y) * P
      BY <1>1, <1>2, <2>1
    <3> QED
      BY <2>1, <2>2, <3>1
  <2> QED
    BY <2>1, <2>3
<1>3. ASSUME x % 2 = 0 PROVE Aligned(x * P, h + 1)
  <2>1. PICK y \in Nat : x = 2 * y
    <3>1. x \div 2 \in Nat /\ x = 2 * (x \div 2)
      BY <1>3
    <3> QED
      BY <3>1
  <2>2. x * P = y * (2 * P)
    BY <1>1, <2>1
  <2>3. x * P = y * Power[h + 1]
    BY <1>1, <2>2
  <2> QED
    BY <2>3 DEF Aligned
<1>4. ASSUME Aligned(x * P, h + 1) PROVE x % 2 = 0
  <2>1. PICK y \in Nat : x * P = y * Power[h + 1]
    BY <1>4 DEF Aligned
  <2>2. x * P = y * (2 * P)
    BY <1>1, <2>1
  <2>3. x = 2 * y
    BY <1>2, <2>2
  <2> QED
    BY <2>3
<1>5. (x + 1) % 2 = 1 <=> x % 2 = 0
  OBVIOUS
<1> QED
  BY <1>3, <1>4, <1>5 DEF P

\* The peaks that a size has stand at the mountains of its leaves.
LEMMA PeaksAreMountains ==
    ASSUME NEW n \in Nat, NEW hs, NEW c, NEW q, Layout(n, hs, c, q)
    PROVE  /\ \A i \in 1..Len(hs) : <<hs[i], q[i]>> \in Mountains(n)
           /\ \A p \in Mountains(n) : \E i \in 1..Len(hs) : p = <<hs[i], q[i]>>
<1>1. ASSUME NEW i \in 1..Len(hs) PROVE <<hs[i], q[i]>> \in Mountains(n)
  <2> DEFINE h == hs[i]
             x == q[i]
  <2>1. /\ h \in Nat /\ x \in Nat /\ c[i - 1] = x * Power[h] /\ c[i] = End(h, x)
        /\ c[i] <= n /\ n < c[i] + Power[h] /\ Aligned(c[i - 1], h + 1)
    BY LayoutFacts
  <2> HIDE DEF h, x
  <2>2. End(h, x) <= n /\ n < End(h, x) + Power[h] /\ Aligned(x * Power[h], h + 1)
    BY <2>1
  <2>3. <<h, x>> \in Places(n)
    BY <2>1, <2>2, PlaceIsHere
  <2>4. n \div Power[h] = x + 1
    BY <2>1, <2>2, PlacesCount
  <2>5. (x + 1) % 2 = 1
    BY <2>1, <2>2, EvenBelow
  <2>6. <<h, x>> \in Mountains(n)
    BY <2>3, <2>4, <2>5 DEF Mountains
  <2> QED
    BY <2>6 DEF h, x
<1>2. ASSUME NEW p \in Mountains(n) PROVE \E i \in 1..Len(hs) : p = <<hs[i], q[i]>>
  <2> DEFINE h == p[1]
             x == p[2]
  <2>1. p \in Places(n) /\ n \div Power[h] = x + 1 /\ (x + 1) % 2 = 1
    BY DEF Mountains
  <2>2. h \in Nat /\ x \in Nat /\ p = <<h, x>> /\ End(h, x) <= n
    BY <2>1, PlaceFacts
  <2> HIDE DEF h, x
  <2>3. n < End(h, x) + Power[h]
    BY <2>1, <2>2, PlacesCount
  <2>4. Aligned(x * Power[h], h + 1)
    BY <2>1, <2>2, EvenBelow
  <2>5. /\ End(h, x) \in Nat \ {0} /\ Aligned(End(h, x), h)
        /\ End(h, x) = x * Power[h] + Power[h]
    BY <2>2, EndFacts
  <2>6. ~Aligned(End(h, x), h + 1)
    <3> DEFINE y == x * Power[h]
    <3>1. Aligned(y, h + 1)
      BY <2>4
    <3> HIDE DEF y
    <3>2. ~Aligned(y + Power[h], h + 1)
      BY <2>2, <3>1, NotAlignedHigher
    <3> QED
      BY <2>5, <3>2 DEF y
  <2>7. PICK i \in 1..Len(hs) : c[i - 1] < End(h, x) /\ End(h, x) <= c[i]
    <3>1. End(h, x) \in 1..n
      BY <2>2, <2>5
    <3> QED
      BY <3>1, WhichMountain
  <2>8. Under(h, x, hs[i], q[i])
    BY <2>2, <2>7, UnderMountain
  <2>9. hs[i] \in Nat /\ q[i] \in Nat /\ c[i] \in Nat /\ c[i] <= n /\ Aligned(c[i], hs[i])
    BY LayoutFacts
  <2>10. ~(h < hs[i])
    <3> SUFFICES ASSUME h < hs[i] PROVE FALSE
      OBVIOUS
    <3>1. h + 1 \in 0..hs[i] /\ h \in 0..hs[i]
      BY <2>2, <2>9
    <3>2. Aligned(c[i], h + 1) /\ Aligned(c[i], h)
      BY <2>9, <3>1, AlignedBelow
    <3>3. End(h, x) # c[i]
      BY <2>6, <3>2
    <3>4. End(h, x) < c[i]
      BY <2>5, <2>7, <2>9, <3>3
    <3>5. End(h, x) + Power[h] <= c[i]
      BY <2>2, <2>5, <3>2, <3>4, AlignedSteps
    <3>6. Power[h] \in Nat
      BY <2>2, PowerFacts
    <3> QED
      BY <2>3, <2>5, <2>9, <3>5, <3>6
  <2>11. h = hs[i]
    BY <2>2, <2>8, <2>9, <2>10 DEF Under
  <2>12. x = q[i]
    BY <2>8, <2>11, UnderPosition
  <2> QED
    BY <2>2, <2>11, <2>12
<1> QED
  BY <1>1, <1>2

\* peaks() lists the mountains of the drawing, from left to right.
LEMMA PeakPositions ==
    ASSUME NEW n \in Nat
    PROVE  /\ ToSet(Peaks(SizeOf[n])) = {PositionOf(p[1], p[2]) : p \in Mountains(n)}
           /\ Len(Peaks(SizeOf[n])) \in Nat
           /\ \A i \in 2..Len(Peaks(SizeOf[n])) : Peaks(SizeOf[n])[i - 1] < Peaks(SizeOf[n])[i]
<1>1. PICK hs, c, q : Layout(n, hs, c, q)
  BY LayoutExists
<1> DEFINE N == Len(hs)
           pks == Peaks(SizeOf[n])
<1>2. N \in Nat
  BY <1>1, LayoutLength
<1>3. pks = [i \in 1..N |-> PositionOf(hs[i], q[i])]
  BY <1>1, PeaksOfSize
<1>4. /\ \A i \in 1..N : <<hs[i], q[i]>> \in Mountains(n)
      /\ \A p \in Mountains(n) : \E i \in 1..N : p = <<hs[i], q[i]>>
  BY <1>1, PeaksAreMountains
<1> HIDE DEF pks
<1>5. DOMAIN pks = 1..N /\ Len(pks) = N
  <2>1. pks = [i \in 1..N |-> pks[i]]
    BY <1>3
  <2> HIDE DEF N
  <2> QED
    BY <1>2, <2>1, IsSequence
<1>6. ToSet(pks) = {PositionOf(p[1], p[2]) : p \in Mountains(n)}
  <2>1. ASSUME NEW i \in 1..N PROVE \E p \in Mountains(n) : pks[i] = PositionOf(p[1], p[2])
    <3>1. <<hs[i], q[i]>> \in Mountains(n) /\ pks[i] = PositionOf(hs[i], q[i])
      BY <1>3, <1>4
    <3> QED
      BY <3>1
  <2>2. ASSUME NEW p \in Mountains(n) PROVE \E i \in 1..N : PositionOf(p[1], p[2]) = pks[i]
    <3>1. PICK i \in 1..N : p = <<hs[i], q[i]>>
      BY <1>4
    <3> QED
      BY <1>3, <3>1
  <2>3. ToSet(pks) = {pks[i] : i \in 1..N}
    BY <1>5 DEF ToSet
  <2> QED
    BY <2>1, <2>2, <2>3
<1>7. ASSUME NEW i \in 2..N PROVE pks[i - 1] < pks[i]
  <2>1. i \in 1..N /\ i - 1 \in 1..N /\ i \in 0..N /\ i - 1 \in 0..N /\ i - 1 < i
    BY <1>2
  <2>2. PositionOf(hs[i], q[i]) + 1 = SizeOf[c[i]] /\ PositionOf(hs[i], q[i]) \in Nat
    BY <1>1, <2>1, LayoutFacts
  <2>3. PositionOf(hs[i - 1], q[i - 1]) + 1 = SizeOf[c[i - 1]] /\ PositionOf(hs[i - 1], q[i - 1]) \in Nat
    <3> DEFINE j == i - 1
    <3>1. j \in 1..N
      BY <2>1
    <3> HIDE DEF j
    <3>2. PositionOf(hs[j], q[j]) + 1 = SizeOf[c[j]] /\ PositionOf(hs[j], q[j]) \in Nat
      BY <1>1, <3>1, LayoutFacts
    <3> QED
      BY <3>2 DEF j
  <2>4. c[i - 1] < c[i] /\ c[i - 1] \in Nat /\ c[i] \in Nat
    BY <1>1, <2>1, EndsInOrder
  <2>5. SizeOf[c[i - 1]] < SizeOf[c[i]]
    BY <2>4, SizeGrows
  <2> QED
    BY <1>3, <2>1, <2>2, <2>3, <2>5
<1> QED
  BY <1>2, <1>5, <1>6, <1>7 DEF pks

\* What PositionsAgree says, of a forest.
LEMMA PositionsOfForest ==
    ASSUME Grown(nodes)
    PROVE  LET n == Len(Leaves)
               pks == Peaks(Len(nodes))
           IN  /\ Len(nodes) = NodeCount(n) /\ LeafCount(Len(nodes)) = n
               /\ \A size \in 0..Len(nodes) :
                     ValidSize(size) <=> \E k \in 0..n : size = SizeOf[k]
               /\ \A p \in Places(n) : HeightAt(PositionOf(p[1], p[2])) = p[1]
               /\ \A i \in 0..n - 1 :
                     /\ Node(nodes, LeafIndexToPos(i)) = LeafHash(Leaves[i + 1])
                     /\ PosToLeafIndex(LeafIndexToPos(i)) = i
               /\ ToSet(pks) = {PositionOf(p[1], p[2]) : p \in Mountains(n)}
               /\ \A i \in 2..Len(pks) : pks[i - 1] < pks[i]
<1> DEFINE b == Leaves
           n == Len(Leaves)
<1>1. nodes = Forest(b) /\ b \in Seq(Bodies)
  BY GrownIsForest
<1>2. n \in Nat
  BY <1>1
<1> HIDE DEF b
<1>3. Len(nodes) = SizeOf[n] /\ SizeOf[n] \in Nat
  BY <1>1, <1>2, ForestRows, SizeType DEF b
<1>4. Len(nodes) = NodeCount(n) /\ LeafCount(Len(nodes)) = n
  BY <1>2, <1>3, NodeCountIsSize, LeafCountOfSize
<1>5. ASSUME NEW size \in 0..Len(nodes)
      PROVE  ValidSize(size) <=> \E k \in 0..n : size = SizeOf[k]
  <2>1. size \in Nat
    BY <1>3
  <2>2. ASSUME ValidSize(size) PROVE \E k \in 0..n : size = SizeOf[k]
    <3>1. PICK k \in Nat : size = SizeOf[k]
      BY <2>1, <2>2, ValidIsSize
    <3>2. ~(SizeOf[n] < SizeOf[k])
      BY <1>3, <3>1
    <3>3. ~(n < k)
      BY <1>2, <3>2, SizesInOrder
    <3> QED
      BY <1>2, <3>1, <3>3
  <2>3. ASSUME NEW k \in 0..n, size = SizeOf[k] PROVE ValidSize(size)
    <3>1. k \in Nat
      BY <1>2
    <3> QED
      BY <2>3, <3>1, SizesAreValid
  <2> QED
    BY <2>2, <2>3
<1>6. \A p \in Places(n) : HeightAt(PositionOf(p[1], p[2])) = p[1]
  <2>1. ASSUME NEW p \in Places(n) PROVE HeightAt(PositionOf(p[1], p[2])) = p[1]
    <3>1. p[1] \in Nat /\ p[2] \in Nat
      BY <1>2, PlaceFacts
    <3> QED
      BY <3>1, HeightOfPosition
  <2> QED
    BY <2>1
<1>7. ASSUME NEW i \in 0..n - 1
      PROVE  /\ Node(nodes, LeafIndexToPos(i)) = LeafHash(Leaves[i + 1])
             /\ PosToLeafIndex(LeafIndexToPos(i)) = i
  <2>1. i \in Nat /\ i < n /\ i + 1 <= n
    BY <1>2
  <2>2. LeafIndexToPos(i) = SizeOf[i]
    BY <2>1, NodeCountIsSize DEF LeafIndexToPos
  <2>3. PosToLeafIndex(SizeOf[i]) = i
    BY <2>1, LeafCountOfSize DEF PosToLeafIndex
  <2>4. PositionOf(0, i) = SizeOf[i] /\ End(0, i) = i + 1
    BY <2>1, LeafPosition
  <2>5. 0 \in Nat /\ Len(b) = n /\ Len(b) \in Nat /\ End(0, i) <= Len(b)
    BY <1>2, <2>1, <2>4 DEF b
  <2>6. Node(Forest(b), PositionOf(0, i)) = Digests(b)[<<0, i>>]
    BY <2>1, <2>5, NodeOfForest
  <2>7. Digests(b)[<<0, i>>] = LeafHash(b[i + 1])
    BY <2>1, <2>5, DigestOf
  <2>8. Node(nodes, LeafIndexToPos(i)) = LeafHash(Leaves[i + 1])
    BY <1>1, <2>2, <2>4, <2>6, <2>7 DEF b
  <2> QED
    BY <2>2, <2>3, <2>8
<1>8. /\ ToSet(Peaks(Len(nodes))) = {PositionOf(p[1], p[2]) : p \in Mountains(n)}
      /\ \A i \in 2..Len(Peaks(Len(nodes))) : Peaks(Len(nodes))[i - 1] < Peaks(Len(nodes))[i]
  <2> HIDE DEF n
  <2> QED
    BY <1>2, <1>3, PeakPositions
<1> QED
  BY <1>4, <1>5, <1>6, <1>7, <1>8

LEMMA UndisturbedIsGrown == ASSUME StoreInv, Undisturbed PROVE Grown(nodes)
BY DEF StoreInv, Undisturbed

\* node_count, leaf_count, valid sizes, height_at, leaf_index_to_mmr_pos and peaks()
\* agree with the tree as drawn, for any number of leaves.
THEOREM PositionsAreDrawn == LogSpec => []PositionsAgree
<1>1. ASSUME StoreInv PROVE PositionsAgree
  BY <1>1, UndisturbedIsGrown, PositionsOfForest DEF PositionsAgree
<1> QED
  BY <1>1, StoreInvHolds, PTL

-----------------------------------------------------------------------------
(* Ancestors and paths.                                                      *)

\* The subtree of height k that covers the j-th of height g.
Above(g, j, k) == CHOOSE y \in Nat : Under(g, j, k, y)

\* There is one.
LEMMA UnderIsOne ==
    ASSUME NEW g, NEW j, NEW k, NEW x, NEW y, Under(g, j, k, x), Under(g, j, k, y)
    PROVE  x = y
<1> DEFINE E == End(g, j)
           P == Power[k]
<1>1. /\ g \in Nat /\ j \in Nat /\ k \in Nat /\ x \in Nat /\ y \in Nat
      /\ x * P < E /\ E <= (x + 1) * P /\ y * P < E /\ E <= (y + 1) * P
  BY DEF Under, End
<1>2. E \in Nat /\ P \in Nat /\ P >= 1
  BY <1>1, EndFacts, PowerFacts
<1> HIDE DEF E, P
<1>3. ASSUME NEW a \in Nat, NEW b \in Nat, a < b PROVE (a + 1) * P <= b * P
  <2>1. b * P = (a + 1) * P + (b - a - 1) * P
    BY <1>2
  <2>2. (b - a - 1) \in Nat
    BY <1>3
  <2>3. (b - a - 1) * P \in Nat /\ (a + 1) * P \in Nat
    BY <1>2, <2>2
  <2> QED
    BY <2>1, <2>3
<1>4. ~(x < y)
  <2> SUFFICES ASSUME x < y PROVE FALSE
    OBVIOUS
  <2>1. (x + 1) * P <= y * P /\ (x + 1) * P \in Nat /\ y * P \in Nat
    BY <1>1, <1>2, <1>3
  <2> QED
    BY <1>1, <1>2, <2>1
<1>5. ~(y < x)
  <2> SUFFICES ASSUME y < x PROVE FALSE
    OBVIOUS
  <2>1. (y + 1) * P <= x * P /\ (y + 1) * P \in Nat /\ x * P \in Nat
    BY <1>1, <1>2, <1>3
  <2> QED
    BY <1>1, <1>2, <2>1
<1> QED
  BY <1>1, <1>4, <1>5

LEMMA AboveIs ==
    ASSUME NEW g, NEW j, NEW k, NEW y, Under(g, j, k, y)
    PROVE  Above(g, j, k) = y
<1>1. y \in Nat
  BY DEF Under
<1>2. Above(g, j, k) \in Nat /\ Under(g, j, k, Above(g, j, k))
  BY <1>1 DEF Above
<1> QED
  BY <1>2, UnderIsOne

\* There is one at every height in between.
LEMMA AboveExists ==
    ASSUME NEW g, NEW j, NEW h, NEW i, Under(g, j, h, i)
    PROVE  \A k \in g..h : Under(g, j, k, Above(g, j, k))
<1>1. g \in Nat /\ h \in Nat /\ g <= h
  BY DEF Under
<1> DEFINE Ok(m) == m <= h - g => \E y \in Nat : Under(g, j, h - m, y)
           S == {m \in Nat : Ok(m)}
<1>2. ASSUME NEW m \in Nat, \A l \in Nat : l < m => Ok(l) PROVE Ok(m)
  <2> SUFFICES ASSUME m <= h - g PROVE \E y \in Nat : Under(g, j, h - m, y)
    OBVIOUS
  <2>1. CASE m = 0
    <3>1. h - m = h /\ i \in Nat
      BY <1>1, <2>1 DEF Under
    <3> QED
      BY <3>1
  <2>2. CASE m # 0
    <3>1. m - 1 \in Nat /\ m - 1 < m /\ m - 1 <= h - g
      BY <1>1, <2>2
    <3>2. Ok(m - 1)
      BY <1>2, <3>1
    <3>3. PICK y \in Nat : Under(g, j, h - (m - 1), y)
      BY <3>1, <3>2
    <3> DEFINE k == h - m
    <3>4. k \in Nat /\ k + 1 = h - (m - 1) /\ g <= k
      BY <1>1
    <3> HIDE DEF k
    <3>5. Under(g, j, k + 1, y)
      BY <3>3, <3>4
    <3>6. Under(g, j, k, 2 * y) \/ Under(g, j, k, 2 * y + 1)
      BY <3>4, <3>5, UnderChild
    <3>7. 2 * y \in Nat /\ 2 * y + 1 \in Nat
      OBVIOUS
    <3> QED
      BY <3>6, <3>7 DEF k
  <2> QED
    BY <2>1, <2>2
<1>3. Inductive(S)
  <2> HIDE DEF Ok
  <2> QED
    BY <1>2 DEF Inductive
<1>4. \A m \in Nat : Ok(m)
  <2> HIDE DEF Ok
  <2> QED
    BY <1>3, StrongInduction
<1> SUFFICES ASSUME NEW k \in g..h PROVE Under(g, j, k, Above(g, j, k))
  OBVIOUS
<1>5. h - k \in Nat /\ h - k <= h - g /\ h - (h - k) = k
  BY <1>1
<1>6. \E y \in Nat : Under(g, j, h - (h - k), y)
  BY <1>4, <1>5
<1> QED
  BY <1>5, <1>6 DEF Above

\* It is the left or the right child of the next.
LEMMA AboveSteps ==
    ASSUME NEW g, NEW j, NEW h, NEW i, Under(g, j, h, i), NEW k \in Nat, g <= k, k + 1 <= h
    PROVE  /\ Above(g, j, k) \in Nat /\ Above(g, j, k + 1) \in Nat
           /\ Above(g, j, k) = IF PositionOf(g, j) <= PositionOf(k, 2 * Above(g, j, k + 1))
                               THEN 2 * Above(g, j, k + 1) ELSE 2 * Above(g, j, k + 1) + 1
<1>1. g \in Nat /\ h \in Nat /\ g <= h
  BY DEF Under
<1>2. k \in g..h /\ k + 1 \in g..h
  BY <1>1
<1>3. Under(g, j, k, Above(g, j, k)) /\ Under(g, j, k + 1, Above(g, j, k + 1))
  BY <1>2, AboveExists
<1> DEFINE y == Above(g, j, k + 1)
<1>4. Under(g, j, k + 1, y)
  BY <1>3
<1> HIDE DEF y
<1>5. IF PositionOf(g, j) <= PositionOf(k, 2 * y)
      THEN Under(g, j, k, 2 * y) ELSE Under(g, j, k, 2 * y + 1)
  BY <1>4, UnderChild
<1>6. IF PositionOf(g, j) <= PositionOf(k, 2 * y)
      THEN Above(g, j, k) = 2 * y ELSE Above(g, j, k) = 2 * y + 1
  BY <1>5, AboveIs
<1>7. Above(g, j, k) \in Nat /\ y \in Nat
  BY <1>3, <1>4 DEF Under
<1> QED
  BY <1>6, <1>7 DEF y

\* The way down of locate_path.
Descending(f, root, height, target) ==
    f = [k \in 0..height |->
            IF k = 0 THEN root
            ELSE IF target <= f[k - 1] - Power[height - k + 1]
                 THEN f[k - 1] - Power[height - k + 1] ELSE f[k - 1] - 1]

\* The descent is a function.
LEMMA DescentExists ==
    ASSUME NEW root \in Nat, NEW height \in Nat, NEW target \in Nat
    PROVE  \E f : Descending(f, root, height, target)
<1> DEFINE D == 0..height
           V == Int
           Rhs(k, f) == IF k = 0 THEN root
                        ELSE IF target <= f[k - 1] - Power[height - k + 1]
                             THEN f[k - 1] - Power[height - k + 1] ELSE f[k - 1] - 1
           F == [x \in D \X [D -> V] |-> Rhs(x[1], x[2])]
<1>1. ASSUME NEW k \in D, k # 0 PROVE k - 1 \in D /\ k - 1 < k /\ Power[height - k + 1] \in Int
  <2>1. height - k + 1 \in Nat
    OBVIOUS
  <2> QED
    BY <1>1, <2>1, PowerFacts
<1>2. ASSUME NEW k \in D, NEW f \in [D -> V] PROVE F[<<k, f>>] = Rhs(k, f) /\ Rhs(k, f) \in V
  <2>1. F[<<k, f>>] = Rhs(k, f)
    OBVIOUS
  <2>2. Rhs(k, f) \in V
    BY <1>1
  <2> QED
    BY <2>1, <2>2
<1>3. F \in [D \X [D -> V] -> V]
  <2>1. \A x \in D \X [D -> V] : Rhs(x[1], x[2]) \in V
    BY <1>2
  <2> HIDE DEF Rhs, D, V
  <2> QED
    BY <2>1
<1>4. ASSUME NEW n \in D, NEW a \in [D -> V], NEW b \in [D -> V], \A m \in D : m < n => a[m] = b[m]
      PROVE  F[<<n, a>>] = F[<<n, b>>]
  <2>1. Rhs(n, a) = Rhs(n, b)
    BY <1>1, <1>4
  <2> HIDE DEF Rhs, F
  <2> QED
    BY <1>2, <2>1
<1>5. D \in SUBSET Nat /\ V # {}
  OBVIOUS
<1>6. PICK f \in [D -> V] : \A n \in D : f[n] = F[<<n, f>>]
  <2> HIDE DEF F, D, V
  <2>1. IsStep(F, D, V)
    BY <1>3, <1>4, <1>5 DEF IsStep
  <2> QED
    BY <2>1, Recursion
<1> HIDE DEF F
<1>7. f = [k \in D |-> Rhs(k, f)]
  <2> HIDE DEF Rhs
  <2> QED
    BY <1>2, <1>6
<1> QED
  BY <1>7 DEF Descending

\* A path from the j-th subtree of height g up to height h: each step names the
\* subtree above, and the one beside on the side it is on.
Walk(path, g, j, h) ==
    /\ Len(path) \in Nat /\ Len(path) = h - g /\ DOMAIN path = 1..Len(path)
    /\ \A k \in 1..Len(path) :
          /\ path[k].parent = PositionOf(g + k, Above(g, j, g + k))
          /\ path[k].targetIsRight \in BOOLEAN
          /\ path[k].targetIsRight =>
                /\ Above(g, j, g + k - 1) = 2 * Above(g, j, g + k) + 1
                /\ path[k].sibling = PositionOf(g + k - 1, 2 * Above(g, j, g + k))
          /\ ~path[k].targetIsRight =>
                /\ Above(g, j, g + k - 1) = 2 * Above(g, j, g + k)
                /\ path[k].sibling = PositionOf(g + k - 1, 2 * Above(g, j, g + k) + 1)

\* A descent follows the ancestors.
LEMMA DescentFollows ==
    ASSUME NEW g, NEW j, NEW h, NEW i, Under(g, j, h, i),
           NEW down, Descending(down, PositionOf(h, i), h, PositionOf(g, j)),
           NEW k \in 0..h - g
    PROVE  down[k] = PositionOf(h - k, Above(g, j, h - k))
<1>1. g \in Nat /\ h \in Nat /\ j \in Nat /\ i \in Nat /\ g <= h
  BY DEF Under
<1> DEFINE target == PositionOf(g, j)
           Ok(m) == m <= h - g => down[m] = PositionOf(h - m, Above(g, j, h - m))
           S == {m \in Nat : Ok(m)}
<1>2. \A m \in 0..h : down[m] = IF m = 0 THEN PositionOf(h, i)
                                ELSE IF target <= down[m - 1] - Power[h - m + 1]
                                     THEN down[m - 1] - Power[h - m + 1] ELSE down[m - 1] - 1
  BY DEF Descending
<1> HIDE DEF target
<1>3. ASSUME NEW m \in Nat, \A l \in Nat : l < m => Ok(l) PROVE Ok(m)
  <2> SUFFICES ASSUME m <= h - g PROVE down[m] = PositionOf(h - m, Above(g, j, h - m))
    OBVIOUS
  <2>0. m \in 0..h
    BY <1>1
  <2>1. CASE m = 0
    <3>1. h - m = h
      BY <1>1, <2>1
    <3>2. Above(g, j, h) = i
      BY AboveIs
    <3> QED
      BY <1>2, <2>0, <2>1, <3>1, <3>2
  <2>2. CASE m # 0
    <3>1. m - 1 \in Nat /\ m - 1 < m /\ m - 1 <= h - g
      BY <1>1, <2>2
    <3>2. Ok(m - 1)
      BY <1>3, <3>1
    <3>3. down[m - 1] = PositionOf(h - (m - 1), Above(g, j, h - (m - 1)))
      BY <3>1, <3>2
    <3> DEFINE l == h - m
    <3>4. l \in Nat /\ l + 1 = h - (m - 1) /\ g <= l /\ l + 1 <= h /\ h - m + 1 = l + 1
      BY <1>1, <2>2
    <3> HIDE DEF l
    <3> DEFINE y == Above(g, j, l + 1)
    <3>5. down[m - 1] = PositionOf(l + 1, y)
      BY <3>3, <3>4
    <3>6. /\ Above(g, j, l) \in Nat /\ y \in Nat
          /\ Above(g, j, l) = IF target <= PositionOf(l, 2 * y) THEN 2 * y ELSE 2 * y + 1
      BY <3>4, AboveSteps DEF target
    <3> HIDE DEF y
    <3>7. /\ PositionOf(l, 2 * y + 1) = PositionOf(l + 1, y) - 1
          /\ PositionOf(l, 2 * y) = PositionOf(l + 1, y) - Power[l + 1]
      BY <3>4, <3>6, ChildPositions
    <3>8. down[m] = IF target <= down[m - 1] - Power[l + 1]
                    THEN down[m - 1] - Power[l + 1] ELSE down[m - 1] - 1
      BY <1>2, <2>0, <2>2, <3>4
    <3>9. down[m] = PositionOf(l, Above(g, j, l))
      BY <3>5, <3>6, <3>7, <3>8
    <3> QED
      BY <3>9 DEF l
  <2> QED
    BY <2>1, <2>2
<1>4. Inductive(S)
  <2> HIDE DEF Ok
  <2> QED
    BY <1>3 DEF Inductive
<1>5. k \in Nat /\ k <= h - g
  BY <1>1
<1>6. Ok(k)
  <2> HIDE DEF Ok
  <2> QED
    BY <1>4, <1>5, StrongInduction
<1> QED
  BY <1>5, <1>6

\* When the descent stops, and the step up it leaves for the path.
Stopping(n, down, height, target) ==
    /\ n \in 0..height
    /\ n = height \/ down[n] = target
    /\ \A k \in 0..n - 1 : down[k] # target

StepUp(down, height, target, k) ==
    IF target <= down[k - 1] - Power[height - k + 1]
    THEN [sibling |-> down[k - 1] - 1, targetIsRight |-> FALSE, parent |-> down[k - 1]]
    ELSE [sibling |-> down[k - 1] - Power[height - k + 1], targetIsRight |-> TRUE,
          parent |-> down[k - 1]]

Located(path, down, steps, root, height, target) ==
    /\ down = CHOOSE f : Descending(f, root, height, target)
    /\ steps = CHOOSE n \in 0..height : /\ n = height \/ down[n] = target
                                       /\ \A k \in 0..n - 1 : down[k] # target
    /\ path = [i \in 1..steps |-> StepUp(down, height, target, steps + 1 - i)]

\* LocatePath is built from such a descent.
LEMMA LocatePathIs ==
    ASSUME NEW root, NEW height, NEW target
    PROVE  \E down, steps : Located(LocatePath(root, height, target), down, steps, root, height, target)
BY DEF LocatePath, Located, Descending, StepUp

\* The descent stops at the target, not before and not below.
LEMMA StopsAtTarget ==
    ASSUME NEW g, NEW j, NEW h, NEW i, Under(g, j, h, i),
           NEW down, Descending(down, PositionOf(h, i), h, PositionOf(g, j))
    PROVE  \A n : Stopping(n, down, h, PositionOf(g, j)) <=> n = h - g
<1>1. g \in Nat /\ h \in Nat /\ j \in Nat /\ i \in Nat /\ g <= h /\ h - g \in 0..h - g /\ h - g \in 0..h
  BY DEF Under
<1>2. \A k \in 0..h - g : down[k] = PositionOf(h - k, Above(g, j, h - k))
  BY DescentFollows
<1>3. \A k \in 0..h - g : h - k \in g..h
  BY <1>1
<1>4. \A k \in 0..h - g : Above(g, j, h - k) \in Nat
  BY <1>3, AboveExists DEF Under
<1>5. ASSUME NEW k \in 0..h - g, down[k] = PositionOf(g, j) PROVE k = h - g
  <2>1. h - k \in Nat /\ PositionOf(h - k, Above(g, j, h - k)) = PositionOf(g, j)
    BY <1>1, <1>2, <1>5
  <2>2. h - k = g
    BY <1>1, <1>4, <2>1, PositionInjective
  <2> QED
    BY <1>1, <2>2
<1>6. down[h - g] = PositionOf(g, j)
  <2>1. h - (h - g) = g
    BY <1>1
  <2>2. Above(g, j, g) = j
    <3>1. Under(g, j, g, j)
      <4>1. j * Power[g] < End(g, j) /\ End(g, j) <= End(g, j)
        <5>1. j * Power[g] \in Nat /\ End(g, j) = j * Power[g] + Power[g] /\ End(g, j) \in Nat
          BY <1>1, EndFacts
        <5>2. Power[g] \in Nat /\ Power[g] >= 1
          BY <1>1, PowerFacts
        <5> QED
          BY <5>1, <5>2
      <4> QED
        BY <1>1, <4>1 DEF Under
    <3> QED
      BY <3>1, AboveIs
  <2>3. down[h - g] = PositionOf(h - (h - g), Above(g, j, h - (h - g)))
    BY <1>1, <1>2
  <2> QED
    BY <2>1, <2>2, <2>3
<1>7. Stopping(h - g, down, h, PositionOf(g, j))
  <2>1. ASSUME NEW k \in 0..(h - g) - 1 PROVE down[k] # PositionOf(g, j)
    <3>1. k \in 0..h - g /\ k # h - g
      BY <1>1
    <3> QED
      BY <1>5, <3>1
  <2> QED
    BY <1>1, <1>6, <2>1 DEF Stopping
<1>8. ASSUME NEW n, Stopping(n, down, h, PositionOf(g, j)) PROVE n = h - g
  <2>1. n \in 0..h /\ (n = h \/ down[n] = PositionOf(g, j))
        /\ \A k \in 0..n - 1 : down[k] # PositionOf(g, j)
    BY <1>8 DEF Stopping
  <2>2. ~(h - g < n)
    <3> SUFFICES ASSUME h - g < n PROVE FALSE
      OBVIOUS
    <3>1. h - g \in 0..n - 1
      BY <1>1, <2>1
    <3> QED
      BY <1>6, <2>1, <3>1
  <2>3. n \in 0..h - g
    BY <1>1, <2>1, <2>2
  <2>4. n = h => n = h - g
    BY <1>1, <2>2
  <2> QED
    BY <1>5, <2>1, <2>3, <2>4
<1> QED
  BY <1>7, <1>8

\* locate_path walks from the target up to the root.
LEMMA PathWalks ==
    ASSUME NEW g, NEW j, NEW h, NEW i, Under(g, j, h, i)
    PROVE  Walk(LocatePath(PositionOf(h, i), h, PositionOf(g, j)), g, j, h)
<1>1. g \in Nat /\ h \in Nat /\ j \in Nat /\ i \in Nat /\ g <= h
  BY DEF Under
<1> DEFINE root == PositionOf(h, i)
           target == PositionOf(g, j)
           path == LocatePath(root, h, target)
<1>2. PICK down, steps : Located(path, down, steps, root, h, target)
  <2> HIDE DEF root, target
  <2> QED
    BY LocatePathIs
<1>3. root \in Nat /\ target \in Nat
  BY <1>1, PositionBounds
<1>4. Descending(down, root, h, target)
  <2> HIDE DEF root, target
  <2>1. \E f : Descending(f, root, h, target)
    BY <1>1, <1>3, DescentExists
  <2> QED
    BY <1>2, <2>1 DEF Located
<1>5. \A n : Stopping(n, down, h, target) <=> n = h - g
  BY <1>4, StopsAtTarget
<1>6. steps = h - g
  <2> HIDE DEF target
  <2>1. Stopping(h - g, down, h, target)
    BY <1>5
  <2>2. Stopping(steps, down, h, target)
    BY <1>2, <2>1 DEF Stopping, Located
  <2> QED
    BY <1>5, <2>2
<1>7. h - g \in Nat
  BY <1>1
<1>8. \A k \in 0..h - g : down[k] = PositionOf(h - k, Above(g, j, h - k))
  BY <1>4, DescentFollows
<1>p. \A l \in Nat : g <= l /\ l + 1 <= h =>
           /\ Above(g, j, l) \in Nat /\ Above(g, j, l + 1) \in Nat
           /\ Above(g, j, l) = IF target <= PositionOf(l, 2 * Above(g, j, l + 1))
                               THEN 2 * Above(g, j, l + 1) ELSE 2 * Above(g, j, l + 1) + 1
  BY AboveSteps
<1> HIDE DEF target, root, path
<1>q. path = [k \in 1..h - g |-> StepUp(down, h, target, steps + 1 - k)]
  BY <1>2, <1>6 DEF Located
<1>9. DOMAIN path = 1..h - g /\ Len(path) = h - g
  <2> DEFINE N == h - g
  <2>1. path = [k \in 1..N |-> path[k]] /\ N \in Nat
    BY <1>7, <1>q
  <2> HIDE DEF N
  <2>2. DOMAIN path = 1..N /\ Len(path) = N
    BY <2>1, IsSequence
  <2> QED
    BY <2>2 DEF N
<1>10. ASSUME NEW k \in 1..h - g
       PROVE  /\ path[k].parent = PositionOf(g + k, Above(g, j, g + k))
              /\ path[k].targetIsRight \in BOOLEAN
              /\ path[k].targetIsRight =>
                    /\ Above(g, j, g + k - 1) = 2 * Above(g, j, g + k) + 1
                    /\ path[k].sibling = PositionOf(g + k - 1, 2 * Above(g, j, g + k))
              /\ ~path[k].targetIsRight =>
                    /\ Above(g, j, g + k - 1) = 2 * Above(g, j, g + k)
                    /\ path[k].sibling = PositionOf(g + k - 1, 2 * Above(g, j, g + k) + 1)
  <2> DEFINE l == g + k - 1
             m == steps + 1 - k
             y == Above(g, j, g + k)
             above == down[m - 1]
  <2>1. l \in Nat /\ g <= l /\ l + 1 <= h /\ l + 1 = g + k /\ m \in 1..h - g /\ m - 1 \in 0..h - g
        /\ h - (m - 1) = g + k /\ h - m + 1 = l + 1
    BY <1>1, <1>6
  <2>2. path[k] = StepUp(down, h, target, m)
    BY <1>q
  <2>3. above = PositionOf(g + k, y)
    <3>1. down[m - 1] = PositionOf(h - (m - 1), Above(g, j, h - (m - 1)))
      BY <1>8, <2>1
    <3> QED
      BY <2>1, <3>1
  <2>4. /\ Above(g, j, l) \in Nat /\ y \in Nat
        /\ Above(g, j, l) = IF target <= PositionOf(l, 2 * y) THEN 2 * y ELSE 2 * y + 1
    <3>1. y = Above(g, j, l + 1)
      BY <2>1
    <3> HIDE DEF y, l
    <3> QED
      BY <1>p, <2>1, <3>1
  <2>5. path[k] = IF target <= above - Power[l + 1]
                  THEN [sibling |-> above - 1, targetIsRight |-> FALSE, parent |-> above]
                  ELSE [sibling |-> above - Power[l + 1], targetIsRight |-> TRUE, parent |-> above]
    <3> HIDE DEF m, l
    <3> QED
      BY <2>1, <2>2 DEF StepUp
  <2>6. g + k = l + 1
    BY <2>1
  <2> HIDE DEF y, above, l, m
  <2>7. /\ PositionOf(l, 2 * y + 1) = above - 1
        /\ PositionOf(l, 2 * y) = above - Power[l + 1]
    <3>1. /\ PositionOf(l, 2 * y + 1) = PositionOf(l + 1, y) - 1
          /\ PositionOf(l, 2 * y) = PositionOf(l + 1, y) - Power[l + 1]
      BY <2>1, <2>4, ChildPositions
    <3> QED
      BY <2>3, <2>6, <3>1
  <2>8. CASE target <= PositionOf(l, 2 * y)
    <3>1. path[k] = [sibling |-> above - 1, targetIsRight |-> FALSE, parent |-> above]
      BY <2>5, <2>7, <2>8
    <3>2. path[k].sibling = above - 1 /\ path[k].targetIsRight = FALSE /\ path[k].parent = above
      BY <3>1
    <3>3. Above(g, j, l) = 2 * y
      BY <2>4, <2>8
    <3> QED
      BY <2>3, <2>7, <3>2, <3>3 DEF l, y
  <2>9. CASE ~(target <= PositionOf(l, 2 * y))
    <3>1. path[k] = [sibling |-> above - Power[l + 1], targetIsRight |-> TRUE, parent |-> above]
      BY <2>5, <2>7, <2>9
    <3>2. path[k].sibling = above - Power[l + 1] /\ path[k].targetIsRight = TRUE /\ path[k].parent = above
      BY <3>1
    <3>3. Above(g, j, l) = 2 * y + 1
      BY <2>4, <2>9
    <3> QED
      BY <2>3, <2>7, <3>2, <3>3 DEF l, y
  <2> QED
    BY <2>8, <2>9
<1>11. Walk(path, g, j, h)
  BY <1>7, <1>9, <1>10 DEF Walk
<1> QED
  BY <1>11 DEF path, root, target

-----------------------------------------------------------------------------
(* Climbs.                                                                   *)

\* A node that stands over the two nodes it hashes.
Proper(s, h, i) ==
    Node(s, PositionOf(h, i)) = InteriorHash(Node(s, PositionOf(h - 1, 2 * i)),
                                             Node(s, PositionOf(h - 1, 2 * i + 1)),
                                             PositionOf(h, i))

\* One step of a climb along a path that walks in a store.
LEMMA ClimbStep ==
    ASSUME NEW s, NEW path, NEW g \in Nat, NEW j, NEW h, Walk(path, g, j, h),
           NEW k \in 1..Len(path), NEW sib, NEW f, NEW start, Climbing(f, start, path, sib)
    PROVE  LET y == Above(g, j, g + k)
           IN  \/ /\ Above(g, j, g + k - 1) = 2 * y
                  /\ path[k].sibling = PositionOf(g + k - 1, 2 * y + 1)
                  /\ f[k] = InteriorHash(f[k - 1], sib[k], PositionOf(g + k, y))
               \/ /\ Above(g, j, g + k - 1) = 2 * y + 1
                  /\ path[k].sibling = PositionOf(g + k - 1, 2 * y)
                  /\ f[k] = InteriorHash(sib[k], f[k - 1], PositionOf(g + k, y))
<1> DEFINE y == Above(g, j, g + k)
<1>1. /\ path[k].parent = PositionOf(g + k, y)
      /\ path[k].targetIsRight \in BOOLEAN
      /\ path[k].targetIsRight =>
            /\ Above(g, j, g + k - 1) = 2 * y + 1
            /\ path[k].sibling = PositionOf(g + k - 1, 2 * y)
      /\ ~path[k].targetIsRight =>
            /\ Above(g, j, g + k - 1) = 2 * y
            /\ path[k].sibling = PositionOf(g + k - 1, 2 * y + 1)
  BY DEF Walk
<1>2. k \in 0..Len(path) /\ k # 0
  BY DEF Walk
<1>3. f[k] = IF path[k].targetIsRight
             THEN InteriorHash(sib[k], f[k - 1], path[k].parent)
             ELSE InteriorHash(f[k - 1], sib[k], path[k].parent)
  BY <1>2 DEF Climbing
<1> HIDE DEF y
<1>4. CASE path[k].targetIsRight
  BY <1>1, <1>3, <1>4 DEF y
<1>5. CASE ~path[k].targetIsRight
  BY <1>1, <1>3, <1>5 DEF y
<1> QED
  BY <1>4, <1>5

\* Over proper nodes a climb arrives at the node it aims at.
LEMMA ClimbArrives ==
    ASSUME NEW s, NEW g, NEW j, NEW h, NEW i, Under(g, j, h, i),
           NEW path, Walk(path, g, j, h),
           \A k \in g + 1..h : Proper(s, k, Above(g, j, k))
    PROVE  Climb(Node(s, PositionOf(g, j)), path, Siblings(s, path)) = Node(s, PositionOf(h, i))
<1> DEFINE start == Node(s, PositionOf(g, j))
           sib == Siblings(s, path)
           N == Len(path)
<1>1. g \in Nat /\ h \in Nat /\ j \in Nat /\ i \in Nat /\ g <= h
  BY DEF Under
<1>2. N \in Nat /\ N = h - g /\ g + N = h
  BY <1>1 DEF Walk
<1>3. \A k \in 1..N : sib[k] = Node(s, path[k].sibling)
  BY DEF Siblings, Walk
<1>4. PICK f : Climbing(f, start, path, sib) /\ Climb(start, path, sib) = f[N]
  <2> HIDE DEF start, sib
  <2> QED
    BY <1>2, ClimbIs
<1> DEFINE Ok(k) == k <= N => f[k] = Node(s, PositionOf(g + k, Above(g, j, g + k)))
           S == {k \in Nat : Ok(k)}
<1>5. Above(g, j, g) = j
  <2>1. j * Power[g] \in Nat /\ End(g, j) = j * Power[g] + Power[g] /\ End(g, j) \in Nat
    BY <1>1, EndFacts
  <2>2. Power[g] \in Nat /\ Power[g] >= 1
    BY <1>1, PowerFacts
  <2>3. Under(g, j, g, j)
    BY <1>1, <2>1, <2>2 DEF Under
  <2> QED
    BY <2>3, AboveIs
<1> HIDE DEF sib
<1>6. ASSUME NEW k \in Nat, \A m \in Nat : m < k => Ok(m) PROVE Ok(k)
  <2> SUFFICES ASSUME k <= N PROVE f[k] = Node(s, PositionOf(g + k, Above(g, j, g + k)))
    OBVIOUS
  <2>1. CASE k = 0
    <3>1. g + k = g /\ 0 \in 0..N
      BY <1>1, <1>2, <2>1
    <3>2. f[0] = start
      BY <1>4, <3>1 DEF Climbing
    <3> QED
      BY <1>5, <2>1, <3>1, <3>2
  <2>2. CASE k # 0
    <3> DEFINE y == Above(g, j, g + k)
               l == g + k - 1
    <3>1. k \in 1..N /\ k - 1 \in Nat /\ k - 1 < k /\ k - 1 <= N /\ g + (k - 1) = l
          /\ g + k \in g + 1..h /\ (g + k) - 1 = l
      BY <1>1, <1>2, <2>2
    <3>2. Ok(k - 1)
      BY <1>6, <3>1
    <3>3. f[k - 1] = Node(s, PositionOf(l, Above(g, j, l)))
      BY <3>1, <3>2
    <3>4. Node(s, PositionOf(g + k, y)) = InteriorHash(Node(s, PositionOf(l, 2 * y)),
                                                       Node(s, PositionOf(l, 2 * y + 1)),
                                                       PositionOf(g + k, y))
      <4>1. Proper(s, g + k, y)
        BY <3>1
      <4> HIDE DEF y
      <4> QED
        BY <3>1, <4>1 DEF Proper
    <3>5. \/ /\ Above(g, j, l) = 2 * y
             /\ path[k].sibling = PositionOf(l, 2 * y + 1)
             /\ f[k] = InteriorHash(f[k - 1], sib[k], PositionOf(g + k, y))
          \/ /\ Above(g, j, l) = 2 * y + 1
             /\ path[k].sibling = PositionOf(l, 2 * y)
             /\ f[k] = InteriorHash(sib[k], f[k - 1], PositionOf(g + k, y))
      BY <1>1, <1>4, <3>1, ClimbStep
    <3>6. sib[k] = Node(s, path[k].sibling)
      BY <1>3, <3>1
    <3> HIDE DEF y, l
    <3>7. f[k] = Node(s, PositionOf(g + k, y))
      BY <3>3, <3>4, <3>5, <3>6
    <3> QED
      BY <3>7 DEF y
  <2> QED
    BY <2>1, <2>2
<1>7. Inductive(S)
  <2> HIDE DEF Ok
  <2> QED
    BY <1>6 DEF Inductive
<1>8. Ok(N)
  <2> HIDE DEF Ok
  <2> QED
    BY <1>2, <1>7, StrongInduction
<1>9. Above(g, j, h) = i
  BY AboveIs
<1> QED
  BY <1>2, <1>4, <1>8, <1>9 DEF sib

\* Where committed positions are right, a climb that arrives went over proper
\* nodes, from the node it started at, past the siblings that are there.
LEMMA ArrivingIsProper ==
    ASSUME NEW s, Len(s) \in Nat, InPlace(s), NEW g, NEW j, NEW h, NEW i, Under(g, j, h, i),
           PositionOf(h, i) < Len(s),
           NEW path, Walk(path, g, j, h), NEW start, NEW sib,
           Climb(start, path, sib) = Node(s, PositionOf(h, i))
    PROVE  /\ start = Node(s, PositionOf(g, j))
           /\ \A k \in 1..Len(path) : sib[k] = Node(s, path[k].sibling)
           /\ \A k \in g + 1..h : Proper(s, k, Above(g, j, k))
<1> DEFINE N == Len(path)
<1>1. g \in Nat /\ h \in Nat /\ j \in Nat /\ i \in Nat /\ g <= h
  BY DEF Under
<1>2. N \in Nat /\ N = h - g /\ g + N = h
  BY <1>1 DEF Walk
<1>3. PICK f : Climbing(f, start, path, sib) /\ Climb(start, path, sib) = f[N]
  BY <1>2, ClimbIs
<1>4. Above(g, j, h) = i
  BY AboveIs
<1>5. \A k \in g..h : Above(g, j, k) \in Nat
  BY AboveExists DEF Under
\* What one step down shows.
<1>6. ASSUME NEW k \in 1..N, f[k] = Node(s, PositionOf(g + k, Above(g, j, g + k))),
             PositionOf(g + k, Above(g, j, g + k)) < Len(s)
      PROVE  /\ f[k - 1] = Node(s, PositionOf(g + k - 1, Above(g, j, g + k - 1)))
             /\ PositionOf(g + k - 1, Above(g, j, g + k - 1)) < Len(s)
             /\ sib[k] = Node(s, path[k].sibling)
             /\ Proper(s, g + k, Above(g, j, g + k))
  <2> DEFINE y == Above(g, j, g + k)
             l == g + k - 1
             p == PositionOf(g + k, y)
  <2>1. g + k \in Nat /\ g + k > 0 /\ g + k \in g..h /\ (g + k) - 1 = l
    BY <1>1, <1>2
  <2>2. y \in Nat
    BY <1>5, <2>1
  <2>3. \/ /\ Above(g, j, l) = 2 * y
           /\ path[k].sibling = PositionOf(l, 2 * y + 1)
           /\ f[k] = InteriorHash(f[k - 1], sib[k], p)
        \/ /\ Above(g, j, l) = 2 * y + 1
           /\ path[k].sibling = PositionOf(l, 2 * y)
           /\ f[k] = InteriorHash(sib[k], f[k - 1], p)
    BY <1>1, <1>3, ClimbStep
  <2>4. Node(s, p) = f[k] /\ p < Len(s)
    BY <1>6
  <2> HIDE DEF y, l
  <2>5. p \in Nat /\ PositionOf(l, 2 * y) < p /\ PositionOf(l, 2 * y + 1) < p
        /\ PositionOf(l, 2 * y) \in Nat /\ PositionOf(l, 2 * y + 1) \in Nat
    BY <2>1, <2>2, ChildrenFirst
  <2>6. Node(s, p).kind = "interior" /\ Node(s, p).at = p
    <3> HIDE DEF p
    <3> QED
      BY <2>3, <2>4 DEF InteriorHash
  <2>7. Proper(s, g + k, y)
    BY <2>1, <2>2, <2>4, <2>6 DEF InPlace, Proper
  <2>8. Node(s, p) = InteriorHash(Node(s, PositionOf(l, 2 * y)), Node(s, PositionOf(l, 2 * y + 1)), p)
    BY <2>1, <2>7 DEF Proper
  <2> HIDE DEF p
  <2>9. CASE /\ Above(g, j, l) = 2 * y
             /\ path[k].sibling = PositionOf(l, 2 * y + 1)
             /\ f[k] = InteriorHash(f[k - 1], sib[k], p)
    <3>0. InteriorHash(f[k - 1], sib[k], p)
             = InteriorHash(Node(s, PositionOf(l, 2 * y)), Node(s, PositionOf(l, 2 * y + 1)), p)
      BY <2>4, <2>8, <2>9
    <3>1. f[k - 1] = Node(s, PositionOf(l, 2 * y)) /\ sib[k] = Node(s, PositionOf(l, 2 * y + 1))
      BY <3>0, HashesDiffer
    <3> QED
      BY <2>4, <2>5, <2>7, <2>9, <3>1 DEF y, l
  <2>10. CASE /\ Above(g, j, l) = 2 * y + 1
              /\ path[k].sibling = PositionOf(l, 2 * y)
              /\ f[k] = InteriorHash(sib[k], f[k - 1], p)
    <3>0. InteriorHash(sib[k], f[k - 1], p)
             = InteriorHash(Node(s, PositionOf(l, 2 * y)), Node(s, PositionOf(l, 2 * y + 1)), p)
      BY <2>4, <2>8, <2>10
    <3>1. f[k - 1] = Node(s, PositionOf(l, 2 * y + 1)) /\ sib[k] = Node(s, PositionOf(l, 2 * y))
      BY <3>0, HashesDiffer
    <3> QED
      BY <2>4, <2>5, <2>7, <2>10, <3>1 DEF y, l
  <2> QED
    BY <2>3, <2>9, <2>10
<1> DEFINE Here(k) == /\ f[k] = Node(s, PositionOf(g + k, Above(g, j, g + k)))
                      /\ PositionOf(g + k, Above(g, j, g + k)) < Len(s)
           Ok(d) == d <= N => Here(N - d)
           S == {d \in Nat : Ok(d)}
<1>7. ASSUME NEW d \in Nat, \A m \in Nat : m < d => Ok(m) PROVE Ok(d)
  <2> SUFFICES ASSUME d <= N PROVE Here(N - d)
    OBVIOUS
  <2>1. CASE d = 0
    <3>1. N - d = N
      BY <1>2, <2>1
    <3>2. Here(N)
      BY <1>2, <1>3, <1>4
    <3> HIDE DEF Here
    <3> QED
      BY <3>1, <3>2
  <2>2. CASE d # 0
    <3> DEFINE k == N - (d - 1)
    <3>1. d - 1 \in Nat /\ d - 1 < d /\ d - 1 <= N /\ k \in 1..N /\ k - 1 = N - d
          /\ g + (k - 1) = g + k - 1
      BY <1>1, <1>2, <2>2
    <3>2. Ok(d - 1)
      BY <1>7, <3>1
    <3>3. Here(k)
      BY <3>1, <3>2
    <3> HIDE DEF k
    <3>4. Here(k - 1)
      BY <1>6, <3>1, <3>3
    <3> HIDE DEF Here
    <3> QED
      BY <3>1, <3>4
  <2> QED
    BY <2>1, <2>2
<1>8. Inductive(S)
  <2> HIDE DEF Ok
  <2> QED
    BY <1>7 DEF Inductive
<1>9. \A d \in Nat : Ok(d)
  <2> HIDE DEF Ok
  <2> QED
    BY <1>8, StrongInduction
<1>10. \A k \in 0..N : Here(k)
  <2> SUFFICES ASSUME NEW k \in 0..N PROVE Here(k)
    OBVIOUS
  <2>1. N - k \in Nat /\ N - k <= N /\ N - (N - k) = k
    BY <1>2
  <2>2. Here(N - (N - k))
    BY <1>9, <2>1
  <2> HIDE DEF Here
  <2> QED
    BY <2>1, <2>2
<1>11. \A k \in 1..N : sib[k] = Node(s, path[k].sibling) /\ Proper(s, g + k, Above(g, j, g + k))
  <2> SUFFICES ASSUME NEW k \in 1..N
               PROVE  sib[k] = Node(s, path[k].sibling) /\ Proper(s, g + k, Above(g, j, g + k))
    OBVIOUS
  <2>1. k \in 0..N
    BY <1>2
  <2>2. Here(k)
    BY <1>10, <2>1
  <2> QED
    BY <1>6, <2>2
<1>12. start = Node(s, PositionOf(g, j))
  <2>1. 0 \in 0..N /\ g + 0 = g
    BY <1>1, <1>2
  <2>2. Here(0)
    BY <1>10, <2>1
  <2>3. f[0] = start
    BY <1>3, <2>1 DEF Climbing
  <2>4. Above(g, j, g) = j
    <3>1. j * Power[g] \in Nat /\ End(g, j) = j * Power[g] + Power[g] /\ End(g, j) \in Nat
      BY <1>1, EndFacts
    <3>2. Power[g] \in Nat /\ Power[g] >= 1
      BY <1>1, PowerFacts
    <3>3. Under(g, j, g, j)
      BY <1>1, <3>1, <3>2 DEF Under
    <3> QED
      BY <3>3, AboveIs
  <2> QED
    BY <2>1, <2>2, <2>3, <2>4
<1>13. ASSUME NEW k \in g + 1..h PROVE Proper(s, k, Above(g, j, k))
  <2>1. k - g \in 1..N /\ g + (k - g) = k
    BY <1>1, <1>2
  <2>2. Proper(s, g + (k - g), Above(g, j, g + (k - g)))
    BY <1>11, <2>1
  <2> QED
    BY <2>1, <2>2
<1> QED
  BY <1>11, <1>12, <1>13

\* One peak among the others.
Among(s, pks, at, x) ==
    HashesAt(s, SubSeq(pks, 1, at - 1)) \o <<x>> \o HashesAt(s, SubSeq(pks, at + 1, Len(pks)))

\* The same, peak by peak.
Surrounded(w, s, pks, at, x) ==
    /\ Rows(w) /\ Len(w) = Len(pks)
    /\ w[at] = x
    /\ \A i \in 1..Len(pks) : i # at => w[i] = Node(s, pks[i])

LEMMA AmongPeaks ==
    ASSUME NEW s, NEW pks, Rows(pks), NEW at \in 1..Len(pks), NEW x
    PROVE  /\ Len(HashesAt(s, SubSeq(pks, 1, at - 1))) = at - 1
           /\ Len(HashesAt(s, SubSeq(pks, at + 1, Len(pks)))) = Len(pks) - at
           /\ Surrounded(Among(s, pks, at, x), s, pks, at, x)
<1> DEFINE N == Len(pks)
           l == SubSeq(pks, 1, at - 1)
           r == SubSeq(pks, at + 1, N)
           left == HashesAt(s, l)
           right == HashesAt(s, r)
           V == {pks[i] : i \in 1..N}
           H == {Node(s, v) : v \in V}
<1>0. N \in Nat /\ pks = [i \in 1..N |-> pks[i]] /\ at \in 1..N
  BY DEF Rows
<1>1. pks \in Seq(V) /\ Len(pks) = N
  BY <1>0, IsSequence
<1>2. /\ l \in Seq(V) /\ Len(l) = at - 1 /\ \A i \in 1..at - 1 : l[i] = pks[i]
      /\ r \in Seq(V) /\ Len(r) = N - at /\ \A i \in 1..N - at : r[i] = pks[at + i]
  <2> HIDE DEF V
  <2>1. l \in Seq(V) /\ Len(l) = at - 1 /\ \A i \in 1..at - 1 : l[i] = pks[i]
    BY <1>0, <1>1
  <2>2. r \in Seq(V) /\ Len(r) = N - at
    BY <1>0, <1>1
  <2>3. ASSUME NEW i \in 1..N - at PROVE r[i] = pks[at + i]
    <3>1. at + 1 + i - 1 = at + i /\ at \in Int /\ i \in Int
      BY <1>0
    <3> QED
      BY <1>0, <1>1, <2>2, <3>1
  <2> QED
    BY <2>1, <2>2, <2>3
<1>3. /\ left = [i \in 1..at - 1 |-> Node(s, l[i])]
      /\ right = [i \in 1..N - at |-> Node(s, r[i])]
  <2>1. DOMAIN l = 1..at - 1 /\ DOMAIN r = 1..N - at
    BY <1>2
  <2> HIDE DEF l, r
  <2> QED
    BY <2>1 DEF HashesAt
<1> HIDE DEF l, r, V, N
<1>4. at - 1 \in Nat /\ N - at \in Nat
  BY <1>0
<1> HIDE DEF left, right
<1>5. Rows(left) /\ Len(left) = at - 1 /\ Rows(right) /\ Len(right) = N - at
  <2>1. left = [i \in 1..at - 1 |-> left[i]] /\ right = [i \in 1..N - at |-> right[i]]
    BY <1>3
  <2>2. Len(left) = at - 1 /\ Len(right) = N - at
    <3> DEFINE a == at - 1
               z == N - at
    <3>1. left = [i \in 1..a |-> left[i]] /\ right = [i \in 1..z |-> right[i]] /\ a \in Nat /\ z \in Nat
      BY <1>4, <2>1
    <3> HIDE DEF a, z
    <3>2. Len(left) = a /\ Len(right) = z
      BY <3>1, IsSequence
    <3> QED
      BY <3>2 DEF a, z
  <2> QED
    BY <1>4, <2>1, <2>2 DEF Rows
<1> DEFINE one == <<x>>
           u == left \o one
           w == u \o right
<1>6. Rows(one) /\ Len(one) = 1 /\ one[1] = x
  BY DEF Rows
<1> HIDE DEF one
<1>7. /\ Rows(u) /\ Len(u) = Len(left) + Len(one)
      /\ \A k \in 1..Len(left) : u[k] = left[k]
      /\ \A k \in 1..Len(one) : u[Len(left) + k] = one[k]
  <2>1. Rows(left) /\ Rows(one)
    BY <1>5, <1>6
  <2> QED
    BY <2>1, RowsJoin
<1>8. Len(u) = at /\ u[at] = x /\ \A k \in 1..at - 1 : u[k] = left[k]
  <2>1. (at - 1) + 1 = at /\ 1 \in 1..1
    BY <1>0
  <2>2. u[(at - 1) + 1] = x
    BY <1>5, <1>6, <1>7
  <2> QED
    BY <1>0, <1>5, <1>6, <1>7, <2>1, <2>2
<1> HIDE DEF u
<1>9. /\ Rows(w) /\ Len(w) = at + (N - at)
      /\ \A k \in 1..at : w[k] = u[k]
      /\ \A k \in 1..N - at : w[at + k] = right[k]
  <2>1. /\ Rows(w) /\ Len(w) = Len(u) + Len(right)
        /\ \A k \in 1..Len(u) : w[k] = u[k]
        /\ \A k \in 1..Len(right) : w[Len(u) + k] = right[k]
    <3>1. Rows(u) /\ Rows(right)
      BY <1>5, <1>7
    <3> QED
      BY <3>1, RowsJoin
  <2> HIDE DEF w
  <2> QED
    BY <1>5, <1>8, <2>1
<1> HIDE DEF w
<1>10. ASSUME NEW i \in 1..N, i # at PROVE w[i] = Node(s, pks[i])
  <2>1. CASE i < at
    <3>1. i \in 1..at /\ i \in 1..at - 1
      BY <1>0, <2>1
    <3> QED
      BY <1>2, <1>3, <1>8, <1>9, <3>1
  <2>2. CASE i > at
    <3>1. i - at \in 1..N - at /\ at + (i - at) = i
      BY <1>0, <2>2
    <3>2. w[at + (i - at)] = right[i - at] /\ right[i - at] = Node(s, r[i - at])
          /\ r[i - at] = pks[at + (i - at)]
      BY <1>2, <1>3, <1>9, <3>1
    <3> QED
      BY <3>1, <3>2
  <2> QED
    BY <1>0, <1>10, <2>1, <2>2
<1>11. Len(w) = N /\ w[at] = x
  BY <1>0, <1>8, <1>9
<1> QED
  BY <1>5, <1>9, <1>10, <1>11 DEF Surrounded, Among, N, w, u, one, left, right, l, r

-----------------------------------------------------------------------------
(* Inclusion proofs.                                                         *)

\* The path that proofs are made and verified along leads to the mountain of the node.
LEMMA PathToIs ==
    ASSUME NEW n \in Nat, NEW hs, NEW c, NEW q, Layout(n, hs, c, q), NEW m \in 1..Len(hs),
           NEW g \in Nat, NEW j \in Nat, c[m - 1] < End(g, j), End(g, j) <= c[m]
    PROVE  /\ FindContainingPeak(PositionOf(g, j), Peaks(SizeOf[n])) = m
           /\ Peaks(SizeOf[n])[m] = PositionOf(hs[m], q[m])
           /\ Under(g, j, hs[m], q[m])
           /\ Walk(PathTo(PositionOf(g, j), Peaks(SizeOf[n])), g, j, hs[m])
<1> DEFINE pks == Peaks(SizeOf[n])
           pos == PositionOf(g, j)
<1>1. FindContainingPeak(pos, pks) = m
  BY FindsMountain
<1>2. Under(g, j, hs[m], q[m])
  BY UnderMountain
<1>3. pks[m] = PositionOf(hs[m], q[m])
  <2>1. pks = [k \in 1..Len(hs) |-> PositionOf(hs[k], q[k])]
    BY PeaksOfSize
  <2> HIDE DEF pks
  <2> QED
    BY <2>1
<1>4. hs[m] \in Nat /\ q[m] \in Nat
  BY <1>2 DEF Under
<1>5. HeightAt(pks[m]) = hs[m]
  BY <1>3, <1>4, HeightOfPosition
<1> HIDE DEF pks, pos
<1>6. PathTo(pos, pks) = LocatePath(PositionOf(hs[m], q[m]), hs[m], pos)
  BY <1>1, <1>3, <1>5 DEF PathTo
<1>7. Walk(LocatePath(PositionOf(hs[m], q[m]), hs[m], pos), g, j, hs[m])
  BY <1>2, PathWalks DEF pos
<1> QED
  BY <1>1, <1>2, <1>3, <1>6, <1>7 DEF pks, pos

\* Peaks, and their hashes, of mountains hs with numbers q.
PeaksAt(pks, hs, q) ==
    /\ Rows(pks) /\ Len(pks) = Len(hs) /\ DOMAIN pks = 1..Len(hs)
    /\ \A i \in 1..Len(hs) : pks[i] = PositionOf(hs[i], q[i])

HashesOf(r, s, hs, q) ==
    /\ Rows(r) /\ Len(r) = Len(hs)
    /\ \A i \in 1..Len(hs) : r[i] = Node(s, PositionOf(hs[i], q[i]))

\* The peaks of a size, and their hashes, mountain by mountain.
LEMMA PeaksAre ==
    ASSUME NEW n \in Nat, NEW hs, NEW c, NEW q, Layout(n, hs, c, q)
    PROVE  PeaksAt(Peaks(SizeOf[n]), hs, q)
<1> DEFINE pks == Peaks(SizeOf[n])
           N == Len(hs)
<1>1. pks = [i \in 1..N |-> PositionOf(hs[i], q[i])] /\ N \in Nat
  BY PeaksOfSize, LayoutLength
<1> HIDE DEF pks, N
<1>2. pks = [i \in 1..N |-> pks[i]]
  BY <1>1
<1>3. Len(pks) = N /\ DOMAIN pks = 1..N
  BY <1>1, <1>2, IsSequence
<1>4. Rows(pks)
  BY <1>1, <1>2, <1>3 DEF Rows
<1>5. PeaksAt(pks, hs, q)
  BY <1>1, <1>3, <1>4 DEF PeaksAt, N
<1> QED
  BY <1>5 DEF pks

LEMMA HashesAre ==
    ASSUME NEW n \in Nat, NEW hs, NEW c, NEW q, Layout(n, hs, c, q), NEW s
    PROVE  /\ HashesOf(HashesAt(s, Peaks(SizeOf[n])), s, hs, q)
           /\ RootAt(s, SizeOf[n]) = RootFromPeaks(HashesAt(s, Peaks(SizeOf[n])))
<1> DEFINE pks == Peaks(SizeOf[n])
           N == Len(hs)
           r == HashesAt(s, pks)
<1>1. /\ DOMAIN pks = 1..N /\ N \in Nat
      /\ \A i \in 1..N : pks[i] = PositionOf(hs[i], q[i])
  <2>1. N \in Nat
    BY LayoutLength
  <2>2. PeaksAt(pks, hs, q)
    BY PeaksAre
  <2> HIDE DEF pks
  <2> QED
    BY <2>1, <2>2 DEF PeaksAt
<1> HIDE DEF pks, N
<1>2. r = [i \in 1..N |-> Node(s, pks[i])]
  BY <1>1 DEF HashesAt
<1>3. RootAt(s, SizeOf[n]) = RootFromPeaks(r)
  BY DEF RootAt, HashesAt, pks
<1> HIDE DEF r
<1>4. r = [i \in 1..N |-> r[i]]
  BY <1>2
<1>5. Len(r) = N
  BY <1>1, <1>4, IsSequence
<1>6. \A i \in 1..N : r[i] = Node(s, PositionOf(hs[i], q[i]))
  BY <1>1, <1>2
<1>7. Rows(r)
  BY <1>1, <1>4, <1>5 DEF Rows
<1>8. HashesOf(r, s, hs, q)
  BY <1>5, <1>6, <1>7 DEF HashesOf, N
<1> QED
  BY <1>3, <1>8 DEF r, pks

LEMMA SiblingsAre ==
    ASSUME NEW s, NEW path, NEW g, NEW j, NEW h, Walk(path, g, j, h)
    PROVE  Len(Siblings(s, path)) = Len(path)
<1> DEFINE N == Len(path)
           r == Siblings(s, path)
<1>1. N \in Nat /\ DOMAIN path = 1..N
  BY DEF Walk
<1>2. r = [i \in 1..N |-> Node(s, path[i].sibling)]
  BY <1>1 DEF Siblings
<1> HIDE DEF r, N
<1>3. r = [i \in 1..N |-> r[i]]
  BY <1>2
<1>4. Len(r) = N
  BY <1>1, <1>3, IsSequence
<1> QED
  BY <1>4 DEF r, N

\* The store's own proof for its leaf i verifies with a body.
Verified(s, n, i, body) ==
    VerifyInclusion(RootAt(s, SizeOf[n]), SizeOf[n], i, body, InclusionProof(s, i, SizeOf[n]))

\* From a body in the place of leaf i the path leads to a node.
Arrives(s, n, i, body, h, x) ==
    Climb(LeafHash(body), PathTo(PositionOf(0, i), Peaks(SizeOf[n])),
          Siblings(s, PathTo(PositionOf(0, i), Peaks(SizeOf[n])))) = Node(s, PositionOf(h, x))

\* Whether the store's own proof for a leaf verifies is whether the climb from the
\* leaf arrives at its mountain.
LEMMA InclusionIsAClimb ==
    ASSUME NEW n \in Nat, NEW hs, NEW c, NEW q, Layout(n, hs, c, q), NEW s,
           NEW i \in 0..n - 1, NEW m \in 1..Len(hs), c[m - 1] < i + 1, i + 1 <= c[m], NEW body
    PROVE  Verified(s, n, i, body) <=> Arrives(s, n, i, body, hs[m], q[m])
<1> DEFINE size == SizeOf[n]
           pks == Peaks(size)
           N == Len(hs)
           pos == PositionOf(0, i)
           path == PathTo(pos, pks)
           sib == Siblings(s, path)
           x == Climb(LeafHash(body), path, sib)
           left == HashesAt(s, SubSeq(pks, 1, m - 1))
           right == HashesAt(s, SubSeq(pks, m + 1, N))
           with == Among(s, pks, m, x)
           own == HashesAt(s, pks)
           proof == InclusionProof(s, i, size)
<1>1. i \in Nat /\ i < n
  OBVIOUS
<1>2. LeafIndexToPos(i) = pos
  <2>1. LeafIndexToPos(i) = SizeOf[i]
    BY <1>1, NodeCountIsSize DEF LeafIndexToPos
  <2>2. pos = SizeOf[i]
    BY <1>1, LeafPosition
  <2> QED
    BY <2>1, <2>2
<1>3. /\ FindContainingPeak(pos, pks) = m
      /\ pks[m] = PositionOf(hs[m], q[m])
      /\ Walk(path, 0, i, hs[m])
  <2>1. End(0, i) = i + 1 /\ 0 \in Nat
    BY <1>1, LeafPosition
  <2>2. c[m - 1] < End(0, i) /\ End(0, i) <= c[m]
    BY <2>1
  <2> QED
    BY <1>1, <2>1, <2>2, PathToIs
<1>4. ValidSize(size) /\ LeafCount(size) = n
  BY SizesAreValid, LeafCountOfSize
<1>5. /\ Len(pks) = N /\ DOMAIN pks = 1..N /\ N \in Nat /\ Rows(pks)
      /\ \A k \in 1..N : pks[k] = PositionOf(hs[k], q[k])
  <2>1. PeaksAt(pks, hs, q)
    BY PeaksAre
  <2>2. N \in Nat
    BY LayoutLength
  <2> HIDE DEF pks
  <2> QED
    BY <2>1, <2>2 DEF PeaksAt
<1>6. /\ Rows(own) /\ Len(own) = N
      /\ \A k \in 1..N : own[k] = Node(s, PositionOf(hs[k], q[k]))
      /\ RootAt(s, size) = RootFromPeaks(own)
  <2>1. HashesOf(own, s, hs, q) /\ RootAt(s, size) = RootFromPeaks(own)
    BY HashesAre
  <2> HIDE DEF own
  <2> QED
    BY <2>1 DEF HashesOf
<1>7. m \in 1..N
  OBVIOUS
<1> HIDE DEF size, pos
<1>8. Len(sib) = Len(path)
  BY <1>3, SiblingsAre
<1> HIDE DEF pks, path, N
<1> HIDE DEF sib
<1> HIDE DEF x
<1>9. /\ Len(left) = m - 1 /\ Len(right) = N - m
      /\ Rows(with) /\ Len(with) = N /\ with[m] = x
      /\ \A k \in 1..N : k # m => with[k] = Node(s, pks[k])
  <2>1. Rows(pks) /\ N = Len(pks) /\ m \in 1..Len(pks)
    BY <1>5, <1>7
  <2>2. /\ Len(HashesAt(s, SubSeq(pks, 1, m - 1))) = m - 1
        /\ Len(HashesAt(s, SubSeq(pks, m + 1, Len(pks)))) = Len(pks) - m
        /\ Surrounded(Among(s, pks, m, x), s, pks, m, x)
    BY <2>1, AmongPeaks
  <2> HIDE DEF with
  <2>3. Surrounded(with, s, pks, m, x)
    BY <2>2 DEF with
  <2> QED
    BY <2>1, <2>2, <2>3 DEF Surrounded
<1>10. /\ proof.size = size /\ proof.leafIndex = i
       /\ proof.witness = sib /\ proof.peaksLeft = left /\ proof.peaksRight = right
  BY <1>2, <1>3, <1>5 DEF InclusionProof, pks, path, sib
<1> HIDE DEF proof, left, right
<1>11. VerifyInclusion(RootAt(s, size), size, i, body, proof) <=> RootFromPeaks(with) = RootAt(s, size)
  <2>1. i < LeafCount(size)
    BY <1>1, <1>4
  <2> HIDE DEF with
  <2>2. VerifyInclusion(RootAt(s, size), size, i, body, proof)
           <=> RootFromPeaks(left \o <<Climb(LeafHash(body), path, sib)>> \o right) = RootAt(s, size)
    BY <1>2, <1>3, <1>4, <1>5, <1>8, <1>9, <1>10, <2>1 DEF VerifyInclusion, pks, path
  <2> QED
    BY <1>5, <2>2 DEF x, with, Among, left, right
<1> HIDE DEF with, own
<1>12. ASSUME RootFromPeaks(with) = RootAt(s, size) PROVE x = Node(s, PositionOf(hs[m], q[m]))
  <2>1. \A k \in 1..N : with[k] = own[k]
    <3>1. Len(with) \in Nat /\ Len(with) = Len(own) /\ RootFromPeaks(with) = RootFromPeaks(own)
      BY <1>5, <1>6, <1>9, <1>12
    <3>2. \A k \in 1..Len(with) : with[k] = own[k]
      BY <3>1, RootFixesPeaks
    <3> QED
      BY <1>9, <3>2
  <2> QED
    BY <1>6, <1>7, <1>9, <2>1
<1>13. ASSUME x = Node(s, PositionOf(hs[m], q[m])) PROVE RootFromPeaks(with) = RootAt(s, size)
  <2>1. \A k \in 1..N : with[k] = own[k]
    BY <1>5, <1>6, <1>9, <1>13
  <2>2. Rows(with) /\ Rows(own)
    <3>1. Rows(own)
      BY <1>6
    <3>2. Rows(with)
      BY <1>9
    <3> QED
      BY <3>1, <3>2
  <2>3. with = own
    BY <1>6, <1>9, <2>1, <2>2, RowsEqual
  <2> QED
    BY <1>6, <2>3
<1> QED
  BY <1>11, <1>12, <1>13 DEF Verified, Arrives, x, sib, path, proof, pks, size, pos

\* Every node of a forest stands over the two it hashes.
LEMMA ForestIsProper ==
    ASSUME NEW b, Len(b) \in Nat, NEW h \in Nat, NEW i \in Nat, h > 0, End(h, i) <= Len(b)
    PROVE  Proper(Forest(b), h, i)
<1> DEFINE n == Len(b)
           p == <<h, i>>
           l == h - 1
<1>1. n \in Nat /\ p \in Places(n) /\ p[1] = h /\ p[2] = i /\ h # 0
  BY PlaceIsHere
<1>2. <<p[1] - 1, 2 * p[2]>> \in Places(n) /\ <<p[1] - 1, 2 * p[2] + 1>> \in Places(n)
  <2> HIDE DEF n, p
  <2> QED
    BY <1>1, ChildPlaces
<1>3. <<l, 2 * i>> \in Places(n) /\ <<l, 2 * i + 1>> \in Places(n)
  BY <1>1, <1>2
<1>4. l \in Nat /\ 2 * i \in Nat /\ 2 * i + 1 \in Nat
  OBVIOUS
<1>5. End(l, 2 * i) <= n /\ End(l, 2 * i + 1) <= n
  <2> HIDE DEF l, n
  <2> QED
    BY <1>1, <1>3, <1>4, PlaceIsHere
<1>6. /\ Node(Forest(b), PositionOf(l, 2 * i)) = Digests(b)[<<l, 2 * i>>]
      /\ Node(Forest(b), PositionOf(l, 2 * i + 1)) = Digests(b)[<<l, 2 * i + 1>>]
  BY <1>4, <1>5, NodeOfForest
<1>7. Node(Forest(b), PositionOf(h, i)) = Digests(b)[<<h, i>>]
  BY NodeOfForest
<1>8. Digests(b)[<<h, i>>] = InteriorHash(Digests(b)[<<h - 1, 2 * i>>],
                                          Digests(b)[<<h - 1, 2 * i + 1>>], PositionOf(h, i))
  BY DigestOf
<1> QED
  BY <1>6, <1>7, <1>8 DEF Proper

\* The mountain of a leaf.
LEMMA MountainOfLeaf ==
    ASSUME NEW n \in Nat, NEW hs, NEW c, NEW q, Layout(n, hs, c, q), NEW i \in 0..n - 1
    PROVE  \E m \in 1..Len(hs) :
              /\ c[m - 1] < i + 1 /\ i + 1 <= c[m]
              /\ Under(0, i, hs[m], q[m])
              /\ FindContainingPeak(PositionOf(0, i), Peaks(SizeOf[n])) = m
              /\ Walk(PathTo(PositionOf(0, i), Peaks(SizeOf[n])), 0, i, hs[m])
<1>1. i \in Nat /\ i + 1 \in 1..n /\ 0 \in Nat
  OBVIOUS
<1>2. PICK m \in 1..Len(hs) : c[m - 1] < i + 1 /\ i + 1 <= c[m]
  BY <1>1, WhichMountain
<1>3. End(0, i) = i + 1
  BY <1>1, LeafPosition
<1>4. c[m - 1] < End(0, i) /\ End(0, i) <= c[m]
  BY <1>2, <1>3
<1>5. /\ FindContainingPeak(PositionOf(0, i), Peaks(SizeOf[n])) = m
      /\ Under(0, i, hs[m], q[m])
      /\ Walk(PathTo(PositionOf(0, i), Peaks(SizeOf[n])), 0, i, hs[m])
  BY <1>1, <1>4, PathToIs
<1> QED
  BY <1>2, <1>5

\* What covers a subtree of n leaves within a mountain is among the n leaves.
LEMMA AboveWithin ==
    ASSUME NEW g, NEW j, NEW h, NEW i, Under(g, j, h, i), NEW k \in g..h
    PROVE  /\ k \in Nat /\ Above(g, j, k) \in Nat
           /\ End(k, Above(g, j, k)) <= End(h, i)
<1>1. g \in Nat /\ h \in Nat /\ j \in Nat /\ i \in Nat /\ g <= h /\ i * Power[h] < End(g, j)
      /\ End(g, j) <= End(h, i)
  BY DEF Under
<1>2. Under(g, j, k, Above(g, j, k)) /\ k \in Nat
  BY <1>1, AboveExists
<1> DEFINE y == Above(g, j, k)
           x == y * Power[k]
           E == End(h, i)
<1>3. y \in Nat /\ x < End(g, j) /\ End(g, j) <= End(k, y)
  BY <1>2 DEF Under
<1> HIDE DEF y
<1>4. /\ x \in Nat /\ Aligned(x, k) /\ End(k, y) = x + Power[k]
      /\ E \in Nat /\ Aligned(E, h) /\ End(g, j) \in Nat
  BY <1>1, <1>2, <1>3, EndFacts
<1>5. Aligned(E, k)
  <2>1. k \in 0..h
    BY <1>1, <1>2
  <2> HIDE DEF E
  <2> QED
    BY <1>1, <1>4, <2>1, AlignedBelow
<1>6. x < E
  BY <1>1, <1>3, <1>4
<1> HIDE DEF x, E
<1>7. x + Power[k] <= E
  BY <1>2, <1>4, <1>5, <1>6, AlignedSteps
<1> QED
  BY <1>2, <1>3, <1>4, <1>7 DEF y, E

\* A forest's proof for a leaf verifies with that leaf's body only.
LEMMA InclusionOfForest ==
    ASSUME NEW b, Len(b) \in Nat, NEW i \in 0..Len(b) - 1, NEW body
    PROVE  LET s == Forest(b)
               size == SizeOf[Len(b)]
           IN  VerifyInclusion(RootAt(s, size), size, i, body, InclusionProof(s, i, size))
                   <=> body = b[i + 1]
<1> DEFINE n == Len(b)
           s == Forest(b)
           size == SizeOf[n]
           pks == Peaks(size)
           pos == PositionOf(0, i)
           path == PathTo(pos, pks)
           sib == Siblings(s, path)
<1>1. n \in Nat /\ i \in Nat /\ i + 1 <= n /\ 0 \in Nat
  OBVIOUS
<1>2. PICK hs, c, q : Layout(n, hs, c, q)
  BY LayoutExists
<1>3. PICK m \in 1..Len(hs) :
              /\ c[m - 1] < i + 1 /\ i + 1 <= c[m]
              /\ Under(0, i, hs[m], q[m])
              /\ Walk(path, 0, i, hs[m])
  BY <1>2, MountainOfLeaf
<1> DEFINE peak == Node(s, PositionOf(hs[m], q[m]))
<1>4. c[m] = End(hs[m], q[m]) /\ c[m] <= n /\ c[m] \in Nat
  BY <1>2, LayoutFacts
<1>5. VerifyInclusion(RootAt(s, size), size, i, body, InclusionProof(s, i, size))
         <=> Climb(LeafHash(body), path, sib) = peak
  <2>1. i \in 0..n - 1
    OBVIOUS
  <2> HIDE DEF s, n
  <2>2. Verified(s, n, i, body) <=> Arrives(s, n, i, body, hs[m], q[m])
    BY <1>1, <1>2, <1>3, <2>1, InclusionIsAClimb
  <2> QED
    BY <2>2 DEF Verified, Arrives
<1>6. \A k \in 0 + 1..hs[m] : Proper(s, k, Above(0, i, k))
  <2> SUFFICES ASSUME NEW k \in 0 + 1..hs[m] PROVE Proper(s, k, Above(0, i, k))
    OBVIOUS
  <2>1. hs[m] \in Nat
    BY <1>3 DEF Under
  <2>2. k \in 0..hs[m] /\ k > 0
    BY <2>1
  <2>3. k \in Nat /\ Above(0, i, k) \in Nat /\ End(k, Above(0, i, k)) <= End(hs[m], q[m])
    BY <1>3, <2>2, AboveWithin
  <2>4. End(k, Above(0, i, k)) \in Nat
    BY <2>3, EndFacts
  <2>5. End(k, Above(0, i, k)) <= n
    BY <1>1, <1>4, <2>3, <2>4
  <2> QED
    BY <1>1, <2>2, <2>3, <2>5, ForestIsProper
<1>7. Node(s, pos) = LeafHash(b[i + 1])
  <2>1. End(0, i) <= n
    BY <1>1, LeafPosition
  <2>2. Node(s, pos) = Digests(b)[<<0, i>>]
    BY <1>1, <2>1, NodeOfForest
  <2>3. Digests(b)[<<0, i>>] = LeafHash(b[i + 1])
    BY <1>1, <2>1, DigestOf
  <2> QED
    BY <2>2, <2>3
<1> HIDE DEF s, path
<1>8. Climb(Node(s, pos), path, sib) = peak
  BY <1>3, <1>6, ClimbArrives
<1>9. ASSUME Climb(LeafHash(body), path, sib) = peak PROVE body = b[i + 1]
  <2> HIDE DEF sib, peak, pos
  <2>1. Climb(LeafHash(body), path, sib) = Climb(Node(s, pos), path, sib) /\ Len(path) \in Nat
    BY <1>3, <1>8, <1>9 DEF Walk
  <2>2. LeafHash(body) = Node(s, pos)
    BY <2>1, ClimbIsInjective
  <2>3. LeafHash(body) = LeafHash(b[i + 1])
    BY <1>7, <2>2
  <2> QED
    BY <2>3, HashesDiffer
<1>10. ASSUME body = b[i + 1] PROVE Climb(LeafHash(body), path, sib) = peak
  <2> HIDE DEF sib, peak, pos
  <2> QED
    BY <1>7, <1>8, <1>10
<1> QED
  BY <1>5, <1>9, <1>10 DEF s, path

\* And for its own index only.
LEMMA InclusionOfNodes ==
    ASSUME Grown(nodes), NEW i \in 0..Len(Leaves) - 1, NEW j \in 0..Len(Leaves) - 1, NEW body
    PROVE  LET size == Len(nodes)
           IN  VerifyInclusion(RootAt(nodes, size), size, i, body, InclusionProof(nodes, j, size))
                  <=> i = j /\ body = Leaves[i + 1]
<1> DEFINE b == Leaves
           s == Forest(b)
           size == SizeOf[Len(b)]
<1>1. nodes = s /\ b \in Seq(Bodies)
  BY GrownIsForest
<1> HIDE DEF b
<1>2. Len(b) \in Nat
  BY <1>1
<1>3. Len(nodes) = size
  BY <1>1, <1>2, ForestRows
<1>4. VerifyInclusion(RootAt(s, size), size, i, body, InclusionProof(s, i, size)) <=> body = b[i + 1]
  BY <1>2, InclusionOfForest DEF b
<1>5. ASSUME i # j
      PROVE  ~VerifyInclusion(RootAt(s, size), size, i, body, InclusionProof(s, j, size))
  <2> HIDE DEF s, size
  <2>1. InclusionProof(s, j, size).leafIndex = j
    BY DEF InclusionProof
  <2> QED
    BY <1>5, <2>1 DEF VerifyInclusion
<1> HIDE DEF s, size
<1>6. VerifyInclusion(RootAt(s, size), size, i, body, InclusionProof(s, j, size))
         <=> i = j /\ body = b[i + 1]
  BY <1>4, <1>5
<1> QED
  BY <1>1, <1>3, <1>6 DEF b

\* verify_inclusion accepts the proof that prove_inclusion makes for a leaf with that
\* leaf's index and body and with no other, for any number of leaves.
THEOREM InclusionsAreExact == LogSpec => []InclusionIsExact
<1>1. ASSUME StoreInv PROVE InclusionIsExact
  BY <1>1, UndisturbedIsGrown, InclusionOfNodes DEF InclusionIsExact
<1> QED
  BY <1>1, StoreInvHolds, PTL

-----------------------------------------------------------------------------
(* Consistency proofs.                                                       *)

\* A store's consistency proof with other old peaks.
WithPeaks(s, o, n, old) ==
    [ConsistencyProof(s, SizeOf[o], SizeOf[n]) EXCEPT !.oldPeaks = old]

\* A digest in the place of a node of the smaller tree leads to its mountain.
Follows(x, s, n, g, j) ==
    Climb(x, PathTo(PositionOf(g, j), Peaks(SizeOf[n])),
          Siblings(s, PathTo(PositionOf(g, j), Peaks(SizeOf[n]))))
        = Node(s, Peaks(SizeOf[n])[FindContainingPeak(PositionOf(g, j), Peaks(SizeOf[n]))])

\* Whether such a proof verifies.
Consistent(s, o, n, rootA, old) ==
    VerifyConsistency(rootA, SizeOf[o], RootAt(s, SizeOf[n]), SizeOf[n], WithPeaks(s, o, n, old))

\* The mountain of n leaves that holds a subtree of them.
LEMMA MountainOfPlace ==
    ASSUME NEW n \in Nat, NEW hs, NEW c, NEW q, Layout(n, hs, c, q), NEW g \in Nat, NEW j \in Nat,
           End(g, j) <= n
    PROVE  \E m \in 1..Len(hs) :
              /\ FindContainingPeak(PositionOf(g, j), Peaks(SizeOf[n])) = m
              /\ Peaks(SizeOf[n])[m] = PositionOf(hs[m], q[m])
              /\ Under(g, j, hs[m], q[m])
              /\ Walk(PathTo(PositionOf(g, j), Peaks(SizeOf[n])), g, j, hs[m])
<1>1. End(g, j) \in 1..n
  BY EndFacts
<1>2. PICK m \in 1..Len(hs) : c[m - 1] < End(g, j) /\ End(g, j) <= c[m]
  BY <1>1, WhichMountain
<1>3. /\ FindContainingPeak(PositionOf(g, j), Peaks(SizeOf[n])) = m
      /\ Peaks(SizeOf[n])[m] = PositionOf(hs[m], q[m])
      /\ Under(g, j, hs[m], q[m])
      /\ Walk(PathTo(PositionOf(g, j), Peaks(SizeOf[n])), g, j, hs[m])
  BY <1>2, PathToIs
<1> QED
  BY <1>3

\* A proof with given old peaks verifies when they bag to the old root and each
\* leads to its mountain.
LEMMA ConsistencyIsClimbs ==
    ASSUME NEW o \in Nat, NEW n \in Nat, o <= n, NEW hs, NEW c, NEW q, Layout(o, hs, c, q),
           NEW s, NEW rootA, NEW old, Len(old) = Len(hs)
    PROVE  Consistent(s, o, n, rootA, old)
              <=> RootFromPeaks(old) = rootA /\ \A i \in 1..Len(hs) : Follows(old[i], s, n, hs[i], q[i])
<1> DEFINE sizeA == SizeOf[o]
           sizeB == SizeOf[n]
           pksA == Peaks(sizeA)
           pksB == Peaks(sizeB)
           N == Len(hs)
           proof == WithPeaks(s, o, n, old)
           path(i) == PathTo(pksA[i], pksB)
           wit == [i \in 1..N |-> Siblings(s, path(i))]
<1>1. PICK hs2, c2, q2 : Layout(n, hs2, c2, q2)
  BY LayoutExists
<1>2. /\ Len(pksA) = N /\ DOMAIN pksA = 1..N /\ \A i \in 1..N : pksA[i] = PositionOf(hs[i], q[i])
      /\ N \in Nat
  <2>1. N \in Nat
    BY LayoutLength
  <2>2. PeaksAt(pksA, hs, q)
    BY PeaksAre
  <2> HIDE DEF pksA
  <2> QED
    BY <2>1, <2>2 DEF PeaksAt
<1>3. /\ Len(pksB) = Len(hs2)
      /\ Len(HashesAt(s, pksB)) = Len(hs2)
      /\ RootAt(s, sizeB) = RootFromPeaks(HashesAt(s, pksB))
  <2>1. PeaksAt(pksB, hs2, q2)
    BY <1>1, PeaksAre
  <2>2. HashesOf(HashesAt(s, pksB), s, hs2, q2) /\ RootAt(s, sizeB) = RootFromPeaks(HashesAt(s, pksB))
    BY <1>1, HashesAre
  <2> HIDE DEF pksB
  <2> QED
    BY <2>1, <2>2 DEF PeaksAt, HashesOf
<1>4. ValidSize(sizeA) /\ ValidSize(sizeB)
  BY SizesAreValid
<1>5. sizeA <= sizeB
  <2>1. sizeA \in Nat /\ sizeB \in Nat
    BY SizeType
  <2>2. ~(sizeB < sizeA)
    <3>1. ~(n < o)
      OBVIOUS
    <3> QED
      BY <3>1, SizesInOrder
  <2> QED
    BY <2>1, <2>2
<1>6. ASSUME NEW i \in 1..N
      PROVE  Len(Siblings(s, path(i))) = Len(path(i))
             /\ path(i) = PathTo(PositionOf(hs[i], q[i]), pksB)
             /\ FindContainingPeak(pksA[i], pksB) \in DOMAIN pksB
  <2>1. /\ hs[i] \in Nat /\ q[i] \in Nat /\ c[i] = End(hs[i], q[i]) /\ c[i] <= o /\ c[i] \in Nat
    BY LayoutFacts
  <2> DEFINE g == hs[i]
             j == q[i]
  <2>2. g \in Nat /\ j \in Nat /\ End(g, j) <= n
    BY <2>1
  <2>3. pksA[i] = PositionOf(g, j)
    BY <1>2
  <2> HIDE DEF g, j
  <2>4. PICK m \in 1..Len(hs2) :
          /\ FindContainingPeak(PositionOf(g, j), pksB) = m
          /\ Walk(PathTo(PositionOf(g, j), pksB), g, j, hs2[m])
    BY <1>1, <2>2, MountainOfPlace
  <2>5. DOMAIN pksB = 1..Len(hs2)
    <3>1. PeaksAt(pksB, hs2, q2)
      BY <1>1, PeaksAre
    <3> HIDE DEF pksB
    <3> QED
      BY <3>1 DEF PeaksAt
  <2>6. Len(Siblings(s, path(i))) = Len(path(i))
    <3> DEFINE p == PathTo(PositionOf(g, j), pksB)
    <3>1. Walk(p, g, j, hs2[m])
      BY <2>4
    <3> HIDE DEF p
    <3>2. Len(Siblings(s, p)) = Len(p)
      BY <3>1, SiblingsAre
    <3> QED
      BY <2>3, <3>2 DEF p
  <2> QED
    BY <2>3, <2>4, <2>5, <2>6 DEF g, j
<1>7. /\ proof.sizeA = sizeA /\ proof.sizeB = sizeB
      /\ proof.oldPeaks = old /\ proof.newPeaks = HashesAt(s, pksB)
      /\ proof.witness = wit
  BY <1>2 DEF WithPeaks, ConsistencyProof
<1> HIDE DEF proof
<1>8. wit = [i \in 1..N |-> wit[i]] /\ \A i \in 1..N : wit[i] = Siblings(s, path(i))
  OBVIOUS
<1> HIDE DEF wit
<1>9. Len(wit) = N
  <2> HIDE DEF N
  <2> QED
    BY <1>2, <1>8, IsSequence
<1> HIDE DEF pksA, pksB, sizeA, sizeB, N
<1>10. VerifyConsistency(rootA, sizeA, RootAt(s, sizeB), sizeB, proof)
          <=> /\ RootFromPeaks(old) = rootA
              /\ \A i \in 1..N : Climb(old[i], path(i), wit[i])
                                   = HashesAt(s, pksB)[FindContainingPeak(pksA[i], pksB)]
  <2>1. VerifyConsistency(rootA, sizeA, RootAt(s, sizeB), sizeB, proof)
          <=> /\ Len(old) = N /\ Len(HashesAt(s, pksB)) = Len(pksB) /\ Len(wit) = N
              /\ RootFromPeaks(old) = rootA
              /\ RootFromPeaks(HashesAt(s, pksB)) = RootAt(s, sizeB)
              /\ \A i \in 1..N : /\ Len(wit[i]) = Len(path(i))
                                 /\ Climb(old[i], path(i), wit[i])
                                      = HashesAt(s, pksB)[FindContainingPeak(pksA[i], pksB)]
    BY <1>2, <1>4, <1>5, <1>7 DEF VerifyConsistency, pksA, pksB
  <2>2. Len(old) = N
    BY DEF N
  <2>3. \A i \in 1..N : Len(wit[i]) = Len(path(i))
    BY <1>6, <1>8
  <2> QED
    BY <1>3, <1>9, <2>1, <2>2, <2>3
<1>11. ASSUME NEW i \in 1..N
       PROVE  Climb(old[i], path(i), wit[i]) = HashesAt(s, pksB)[FindContainingPeak(pksA[i], pksB)]
                 <=> Follows(old[i], s, n, hs[i], q[i])
  <2>1. path(i) = PathTo(PositionOf(hs[i], q[i]), pksB) /\ wit[i] = Siblings(s, path(i))
        /\ FindContainingPeak(pksA[i], pksB) \in DOMAIN pksB /\ pksA[i] = PositionOf(hs[i], q[i])
    BY <1>2, <1>6, <1>8
  <2>2. HashesAt(s, pksB)[FindContainingPeak(pksA[i], pksB)]
          = Node(s, pksB[FindContainingPeak(pksA[i], pksB)])
    BY <2>1 DEF HashesAt
  <2> QED
    BY <2>1, <2>2 DEF Follows, pksB, sizeB
<1>12. Consistent(s, o, n, rootA, old)
          <=> VerifyConsistency(rootA, sizeA, RootAt(s, sizeB), sizeB, proof)
  BY DEF Consistent, sizeA, sizeB, proof
<1> QED
  BY <1>10, <1>11, <1>12 DEF N

\* In a forest only a node's own digest leads to its mountain.
LEMMA FollowsInForest ==
    ASSUME NEW b, Len(b) \in Nat, NEW g \in Nat, NEW j \in Nat, End(g, j) <= Len(b), NEW x
    PROVE  Follows(x, Forest(b), Len(b), g, j) <=> x = Digests(b)[<<g, j>>]
<1> DEFINE n == Len(b)
           s == Forest(b)
           pks == Peaks(SizeOf[n])
           pos == PositionOf(g, j)
           path == PathTo(pos, pks)
           sib == Siblings(s, path)
<1>1. n \in Nat /\ End(g, j) <= n
  OBVIOUS
<1>2. PICK hs, c, q : Layout(n, hs, c, q)
  BY LayoutExists
<1>3. PICK m \in 1..Len(hs) :
              /\ FindContainingPeak(pos, pks) = m
              /\ pks[m] = PositionOf(hs[m], q[m])
              /\ Under(g, j, hs[m], q[m])
              /\ Walk(path, g, j, hs[m])
  <2> HIDE DEF n
  <2> QED
    BY <1>1, <1>2, MountainOfPlace
<1>4. c[m] = End(hs[m], q[m]) /\ c[m] <= n /\ c[m] \in Nat
  BY <1>2, LayoutFacts
<1>5. \A k \in g + 1..hs[m] : Proper(s, k, Above(g, j, k))
  <2> SUFFICES ASSUME NEW k \in g + 1..hs[m] PROVE Proper(s, k, Above(g, j, k))
    OBVIOUS
  <2>1. hs[m] \in Nat
    BY <1>3 DEF Under
  <2>2. k \in g..hs[m] /\ k > 0
    BY <2>1
  <2>3. k \in Nat /\ Above(g, j, k) \in Nat /\ End(k, Above(g, j, k)) <= End(hs[m], q[m])
    BY <1>3, <2>2, AboveWithin
  <2>4. End(k, Above(g, j, k)) \in Nat
    BY <2>3, EndFacts
  <2>5. End(k, Above(g, j, k)) <= n
    BY <1>1, <1>4, <2>3, <2>4
  <2> QED
    BY <1>1, <2>2, <2>3, <2>5, ForestIsProper
<1>6. Node(s, pos) = Digests(b)[<<g, j>>]
  BY NodeOfForest
<1> DEFINE peak == Node(s, PositionOf(hs[m], q[m]))
<1> HIDE DEF s, path
<1>7. Climb(Node(s, pos), path, sib) = peak
  BY <1>3, <1>5, ClimbArrives
<1> HIDE DEF sib, peak
<1>8. ASSUME Climb(x, path, sib) = peak PROVE x = Node(s, pos)
  <2>1. Climb(x, path, sib) = Climb(Node(s, pos), path, sib) /\ Len(path) \in Nat
    BY <1>3, <1>7, <1>8 DEF Walk
  <2> QED
    BY <2>1, ClimbIsInjective
<1>9. Follows(x, s, n, g, j) <=> Climb(x, path, sib) = peak
  BY <1>3 DEF Follows, path, sib, peak
<1> QED
  BY <1>6, <1>7, <1>8, <1>9 DEF s

\* An old root is proved consistent exactly when the old leaves are the first ones.
LEMMA ConsistencyOfForest ==
    ASSUME NEW b, Len(b) \in Nat, NEW old, Len(old) \in Nat, Len(old) <= Len(b)
    PROVE  Consistent(Forest(b), Len(old), Len(b), ForestRoot(old), ForestPeaks(old))
              <=> \A k \in 1..Len(old) : old[k] = b[k]
<1> DEFINE o == Len(old)
           n == Len(b)
           s == Forest(b)
           was == Forest(old)
           pks == ForestPeaks(old)
<1>1. o \in Nat /\ n \in Nat /\ o <= n
  OBVIOUS
<1>2. PICK hs, c, q : Layout(o, hs, c, q)
  BY LayoutExists
<1>3. /\ Len(pks) = Len(hs)
      /\ \A i \in 1..Len(hs) : pks[i] = Node(was, PositionOf(hs[i], q[i]))
  <2> HIDE DEF was, o
  <2>1. HashesOf(HashesAt(was, Peaks(SizeOf[o])), was, hs, q)
    BY <1>1, <1>2, HashesAre
  <2>2. HashesOf(pks, was, hs, q)
    BY <2>1 DEF ForestPeaks, was, o
  <2> HIDE DEF pks
  <2> QED
    BY <2>2 DEF HashesOf
<1>4. RootFromPeaks(pks) = ForestRoot(old)
  BY DEF ForestRoot
<1> HIDE DEF pks, s
<1>5. Consistent(s, o, n, ForestRoot(old), pks)
         <=> RootFromPeaks(pks) = ForestRoot(old)
             /\ \A i \in 1..Len(hs) : Follows(pks[i], s, n, hs[i], q[i])
  <2> HIDE DEF o, n
  <2> QED
    BY <1>1, <1>2, <1>3, ConsistencyIsClimbs
<1>6. ASSUME NEW i \in 1..Len(hs)
      PROVE  Follows(pks[i], s, n, hs[i], q[i])
                <=> \A k \in c[i - 1] + 1 .. c[i] : old[k] = b[k]
  <2> DEFINE g == hs[i]
             j == q[i]
  <2>1. /\ g \in Nat /\ j \in Nat /\ c[i] = End(g, j) /\ c[i - 1] = j * Power[g]
        /\ c[i] <= o /\ c[i] \in Nat /\ c[i - 1] \in Nat
    BY <1>2, LayoutFacts
  <2>2. pks[i] = Node(was, PositionOf(g, j))
    BY <1>3
  <2> HIDE DEF g, j
  <2>3. End(g, j) <= o /\ End(g, j) <= n
    BY <1>1, <2>1
  <2>4. Node(was, PositionOf(g, j)) = Digests(old)[<<g, j>>]
    BY <1>1, <2>1, <2>3, NodeOfForest
  <2>5. Follows(pks[i], s, n, g, j) <=> pks[i] = Digests(b)[<<g, j>>]
    BY <1>1, <2>1, <2>3, FollowsInForest DEF s
  <2>6. Digests(old)[<<g, j>>] = Digests(b)[<<g, j>>]
          <=> \A k \in j * Power[g] .. End(g, j) - 1 : old[k + 1] = b[k + 1]
    <3>1. Len(old) \in Nat /\ Len(b) \in Nat /\ End(g, j) <= Len(old) /\ End(g, j) <= Len(b)
          /\ g \in Nat /\ j \in Nat
      BY <2>1, <2>3
    <3> HIDE DEF o, n
    <3> QED
      BY <3>1, DigestFixesLeaves
  <2>7. ASSUME \A k \in j * Power[g] .. End(g, j) - 1 : old[k + 1] = b[k + 1], NEW k \in c[i - 1] + 1 .. c[i]
        PROVE  old[k] = b[k]
    <3>1. k - 1 \in j * Power[g] .. End(g, j) - 1 /\ (k - 1) + 1 = k
      BY <2>1
    <3> QED
      BY <2>7, <3>1
  <2>8. ASSUME \A k \in c[i - 1] + 1 .. c[i] : old[k] = b[k], NEW k \in j * Power[g] .. End(g, j) - 1
        PROVE  old[k + 1] = b[k + 1]
    <3>1. k + 1 \in c[i - 1] + 1 .. c[i]
      BY <2>1
    <3> QED
      BY <2>8, <3>1
  <2>9. Follows(pks[i], s, n, g, j) <=> \A k \in c[i - 1] + 1 .. c[i] : old[k] = b[k]
    BY <2>2, <2>4, <2>5, <2>6, <2>7, <2>8
  <2> QED
    BY <2>9 DEF g, j
<1>7. ASSUME \A i \in 1..Len(hs) : \A k \in c[i - 1] + 1 .. c[i] : old[k] = b[k], NEW k \in 1..o
      PROVE  old[k] = b[k]
  <2>1. PICK i \in 1..Len(hs) : c[i - 1] < k /\ k <= c[i]
    BY <1>1, <1>2, WhichMountain
  <2>2. c[i] \in Nat /\ c[i - 1] \in Nat
    BY <1>2, LayoutFacts
  <2>3. k \in c[i - 1] + 1 .. c[i]
    BY <2>1, <2>2
  <2> QED
    BY <1>7, <2>3
<1>8. ASSUME \A k \in 1..o : old[k] = b[k], NEW i \in 1..Len(hs), NEW k \in c[i - 1] + 1 .. c[i]
      PROVE  old[k] = b[k]
  <2>1. c[i] \in Nat /\ c[i - 1] \in Nat /\ c[i] <= o
    BY <1>2, LayoutFacts
  <2>2. k \in 1..o
    BY <1>1, <2>1
  <2> QED
    BY <1>8, <2>2
<1>9. Consistent(s, o, n, ForestRoot(old), pks)
         <=> \A i \in 1..Len(hs) : \A k \in c[i - 1] + 1 .. c[i] : old[k] = b[k]
  BY <1>4, <1>5, <1>6
<1>10. Consistent(s, o, n, ForestRoot(old), pks) <=> \A k \in 1..o : old[k] = b[k]
  BY <1>7, <1>8, <1>9
<1> QED
  BY <1>10 DEF s, pks

\* Sequences of leaves, and when one is a prefix of the other.
LEMMA BoundedAre ==
    ASSUME NEW old, NEW n \in Nat, old \in BoundedSeq(Bodies, n)
    PROVE  Len(old) \in Nat /\ Len(old) <= n /\ old \in Seq(Bodies)
<1>1. PICK m \in 0..n : old \in [1..m -> Bodies]
  BY DEF BoundedSeq, SeqOf
<1>2. m \in Nat /\ m <= n
  OBVIOUS
<1>3. old \in Seq(Bodies) /\ Len(old) = m
  BY <1>1, <1>2
<1> QED
  BY <1>2, <1>3

LEMMA PrefixIs ==
    ASSUME NEW old \in Seq(Bodies), NEW b \in Seq(Bodies), Len(old) <= Len(b)
    PROVE  IsPrefix(old, b) <=> \A k \in 1..Len(old) : old[k] = b[k]
<1> DEFINE o == Len(old)
           sub == SubSeq(b, 1, o)
<1>1. Rows(old) /\ Rows(b) /\ o \in 0..Len(b)
  BY BodiesAre DEF Rows
<1>2. Rows(sub) /\ Len(sub) = o /\ \A k \in 1..o : sub[k] = b[k]
  <2> HIDE DEF o
  <2> QED
    BY <1>1, RowsPrefix
<1>3. SubSeq(old, 1, o) = old
  BY <1>1, RowsEnds
<1> HIDE DEF sub
<1>4. old = sub <=> \A k \in 1..o : old[k] = b[k]
  <2>1. ASSUME \A k \in 1..o : old[k] = b[k] PROVE old = sub
    <3>1. \A k \in 1..Len(old) : old[k] = sub[k]
      BY <1>2, <2>1
    <3>2. Len(old) = Len(sub)
      BY <1>2
    <3> QED
      BY <1>1, <1>2, <3>1, <3>2, RowsEqual
  <2>2. ASSUME old = sub PROVE \A k \in 1..o : old[k] = b[k]
    BY <1>2, <2>2
  <2> QED
    BY <2>1, <2>2
<1>5. IsPrefix(old, b) <=> old = sub
  BY <1>3 DEF IsPrefix, sub
<1> QED
  BY <1>4, <1>5

\* What ConsistencyIsExact says, of a store that is a forest.
LEMMA ConsistencyOfNodes ==
    ASSUME Grown(nodes), NEW old \in BoundedSeq(Bodies, Len(Leaves))
    PROVE  VerifyConsistency(ForestRoot(old), SizeOf[Len(old)], RootAt(nodes, Len(nodes)), Len(nodes),
                             [ConsistencyProof(nodes, SizeOf[Len(old)], Len(nodes)) EXCEPT
                                 !.oldPeaks = ForestPeaks(old)])
              <=> IsPrefix(old, Leaves)
<1> DEFINE b == Leaves
           s == Forest(b)
           n == Len(b)
           o == Len(old)
<1>1. nodes = s /\ b \in Seq(Bodies)
  BY GrownIsForest
<1>2. n \in Nat
  BY <1>1
<1>3. o \in Nat /\ o <= n /\ old \in Seq(Bodies)
  BY <1>2, BoundedAre
<1> HIDE DEF b
<1>4. Len(nodes) = SizeOf[n]
  BY <1>1, <1>2, ForestRows
<1>5. Consistent(s, o, n, ForestRoot(old), ForestPeaks(old)) <=> \A k \in 1..o : old[k] = b[k]
  BY <1>2, <1>3, ConsistencyOfForest
<1>6. IsPrefix(old, b) <=> \A k \in 1..o : old[k] = b[k]
  BY <1>1, <1>3, PrefixIs
<1> HIDE DEF s, n, o
<1>7. Consistent(s, o, n, ForestRoot(old), ForestPeaks(old))
         <=> VerifyConsistency(ForestRoot(old), SizeOf[o], RootAt(nodes, Len(nodes)), Len(nodes),
                               [ConsistencyProof(nodes, SizeOf[o], Len(nodes)) EXCEPT
                                   !.oldPeaks = ForestPeaks(old)])
  BY <1>1, <1>4 DEF Consistent, WithPeaks
<1> QED
  BY <1>5, <1>6, <1>7 DEF b, o

\* verify_consistency accepts the store's witness for an old root exactly when the
\* log it was the root of is a prefix of the store, for logs of any length.
THEOREM ConsistencyAccepts == LogSpec => []ConsistencyIsExact
<1>1. ASSUME StoreInv PROVE ConsistencyIsExact
  BY <1>1, UndisturbedIsGrown, ConsistencyOfNodes DEF ConsistencyIsExact
<1> QED
  BY <1>1, StoreInvHolds, PTL

-----------------------------------------------------------------------------
(* The log.                                                                  *)

\* A root over the first nodes of a store is theirs, whatever follows.
LEMMA RootOfPrefix ==
    ASSUME NEW s, NEW u, NEW size \in Nat, ValidSize(size), Len(s) \in Nat, size <= Len(s),
           \A k \in 1..Len(s) : u[k] = s[k]
    PROVE  RootAt(u, size) = RootAt(s, size)
<1>1. PICK n \in Nat : size = SizeOf[n]
  BY ValidIsSize
<1>2. PICK hs, c, q : Layout(n, hs, c, q)
  BY LayoutExists
<1> DEFINE pks == Peaks(size)
<1>3. PeaksAt(pks, hs, q)
  BY <1>1, <1>2, PeaksAre
<1>4. ASSUME NEW i \in DOMAIN pks PROVE Node(u, pks[i]) = Node(s, pks[i])
  <2>1. i \in 1..Len(hs) /\ pks[i] = PositionOf(hs[i], q[i])
    <3> HIDE DEF pks
    <3> QED
      BY <1>3 DEF PeaksAt
  <2>2. /\ hs[i] \in Nat /\ q[i] \in Nat /\ c[i] = End(hs[i], q[i]) /\ c[i] <= n
    BY <1>2, <2>1, LayoutFacts, SMTT(30)
  <2> DEFINE p == PositionOf(hs[i], q[i])
  <2>3. p \in Nat /\ p < SizeOf[n]
    BY <2>2, PositionWithin
  <2> HIDE DEF p
  <2>4. p + 1 \in 1..Len(s)
    BY <1>1, <2>3
  <2>5. Node(u, p) = Node(s, p)
    BY <2>4 DEF Node
  <2> QED
    BY <2>1, <2>5 DEF p
<1> HIDE DEF pks
<1>5. [i \in DOMAIN pks |-> Node(u, pks[i])] = [i \in DOMAIN pks |-> Node(s, pks[i])]
  BY <1>4
<1> QED
  BY <1>5 DEF RootAt, pks

\* After a whole append another leaf can be appended.
LEMMA NextSizeIsValid ==
    ASSUME NEW s, Rows(s), ValidSize(Len(s)), NEW body
    PROVE  ValidSize(Len(s \o NewNodes(s, LeafHash(body))))
<1> DEFINE leaf == LeafHash(body)
           new == NewNodes(s, leaf)
<1>1. PICK n \in Nat : Len(s) = SizeOf[n]
  BY ValidIsSize DEF Rows
<1>2. PICK hs, c, q : Layout(n, hs, c, q)
  BY LayoutExists
<1>3. PICK t : Merging(hs, t)
  BY <1>2, LayoutLength, MergingExists
<1>4. NextNodes(s, new)
  BY NextNodesAre
<1> HIDE DEF leaf
<1>5. Added(new, s, n, leaf, hs, t)
  BY <1>1, <1>2, <1>3, NewNodesAre
<1> HIDE DEF new
<1>6. Rows(new) /\ Len(new) = t + 1 /\ t \in Nat
  BY <1>4, <1>5 DEF NextNodes, Added
<1>7. Len(s \o new) = Len(s) + Len(new)
  BY <1>6, RowsJoin
<1>8. SizeOf[n + 1] = SizeOf[n] + t + 1 /\ SizeOf[n] \in Nat
  BY <1>2, <1>3, NewAligned, SizeType
<1>9. Len(s \o new) = SizeOf[n + 1]
  BY <1>1, <1>6, <1>7, <1>8
<1>10. ValidSize(SizeOf[n + 1])
  <2>1. n + 1 \in Nat
    OBVIOUS
  <2> QED
    BY <2>1, SizesAreValid
<1> QED
  BY <1>9, <1>10 DEF new, leaf

\* The root of no nodes is the zero root.
LEMMA NothingIsRooted == ValidSize(0) /\ \A s : RootAt(s, 0) = ZeroRoot
<1>1. SizeOf[0] = 0 /\ 0 \in Nat
  BY SizeEquation
<1>2. ValidSize(0)
  BY <1>1, SizesAreValid
<1>3. ASSUME NEW s PROVE RootAt(s, 0) = ZeroRoot
  <2>1. PICK hs, c, q : Layout(0, hs, c, q)
    BY <1>1, LayoutExists
  <2> DEFINE own == HashesAt(s, Peaks(SizeOf[0]))
  <2>2. HashesOf(own, s, hs, q) /\ RootAt(s, SizeOf[0]) = RootFromPeaks(own)
    BY <1>1, <2>1, HashesAre
  <2>3. hs = <<>>
    BY <1>1, <2>1, MountainsEquation DEF Layout
  <2> HIDE DEF own
  <2>4. Len(own) = 0
    BY <2>2, <2>3 DEF HashesOf
  <2>5. RootFromPeaks(own) = ZeroRoot
    BY <2>4 DEF RootFromPeaks
  <2> QED
    BY <1>1, <2>2, <2>5
<1> QED
  BY <1>2, <1>3

\* The records the log is made of.
LEMMA Records ==
    /\ NoRecord.size = 0 /\ NoRecord.root = ZeroRoot
    /\ TornRecord.size = 0
    /\ \A store, prev : /\ Mint(store, prev).size = Len(store)
                        /\ Mint(store, prev).root = RootAt(store, Len(store))
                        /\ Mint(store, prev).prevSize = prev.size
                        /\ Mint(store, prev).prevRoot = prev.root
                        /\ Mint(store, prev).proof
                             = ConsistencyProof(store, prev.size, IF prev = NoRecord THEN 0 ELSE Len(store))
BY DEF NoRecord, TornRecord, Mint

\* A checkpoint is of a size that a store can have.
ValidRecord(cp) == cp.size \in Nat /\ ValidSize(cp.size)

\* A checkpoint that is minted is of the store as it is; the one it extends is no
\* older than the one issued last and covers less.  What latest-checkpoint.json
\* holds, if it parses, is the one in memory.  While no process that outlived a
\* write error has died, the stored checkpoints have the roots of their stores.
LogInv ==
    /\ StoreInv
    /\ ValidRecord(latest) /\ ValidRecord(latestFile) /\ ValidRecord(issued)
    /\ minted # NoRecord => /\ up /\ minted = Mint(nodes, latest)
                            /\ latest.size < Len(nodes) /\ ValidSize(Len(nodes))
    /\ up => latest.size <= Len(nodes) /\ issued.size <= latest.size
    /\ latestFile # TornRecord => issued.size <= latestFile.size /\ latestFile.size <= Len(file)
    /\ up /\ latestFile # TornRecord => latest = latestFile
    /\ up /\ (errors = 0 \/ crashes = 0) => latest.root = RootAt(nodes, latest.size)
    /\ latestFile # TornRecord /\ errors = 0 => latestFile.root = RootAt(file, latestFile.size)

LEMMA LogInitially == ASSUME LogInit PROVE LogInv
<1>1. StoreInv
  BY StoreInit DEF LogInit
<1>2. latest = NoRecord /\ latestFile = NoRecord /\ issued = NoRecord /\ minted = NoRecord
  BY DEF LogInit
<1>3. nodes = <<>> /\ file = <<>>
  BY DEF LogInit, Init
<1>4. ValidRecord(NoRecord)
  BY Records, NothingIsRooted DEF ValidRecord
<1>5. NoRecord.size = 0 /\ NoRecord.root = RootAt(nodes, 0) /\ NoRecord.root = RootAt(file, 0)
  BY Records, NothingIsRooted
<1>6. Len(nodes) = 0 /\ Len(file) = 0
  BY <1>3
<1> HIDE DEF NoRecord, TornRecord
<1> QED
  BY <1>1, <1>2, <1>4, <1>5, <1>6 DEF LogInv

\* The store grows by an append or by part of one.
LEMMA GrowingKeepsRoots ==
    ASSUME NEW s, NEW new, Rows(s), Rows(new), NEW size \in Nat, ValidSize(size), size <= Len(s)
    PROVE  RootAt(s \o new, size) = RootAt(s, size) /\ size <= Len(s \o new)
<1> DEFINE u == s \o new
<1>1. Len(u) = Len(s) + Len(new) /\ \A k \in 1..Len(s) : u[k] = s[k]
  BY RowsJoin
<1>2. Len(s) \in Nat /\ Len(new) \in Nat
  BY DEF Rows
<1> HIDE DEF u
<1>3. RootAt(u, size) = RootAt(s, size)
  BY <1>1, <1>2, RootOfPrefix
<1> QED
  BY <1>1, <1>2, <1>3 DEF u

\* append_entry up to the signature.
LEMMA FoldKeepsInv ==
    ASSUME LogInv, NEW body \in Bodies, Fold(body)
    PROVE  LogInv'
<1>0. StoreInv'
  <2>1. StoreStep
    BY DEF Fold, StoreStep
  <2> QED
    BY <2>1, StoreKeepsInv DEF LogInv
<1> DEFINE new == NewNodes(nodes, LeafHash(body))
<1>1. /\ minted = NoRecord /\ up /\ up' /\ ValidSize(Len(nodes))
      /\ nodes' = nodes \o new /\ file' = file \o new
      /\ minted' = Mint(nodes', latest)
      /\ UNCHANGED <<latest, latestFile, issued, errors, crashes>>
  BY DEF Fold, AppendLeaf, Appendable
<1>2. Rows(nodes) /\ Rows(file) /\ Len(nodes) \in Nat /\ Len(file) \in Nat
  BY DEF LogInv, StoreInv, Rows
<1>3. Rows(new) /\ Len(new) \in Nat /\ Len(new) >= 1
  BY <1>1, <1>2, NextNodesAre DEF NextNodes, Rows
<1>4. ValidSize(Len(nodes'))
  BY <1>1, <1>2, NextSizeIsValid
<1> HIDE DEF new
<1>5. Len(nodes') = Len(nodes) + Len(new)
  BY <1>1, <1>2, <1>3, RowsJoin
<1>6. /\ latest.size \in Nat /\ ValidSize(latest.size) /\ latest.size <= Len(nodes)
      /\ latestFile.size \in Nat /\ ValidSize(latestFile.size)
      /\ issued.size <= latest.size
  BY <1>1 DEF LogInv, ValidRecord
<1>7. RootAt(nodes', latest.size) = RootAt(nodes, latest.size)
  BY <1>1, <1>2, <1>3, <1>6, GrowingKeepsRoots
<1>8. latestFile # TornRecord =>
         /\ latestFile.size <= Len(file')
         /\ RootAt(file', latestFile.size) = RootAt(file, latestFile.size)
  <2> SUFFICES ASSUME latestFile # TornRecord
               PROVE  /\ latestFile.size <= Len(file')
                      /\ RootAt(file', latestFile.size) = RootAt(file, latestFile.size)
    OBVIOUS
  <2>1. latestFile.size <= Len(file)
    BY DEF LogInv
  <2> QED
    BY <1>1, <1>2, <1>3, <1>6, <2>1, GrowingKeepsRoots
<1>9. latest.size < Len(nodes')
  BY <1>2, <1>3, <1>5, <1>6
<1>10. latest.size <= Len(nodes')
  BY <1>2, <1>3, <1>5, <1>6
<1> HIDE DEF NoRecord, TornRecord
<1> QED
  BY <1>0, <1>1, <1>4, <1>6, <1>7, <1>8, <1>9, <1>10 DEF LogInv, ValidRecord

\* A failed append.
LEMMA FoldFailsKeepsInv ==
    ASSUME LogInv, NEW body \in Bodies, FoldFails(body)
    PROVE  LogInv'
<1>0. StoreInv' /\ StoreInv
  <2>1. StoreStep
    BY DEF FoldFails, StoreStep
  <2> QED
    BY <2>1, StoreKeepsInv DEF LogInv
<1>1. /\ minted = NoRecord /\ up /\ ValidSize(Len(nodes)) /\ errors' = errors + 1 /\ PartlyWritten(body)
      /\ UNCHANGED <<nodes, up, crashes, latest, latestFile, minted, issued>>
  BY DEF FoldFails, AppendFails, Appendable
<1>2. errors' # 0
  BY <1>0, <1>1 DEF StoreInv
<1>3. Len(nodes) <= Len(file') /\ Rows(file') /\ Rows(nodes)
  BY <1>0, <1>1 DEF StoreInv
<1>4. latest.size <= Len(nodes) /\ latest.size \in Nat
  BY <1>1 DEF LogInv, ValidRecord
<1>5. latest.size <= Len(file')
  BY <1>3, <1>4 DEF Rows
<1>6. latestFile # TornRecord => latestFile.size <= Len(file')
  <2>1. latestFile # TornRecord => latest = latestFile
    BY <1>1 DEF LogInv
  <2> QED
    BY <1>5, <2>1
<1> HIDE DEF NoRecord, TornRecord
<1> QED
  BY <1>0, <1>1, <1>2, <1>6 DEF LogInv, ValidRecord

\* The checkpoint is stored and returned.
LEMMA PersistKeepsInv == ASSUME LogInv, Persist PROVE LogInv'
<1>0. StoreInv' /\ StoreInv
  <2>1. StoreStep
    BY DEF Persist, StoreStep
  <2> QED
    BY <2>1, StoreKeepsInv DEF LogInv
<1>1. /\ minted # NoRecord /\ latest' = minted /\ latestFile' = minted /\ issued' = minted
      /\ minted' = NoRecord /\ UNCHANGED <<nodes, file, torn, up, errors, crashes>>
  BY DEF Persist, vars
<1>2. up /\ minted = Mint(nodes, latest) /\ ValidSize(Len(nodes))
  BY <1>1 DEF LogInv
<1>3. minted.size = Len(nodes) /\ minted.root = RootAt(nodes, Len(nodes))
  BY <1>2, Records
<1>4. Len(nodes) \in Nat /\ Len(nodes) <= Len(file) /\ (errors = 0 => nodes = file)
  BY <1>0, <1>2 DEF StoreInv, Rows
<1>5. ValidRecord(minted)
  BY <1>2, <1>3, <1>4 DEF ValidRecord
<1> HIDE DEF NoRecord, TornRecord
<1>6. errors' = 0 => latestFile'.root = RootAt(file', latestFile'.size)
  BY <1>1, <1>3, <1>4
<1>7. latest'.size = Len(nodes') /\ latest'.root = RootAt(nodes', latest'.size)
  BY <1>1, <1>3
<1>8. latestFile'.size <= Len(file') /\ issued'.size <= latestFile'.size /\ issued'.size <= latest'.size
      /\ latest'.size <= Len(nodes')
  BY <1>1, <1>3, <1>4
<1> QED
  BY <1>0, <1>1, <1>5, <1>6, <1>7, <1>8 DEF LogInv, ValidRecord

\* The checkpoint is not stored.
LEMMA PersistFailsKeepsInv == ASSUME LogInv, PersistFails PROVE LogInv'
<1>0. StoreInv' /\ StoreInv
  <2>1. StoreStep
    BY DEF PersistFails, StoreStep
  <2> QED
    BY <2>1, StoreKeepsInv DEF LogInv
<1>1. /\ errors' = errors + 1 /\ latestFile' \in {latestFile, TornRecord} /\ minted' = NoRecord
      /\ UNCHANGED <<nodes, file, torn, up, crashes, latest, issued>>
  BY DEF PersistFails
<1>2. errors' # 0
  BY <1>0, <1>1 DEF StoreInv
<1>3. ValidRecord(TornRecord)
  BY Records, NothingIsRooted DEF ValidRecord
<1>4. ValidRecord(latestFile')
  BY <1>1, <1>3 DEF LogInv
<1> HIDE DEF NoRecord, TornRecord
<1> QED
  BY <1>0, <1>1, <1>2, <1>4 DEF LogInv, ValidRecord

\* The process dies, with or without a checkpoint in its hands.
LEMMA DieKeepsInv ==
    ASSUME LogInv, NEW body \in Bodies, Die(body)
    PROVE  LogInv'
<1>0. StoreInv' /\ StoreInv
  <2>1. StoreStep
    BY DEF Die, StoreStep
  <2> QED
    BY <2>1, StoreKeepsInv DEF LogInv
<1>1. /\ up /\ ~up' /\ crashes' = crashes + 1 /\ errors' = errors
      /\ latest' = NoRecord /\ minted' = NoRecord /\ issued' = issued
      /\ (file' = file \/ (Appendable /\ PartlyWritten(body)))
      /\ \/ minted = NoRecord /\ latestFile' = latestFile
         \/ minted # NoRecord /\ file' = file /\ latestFile' \in {latestFile, TornRecord, minted}
  BY DEF Die, Crash
<1>2. ValidRecord(TornRecord) /\ ValidRecord(NoRecord)
  BY Records, NothingIsRooted DEF ValidRecord
<1>3. /\ Rows(nodes) /\ Rows(file) /\ Len(nodes) \in Nat /\ Len(file) \in Nat /\ Len(nodes) <= Len(file)
      /\ errors = 0 => nodes = file
  BY <1>0, <1>1 DEF StoreInv, Rows
<1>4. /\ issued.size \in Nat /\ latest.size \in Nat /\ latestFile.size \in Nat /\ ValidSize(latestFile.size)
      /\ issued.size <= latest.size
  BY <1>1 DEF LogInv, ValidRecord
\* What is in the file is still there.
<1>5. latestFile # TornRecord => /\ latestFile.size <= Len(file')
                                 /\ RootAt(file', latestFile.size) = RootAt(file, latestFile.size)
  <2> SUFFICES ASSUME latestFile # TornRecord
               PROVE  /\ latestFile.size <= Len(file')
                      /\ RootAt(file', latestFile.size) = RootAt(file, latestFile.size)
    OBVIOUS
  <2>1. latestFile.size <= Len(file)
    BY DEF LogInv
  <2>2. CASE file' = file
    BY <2>1, <2>2
  <2>3. CASE Appendable /\ PartlyWritten(body)
    <3> DEFINE new == NewNodes(nodes, LeafHash(body))
    <3>1. PICK k \in 0..Len(new) : file' = file \o SubSeq(new, 1, k)
      BY <2>3 DEF PartlyWritten
    <3>2. Rows(new)
      BY <1>3, <2>3, NextNodesAre DEF NextNodes, Appendable
    <3> HIDE DEF new
    <3>3. Rows(SubSeq(new, 1, k))
      BY <3>1, <3>2, RowsPrefix
    <3> QED
      BY <1>3, <1>4, <2>1, <3>1, <3>3, GrowingKeepsRoots
  <2> QED
    BY <1>1, <2>2, <2>3
<1> HIDE DEF NoRecord, TornRecord
<1>6. CASE latestFile' = latestFile
  <2>1. latestFile' # TornRecord => /\ issued'.size <= latestFile'.size /\ latestFile'.size <= Len(file')
                                    /\ errors' = 0 => latestFile'.root = RootAt(file', latestFile'.size)
    BY <1>1, <1>5, <1>6 DEF LogInv
  <2> QED
    BY <1>0, <1>1, <1>2, <1>6, <2>1 DEF LogInv, ValidRecord
<1>7. CASE latestFile' = TornRecord
  BY <1>0, <1>1, <1>2, <1>7 DEF LogInv, ValidRecord
<1>8. CASE minted # NoRecord /\ file' = file /\ latestFile' = minted
  <2>1. minted = Mint(nodes, latest) /\ latest.size < Len(nodes) /\ ValidSize(Len(nodes))
    BY <1>8 DEF LogInv
  <2>2. minted.size = Len(nodes) /\ minted.root = RootAt(nodes, Len(nodes))
    BY <2>1, Records
  <2>3. ValidRecord(minted)
    BY <1>3, <2>1, <2>2 DEF ValidRecord
  <2>4. issued'.size <= latestFile'.size /\ latestFile'.size <= Len(file')
    BY <1>1, <1>3, <1>4, <1>8, <2>1, <2>2
  <2>5. errors' = 0 => latestFile'.root = RootAt(file', latestFile'.size)
    BY <1>1, <1>3, <1>8, <2>2
  <2> QED
    BY <1>0, <1>1, <1>2, <1>8, <2>3, <2>4, <2>5 DEF LogInv, ValidRecord
<1> QED
  BY <1>1, <1>6, <1>7, <1>8

\* The process is started again.
LEMMA RestartKeepsInv == ASSUME LogInv, Restart PROVE LogInv'
<1>0. StoreInv' /\ StoreInv
  <2>1. StoreStep
    BY DEF Restart, StoreStep
  <2> QED
    BY <2>1, StoreKeepsInv DEF LogInv
<1>1. /\ ~up /\ up' /\ nodes' = file /\ latestFile # TornRecord /\ latest' = latestFile
      /\ UNCHANGED <<file, errors, crashes, latestFile, minted, issued>>
  BY DEF Restart, Reopen
<1>2. minted = NoRecord /\ crashes # 0
  BY <1>0, <1>1 DEF LogInv, StoreInv
<1> HIDE DEF NoRecord, TornRecord
<1> QED
  BY <1>0, <1>1, <1>2 DEF LogInv, ValidRecord

LEMMA LogKeepsInv == ASSUME LogInv, [LogNext]_logVars PROVE LogInv'
<1>1. CASE UNCHANGED logVars
  BY <1>1 DEF logVars, vars, LogInv, StoreInv, ValidRecord
<1>2. ASSUME NEW body \in Bodies, Fold(body) \/ FoldFails(body) \/ Die(body) PROVE LogInv'
  BY <1>2, FoldKeepsInv, FoldFailsKeepsInv, DieKeepsInv
<1>3. CASE FoldRefused
  <2>1. UNCHANGED logVars
    BY <1>3 DEF FoldRefused, AppendRefused, logVars
  <2> QED
    BY <1>1, <2>1
<1>4. CASE Persist \/ PersistFails \/ Restart
  BY <1>4, PersistKeepsInv, PersistFailsKeepsInv, RestartKeepsInv
<1>5. CASE RestartFails
  <2>1. UNCHANGED logVars
    BY <1>5 DEF RestartFails
  <2> QED
    BY <1>1, <2>1
<1> QED
  BY <1>1, <1>2, <1>3, <1>4, <1>5 DEF LogNext

LEMMA LogInvHolds == LogSpec => []LogInv
BY LogInitially, LogKeepsInv, PTL DEF LogSpec

-----------------------------------------------------------------------------
(* The chain the log signs.                                                  *)

\* A forest's own proof leads from the root of any prefix of its leaves to its own.
LEMMA ProofOfPrefix ==
    ASSUME NEW b, Len(b) \in Nat, NEW o \in Nat, o <= Len(b)
    PROVE  LET s == Forest(b)
               size == SizeOf[Len(b)]
           IN  VerifyConsistency(RootAt(s, SizeOf[o]), SizeOf[o], RootAt(s, size), size,
                                 ConsistencyProof(s, SizeOf[o], size))
<1> DEFINE s == Forest(b)
           n == Len(b)
           own == HashesAt(s, Peaks(SizeOf[o]))
<1>1. n \in Nat /\ o <= n
  OBVIOUS
<1>2. PICK hs, c, q : Layout(o, hs, c, q)
  BY LayoutExists
<1>3. /\ Len(own) = Len(hs)
      /\ \A i \in 1..Len(hs) : own[i] = Node(s, PositionOf(hs[i], q[i]))
      /\ RootAt(s, SizeOf[o]) = RootFromPeaks(own)
  <2> HIDE DEF s
  <2>1. HashesOf(own, s, hs, q) /\ RootAt(s, SizeOf[o]) = RootFromPeaks(own)
    BY <1>2, HashesAre
  <2> HIDE DEF own
  <2> QED
    BY <2>1 DEF HashesOf
<1>4. ASSUME NEW i \in 1..Len(hs) PROVE Follows(own[i], s, n, hs[i], q[i])
  <2> DEFINE g == hs[i]
             j == q[i]
  <2>1. g \in Nat /\ j \in Nat /\ c[i] = End(g, j) /\ c[i] <= o /\ c[i] \in Nat
    BY <1>2, LayoutFacts
  <2>2. own[i] = Node(s, PositionOf(g, j))
    BY <1>3
  <2> HIDE DEF g, j, own
  <2>3. End(g, j) <= n
    BY <1>1, <2>1
  <2>4. Node(s, PositionOf(g, j)) = Digests(b)[<<g, j>>]
    BY <1>1, <2>1, <2>3, NodeOfForest
  <2>5. Follows(own[i], s, n, g, j)
    BY <2>1, <2>2, <2>3, <2>4, FollowsInForest
  <2> QED
    BY <2>5 DEF g, j
<1>5. WithPeaks(s, o, n, own) = ConsistencyProof(s, SizeOf[o], SizeOf[n])
  BY DEF WithPeaks, ConsistencyProof
<1> HIDE DEF own, s, n
<1>6. Consistent(s, o, n, RootAt(s, SizeOf[o]), own)
  BY <1>1, <1>2, <1>3, <1>4, ConsistencyIsClimbs
<1> QED
  BY <1>5, <1>6 DEF Consistent, s, n

\* What append_entry signs: the chain, and the proof of the link.
LEMMA MintedLinks ==
    ASSUME LogInv, minted # NoRecord, errors = 0 \/ crashes = 0
    PROVE  LinkVerifies(minted)
<1>1. /\ up /\ latest.size < Len(nodes) /\ ValidSize(Len(nodes))
      /\ latest.size \in Nat /\ ValidSize(latest.size)
      /\ latest.root = RootAt(nodes, latest.size)
  BY DEF LogInv, ValidRecord
<1>2. Grown(nodes)
  BY <1>1, WholeIsGrown DEF LogInv, Whole
<1>3. nodes = Forest(Leaves) /\ Leaves \in Seq(Bodies)
  BY <1>2, GrownIsForest
<1> DEFINE b == Leaves
<1>4. Len(b) \in Nat /\ nodes = Forest(b)
  BY <1>3
<1> HIDE DEF b
<1>5. Len(nodes) = SizeOf[Len(b)]
  BY <1>4, ForestRows
<1>6. PICK o \in Nat : latest.size = SizeOf[o]
  BY <1>1, ValidIsSize
<1>7. o <= Len(b)
  BY <1>1, <1>4, <1>5, <1>6, SizesInOrder
<1>8. VerifyConsistency(RootAt(nodes, latest.size), latest.size, RootAt(nodes, Len(nodes)), Len(nodes),
                        ConsistencyProof(nodes, latest.size, Len(nodes)))
  BY <1>4, <1>5, <1>6, <1>7, ProofOfPrefix
<1>9. /\ minted.size = Len(nodes) /\ minted.root = RootAt(nodes, Len(nodes))
      /\ minted.prevSize = latest.size /\ minted.prevRoot = latest.root
      /\ minted.proof = ConsistencyProof(nodes, latest.size, IF latest = NoRecord THEN 0 ELSE Len(nodes))
  BY Records DEF LogInv
<1>10. ASSUME latest.size > 0 PROVE latest # NoRecord
  BY <1>10, Records
<1> HIDE DEF NoRecord
<1> QED
  BY <1>1, <1>8, <1>9, <1>10 DEF LinkVerifies

\* A checkpoint is returned once it is stored.
LEMMA OnlyPersistIssues == ASSUME [LogNext]_logVars, issued' # issued PROVE Persist
<1>1. ~UNCHANGED logVars
  BY DEF logVars
<1>2. ASSUME NEW body \in Bodies PROVE ~(Fold(body) \/ FoldFails(body) \/ Die(body))
  BY DEF Fold, FoldFails, Die
<1>3. ~(FoldRefused \/ PersistFails \/ Restart \/ RestartFails)
  BY <1>1 DEF FoldRefused, PersistFails, Restart, RestartFails
<1> QED
  BY <1>1, <1>2, <1>3 DEF LogNext

\* Each checkpoint append_entry returns extends the one it returned last, or one
\* beyond it that was stored and never returned, and the consistency proof it signs
\* verifies, whatever was appended, failed to be written or died before.
THEOREM ChainIsSigned == LogSpec => OneChainIsSigned
<1>1. ASSUME LogInv, [LogNext]_logVars
      PROVE  issued' # issued =>
                /\ issued'.prevSize >= issued.size /\ issued'.size > issued'.prevSize
                /\ (errors = 0 \/ crashes = 0) => LinkVerifies(issued')
  <2> SUFFICES ASSUME issued' # issued
               PROVE  /\ issued'.prevSize >= issued.size /\ issued'.size > issued'.prevSize
                      /\ (errors = 0 \/ crashes = 0) => LinkVerifies(issued')
    OBVIOUS
  <2>1. Persist
    BY <1>1, OnlyPersistIssues
  <2>2. minted # NoRecord /\ issued' = minted
    BY <2>1 DEF Persist
  <2>3. /\ minted = Mint(nodes, latest) /\ latest.size < Len(nodes) /\ issued.size <= latest.size
        /\ latest.size \in Nat /\ issued.size \in Nat
    BY <1>1, <2>2 DEF LogInv, ValidRecord
  <2>4. minted.size = Len(nodes) /\ minted.prevSize = latest.size
    BY <2>3, Records
  <2>5. Len(nodes) \in Nat
    BY <1>1 DEF LogInv, StoreInv, Rows
  <2>6. (errors = 0 \/ crashes = 0) => LinkVerifies(minted)
    BY <1>1, <2>2, MintedLinks
  <2> HIDE DEF NoRecord
  <2> QED
    BY <2>2, <2>3, <2>4, <2>5, <2>6
<1>2. LogInv /\ [LogNext]_logVars
        => [issued' # issued =>
                /\ issued'.prevSize >= issued.size /\ issued'.size > issued'.prevSize
                /\ (errors = 0 \/ crashes = 0) => LinkVerifies(issued')]_logVars
  BY <1>1
<1> QED
  BY <1>2, LogInvHolds, PTL DEF LogSpec, OneChainIsSigned

-----------------------------------------------------------------------------
(* What stays provable.                                                      *)

\* A subtree of a subtree is one.
LEMMA UnderTrans ==
    ASSUME NEW a, NEW b, NEW g, NEW j, NEW k, NEW y, Under(a, b, g, j), Under(g, j, k, y)
    PROVE  Under(a, b, k, y)
<1> DEFINE lo == j * Power[g]
           top == y * Power[k]
<1>1. /\ a \in Nat /\ b \in Nat /\ g \in Nat /\ j \in Nat /\ k \in Nat /\ y \in Nat
      /\ a <= g /\ g <= k
      /\ lo < End(a, b) /\ End(a, b) <= End(g, j) /\ top < End(g, j) /\ End(g, j) <= End(k, y)
  BY DEF Under
<1>2. /\ lo \in Nat /\ Aligned(lo, g) /\ End(g, j) = lo + Power[g]
      /\ top \in Nat /\ Aligned(top, k)
      /\ End(a, b) \in Nat /\ End(g, j) \in Nat /\ End(k, y) \in Nat
  BY <1>1, EndFacts
<1> HIDE DEF lo, top
<1>3. Aligned(top, g)
  BY <1>1, <1>2, AlignedBelow
<1>4. lo < top => lo + Power[g] <= top
  BY <1>1, <1>2, <1>3, AlignedSteps
<1>5. top <= lo
  BY <1>1, <1>2, <1>4
<1>6. top < End(a, b) /\ End(a, b) <= End(k, y) /\ a <= k
  BY <1>1, <1>2, <1>5
<1> QED
  BY <1>1, <1>6 DEF Under, top

\* The line from a leaf of a forest up to a subtree of it.
LEMMA ForestClimbs ==
    ASSUME NEW b, Len(b) \in Nat, NEW i, NEW g, NEW j, Under(0, i, g, j), End(g, j) <= Len(b),
           NEW path, Walk(path, 0, i, g)
    PROVE  Climb(LeafHash(b[i + 1]), path, Siblings(Forest(b), path)) = Digests(b)[<<g, j>>]
<1> DEFINE s == Forest(b)
<1>1. 0 \in Nat /\ i \in Nat /\ g \in Nat /\ j \in Nat /\ End(0, i) <= End(g, j)
  BY DEF Under
<1>2. End(0, i) \in Nat /\ End(g, j) \in Nat /\ End(0, i) <= Len(b)
  <2>1. End(0, i) \in Nat /\ End(g, j) \in Nat
    BY <1>1, EndFacts
  <2> QED
    BY <1>1, <2>1
<1>3. \A k \in 0 + 1..g : Proper(s, k, Above(0, i, k))
  <2> SUFFICES ASSUME NEW k \in 0 + 1..g PROVE Proper(s, k, Above(0, i, k))
    OBVIOUS
  <2>1. k \in 0..g /\ k > 0
    BY <1>1
  <2>2. k \in Nat /\ Above(0, i, k) \in Nat /\ End(k, Above(0, i, k)) <= End(g, j)
    BY <2>1, AboveWithin
  <2>3. End(k, Above(0, i, k)) \in Nat
    BY <2>2, EndFacts
  <2>4. End(k, Above(0, i, k)) <= Len(b)
    BY <1>2, <2>2, <2>3
  <2> QED
    BY <2>1, <2>2, <2>4, ForestIsProper
<1>4. Node(s, PositionOf(0, i)) = LeafHash(b[i + 1])
  <2>1. Node(s, PositionOf(0, i)) = Digests(b)[<<0, i>>]
    BY <1>1, <1>2, NodeOfForest
  <2>2. Digests(b)[<<0, i>>] = LeafHash(b[i + 1])
    BY <1>1, <1>2, DigestOf
  <2> QED
    BY <2>1, <2>2
<1>5. Node(s, PositionOf(g, j)) = Digests(b)[<<g, j>>]
  BY <1>1, NodeOfForest
<1> HIDE DEF s
<1>6. Climb(Node(s, PositionOf(0, i)), path, Siblings(s, path)) = Node(s, PositionOf(g, j))
  BY <1>3, ClimbArrives
<1> QED
  BY <1>4, <1>5, <1>6 DEF s

\* Where a store has the digest of a forest's subtree, it has the subtree's leaves, and
\* its nodes on the way to them are the hashes of the nodes below them.
LEMMA DigestIsProper ==
    ASSUME NEW s, Len(s) \in Nat, InPlace(s), NEW b, Len(b) \in Nat,
           NEW i, NEW g, NEW j, Under(0, i, g, j), End(g, j) <= Len(b),
           PositionOf(g, j) < Len(s), Node(s, PositionOf(g, j)) = Digests(b)[<<g, j>>]
    PROVE  /\ Node(s, PositionOf(0, i)) = LeafHash(b[i + 1])
           /\ \A k \in 1..g : Proper(s, k, Above(0, i, k))
<1> DEFINE path == LocatePath(PositionOf(g, j), g, PositionOf(0, i))
           sib == Siblings(Forest(b), path)
           leaf == LeafHash(b[i + 1])
<1>1. Walk(path, 0, i, g)
  BY PathWalks
<1> HIDE DEF path
<1>2. Climb(leaf, path, sib) = Digests(b)[<<g, j>>]
  BY <1>1, ForestClimbs
<1> HIDE DEF sib, leaf
<1>3. Climb(leaf, path, sib) = Node(s, PositionOf(g, j))
  BY <1>2
<1>4. /\ leaf = Node(s, PositionOf(0, i))
      /\ \A k \in 0 + 1..g : Proper(s, k, Above(0, i, k))
  BY <1>1, <1>3, ArrivingIsProper
<1> QED
  BY <1>4 DEF leaf

\* The two halves of the line from a leaf make one.
LEMMA LineIsProper ==
    ASSUME NEW s, NEW i, NEW g, NEW j, NEW h, NEW x, Under(0, i, g, j), Under(g, j, h, x),
           \A k \in 1..g : Proper(s, k, Above(0, i, k)),
           \A k \in g + 1..h : Proper(s, k, Above(g, j, k))
    PROVE  \A k \in 0 + 1..h : Proper(s, k, Above(0, i, k))
<1>1. g \in Nat /\ h \in Nat /\ g <= h
  BY DEF Under
<1> SUFFICES ASSUME NEW k \in 0 + 1..h PROVE Proper(s, k, Above(0, i, k))
  OBVIOUS
<1>2. CASE k <= g
  BY <1>1, <1>2
<1>3. CASE g < k
  <2>1. k \in g..h /\ k \in g + 1..h
    BY <1>1, <1>3
  <2>2. Under(g, j, k, Above(g, j, k))
    BY <2>1, AboveExists
  <2>3. Under(0, i, k, Above(g, j, k))
    BY <2>2, UnderTrans
  <2>4. Above(0, i, k) = Above(g, j, k)
    BY <2>3, AboveIs
  <2> QED
    BY <2>1, <2>4
<1> QED
  BY <1>1, <1>2, <1>3

\* A leaf whose line is of a store's hashes is proved from the store.
LEMMA LineVerifies ==
    ASSUME NEW n \in Nat, NEW hs, NEW c, NEW q, Layout(n, hs, c, q), NEW s, NEW i \in 0..n - 1,
           NEW m \in 1..Len(hs), Under(0, i, hs[m], q[m]), NEW body,
           Node(s, PositionOf(0, i)) = LeafHash(body),
           \A k \in 0 + 1..hs[m] : Proper(s, k, Above(0, i, k))
    PROVE  Verified(s, n, i, body)
<1>1. i \in Nat /\ 0 \in Nat /\ End(0, i) = i + 1
  BY LeafPosition
<1>2. c[m - 1] = q[m] * Power[hs[m]] /\ c[m] = End(hs[m], q[m])
  BY LayoutFacts
<1>3. c[m - 1] < End(0, i) /\ End(0, i) <= c[m]
  BY <1>2 DEF Under
<1> DEFINE path == PathTo(PositionOf(0, i), Peaks(SizeOf[n]))
<1>4. Walk(path, 0, i, hs[m])
  BY <1>1, <1>3, PathToIs
<1> HIDE DEF path
<1>5. Climb(Node(s, PositionOf(0, i)), path, Siblings(s, path)) = Node(s, PositionOf(hs[m], q[m]))
  BY <1>4, ClimbArrives
<1>6. Arrives(s, n, i, body, hs[m], q[m])
  BY <1>5 DEF Arrives, path
<1>7. c[m - 1] < i + 1 /\ i + 1 <= c[m]
  BY <1>1, <1>3
<1> QED
  BY <1>6, <1>7, InclusionIsAClimb

\* What a log was when its root was signed can be proved entry by entry under any root
\* that a store's own proof leads to from there.
LEMMA CoveredIsProvable ==
    ASSUME NEW s, NEW n \in Nat, Len(s) = SizeOf[n], InPlace(s),
           NEW b, Len(b) \in Nat, Len(b) <= n,
           Consistent(s, Len(b), n, ForestRoot(b), HashesAt(s, Peaks(SizeOf[Len(b)]))),
           NEW i \in 0..Len(b) - 1
    PROVE  Verified(s, n, i, b[i + 1])
<1> DEFINE o == Len(b)
           own == HashesAt(s, Peaks(SizeOf[o]))
           was == Forest(b)
           pks == ForestPeaks(b)
<1>1. o \in Nat /\ o <= n /\ i \in 0..o - 1 /\ i \in 0..n - 1
  OBVIOUS
<1> HIDE DEF o
<1>2. PICK hs, c, q : Layout(o, hs, c, q)
  BY <1>1, LayoutExists
<1>3. /\ Len(own) = Len(hs) /\ Len(hs) \in Nat
      /\ \A k \in 1..Len(hs) : own[k] = Node(s, PositionOf(hs[k], q[k]))
  <2>1. HashesOf(own, s, hs, q)
    BY <1>1, <1>2, HashesAre
  <2>2. Len(hs) \in Nat
    BY <1>1, <1>2, LayoutLength
  <2> HIDE DEF own
  <2> QED
    BY <2>1, <2>2 DEF HashesOf
<1>4. /\ Len(pks) = Len(hs)
      /\ \A k \in 1..Len(hs) : pks[k] = Node(was, PositionOf(hs[k], q[k]))
  <2>1. HashesOf(HashesAt(was, Peaks(SizeOf[o])), was, hs, q)
    <3> HIDE DEF was
    <3> QED
      BY <1>1, <1>2, HashesAre
  <2>2. HashesOf(pks, was, hs, q)
    BY <2>1 DEF ForestPeaks, o
  <2> HIDE DEF pks, was
  <2> QED
    BY <2>2 DEF HashesOf
<1>5. RootFromPeaks(pks) = ForestRoot(b)
  BY DEF ForestRoot
<1> HIDE DEF own, pks, was
<1>6. Consistent(s, o, n, ForestRoot(b), own)
  BY DEF o, own
<1>7. /\ RootFromPeaks(own) = ForestRoot(b)
      /\ \A k \in 1..Len(hs) : Follows(own[k], s, n, hs[k], q[k])
  BY <1>1, <1>2, <1>3, <1>6, ConsistencyIsClimbs
<1>8. \A k \in 1..Len(hs) : own[k] = pks[k]
  BY <1>3, <1>4, <1>5, <1>7, RootFixesPeaks
\* The subtree of the old log that holds the leaf.
<1>9. PICK l \in 1..Len(hs) : Under(0, i, hs[l], q[l])
  BY <1>1, <1>2, MountainOfLeaf
<1> DEFINE g == hs[l]
           j == q[l]
<1>10. g \in Nat /\ j \in Nat /\ End(g, j) = c[l] /\ c[l] <= o /\ c[l] \in Nat
  BY <1>1, <1>2, LayoutFacts
<1>11. /\ Under(0, i, g, j) /\ own[l] = Node(s, PositionOf(g, j)) /\ Follows(own[l], s, n, g, j)
       /\ own[l] = Node(was, PositionOf(g, j))
  BY <1>3, <1>4, <1>7, <1>8, <1>9
<1> HIDE DEF g, j
<1>12. End(g, j) <= n /\ End(g, j) <= o
  BY <1>1, <1>10
<1>13. Node(s, PositionOf(g, j)) = Digests(b)[<<g, j>>]
  BY <1>1, <1>10, <1>11, <1>12, NodeOfForest DEF o, was
<1>14. PositionOf(g, j) < Len(s) /\ Len(s) \in Nat
  BY <1>10, <1>12, PositionWithin
<1>15. /\ Node(s, PositionOf(0, i)) = LeafHash(b[i + 1])
       /\ \A k \in 1..g : Proper(s, k, Above(0, i, k))
  BY <1>11, <1>12, <1>13, <1>14, DigestIsProper DEF o
\* From there to a mountain of the store.
<1>16. PICK hs2, c2, q2 : Layout(n, hs2, c2, q2)
  BY LayoutExists
<1> DEFINE at == PositionOf(g, j)
           path == PathTo(at, Peaks(SizeOf[n]))
<1>17. PICK m \in 1..Len(hs2) :
          /\ FindContainingPeak(at, Peaks(SizeOf[n])) = m
          /\ Peaks(SizeOf[n])[m] = PositionOf(hs2[m], q2[m])
          /\ Under(g, j, hs2[m], q2[m])
          /\ Walk(path, g, j, hs2[m])
  BY <1>10, <1>12, <1>16, MountainOfPlace
<1>18. Climb(own[l], path, Siblings(s, path)) = Node(s, PositionOf(hs2[m], q2[m]))
  BY <1>11, <1>17 DEF Follows
<1>19. PositionOf(hs2[m], q2[m]) < Len(s)
  <2>1. hs2[m] \in Nat /\ q2[m] \in Nat /\ c2[m] = End(hs2[m], q2[m]) /\ c2[m] <= n
    BY <1>16, LayoutFacts
  <2> QED
    BY <2>1, PositionWithin
<1> HIDE DEF path, at
<1>20. \A k \in g + 1..hs2[m] : Proper(s, k, Above(g, j, k))
  BY <1>14, <1>17, <1>18, <1>19, ArrivingIsProper
<1>21. \A k \in 0 + 1..hs2[m] : Proper(s, k, Above(0, i, k))
  BY <1>11, <1>15, <1>17, <1>20, LineIsProper
<1>22. Under(0, i, hs2[m], q2[m])
  BY <1>11, <1>17, UnderTrans
<1> QED
  BY <1>1, <1>15, <1>16, <1>21, <1>22, LineVerifies

\* An entry covered by an older checkpoint that a verified link extends stays provable
\* under the newer one, at its place and with its body, also after records of a failed
\* write have got into the node file.
THEOREM CoveredIsNeverLost == LogSpec => CoveredStaysProvable
<1>1. ASSUME LogInv, [LogNext]_logVars, issued' # issued, LinkVerifies(issued'),
             NEW log \in LogsOf(issued'.prevSize, issued'.prevRoot), NEW i \in DOMAIN log
      PROVE  VerifyInclusion(issued'.root, issued'.size, i - 1, log[i],
                             InclusionProof(nodes, i - 1, issued'.size))
  <2>1. minted # NoRecord /\ issued' = minted
    BY <1>1, OnlyPersistIssues DEF Persist
  <2>2. /\ minted = Mint(nodes, latest) /\ latest.size < Len(nodes) /\ ValidSize(Len(nodes))
        /\ latest.size \in Nat /\ ValidSize(latest.size) /\ InPlace(nodes) /\ Len(nodes) \in Nat
    BY <1>1, <2>1 DEF LogInv, ValidRecord, StoreInv, Rows
  <2>3. /\ minted.size = Len(nodes) /\ minted.root = RootAt(nodes, Len(nodes))
        /\ minted.prevSize = latest.size /\ minted.prevRoot = latest.root
        /\ minted.proof = ConsistencyProof(nodes, latest.size, IF latest = NoRecord THEN 0 ELSE Len(nodes))
    BY <2>2, Records
  <2>4. PICK o \in Nat, n \in Nat : latest.size = SizeOf[o] /\ Len(nodes) = SizeOf[n]
    BY <2>2, ValidIsSize
  <2>5. o <= n
    BY <2>2, <2>4, SizesInOrder
  <2>6. log \in [1..o -> Bodies] /\ ForestRoot(log) = latest.root
    BY <1>1, <2>1, <2>3, <2>4, LeafCountOfSize DEF LogsOf
  <2>7. Len(log) = o /\ i \in 1..o
    BY <1>1, <2>6
  <2>8. latest.size > 0 /\ latest # NoRecord
    <3>1. o # 0
      BY <2>7
    <3>2. SizeOf[o] >= o
      BY SizeBounds
    <3>3. latest.size > 0
      BY <2>2, <2>4, <3>1, <3>2
    <3> QED
      BY <3>3, Records
  <2> DEFINE own == HashesAt(nodes, Peaks(SizeOf[o]))
  <2>9. WithPeaks(nodes, o, n, own) = ConsistencyProof(nodes, SizeOf[o], SizeOf[n])
    BY DEF WithPeaks, ConsistencyProof
  <2> HIDE DEF own
  <2>10. VerifyConsistency(latest.root, SizeOf[o], RootAt(nodes, SizeOf[n]), SizeOf[n],
                           ConsistencyProof(nodes, SizeOf[o], SizeOf[n]))
    <3> HIDE DEF NoRecord
    <3> QED
      BY <1>1, <2>1, <2>3, <2>4, <2>8 DEF LinkVerifies
  <2>11. Consistent(nodes, o, n, ForestRoot(log), own)
    BY <2>6, <2>9, <2>10 DEF Consistent
  <2>12. i - 1 \in 0..Len(log) - 1 /\ (i - 1) + 1 = i
    BY <2>7
  <2>13. Verified(nodes, n, i - 1, log[i])
    BY <2>2, <2>4, <2>5, <2>7, <2>11, <2>12, CoveredIsProvable DEF own
  <2> QED
    BY <2>1, <2>3, <2>4, <2>13 DEF Verified
<1>2. LogInv /\ [LogNext]_logVars
        => [issued' # issued /\ LinkVerifies(issued') =>
              \A log \in LogsOf(issued'.prevSize, issued'.prevRoot) : \A i \in DOMAIN log :
                  VerifyInclusion(issued'.root, issued'.size, i - 1, log[i],
                                  InclusionProof(nodes, i - 1, issued'.size))]_logVars
  BY <1>1
<1> QED
  BY <1>2, LogInvHolds, PTL DEF LogSpec, CoveredStaysProvable
=============================================================================
