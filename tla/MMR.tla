-------------------------------- MODULE MMR ----------------------------------
(***************************************************************************)
(* src/trace_verify/_mmr.py: the Merkle mountain range.  Nodes are kept in *)
(* one growing array; a perfect subtree ("mountain") is followed by its    *)
(* parent as soon as there are two of its height.  Positions count from 0, *)
(* the array here is a sequence, so position p is element p + 1.           *)
(*                                                                         *)
(* A digest is a term and hashing is injective.  The preimages of the three*)
(* kinds of hash have different lengths (33, 72 and 64 bytes), so terms of *)
(* different kinds differ.  A call that raises is one whose guard, named   *)
(* below, fails; the verifiers turn that into FALSE.  MAX_MMR_SIZE (2^50)  *)
(* and the JSON typing of proofs are left out.                             *)
(***************************************************************************)
EXTENDS Integers, Sequences, FiniteSets, Powers

LeafHash(body) == [kind |-> "leaf", at |-> body, of |-> <<>>]
InteriorHash(left, right, pos) == [kind |-> "interior", at |-> pos, of |-> <<left, right>>]
Bag(right, left) == [kind |-> "bag", at |-> 0, of |-> <<right, left>>]
ZeroRoot == [kind |-> "zero", at |-> 0, of |-> <<>>]

\* Peaks are folded from the right.
RootFromPeaks(hashes) ==
    LET last == Len(hashes)
        bagged[k \in 0..last - 1] ==
            IF k = 0 THEN hashes[last] ELSE Bag(bagged[k - 1], hashes[last - k])
    IN  IF last = 0 THEN ZeroRoot ELSE bagged[last - 1]

-----------------------------------------------------------------------------
(* Positions.                                                               *)

MountainSize(h) == 2 * Power[h] - 1

\* The node that ends n nodes: strip the left mountain until n is a mountain.
HeightOfLast[n \in Nat \ {0}] ==
    LET h == CHOOSE h \in 0..n : MountainSize(h) >= n /\ (h > 0 => MountainSize(h - 1) < n)
    IN  IF n = MountainSize(h) THEN h ELSE HeightOfLast[n - MountainSize(h - 1)]

HeightAt(pos) == HeightOfLast[pos + 1]

Popcount[n \in Nat] == IF n = 0 THEN 0 ELSE (n % 2) + Popcount[n \div 2]

\* Mutant: right for powers of two only.
NodeCount_Perfect(leafCount) == IF leafCount = 0 THEN 0 ELSE 2 * leafCount - 1

NodeCount(leafCount) == 2 * leafCount - Popcount[leafCount]

\* Heights of the mountains of a size, the largest that fits first.
MountainsOf[size \in Nat] ==
    IF size = 0 THEN <<>>
    ELSE LET h == CHOOSE h \in 0..size : MountainSize(h) <= size /\ size < MountainSize(h + 1)
         IN  <<h>> \o MountainsOf[size - MountainSize(h)]

\* Mutant: equal mountains may stand side by side.
ValidSize_NotStrict(size) ==
    LET hs == MountainsOf[size] IN \A i \in 2..Len(hs) : hs[i] <= hs[i - 1]

\* peaks() raises on any other size.
ValidSize(size) ==
    LET hs == MountainsOf[size] IN \A i \in 2..Len(hs) : hs[i] < hs[i - 1]

Peaks(size) ==
    LET hs == MountainsOf[size]
        end[i \in 0..Len(hs)] == IF i = 0 THEN 0 ELSE end[i - 1] + MountainSize(hs[i])
    IN  [i \in DOMAIN hs |-> end[i] - 1]

LeafCount(size) ==
    LET pks == Peaks(size)
        sum[i \in 0..Len(pks)] == IF i = 0 THEN 0 ELSE sum[i - 1] + Power[HeightAt(pks[i])]
    IN  sum[Len(pks)]
LeafIndexToPos(leafIndex) == NodeCount(leafIndex)
PosToLeafIndex(pos) == LeafCount(pos)

-----------------------------------------------------------------------------
(* Appending.                                                               *)

Node(nodes, pos) == nodes[pos + 1]
RootAt(nodes, size) ==
    RootFromPeaks([i \in DOMAIN Peaks(size) |-> Node(nodes, Peaks(size)[i])])

\* How many peaks the new leaf completes: those of heights 0, 1, 2, ... from the
\* right.
MergedPeaks(size) ==
    LET pks == Peaks(size)
    IN  CHOOSE k \in 0..Len(pks) :
            /\ \A j \in 0..k - 1 : HeightAt(pks[Len(pks) - j]) = j
            /\ k < Len(pks) => HeightAt(pks[Len(pks) - k]) # k

\* add_leaf: the leaf and the parents it completes, in the order appended.
NewNodes(nodes, leaf) ==
    LET size == Len(nodes)
        pks == Peaks(size)
        new[j \in 0..MergedPeaks(size)] ==
            IF j = 0 THEN leaf
            ELSE InteriorHash(Node(nodes, pks[Len(pks) - j + 1]), new[j - 1], size + j)
    IN  [j \in 1..MergedPeaks(size) + 1 |-> new[j - 1]]

-----------------------------------------------------------------------------
(* Paths.                                                                   *)

\* The mountain that contains pos, if pos is before the end of the last one.
FindContainingPeak(pos, pks) ==
    CHOOSE i \in DOMAIN pks :
        pks[i] - MountainSize(HeightAt(pks[i])) < pos /\ pos <= pks[i]

\* Steps from target up to the root of its mountain, bottom first.  The way down is
\* the current root after so many steps; it ends at the target or at a leaf.
LocatePath(root, height, target) ==
    LET down[k \in 0..height] ==
            IF k = 0 THEN root
            ELSE LET leftChild == down[k - 1] - Power[height - k + 1]
                 IN  IF target <= leftChild THEN leftChild ELSE down[k - 1] - 1
        steps == CHOOSE n \in 0..height :
                    /\ n = height \/ down[n] = target
                    /\ \A k \in 0..n - 1 : down[k] # target
        stepUp(k) ==
            LET parent == down[k - 1]
                leftChild == parent - Power[height - k + 1]
            IN  IF target <= leftChild
                THEN [sibling |-> parent - 1, targetIsRight |-> FALSE, parent |-> parent]
                ELSE [sibling |-> leftChild, targetIsRight |-> TRUE, parent |-> parent]
    IN  [i \in 1..steps |-> stepUp(steps + 1 - i)]

PathTo(pos, pks) ==
    LET peak == pks[FindContainingPeak(pos, pks)] IN LocatePath(peak, HeightAt(peak), pos)

\* Mutant: the side of the sibling is ignored.
Climb_AlwaysLeft(start, path, siblings) ==
    LET at[i \in 0..Len(path)] ==
            IF i = 0 THEN start ELSE InteriorHash(at[i - 1], siblings[i], path[i].parent)
    IN  at[Len(path)]

\* The verifiers' fold of a path over the siblings a proof supplies.
Climb(start, path, siblings) ==
    LET at[i \in 0..Len(path)] ==
            IF i = 0 THEN start
            ELSE IF path[i].targetIsRight
                 THEN InteriorHash(siblings[i], at[i - 1], path[i].parent)
                 ELSE InteriorHash(at[i - 1], siblings[i], path[i].parent)
    IN  at[Len(path)]

Siblings(nodes, path) == [i \in DOMAIN path |-> Node(nodes, path[i].sibling)]
HashesAt(nodes, positions) == [i \in DOMAIN positions |-> Node(nodes, positions[i])]

-----------------------------------------------------------------------------
(* Inclusion proofs.                                                        *)

InclusionProof(nodes, leafIndex, size) ==
    LET pks == Peaks(size)
        pos == LeafIndexToPos(leafIndex)
        at == FindContainingPeak(pos, pks)
    IN  [size |-> size, leafIndex |-> leafIndex,
         witness |-> Siblings(nodes, PathTo(pos, pks)),
         peaksLeft |-> HashesAt(nodes, SubSeq(pks, 1, at - 1)),
         peaksRight |-> HashesAt(nodes, SubSeq(pks, at + 1, Len(pks)))]

VerifyInclusion(root, size, leafIndex, body, proof) ==
    /\ proof.size = size /\ proof.leafIndex = leafIndex
    /\ ValidSize(size)
    /\ leafIndex < LeafCount(size)
    /\ LET pks == Peaks(size)
           pos == LeafIndexToPos(leafIndex)
           at == FindContainingPeak(pos, pks)
           path == PathTo(pos, pks)
       IN  /\ Len(proof.witness) = Len(path)
           /\ Len(proof.peaksLeft) = at - 1
           /\ Len(proof.peaksRight) = Len(pks) - at
           /\ RootFromPeaks(proof.peaksLeft \o <<Climb(LeafHash(body), path, proof.witness)>>
                                \o proof.peaksRight) = root

-----------------------------------------------------------------------------
(* Consistency proofs.                                                      *)

ConsistencyProof(nodes, sizeA, sizeB) ==
    LET old == Peaks(sizeA)
        new == Peaks(sizeB)
    IN  [sizeA |-> sizeA, sizeB |-> sizeB,
         oldPeaks |-> HashesAt(nodes, old),
         witness |-> [i \in DOMAIN old |-> Siblings(nodes, PathTo(old[i], new))],
         newPeaks |-> HashesAt(nodes, new)]

\* Mutant: the old peaks are bagged, but not followed into the new tree.
VerifyConsistency_RootsOnly(rootA, sizeA, rootB, sizeB, proof) ==
    /\ proof.sizeA = sizeA /\ proof.sizeB = sizeB
    /\ sizeA <= sizeB
    /\ ValidSize(sizeA) /\ ValidSize(sizeB)
    /\ Len(proof.oldPeaks) = Len(Peaks(sizeA))
    /\ Len(proof.newPeaks) = Len(Peaks(sizeB))
    /\ RootFromPeaks(proof.oldPeaks) = rootA
    /\ RootFromPeaks(proof.newPeaks) = rootB

VerifyConsistency(rootA, sizeA, rootB, sizeB, proof) ==
    /\ proof.sizeA = sizeA /\ proof.sizeB = sizeB
    /\ sizeA <= sizeB
    /\ ValidSize(sizeA) /\ ValidSize(sizeB)
    /\ LET old == Peaks(sizeA)
           new == Peaks(sizeB)
       IN  /\ Len(proof.oldPeaks) = Len(old)
           /\ Len(proof.newPeaks) = Len(new)
           /\ Len(proof.witness) = Len(old)
           /\ RootFromPeaks(proof.oldPeaks) = rootA
           /\ RootFromPeaks(proof.newPeaks) = rootB
           /\ \A i \in DOMAIN old :
                 LET path == PathTo(old[i], new)
                 IN  /\ Len(proof.witness[i]) = Len(path)
                     /\ Climb(proof.oldPeaks[i], path, proof.witness[i])
                            = proof.newPeaks[FindContainingPeak(old[i], new)]
=============================================================================
