------------------------------ MODULE NodeStore ------------------------------
(***************************************************************************)
(* The file-backed node store (FileNodeStore in aggregator/_mmr_log.py)    *)
(* under add_leaf: an array in memory, a flat file of 32-byte records, and *)
(* a process that can fail to write some of the records or die while       *)
(* writing them.                                                           *)
(*                                                                         *)
(* A write that stops inside a record leaves the file at a length that is  *)
(* no multiple of 32, whatever is appended later ("torn"): two such writes *)
(* are taken never to add up to a whole record.                            *)
(***************************************************************************)
EXTENDS MMR, Selection, SequencesExt

CONSTANTS
    Bodies,     \* leaf bodies
    MaxLeaves,  \* bound: leaves in the store
    MaxErrors,  \* bound: write errors
    MaxCrashes  \* bound: deaths of the process

ASSUME StoreBounds == MaxLeaves \in Nat /\ MaxErrors \in Nat /\ MaxCrashes \in Nat

VARIABLES
    nodes,   \* _nodes
    file,    \* whole records in mmr-nodes.bin
    torn,    \* and part of one
    up,      \* the process runs
    errors, crashes

vars == <<nodes, file, torn, up, errors, crashes>>

Init ==
    /\ nodes = <<>> /\ file = <<>>
    /\ torn = FALSE
    /\ up = TRUE
    /\ errors = 0 /\ crashes = 0

\* peaks() of the current size does not raise, and the bound is not reached.
Appendable == up /\ ValidSize(Len(nodes)) /\ LeafCount(Len(nodes)) < MaxLeaves

AppendLeaf(body) ==
    /\ Appendable
    /\ LET new == NewNodes(nodes, LeafHash(body))
       IN  /\ nodes' = nodes \o new
           /\ file' = file \o new
    /\ UNCHANGED <<torn, up, errors, crashes>>

AppendRefused ==
    /\ up
    /\ ~Appendable
    /\ UNCHANGED vars

\* The first records, and part of the next one, of an append that stops.
PartlyWritten(body) ==
    LET new == NewNodes(nodes, LeafHash(body))
    IN  \E k \in 0..Len(new) :
            /\ file' = file \o SubSeq(new, 1, k)
            /\ torn' \in IF k < Len(new) THEN {torn, TRUE} ELSE {torn}

\* OSError in append_nodes: memory is not extended, the process goes on.
AppendFails(body) ==
    /\ Appendable
    /\ errors < MaxErrors
    /\ errors' = errors + 1
    /\ PartlyWritten(body)
    /\ UNCHANGED <<nodes, up, crashes>>

\* The process dies, outside an append or within one.
Crash(body) ==
    /\ up
    /\ crashes < MaxCrashes
    /\ crashes' = crashes + 1
    /\ up' = FALSE
    /\ nodes' = <<>>
    /\ \/ UNCHANGED <<file, torn>>
       \/ Appendable /\ PartlyWritten(body)
    /\ UNCHANGED errors

Reopen ==
    /\ ~up
    /\ ~torn
    /\ up' = TRUE
    /\ nodes' = file
    /\ UNCHANGED <<file, torn, errors, crashes>>

\* IntegrityError: "node store file is corrupt or truncated".
ReopenFails ==
    /\ ~up
    /\ torn
    /\ UNCHANGED vars

-----------------------------------------------------------------------------
(* The mountain range as it is drawn: the complete subtrees over n leaves,  *)
(* the i-th of height h over the leaves i * 2^h .. (i + 1) * 2^h - 1, all   *)
(* counted from 0.                                                          *)

Places(n) == {p \in (0..n) \X (0..n) : (p[2] + 1) * Power[p[1]] <= n}

\* Halving n counts the subtrees of the next height.
SizeOf[n \in Nat] == IF n = 0 THEN 0 ELSE n + SizeOf[n \div 2]

\* A node is written after all nodes over fewer leaves than it has written before
\* it, and after the nodes below it.
PositionOf(h, i) == SizeOf[(i + 1) * Power[h] - 1] + h

Digests(bodies) ==
    LET digest[p \in Places(Len(bodies))] ==
            IF p[1] = 0 THEN LeafHash(bodies[p[2] + 1])
            ELSE InteriorHash(digest[<<p[1] - 1, 2 * p[2]>>],
                              digest[<<p[1] - 1, 2 * p[2] + 1>>], PositionOf(p[1], p[2]))
    IN  digest

\* The place of the node at pos, written with leaf number m.
PlaceAt(pos) ==
    LET m == CHOOSE m \in 0..pos : SizeOf[m] <= pos /\ pos < SizeOf[m + 1]
        height == pos - SizeOf[m]
    IN  <<height, (m + 1) \div Power[height] - 1>>

Forest(bodies) ==
    LET digests == Digests(bodies)
    IN  [k \in 1..SizeOf[Len(bodies)] |-> digests[PlaceAt(k - 1)]]

ForestPeaks(bodies) == HashesAt(Forest(bodies), Peaks(SizeOf[Len(bodies)]))
ForestRoot(bodies) == RootFromPeaks(ForestPeaks(bodies))

\* The mountains of n leaves are the binary digits of n: each is the last subtree
\* of its height.
Mountains(n) == {p \in Places(n) : (n \div Power[p[1]]) % 2 = 1 /\ p[2] + 1 = n \div Power[p[1]]}

\* The leaves in the store, in order.
Leaves == LET stored == Pick(nodes, {k \in DOMAIN nodes : nodes[k].kind = "leaf"})
          IN  [i \in DOMAIN stored |-> stored[i].at]

-----------------------------------------------------------------------------
\* No history of appends and deaths, wherever in an append the process died,
\* leaves a store that takes another leaf and is not the mountain range of its
\* leaves: half an append is noticed from the number of nodes alone.  The one
\* exception is a process that outlived a write error and then died.
Whole == up /\ ValidSize(Len(nodes)) /\ (errors = 0 \/ crashes = 0)
StoreIsForest == Whole => nodes = Forest(Leaves)

\* What follows depends on the nodes alone, and by StoreIsForest errors and deaths
\* lead to no others.
Undisturbed == up /\ errors = 0 /\ crashes = 0

\* The position arithmetic, which sees no tree, agrees with the tree: sizes,
\* heights, leaf positions and peaks.
PositionsAgree ==
    Undisturbed =>
        LET n == Len(Leaves)
            pks == Peaks(Len(nodes))
        IN  /\ Len(nodes) = NodeCount(n) /\ LeafCount(Len(nodes)) = n
            /\ \A size \in 0..Len(nodes) :
                  ValidSize(size) <=> \E k \in 0..n : size = SizeOf[k]
            /\ \A p \in Places(n) : HeightAt(PositionOf(p[1], p[2])) = p[1]
            /\ \A i \in 0..n - 1 :
                  /\ Node(nodes, LeafIndexToPos(i)) = LeafHash(Leaves[i + 1])
                  /\ PosToLeafIndex(LeafIndexToPos(i)) = i
            /\ ToSet(pks) = {PositionOf(p[1], p[2]) : p \in Mountains(n)}
            /\ \A i \in 2..Len(pks) : pks[i - 1] < pks[i]

\* The inclusion proof made for one leaf verifies for that leaf and its body
\* and for no other index or body.
InclusionIsExact ==
    Undisturbed =>
        LET size == Len(nodes)
            root == RootAt(nodes, size)
        IN  \A i, j \in 0..Len(Leaves) - 1 : \A body \in Bodies :
                VerifyInclusion(root, size, i, body, InclusionProof(nodes, j, size))
                    <=> i = j /\ body = Leaves[i + 1]

\* Of all the histories an old root can stand for, exactly the prefixes of the
\* store's leaves are proved consistent with it.  The two roots fix both peak
\* lists of a proof that could verify; its witness is the store's.
ConsistencyIsExact ==
    Undisturbed =>
        LET size == Len(nodes)
            root == RootAt(nodes, size)
        IN  \A old \in BoundedSeq(Bodies, Len(Leaves)) :
                LET oldSize == SizeOf[Len(old)]
                    proof == [ConsistencyProof(nodes, oldSize, size) EXCEPT
                                 !.oldPeaks = ForestPeaks(old)]
                IN  VerifyConsistency(ForestRoot(old), oldSize, root, size, proof)
                        <=> IsPrefix(old, Leaves)
=============================================================================
