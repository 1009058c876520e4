------------------------------ MODULE BatchTree ------------------------------
(***************************************************************************)
(* The Merkle tree of one batch (build_tree in tools/anchor.py, which      *)
(* batch_anchor.py and the aggregator use too) and the verifier of its     *)
(* inclusion proofs (src/trace_verify/_verify.py, and its standalone copy  *)
(* tools/verify_inclusion.py).                                             *)
(*                                                                         *)
(* A digest is a term and hashing is injective; the prefix byte keeps the  *)
(* two kinds apart.  A claim file is a record of its stem, of what it      *)
(* parses to and of the form of its bytes, "sorted" being the one form     *)
(* that the sorted-key construction writes.  Indexes count from 0.         *)
(***************************************************************************)
EXTENDS Integers, Sequences, FiniteSets, SequencesExt, Selection

Constructions == {"sorted-key", "as-transmitted"}
Vintage == "sorted-key"
Absent == "absent"

\* canonical_claim_bytes
ClaimBytes(file, construction) ==
    [content |-> file.content,
     form |-> IF construction = "sorted-key" THEN "sorted" ELSE file.form]

LeafHash(bytes) == [kind |-> "leaf", of |-> <<bytes>>]
NodeHash(left, right) == [kind |-> "node", of |-> <<left, right>>]

-----------------------------------------------------------------------------
(* build_tree                                                               *)

\* Mutant: an odd trailing node is paired with itself.
NextLevel_DuplicatesLast(level) ==
    [k \in 1..(Len(level) + 1) \div 2 |->
        NodeHash(level[2 * k - 1], IF 2 * k <= Len(level) THEN level[2 * k] ELSE level[2 * k - 1])]

\* An odd trailing node is promoted unchanged.
NextLevel(level) ==
    [k \in 1..(Len(level) + 1) \div 2 |->
        IF 2 * k <= Len(level) THEN NodeHash(level[2 * k - 1], level[2 * k]) ELSE level[2 * k - 1]]

\* The levels, from the leaves to the root.
Levels(leaves) ==
    LET level[h \in 0..Len(leaves)] ==
            IF h = 0 THEN leaves ELSE NextLevel(level[h - 1])
        top == CHOOSE h \in 0..Len(leaves) :
                  /\ Len(level[h]) = 1
                  /\ h > 0 => Len(level[h - 1]) > 1
    IN  [h \in 1..top + 1 |-> level[h - 1]]

Root(leaves) == Last(Levels(leaves))[1]

\* A promoted node has no sibling and adds nothing to the path.
AuditPath(leaves, index) ==
    LET levels == Levels(leaves)
        position[h \in 1..Len(levels)] == IF h = 1 THEN index ELSE position[h - 1] \div 2
        sibling(h) == IF position[h] % 2 = 0 THEN position[h] + 1 ELSE position[h] - 1
        paired == {h \in 1..Len(levels) - 1 : sibling(h) < Len(levels[h])}
    IN  Pick([h \in paired |-> levels[h][sibling(h) + 1]], paired)

-----------------------------------------------------------------------------
(* verify_inclusion: no tree, only the bits of two numbers.                 *)

\* fn and sn, the indexes of the ancestor and of the last node of a level.
Shift(pair) == <<pair[1] \div 2, pair[2] \div 2>>

\* Levels on the right edge where the ancestor was promoted are skipped.
SkipPromoted[pair \in Nat \X Nat] ==
    IF pair[1] # 0 /\ pair[1] % 2 = 0 THEN SkipPromoted[Shift(pair)] ELSE pair

\* Mutant: promoted levels are not skipped.
Climb_NoSkip(x, sibling) ==
    LET right == x.fn % 2 = 1 \/ x.fn = x.sn
        next == Shift(<<x.fn, x.sn>>)
    IN  [r |-> IF right THEN NodeHash(sibling, x.r) ELSE NodeHash(x.r, sibling),
         fn |-> next[1], sn |-> next[2], fits |-> x.fits /\ x.sn # 0]

\* One digest of the path; it does not fit when the root is reached already.
Climb(x, sibling) ==
    LET right == x.fn % 2 = 1 \/ x.fn = x.sn
        next == Shift(IF right THEN SkipPromoted[<<x.fn, x.sn>>] ELSE <<x.fn, x.sn>>)
    IN  [r |-> IF right THEN NodeHash(sibling, x.r) ELSE NodeHash(x.r, sibling),
         fn |-> next[1], sn |-> next[2], fits |-> x.fits /\ x.sn # 0]

\* The loop over the audit path.
Replay(hash, index, path, last) ==
    LET at[k \in 0..Len(path)] ==
            IF k = 0 THEN [r |-> hash, fn |-> index, sn |-> last, fits |-> TRUE]
            ELSE Climb(at[k - 1], path[k])
    IN  at[Len(path)]

VerifyInclusion(bytes, index, path, count, root) ==
    /\ index < count
    /\ LET end == Replay(LeafHash(bytes), index, path, count - 1)
       IN  end.fits /\ end.sn = 0 /\ end.r = root

ConstructionOf(entry) ==
    IF entry.canonicalization = Absent THEN Vintage ELSE entry.canonicalization

\* Nothing about the entry raises: the subject is the declared one and the
\* construction a registered one, or the vintage one.
Resolved(subject, entry) ==
    entry.subject \in {Absent, subject} /\ ConstructionOf(entry) \in Constructions

\* The verdict on a retained file, a proof and an entry.
Included(file, subject, proof, entry) ==
    /\ Resolved(subject, entry)
    /\ VerifyInclusion(ClaimBytes(file, ConstructionOf(entry)), proof.index, proof.path,
                       entry.count, entry.root)
=============================================================================
