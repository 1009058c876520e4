----------------------------- MODULE ManualAnchor ----------------------------
(***************************************************************************)
(* tools/anchor.py without --registry-dir: claim files are read in the     *)
(* order of the command line, anchored as one batch, and the entry is      *)
(* printed; a pull request puts it into a day file, beside entries of      *)
(* others.  Readers later check a retained claim file against a proof file *)
(* and the entry (tools/verify_inclusion.py, trace-verify).                *)
(***************************************************************************)
EXTENDS BatchTree, Powers

CONSTANTS
    Files,      \* claim files that can be anchored, see BatchTree
    SubjectOf,  \* content -> "envelope" or "record" (claim_leaf_subject)
    Producers,
    OwnId,      \* the id derived from the root of the batch
    Ids,        \* ids others give theirs, one of them the same
    Others,     \* files that others anchor, one to a batch
    MaxClaims,  \* bound: files on the command line
    MaxBatch,   \* bound: the largest batch that is published
    MaxLines    \* bound: lines of the day file

ASSUME FileAssumption == \A f \in Files : f.form \in STRING /\ f.stem \in STRING
ASSUME SubjectAssumption == \A f \in Files : SubjectOf[f.content] \in {"envelope", "record"}
ASSUME PublishAssumption == Others \subseteq Files /\ OwnId \in Ids
ASSUME BoundAssumption == MaxClaims \in Nat /\ MaxBatch \in Nat /\ MaxLines \in Nat

VARIABLES
    construction,  \* --canonicalization
    claims,        \* files read so far
    entry,         \* the printed entry
    proofs,        \* proof file by stem
    dayFile        \* published lines, each with the batch its root was computed over

vars == <<construction, claims, entry, proofs, dayFile>>

NoRoot == [kind |-> "none", of |-> <<>>]
NoEntry == [root |-> NoRoot, count |-> 0, canonicalization |-> Absent, subject |-> Absent]
NoProof == [index |-> -1, path |-> <<>>]
Stems == {f.stem : f \in Files}
Leaves == [i \in DOMAIN claims |-> LeafHash(ClaimBytes(claims[i], construction))]
Subjects == {SubjectOf[claims[i].content] : i \in DOMAIN claims}

Init ==
    /\ construction \in Constructions
    /\ claims = <<>>
    /\ entry = NoEntry
    /\ proofs = [s \in Stems |-> NoProof]
    /\ dayFile = <<>>

ReadClaim(f) ==
    /\ entry = NoEntry
    /\ Len(claims) < MaxClaims
    /\ claims' = Append(claims, f)
    /\ UNCHANGED <<construction, entry, proofs, dayFile>>

\* Mutant: subjects are not looked at.
Anchor_AnySubjects ==
    /\ entry = NoEntry
    /\ claims # <<>>
    /\ entry' = [root |-> Root(Leaves), count |-> Len(claims),
                 canonicalization |-> construction, subject |-> CHOOSE s \in Subjects : TRUE]
    /\ proofs' = [s \in Stems |->
          IF \E i \in DOMAIN claims : claims[i].stem = s
          THEN LET last == CHOOSE i \in DOMAIN claims :
                      /\ claims[i].stem = s
                      /\ \A j \in DOMAIN claims : claims[j].stem = s => j <= i
               IN  [index |-> last - 1, path |-> AuditPath(Leaves, last - 1)]
          ELSE proofs[s]]
    /\ UNCHANGED <<construction, claims, dayFile>>

\* The proof files are written in order, each over one of the same stem.
Anchor ==
    /\ entry = NoEntry
    /\ Cardinality(Subjects) = 1
    /\ entry' = [root |-> Root(Leaves), count |-> Len(claims),
                 canonicalization |-> construction, subject |-> CHOOSE s \in Subjects : TRUE]
    /\ proofs' = [s \in Stems |->
          IF \E i \in DOMAIN claims : claims[i].stem = s
          THEN LET last == CHOOSE i \in DOMAIN claims :
                      /\ claims[i].stem = s
                      /\ \A j \in DOMAIN claims : claims[j].stem = s => j <= i
               IN  [index |-> last - 1, path |-> AuditPath(Leaves, last - 1)]
          ELSE proofs[s]]
    /\ UNCHANGED <<construction, claims, dayFile>>

\* "a batch cannot mix envelope and record leaf subjects"
RefuseMixed ==
    /\ entry = NoEntry
    /\ Cardinality(Subjects) > 1
    /\ UNCHANGED vars

AddLine(line) ==
    /\ entry # NoEntry
    /\ Len(claims) <= MaxBatch
    /\ Len(dayFile) < MaxLines
    /\ dayFile' = Append(dayFile, line)
    /\ UNCHANGED <<construction, claims, entry, proofs>>

\* The printed entry names the producer it was told to.
Publish(p) == AddLine([entry |-> entry, producer |-> p, id |-> OwnId, batch |-> claims])

\* Somebody else's entry, under any id: ids are scoped to their producer.
OthersPublish(f, p, id) ==
    AddLine([entry |-> [root |-> Root(<<LeafHash(ClaimBytes(f, construction))>>), count |-> 1,
                        canonicalization |-> construction, subject |-> SubjectOf[f.content]],
             producer |-> p, id |-> id, batch |-> <<f>>])

Next ==
    \/ \E f \in Files : ReadClaim(f)
    \/ Anchor
    \/ RefuseMixed
    \/ \E p \in Producers : Publish(p)
    \/ \E f \in Others, p \in Producers, id \in Ids : OthersPublish(f, p, id)

Spec == Init /\ [][Next]_vars

-----------------------------------------------------------------------------
(* RFC 6962, section 2.1: a tree of n > 1 leaves splits at the largest      *)
(* power of two below n.                                                    *)

Split(n) == CHOOSE k \in {Power[h] : h \in 0..n} : k < n /\ n <= 2 * k

\* A tree, and the path in it to the leaf at index.  A span is where a subtree
\* begins and how many leaves it has.
Tree(leaves, index) ==
    LET tree[span \in Nat \X (Nat \ {0})] ==
            LET first == span[1]
                n == span[2]
                k == Split(n)
                left == tree[<<first, k>>]
                right == tree[<<first + k, n - k>>]
            IN  IF n = 1 THEN [hash |-> leaves[first + 1], path |-> <<>>]
                ELSE [hash |-> NodeHash(left.hash, right.hash),
                      path |-> IF index < first + k THEN Append(left.path, right.hash)
                               ELSE Append(right.path, left.hash)]
    IN  tree[<<0, Len(leaves)>>]

TreeHash(leaves) == Tree(leaves, 0).hash
TreePath(leaves, index) == Tree(leaves, index).path

\* An entry is printed, and nothing published yet.
Printed == entry # NoEntry /\ dayFile = <<>>

\* Level by level with promotion is "equivalent to the RFC 6962 recursive
\* construction" (build_tree).
RootIsRfc6962 == Printed => entry.root = TreeHash(Leaves)

\* The entry as it is, as one printed before subjects and constructions were
\* declared, and with a construction no anchor leaf has.
EntryVariants ==
    {entry, [entry EXCEPT !.subject = Absent], [entry EXCEPT !.canonicalization = "jcs"]}
        \cup IF construction = Vintage
             THEN {[entry EXCEPT !.subject = Absent, !.canonicalization = Absent]} ELSE {}

\* Paths a proof can hold: those of the batch, and one cut short or too long.
PathVariants ==
    LET paths == {TreePath(Leaves, i) : i \in 0..Len(claims) - 1}
    IN  paths \cup {Append(p, entry.root) : p \in paths}
              \cup {Front(p) : p \in paths \ {<<>>}}

\* The verifier sees no tree, yet it accepts a file at an index with a path exactly
\* if the leaf there is built from that file and the path is the RFC 6962 one: it
\* knows odd levels from the index and the count, subject and construction never
\* turn away what the tree includes, and no other file or path passes.
VerdictIsExact ==
    Printed =>
        \A f \in Files, i \in 0..Len(claims), p \in PathVariants, e \in EntryVariants :
            Included(f, SubjectOf[f.content], [index |-> i, path |-> p], e) <=>
                /\ i < Len(claims)
                /\ e.canonicalization # "jcs"
                /\ ClaimBytes(f, construction) = ClaimBytes(claims[i + 1], construction)
                /\ p = TreePath(Leaves, i)

\* Every claim that no later one of the same stem follows has a proof file that
\* verifies it, whatever else is in the batch.
ProofFilesVerify ==
    Printed => \A i \in DOMAIN claims :
        (\A j \in DOMAIN claims : claims[j].stem = claims[i].stem => j <= i)
            => Included(claims[i], SubjectOf[claims[i].content], proofs[claims[i].stem], entry)
=============================================================================
