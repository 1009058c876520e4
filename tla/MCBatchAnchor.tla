---------------------------- MODULE MCBatchAnchor ----------------------------
(* Instances of BatchAnchor for TLC. *)
EXTENDS BatchAnchor

MCFiles == 1..3
MCTimes == 1..2

\* Files 1 and 3 are of one producer, 2 of another.
MCClaims == {"a", "b", "c"}
MCClaimOf == <<"a", "b", "c">>
MCProducerOf == [c \in MCClaims |-> IF c = "b" THEN "q" ELSE "p"]
MCAllValid == [c \in MCClaims |-> "valid"]

\* File 1 does not verify and file 2 holds no record; their producers' groups
\* come first.  File 5 resubmits the claim of file 3 under another name.
MCMixedFiles == 1..5
MCMixedClaims == {"x", "y", "a", "b"}
MCMixedClaimOf == <<"x", "y", "a", "b", "a">>
MCMixedProducerOf == [c \in MCMixedClaims |->
    CASE c = "a" -> "p" [] c = "b" -> "q" [] c = "x" -> "r" [] c = "y" -> "s"]
MCMixedKindOf == [c \in MCMixedClaims |->
    CASE c = "x" -> "bad_signature" [] c = "y" -> "bad_record" [] OTHER -> "valid"]
=============================================================================
