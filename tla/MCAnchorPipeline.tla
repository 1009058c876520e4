--------------------------- MODULE MCAnchorPipeline --------------------------
(* Instances of AnchorPipeline for TLC. *)
EXTENDS AnchorPipeline

\* Files 1 and 2 are of two producers, file 3 resubmits the claim of file 1
\* under another name, and the claim of file 4 can never be anchored.
MCFiles == 1..4
MCTimes == 1..2
MCClaims == {"a", "b", "c"}
MCClaimOf == <<"a", "b", "a", "c">>
MCProducerOf == [c \in MCClaims |-> IF c = "a" THEN "p" ELSE "q"]
MCKindOf == [c \in MCClaims |-> IF c = "c" THEN "rejected" ELSE "valid"]
=============================================================================
