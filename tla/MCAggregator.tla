---------------------------- MODULE MCAggregator -----------------------------
(* Instances of Aggregator for TLC. *)
EXTENDS Aggregator

\* A call with claims of two producers; one with a claim the first sends too,
\* one without a usable producer and one that does not verify; and a call that
\* is refused at once.
MCCalls == 1..3
MCClaims == {"a", "b", "c", "d", "e"}
MCClaimsOf == <<<<"a", "b">>, <<"c", "d", "a">>, <<"e">>>>
MCGroupOf == [x \in MCClaims |-> CASE x \in {"a", "e"} -> "p" [] x = "b" -> "q"
                                   [] x = "d" -> "r" [] x = "c" -> "none"]
MCContentOf == [x \in MCClaims |-> x]
MCKindOf == [x \in MCClaims |->
    CASE x \in {"a", "b"} -> "valid" [] x = "d" -> "bad_signature"
      [] x = "c" -> "bad_producer" [] x = "e" -> "bad_profile"]

\* Three calls, one of them with claims of two producers, all valid.
MCValidClaimsOf == <<<<"a", "b">>, <<"a">>, <<"b">>>>
=============================================================================
