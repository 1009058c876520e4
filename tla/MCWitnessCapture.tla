-------------------------- MODULE MCWitnessCapture --------------------------
(* Instances of WitnessCapture for TLC. *)
EXTENDS WitnessCapture

MCCheckpoints == {"c1", "c2", "c3"}
MCAccepted == {"c1", "c2"}

\* A producer may use a batch_id twice; c3 is of another log.
MCPublished == <<[batch |-> "b1", cp |-> "c1"], [batch |-> "b2", cp |-> "c2"],
                 [batch |-> "b2", cp |-> "none"], [batch |-> "b3", cp |-> "c3"],
                 [batch |-> "b4", cp |-> "c1"], [batch |-> "b4", cp |-> "c2"]>>
=============================================================================
