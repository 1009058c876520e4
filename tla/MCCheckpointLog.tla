--------------------------- MODULE MCCheckpointLog ---------------------------
(* Instances of NodeStore and CheckpointLog for TLC. *)
EXTENDS CheckpointLog

\* Two bodies are enough for two histories to differ at any leaf.
MCBodies == {1, 2}
=============================================================================
