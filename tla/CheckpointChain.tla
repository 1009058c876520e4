--------------------------- MODULE CheckpointChain ---------------------------
(***************************************************************************)
(* Registry entries and the signed checkpoint chain they carry             *)
(* (src/trace_verify/_checkpoint.py, replay in aggregator/_mmr_log.py).    *)
(*                                                                         *)
(* A Merkle-mountain-range root of a given size stands for one sequence of *)
(* leaves: equal roots at equal sizes mean equal sequences, and a          *)
(* consistency proof verifies exactly when the older sequence is a prefix  *)
(* of the newer one.  Module MMR checks both of the real construction.  So *)
(* here the pair (mmr_size, root) IS the sequence of leaves, and           *)
(* (prev_size, prev_root) another one.  log_id and key_id are compared for *)
(* equality at the same places and are one field, "origin"; a signature    *)
(* always verifies under the key_id that made it.                          *)
(***************************************************************************)
EXTENDS Integers, Sequences, FiniteSets, SequencesExt, Selection

\* _latest = None, and the mmr_checkpoint member an entry does not have:
\* mmr_size 0 is the size of no checkpoint that was ever signed.
NoCheckpoint == [leaves |-> <<>>, prev |-> <<>>, origin |-> "none"]

Chained(entry) == entry.cp.leaves # <<>>

\* entry_leaf_digest: everything in the entry but the checkpoint itself.
LeafOf(entry) == [batch |-> entry.batch, ts |-> entry.ts]

\* The checkpointed entries.
ChainedIn(entries) == {i \in DOMAIN entries : Chained(entries[i])}

\* The MMR that folding the checkpointed entries, in order, builds.
LeavesOf(entries) ==
    LET folded == Pick(entries, ChainedIn(entries))
    IN  [k \in DOMAIN folded |-> LeafOf(folded[k])]

\* The checkpoints the entries carry, in order.
CheckpointsOf(entries) ==
    LET checkpointed == Pick(entries, ChainedIn(entries))
    IN  [k \in DOMAIN checkpointed |-> checkpointed[k].cp]

LastChained(entries) ==
    CHOOSE i \in DOMAIN entries :
        /\ Chained(entries[i])
        /\ \A j \in DOMAIN entries : Chained(entries[j]) => j <= i

LastCheckpoint(entries) ==
    IF \E i \in DOMAIN entries : Chained(entries[i])
    THEN entries[LastChained(entries)].cp
    ELSE NoCheckpoint

\* Mutant: the log resumes without replaying the published entries.
CanResume_NoReplay(entries, origin) ==
    LastCheckpoint(entries) # NoCheckpoint => LastCheckpoint(entries).origin = origin

\* replay_from_entries and the key check of CheckpointLog.__init__: the log
\* resumes only if replaying reproduces the last published checkpoint and the
\* configured key signed it.
CanResume(entries, origin) ==
    LET latest == LastCheckpoint(entries)
    IN  latest # NoCheckpoint =>
            /\ latest.leaves = LeavesOf(entries)
            /\ latest.origin = origin

\* CheckpointLog.append_entry: fold the leaf, then mint the checkpoint that
\* extends the latest one.
MintedOver(leaves, latest, leaf, origin) ==
    [leaves |-> Append(leaves, leaf), prev |-> latest.leaves, origin |-> origin]

\* verify_checkpoint_link: identity, monotone size, descent and consistency.
ValidLink(prev, curr) ==
    /\ curr.origin = prev.origin
    /\ Len(curr.leaves) > Len(prev.leaves)
    /\ curr.prev = prev.leaves
    /\ IsPrefix(prev.leaves, curr.leaves)

\* verify_checkpoint_chain: the first checkpoint may start mid-log.
ChainConsistent(checkpoints) ==
    \A i \in 2..Len(checkpoints) : ValidLink(checkpoints[i - 1], checkpoints[i])

\* verify_chain_against_entries: every checkpoint is the root of the
\* checkpointed entries up to and including its own.
MatchesEntries(entries) ==
    \A i \in DOMAIN entries :
        Chained(entries[i]) =>
            entries[i].cp.leaves = LeavesOf(SubSeq(entries, 1, i))

\* tools/verify_checkpoint_chain.py without --allow-empty.
ChainVerified(entries) ==
    /\ CheckpointsOf(entries) # <<>>
    /\ ChainConsistent(CheckpointsOf(entries))
    /\ MatchesEntries(entries)

-----------------------------------------------------------------------------
\* What the verifier's verdict amounts to, entry by entry and without a fold:
\* each checkpoint adds its own entry's leaf to the checkpoint before it, under
\* the same identity.
LinkedAt(entries, i) ==
    LET before == LastCheckpoint(SubSeq(entries, 1, i - 1))
    IN  Chained(entries[i]) =>
            /\ entries[i].cp.prev = before.leaves
            /\ entries[i].cp.leaves = Append(before.leaves, LeafOf(entries[i]))
            /\ before # NoCheckpoint => entries[i].cp.origin = before.origin

Linked(entries) == \A i \in DOMAIN entries : LinkedAt(entries, i)
=============================================================================
