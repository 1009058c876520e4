----------------------------- MODULE RegistryLog -----------------------------
(***************************************************************************)
(* What the published registry promises its readers (README, "append-only  *)
(* public log"; docs/mmr-checkpoint.md): entries are only ever added at    *)
(* the end, every batch is there once, and each added entry carries a      *)
(* checkpoint that extends the one before it by exactly that entry.        *)
(***************************************************************************)
EXTENDS CheckpointChain

VARIABLE published   \* entries a reader of the main branch sees, in order

OnlyOnce(entries) ==
    \A i, j \in DOMAIN entries :
        entries[i].id = entries[j].id => i = j

\* entries' history is that of older, with checkpointed entries added.
Extends(older, entries) ==
    /\ Len(entries) > Len(older)
    /\ \A i \in DOMAIN older : entries[i] = older[i]
    /\ \A i \in DOMAIN entries \ DOMAIN older : Chained(entries[i])

LogInit == Linked(published) /\ OnlyOnce(published)

Publish ==
    /\ Extends(published, published')
    /\ Linked(published')
    /\ OnlyOnce(published')

LogSpec == LogInit /\ [][Publish]_published
=============================================================================
