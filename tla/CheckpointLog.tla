---------------------------- MODULE CheckpointLog ----------------------------
(***************************************************************************)
(* CheckpointLog over files (aggregator/_mmr_log.py): the node store under *)
(* the chain of checkpoints that append_entry mints with the real peaks,   *)
(* roots and consistency proofs, and latest-checkpoint.json, which is      *)
(* truncated before it is written.  The process can fail to write either   *)
(* file and goes on, or dies at any point and is started again.            *)
(*                                                                         *)
(* One log_id and one key: the key file is written once, before the first  *)
(* append.  Entries are leaf bodies.                                       *)
(***************************************************************************)
EXTENDS NodeStore

VARIABLES
    latest,      \* _latest
    latestFile,  \* latest-checkpoint.json
    minted,      \* signed by append_entry, not yet stored
    issued       \* the checkpoint append_entry has returned last

logVars == <<vars, latest, latestFile, minted, issued>>

NoRecord == [size |-> 0, root |-> ZeroRoot, prevSize |-> 0, prevRoot |-> ZeroRoot,
             proof |-> ConsistencyProof(<<>>, 0, 0)]
TornRecord == [NoRecord EXCEPT !.root.kind = "torn"]

LogInit ==
    /\ Init
    /\ latest = NoRecord /\ latestFile = NoRecord
    /\ minted = NoRecord
    /\ issued = NoRecord

\* The checkpoint over a store, extending prev; the first has no proof.
Mint(store, prev) ==
    [size |-> Len(store), root |-> RootAt(store, Len(store)),
     prevSize |-> prev.size, prevRoot |-> prev.root,
     proof |-> ConsistencyProof(store, prev.size, IF prev = NoRecord THEN 0 ELSE Len(store))]

\* append_entry up to the signature.
Fold(body) ==
    /\ minted = NoRecord
    /\ AppendLeaf(body)
    /\ minted' = Mint(nodes', latest)
    /\ UNCHANGED <<latest, latestFile, issued>>

FoldFails(body) ==
    /\ minted = NoRecord
    /\ AppendFails(body)
    /\ UNCHANGED <<latest, latestFile, minted, issued>>

FoldRefused ==
    /\ minted = NoRecord
    /\ AppendRefused
    /\ UNCHANGED <<latest, latestFile, minted, issued>>

\* _persist_latest, and append_entry returns.
Persist ==
    /\ minted # NoRecord
    /\ latest' = minted /\ latestFile' = minted
    /\ issued' = minted
    /\ minted' = NoRecord
    /\ UNCHANGED vars

\* OSError while latest-checkpoint.json is opened or written: the leaf stays in
\* the tree, the checkpoint is forgotten, the process goes on.
PersistFails ==
    /\ minted # NoRecord
    /\ errors < MaxErrors
    /\ errors' = errors + 1
    /\ latestFile' \in {latestFile, TornRecord}
    /\ minted' = NoRecord
    /\ UNCHANGED <<nodes, file, torn, up, crashes, latest, issued>>

\* The process dies: in append_nodes, before, in or after the write of the
\* checkpoint, or between two appends.
Die(body) ==
    /\ Crash(body)
    /\ IF minted = NoRecord THEN UNCHANGED latestFile
       ELSE /\ UNCHANGED <<file, torn>>
            /\ latestFile' \in {latestFile, TornRecord, minted}
    /\ latest' = NoRecord
    /\ minted' = NoRecord
    /\ UNCHANGED issued

\* Mutant: what does not parse is taken for a log that has no checkpoint yet.
Restart_TornIsNone ==
    /\ Reopen
    /\ latest' = IF latestFile = TornRecord THEN NoRecord ELSE latestFile
    /\ UNCHANGED <<latestFile, minted, issued>>

Restart ==
    /\ Reopen
    /\ latestFile # TornRecord
    /\ latest' = latestFile
    /\ UNCHANGED <<latestFile, minted, issued>>

\* A node file that ends within a record, or a checkpoint that does not parse.
RestartFails ==
    /\ ReopenFails \/ (~up /\ latestFile = TornRecord)
    /\ UNCHANGED logVars

LogNext ==
    \/ \E body \in Bodies : Fold(body) \/ FoldFails(body) \/ Die(body)
    \/ FoldRefused \/ Persist \/ PersistFails
    \/ Restart \/ RestartFails

LogSpec == LogInit /\ [][LogNext]_logVars

-----------------------------------------------------------------------------
LinkVerifies(cp) ==
    cp.prevSize > 0 => VerifyConsistency(cp.prevRoot, cp.prevSize, cp.root, cp.size, cp.proof)

\* The logs a checkpoint can stand for: those whose root it is.
LogsOf(size, root) ==
    {log \in [1..LeafCount(size) -> Bodies] : ForestRoot(log) = root}

\* A log signs one chain through every failure: each checkpoint it issues extends
\* the one issued last, or one beyond it that was stored and never returned, and
\* its proof verifies.  (A process that outlived a write error and then died has
\* records in its file that it never meant: see the next property.)
OneChainIsSigned ==
    [][issued' # issued =>
          /\ issued'.prevSize >= issued.size /\ issued'.size > issued'.prevSize
          /\ (errors = 0 \/ crashes = 0) => LinkVerifies(issued')]_logVars

\* What a link that verifies promises holds whatever got into the node file: every
\* entry that the older checkpoint covers can still be proved, at its place, under
\* the newer one.  (That what was added is the new entry and nothing else, it does
\* not promise: records of a failed write may stand before it.)
CoveredStaysProvable ==
    [][issued' # issued /\ LinkVerifies(issued') =>
          \A log \in LogsOf(issued'.prevSize, issued'.prevRoot) : \A i \in DOMAIN log :
              VerifyInclusion(issued'.root, issued'.size, i - 1, log[i],
                              InclusionProof(nodes, i - 1, issued'.size))]_logVars
=============================================================================
