----------------------------- MODULE Aggregator ------------------------------
(***************************************************************************)
(* aggregator/_core.py and the answers of aggregator/server.py: handler    *)
(* threads queue claims and wait on a condition variable; one flush thread *)
(* takes the queue, anchors it group by group and reports back; the        *)
(* process can die and be started again over the same files.               *)
(*                                                                         *)
(* A job is one claim of one call of submit() and stands for its uuid.  An *)
(* entry's batch is the sequence of its jobs, so two flushes never build   *)
(* the same leaf: in the program the flush's timestamp sees to that.  All  *)
(* of it happens on one day, the case in which proof files can meet.       *)
(* Appending to the node store and to a day file either happens or does    *)
(* not; latest-checkpoint.json is truncated first and can be left torn.    *)
(* git commits (off by default) change nothing the process reads.          *)
(***************************************************************************)
EXTENDS CheckpointChain

CONSTANTS
    Calls,         \* calls of submit(), each by a handler thread of its own
    Claims,        \* claims as submitted: the bytes and their construction
    ClaimsOf,      \* call -> sequence of the claims it submits
    GroupOf,       \* claim -> (producer, canonicalization_id, leaf_subject)
    ContentOf,     \* claim -> what it parses to
    KindOf,        \* claim -> what becomes of it, see Kinds
    MaxBatchSize,  \* --max-batch, 0 = no early flush
    MaxErrors,     \* bound: write errors
    MaxCrashes     \* bound: deaths of the process

\* valid: verifies under its producer's key; bad_signature: does not;
\* bad_producer: 'producer' is not a string; bad_profile: can never be anchored.
Kinds == {"valid", "bad_signature", "bad_producer", "bad_profile"}

ASSUME CallsAssumption == ClaimsOf \in [Calls -> Seq(Claims) \ {<<>>}]
ASSUME KindAssumption == KindOf \in [Claims -> Kinds]
ASSUME BoundAssumption == MaxBatchSize \in Nat /\ MaxErrors \in Nat /\ MaxCrashes \in Nat

VARIABLES
    \* handler threads
    status,      \* what has become of each call, its HTTP answer at the end
    answer,      \* results the call returned, in claim order
    \* under _cond
    pending,     \* queued jobs
    completed,   \* result of each job, NoResult if it has none
    proofIndex,  \* results GET /proof can find, by batch_id and leaf_index
    \* the flush thread
    flusher,     \* where it is
    notified,    \* it waits and has been notified
    batch,       \* jobs taken off the queue
    todo,        \* those whose group is still to come
    group,       \* jobs being anchored
    written,     \* number of them whose proof is written
    results,     \* completed, of this flush
    \* the checkpoint log and the files
    latest,      \* the log's latest checkpoint
    nodes,       \* mmr-nodes.bin, which memory mirrors
    latestFile,  \* latest-checkpoint.json
    registry,    \* published entries
    proofs,      \* result written in each proof file, by batch_id and claim
    \* the environment
    up, errors, crashes

handlers == <<status, answer>>
shared == <<pending, completed, proofIndex>>
flush == <<batch, todo, group, written, results>>
disk == <<nodes, latestFile, registry, proofs>>
env == <<up, errors, crashes>>
vars == <<status, answer, pending, completed, proofIndex, flusher, notified, batch, todo,
          group, written, results, latest, nodes, latestFile, registry, proofs,
          up, errors, crashes>>

Jobs == UNION {{<<c, i>> : i \in DOMAIN ClaimsOf[c]} : c \in Calls}
Claim(job) == ClaimsOf[job[1]][job[2]]
JobsOf(c) == [i \in DOMAIN ClaimsOf[c] |-> <<c, i>>]

\* A result carries the tree its audit path was computed over.
NoResult == [ok |-> FALSE, index |-> 0, tree |-> <<>>]
Rejected == [ok |-> FALSE, index |-> 1, tree |-> <<>>]
TreeOf(jobs) == [k \in DOMAIN jobs |-> Claim(jobs[k])]
ProofFor(jobs, i) == [ok |-> TRUE, index |-> i, tree |-> TreeOf(jobs)]

PlaceOf(j, jobs) == CHOOSE i \in DOMAIN jobs : jobs[i] = j

\* _batch_id: a hash of the sorted parsed claims, so of their bag.
BatchId(tree) ==
    [x \in {ContentOf[tree[i]] : i \in DOMAIN tree} |->
        Cardinality({i \in DOMAIN tree : ContentOf[tree[i]] = x})]

\* Keys of the proof index, and names of proof files.
SameIndexKey(x, y) == BatchId(x.tree) = BatchId(y.tree) /\ x.index = y.index
SameProofFile(x, y) ==
    BatchId(x.tree) = BatchId(y.tree) /\ x.tree[x.index] = y.tree[y.index]

TornFile == [leaves |-> <<>>, prev |-> <<>>, origin |-> "torn"]
Signer == "signer"

-----------------------------------------------------------------------------
\* What __init__ sets up in memory; a new process has only the files.
MemoryInit ==
    /\ pending = <<>>
    /\ completed = [j \in Jobs |-> NoResult]
    /\ proofIndex = {}
    /\ flusher = "wait"
    /\ notified = FALSE
    /\ batch = <<>> /\ todo = <<>> /\ group = <<>> /\ written = 0
    /\ results = [j \in Jobs |-> NoResult]

Init ==
    /\ MemoryInit
    /\ status = [c \in Calls |-> "new"]
    /\ answer = [c \in Calls |-> <<>>]
    /\ latest = NoCheckpoint
    /\ nodes = <<>>
    /\ latestFile = NoCheckpoint
    /\ registry = <<>>
    /\ proofs = {}
    /\ up = TRUE /\ errors = 0 /\ crashes = 0

-----------------------------------------------------------------------------
(* Handler threads: do_POST and submit().                                   *)

\* One claim outside the profile refuses the call before anything is queued.
Refuse(c) ==
    /\ up
    /\ status[c] = "new"
    /\ \E i \in DOMAIN ClaimsOf[c] : KindOf[ClaimsOf[c][i]] = "bad_profile"
    /\ status' = [status EXCEPT ![c] = "invalid"]
    /\ UNCHANGED <<answer, shared, flusher, notified, flush, latest, disk, env>>

\* The notification of a full queue reaches the flush thread only if it waits.
Submit(c) ==
    /\ up
    /\ status[c] = "new"
    /\ \A i \in DOMAIN ClaimsOf[c] : KindOf[ClaimsOf[c][i]] # "bad_profile"
    /\ pending' = pending \o JobsOf(c)
    /\ notified' = (\/ notified
                    \/ /\ flusher = "wait"
                       /\ MaxBatchSize > 0
                       /\ Len(pending') >= MaxBatchSize)
    /\ status' = [status EXCEPT ![c] = "waiting"]
    /\ UNCHANGED <<answer, completed, proofIndex, flusher, flush, latest, disk, env>>

AllCompleted(c) == \A i \in DOMAIN ClaimsOf[c] : completed[<<c, i>>] # NoResult

\* Woken by notify_all or by its own poll: 200 with every proof, or 422.
Return(c) ==
    /\ up
    /\ status[c] = "waiting"
    /\ AllCompleted(c)
    /\ answer' = [answer EXCEPT ![c] = [i \in DOMAIN ClaimsOf[c] |-> completed[<<c, i>>]]]
    /\ status' = [status EXCEPT ![c] =
          IF \A i \in DOMAIN answer'[c] : answer'[c][i].ok THEN "proofs" ELSE "rejected"]
    /\ UNCHANGED <<shared, flusher, notified, flush, latest, disk, env>>

\* 504: the claims stay queued, or in the flush that has them.
TimeOut(c) ==
    /\ up
    /\ status[c] = "waiting"
    /\ ~AllCompleted(c)
    /\ status' = [status EXCEPT ![c] = "timeout"]
    /\ UNCHANGED <<answer, shared, flusher, notified, flush, latest, disk, env>>

-----------------------------------------------------------------------------
(* The flush thread: _flush_loop and _anchor_batch.                         *)

\* Mutant: the queue is copied but not emptied.
TakePending_KeepsQueue ==
    /\ up /\ flusher = "wait"
    /\ pending # <<>>
    /\ batch' = pending
    /\ todo' = Pick(pending, {i \in DOMAIN pending : KindOf[Claim(pending[i])] # "bad_producer"})
    /\ results' = [j \in Jobs |-> NoResult]
    /\ notified' = FALSE
    /\ flusher' = "groups"
    /\ UNCHANGED <<handlers, shared, group, written, latest, disk, env>>

\* The interval is over or the thread was notified; claims whose producer is
\* not a string are rejected one by one while grouping.
TakePending ==
    /\ up /\ flusher = "wait"
    /\ pending # <<>>
    /\ batch' = pending
    /\ pending' = <<>>
    /\ todo' = Pick(pending, {i \in DOMAIN pending : KindOf[Claim(pending[i])] # "bad_producer"})
    /\ results' = [j \in Jobs |->
          IF j \in ToSet(pending) /\ KindOf[Claim(j)] = "bad_producer"
          THEN Rejected ELSE NoResult]
    /\ notified' = FALSE
    /\ flusher' = "groups"
    /\ UNCHANGED <<handlers, completed, proofIndex, group, written, latest, disk, env>>

\* Nothing is pending: back to waiting.
WakeIdle ==
    /\ up /\ flusher = "wait"
    /\ pending = <<>>
    /\ notified' = FALSE
    /\ UNCHANGED <<handlers, shared, flusher, flush, latest, disk, env>>

SameGroup(j, k) == GroupOf[Claim(j)] = GroupOf[Claim(k)]
InGroup(i) == SameGroup(todo[i], Head(todo))
NextGroup == Pick(todo, {i \in DOMAIN todo : InGroup(i)})
OtherGroups == Pick(todo, {i \in DOMAIN todo : ~InGroup(i)})
Verified(jobs) == \A i \in DOMAIN jobs : KindOf[Claim(jobs[i])] = "valid"

\* The leaf of the entry being built; its tree is known before its checkpoint.
NewEntry(cp) ==
    [id |-> BatchId(TreeOf(group)), batch |-> group, ts |-> 0, cp |-> cp]

RejectGroup ==
    /\ up /\ flusher = "groups"
    /\ todo # <<>>
    /\ ~Verified(NextGroup)
    /\ todo' = OtherGroups
    /\ results' = [j \in Jobs |-> IF j \in ToSet(NextGroup) THEN Rejected ELSE results[j]]
    /\ UNCHANGED <<handlers, shared, flusher, notified, batch, group, written,
                   latest, disk, env>>

BeginGroup ==
    /\ up /\ flusher = "groups"
    /\ todo # <<>>
    /\ Verified(NextGroup)
    /\ group' = NextGroup
    /\ todo' = OtherGroups
    /\ written' = 0
    /\ flusher' = "fold"
    /\ UNCHANGED <<handlers, shared, notified, batch, results, latest, disk, env>>

\* CheckpointLog.append_entry, first half: the leaf and its parents are on disk.
FoldLeaf ==
    /\ up /\ flusher = "fold"
    /\ nodes' = Append(nodes, LeafOf(NewEntry(NoCheckpoint)))
    /\ flusher' = "persist"
    /\ UNCHANGED <<handlers, shared, notified, flush, latest, latestFile, registry,
                   proofs, env>>

\* Second half: the checkpoint over all nodes is signed and stored.
PersistLatest ==
    /\ up /\ flusher = "persist"
    /\ latest' = MintedOver(Front(nodes), latest, Last(nodes), Signer)
    /\ latestFile' = latest'
    /\ flusher' = "entry"
    /\ UNCHANGED <<handlers, shared, notified, flush, nodes, registry, proofs, env>>

WriteEntry ==
    /\ up /\ flusher = "entry"
    /\ registry' = Append(registry, NewEntry(latest))
    /\ flusher' = "proofs"
    /\ UNCHANGED <<handlers, shared, notified, flush, latest, nodes, latestFile, proofs, env>>

\* Mutant: the leaf index is the claim's place in the flush, not in its group.
WriteProof_IndexInFlush ==
    /\ up /\ flusher = "proofs"
    /\ written' = written + 1
    /\ LET proof == ProofFor(group, written')
       IN  proofs' = {p \in proofs : ~SameProofFile(p, proof)} \cup {proof}
    /\ IF written' = Len(group)
       THEN /\ results' = [j \in Jobs |->
                  IF j \in ToSet(group)
                  THEN ProofFor(group, PlaceOf(j, batch))
                  ELSE results[j]]
            /\ flusher' = "groups"
       ELSE UNCHANGED <<results, flusher>>
    /\ UNCHANGED <<handlers, shared, notified, batch, todo, group, latest, nodes,
                   latestFile, registry, env>>

\* One proof file; after the last one the group's results are recorded.
WriteProof ==
    /\ up /\ flusher = "proofs"
    /\ written' = written + 1
    /\ LET proof == ProofFor(group, written')
       IN  proofs' = {p \in proofs : ~SameProofFile(p, proof)} \cup {proof}
    /\ IF written' = Len(group)
       THEN /\ results' = [j \in Jobs |->
                  IF j \in ToSet(group)
                  THEN ProofFor(group, PlaceOf(j, group))
                  ELSE results[j]]
            /\ flusher' = "groups"
       ELSE UNCHANGED <<results, flusher>>
    /\ UNCHANGED <<handlers, shared, notified, batch, todo, group, latest, nodes,
                   latestFile, registry, env>>

EndFlush ==
    /\ up /\ flusher = "groups"
    /\ todo = <<>>
    /\ flusher' = "report"
    /\ UNCHANGED <<handlers, shared, notified, flush, latest, disk, env>>

\* Mutant: the exception ends the flush thread, which reports nothing.
FlushFails_EndsThread ==
    /\ up /\ flusher \in {"fold", "persist", "entry", "proofs"}
    /\ errors < MaxErrors
    /\ errors' = errors + 1
    /\ latestFile' = latestFile
    /\ flusher' = "ended"
    /\ UNCHANGED <<handlers, shared, notified, flush, latest, nodes, registry, proofs,
                   up, crashes>>

\* Mutant: only the jobs of the group that failed are reported.
FlushFails_ReportsGroup ==
    /\ up /\ flusher \in {"fold", "persist", "entry", "proofs"}
    /\ errors < MaxErrors
    /\ errors' = errors + 1
    /\ latestFile' = latestFile
    /\ results' = [j \in Jobs |-> IF j \in ToSet(group) THEN Rejected ELSE results[j]]
    /\ flusher' = "report"
    /\ UNCHANGED <<handlers, shared, notified, batch, todo, group, written, latest, nodes,
                   registry, proofs, up, crashes>>

\* OSError in any write: every job of the flush is reported rejected, those of
\* the groups already anchored too.
FlushFails ==
    /\ up /\ flusher \in {"fold", "persist", "entry", "proofs"}
    /\ errors < MaxErrors
    /\ errors' = errors + 1
    /\ latestFile' \in IF flusher = "persist" THEN {latestFile, TornFile} ELSE {latestFile}
    /\ results' = [j \in Jobs |-> IF j \in ToSet(batch) THEN Rejected ELSE NoResult]
    /\ flusher' = "report"
    /\ UNCHANGED <<handlers, shared, notified, batch, todo, group, written, latest, nodes,
                   registry, proofs, up, crashes>>

\* completed and proof_index are updated and every waiter is woken.
Report ==
    /\ up /\ flusher = "report"
    /\ completed' = [j \in Jobs |-> IF results[j] # NoResult THEN results[j] ELSE completed[j]]
    /\ LET found == {results[j] : j \in {k \in Jobs : results[k].ok}}
       IN  proofIndex' = {x \in proofIndex : ~\E y \in found : SameIndexKey(x, y)} \cup found
    /\ batch' = <<>> /\ todo' = <<>> /\ group' = <<>> /\ written' = 0
    /\ results' = [j \in Jobs |-> NoResult]
    /\ flusher' = "wait"
    /\ UNCHANGED <<handlers, pending, notified, latest, disk, env>>

FlushStep ==
    \/ TakePending \/ WakeIdle
    \/ RejectGroup \/ BeginGroup
    \/ FoldLeaf \/ PersistLatest \/ WriteEntry \/ WriteProof
    \/ EndFlush \/ FlushFails \/ Report

-----------------------------------------------------------------------------
(* The process dies, also by Ctrl-C: the flush thread is a daemon.          *)

Crash ==
    /\ up
    /\ crashes < MaxCrashes
    /\ crashes' = crashes + 1
    /\ up' = FALSE
    /\ status' = [c \in Calls |-> IF status[c] = "waiting" THEN "lost" ELSE status[c]]
    /\ latestFile' \in IF flusher = "persist" THEN {latestFile, TornFile} ELSE {latestFile}
    /\ pending' = <<>> /\ proofIndex' = {}
    /\ completed' = [j \in Jobs |-> NoResult] /\ results' = completed'
    /\ flusher' = "wait" /\ notified' = FALSE
    /\ batch' = <<>> /\ todo' = <<>> /\ group' = <<>> /\ written' = 0
    /\ latest' = NoCheckpoint
    /\ UNCHANGED <<answer, nodes, registry, proofs, errors>>

\* Mutant: a new process starts with an empty node store.
Restart_NewTree ==
    /\ ~up
    /\ latestFile # TornFile
    /\ up' = TRUE
    /\ latest' = latestFile
    /\ nodes' = <<>>
    /\ UNCHANGED <<handlers, shared, flusher, notified, flush, latestFile, registry, proofs,
                   errors, crashes>>

\* CheckpointLog.__init__ reads both files back; the key is the same file too.
Restart ==
    /\ ~up
    /\ latestFile # TornFile
    /\ up' = TRUE
    /\ latest' = latestFile
    /\ UNCHANGED <<handlers, shared, flusher, notified, flush, disk, errors, crashes>>

\* A torn latest-checkpoint.json does not parse: the process never comes up.
StartFails ==
    /\ ~up
    /\ latestFile = TornFile
    /\ UNCHANGED vars

Next ==
    \/ \E c \in Calls : Refuse(c) \/ Submit(c) \/ Return(c) \/ TimeOut(c)
    \/ FlushStep
    \/ Crash \/ Restart \/ StartFails

Spec == Init /\ [][Next]_vars

\* The flush interval ends, the flush thread runs, waiting handlers poll.
FairSpec ==
    /\ Spec
    /\ WF_vars(FlushStep)
    /\ \A c \in Calls : WF_vars(Return(c))

-----------------------------------------------------------------------------
Statuses == {"new", "invalid", "waiting", "proofs", "rejected", "timeout", "lost"}
Stages == {"wait", "groups", "fold", "persist", "entry", "proofs", "report"}
Result == [ok : BOOLEAN, index : Nat, tree : Seq(Claims)]
Leaf == [batch : Seq(Jobs), ts : Nat]
Checkpoint == [leaves : Seq(Leaf), prev : Seq(Leaf), origin : {"none", "torn", Signer}]
Ids == {BatchId(tree) : tree \in Seq(Claims)}
RegistryEntry == [id : Ids, batch : Seq(Jobs), ts : Nat, cp : Checkpoint]

TypeOK ==
    /\ status \in [Calls -> Statuses]
    /\ answer \in [Calls -> Seq(Result)]
    /\ pending \in Seq(Jobs)
    /\ completed \in [Jobs -> Result]
    /\ proofIndex \subseteq Result
    /\ flusher \in Stages
    /\ notified \in BOOLEAN
    /\ batch \in Seq(Jobs) /\ todo \in Seq(Jobs) /\ group \in Seq(Jobs)
    /\ written \in Nat
    /\ results \in [Jobs -> Result]
    /\ latest \in Checkpoint /\ latestFile \in Checkpoint
    /\ nodes \in Seq(Leaf)
    /\ registry \in Seq(RegistryEntry)
    /\ proofs \subseteq Result
    /\ up \in BOOLEAN /\ errors \in 0..MaxErrors /\ crashes \in 0..MaxCrashes

\* The places at which a job stands in a sequence of jobs, and in the registry.
PlacesIn(j, jobs) == {i \in DOMAIN jobs : jobs[i] = j}
LeavesFor(j) == UNION {{i} \X PlacesIn(j, registry[i].batch) : i \in DOMAIN registry}

\* Calls whose jobs the process that runs now has accepted.
QueuedHere(c) ==
    \/ up /\ status[c] = "waiting"
    \/ crashes = 0 /\ status[c] \notin {"new", "invalid"}

\* The queue is swapped under the lock and anchored outside it: a job that was
\* queued in this process is still queued, in the flush under way, or has its
\* result, one of the three, its caller gone or not; and it is a leaf of at most one entry, once.
JobHeldOnce ==
    LET times(j, jobs) == Cardinality(PlacesIn(j, jobs))
        decided(j) == IF completed[j] # NoResult THEN 1 ELSE 0
    IN  \A j \in Jobs :
            /\ QueuedHere(j[1]) => times(j, pending) + times(j, batch) + decided(j) = 1
            /\ Cardinality(LeavesFor(j)) <= 1

\* The tree of a published entry, and a place in it.
Published(r) ==
    \E i \in DOMAIN registry :
        /\ r.tree = TreeOf(registry[i].batch)
        /\ r.index \in DOMAIN r.tree

\* A proof handed out by POST /batch, found by GET /proof or on disk is that of a
\* published entry's tree, at the claim's own place in it, in spite of failures,
\* crashes and what other calls submitted.
ProofsAreOfEntries ==
    /\ \A c \in Calls : status[c] = "proofs" => \A i \in DOMAIN ClaimsOf[c] :
          Published(answer[c][i]) /\ answer[c][i].tree[answer[c][i].index] = ClaimsOf[c][i]
    /\ \A r \in proofIndex \cup proofs : Published(r)

\* The log never equivocates: whatever failed or died in between, each published
\* checkpoint covers every leaf that an earlier one covered.
PublishedRootsNest ==
    \A i, j \in DOMAIN registry :
        i < j => /\ Len(registry[i].cp.leaves) < Len(registry[j].cp.leaves)
                 /\ IsPrefix(registry[i].cp.leaves, registry[j].cp.leaves)

\* "Fail the jobs in this batch by name instead and keep flushing": a queued
\* claim, its caller still there or not, gets a result unless the process dies.
JobsAreDecided ==
    \A j \in Jobs : (up /\ j \in ToSet(pending)) ~> (completed[j] # NoResult \/ ~up)

\* A caller that never times out is answered in the end.
CallsAreAnswered ==
    \A c \in Calls : status[c] = "waiting" ~> status[c] # "waiting"

\* "a restarted aggregator resumes the same chain rather than starting a new
\* one" (CheckpointLog): what it publishes passes the chain verifier.
ResumedChainVerifies == registry # <<>> => ChainVerified(registry)
=============================================================================
