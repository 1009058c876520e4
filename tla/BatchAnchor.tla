----------------------------- MODULE BatchAnchor -----------------------------
(***************************************************************************)
(* tools/batch_anchor.py: one run of the scheduled anchor tool over a      *)
(* working tree, and the tree's life across runs, failures and crashes.    *)
(*                                                                         *)
(* A claim file is its name, a natural number, so that sorted(glob(...))   *)
(* is the order on naturals; ClaimOf gives its content and ProducerOf and  *)
(* KindOf what the tool makes of that content:                             *)
(*   "valid"         verifies against its producer's registered key        *)
(*   "bad_signature" does not (or the producer has no registered key)      *)
(*   "bad_record"    verifies, but holds no record that can be anchored    *)
(*   "no_producer"   'producer' is missing or is not a string              *)
(*   "rejected"      parses, but can never be anchored                     *)
(*   "malformed"     skipped by the scan with a warning                    *)
(* A batch is the set of its files: the leaf order is the file order.      *)
(* A dry run changes none of this state and is not an action.              *)
(* What the process may read of registry/ is fixed for a run: an error     *)
(* that comes and goes between two reads of one run is left out.           *)
(***************************************************************************)
EXTENDS CheckpointChain

CONSTANTS
    Files,               \* names of claim files
    Claims,              \* claim contents
    ClaimOf,             \* file -> the claim it holds
    ProducerOf,          \* claim -> its producer
    KindOf,              \* claim -> how the tool treats it (above)
    Keys,                \* checkpoint signing identities
    NoKey,               \* TRACE_CHECKPOINT_SIGNING_KEY is unset
    MaxBatch,            \* --max-batch, 0 = unlimited
    RequireCheckpoints,  \* --require-checkpoints
    Times,               \* dates of anchoring timestamps
    MaxFaults            \* bound: write errors, crashes, changes of key and access

Kinds == {"valid", "bad_signature", "bad_record", "no_producer", "rejected", "malformed"}

ASSUME FilesAssumption == Files \subseteq Nat /\ IsFiniteSet(Files)
ASSUME ClaimAssumption == ClaimOf \in [Files -> Claims] /\ KindOf \in [Claims -> Kinds]
ASSUME KeyAssumption == NoKey \notin Keys
ASSUME BoundAssumption ==
    /\ MaxBatch \in Nat
    /\ Times \subseteq Nat
    /\ MaxFaults \in Nat
    /\ RequireCheckpoints \in BOOLEAN

VARIABLES
    \* the working tree
    incoming,   \* files in staging/incoming
    processed,  \* [id, file] for each file in staging/processed/<batch_id>
    proofs,     \* [day, id, file, tree] for each proofs/<date>/<batch_id>/<stem>
    registry,   \* entries, day file by day file, line by line
    \* the environment of the next run
    key,        \* TRACE_CHECKPOINT_SIGNING_KEY
    ts,         \* date of the run's timestamp: a clock, so it never goes back
    faults,     \* faults so far
    unread,     \* dates whose day file the process may not read
    \* history
    missed,     \* batch_ids a run anchored although a file in unread held them
    \* the run
    pc,         \* where main() is
    todo,       \* scanned files whose group is still to come
    batch,      \* files of the group being anchored
    left,       \* files of the group still to write a proof for, or to move
    signer,     \* key of the open checkpoint log, NoKey without one
    log,        \* [leaves, latest] of the open checkpoint log
    failed,     \* failures > 0
    anchored,   \* some group of this run has status "anchored"
    exit        \* how the last run ended

tree == <<incoming, processed, proofs, registry>>
env == <<key, ts, faults, unread, missed>>
run == <<pc, todo, batch, left, signer, log, failed, anchored, exit>>
vars == <<incoming, processed, proofs, registry, key, ts, faults, unread, missed,
          pc, todo, batch, left, signer, log, failed, anchored, exit>>

Kind(f) == KindOf[ClaimOf[f]]
Producer(f) == IF Kind(f) = "no_producer" THEN "__unknown__" ELSE ProducerOf[ClaimOf[f]]

\* batch_id_for: a hash of the sorted claims, so of the bag of claims.
BatchId(files) ==
    [c \in {ClaimOf[f] : f \in files} |-> Cardinality({f \in files : ClaimOf[f] = c})]

\* Mutant: looks for the batch_id in staging/processed, not in the registry.
PublishedIds_Processed == {p.id : p \in processed}

IdsDated(dates) == {registry[i].id : i \in {k \in DOMAIN registry : registry[k].ts \in dates}}

\* is_already_anchored reads the day files, and passes over one it cannot read.
PublishedIds == IdsDated(Nat \ unread)

\* scan_staging_with_rejections
Records(files) == {f \in files : Kind(f) \notin {"rejected", "malformed"}}
Rejections(files) == {f \in files : Kind(f) = "rejected"}

\* group_by_producer: each group is cut to its first MaxBatch files by name.
Truncated(records) ==
    {f \in records :
        \/ MaxBatch = 0
        \/ Cardinality({g \in records : Producer(g) = Producer(f) /\ g <= f}) <= MaxBatch}

\* Groups are taken in the order in which a scan by name first meets them.
First(files) == CHOOSE f \in files : \A g \in files : f <= g
NextGroup == {f \in todo : Producer(f) = Producer(First(todo))}

\* main() rejects the sentinel producers and verify_group rejects the group
\* with one claim that does not verify.
Acceptable(files) == \A f \in files : Kind(f) \in {"valid", "bad_record"}

\* _scheduled_leaf_hash returns for each claim, rather than raise.
HasLeaves(files) == \A f \in files : Kind(f) # "bad_record"

Entry(files, time, cp) ==
    [id |-> BatchId(files), batch |-> files, ts |-> time, cp |-> cp]

\* An entry published before checkpoints existed (registry/2026/06/12.ndjson).
LegacyEntry == Entry({}, 0, NoCheckpoint)

-----------------------------------------------------------------------------
TreeInit ==
    /\ incoming = {}
    /\ processed = {}
    /\ proofs = {}
    /\ registry \in {<<>>, <<LegacyEntry>>}

RunInit ==
    /\ pc = "idle"
    /\ todo = {}
    /\ batch = {}
    /\ left = {}
    /\ signer = NoKey
    /\ log = [leaves |-> <<>>, latest |-> NoCheckpoint]
    /\ failed = FALSE
    /\ anchored = FALSE
    /\ exit = "none"

EnvInit ==
    /\ key \in Keys \cup {NoKey}
    /\ ts = 0
    /\ faults = 0
    /\ unread = {}
    /\ missed = {}

Init == TreeInit /\ EnvInit /\ RunInit

-----------------------------------------------------------------------------
\* The process ends: what it held in memory is gone, the tree stays.
Ends(status) ==
    /\ pc' = "idle"
    /\ exit' = status
    /\ todo' = {} /\ batch' = {} /\ left' = {}
    /\ signer' = NoKey
    /\ log' = [leaves |-> <<>>, latest |-> NoCheckpoint]
    /\ UNCHANGED <<tree, env>>

\* main(): scan and group.  Intake rejections already count as failures.
StartRun ==
    /\ pc = "idle"
    /\ Records(incoming) \cup Rejections(incoming) # {}
    /\ ts' \in {t \in Times : t >= ts}
    /\ todo' = Truncated(Records(incoming))
    /\ failed' = (Rejections(incoming) # {})
    /\ anchored' = FALSE
    /\ exit' = "none"
    /\ pc' = "open"
    /\ UNCHANGED <<tree, key, faults, unread, missed, batch, left, signer, log>>

NothingPending ==
    /\ pc = "idle"
    /\ Records(incoming) \cup Rejections(incoming) = {}
    /\ exit' = "ok"
    /\ failed' = FALSE
    /\ anchored' = FALSE
    /\ UNCHANGED <<tree, env, pc, todo, batch, left, signer, log>>

\* open_checkpoint_log with a key that resumes the published chain.
OpenLog ==
    /\ pc = "open"
    /\ key # NoKey
    /\ unread = {}
    /\ CanResume(registry, key)
    /\ signer' = key
    /\ log' = [leaves |-> LeavesOf(registry), latest |-> LastCheckpoint(registry)]
    /\ pc' = "next"
    /\ UNCHANGED <<tree, env, todo, batch, left, failed, anchored, exit>>

\* load_published_entries, replay_from_entries or the key check raises; nothing
\* catches it.
OpenRaises ==
    /\ pc = "open"
    /\ key # NoKey
    /\ unread # {} \/ ~CanResume(registry, key)
    /\ Ends("fail")
    /\ UNCHANGED <<failed, anchored>>

\* Mutant: --require-checkpoints is not looked at.
OpenWithoutKey_NotRequired ==
    /\ pc = "open"
    /\ key = NoKey
    /\ pc' = "next"
    /\ UNCHANGED <<tree, env, todo, batch, left, signer, log, failed, anchored, exit>>

\* No key: give up under --require-checkpoints, else anchor without a chain.
OpenWithoutKey ==
    /\ pc = "open"
    /\ key = NoKey
    /\ \/ /\ RequireCheckpoints
          /\ Ends("fail")
       \/ /\ ~RequireCheckpoints
          /\ pc' = "next"
          /\ UNCHANGED <<tree, env, todo, batch, left, signer, log, exit>>
    /\ UNCHANGED <<failed, anchored>>

RejectGroup ==
    /\ pc = "next"
    /\ todo # {}
    /\ ~Acceptable(NextGroup)
    /\ todo' = todo \ NextGroup
    /\ failed' = TRUE
    /\ UNCHANGED <<tree, env, pc, batch, left, signer, log, anchored, exit>>

\* is_already_anchored: the files stay in staging/incoming.
SkipGroup ==
    /\ pc = "next"
    /\ todo # {}
    /\ Acceptable(NextGroup)
    /\ BatchId(NextGroup) \in PublishedIds
    /\ todo' = todo \ NextGroup
    /\ UNCHANGED <<tree, env, pc, batch, left, signer, log, failed, anchored, exit>>

\* Mutant: the leaves are hashed outside the try, so the error ends the run.
GroupRefused_AbortsRun ==
    /\ pc = "next"
    /\ todo # {}
    /\ Acceptable(NextGroup)
    /\ BatchId(NextGroup) \notin PublishedIds
    /\ ~HasLeaves(NextGroup)
    /\ Ends("fail")
    /\ failed' = TRUE
    /\ UNCHANGED anchored

\* anchor_group raises before append_entry: main() records the group as "failed"
\* and goes on, and the next run finds the same files and fails the same way.
GroupRefused ==
    /\ pc = "next"
    /\ todo # {}
    /\ Acceptable(NextGroup)
    /\ BatchId(NextGroup) \notin PublishedIds
    /\ ~HasLeaves(NextGroup)
    /\ todo' = todo \ NextGroup
    /\ failed' = TRUE
    /\ UNCHANGED <<tree, env, pc, batch, left, signer, log, anchored, exit>>

\* anchor_group up to append_entry, which advances the log in memory before
\* anything of the batch is written.
BeginGroup ==
    /\ pc = "next"
    /\ todo # {}
    /\ Acceptable(NextGroup)
    /\ BatchId(NextGroup) \notin PublishedIds
    /\ HasLeaves(NextGroup)
    /\ missed' = missed \cup ({BatchId(NextGroup)} \cap IdsDated(unread))
    /\ todo' = todo \ NextGroup
    /\ batch' = NextGroup
    /\ left' = NextGroup
    /\ log' = IF signer = NoKey
              THEN log
              ELSE LET leaf == LeafOf(Entry(NextGroup, ts, NoCheckpoint))
                   IN  [leaves |-> Append(log.leaves, leaf),
                        latest |-> MintedOver(log.leaves, log.latest, leaf, signer)]
    /\ pc' = "proofs"
    /\ UNCHANGED <<tree, key, ts, faults, unread, signer, failed, anchored, exit>>

\* One proof file; one left there by an earlier attempt of the day is replaced.
WriteProof ==
    /\ pc = "proofs"
    /\ left # {}
    /\ LET f == First(left)
           id == BatchId(batch)
       IN  /\ proofs' = {p \in proofs : ~(p.day = ts /\ p.id = id /\ p.file = f)}
                            \cup {[day |-> ts, id |-> id, file |-> f, tree |-> batch]}
           /\ left' = left \ {f}
    /\ UNCHANGED <<incoming, processed, registry, env,
                   pc, todo, batch, signer, log, failed, anchored, exit>>

\* Mutant: the line is appended while proofs are still to be written.
AppendDayFile_BeforeProofs ==
    /\ pc = "proofs"
    /\ registry' = Append(registry,
                          Entry(batch, ts, IF signer = NoKey THEN NoCheckpoint
                                                             ELSE log.latest))
    /\ left' = batch
    /\ pc' = "move"
    /\ UNCHANGED <<incoming, processed, proofs, env,
                   todo, batch, signer, log, failed, anchored, exit>>

\* The day file gets its line once every proof is on disk.
AppendDayFile ==
    /\ pc = "proofs"
    /\ left = {}
    /\ registry' = Append(registry,
                          Entry(batch, ts, IF signer = NoKey THEN NoCheckpoint
                                                             ELSE log.latest))
    /\ left' = batch
    /\ pc' = "move"
    /\ UNCHANGED <<incoming, processed, proofs, env,
                   todo, batch, signer, log, failed, anchored, exit>>

\* Mutant: the batch is forgotten after its first file.
MoveFile_ForgetsBatch ==
    /\ pc = "move"
    /\ left # {}
    /\ LET f == First(left)
       IN  /\ incoming' = incoming \ {f}
           /\ processed' = processed \cup {[id |-> BatchId(batch), file |-> f]}
           /\ left' = left \ {f}
           /\ batch' = {}
           /\ pc' = IF left = {f} THEN "next" ELSE pc
           /\ anchored' = (anchored \/ left = {f})
    /\ UNCHANGED <<proofs, registry, env, todo, signer, log, failed, exit>>

\* move_to_processed, file by file; the group is "anchored" after the last.
MoveFile ==
    /\ pc = "move"
    /\ left # {}
    /\ LET f == First(left)
       IN  /\ incoming' = incoming \ {f}
           /\ processed' = processed \cup {[id |-> BatchId(batch), file |-> f]}
           /\ left' = left \ {f}
           /\ IF left = {f}
              THEN pc' = "next" /\ anchored' = TRUE /\ batch' = {}
              ELSE UNCHANGED <<pc, anchored, batch>>
    /\ UNCHANGED <<proofs, registry, env, todo, signer, log, failed, exit>>

\* Mutant: anchor_group swallows the error, so the files are moved all the same.
GroupFails_StillMoves ==
    /\ pc = "proofs"
    /\ faults < MaxFaults
    /\ faults' = faults + 1
    /\ failed' = TRUE
    /\ pc' = "move"
    /\ left' = batch
    /\ UNCHANGED <<tree, key, ts, unread, missed, todo, batch, signer, log, anchored, exit>>

\* OSError in a proof, day-file or move step: main() records the group as
\* "failed" and goes on with the next one, under the same checkpoint log.
GroupFails ==
    /\ pc \in {"proofs", "move"}
    /\ faults < MaxFaults
    /\ faults' = faults + 1
    /\ failed' = TRUE
    /\ pc' = "next"
    /\ batch' = {}
    /\ left' = {}
    /\ UNCHANGED <<tree, key, ts, unread, missed, todo, signer, log, anchored, exit>>

Finish ==
    /\ pc = "next"
    /\ todo = {}
    /\ Ends(IF failed THEN "fail" ELSE "ok")
    /\ UNCHANGED <<failed, anchored>>

ToolStep ==
    \/ StartRun \/ NothingPending
    \/ OpenLog \/ OpenRaises \/ OpenWithoutKey
    \/ RejectGroup \/ SkipGroup \/ GroupRefused \/ BeginGroup
    \/ WriteProof \/ AppendDayFile \/ MoveFile
    \/ GroupFails \/ Finish

-----------------------------------------------------------------------------
(* The tool on a tree that outlives its runs: an operator's own checkout.   *)

\* A claim file arrives under a name not used before (staging/README.md).
Submit(f) ==
    /\ f \notin incoming
    /\ \A p \in processed : p.file # f
    /\ incoming' = incoming \cup {f}
    /\ UNCHANGED <<processed, proofs, registry, env, run>>

\* Another secret, or none, is configured for the next run.
ChangeKey ==
    /\ pc = "idle"
    /\ faults < MaxFaults
    /\ faults' = faults + 1
    /\ key' \in (Keys \cup {NoKey}) \ {key}
    /\ UNCHANGED <<tree, ts, unread, missed, run>>

\* Other permissions on some of the day files, or their disk goes or comes back.
ChangeAccess ==
    /\ pc = "idle"
    /\ faults < MaxFaults
    /\ faults' = faults + 1
    /\ unread' \in (SUBSET {registry[i].ts : i \in DOMAIN registry}) \ {unread}
    /\ UNCHANGED <<tree, key, ts, missed, run>>

\* The process dies between any two steps.
Crash ==
    /\ pc # "idle"
    /\ faults < MaxFaults
    /\ faults' = faults + 1
    /\ pc' = "idle"
    /\ exit' = "crash"
    /\ todo' = {} /\ batch' = {} /\ left' = {}
    /\ signer' = NoKey
    /\ log' = [leaves |-> <<>>, latest |-> NoCheckpoint]
    /\ UNCHANGED <<tree, key, ts, unread, missed, failed, anchored>>

Next ==
    \/ \E f \in Files : Submit(f)
    \/ ChangeKey
    \/ ChangeAccess
    \/ Crash
    \/ ToolStep

Spec == Init /\ [][Next]_vars

\* A cron job or an operator keeps starting runs, and a started run goes on.
FairSpec == Spec /\ WF_vars(ToolStep)

-----------------------------------------------------------------------------
Ids == {BatchId(s) : s \in SUBSET Files}
Leaf == [batch : SUBSET Files, ts : Nat]
Checkpoint == [leaves : Seq(Leaf), prev : Seq(Leaf), origin : Keys \cup {"none"}]
RegistryEntry == [id : Ids, batch : SUBSET Files, ts : Nat, cp : Checkpoint]
ProofFile == [day : Nat, id : Ids, file : Files, tree : SUBSET Files]

TypeOK ==
    /\ incoming \subseteq Files
    /\ processed \subseteq [id : Ids, file : Files]
    /\ proofs \subseteq ProofFile
    /\ registry \in Seq(RegistryEntry)
    /\ key \in Keys \cup {NoKey}
    /\ ts \in Nat
    /\ faults \in 0..MaxFaults
    /\ unread \subseteq Nat
    /\ missed \subseteq Ids
    /\ pc \in {"idle", "open", "next", "proofs", "move"}
    /\ todo \subseteq Files
    /\ batch \subseteq Files
    /\ left \subseteq batch
    /\ signer \in Keys \cup {NoKey}
    /\ log \in [leaves : Seq(Leaf), latest : Checkpoint]
    /\ failed \in BOOLEAN
    /\ anchored \in BOOLEAN
    /\ exit \in {"none", "ok", "fail", "crash"}

\* A batch is published again only by a run without a checkpoint key that could
\* not read the day file which holds it: every other rerun of the same input is
\* a no-op, whatever failed before, and the signed chain has no batch twice.
RepeatsAreMissed ==
    \A i, j \in DOMAIN registry :
        i < j /\ registry[i].id = registry[j].id
            => registry[i].id \in missed /\ ~Chained(registry[j])

\* The proof file of f under its day and batch_id is there, and for tree t.
ProofInPlace(day, id, f, t) ==
    /\ [day |-> day, id |-> id, file |-> f, tree |-> t] \in proofs
    /\ \A p \in proofs : p.day = day /\ p.id = id /\ p.file = f => p.tree = t

\* Every published entry has, for each of its claims, the proof file computed
\* over that entry's own tree: proofs are written before the line, and no later
\* attempt under the same batch_id, complete or not, replaces one, unless a run
\* anchored that batch again over a day file it could not read.
ProofsMatchEntries ==
    \A i \in DOMAIN registry : registry[i].id \notin missed =>
        \A f \in registry[i].batch :
            ProofInPlace(registry[i].ts, registry[i].id, f, registry[i].batch)

\* A file leaves staging/incoming only for a batch that the registry holds and
\* that counted it: no crash or failure loses a submitted claim.
ProcessedIsPublished ==
    \A p \in processed : \E i \in DOMAIN registry :
        p.file \in registry[i].batch /\ p.id = registry[i].id

\* Replay compares only the last checkpoint, yet a run that opens the chain has
\* found a registry whose every entry the independent verifier accepts: what an
\* earlier run broke is never signed over.
OpensOnlyVerifiedChain ==
    [][(pc = "open" /\ pc' = "next" /\ signer' # NoKey)
          => (LastCheckpoint(registry) # NoCheckpoint => ChainVerified(registry))]_vars

\* The next run can extend the published chain: it may read all of it, its key
\* signed the last checkpoint, and no failed run left one that replay refuses.
KeyFits == key # NoKey /\ unread = {} /\ CanResume(registry, key)

ClaimPublished(f) ==
    \E i \in DOMAIN registry : \E g \in registry[i].batch : ClaimOf[g] = ClaimOf[f]

\* "claims that were not yet moved to staging/processed/ appear again on the
\* next run and are re-processed", and a claim that cannot be anchored no longer
\* aborts "the run for every producer" (tools/batch_anchor.py): whatever fails
\* or crashes, and whatever other producers submit, a pending claim whose producer
\* submits none that fails verification or has no leaf is in the registry in the
\* end, as long as the right key stays configured and the chain can be resumed.
PendingIsAnchored ==
    <>[]KeyFits =>
        \A f \in Files :
            (\A g \in Files : Producer(g) = Producer(f) =>
                Kind(g) \notin {"bad_signature", "bad_record"})
              /\ Kind(f) = "valid"
            => (f \in incoming ~> ClaimPublished(f))

\* anchor_group: "the entry we publish must be the entry the checkpoint covers".
PublishedIsCovered == MatchesEntries(registry)
=============================================================================
