# TRACE Registry: formal model

The TRACE Registry is an append-only public log. Producers sign Trust Records
(claims); the registry groups them by producer, commits each group to a Merkle
tree, publishes the root as one line (an *entry*) of a day file
`registry/YYYY/MM/DD.ndjson`, and gives each claim an inclusion proof. Since
September 2026 an entry also carries a signed *checkpoint*: the size and root of
one Merkle mountain range (MMR) over all checkpointed entries, with a proof that
it extends the previous checkpoint.

This directory models the parts of the repository that decide what is published
and what a reader concludes from it, checks them with TLC on small instances, and
proves the main safety properties with TLAPS for all instances.

## The system

| Part | Source | State | Operations | What is hard |
|---|---|---|---|---|
| Batch anchor tool | `tools/batch_anchor.py` | working tree: `staging/incoming`, `staging/processed`, `proofs`, `registry`; per run: groups, checkpoint log | scan, group, verify, skip, anchor, move | write errors between its steps, crashes, reruns |
| Anchor pipeline | `.github/workflows/anchor-pipeline.yml` | head of `main`, checkout of the job | trigger, run tool, verify chain, commit, push | pull requests move `main` meanwhile; jobs are lost |
| Checkpoint chain | `src/trace_verify/_checkpoint.py`, `aggregator/_mmr_log.py`, `tools/verify_checkpoint_chain.py` | latest checkpoint, signer | append, replay, verify link / chain / entries | history and checkpoints can disagree |
| Merkle mountain range | `src/trace_verify/_mmr.py` | none (pure) | append, peaks, inclusion and consistency proofs | position arithmetic at every boundary |
| Checkpoint log on disk | `aggregator/_mmr_log.py` | `mmr-nodes.bin`, `latest-checkpoint.json` | append, store, reopen | torn and partial writes of two files that must agree |
| Aggregator | `aggregator/_core.py` | queue, results, proof index, flush thread | submit, flush, get_proof | condition variable, timeouts, failures inside a flush |
| HTTP server | `aggregator/server.py` | none | POST /batch, GET /proof, GET /health | which answer a partly anchored request gets |
| Batch Merkle tree | `tools/anchor.py`, `tools/verify_inclusion.py`, `src/trace_verify/_verify.py` | none (pure) | build, audit path, verify | odd levels, single leaves |
| Manual anchor tool | `tools/anchor.py` | printed entry, proof files, a branch's day file | read, anchor, checkpoint and append | races the pipeline through a pull request |
| Gates | `tools/check_append_only.py`, `tools/validate_registry.py`, `ci.yml` | CI's verdicts | compare two versions, verify the chain | a verdict is about a `main` that has moved |
| Mirrors | `tools/check_mirrors.py`, `check-mirrors.yml` | heads of `main` and of the copies | read heads one by one, compare; sync | heads are read while they move |
| Witness receipts | `tools/capture_witness_receipt.py`, `src/trace_verify/_witness.py` | evidence directory, the witness's register | submit, read back, verify, record | any request fails; old files beside new |
| `trace-verify` | `src/trace_verify/__main__.py`, `_verify.py`, `_signature.py` | none | select the entry, fetch the key, decide | entry and key are two reads |
| Producer keys | `src/trace_verify/_signature.py` | key file of each producer | replace, withdraw | changes between anchoring and reading |
| Fuzzing, load test, release | `.clusterfuzzlite`, `tools/load_test_aggregator.py`, ... | none | | not modelled: no part of the running system |

What makes each part correct: the tool never anchors a batch twice where it could
read the registry, and never loses a claim; the pipeline publishes only whole, verifiable extensions; the
gates let nothing published be edited, by whichever path it reaches `main`; the
chain binds entries and checkpoints to each other; the MMR's proofs verify
exactly for true statements; the aggregator answers every submission, with what
is really in the registry; a mirror check that passes is true; evidence and
verdicts are about what was really published and registered.

## Modules

| Module | What it models | Builds on |
|---|---|---|
| `Selection` | the elements of a sequence or function at chosen places, in order; no state | |
| `CheckpointChain` | entries, checkpoints, replay, minting, the chain verifier; no state | `Selection` |
| `BatchAnchor` | `tools/batch_anchor.py` over a working tree that outlives its runs | `CheckpointChain` |
| `RegistryLog` | the abstract promise: an append-only log of linked, distinct batches | `CheckpointChain` |
| `AnchorPipeline` | the scheduled job around the tool, `main`, pull requests with claims; implements `RegistryLog` | `BatchAnchor`, `RegistryLog` |
| `RegistryFiles` | day files, CI's gates over two versions of them, what git merges; no state | `CheckpointChain` |
| `Publication` | pull requests with entries, CI's verdicts that age, the scheduled job, `main` | `RegistryFiles` |
| `Aggregator` | `aggregator/_core.py`: handler threads, flush thread, files, restart | `CheckpointChain` |
| `Powers` | powers of two, as a recursive function; no state | |
| `MMR` | `src/trace_verify/_mmr.py`: appending, positions, proofs, verifiers; no state | `Powers` |
| `NodeStore` | the file-backed node array under partial writes; the reference tree | `MMR` |
| `CheckpointLog` | `append_entry` over the node file and `latest-checkpoint.json`, errors, deaths, restart | `NodeStore` |
| `BatchTree` | `build_tree` and `verify_inclusion`, the Merkle tree of one batch; no state | `Selection` |
| `ManualAnchor` | `tools/anchor.py`: files in, printed entry and proof files out, published in a day file | `BatchTree`, `Powers` |
| `TraceVerify` | `trace-verify`: a reader of entry and key, beside writers of both | `ManualAnchor` |
| `Mirrors` | commits, forced pushes, sync jobs, the mirror check | |
| `WitnessCapture` | the capture tool, its directory, the witness and others who use it | |
| `*Proofs` | lemmas and theorems, one module per component proved about | the module they are named for (`WitnessProofs`: `WitnessCapture`; `TraceVerifyProofs` also `BatchTree` and `ManualAnchor`; `AnchorPipelineProofs` also `BatchAnchor`; `MMRProofs` also `NodeStore` and `CheckpointLog`) |
| `MC*` | values of the constants for TLC | the module they are named for |

The same mechanism appears at three levels of detail. `CheckpointLog` has
`append_entry` with the real peaks, roots and consistency proofs; `CheckpointChain`
takes a root of a size to *be* the sequence of leaves and a consistency proof to
verify exactly for prefixes, which is what `ConsistencyIsExact` and `PositionsAgree`
say of the real construction, for logs of any length; and `Publication` takes a run of the tool to anchor
one batch or to refuse, which is what `AnchorPipeline` is about.

### BatchAnchor

One action per step of `main()`: `StartRun` (scan, group, truncate),
`OpenLog`/`OpenRaises`/`OpenWithoutKey` (`open_checkpoint_log`), `RejectGroup`
(sentinel producer or a claim that does not verify), `SkipGroup`
(`is_already_anchored`), `GroupRefused` (`anchor_group` raises while it computes the
leaves), `BeginGroup` (`anchor_group` up to `append_entry`, which
advances the log in memory), one `WriteProof` per claim, `AppendDayFile`, one
`MoveFile` per claim, `Finish`. `GroupFails` is a write error in any of the three
writing steps: `main()` records it and goes on with the next group under the same
log. `Crash` can come between any two steps. A claim file is a number, so that
file-name order is number order; a claim's kind says what the tool makes of it, and
`"bad_record"` is one whose signature verifies and from whose envelope
`_scheduled_leaf_hash` can take no leaf, so that its group fails in every run (`HasLeaves`);
a `batch_id` is the bag of the claims it hashes, so two files with one content
give the id of two copies. The producers of claims without a usable `producer`
are one sentinel, where the tool has two. `unread` are the days whose file the process
cannot read, changed between runs by `ChangeAccess`: `is_already_anchored` passes over such a file
(`PublishedIds`), while a run with a key reads them all and raises. `missed` records
the batches that a run took for new because of it. In the pipeline `unread` stays empty, as the job owns the checkout it made.

Left out: a read error that comes or goes within one run, a claim file that can be read in one run
and not in another, the text of a claim and of a signature (only the verdict counts), torn
day files and torn proof files (an append or a write happens or does not), and
`--no-verify-signatures` and `--dry-run`, which the workflow does not use or which
change nothing. Without `--ts` the timestamp comes from a clock that does not go
back, so the order of the day files is the order of appending; `Publication` has
the backdated entries. The registry may start with an entry from before
checkpoints existed.

### AnchorPipeline

The tool's variables are the checkout of the job. `Trigger` copies `main` into it,
`PipelineStep` is a step of the tool, `CommitStep` needs exit status 0, an anchored
group and a chain that verifies, `PushAccepted` needs `main` to be the commit that
was checked out, and `JobLost` is a runner, gitsign or network failure. The
concurrency group is one job at a time. `MergeClaim` is a pull request with a claim
file, `ChangeSecret` a new or missing signing key. CI's dry run of a pull request
keeps most bad claims out of `main`; the model lets them in, as a key that is
withdrawn later or an unprotected branch does.

### RegistryFiles, Publication

The day files are a function from days to sequences of lines. `AppendOnly` is
`check_append_only.py`, `TimestampsOrdered` the part of `validate_registry.py` that
relates lines, `ChainHolds` the chain check over all files in path order;
`Mergeable` and `Merged` are what git does with two changes of one tree, file by
file. A pull request brings a line made by `anchor.py --registry-dir`
(`AnchorByTool`: folded into the chain as the branch sees it, with a `--ts` that may
lie in the past or in the future), a line without checkpoint of any time, put into any day file (`AnchorByHand`),
or a change to a published line (`EditLine`). `CheckPull` is CI on its merge with
`main` as it is then; `MergePull` asks only for a green verdict, so `main` may have
moved; `Land` starts CI again on the merge, against what `main` was, and `CheckPush`
is the end of that run. `RunJob`, `PushJob`, `RejectJob` are the scheduled job, whose
commits carry `[skip ci]` and so start no run of CI.

Left out: what can only make a gate fail (schema violations, renamed files, a base
that does not resolve), and the branch protection rule "up to date before merging",
which nothing in the repository sets.

### Aggregator

`Submit`, `Refuse`, `Return`, `TimeOut` are the handler threads; each is one critical
section of `_cond`. The flush thread takes the whole queue (`TakePending`), and from then
on runs without the lock: groups one after another, the two halves of `append_entry`
(`FoldLeaf`, `PersistLatest`), the day-file line, the proof files, and one `Report` under
the lock. `FlushFails` is an `OSError` in any write, which reports every job of the flush
as rejected. `Crash` loses what is in memory; `Restart` reads the node file and
`latest-checkpoint.json`, which a crash or an error may have left torn.
A job stands for its uuid, and an entry's batch is a sequence of jobs, so leaves of
different flushes differ, as their timestamps make them in the program.
All happens on one day, the case in which proof files of several flushes can meet.
Appending to the node file and to a day file is atomic here; `NodeStore` has the
partial appends. git commits are off by default and change nothing the process reads.

### MMR, NodeStore, CheckpointLog

Hashes are terms, which makes them injective; the three kinds of preimage in the MMR have
different lengths, so terms of different kinds differ. The operators keep the code's arithmetic
on positions; the reference they are checked against (`Forest`) is written from the shape of the
tree, in coordinates: the subtree (h, i) is the i-th one of 2^h leaves, its digest is that of
its two halves (`Digests`), its position is where a tree of the leaves before its last one ends,
and h nodes on (`PositionOf`). It shares nothing with the code's loops. `NodeStore` lets an
append stop after any number of records, or within one, by an error or by a death of the
process; two torn writes are taken never to add up to a whole record. `CheckpointLog` puts
`append_entry` on top: `Fold` appends the leaf and signs, `Persist` rewrites
`latest-checkpoint.json` in place and returns; between and within them an error (`FoldFails`,
`PersistFails`) leaves a process that goes on, and `Die` one that `Restart` reads back from the
two files or, where one is torn, refuses to start (`RestartFails`).

One exception is named in the properties. A process that outlived a write error has records
in its file that its memory does not know. If it dies later, the next one reads them as part
of the array and can sign a root over records of no entry, and the link to that root may
still verify. `OneChainIsSigned` and `StoreIsForest` except such a process;
`CoveredStaysProvable` says what holds even then: each entry under the older checkpoint is
provable under the newer one. That nothing else was added, only a replay of the published
entries can tell.

### BatchTree, ManualAnchor, TraceVerify

The two kinds of preimage in the batch tree have different first bytes. `ManualAnchor` reads
claim files in order, refuses a batch of mixed subjects, prints the entry and writes a proof
per file name stem; a later file of the same stem replaces the proof of an earlier one. The
entry is published under a `--producer` that anybody can choose, beside lines of others, some
with the same `batch_id` (`Publish`, `OthersPublish`). In `TraceVerify` a reader takes a
retained file, a proof file and an optional `--batch-id`, reads the day file and must find
one line (`ReadEntry`, `NoEntrySelected`), and then reads one key (`ReadKey`); lines are
added and keys replaced or withdrawn (`ChangeKey`) in between. Exit codes are those of
`_main_inclusion`.

Left out: JSON typing, hex decoding, URLs and output; that a key missing from a directory
exits with 1 and one that cannot be fetched with 2 is one choice of the model.

### Mirrors

A commit names its history, so a head is a sequence of commits. `Commit` and `Rewrite` move
`main`, the second by a forced push that takes commits back. A mirror's sync job, as
`docs/mirroring.md` prints it, fetches and checks ancestry (`Fetch`), then pushes what it
fetched, whatever `main` is by then (`Push`), or is lost. The check reads `main` once
(`StartCheck`), each mirror later (`ReadMirror`, `MirrorUnreachable`), and ends with a verdict,
or by an exception `_check_one` does not catch (`CheckRaises`). Left out: arguments, the host
allowlist, abbreviated hashes.

### WitnessCapture

`Start` selects one checkpoint by `--batch-id` and writes it to the directory; then each
request in turn is answered, refused, not answered, or ends the run (`Answered`, `Refused`,
`Unanswered`, `Aborted`), with or without effect at the witness. A body is written whenever there
is one. `Finish` compares the receipts in the directory, verifies the response to the POST and
sets the exit code. Others submit to the same witness between any two steps, and the directory
is used again by the next run, so a file may be an earlier run's. Offline verification
(`_witness.py`) is its verdict: identity and signature of the checkpoint (`Accepted`), and
a receipt that is bound to it.

## What is checked

Passing runs:

| Run | States | What it shows |
|---|---|---|
| `batch` | 273 k | The tool on one long-lived tree: good claims of two producers and a resubmitted one, behind a claim that does not verify and one that verifies and has no leaf; two faults among write errors, crashes, key changes and unreadable day files. A batch is published again only by a run that could not read the file holding it, every published claim has its proof, no claim leaves `incoming` unpublished, a run that opens the chain has found one that verifies entirely, though replay compares only the last checkpoint, and good claims are published in the end. |
| `pipeline` | 163 k | The whole pipeline, including a resubmitted claim and one that can never be anchored: `main` implements `RegistryLog`, staging, proofs and registry agree, nothing merged or published is lost, no job publishes beside a bad claim, and without one every claim gets its proof. |
| `publication` | 291 k | Two pull requests of any kind and the job: published lines are never edited, a file goes back in time only from a pull request's entry dated ahead to one of the job, only a fork can break the chain, and a broken chain is noticed, never signed over and never mended. |
| `aggregator` | 17 k | Three calls with claims of every kind, early flush at two, one error, one death: each queued claim is queued, in flight or decided, and anchored at most once; every proof is of a published entry; published roots nest; a living process decides every claim and answers every call. |
| `mmr` | 106 k | Every history of up to seven leaves, with one error and one death at any point: sizes, heights, positions and roots agree with the tree; both kinds of proof verify exactly for what is true; a half-written append is noticed; the checkpoints signed over the two files are one chain. |
| `batch_tree` | 1.0 M | Every batch of up to six files, two subjects, both constructions: roots and paths are those of RFC 6962, the verifier, which sees no tree, accepts exactly what the tree includes, and a reader beside changing lines and keys passes what is genuine and nothing else. |
| `mirrors` | 103 k | A check that passed was true and stays so, no rewrite gets past the checks, a lasting loss is reported, mirrors catch up. |
| `capture` | 1.4 M | Exit 0 is about this run's responses only, and what is recorded as verified was registered. |

Violations, each of a statement the repository makes (quoted in `PROJECT.json`):

| Run | Statement | What happens |
|---|---|---|
| `batch_phantom_leaf` | `PublishedIsCovered` | A batch that fails after `append_entry` leaves a leaf in the log, and the next group's published checkpoint covers it. In a long-lived tree the chain is then stuck; the pipeline drops the whole checkout. |
| `agg_restart_chain` | `ResumedChainVerifies` | A death between `append_entry` and the day-file line: the resumed chain covers a leaf of no entry. |
| `publication_fork` | `OneChain` | A pull request made with `anchor.py --registry-dir` is green; the job publishes; the merge lands in another day file: two entries extend one checkpoint. |
| `publication_order` | `FilesStayOrdered` | A green pull request brings an entry dated later the same day; the job appends an earlier one behind it, and its commit skips CI. |

### Bounds

- `MaxFaults` 2 (write errors, crashes, lost jobs, changes of key or access together): one fault
  to leave something half done, another while it is repaired. Nothing in the tool
  counts failures.
- Three good files of two producers are the least that give a group of two, so that
  something can fail between its files, and a second group behind it. Two of them hold one claim
  (`batch`, `pipeline`), so that batches of different files share an id. Of the other files one does not verify and
  one has no leaf (`batch`), each of a producer of its own whose group comes first, or one can never be anchored (`pipeline`).
- Two dates in `pipeline`: the same day and a later one. In `batch` one, and that of an older entry; the
  theorems are for all dates. One key or none (`batch`); a right and a
  wrong one or none (`pipeline`).
- Publication: three days of one instant each (`MaxTime`, `LastDay`, `TicksPerDay`), so that a
  line can be before, on and after another's day; two pull requests, so that
  two can be stale against each other, and two batches, so that the job publishes before and
  after a merge. Each is symmetric. `publication_order` needs two instants in one day
  (`TicksPerDay` 2, `LastDay` 1): an entry dated ahead and the job's in the same file.
- Aggregator: a call of two groups, a call that shares a claim with it, one
  that is refused; one error and one crash, as what they leave behind meets at most
  what one more flush does.
- MMR: seven leaves are all sizes up to one below the fourth perfect tree,
  every number of mountains from one to three, and merges of up to two mountains.
  Two bodies let two histories differ at any leaf. One error and one death are the
  least that bring about the exception above.
- Batch tree: six claims in a batch have every way an odd level occurs: sizes 3, 5 and 6, and
  promotion over two levels at 5. Batches that are published and read (`MaxBatch` 2, `MaxLines` 2)
  need a second claim to be taken for the first and a second line to be taken for the first.
- Mirrors: two, so that one can be read before and one after a change; four commits.
- Capture: two runs over one directory, three checkpoints of which one is of another log, a
  `batch_id` that names one chained line, one that names a chained and an unchained one, and one
  that names two chained ones.

`CHECK_DEADLOCK FALSE` is set where the system ends: `batch_tree` (the entry is printed
and the reader is done), `publication`, `publication_fork` and `publication_order` (the clock has stopped and every pull
request is merged), `capture` (the runs are over).

Two more behaviours of the tool are known and have no run of their own. A day file that cannot be read lets a run without a key publish a
`batch_id` twice, although `is_already_anchored` (`tools/batch_anchor.py:282`) is to "Return True if any NDJSON file in the registry
already contains batch_id"; `RepeatsAreMissed` says that this is the only way. And of a batch of two whose move stops
after one file, the other is a batch with an id of its own, which the next run anchors again.

### Fairness

- `BatchAnchor`: `WF(ToolStep)`. Somebody keeps starting the tool, and a started
  tool does not hang. Faults are not fair, and end by their bound.
- `AnchorPipeline`: `WF(JobStep)`. GitHub triggers the job every 15 minutes; its steps end.
- `Aggregator`: `WF(FlushStep)`, as `_cond.wait` has the flush interval as its timeout and
  every exception in a flush is caught; `WF(Return(c))`, as a handler polls each second.
- `Mirrors`: `WF(CheckStep)` and `WF(Fetch(m))`, as both are on schedules; `SF(Push(m))`, as
  a sync job that is lost is started again by its schedule and one gets through some time.

Liveness is stated under what the environment must provide: the right key stays in place
from some time on and the chain can be resumed (`KeyFits`, which also asks that the day files can be read, `MainKeyFits`; without
the second, the leaf of `batch_phantom_leaf` under a published checkpoint stops the tool); no
claim that can never be anchored is merged (`pipeline`); the process is up
(`aggregator`); `main` is not taken back behind a mirror (`MirrorsCatchUp`).
`PendingIsAnchored` is about claims whose producer submits none that fails its signature or has no
leaf, whatever other producers submit, and about batches of any size, as the scheduled job takes them: with
`--max-batch 1` an anchored file still in `incoming` would be the head of its group for ever.

## What is proved

TLAPS proves, for all values of the constants that satisfy their assumptions (files are a
finite set of naturals, `NoKey` is no key, there is a mirror, a producer's keys are a sequence
without `Absent`, bounds are naturals, ...):

| Theorem | Module | Property |
|---|---|---|
| `TypeCorrect` | `AnchorPipelineProofs` | `TypeOK` |
| `OnlyMissedRepeat` | `AnchorPipelineProofs` | `RepeatsAreMissed` |
| `ProofsAlwaysMatch` | `AnchorPipelineProofs` | `ProofsMatchEntries` |
| `ProcessedArePublished` | `AnchorPipelineProofs` | `ProcessedIsPublished` |
| `OpenedChainIsVerified` | `AnchorPipelineProofs` | `OpensOnlyVerifiedChain` |
| `PipelineTypeCorrect` | `AnchorPipelineProofs` | types of the job and of `main` |
| `PipelineImplementsLog` | `AnchorPipelineProofs` | `PublishesRegistryLog` |
| `TreeIsConsistent` | `AnchorPipelineProofs` | `PublishedTreeConsistent` |
| `NothingIsLost` | `AnchorPipelineProofs` | `NothingPublishedIsLost` |
| `NothingBesideABadClaim` (`MaxBatch = 0`) | `AnchorPipelineProofs` | `NothingPublishedBesideABadClaim` |
| `OnlyGrows` | `PublicationProofs` | `PublishedOnlyGrows` |
| `OnlyJobsAreBehind` | `PublicationProofs` | `OnlyJobsFallBehind` |
| `OnlyForksBreak` | `PublicationProofs` | `BrokenOnlyByFork` |
| `OnlyVerifiedResume` | `PublicationProofs` | `OnlyVerifiedChainsResume` |
| `BrokenIsNoticed` | `PublicationProofs` | `BrokenChainIsNoticed` |
| `BrokenStaysBroken` | `PublicationProofs` | `BrokenChainStaysBroken` |
| `TypeCorrect` | `AggregatorProofs` | `TypeOK` of `Aggregator`, in no run |
| `JobsHeldOnce` | `AggregatorProofs` | `JobHeldOnce` |
| `ProofsArePublished` | `AggregatorProofs` | `ProofsAreOfEntries` |
| `RootsNest` | `AggregatorProofs` | `PublishedRootsNest` |
| `ProofFilesAreGood` | `TraceVerifyProofs` | `ProofFilesVerify` |
| `RootsAreRfc6962` | `TraceVerifyProofs` | `RootIsRfc6962` |
| `VerdictsAreExact` | `TraceVerifyProofs` | `VerdictIsExact` |
| `PassesAreEarned` | `TraceVerifyProofs` | `PassIsEarned` |
| `GenuineAlwaysPasses` | `TraceVerifyProofs` | `GenuinePasses` |
| `StoreIsItsForest` | `MMRProofs` | `StoreIsForest` |
| `PositionsAreDrawn` | `MMRProofs` | `PositionsAgree` |
| `InclusionsAreExact` | `MMRProofs` | `InclusionIsExact` |
| `ConsistencyAccepts` | `MMRProofs` | `ConsistencyIsExact` |
| `ChainIsSigned` | `MMRProofs` | `OneChainIsSigned` |
| `CoveredIsNeverLost` | `MMRProofs` | `CoveredStaysProvable` |
| `PassedIsHeld` | `MirrorsProofs` | `PassedMeansHeld` |
| `ChecksNest` | `MirrorsProofs` | `PassesNest` |
| `CaptureTypes` | `WitnessProofs` | `TypeOK` |
| `ExitZeroObserved` | `WitnessProofs` | `ExitZeroIsObserved` |
| `VerifiedWitnessed` | `WitnessProofs` | `VerifiedIsWitnessed` |

**The tool.** None of its three invariants of the tree is inductive: each needs to know where the run
is. `BatchInv` adds that a batch under way has an id the registry does not hold, or one in `missed`, until
`AppendDayFile` puts it there, that the proofs written so far are of that batch, and that
a batch being moved is in the registry. Errors and crashes only forget the batch, so the
invariant survives them whatever their number. That a batch is `missed` only without a key needs one more
fact: a run that opened the chain has nothing it cannot read (`SignerReadsAll`).

**Comparing the last checkpoint is enough.** Replay checks one size and one root, yet what it
opens is verified as a whole. `LogInv` says why: checkpoints in the registry, all of one identity, only
grow (`ChainGrows`), each minted over one leaf more than the one it names, and an open log
covers all that the last of them covers. A failed write may leave a
gap, so an earlier checkpoint may cover leaves of no entry; then the last does too, and more leaves
than there are checkpointed entries. If it covers exactly as many, each checkpoint covers as many as
its rank, by counting those before it and those after it (`GrowthIsByOne`), and then
they are the leaves of its own and the earlier entries (`ResumedIsVerified`).

**The pipeline implements the log.** `PipelineInv` says that `main` is a linked log without
repeated batches, that its registry is still that of the commit a running job checked out,
and that the checkout extends it by checkpointed entries. It does not say that the checkout
is linked, which is false once a group has failed: its leaf may be under a later entry. It
says so *of a run in which nothing has failed* (`RunInv`): then the registry is linked and
the log stands at its end (`LogAtEnd`), or is ahead of it by the batch being anchored
(`LogAhead`). A failed run ends with status 1, and only status 0 reaches the push. A push
then maps to `Publish`, every other step to a stutter. The lemmas about `LastCheckpoint`
and `LinkedAt` under `Append` are in `CheckpointChainProofs`.

**The published tree is consistent, and no push loses anything.** `TreeInv` says of `main`
that every claim file is settled: incoming and in no entry, or processed, in one
entry, with its proof. Of a checkout it says so only between groups and only as long as
nothing has failed; while a group is anchored or moved, it says which of the group's files
still have to be proved or moved. `Kept` says that the checkout still holds what it was
made from, which needs the id of the batch under way to be unpublished: `WriteProof` may replace
a file of the same name, and then replaces one of no published batch.

**Nothing is published beside a bad claim.** `BadInv` says that a run in which nothing has failed
still has every claim of its checkout that cannot be anchored ahead of it: it comes to the claim's
group before it ends, and fails there. That needs groups that are taken whole, as the scheduled job
runs the tool (`MaxBatch = 0`); a group cut short leaves claims to later runs. A claim without a leaf
could hide in a group whose `batch_id` is published and which is therefore skipped, so the
proof also shows that the ids of published batches are those of claims with leaves (`ValidIds`, `IdsAreValid`).

**Published files only grow, and only the job falls behind.** A merge relies on a verdict about an older
`main`. `PubInv` says what carries over: the base of a pull request is an older `main`, and
in a green one each changed file extends the base's and goes back nowhere. git merges only files
that `main` has not changed since that base, so each file of the merge is either
`main`'s own or the approved one, and an ordered file falls back nowhere (`OrderedFallsNowhere`). The job's own
push extends the commit it checked out by a line of the current time, and a published line of a later
one is a pull request's (`FallsToJob`).

**Only a fork breaks the published chain.** The chain spans files, so file by file its entries
can come from two trees, and `publication_fork` shows that it can fail. `PublicationProofs` shows
that it fails in no other way, which needs the verdict in a form that can be put together: the
entries of a chain that holds are `Sound`, each with the leaves of all those up to it, and
two sound sets have a sound union or hold two entries over one checkpoint
(`UnionSoundOrForked`). A merge is, day by day, `main`'s file or the one CI approved in a sound
tree, so its entries are such a union. A grown file embeds the old one, entry by entry and in
order, and a fork embedded is a fork, so a chain that fails never holds again.
What resumes is verified because every checkpointed line came with a state whose chain held
(`Grounded` in `ChainInv`): if the last checkpoint covers exactly the published entries, then that
state had all of them. And a merge that breaks the chain lands with a CI run that will say so, since a
verdict is about the very merge (`CheckPush`).

**Jobs are held once, and proofs are of entries.** `HeldInv` says that what one process has accepted is
queued, in the flush or decided, one of the three; `FlushInv` that a job of the flush has its result or
belongs to a group still to come or at work; `LeafInv` that a job which is a leaf is one once, and
neither waiting to be anchored nor in an entry being built. The three hold together only: a job
is anchored twice exactly if it could be at two places in the flush. Taking a group out of the queue
keeps the elements at some places, in order (`Pick`, lemma `InPick`). `ProofInv` says that a result with a
proof, an indexed proof, a proof file and an answered proof are of a published entry, at
the claim's own place. A death forgets the first two, never the files.

**The aggregator's roots nest.** `RootInv` says that every published checkpoint covers a
beginning of the node store, each a longer one than those before, that a leaf folded and not
yet published lies beyond all of them, and that between `PersistLatest` and
`WriteEntry` the latest checkpoint covers the whole store. A death in between loses the entry and
not the leaf, so the next checkpoint covers more, never something else: the chain of roots is
consistent, though (as `agg_restart_chain` shows) it is no longer the chain of the entries.

**The reader's verdict.** `trace-verify` sees an index, a count and a path, and shifts two numbers.
*Soundness*: at each step the two numbers are the place of an ancestor of the claimed leaf, and of the
last node, in one level of the tree `build_tree` made (`ParentPlace`, `SkipPlace`), and since
hashing is injective the digest carried is that ancestor's only if the digest before was that
of the node below (`ClimbStep`). The number of levels bounds the climb, a leaf hash is no node hash, and a path that ends at
the root began at the claimed leaf (`InclusionIsSound`). *Completeness*: the path of a leaf has the
siblings at the levels where its ancestor has one, the verifier skips exactly the
others (`SkipToPaired`), so after k digests it stands at the k-th of those levels with the
ancestor's digest (`ReachedFacts`, `InclusionIsComplete`). `FilesInv` says that printed and published
entries are over a batch and proof files of its leaves, and `ReaderInv` what a reader knows between
its two reads: the line is published and is the only one that matched, so that others, who only
add lines and replace keys (`OthersStep`), cannot make a verdict wrong after the fact.

**Level by level is RFC 6962.** The reference tree splits n leaves at the largest power of two
below n, and pairing neighbours level by level says nothing of powers. The j-th node of level h has the
leaves from j * 2^h on, 2^h of them or what is left (`SpanOf`, `Covers`); so the span of a
node with two children splits exactly where the RFC splits it, and that of a promoted node is its child's
(`ParentSpan`). Going up, each node is the recursive subtree of its span (`NextHolds`) and the
siblings collected so far are that subtree's path (`NextFollows`). *Exactness* of the verdict needs one more
thing, that no second path is accepted for a leaf: how the two numbers move does not depend on
the path, so two accepted paths are equally long and, from the root down, digest by digest
the same (`PathIsUnique`).

**The mountain range at every size.** First the arithmetic is put into coordinates. How many nodes
n leaves have is a sum over halvings of n (`SizeOf`); that sum splits at a boundary of 2^g leaves
when less than 2^g follow (`SizeSplits`), and everything else comes from there: the binary digits of n,
from the top, are the mountains that `peaks()` finds (`Layout`), `height_at` returns the height a
position was given (`HeightOfPosition`), the leaf's `t` parents fill exactly the gap to the next
size (`NewAligned`), and `locate_path` goes down through the subtrees above its target
(`PathWalks`). *A store*, then, is the forest of its leaves or has part of one append at its end
(`Grown`, `HalfGrown`), and the latter's size lies between those of two numbers of leaves, so it is
no valid size (`HalfGrownIsInvalid`): `peaks()` refuses it. *Proofs* are climbs: over nodes that
are hashes of those below, the climb from a node arrives at its mountain (`ClimbArrives`), and by
injectivity of the hash nothing else does (`ClimbIsInjective`, `RootFixesPeaks`).

**One chain, and what survives in it.** `LogInv` says of `CheckpointLog` that what is minted is of the
store as it is, that the latest checkpoint, in memory or in its file, is of a size the node file
still has, and, as long as no process that outlived a write error has died, that its root is that
of the file's first nodes. A root over the first nodes of a store does not change when more follow
(`GrowingKeepsRoots`). After such a death the store is no forest, and one weaker fact is left
(`InPlace`): a node that names its own position is the hash of the two nodes below it, as records of
a failed write stand elsewhere than they were made for, or where they were made for. That is
enough. A climb that arrives went over such nodes only (`ArrivingIsProper`), so if the link from an
older root verifies, the old peaks stand in the new store where they stood and lead to its
mountains, and so do all leaves below them (`CoveredIsProvable`).

Induction over data, where these proofs need it, is made of first-order facts: the least
counterexample of a set of naturals (`LeastElement`). That is also how the recursive functions of the
model (levels, positions, replay, skipping) are shown to exist and to satisfy their equations.

**Passed mirror checks are true.** `MirrorsInv` says that a sync job goes forward from the
mirror's head, so a mirror never loses what it holds, and that while a check has seen no difference,
the mirrors it has read hold the head it began with. That one passed check extends the one before needs a mirror
(`Mirrors # {}`), which held the earlier head and equals the later one.

**Witness evidence.** `CaptureInv` says that a receipt in the directory, whichever run left it,
is of a checkpoint the witness holds, and that a request that succeeded left a body, so that with
no failure every file compared is this run's.

Only model-checked: all liveness (`PendingIsAnchored`, `ClaimsArePublished`, `JobsAreDecided`,
`CallsAreAnswered`, `LossIsReported`, `MirrorsCatchUp`), which the prover does not reach. Every
safety property of a passing run is a theorem. That hashing is injective is part of the model, in the theorems
as in the runs: a digest is a term.

## Not modelled

- Cryptography, COSE, CBOR, JSON and file formats: a signature, a parse, a receipt or a hash
  is its result. The `receipt` subcommand of `trace-verify` prints that verdict.
- Torn day files and proof files, among them a cut line that swallows the next one. A
  day-file line is one write of a few kB. Loss of power, which could lose what was
  written but not synced.
- Memory that only grows in the aggregator, and what a call is owed whose claims were partly
  rejected: nothing in the repository says. A full queue that fills during a flush
  notifies nobody; the model has this, and the flush interval ends it.
- Two batches of the aggregator with the same claims in another order share a `batch_id` and
  exchange their index keys; `ProofsAreOfEntries` says what holds of their proofs.
- Fuzzing, load test, conformance and release tooling: no part of the running system.

## Plan

Done, in this order: chain, tool, pipeline over the abstract log, aggregator, MMR and node
store, batch tree; then the second writer with CI's gates, the checkpoint log over its files, the reader's
command line, mirrors, witness capture, and the proofs about the tool, `main`, the published chain, the
aggregator, the batch tree and its reader, the mountain range and its log, mirrors and witness. Left:

1. Torn day files: a line cut short, what later runs make of it, and which gate notices.
2. `Aggregator` refined by `CheckpointLog`, so that partial appends meet its restarts.

## Running

    tlc -workers 2 -config pipeline.cfg MCAnchorPipeline.tla
    tlapm AnchorPipelineProofs.tla

The module of each configuration, the mutants that show each property to have teeth, and
the source lines of each definition are in `PROJECT.json`.
