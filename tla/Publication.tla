---------------------------- MODULE Publication ----------------------------
(***************************************************************************)
(* The writers of the registry's day files on main: pull requests that     *)
(* carry entries made by tools/anchor.py (with --registry-dir, or printed  *)
(* and redirected by hand) and the scheduled job, with CI as the gate      *)
(* between a pull request and main and again after each merge.             *)
(*                                                                         *)
(* A verdict of CI is about the merge of a branch with main as main was    *)
(* when CI ran; main may move before the merge.  The job pushes only onto  *)
(* the commit it checked out, verifies the chain itself, and its commits   *)
(* carry [skip ci].  What the job's tool does inside is AnchorPipeline's   *)
(* subject: here a run anchors one batch or refuses.                       *)
(***************************************************************************)
EXTENDS RegistryFiles

CONSTANTS
    Pulls,     \* pull requests; each brings one entry, named like it
    Batches,   \* batches in staging/incoming, for the job
    First,     \* the batch published first
    Key,       \* the signing identity of the chain
    MaxTime    \* bound: the clock stops

ASSUME TimeAssumption == MaxTime \in Nat \ {0} /\ Day(MaxTime) <= LastDay
ASSUME KeyAssumption == Key # "none"
ASSUME NameAssumption == Pulls \cap Batches = {} /\ First \notin Pulls \cup Batches

VARIABLES
    main,     \* day files at the head of main
    clock,
    pulls,    \* [status, base, head] of each pull request
    job,      \* [stage, base, files, batch] of the scheduled job
    staged,   \* batches not yet anchored
    running,  \* verdicts that CI's runs on merged commits will give
    alarm     \* such a run has failed

vars == <<main, clock, pulls, job, staged, running, alarm>>

NoFiles == [d \in Days |-> <<>>]
NoPull == [status |-> "none", base |-> NoFiles, head |-> NoFiles]
NoJob == [stage |-> "idle", base |-> NoFiles, files |-> NoFiles, batch |-> First]

Line(batch, time, cp) == [batch |-> batch, ts |-> time, cp |-> cp]

Resumable(files) == CanResume(EntriesOf(files), Key)

\* CheckpointLog.append_entry over the published entries.
ChainedLine(files, batch, time) ==
    LET entries == EntriesOf(files)
        leaf == LeafOf(Line(batch, time, NoCheckpoint))
    IN  Line(batch, time, MintedOver(LeavesOf(entries), LastCheckpoint(entries), leaf, Key))

\* The registry starts with one checkpointed entry.
Init ==
    /\ main = WithLine(NoFiles, 1, ChainedLine(NoFiles, First, 1))
    /\ clock = 1
    /\ pulls = [p \in Pulls |-> NoPull]
    /\ job = NoJob
    /\ staged = Batches
    /\ running = {}
    /\ alarm = FALSE

Tick ==
    /\ clock < MaxTime
    /\ clock' = clock + 1
    /\ UNCHANGED <<main, pulls, job, staged, running, alarm>>

-----------------------------------------------------------------------------
\* A branch of main with the given tree is pushed for p.
Propose(p, files) ==
    /\ pulls' = [pulls EXCEPT ![p] = [status |-> "open", base |-> main, head |-> files]]
    /\ UNCHANGED <<main, clock, job, staged, running, alarm>>

\* anchor.py --registry-dir with a key: fold into the chain and append to the
\* day file of --ts, which may lie in the past or the future.  A red pull request
\* starts over.
AnchorByTool(p, time) ==
    /\ pulls[p].status \in {"none", "red"}
    /\ Resumable(main)
    /\ Propose(p, WithLine(main, Day(time), ChainedLine(main, p, time)))

\* anchor.py --no-checkpoint, or the printed entry redirected into a day file,
\* which need not be that of its timestamp, whatever --ts says.
AnchorByHand(p, time, d) ==
    /\ pulls[p].status = "none"
    /\ Propose(p, WithLine(main, d, Line(p, time, NoCheckpoint)))

\* A branch that takes back a published line, or puts another in its place.
EditLine(p, d) ==
    /\ pulls[p].status = "none"
    /\ main[d] # <<>>
    /\ \/ Propose(p, [main EXCEPT ![d] = Front(@)])
       \/ Propose(p, [main EXCEPT ![d][Len(main[d])] = Line(p, @.ts, NoCheckpoint)])

\* "Update branch": main is merged into the branch, and CI starts over.
UpdateBranch(p) ==
    LET pull == pulls[p]
    IN  /\ pull.status \in {"open", "green", "red"}
        /\ pull.base # main
        /\ Mergeable(pull.base, main, pull.head)
        /\ Propose(p, Merged(pull.base, main, pull.head))

\* CI on the pull request: the gates, over its merge with main.
CheckPull(p) ==
    LET pull == pulls[p]
        pass == GatesPass(main, Merged(pull.base, main, pull.head))
    IN  /\ pull.status = "open"
        /\ Mergeable(pull.base, main, pull.head)
        /\ pulls' = [pulls EXCEPT ![p].status = IF pass THEN "green" ELSE "red"]
        /\ UNCHANGED <<main, clock, job, staged, running, alarm>>

\* main receives the files and CI runs on the push, against what main was.
Land(p, files) ==
    /\ main' = files
    /\ pulls' = [pulls EXCEPT ![p] = [NoPull EXCEPT !.status = "merged"]]
    /\ running' = running \cup {GatesPass(main, files)}
    /\ UNCHANGED <<clock, job, staged, alarm>>

\* Mutant: the merge button works whatever CI said.
MergePull_Unchecked(p) ==
    LET pull == pulls[p]
    IN  /\ pull.status \in {"open", "green", "red"}
        /\ Mergeable(pull.base, main, pull.head)
        /\ Land(p, Merged(pull.base, main, pull.head))

\* Mutant: the branch's files replace main's.
MergePull_TakesBranch(p) ==
    LET pull == pulls[p]
    IN  /\ pull.status = "green"
        /\ Land(p, pull.head)

\* Mutant: the merge commit carries [skip ci] as the job's commits do.
MergePull_SkipsCI(p) ==
    LET pull == pulls[p]
    IN  /\ pull.status = "green"
        /\ Mergeable(pull.base, main, pull.head)
        /\ main' = Merged(pull.base, main, pull.head)
        /\ pulls' = [pulls EXCEPT ![p] = [NoPull EXCEPT !.status = "merged"]]
        /\ UNCHANGED <<clock, job, staged, running, alarm>>

\* The merge: the verdict must be green, whatever main has become since.
MergePull(p) ==
    LET pull == pulls[p]
    IN  /\ pull.status = "green"
        /\ Mergeable(pull.base, main, pull.head)
        /\ Land(p, Merged(pull.base, main, pull.head))

\* CI on the push of a merge, against github.event.before, ends.
CheckPush(verdict) ==
    /\ verdict \in running
    /\ running' = running \ {verdict}
    /\ alarm' = (alarm \/ ~verdict)
    /\ UNCHANGED <<main, clock, pulls, job, staged>>

-----------------------------------------------------------------------------
\* The job checks out main, and its tool anchors a batch now.  It fails closed:
\* the published chain must resume, and the whole of it verify with the entry.
RunJob(b) ==
    LET files == WithLine(main, Day(clock), ChainedLine(main, b, clock))
    IN  /\ job.stage = "idle"
        /\ b \in staged
        /\ Resumable(main)
        /\ ChainHolds(files)
        /\ job' = [stage |-> "push", base |-> main, files |-> files, batch |-> b]
        /\ UNCHANGED <<main, clock, pulls, staged, running, alarm>>

PushJob ==
    /\ job.stage = "push"
    /\ main = job.base
    /\ main' = job.files
    /\ staged' = staged \ {job.batch}
    /\ job' = NoJob
    /\ UNCHANGED <<clock, pulls, running, alarm>>

\* A push that is no fast-forward; the next job starts from main.
RejectJob ==
    /\ job.stage = "push"
    /\ main # job.base
    /\ job' = NoJob
    /\ UNCHANGED <<main, clock, pulls, staged, running, alarm>>

JobStep == (\E b \in Batches : RunJob(b)) \/ PushJob \/ RejectJob

PullStep(p) ==
    \/ \E time \in 1..MaxTime :
          AnchorByTool(p, time) \/ \E d \in Days : AnchorByHand(p, time, d)
    \/ \E d \in Days : EditLine(p, d)
    \/ UpdateBranch(p) \/ CheckPull(p) \/ MergePull(p)

Next ==
    \/ Tick
    \/ \E p \in Pulls : PullStep(p)
    \/ \E verdict \in BOOLEAN : CheckPush(verdict)
    \/ JobStep

Spec == Init /\ [][Next]_vars

-----------------------------------------------------------------------------
\* No published line is ever changed or removed, though pull requests try to and
\* a merge may rely on a verdict about an older main: what git merges without a
\* conflict, and CI approved then, is an extension of main now.
PublishedOnlyGrows == [][AppendOnly(main, main')]_vars

\* tools/validate_registry.py: "Timestamps are monotonically non-decreasing within
\* each file".
FilesStayOrdered == TimestampsOrdered(main)

\* Timestamps go back within a published file only where the job, whose commits
\* skip CI, appends behind the entry of a pull request that was dated ahead: no
\* pull request, however old its verdict, puts a line behind a later one, and
\* no line of the job is ahead of another writer's.
OnlyJobsFallBehind ==
    \A d \in Days : \A i \in 2..Len(main[d]) :
        main[d][i - 1].ts > main[d][i].ts =>
            main[d][i - 1].batch \in Pulls /\ main[d][i].batch \in Batches

\* The one way in which the published chain comes to fail is a fork: two entries
\* folded over the same checkpoint.  Backdated entries, which move the replay
\* order, and entries outside the chain never break it.
BrokenOnlyByFork ==
    LET entries == EntriesOf(main)
    IN  ~ChainHolds(main) =>
            \E i, j \in DOMAIN entries :
                /\ i # j
                /\ Chained(entries[i]) /\ Chained(entries[j])
                /\ entries[i].cp.prev = entries[j].cp.prev

\* A chain that a stale verdict broke does not go unnoticed: the run of CI on
\* that merge fails.
BrokenChainIsNoticed == ~ChainHolds(main) => alarm \/ FALSE \in running

\* Opening the chain compares its last checkpoint only, yet no tool goes on to
\* sign over a published history in which any entry does not verify.
OnlyVerifiedChainsResume == Resumable(main) => ChainHolds(main)

\* No approved change repairs a broken chain: entries may only be added, and
\* what was forked stays forked.
BrokenChainStaysBroken == [][~ChainHolds(main) => ~ChainHolds(main')]_vars

\* "So the two paths have to produce one chain"
\* (tests/test_manual_anchor_checkpoints.py).
OneChain == ChainHolds(main)
=============================================================================
