--------------------------- MODULE AnchorPipeline ----------------------------
(***************************************************************************)
(* .github/workflows/anchor-pipeline.yml: the scheduled job that runs      *)
(* batch_anchor in a fresh checkout and publishes the result by pushing    *)
(* one commit to main, while pull requests add claim files to main.        *)
(*                                                                         *)
(* BatchAnchor's tree is the job's checkout.  The concurrency group lets   *)
(* one job run at a time.  Everything a job does is lost unless its push   *)
(* is accepted, and git accepts it only if main is still the commit the    *)
(* job checked out.                                                        *)
(***************************************************************************)
EXTENDS BatchAnchor

\* The workflow always passes --require-checkpoints.
ASSUME PipelineAssumption == RequireCheckpoints = TRUE

VARIABLES
    main,    \* the tree at the head of main
    base,    \* the tree of the commit the job checked out
    stage    \* where the job is

job == <<main, base, stage>>
pipelineVars == <<vars, main, base, stage>>

Tree(in, done, prfs, reg) ==
    [incoming |-> in, processed |-> done, proofs |-> prfs, registry |-> reg]
Checkout == Tree(incoming, processed, proofs, registry)

PipelineInit ==
    /\ Init
    /\ key # NoKey
    /\ main = Checkout
    /\ base = Checkout
    /\ stage = "waiting"

\* cron or workflow_dispatch: actions/checkout of main, nothing else kept.
Trigger ==
    /\ stage = "waiting"
    /\ stage' = "pipeline"
    /\ base' = main
    /\ incoming' = main.incoming
    /\ processed' = main.processed
    /\ proofs' = main.proofs
    /\ registry' = main.registry
    /\ exit' = "none"
    /\ UNCHANGED <<env, main, pc, todo, batch, left, signer, log, failed, anchored>>

\* The "Run batch anchor pipeline" step: one run of the tool.
PipelineStep ==
    /\ stage = "pipeline"
    /\ pc = "idle" => exit = "none"
    /\ ToolStep
    /\ UNCHANGED job

\* Mutant: the later steps run whatever the tool and the verifier said.
Publishable_AnyAnchored == anchored

\* Every later step is skipped when the tool failed (set -e), and when no
\* group was anchored; the chain is recomputed before anything is committed.
Publishable ==
    /\ exit = "ok"
    /\ anchored
    /\ ChainVerified(registry)

ToolEnded == stage = "pipeline" /\ pc = "idle" /\ exit # "none"

CommitStep ==
    /\ ToolEnded
    /\ Publishable
    /\ stage' = "push"
    /\ UNCHANGED <<vars, main, base>>

EndJob ==
    /\ ToolEnded
    /\ ~Publishable
    /\ stage' = "waiting"
    /\ UNCHANGED <<vars, main, base>>

\* Mutant: git push --force.
PushAccepted_Forced ==
    /\ stage = "push"
    /\ main' = Checkout
    /\ stage' = "waiting"
    /\ UNCHANGED <<vars, base>>

\* Mutant: git add registry/ proofs/, without staging/.
PushAccepted_WithoutStaging ==
    /\ stage = "push"
    /\ main = base
    /\ main' = Tree(main.incoming, main.processed, proofs, registry)
    /\ stage' = "waiting"
    /\ UNCHANGED <<vars, base>>

PushAccepted ==
    /\ stage = "push"
    /\ main = base
    /\ main' = Checkout
    /\ stage' = "waiting"
    /\ UNCHANGED <<vars, base>>

\* Mutant: the job retries the rejected push instead of ending.
PushRejected_RetriesPush ==
    /\ stage = "push"
    /\ main # base
    /\ UNCHANGED pipelineVars

\* git push is rejected as a non-fast-forward; the next job starts over.
PushRejected ==
    /\ stage = "push"
    /\ main # base
    /\ stage' = "waiting"
    /\ UNCHANGED <<vars, main, base>>

\* The runner dies, or a step outside the tool (gitsign, network) fails.
JobLost ==
    /\ stage # "waiting"
    /\ faults < MaxFaults
    /\ faults' = faults + 1
    /\ stage' = "waiting"
    /\ pc' = "idle"
    /\ exit' = "crash"
    /\ todo' = {} /\ batch' = {} /\ left' = {}
    /\ signer' = NoKey
    /\ log' = [leaves |-> <<>>, latest |-> NoCheckpoint]
    /\ UNCHANGED <<tree, key, ts, unread, missed, failed, anchored, main, base>>

\* A pull request that adds a claim file is merged.
MergeClaim(f) ==
    /\ f \notin main.incoming
    /\ \A p \in main.processed : p.file # f
    /\ main' = [main EXCEPT !.incoming = @ \cup {f}]
    /\ UNCHANGED <<vars, base, stage>>

\* The repository secret is replaced or removed.
ChangeSecret ==
    /\ stage = "waiting"
    /\ ChangeKey
    /\ UNCHANGED job

PipelineNext ==
    \/ Trigger
    \/ PipelineStep
    \/ CommitStep
    \/ EndJob
    \/ PushAccepted
    \/ PushRejected
    \/ JobLost
    \/ ChangeSecret
    \/ \E f \in Files : MergeClaim(f)

PipelineSpec == PipelineInit /\ [][PipelineNext]_pipelineVars

\* The schedule keeps triggering, and a started job keeps taking steps.
JobStep == Trigger \/ PipelineStep \/ CommitStep \/ EndJob \/ PushAccepted \/ PushRejected
FairPipelineSpec == PipelineSpec /\ WF_pipelineVars(JobStep)

-----------------------------------------------------------------------------
PipelineTypeOK ==
    /\ TypeOK
    /\ main \in [incoming : SUBSET Files,
                 processed : SUBSET [id : Ids, file : Files],
                 proofs : SUBSET ProofFile,
                 registry : Seq(RegistryEntry)]
    /\ base \in [incoming : SUBSET Files,
                 processed : SUBSET [id : Ids, file : Files],
                 proofs : SUBSET ProofFile,
                 registry : Seq(RegistryEntry)]
    /\ stage \in {"waiting", "pipeline", "push"}

\* The published log is the abstract one, whatever the tool's failures did to
\* the checkouts that were thrown away.
Log == INSTANCE RegistryLog WITH published <- main.registry
PublishesRegistryLog == Log!LogSpec

\* In what is published, staging, proofs and registry agree about every claim
\* file: it is either still incoming and in no batch, or processed, in exactly
\* one batch, with its proof.
PublishedTreeConsistent ==
    LET batchesOf(f) == {i \in DOMAIN main.registry : f \in main.registry[i].batch}
    IN  \A f \in Files :
            /\ f \in main.incoming => batchesOf(f) = {}
            /\ (\E p \in main.processed : p.file = f) => \E i \in DOMAIN main.registry :
                  /\ batchesOf(f) = {i}
                  /\ [day |-> main.registry[i].ts, id |-> main.registry[i].id,
                      file |-> f, tree |-> main.registry[i].batch] \in main.proofs

\* The two halves of the registry's history a push may never touch: claim files
\* merged while the job ran, and entries already published.
NothingPublishedIsLost ==
    [][/\ \A f \in main.incoming :
              f \in main'.incoming \/ \E p \in main'.processed : p.file = f
       /\ main.processed \subseteq main'.processed
       /\ main.proofs \subseteq main'.proofs
       /\ IsPrefix(main.registry, main'.registry)]_main

\* One claim that cannot be anchored keeps the whole job from publishing: no
\* entry is pushed from a checkout that held one (set -e on the tool's status).
NothingPublishedBesideABadClaim ==
    [][main'.registry # main.registry =>
          \A f \in base.incoming : Kind(f) \in {"valid", "malformed"}]_pipelineVars

MainKeyFits ==
    /\ key # NoKey
    /\ LET latest == LastCheckpoint(main.registry)
       IN  latest # NoCheckpoint => latest.origin = key

\* "Wait up to 15 minutes for the pipeline to anchor and push proofs"
\* (staging/README.md), as far as a schedule without clocks can say it: with the
\* right secret in place, every merged claim gets its proof on main, unless
\* a claim that can never be anchored is merged beside it.
ClaimsArePublished ==
    <>[]MainKeyFits /\ [](\A f \in main.incoming : Kind(f) \in {"valid", "malformed"}) =>
        \A f \in Files : f \in main.incoming ~> \E p \in main.proofs : ClaimOf[p.file] = ClaimOf[f]
=============================================================================
