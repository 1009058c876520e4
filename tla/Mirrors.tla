------------------------------- MODULE Mirrors -------------------------------
(***************************************************************************)
(* The copies of the repository that other organizations keep, and the     *)
(* scheduled check that they agree with main (tools/check_mirrors.py in    *)
(* .github/workflows/check-mirrors.yml).                                   *)
(*                                                                         *)
(* A commit names its whole history, so a head is here the sequence of     *)
(* commits that lead to it, and "descends from" is "extends".  The check   *)
(* sees heads only, reads main's first and each mirror's later, and calls  *)
(* everything that is not equal "diverged".  A mirror's sync job is the    *)
(* one docs/mirroring.md prints; it runs in the mirror's own repository.   *)
(***************************************************************************)
EXTENDS Integers, Sequences, SequencesExt

CONSTANTS
    Mirrors,    \* names in mirrors.json
    MaxCommit   \* bound: commits ever made on main

ASSUME MirrorsAssumption == Mirrors # {} /\ MaxCommit \in Nat \ {0}

VARIABLES
    main,    \* history of canonical main
    last,    \* the newest commit ever made
    mirror,  \* history of each mirror's main
    sync,    \* [stage, target] of each mirror's sync job
    check,   \* [stage, canonical, left, failed] of the scheduled check
    report   \* verdict of the last check, and main's head in the last that passed

vars == <<main, last, mirror, sync, check, report>>

NoSync == [stage |-> "idle", target |-> <<>>]
NoCheck == [stage |-> "idle", canonical |-> <<>>, left |-> {}, failed |-> FALSE]

\* Every mirror was cloned before it was registered.
Init ==
    /\ main = <<1>>
    /\ last = 1
    /\ mirror = [m \in Mirrors |-> main]
    /\ sync = [m \in Mirrors |-> NoSync]
    /\ check = NoCheck
    /\ report = [verdict |-> "none", passed |-> <<>>]

Commit ==
    /\ last < MaxCommit
    /\ last' = last + 1
    /\ main' = Append(main, last')
    /\ UNCHANGED <<mirror, sync, check, report>>

\* A forced push takes published commits back; others may follow.
Rewrite(k) ==
    /\ k \in 1..(Len(main) - 1)
    /\ main' = SubSeq(main, 1, k)
    /\ UNCHANGED <<last, mirror, sync, check, report>>

-----------------------------------------------------------------------------
\* Mutant: the sync job does not ask for ancestry.
Fetch_AnyHistory(m) ==
    /\ sync[m].stage = "idle"
    /\ mirror[m] # main
    /\ sync' = [sync EXCEPT ![m] = [stage |-> "push", target |-> main]]
    /\ UNCHANGED <<main, last, mirror, check, report>>

\* Mutant: a mirror that is behind waits for the next commit.
Fetch_OneBehind(m) ==
    /\ sync[m].stage = "idle"
    /\ mirror[m] # main /\ IsPrefix(mirror[m], main)
    /\ Len(main) > Len(mirror[m]) + 1
    /\ sync' = [sync EXCEPT ![m] = [stage |-> "push", target |-> main]]
    /\ UNCHANGED <<main, last, mirror, check, report>>

\* git fetch canonical, then merge-base --is-ancestor: a main that does not
\* descend from the mirror's head is refused and leaves the mirror where it is.
Fetch(m) ==
    /\ sync[m].stage = "idle"
    /\ mirror[m] # main /\ IsPrefix(mirror[m], main)
    /\ sync' = [sync EXCEPT ![m] = [stage |-> "push", target |-> main]]
    /\ UNCHANGED <<main, last, mirror, check, report>>

\* merge --ff-only and push of what was fetched, whatever main is by now.
Push(m) ==
    /\ sync[m].stage = "push"
    /\ mirror' = [mirror EXCEPT ![m] = sync[m].target]
    /\ sync' = [sync EXCEPT ![m] = NoSync]
    /\ UNCHANGED <<main, last, check, report>>

\* The job dies, or its token may not push.
SyncLost(m) ==
    /\ sync[m].stage = "push"
    /\ sync' = [sync EXCEPT ![m] = NoSync]
    /\ UNCHANGED <<main, last, mirror, check, report>>

-----------------------------------------------------------------------------
Failed ==
    /\ report' = [report EXCEPT !.verdict = "fail"]
    /\ check' = NoCheck

Passed ==
    /\ report' = [verdict |-> "ok", passed |-> check.canonical]
    /\ check' = NoCheck

\* main(): the canonical head is read once, first; without it nothing is checked.
StartCheck ==
    /\ check.stage = "idle"
    /\ \/ /\ check' = [stage |-> "reading", canonical |-> main,
                       left |-> Mirrors, failed |-> FALSE]
          /\ UNCHANGED report
       \/ Failed
    /\ UNCHANGED <<main, last, mirror, sync>>

\* Mutant: a mirror that holds all of main and more is in sync.
InSync_Contains(head, canonical) == IsPrefix(canonical, head) \/ IsPrefix(head, canonical)

\* _check_one: heads are compared, not histories.
InSync(head, canonical) == head = canonical

ReadMirror(m) ==
    /\ check.stage = "reading"
    /\ m \in check.left
    /\ check' = [check EXCEPT !.left = @ \ {m},
                              !.failed = @ \/ ~InSync(mirror[m], check.canonical)]
    /\ UNCHANGED <<main, last, mirror, sync, report>>

\* Mutant: a mirror that does not answer is left out of the count.
MirrorUnreachable_Skipped(m) ==
    /\ check.stage = "reading"
    /\ m \in check.left
    /\ check' = [check EXCEPT !.left = @ \ {m}]
    /\ UNCHANGED <<main, last, mirror, sync, report>>

\* "unreachable", or an answer of unexpected shape: counted as a failure.
MirrorUnreachable(m) ==
    /\ check.stage = "reading"
    /\ m \in check.left
    /\ check' = [check EXCEPT !.left = @ \ {m}, !.failed = TRUE]
    /\ UNCHANGED <<main, last, mirror, sync, report>>

\* A read that times out or an answer that is no object raises what _check_one
\* does not catch: the check ends there, with no word on the other mirrors.
CheckRaises ==
    /\ check.stage = "reading"
    /\ check.left # {}
    /\ Failed
    /\ UNCHANGED <<main, last, mirror, sync>>

EndCheck ==
    /\ check.stage = "reading"
    /\ check.left = {}
    /\ IF check.failed THEN Failed ELSE Passed
    /\ UNCHANGED <<main, last, mirror, sync>>

CheckStep ==
    \/ StartCheck
    \/ \E m \in Mirrors : ReadMirror(m) \/ MirrorUnreachable(m)
    \/ CheckRaises
    \/ EndCheck

Next ==
    \/ Commit
    \/ \E k \in 1..MaxCommit : Rewrite(k)
    \/ \E m \in Mirrors : Fetch(m) \/ Push(m) \/ SyncLost(m)
    \/ CheckStep

Spec == Init /\ [][Next]_vars

\* Sync jobs and checks run on schedules; a push that is tried again and again
\* succeeds some time.
FairSpec ==
    /\ Spec
    /\ WF_vars(CheckStep)
    /\ \A m \in Mirrors : WF_vars(Fetch(m)) /\ SF_vars(Push(m))

-----------------------------------------------------------------------------
\* Main as it is no longer descends from what m holds.
Lost(m) == ~IsPrefix(mirror[m], main)

\* A check that passed was true and stays so: what main was when it began is in
\* the history of every mirror from then on, wherever main went during the
\* check and since.
PassedMeansHeld == \A m \in Mirrors : IsPrefix(report.passed, mirror[m])

\* No rewrite gets past the checks: from one that passes to the next that does,
\* main only grew, though both compare nothing but heads.
PassesNest == [][IsPrefix(report.passed, report'.passed)]_vars

\* Whatever is taken back from main after a mirror has it, the checks report
\* failure from some time on, unless main returns to what the mirror holds.
LossIsReported ==
    \A m \in Mirrors : <>[]Lost(m) => <>[](report.verdict = "fail")

\* A mirror that main never left behind has all of main in the end, whatever
\* jobs are lost.
MirrorsCatchUp ==
    \A m \in Mirrors : []~Lost(m) => <>[](mirror[m] = main)
=============================================================================
