--------------------------- MODULE WitnessCapture ---------------------------
(***************************************************************************)
(* tools/capture_witness_receipt.py: an operator submits a published       *)
(* checkpoint to an external witness, reads the receipt back twice, and    *)
(* keeps the responses, what was observed and the offline verification     *)
(* (src/trace_verify/_witness.py) in an evidence directory.                *)
(*                                                                         *)
(* A response body is the checkpoint whose receipt it carries, or JSON     *)
(* without a receipt, or no JSON.  Others submit checkpoints to the same   *)
(* witness meanwhile.  The directory may be used again for a next run, and *)
(* what an earlier run left there is read by the later one.                *)
(***************************************************************************)
EXTENDS Integers, Sequences, FiniteSets

CONSTANTS
    Checkpoints,
    Published,   \* lines of a day file, [batch, cp]; cp is NoCheckpoint outside the chain
    Accepted,    \* checkpoints under the log_id and key the operators pin
    NoCheckpoint,
    MaxRuns      \* bound: runs of the tool

ASSUME CaptureAssumption ==
    /\ Accepted \subseteq Checkpoints
    /\ Checkpoints \cap {NoCheckpoint, "no receipt", "no JSON", "no file"} = {}
    /\ MaxRuns \in Nat
ASSUME PublishedAssumption == \A i \in DOMAIN Published : Published[i].cp \in Checkpoints \cup {NoCheckpoint}

VARIABLES
    registered,  \* checkpoints the witness holds
    run,         \* [cp, did, events, exit] of the newest run
    dir,         \* the evidence directory: [cp, files, manifest, verified]
    runs         \* started so far

vars == <<registered, run, dir, runs>>

Requests == <<"post", "readback", "inclusion", "did">>
Carriers == {"post", "readback", "inclusion"}
Files == Carriers \cup {"did"}

Unsent == [status |-> "unsent", body |-> "no file"]
NotSent == [f \in Files |-> Unsent]
NoRun == [cp |-> NoCheckpoint, did |-> FALSE, events |-> NotSent, exit |-> "none"]
NoManifest == [identical |-> FALSE, signed |-> FALSE]
EmptyDir == [cp |-> NoCheckpoint, files |-> [f \in Files |-> "no file"],
             manifest |-> NoManifest, verified |-> FALSE]

Init ==
    /\ registered = {}
    /\ run = [NoRun EXCEPT !.exit = "ok"]
    /\ dir = EmptyDir
    /\ runs = 0

Running == run.exit = "none"

-----------------------------------------------------------------------------
\* checkpoint_from_registry_entry: the lines --batch-id leaves that are chained.
Selected(batch) ==
    {i \in DOMAIN Published : Published[i].batch = batch /\ Published[i].cp # NoCheckpoint}

\* The checkpoint is written to the directory first; the selection must be one.
Start(batch, did) ==
    /\ ~Running
    /\ runs < MaxRuns
    /\ Cardinality(Selected(batch)) = 1
    /\ \E i \in Selected(batch) :
          /\ run' = [NoRun EXCEPT !.cp = Published[i].cp, !.did = did]
          /\ dir' = [dir EXCEPT !.cp = Published[i].cp]
    /\ runs' = runs + 1
    /\ UNCHANGED registered

-----------------------------------------------------------------------------
\* The first planned request that was not sent yet.
Planned == IF run.did THEN Files ELSE Carriers
IsNext(f) ==
    \E k \in DOMAIN Requests :
        /\ f = Requests[k] /\ f \in Planned
        /\ run.events[f] = Unsent
        /\ \A j \in 1..(k - 1) : run.events[Requests[j]] # Unsent

\* What a witness that works answers: to the read-back by log id with any
\* checkpoint of the log it holds, to the others about the run's own.
Receipts(f) ==
    CASE f = "post" -> {run.cp}
      [] f = "readback" -> registered
      [] f = "inclusion" -> registered \cap {run.cp}
      [] f = "did" -> {"no receipt"}

\* A failure may come after the request has had its effect.
Effect(f) ==
    IF f = "post" THEN {registered, registered \cup {run.cp}} ELSE {registered}

\* Mutant: a body is kept only if the request succeeded.
Event_KeepsOnlySuccess(f, status, body) ==
    /\ run' = [run EXCEPT !.events[f] = [status |-> status, body |-> body]]
    /\ IF status # "200" THEN UNCHANGED dir
       ELSE dir' = [dir EXCEPT !.files[f] = body]
    /\ UNCHANGED runs

\* capture's loop body: the event is recorded, the body written if there is one.
Event(f, status, body) ==
    /\ run' = [run EXCEPT !.events[f] = [status |-> status, body |-> body]]
    /\ IF body = "no file" THEN UNCHANGED dir
       ELSE dir' = [dir EXCEPT !.files[f] = body]
    /\ UNCHANGED runs

Answered(f) ==
    /\ Running /\ IsNext(f)
    /\ \E body \in Receipts(f) : Event(f, "200", body)
    /\ registered' = IF f = "post" THEN registered \cup {run.cp} ELSE registered

\* An error status with its body, or a body that is none of the witness's.
Refused(f) ==
    /\ Running /\ IsNext(f)
    /\ \E status \in {"error", "200"}, body \in {"no receipt", "no JSON"} :
          Event(f, status, body)
    /\ registered' \in Effect(f)

\* A transport failure that request() turns into an observation.
Unanswered(f) ==
    /\ Running /\ IsNext(f)
    /\ Event(f, "none", "no file")
    /\ registered' \in Effect(f)

\* What request() does not catch (an answer cut short), a --did-url that is not
\* https, or the death of the process: nothing more is written.
Aborted(f) ==
    /\ Running /\ IsNext(f)
    /\ run' = [run EXCEPT !.exit = "aborted"]
    /\ registered' \in Effect(f)
    /\ UNCHANGED <<dir, runs>>

-----------------------------------------------------------------------------
\* Mutant: the receipt is checked, its binding to the checkpoint is not.
Verified_Unbound(cp, response) == cp \in Accepted /\ response \in Checkpoints

\* _witness.verify: identity and signature of the checkpoint, then a receipt
\* that is bound to it.
Verified(cp, response) == cp \in Accepted /\ response = cp

\* Mutant: only the responses that do carry a receipt are compared.
Identical_OfThoseThere(files) ==
    \A f, g \in Carriers :
        files[f] \in Checkpoints /\ files[g] \in Checkpoints => files[f] = files[g]

\* receipt_bytes_identical_across_responses, from the files in the directory.
Identical(files) ==
    /\ \A f \in Carriers : files[f] \in Checkpoints
    /\ \A f, g \in Carriers : files[f] = files[g]

\* Mutant: only a request that got an error status has failed.
NoFailures_Answered == \A f \in Planned : run.events[f].status # "error"

\* failures is empty.
NoFailures == \A f \in Planned : run.events[f].status = "200"

\* The manifest and verification.json, from the directory; then the exit code.
Finish ==
    LET files == dir.files
        cp == run.cp
        verified == Verified(cp, files["post"])
    IN  /\ Running
        /\ \A f \in Planned : run.events[f] # Unsent
        /\ dir' = [dir EXCEPT
              !.manifest = [identical |-> Identical(files),
                             signed |-> cp \in Accepted
                                          /\ files["post"] \notin {"no file", "no JSON"}],
              !.verified = verified]
        /\ run' = [run EXCEPT
              !.exit = IF verified /\ NoFailures /\ Identical(files) THEN "ok" ELSE "fail"]
        /\ UNCHANGED <<registered, runs>>

\* Somebody else's capture.
OthersSubmit(cp) ==
    /\ cp \notin registered
    /\ registered' = registered \cup {cp}
    /\ UNCHANGED <<run, dir, runs>>

Next ==
    \/ \E i \in DOMAIN Published, did \in BOOLEAN : Start(Published[i].batch, did)
    \/ \E f \in Files : Answered(f) \/ Refused(f) \/ Unanswered(f) \/ Aborted(f)
    \/ Finish
    \/ \E cp \in Checkpoints : OthersSubmit(cp)

Spec == Init /\ [][Next]_vars

-----------------------------------------------------------------------------
Bodies == Checkpoints \cup {"no receipt", "no JSON", "no file"}
Events == [Files -> [status : {"unsent", "200", "error", "none"}, body : Bodies]]

TypeOK ==
    /\ registered \subseteq Checkpoints
    /\ run \in [cp : Checkpoints \cup {NoCheckpoint}, did : BOOLEAN,
                events : Events, exit : {"none", "ok", "fail", "aborted"}]
    /\ dir \in [cp : Checkpoints \cup {NoCheckpoint}, files : [Files -> Bodies],
                manifest : [identical : BOOLEAN, signed : BOOLEAN], verified : BOOLEAN]
    /\ runs \in 0..MaxRuns
    /\ run.cp = dir.cp
    /\ \A f \in Files : run.events[f].body # "no file" => dir.files[f] = run.events[f].body

\* Exit code 0 is about this run: whatever earlier runs left in the directory and
\* whatever else the witness is asked meanwhile, each response was observed now
\* and carries the receipt of the checkpoint, which the witness has registered.
ExitZeroIsObserved ==
    run.exit = "ok" /\ runs > 0 =>
        /\ run.cp \in registered
        /\ \A f \in Carriers :
              run.events[f] = [status |-> "200", body |-> run.cp] /\ dir.files[f] = run.cp
        /\ dir.manifest = [identical |-> TRUE, signed |-> TRUE]

\* A verdict "verified" that a run of the tool wrote, even one that failed or
\* read a response an earlier run left, is about the checkpoint beside it, and
\* the witness has registered that one.
VerifiedIsWitnessed ==
    run.exit \in {"ok", "fail"} /\ dir.verified => dir.cp \in registered \cap Accepted
=============================================================================
