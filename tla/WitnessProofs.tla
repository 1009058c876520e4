---------------------------- MODULE WitnessProofs -----------------------------
(***************************************************************************)
(* That what a capture reports of a witness was observed, for any          *)
(* checkpoints and any number of runs in one directory, whatever each      *)
(* request meets.                                                          *)
(***************************************************************************)
EXTENDS WitnessCapture, TLAPS

\* A receipt in the directory is of a checkpoint that the witness holds.
ReceiptsAreReal == \A f \in Carriers : dir.files[f] \in Checkpoints => dir.files[f] \in registered

\* A request that succeeded left a body.
SuccessHasBody == \A f \in Files : run.events[f].status = "200" => run.events[f].body # "no file"

CaptureInv ==
    /\ TypeOK
    /\ Running => run.cp \in Checkpoints
    /\ ReceiptsAreReal
    /\ SuccessHasBody
    /\ ExitZeroIsObserved
    /\ VerifiedIsWitnessed

LEMMA InitInv == Init => CaptureInv
<1> SUFFICES ASSUME Init PROVE CaptureInv
  OBVIOUS
<1>1. /\ run = [cp |-> NoCheckpoint, did |-> FALSE, events |-> NotSent, exit |-> "ok"]
      /\ dir = [cp |-> NoCheckpoint, files |-> [f \in Files |-> "no file"],
                manifest |-> NoManifest, verified |-> FALSE]
      /\ registered = {} /\ runs = 0
  BY DEF Init, NoRun, EmptyDir
<1>2. TypeOK
  <2>1. NotSent \in Events /\ [f \in Files |-> "no file"] \in [Files -> Bodies]
    BY DEF NotSent, Unsent, Events, Bodies
  <2>2. NoManifest \in [identical : BOOLEAN, signed : BOOLEAN]
    BY DEF NoManifest
  <2>3. \A f \in Files : NotSent[f].body = "no file"
    BY DEF NotSent, Unsent
  <2>4. runs \in 0..MaxRuns
    <3>1. runs = 0 /\ MaxRuns \in Nat
      BY <1>1, CaptureAssumption
    <3> QED
      BY <3>1
  <2>5. run \in [cp : Checkpoints \cup {NoCheckpoint}, did : BOOLEAN,
                 events : Events, exit : {"none", "ok", "fail", "aborted"}]
    BY <1>1, <2>1
  <2>6. dir \in [cp : Checkpoints \cup {NoCheckpoint}, files : [Files -> Bodies],
                 manifest : [identical : BOOLEAN, signed : BOOLEAN], verified : BOOLEAN]
    BY <1>1, <2>1, <2>2
  <2> QED
    BY <1>1, <2>3, <2>4, <2>5, <2>6 DEF TypeOK
<1>3. ReceiptsAreReal /\ SuccessHasBody
  <2>1. "no file" \notin Checkpoints
    BY CaptureAssumption
  <2>2. \A f \in Files : dir.files[f] = "no file" /\ run.events[f].status = "unsent"
    BY <1>1 DEF NotSent, Unsent
  <2> QED
    BY <2>1, <2>2 DEF ReceiptsAreReal, SuccessHasBody, Files
<1>4. ExitZeroIsObserved /\ VerifiedIsWitnessed
  <2>1. ~(runs > 0) /\ dir.verified = FALSE
    <3>1. runs = 0
      BY <1>1
    <3>2. dir.verified = FALSE
      BY <1>1
    <3> QED
      BY <3>1, <3>2
  <2> QED
    BY <2>1 DEF ExitZeroIsObserved, VerifiedIsWitnessed
<1>5. ~Running
  BY <1>1 DEF Running
<1> QED
  BY <1>2, <1>3, <1>4, <1>5 DEF CaptureInv

LEMMA StartInv ==
    ASSUME CaptureInv, NEW batch, NEW did \in BOOLEAN, Start(batch, did)
    PROVE  CaptureInv'
<1>1. PICK i \in DOMAIN Published :
          /\ run' = [NoRun EXCEPT !.cp = Published[i].cp, !.did = did]
          /\ dir' = [dir EXCEPT !.cp = Published[i].cp]
          /\ runs' = runs + 1 /\ runs < MaxRuns /\ registered' = registered
          /\ Published[i].cp # NoCheckpoint
  BY DEF Start, Selected
<1> DEFINE cp == Published[i].cp
<1>2. cp \in Checkpoints
  <2>1. i \in DOMAIN Published => cp \in Checkpoints \cup {NoCheckpoint}
    BY PublishedAssumption
  <2> QED
    BY <1>1, <2>1
<1>3. TypeOK
  BY DEF CaptureInv
<1>4. run' = [cp |-> cp, did |-> did, events |-> NotSent, exit |-> "none"]
  BY <1>1 DEF NoRun
<1>5. dir' = [cp |-> cp, files |-> dir.files, manifest |-> dir.manifest, verified |-> dir.verified]
  BY <1>3, <1>1 DEF TypeOK
<1> HIDE DEF cp
<1>6. TypeOK'
  <2>1. NotSent \in Events /\ \A f \in Files : NotSent[f].body = "no file"
    BY DEF NotSent, Unsent, Events, Bodies
  <2>2. runs' \in 0..MaxRuns
    <3>1. MaxRuns \in Nat
      BY CaptureAssumption
    <3>2. runs \in 0..MaxRuns
      BY <1>3 DEF TypeOK
    <3>3. runs' = runs + 1 /\ runs < MaxRuns
      BY <1>1
    <3> QED
      BY <3>1, <3>2, <3>3
  <2>3. run' \in [cp : Checkpoints \cup {NoCheckpoint}, did : BOOLEAN,
                  events : Events, exit : {"none", "ok", "fail", "aborted"}]
    BY <1>2, <1>4, <2>1
  <2>4. dir' \in [cp : Checkpoints \cup {NoCheckpoint}, files : [Files -> Bodies],
                  manifest : [identical : BOOLEAN, signed : BOOLEAN], verified : BOOLEAN]
    BY <1>3, <1>2, <1>5 DEF TypeOK
  <2>5. run'.cp = dir'.cp /\ run'.events = NotSent
    BY <1>4, <1>5
  <2>6. registered' \subseteq Checkpoints
    BY <1>3, <1>1 DEF TypeOK
  <2> QED
    BY <2>1, <2>2, <2>3, <2>4, <2>5, <2>6 DEF TypeOK
<1>7. dir'.files = dir.files /\ run'.exit = "none" /\ run'.events = NotSent
      /\ run'.cp \in Checkpoints
  BY <1>2, <1>4, <1>5
<1>8. ReceiptsAreReal'
  BY <1>1, <1>7 DEF CaptureInv, ReceiptsAreReal
<1>9. SuccessHasBody'
  <2>1. \A f \in Files : NotSent[f].status # "200"
    BY DEF NotSent, Unsent
  <2> QED
    BY <1>7, <2>1 DEF SuccessHasBody
<1> QED
  BY <1>6, <1>7, <1>8, <1>9 DEF CaptureInv, ExitZeroIsObserved, VerifiedIsWitnessed

\* A request of a run under way, with whatever answer: the witness may hold more
\* after it, and a receipt it gave is of a checkpoint it holds.
LEMMA EventInv ==
    ASSUME CaptureInv, Running, NEW f \in Files, NEW status \in {"200", "error", "none"},
           NEW body \in Bodies, Event(f, status, body), status = "200" => body # "no file",
           registered \subseteq registered', registered' \subseteq Checkpoints,
           f \in Carriers /\ body \in Checkpoints => body \in registered'
    PROVE  CaptureInv'
<1> DEFINE event == [status |-> status, body |-> body]
<1>1. /\ run' = [run EXCEPT !.events = [run.events EXCEPT ![f] = event]]
      /\ dir' = IF body = "no file" THEN dir
                ELSE [dir EXCEPT !.files = [dir.files EXCEPT ![f] = body]]
      /\ runs' = runs
  BY DEF Event
<1>2. TypeOK /\ run.exit = "none" /\ run.cp \in Checkpoints
  BY DEF CaptureInv, Running
<1>3. /\ run'.cp = run.cp /\ run'.did = run.did /\ run'.exit = "none"
      /\ run'.events = [run.events EXCEPT ![f] = event]
      /\ dir'.cp = dir.cp /\ dir'.manifest = dir.manifest /\ dir'.verified = dir.verified
      /\ dir'.files = IF body = "no file" THEN dir.files ELSE [dir.files EXCEPT ![f] = body]
  BY <1>1, <1>2 DEF TypeOK
<1>4. event \in [status : {"unsent", "200", "error", "none"}, body : Bodies]
      /\ event.status = status /\ event.body = body
  OBVIOUS
<1> HIDE DEF event
<1>5. /\ run'.events \in Events
      /\ \A g \in Files : run'.events[g] = IF g = f THEN event ELSE run.events[g]
  <2>1. run.events \in Events
    BY <1>2 DEF TypeOK
  <2> QED
    BY <1>3, <1>4, <2>1 DEF Events
<1>6. /\ dir'.files \in [Files -> Bodies]
      /\ \A g \in Files : dir'.files[g] = IF g = f /\ body # "no file" THEN body ELSE dir.files[g]
  <2>1. dir.files \in [Files -> Bodies]
    BY <1>2 DEF TypeOK
  <2> QED
    BY <1>3, <2>1
<1>7. TypeOK'
  <2>1. run' \in [cp : Checkpoints \cup {NoCheckpoint}, did : BOOLEAN,
                  events : Events, exit : {"none", "ok", "fail", "aborted"}]
    BY <1>1, <1>2, <1>5, <1>3 DEF TypeOK
  <2>2. dir' \in [cp : Checkpoints \cup {NoCheckpoint}, files : [Files -> Bodies],
                  manifest : [identical : BOOLEAN, signed : BOOLEAN], verified : BOOLEAN]
    BY <1>1, <1>2, <1>6, <1>3 DEF TypeOK
  <2>3. \A g \in Files : run'.events[g].body # "no file" => dir'.files[g] = run'.events[g].body
    BY <1>2, <1>4, <1>5, <1>6 DEF TypeOK
  <2> QED
    BY <1>1, <1>2, <1>3, <2>1, <2>2, <2>3 DEF TypeOK
<1>8. ReceiptsAreReal'
  BY <1>6 DEF CaptureInv, ReceiptsAreReal, Files
<1>9. SuccessHasBody'
  BY <1>4, <1>5 DEF CaptureInv, SuccessHasBody
<1> QED
  BY <1>3, <1>7, <1>8, <1>9 DEF CaptureInv, ExitZeroIsObserved, VerifiedIsWitnessed

LEMMA RequestInv ==
    ASSUME CaptureInv, NEW f \in Files, Answered(f) \/ Refused(f) \/ Unanswered(f)
    PROVE  CaptureInv'
<1>1. Running /\ registered \subseteq Checkpoints /\ run.cp \in Checkpoints
  BY DEF CaptureInv, TypeOK, Answered, Refused, Unanswered
<1>2. registered \subseteq registered' /\ registered' \subseteq Checkpoints
  BY <1>1 DEF Answered, Refused, Unanswered, Effect
<1>3. "no receipt" \notin Checkpoints /\ "no JSON" \notin Checkpoints /\ "no file" \notin Checkpoints
  BY CaptureAssumption
<1>4. CASE Answered(f)
  <2>1. PICK body \in Receipts(f) : Event(f, "200", body)
    BY <1>4 DEF Answered
  <2>2. body \in registered' \/ body = "no receipt"
    BY <1>2, <1>4, <2>1 DEF Answered, Receipts, Files, Carriers
  <2>3. body \in Bodies /\ body # "no file" /\ (body \in Checkpoints => body \in registered')
    BY <1>2, <1>3, <2>2 DEF Bodies
  <2> QED
    BY <1>1, <1>2, <2>1, <2>3, EventInv
<1>5. CASE Refused(f)
  <2>1. PICK status \in {"error", "200"}, body \in {"no receipt", "no JSON"} : Event(f, status, body)
    BY <1>5 DEF Refused
  <2>2. body \in Bodies /\ body # "no file" /\ body \notin Checkpoints
    BY <1>3 DEF Bodies
  <2> QED
    BY <1>1, <1>2, <2>1, <2>2, EventInv
<1>6. CASE Unanswered(f)
  <2>1. Event(f, "none", "no file") /\ "no file" \in Bodies
    BY <1>6 DEF Unanswered, Bodies
  <2> QED
    BY <1>1, <1>2, <1>3, <2>1, EventInv
<1> QED
  BY <1>4, <1>5, <1>6

LEMMA AbortedInv ==
    ASSUME CaptureInv, NEW f \in Files, Aborted(f)
    PROVE  CaptureInv'
<1>1. /\ run' = [run EXCEPT !.exit = "aborted"] /\ dir' = dir /\ runs' = runs
      /\ registered \subseteq registered' /\ registered' \subseteq Checkpoints
  BY DEF CaptureInv, TypeOK, Aborted, Effect
<1>2. TypeOK' /\ run'.exit = "aborted" /\ run'.events = run.events
  BY <1>1 DEF CaptureInv, TypeOK
<1> QED
  BY <1>1, <1>2 DEF CaptureInv, Running, ReceiptsAreReal, SuccessHasBody, ExitZeroIsObserved,
                    VerifiedIsWitnessed

\* The verdicts are read off the directory, which an earlier run may have filled;
\* exit code 0 takes in addition that no request of this one failed.
LEMMA FinishInv == ASSUME CaptureInv, Finish PROVE CaptureInv'
<1> DEFINE post == dir.files["post"]
           verified == Verified(run.cp, post)
           signed == run.cp \in Accepted /\ post \notin {"no file", "no JSON"}
           identical == Identical(dir.files)
           status == IF verified /\ NoFailures /\ identical THEN "ok" ELSE "fail"
<1>1. /\ dir' = [dir EXCEPT !.manifest = [identical |-> identical, signed |-> signed],
                            !.verified = verified]
      /\ run' = [run EXCEPT !.exit = status]
      /\ registered' = registered /\ runs' = runs
  BY DEF Finish
<1>2. identical \in BOOLEAN /\ verified \in BOOLEAN /\ signed \in BOOLEAN /\ status \in {"ok", "fail"}
  BY DEF Identical, Verified
<1>3. /\ run'.cp = run.cp /\ run'.did = run.did /\ run'.events = run.events /\ run'.exit = status
      /\ dir'.cp = dir.cp /\ dir'.files = dir.files /\ dir'.verified = verified
      /\ dir'.manifest = [identical |-> identical, signed |-> signed]
  BY <1>1 DEF CaptureInv, TypeOK
<1>4. verified => run.cp \in Accepted /\ post = run.cp /\ run.cp \in Checkpoints
                    /\ run.cp \in registered
  BY CaptureAssumption DEF Verified, CaptureInv, ReceiptsAreReal, Carriers
<1>5. ASSUME verified, NoFailures, identical
      PROVE  /\ signed
             /\ \A f \in Carriers : run.events[f] = [status |-> "200", body |-> run.cp]
                                    /\ dir.files[f] = run.cp
  <2>1. signed
    BY <1>4, <1>5, CaptureAssumption
  <2>2. ASSUME NEW f \in Carriers
        PROVE  run.events[f] = [status |-> "200", body |-> run.cp] /\ dir.files[f] = run.cp
    <3>1. dir.files[f] = run.cp
      BY <1>4, <1>5 DEF Identical, Carriers
    <3>2. run.events[f].status = "200" /\ f \in Files
      BY <1>5 DEF NoFailures, Planned, Files
    <3>3. run.events[f].body = dir.files[f]
      BY <3>2 DEF CaptureInv, SuccessHasBody, TypeOK
    <3>4. run.events[f] \in [status : {"unsent", "200", "error", "none"}, body : Bodies]
      BY <3>2 DEF CaptureInv, TypeOK, Events
    <3> QED
      BY <3>1, <3>2, <3>3, <3>4
  <2> QED
    BY <2>1, <2>2
<1> HIDE DEF verified, signed, identical, status
<1>6. TypeOK'
  <2>1. run' \in [cp : Checkpoints \cup {NoCheckpoint}, did : BOOLEAN,
                  events : Events, exit : {"none", "ok", "fail", "aborted"}]
    BY <1>1, <1>2 DEF CaptureInv, TypeOK
  <2>2. dir' \in [cp : Checkpoints \cup {NoCheckpoint}, files : [Files -> Bodies],
                  manifest : [identical : BOOLEAN, signed : BOOLEAN], verified : BOOLEAN]
    BY <1>1, <1>2 DEF CaptureInv, TypeOK
  <2> QED
    BY <1>1, <1>3, <2>1, <2>2 DEF CaptureInv, TypeOK
<1>7. ReceiptsAreReal'
  BY <1>1, <1>3 DEF CaptureInv, ReceiptsAreReal
<1>8. SuccessHasBody'
  BY <1>3 DEF CaptureInv, SuccessHasBody
<1>9. ExitZeroIsObserved'
  <2>1. status = "ok" => verified /\ NoFailures /\ identical
    BY DEF status
  <2> QED
    BY <1>1, <1>2, <1>3, <1>4, <1>5, <2>1 DEF ExitZeroIsObserved
<1>10. VerifiedIsWitnessed'
  BY <1>1, <1>3, <1>4 DEF VerifiedIsWitnessed, CaptureInv, TypeOK
<1> QED
  BY <1>2, <1>3, <1>6, <1>7, <1>9, <1>10, <1>8 DEF CaptureInv, Running

LEMMA OthersInv ==
    ASSUME CaptureInv, (\E cp \in Checkpoints : OthersSubmit(cp)) \/ UNCHANGED vars
    PROVE  CaptureInv'
<1>1. /\ run' = run /\ dir' = dir /\ runs' = runs
      /\ registered \subseteq registered' /\ registered' \subseteq Checkpoints
  BY DEF CaptureInv, TypeOK, OthersSubmit, vars
<1>2. TypeOK'
  BY <1>1 DEF CaptureInv, TypeOK
<1> QED
  BY <1>1, <1>2 DEF CaptureInv, Running, ReceiptsAreReal, SuccessHasBody, ExitZeroIsObserved,
                    VerifiedIsWitnessed

LEMMA CaptureInvariant == Spec => []CaptureInv
<1>1. CaptureInv /\ [Next]_vars => CaptureInv'
  BY StartInv, RequestInv, AbortedInv, FinishInv, OthersInv DEF Next
<1> QED
  BY InitInv, <1>1, PTL DEF Spec

-----------------------------------------------------------------------------
\* Exit code 0 is about responses this run observed, and about a checkpoint the
\* witness holds, for any number of runs over one directory.
THEOREM ExitZeroObserved == Spec => []ExitZeroIsObserved
BY CaptureInvariant, PTL DEF CaptureInv

\* What any run recorded as verified was registered with the witness, though the
\* response it verified may be one an earlier run left in the directory.
THEOREM VerifiedWitnessed == Spec => []VerifiedIsWitnessed
BY CaptureInvariant, PTL DEF CaptureInv

\* The variables of the capture and of its directory keep their types.
THEOREM CaptureTypes == Spec => []TypeOK
BY CaptureInvariant, PTL DEF CaptureInv
=============================================================================
