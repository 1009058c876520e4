------------------------ MODULE AnchorPipelineProofs -------------------------
(***************************************************************************)
(* The published registry implements RegistryLog, for any claim files,     *)
(* keys, number of failures and interleaving of merges with a running job; *)
(* and staging, proofs and registry on main agree about every claim file.  *)
(***************************************************************************)
EXTENDS AnchorPipeline, CheckpointChainProofs

-----------------------------------------------------------------------------
(* The tool on a tree that outlives its runs. *)

\* The least file of a non-empty set of files.
LEMMA FirstIsLeast ==
    ASSUME NEW S \in SUBSET Files, S # {}
    PROVE  First(S) \in S /\ \A g \in S : First(S) <= g
<1>1. S \in SUBSET Nat
  BY FilesAssumption
<1>2. \E f \in S : \A g \in S : f <= g
  BY <1>1, LeastElement
<1> QED
  BY <1>2 DEF First

\* The next group is a non-empty part of what is to do.
LEMMA NextGroupIsTodo ==
    ASSUME todo \subseteq Files, todo # {}
    PROVE  NextGroup \subseteq todo /\ NextGroup # {}
<1>1. First(todo) \in todo
  BY FirstIsLeast
<1> QED
  BY <1>1 DEF NextGroup

LEMMA BatchIdType == ASSUME NEW S \in SUBSET Files PROVE BatchId(S) \in Ids
BY DEF Ids

LEMMA EmptyLeaves == <<>> \in Seq(Leaf)
BY EmptySeq

LEMMA NoCheckpointType == NoCheckpoint \in Checkpoint
BY EmptyLeaves DEF NoCheckpoint, Checkpoint

LEMMA LastCheckpointType ==
    ASSUME NEW r \in Seq(RegistryEntry)
    PROVE  LastCheckpoint(r) \in Checkpoint
<1>1. \A i \in DOMAIN r : r[i].cp \in Checkpoint
  <2>1. \A i \in DOMAIN r : r[i] \in RegistryEntry
    BY ElementOfSeq, LenProperties
  <2> QED
    BY <2>1 DEF RegistryEntry
<1> QED
  BY <1>1, LastCheckpointCases, NoCheckpointType

\* What a log that may resume has replayed: the leaves of the last checkpoint.
LEMMA ResumedLeaves ==
    ASSUME NEW r \in Seq(RegistryEntry), NEW k, CanResume(r, k)
    PROVE  LeavesOf(r) = LastCheckpoint(r).leaves
<1>1. CASE LastCheckpoint(r) # NoCheckpoint
  BY <1>1 DEF CanResume
<1>2. CASE LastCheckpoint(r) = NoCheckpoint
  <2>1. \A i \in DOMAIN r : ~Chained(r[i])
    BY <1>2, LastCheckpointCases
  <2>2. NoCheckpoint.leaves = <<>>
    BY DEF NoCheckpoint
  <2> QED
    BY <1>2, <2>1, <2>2, NoChainedNoLeaves
<1> QED
  BY <1>1, <1>2

LEMMA MintedType ==
    ASSUME NEW ls \in Seq(Leaf), NEW last \in Checkpoint, NEW S \in SUBSET Files,
           NEW time \in Nat, NEW k \in Keys
    PROVE  LET leaf == LeafOf(Entry(S, time, NoCheckpoint))
           IN  /\ leaf \in Leaf
               /\ Append(ls, leaf) \in Seq(Leaf)
               /\ MintedOver(ls, last, leaf, k) \in Checkpoint
<1> DEFINE leaf == LeafOf(Entry(S, time, NoCheckpoint))
<1>1. leaf \in Leaf
  BY DEF LeafOf, Entry, Leaf
<1> HIDE DEF leaf
<1>2. Append(ls, leaf) \in Seq(Leaf)
  BY <1>1, AppendProperties
<1>3. MintedOver(ls, last, leaf, k) \in Checkpoint
  BY <1>2 DEF MintedOver, Checkpoint
<1> QED
  BY <1>1, <1>2, <1>3 DEF leaf

-----------------------------------------------------------------------------
LEMMA InitType == Init => TypeOK
<1> SUFFICES ASSUME Init PROVE TypeOK
  OBVIOUS
<1>1. LegacyEntry \in RegistryEntry
  <2>1. BatchId({}) \in Ids
    BY BatchIdType
  <2> QED
    BY <2>1, NoCheckpointType DEF LegacyEntry, Entry, RegistryEntry
<1>2. registry \in Seq(RegistryEntry)
  <2>1. <<>> \in Seq(RegistryEntry)
    BY EmptySeq
  <2>2. <<LegacyEntry>> \in Seq(RegistryEntry)
    BY <1>1
  <2> QED
    BY <2>1, <2>2 DEF Init, TreeInit
<1>3. log \in [leaves : Seq(Leaf), latest : Checkpoint]
  BY EmptyLeaves, NoCheckpointType DEF Init, RunInit
<1>4. incoming = {} /\ processed = {} /\ proofs = {}
  BY DEF Init, TreeInit
<1>5. /\ pc = "idle" /\ todo = {} /\ batch = {} /\ left = {}
      /\ signer = NoKey /\ failed = FALSE /\ anchored = FALSE /\ exit = "none"
  BY DEF Init, RunInit
<1>6. /\ key \in Keys \cup {NoKey} /\ ts \in Nat /\ faults \in 0..MaxFaults
      /\ unread = {} /\ missed = {}
  BY BoundAssumption DEF Init, EnvInit
<1> QED
  BY <1>2, <1>3, <1>4, <1>5, <1>6 DEF TypeOK

\* Every step of the tool keeps the types.
LEMMA ToolType == TypeOK /\ ToolStep => TypeOK'
<1> SUFFICES ASSUME TypeOK, ToolStep PROVE TypeOK'
  OBVIOUS
<1> USE DEF TypeOK
<1>1. CASE StartRun
  <2>1. Truncated(Records(incoming)) \subseteq Files
    BY DEF Truncated, Records
  <2>2. ts' \in Nat
    BY <1>1, BoundAssumption DEF StartRun
  <2> QED
    BY <1>1, <2>1, <2>2 DEF StartRun, tree
<1>2. CASE NothingPending
  BY <1>2 DEF NothingPending, tree, env
<1>3. CASE OpenLog
  <2>1. LastCheckpoint(registry) \in Checkpoint
    BY LastCheckpointType
  <2>2. LeavesOf(registry) \in Seq(Leaf)
    BY <1>3, <2>1, ResumedLeaves DEF OpenLog, Checkpoint
  <2>3. log' \in [leaves : Seq(Leaf), latest : Checkpoint]
    BY <1>3, <2>1, <2>2 DEF OpenLog
  <2> QED
    BY <1>3, <2>3 DEF OpenLog, tree, env
<1>4. CASE OpenRaises
  BY <1>4, EmptyLeaves, NoCheckpointType DEF OpenRaises, Ends, tree, env
<1>5. CASE OpenWithoutKey
  <2>1. CASE Ends("fail")
    BY <1>5, <2>1, EmptyLeaves, NoCheckpointType DEF OpenWithoutKey, Ends, tree, env
  <2>2. CASE ~Ends("fail")
    BY <1>5, <2>2 DEF OpenWithoutKey, tree, env
  <2> QED
    BY <2>1, <2>2
<1>6. CASE RejectGroup
  BY <1>6 DEF RejectGroup, tree, env
<1>7. CASE SkipGroup \/ GroupRefused
  BY <1>7 DEF SkipGroup, GroupRefused, tree, env
<1>8. CASE BeginGroup
  <2>1. NextGroup \subseteq Files
    BY <1>8, NextGroupIsTodo DEF BeginGroup
  <2>2. log' \in [leaves : Seq(Leaf), latest : Checkpoint]
    <3>1. CASE signer = NoKey
      BY <1>8, <3>1 DEF BeginGroup
    <3>2. CASE signer # NoKey
      BY <1>8, <2>1, <3>2, MintedType DEF BeginGroup
    <3> QED
      BY <3>1, <3>2
  <2>3. missed' \subseteq Ids
    BY <1>8, <2>1, BatchIdType DEF BeginGroup
  <2> QED
    BY <1>8, <2>1, <2>2, <2>3 DEF BeginGroup, tree
<1>9. CASE WriteProof
  <2>1. First(left) \in left
    BY <1>9, FirstIsLeast DEF WriteProof
  <2>2. BatchId(batch) \in Ids
    BY BatchIdType
  <2>3. proofs' \subseteq ProofFile
    BY <1>9, <2>1, <2>2 DEF WriteProof, ProofFile
  <2> QED
    BY <1>9, <2>3 DEF WriteProof, env
<1>10. CASE AppendDayFile
  <2>1. Entry(batch, ts, IF signer = NoKey THEN NoCheckpoint ELSE log.latest)
            \in RegistryEntry
    BY BatchIdType, NoCheckpointType DEF Entry, RegistryEntry
  <2>2. registry' \in Seq(RegistryEntry)
    BY <1>10, <2>1, AppendProperties DEF AppendDayFile
  <2> QED
    BY <1>10, <2>2 DEF AppendDayFile, env
<1>11. CASE MoveFile
  <2>1. First(left) \in left
    BY <1>11, FirstIsLeast DEF MoveFile
  <2>2. BatchId(batch) \in Ids
    BY BatchIdType
  <2>3. /\ incoming' = incoming \ {First(left)}
        /\ processed' = processed \cup {[id |-> BatchId(batch), file |-> First(left)]}
        /\ left' = left \ {First(left)}
        /\ \/ left = {First(left)} /\ pc' = "next" /\ anchored' = TRUE /\ batch' = {}
           \/ pc' = pc /\ anchored' = anchored /\ batch' = batch
    BY <1>11 DEF MoveFile
  <2>4. left' \subseteq batch' /\ batch' \subseteq Files
    BY <2>1, <2>3
  <2>5. UNCHANGED <<proofs, registry, key, ts, faults, unread, missed,
                    todo, signer, log, failed, exit>>
    BY <1>11 DEF MoveFile, env
  <2>6. /\ incoming' \subseteq Files
        /\ processed' \subseteq [id : Ids, file : Files]
    BY <2>1, <2>2, <2>3
  <2>7. /\ pc' \in {"idle", "open", "next", "proofs", "move"}
        /\ anchored' \in BOOLEAN
    BY <2>3
  <2> QED
    BY <2>4, <2>5, <2>6, <2>7
<1>12. CASE GroupFails
  BY <1>12, BoundAssumption DEF GroupFails, tree
<1>13. CASE Finish
  BY <1>13, EmptyLeaves, NoCheckpointType DEF Finish, Ends, tree, env
<1> QED
  BY <1>1, <1>2, <1>3, <1>4, <1>5, <1>6, <1>7, <1>8, <1>9, <1>10, <1>11, <1>12,
     <1>13 DEF ToolStep

LEMMA TimesAreNat == ASSUME TypeOK PROVE \A i \in DOMAIN registry : registry[i].ts \in Nat
<1>1. registry \in Seq(RegistryEntry)
  BY DEF TypeOK
<1>2. \A i \in DOMAIN registry : registry[i] \in RegistryEntry
  BY <1>1, ElementOfSeq, LenProperties
<1> QED
  BY <1>2 DEF RegistryEntry

LEMMA EnvType ==
    ASSUME TypeOK, (\E f \in Files : Submit(f)) \/ ChangeKey \/ ChangeAccess \/ Crash
    PROVE  TypeOK'
<1> USE DEF TypeOK
<1>1. CASE \E f \in Files : Submit(f)
  BY <1>1 DEF Submit, env, run
<1>2. CASE ChangeKey
  BY <1>2, BoundAssumption DEF ChangeKey, tree, run
<1>3. CASE Crash
  BY <1>3, BoundAssumption, EmptyLeaves, NoCheckpointType DEF Crash, tree
<1>4. CASE ChangeAccess
  <2>1. \A i \in DOMAIN registry : registry[i].ts \in Nat
    BY TimesAreNat
  <2>2. unread' \subseteq Nat
    BY <1>4, <2>1 DEF ChangeAccess
  <2> QED
    BY <1>4, <2>2, BoundAssumption DEF ChangeAccess, tree, run
<1> QED
  BY <1>1, <1>2, <1>3, <1>4

LEMMA StutterType == TypeOK /\ UNCHANGED vars => TypeOK'
BY DEF TypeOK, vars

\* Every variable keeps its type.
THEOREM TypeCorrect == Spec => []TypeOK
<1>1. Init => TypeOK
  BY InitType
<1>2. TypeOK /\ [Next]_vars => TypeOK'
  BY ToolType, EnvType, StutterType DEF Next
<1> QED
  BY <1>1, <1>2, PTL DEF Spec

-----------------------------------------------------------------------------
(* A run under a key has read every day file when it opened the log, and no  *)
(* step of a run changes what may be read.                                  *)

SignerReadsAll ==
    /\ pc \in {"idle", "open"} => signer = NoKey
    /\ signer # NoKey => unread = {}

LEMMA StepReadsAll == SignerReadsAll /\ [Next]_vars => SignerReadsAll'
<1> SUFFICES ASSUME SignerReadsAll, [Next]_vars PROVE SignerReadsAll'
  OBVIOUS
<1>1. CASE StartRun \/ NothingPending \/ RejectGroup \/ SkipGroup \/ GroupRefused
  BY <1>1 DEF SignerReadsAll, StartRun, NothingPending, RejectGroup, SkipGroup, GroupRefused, env
<1>2. CASE OpenLog
  BY <1>2 DEF SignerReadsAll, OpenLog, env
<1>3. CASE OpenRaises \/ Finish \/ Crash
  BY <1>3 DEF SignerReadsAll, OpenRaises, Finish, Ends, Crash
<1>4. CASE OpenWithoutKey
  BY <1>4 DEF SignerReadsAll, OpenWithoutKey, Ends
<1>5. CASE BeginGroup \/ WriteProof \/ AppendDayFile \/ GroupFails
  BY <1>5 DEF SignerReadsAll, BeginGroup, WriteProof, AppendDayFile, GroupFails, env
<1>6. CASE MoveFile
  <2>1. pc = "move" /\ (pc' = "next" \/ pc' = pc) /\ UNCHANGED <<signer, unread>>
    BY <1>6 DEF MoveFile, env
  <2> QED
    BY <2>1 DEF SignerReadsAll
<1>7. CASE (\E f \in Files : Submit(f)) \/ ChangeKey \/ ChangeAccess
  BY <1>7 DEF SignerReadsAll, Submit, ChangeKey, ChangeAccess, env, run
<1>8. CASE UNCHANGED vars
  BY <1>8 DEF SignerReadsAll, vars
<1> QED
  BY <1>1, <1>2, <1>3, <1>4, <1>5, <1>6, <1>7, <1>8 DEF Next, ToolStep

LEMMA ReadsAllInvariant == Spec => []SignerReadsAll
<1>1. Init => SignerReadsAll
  BY DEF Init, RunInit, SignerReadsAll
<1> QED
  BY <1>1, StepReadsAll, PTL DEF Spec

-----------------------------------------------------------------------------
(* Why the properties of the tree hold together.  While a batch is being    *)
(* anchored its batch_id is not in the registry, or only in a day file that *)
(* the run could not read and so without a key; the proof files it replaces *)
(* belong to no other entry; those it has written so far are in place; and  *)
(* files are moved only when the batch's entry is there.                    *)

Listed(reg, id) == \E i \in DOMAIN reg : reg[i].id = id

BatchInv ==
    /\ pc = "proofs" /\ Listed(registry, BatchId(batch)) =>
            BatchId(batch) \in missed /\ signer = NoKey
    /\ pc = "proofs" => \A f \in batch \ left : ProofInPlace(ts, BatchId(batch), f, batch)
    /\ pc = "move" => \E i \in DOMAIN registry :
                          registry[i].id = BatchId(batch) /\ registry[i].batch = batch
    /\ RepeatsAreMissed
    /\ ProofsMatchEntries
    /\ ProcessedIsPublished

LEMMA InitBatchInv == Init => BatchInv
<1> SUFFICES ASSUME Init PROVE BatchInv
  OBVIOUS
<1>1. pc = "idle" /\ processed = {}
  BY DEF Init, RunInit, TreeInit
<1>2. registry = <<>> \/ registry = <<LegacyEntry>>
  BY DEF Init, TreeInit
<1>3. \A i \in DOMAIN registry : i = 1 /\ registry[i] = LegacyEntry
  BY <1>2
<1>4. LegacyEntry.batch = {}
  BY DEF LegacyEntry, Entry
<1> QED
  BY <1>1, <1>3, <1>4 DEF BatchInv, RepeatsAreMissed, ProofsMatchEntries, ProcessedIsPublished

\* Steps that leave the registry, the proofs and the processed files alone and
\* do not begin a batch.
LEMMA QuietBatchInv ==
    ASSUME BatchInv, UNCHANGED <<processed, proofs, registry, missed>>,
           \/ pc' \notin {"proofs", "move"}
           \/ UNCHANGED <<pc, batch, left, ts, signer>>
    PROVE  BatchInv'
<1>1. (RepeatsAreMissed /\ ProofsMatchEntries /\ ProcessedIsPublished)'
  BY DEF BatchInv, RepeatsAreMissed, ProofsMatchEntries, ProcessedIsPublished, ProofInPlace
<1>2. CASE pc' \notin {"proofs", "move"}
  BY <1>1, <1>2 DEF BatchInv
<1>3. CASE UNCHANGED <<pc, batch, left, ts, signer>>
  <2>1. BatchId(batch)' = BatchId(batch)
    BY <1>3 DEF BatchId
  <2> QED
    BY <1>1, <1>3, <2>1 DEF BatchInv, Listed, ProofInPlace
<1> QED
  BY <1>2, <1>3

LEMMA BeginBatchInv == TypeOK /\ SignerReadsAll /\ BatchInv /\ BeginGroup => BatchInv'
<1> SUFFICES ASSUME TypeOK, SignerReadsAll, BatchInv, BeginGroup PROVE BatchInv'
  OBVIOUS
<1> DEFINE id == BatchId(NextGroup)
<1>1. /\ UNCHANGED <<processed, proofs, registry, signer>>
      /\ pc' = "proofs" /\ batch' = NextGroup /\ left' = NextGroup
      /\ id \notin IdsDated(Nat \ unread)
      /\ missed' = missed \cup ({id} \cap IdsDated(unread))
  BY DEF BeginGroup, tree, PublishedIds
<1>2. BatchId(batch)' = id
  BY <1>1 DEF BatchId
<1> HIDE DEF id
<1>3. ASSUME Listed(registry, id) PROVE id \in missed' /\ signer = NoKey
  <2>1. PICK i \in DOMAIN registry : registry[i].id = id
    BY <1>3 DEF Listed
  <2>2. registry[i].ts \in unread
    BY <1>1, <2>1, TimesAreNat DEF IdsDated
  <2> QED
    BY <1>1, <2>1, <2>2 DEF IdsDated, SignerReadsAll
<1>4. batch' \ left' = {}
  BY <1>1
<1>5. missed \subseteq missed'
  BY <1>1
<1>6. (RepeatsAreMissed /\ ProofsMatchEntries /\ ProcessedIsPublished)'
  BY <1>1, <1>5 DEF BatchInv, RepeatsAreMissed, ProofsMatchEntries, ProcessedIsPublished,
                    ProofInPlace
<1>7. (pc = "proofs" /\ Listed(registry, BatchId(batch)) =>
            BatchId(batch) \in missed /\ signer = NoKey)'
  BY <1>1, <1>2, <1>3 DEF Listed
<1> QED
  BY <1>1, <1>4, <1>6, <1>7 DEF BatchInv

LEMMA WriteProofBatchInv == TypeOK /\ BatchInv /\ WriteProof => BatchInv'
<1> SUFFICES ASSUME TypeOK, BatchInv, WriteProof PROVE BatchInv'
  OBVIOUS
<1> DEFINE f == First(left)
           id == BatchId(batch)
<1>1. /\ proofs' = {p \in proofs : ~(p.day = ts /\ p.id = id /\ p.file = f)}
                       \cup {[day |-> ts, id |-> id, file |-> f, tree |-> batch]}
      /\ left' = left \ {f}
      /\ UNCHANGED <<processed, registry, pc, batch, ts, missed, signer>>
      /\ pc = "proofs"
  BY DEF WriteProof, env
<1>2. (Listed(registry, id) => id \in missed /\ signer = NoKey) /\ BatchId(batch)' = id
  BY <1>1 DEF BatchInv, BatchId
<1>3. ASSUME NEW g \in batch \ left' PROVE ProofInPlace(ts, id, g, batch)'
  <2>1. CASE g = f
    BY <1>1, <1>2, <2>1 DEF ProofInPlace
  <2>2. CASE g # f
    <3>1. ProofInPlace(ts, id, g, batch)
      BY <1>1, <2>2 DEF BatchInv
    <3> HIDE DEF id, f
    <3>2. [day |-> ts, id |-> id, file |-> g, tree |-> batch] \in proofs'
      BY <1>1, <2>2, <3>1 DEF ProofInPlace
    <3>3. \A p \in proofs' : p.day = ts /\ p.id = id /\ p.file = g => p.tree = batch
      BY <1>1, <2>2, <3>1 DEF ProofInPlace
    <3>4. UNCHANGED <<batch, ts>> /\ id' = id
      BY <1>1, <1>2 DEF id
    <3> QED
      BY <3>2, <3>3, <3>4 DEF ProofInPlace
  <2> QED
    BY <2>1, <2>2
<1>4. ProofsMatchEntries'
  <2> HIDE DEF id, f
  <2> SUFFICES ASSUME NEW i \in DOMAIN registry, registry[i].id \notin missed,
                      NEW g \in registry[i].batch
               PROVE  ProofInPlace(registry[i].ts, registry[i].id, g, registry[i].batch)'
    BY <1>1 DEF ProofsMatchEntries
  <2>1. registry[i].id # id
    BY <1>2 DEF Listed
  <2>2. ProofInPlace(registry[i].ts, registry[i].id, g, registry[i].batch)
    BY DEF BatchInv, ProofsMatchEntries
  <2> QED
    BY <1>1, <2>1, <2>2 DEF ProofInPlace
<1>5. RepeatsAreMissed' /\ ProcessedIsPublished'
  BY <1>1 DEF BatchInv, RepeatsAreMissed, ProcessedIsPublished
<1>6. (Listed(registry, id) => id \in missed /\ signer = NoKey)'
  BY <1>1, <1>2 DEF Listed
<1> QED
  BY <1>1, <1>2, <1>3, <1>4, <1>5, <1>6 DEF BatchInv

LEMMA AppendBatchInv == TypeOK /\ BatchInv /\ AppendDayFile => BatchInv'
<1> SUFFICES ASSUME TypeOK, BatchInv, AppendDayFile PROVE BatchInv'
  OBVIOUS
<1> DEFINE e == Entry(batch, ts, IF signer = NoKey THEN NoCheckpoint ELSE log.latest)
<1>1. /\ registry' = Append(registry, e)
      /\ UNCHANGED <<processed, proofs, batch, ts, missed>>
      /\ pc = "proofs" /\ pc' = "move" /\ left = {}
  BY DEF AppendDayFile, env
<1>2. /\ e.id = BatchId(batch) /\ e.batch = batch /\ e.ts = ts
      /\ signer = NoKey => ~Chained(e)
  BY DEF Entry, Chained, NoCheckpoint
<1>3. e \in RegistryEntry
  BY BatchIdType, NoCheckpointType DEF TypeOK, Entry, RegistryEntry
<1> HIDE DEF e
<1>4. /\ DOMAIN registry = 1..Len(registry) /\ Len(registry) \in Nat
      /\ DOMAIN registry' = 1..Len(registry) + 1
      /\ \A i \in 1..Len(registry) : registry'[i] = registry[i]
      /\ registry'[Len(registry) + 1] = e
  BY <1>1, <1>3, AppendProperties, LenProperties DEF TypeOK
<1>5. ASSUME NEW i \in DOMAIN registry, registry[i].id = e.id
      PROVE  e.id \in missed /\ ~Chained(e)
  <2>1. Listed(registry, BatchId(batch))
    BY <1>2, <1>5 DEF Listed
  <2> QED
    BY <1>1, <1>2, <2>1 DEF BatchInv
<1>6. RepeatsAreMissed'
  <2> SUFFICES ASSUME NEW i \in DOMAIN registry', NEW j \in DOMAIN registry',
                      i < j, registry'[i].id = registry'[j].id
               PROVE  registry'[i].id \in missed /\ ~Chained(registry'[j])
    BY <1>1 DEF RepeatsAreMissed
  <2>1. CASE j \in 1..Len(registry)
    BY <1>4, <2>1 DEF BatchInv, RepeatsAreMissed
  <2>2. CASE j = Len(registry) + 1
    BY <1>4, <1>5, <2>2
  <2> QED
    BY <1>4, <2>1, <2>2
<1>7. ProofsMatchEntries'
  <2> SUFFICES ASSUME NEW i \in DOMAIN registry', registry'[i].id \notin missed,
                      NEW g \in registry'[i].batch
               PROVE  ProofInPlace(registry'[i].ts, registry'[i].id, g, registry'[i].batch)
    BY <1>1 DEF ProofsMatchEntries, ProofInPlace
  <2>1. CASE i \in 1..Len(registry)
    BY <1>4, <2>1 DEF BatchInv, ProofsMatchEntries
  <2>2. CASE i = Len(registry) + 1
    <3>1. registry'[i] = e
      BY <1>4, <2>2
    <3>2. ProofInPlace(ts, BatchId(batch), g, batch)
      BY <1>1, <1>2, <3>1 DEF BatchInv
    <3> QED
      BY <1>2, <3>1, <3>2
  <2> QED
    BY <1>4, <2>1, <2>2
<1>8. ProcessedIsPublished'
  BY <1>1, <1>4 DEF BatchInv, ProcessedIsPublished
<1>9. \E i \in DOMAIN registry' : /\ registry'[i].id = BatchId(batch)'
                                  /\ registry'[i].batch = batch'
  <2>1. Len(registry) + 1 \in DOMAIN registry'
    BY <1>4
  <2>2. BatchId(batch)' = BatchId(batch)
    BY <1>1 DEF BatchId
  <2> QED
    BY <1>1, <1>2, <1>4, <2>1, <2>2
<1> QED
  BY <1>1, <1>6, <1>7, <1>8, <1>9 DEF BatchInv

LEMMA MoveBatchInv == TypeOK /\ BatchInv /\ MoveFile => BatchInv'
<1> SUFFICES ASSUME TypeOK, BatchInv, MoveFile PROVE BatchInv'
  OBVIOUS
<1>1. First(left) \in batch
  BY FirstIsLeast DEF TypeOK, MoveFile
<1>2. /\ processed' = processed \cup {[id |-> BatchId(batch), file |-> First(left)]}
      /\ UNCHANGED <<proofs, registry, missed>>
      /\ pc = "move"
      /\ pc' = "next" \/ (pc' = "move" /\ batch' = batch)
  BY DEF MoveFile, env
<1>3. PICK i \in DOMAIN registry :
          registry[i].id = BatchId(batch) /\ registry[i].batch = batch
  BY <1>2 DEF BatchInv
<1>4. ProcessedIsPublished'
  BY <1>1, <1>2, <1>3 DEF BatchInv, ProcessedIsPublished
<1>5. RepeatsAreMissed' /\ ProofsMatchEntries'
  BY <1>2 DEF BatchInv, RepeatsAreMissed, ProofsMatchEntries, ProofInPlace
<1>6. pc' = "move" => BatchId(batch)' = BatchId(batch)
  BY <1>2 DEF BatchId
<1> QED
  BY <1>2, <1>3, <1>4, <1>5, <1>6 DEF BatchInv

LEMMA ToolBatchInv == TypeOK /\ SignerReadsAll /\ BatchInv /\ ToolStep => BatchInv'
<1> SUFFICES ASSUME TypeOK, SignerReadsAll, BatchInv, ToolStep PROVE BatchInv'
  OBVIOUS
<1>1. CASE StartRun \/ NothingPending
  BY <1>1, QuietBatchInv DEF StartRun, NothingPending, tree, env
<1>2. CASE OpenLog \/ OpenRaises \/ OpenWithoutKey
  BY <1>2, QuietBatchInv DEF OpenLog, OpenRaises, OpenWithoutKey, Ends, tree, env
<1>3. CASE RejectGroup \/ SkipGroup \/ GroupRefused
  BY <1>3, QuietBatchInv DEF RejectGroup, SkipGroup, GroupRefused, tree, env
<1>4. CASE BeginGroup
  BY <1>4, BeginBatchInv
<1>5. CASE WriteProof
  BY <1>5, WriteProofBatchInv
<1>6. CASE AppendDayFile
  BY <1>6, AppendBatchInv
<1>7. CASE MoveFile
  BY <1>7, MoveBatchInv
<1>8. CASE GroupFails \/ Finish
  BY <1>8, QuietBatchInv DEF GroupFails, Finish, Ends, tree, env
<1> QED
  BY <1>1, <1>2, <1>3, <1>4, <1>5, <1>6, <1>7, <1>8 DEF ToolStep

LEMMA BatchInvariant == Spec => []BatchInv
<1>1. Init => BatchInv
  BY InitBatchInv
<1>2. TypeOK /\ SignerReadsAll /\ BatchInv /\ [Next]_vars => BatchInv'
  <2> SUFFICES ASSUME TypeOK, SignerReadsAll, BatchInv, [Next]_vars PROVE BatchInv'
    OBVIOUS
  <2>1. CASE ToolStep
    BY <2>1, ToolBatchInv
  <2>2. CASE \E f \in Files : Submit(f)
    BY <2>2, QuietBatchInv DEF Submit, run, env
  <2>3. CASE ChangeKey \/ ChangeAccess
    BY <2>3, QuietBatchInv DEF ChangeKey, ChangeAccess, tree, run
  <2>4. CASE Crash
    BY <2>4, QuietBatchInv DEF Crash, tree
  <2>5. CASE UNCHANGED vars
    BY <2>5, QuietBatchInv DEF vars
  <2> QED
    BY <2>1, <2>2, <2>3, <2>4, <2>5 DEF Next
<1> QED
  BY <1>1, <1>2, TypeCorrect, ReadsAllInvariant, PTL DEF Spec

\* No batch is published a second time, whatever is rerun after whatever failure,
\* but by a run that had no checkpoint key and could not read a day file holding it.
THEOREM OnlyMissedRepeat == Spec => []RepeatsAreMissed
<1>1. BatchInv => RepeatsAreMissed
  BY DEF BatchInv
<1> QED
  BY <1>1, BatchInvariant, PTL

\* A published entry's proofs are all on disk and are the ones of its own tree,
\* unless its batch was anchored again over a day file that could not be read.
THEOREM ProofsAlwaysMatch == Spec => []ProofsMatchEntries
<1>1. BatchInv => ProofsMatchEntries
  BY DEF BatchInv
<1> QED
  BY <1>1, BatchInvariant, PTL

\* A processed file is in the registry: no submitted claim is lost.
THEOREM ProcessedArePublished == Spec => []ProcessedIsPublished
<1>1. BatchInv => ProcessedIsPublished
  BY DEF BatchInv
<1> QED
  BY <1>1, BatchInvariant, PTL

-----------------------------------------------------------------------------
(* Why the chain a run has opened is verified as a whole.  Checkpoints in the *)
(* registry only grow, under one identity, and the open log covers all that   *)
(* the last one does; between append_entry and the day file's line it covers  *)
(* more, so the checkpoint of that line grows again.                          *)

LogCovers ==
    /\ log.latest.leaves = log.leaves
    /\ \A i \in ChainedIn(registry) :
          /\ registry[i].cp.origin = signer
          /\ Extends(registry[i].cp.leaves, log.leaves)
          /\ pc = "proofs" => Len(registry[i].cp.leaves) < Len(log.leaves)
    /\ pc = "proofs" => OneLeafMore(log.latest) /\ log.latest.origin = signer

LogInv ==
    /\ ChainGrows(registry)
    /\ pc \in {"idle", "open"} => signer = NoKey
    /\ signer # NoKey => LogCovers

\* The checkpoints of a well-typed registry hold sequences of leaves.
LEMMA ChainTypes ==
    ASSUME TypeOK
    PROVE  /\ registry \in Seq(RegistryEntry)
           /\ \A j \in DOMAIN registry : registry[j].cp \in Checkpoint
           /\ \A j \in DOMAIN registry : registry[j].cp.leaves \in Seq(Leaf)
           /\ \A j \in DOMAIN registry : registry[j].cp.prev \in Seq(Leaf)
<1>1. registry \in Seq(RegistryEntry)
  BY DEF TypeOK
<1>2. \A j \in DOMAIN registry : registry[j] \in RegistryEntry
  BY <1>1, ElementOfSeq, LenProperties
<1> QED
  BY <1>1, <1>2 DEF RegistryEntry, Checkpoint

LEMMA InitLogInv == Init => LogInv
<1> SUFFICES ASSUME Init PROVE LogInv
  OBVIOUS
<1>1. pc = "idle" /\ signer = NoKey
  BY DEF Init, RunInit
<1>2. \A i \in DOMAIN registry : registry[i] = LegacyEntry
  <2>1. registry = <<>> \/ registry = <<LegacyEntry>>
    BY DEF Init, TreeInit
  <2> QED
    BY <2>1
<1>3. ~Chained(LegacyEntry)
  BY DEF Chained, LegacyEntry, Entry, NoCheckpoint
<1>4. ChainedIn(registry) = {}
  BY <1>2, <1>3 DEF ChainedIn
<1> QED
  BY <1>1, <1>4 DEF LogInv, ChainGrows

\* Steps that write no line and either close the log or leave it as it is.
LEMMA QuietLogInv ==
    ASSUME LogInv, registry' = registry,
           \/ signer' = NoKey
           \/ /\ signer' = signer /\ log' = log
              /\ pc' \in {"idle", "open"} => pc \in {"idle", "open"}
              /\ pc' = "proofs" => pc = "proofs"
    PROVE  LogInv'
BY DEF LogInv, LogCovers, ChainGrows

\* The replayed log is the last checkpoint, which extends every earlier one.
LEMMA OpenLogInv == TypeOK /\ LogInv /\ OpenLog => LogInv'
<1> SUFFICES ASSUME TypeOK, LogInv, OpenLog PROVE LogInv'
  OBVIOUS
<1> DEFINE latest == LastCheckpoint(registry)
<1>1. /\ registry' = registry /\ signer' = key /\ pc' = "next"
      /\ log'.leaves = LeavesOf(registry) /\ log'.latest = latest
      /\ CanResume(registry, key)
  BY DEF OpenLog, tree
<1>2. registry \in Seq(RegistryEntry)
  BY ChainTypes
<1>3. LeavesOf(registry) = latest.leaves
  BY <1>1, <1>2, ResumedLeaves
<1>4. ASSUME NEW i \in ChainedIn(registry)
      PROVE  registry[i].cp.origin = key /\ Extends(registry[i].cp.leaves, latest.leaves)
  <2> DEFINE last == LastChained(registry)
  <2>1. i \in DOMAIN registry /\ Chained(registry[i])
    BY DEF ChainedIn
  <2>2. /\ last \in ChainedIn(registry) /\ i <= last
        /\ latest = registry[last].cp
    BY <1>2, <2>1, LastChainedIsLast DEF LastCheckpoint, ChainedIn
  <2>3. latest # NoCheckpoint
    BY <1>2, <2>1, LastCheckpointCases
  <2>4. latest.origin = key
    BY <1>1, <2>3 DEF CanResume
  <2> HIDE DEF last, latest
  <2>5. CASE i = last
    <3>1. registry[i].cp.leaves \in Seq(Leaf)
      BY <2>1, ChainTypes
    <3>2. Len(registry[i].cp.leaves) \in Nat
      BY <3>1, LenProperties
    <3> QED
      BY <2>2, <2>4, <2>5, <3>2 DEF Extends
  <2>6. CASE i < last
    BY <2>2, <2>4, <2>6 DEF LogInv, ChainGrows
  <2>7. i \in Nat /\ last \in Nat
    BY <1>2, <2>2, ChainedFinite
  <2> QED
    BY <2>2, <2>5, <2>6, <2>7
<1>5. LogCovers'
  BY <1>1, <1>3, <1>4 DEF LogCovers
<1> QED
  BY <1>1, <1>5 DEF LogInv

\* append_entry: the log covers one leaf more than every published checkpoint.
LEMMA BeginLogInv == TypeOK /\ LogInv /\ BeginGroup => LogInv'
<1> SUFFICES ASSUME TypeOK, LogInv, BeginGroup PROVE LogInv'
  OBVIOUS
<1> DEFINE leaf == LeafOf(Entry(NextGroup, ts, NoCheckpoint))
<1>1. /\ registry' = registry /\ signer' = signer /\ pc' = "proofs"
      /\ signer # NoKey =>
            log' = [leaves |-> Append(log.leaves, leaf),
                    latest |-> MintedOver(log.leaves, log.latest, leaf, signer)]
  BY DEF BeginGroup, tree
<1>2. leaf \in Leaf
  <2>1. NextGroup \subseteq Files
    BY NextGroupIsTodo DEF BeginGroup, TypeOK
  <2> QED
    BY <2>1 DEF LeafOf, Entry, Leaf, TypeOK
<1> HIDE DEF leaf
<1>3. CASE signer = NoKey
  BY <1>1, <1>3 DEF LogInv, ChainGrows
<1>4. CASE signer # NoKey
  <2>1. log.leaves \in Seq(Leaf)
    BY DEF TypeOK
  <2>2. /\ Len(log.leaves) \in Nat
        /\ Len(Append(log.leaves, leaf)) = Len(log.leaves) + 1
        /\ \A k \in 1..Len(log.leaves) : Append(log.leaves, leaf)[k] = log.leaves[k]
    BY <1>2, <2>1, AppendProperties, LenProperties
  <2>3. LogCovers
    BY <1>4 DEF LogInv
  <2>4. /\ log'.leaves = Append(log.leaves, leaf)
        /\ log'.latest.leaves = log'.leaves
        /\ log'.latest.prev = log.leaves
        /\ log'.latest.origin = signer
    BY <1>1, <1>4, <2>3 DEF LogCovers, MintedOver
  <2>5. OneLeafMore(log'.latest)
    BY <2>2, <2>4 DEF OneLeafMore, Extends
  <2>6. ASSUME NEW i \in ChainedIn(registry)
        PROVE  /\ registry[i].cp.origin = signer
               /\ Extends(registry[i].cp.leaves, log'.leaves)
               /\ Len(registry[i].cp.leaves) < Len(log'.leaves)
    <3>1. registry[i].cp.origin = signer /\ Extends(registry[i].cp.leaves, log.leaves)
      BY <2>3 DEF LogCovers
    <3>2. Len(registry[i].cp.leaves) \in Nat
      BY ChainTypes, LenProperties DEF ChainedIn
    <3> QED
      BY <2>2, <2>4, <3>1, <3>2 DEF Extends
  <2>7. LogCovers'
    BY <1>1, <2>4, <2>5, <2>6 DEF LogCovers
  <2> QED
    BY <1>1, <1>4, <2>7 DEF LogInv, ChainGrows
<1> QED
  BY <1>3, <1>4

\* The line carries the log's own checkpoint, or none.
LEMMA AppendLogInv == TypeOK /\ LogInv /\ AppendDayFile => LogInv'
<1> SUFFICES ASSUME TypeOK, LogInv, AppendDayFile PROVE LogInv'
  OBVIOUS
<1> DEFINE e == Entry(batch, ts, IF signer = NoKey THEN NoCheckpoint ELSE log.latest)
           n == Len(registry)
<1>1. /\ registry' = Append(registry, e)
      /\ UNCHANGED <<signer, log>>
      /\ pc = "proofs" /\ pc' = "move"
  BY DEF AppendDayFile
<1>2. e.cp = IF signer = NoKey THEN NoCheckpoint ELSE log.latest
  BY DEF Entry
<1>3. e \in RegistryEntry
  BY BatchIdType, NoCheckpointType DEF TypeOK, Entry, RegistryEntry
<1> HIDE DEF e
<1>4. /\ DOMAIN registry = 1..n /\ n \in Nat
      /\ DOMAIN registry' = 1..n + 1
      /\ \A i \in 1..n : registry'[i] = registry[i]
      /\ registry'[n + 1] = e
  BY <1>1, <1>3, AppendProperties, LenProperties DEF TypeOK
<1> HIDE DEF n
<1>5. ChainedIn(registry) \subseteq 1..n
  BY <1>4 DEF ChainedIn
<1>6. CASE signer = NoKey
  <2>1. ~Chained(e)
    BY <1>2, <1>6 DEF Chained, NoCheckpoint
  <2>2. ChainedIn(registry') = ChainedIn(registry)
    BY <1>4, <2>1 DEF ChainedIn
  <2>3. ChainGrows(registry')
    BY <1>4, <1>5, <2>2 DEF LogInv, ChainGrows
  <2> QED
    BY <1>1, <1>6, <2>3 DEF LogInv
<1>7. CASE signer # NoKey
  <2>1. LogCovers
    BY <1>7 DEF LogInv
  <2>2. /\ e.cp = log.latest /\ e.cp.leaves = log.leaves
        /\ OneLeafMore(e.cp) /\ e.cp.origin = signer
    BY <1>1, <1>2, <1>7, <2>1 DEF LogCovers
  <2>3. \A i \in ChainedIn(registry) :
            /\ registry[i].cp.origin = signer
            /\ Extends(registry[i].cp.leaves, log.leaves)
            /\ Len(registry[i].cp.leaves) < Len(log.leaves)
    BY <1>1, <2>1 DEF LogCovers
  <2>4. ChainedIn(registry') \subseteq ChainedIn(registry) \cup {n + 1}
    BY <1>4 DEF ChainedIn
  <2>5. \A i \in ChainedIn(registry) : registry'[i] = registry[i] /\ i < n + 1 /\ i \in Nat
    BY <1>4, <1>5
  <2>6. ChainGrows(registry')
    <3> SUFFICES ASSUME NEW i \in ChainedIn(registry')
                 PROVE  /\ OneLeafMore(registry'[i].cp)
                        /\ \A j \in ChainedIn(registry') : i < j =>
                              /\ Extends(registry'[i].cp.leaves, registry'[j].cp.leaves)
                              /\ Len(registry'[i].cp.leaves) < Len(registry'[j].cp.leaves)
                              /\ registry'[i].cp.origin = registry'[j].cp.origin
      BY DEF ChainGrows
    <3>1. CASE i = n + 1
      <4>1. \A j \in ChainedIn(registry') : ~(i < j)
        BY <1>4, <2>4, <2>5, <3>1
      <4> QED
        BY <1>4, <2>2, <3>1, <4>1
    <3>2. CASE i \in ChainedIn(registry)
      <4>1. OneLeafMore(registry'[i].cp)
        BY <2>5, <3>2 DEF LogInv, ChainGrows
      <4>2. ASSUME NEW j \in ChainedIn(registry), i < j
            PROVE  /\ Extends(registry'[i].cp.leaves, registry'[j].cp.leaves)
                   /\ Len(registry'[i].cp.leaves) < Len(registry'[j].cp.leaves)
                   /\ registry'[i].cp.origin = registry'[j].cp.origin
        BY <2>5, <3>2, <4>2 DEF LogInv, ChainGrows
      <4>3. /\ Extends(registry'[i].cp.leaves, registry'[n + 1].cp.leaves)
            /\ Len(registry'[i].cp.leaves) < Len(registry'[n + 1].cp.leaves)
            /\ registry'[i].cp.origin = registry'[n + 1].cp.origin
        BY <1>4, <2>2, <2>3, <2>5, <3>2
      <4> QED
        BY <2>4, <4>1, <4>2, <4>3
    <3> QED
      BY <2>4, <3>1, <3>2
  <2>7. LogCovers'
    <3> SUFFICES ASSUME NEW i \in ChainedIn(registry')
                 PROVE  /\ registry'[i].cp.origin = signer
                        /\ Extends(registry'[i].cp.leaves, log.leaves)
      BY <1>1, <2>1 DEF LogCovers
    <3>1. CASE i = n + 1
      <4>1. Len(log.leaves) \in Nat
        BY LenProperties DEF TypeOK
      <4> QED
        BY <1>4, <2>2, <3>1, <4>1 DEF Extends
    <3>2. CASE i \in ChainedIn(registry)
      BY <2>3, <2>5, <3>2
    <3> QED
      BY <2>4, <3>1, <3>2
  <2> QED
    BY <1>1, <2>6, <2>7 DEF LogInv
<1> QED
  BY <1>6, <1>7

LEMMA StepLogInv == TypeOK /\ LogInv /\ [Next]_vars => LogInv'
<1> SUFFICES ASSUME TypeOK, LogInv, [Next]_vars PROVE LogInv'
  OBVIOUS
<1>1. CASE StartRun \/ NothingPending
  BY <1>1, QuietLogInv DEF StartRun, NothingPending, tree
<1>2. CASE OpenLog
  BY <1>2, OpenLogInv
<1>3. CASE OpenRaises \/ Finish
  BY <1>3, QuietLogInv DEF OpenRaises, Finish, Ends, tree
<1>4. CASE OpenWithoutKey
  <2>1. registry' = registry /\ signer' = NoKey
    BY <1>4 DEF OpenWithoutKey, Ends, tree, LogInv
  <2> QED
    BY <2>1, QuietLogInv
<1>5. CASE RejectGroup \/ SkipGroup \/ GroupRefused
  BY <1>5, QuietLogInv DEF RejectGroup, SkipGroup, GroupRefused, tree
<1>6. CASE BeginGroup
  BY <1>6, BeginLogInv
<1>7. CASE WriteProof
  BY <1>7, QuietLogInv DEF WriteProof
<1>8. CASE AppendDayFile
  BY <1>8, AppendLogInv
<1>9. CASE MoveFile
  <2>1. /\ UNCHANGED <<registry, signer, log>>
        /\ pc = "move" /\ (pc' = "next" \/ pc' = "move")
    BY <1>9 DEF MoveFile
  <2> QED
    BY <2>1, QuietLogInv
<1>10. CASE GroupFails
  BY <1>10, QuietLogInv DEF GroupFails, tree
<1>11. CASE \E f \in Files : Submit(f)
  BY <1>11, QuietLogInv DEF Submit, run
<1>12. CASE ChangeKey \/ ChangeAccess
  BY <1>12, QuietLogInv DEF ChangeKey, ChangeAccess, tree, run
<1>13. CASE Crash
  BY <1>13, QuietLogInv DEF Crash, tree
<1>14. CASE UNCHANGED vars
  BY <1>14, QuietLogInv DEF vars
<1> QED
  BY <1>1, <1>2, <1>3, <1>4, <1>5, <1>6, <1>7, <1>8, <1>9, <1>10, <1>11, <1>12,
     <1>13, <1>14 DEF Next, ToolStep

LEMMA LogInvariant == Spec => []LogInv
<1>1. Init => LogInv
  BY InitLogInv
<1> QED
  BY <1>1, StepLogInv, TypeCorrect, PTL DEF Spec

\* Only OpenLog leaves "open" with a key.
LEMMA OpenedWithKey ==
    ASSUME TypeOK, LogInv, [Next]_vars, pc = "open", pc' = "next", signer' # NoKey
    PROVE  OpenLog
<1>1. signer = NoKey
  BY DEF LogInv
<1>2. ~(StartRun \/ NothingPending \/ OpenRaises \/ RejectGroup \/ SkipGroup
            \/ GroupRefused \/ BeginGroup)
  BY DEF StartRun, NothingPending, OpenRaises, Ends, RejectGroup, SkipGroup, GroupRefused,
         BeginGroup
<1>3. ~(WriteProof \/ AppendDayFile \/ MoveFile \/ GroupFails \/ Finish)
  BY DEF WriteProof, AppendDayFile, MoveFile, GroupFails, Finish
<1>4. ~OpenWithoutKey
  BY <1>1 DEF OpenWithoutKey, Ends
<1>5. ~((\E f \in Files : Submit(f)) \/ ChangeKey \/ ChangeAccess \/ Crash \/ UNCHANGED vars)
  BY DEF Submit, ChangeKey, ChangeAccess, Crash, run, vars
<1> QED
  BY <1>2, <1>3, <1>4, <1>5 DEF Next, ToolStep

\* A run that opens the published chain, which it does by comparing the last
\* checkpoint only, has found one that the independent verifier accepts whole.
THEOREM OpenedChainIsVerified == Spec => OpensOnlyVerifiedChain
<1>1. TypeOK /\ LogInv /\ [Next]_vars =>
        [(pc = "open" /\ pc' = "next" /\ signer' # NoKey)
            => (LastCheckpoint(registry) # NoCheckpoint => ChainVerified(registry))]_vars
  <2> SUFFICES ASSUME TypeOK, LogInv, [Next]_vars, pc = "open", pc' = "next",
                      signer' # NoKey, LastCheckpoint(registry) # NoCheckpoint
               PROVE  ChainVerified(registry)
    OBVIOUS
  <2>1. CanResume(registry, key)
    BY OpenedWithKey DEF OpenLog
  <2>2. ChainGrows(registry)
    BY DEF LogInv
  <2> QED
    BY <2>1, <2>2, ChainTypes, ResumedIsVerified
<1> QED
  BY <1>1, TypeCorrect, LogInvariant, PTL DEF Spec, OpensOnlyVerifiedChain

-----------------------------------------------------------------------------
(* The published registry. *)

TreeSet == [incoming : SUBSET Files,
            processed : SUBSET [id : Ids, file : Files],
            proofs : SUBSET ProofFile,
            registry : Seq(RegistryEntry)]

LEMMA CheckoutType == TypeOK => Checkout \in TreeSet
BY DEF TypeOK, Checkout, Tree, TreeSet

LEMMA PipelineInitType == PipelineInit => PipelineTypeOK
<1> SUFFICES ASSUME PipelineInit PROVE PipelineTypeOK
  OBVIOUS
<1>1. TypeOK
  BY InitType DEF PipelineInit
<1>2. Checkout \in TreeSet
  BY <1>1, CheckoutType
<1> QED
  BY <1>1, <1>2 DEF PipelineInit, PipelineTypeOK, TreeSet

LEMMA PipelineStepType == PipelineTypeOK /\ [PipelineNext]_pipelineVars => PipelineTypeOK'
<1> SUFFICES ASSUME PipelineTypeOK, [PipelineNext]_pipelineVars PROVE PipelineTypeOK'
  OBVIOUS
<1>0. TypeOK /\ main \in TreeSet /\ base \in TreeSet /\ stage \in {"waiting", "pipeline", "push"}
  BY DEF PipelineTypeOK, TreeSet
<1>a. SUFFICES /\ TypeOK' /\ main' \in TreeSet /\ base' \in TreeSet
               /\ stage' \in {"waiting", "pipeline", "push"}
  BY DEF PipelineTypeOK, TreeSet
<1>1. CASE Trigger
  <2>1. /\ main.incoming \subseteq Files
        /\ main.processed \subseteq [id : Ids, file : Files]
        /\ main.proofs \subseteq ProofFile
        /\ main.registry \in Seq(RegistryEntry)
    BY <1>0 DEF TreeSet
  <2>2. TypeOK'
    BY <1>0, <1>1, <2>1 DEF Trigger, TypeOK, env
  <2> QED
    BY <1>0, <1>1, <2>2 DEF Trigger
<1>2. CASE PipelineStep
  BY <1>0, <1>2, ToolType DEF PipelineStep, job
<1>3. CASE CommitStep \/ EndJob \/ PushRejected
  BY <1>0, <1>3, StutterType DEF CommitStep, EndJob, PushRejected
<1>4. CASE PushAccepted
  BY <1>0, <1>4, StutterType, CheckoutType DEF PushAccepted
<1>5. CASE JobLost
  <2>1. TypeOK'
    BY <1>0, <1>5, BoundAssumption, EmptyLeaves, NoCheckpointType DEF JobLost, TypeOK, tree
  <2> QED
    BY <1>0, <1>5, <2>1 DEF JobLost
<1>6. CASE ChangeSecret
  BY <1>0, <1>6, EnvType DEF ChangeSecret, job
<1>7. CASE \E f \in Files : MergeClaim(f)
  <2>1. main' \in TreeSet
    <3>1. PICK f \in Files : main' = [main EXCEPT !.incoming = @ \cup {f}]
      BY <1>7 DEF MergeClaim
    <3>2. main.incoming \cup {f} \subseteq Files
      BY <1>0 DEF TreeSet
    <3> QED
      BY <1>0, <3>1, <3>2 DEF TreeSet
  <2> QED
    BY <1>0, <1>7, <2>1, StutterType DEF MergeClaim
<1>8. CASE UNCHANGED pipelineVars
  BY <1>0, <1>8, StutterType DEF pipelineVars
<1> QED
  BY <1>1, <1>2, <1>3, <1>4, <1>5, <1>6, <1>7, <1>8 DEF PipelineNext

\* Every variable of the job and of main keeps its type.
THEOREM PipelineTypeCorrect == PipelineSpec => []PipelineTypeOK
BY PipelineInitType, PipelineStepType, PTL DEF PipelineSpec

-----------------------------------------------------------------------------
(* Between checkout and push the checkout's registry extends the one on     *)
(* main, and until a group fails the log in memory is at its last           *)
(* checkpoint.  After a failure the log may be ahead by a leaf that was     *)
(* never published, but then the run exits 1 and nothing is pushed.  A job   *)
(* reads all of its own checkout, so a batch it begins is in no entry.      *)

ExtendsBase ==
    /\ Len(base.registry) <= Len(registry)
    /\ \A i \in DOMAIN base.registry : registry[i] = base.registry[i]
    /\ \A i \in DOMAIN registry \ DOMAIN base.registry : Chained(registry[i])

\* The log is at the end of the checkout's chain.
LogAtEnd ==
    /\ log.leaves = log.latest.leaves
    /\ log.latest = LastCheckpoint(registry)
    /\ log.latest # NoCheckpoint => log.latest.origin = signer

\* The log is ahead of it by the batch being anchored.
LogAhead ==
    LET last == LastCheckpoint(registry)
    IN  /\ log.leaves = log.latest.leaves
        /\ log.latest.prev = last.leaves
        /\ log.latest.leaves = Append(last.leaves, LeafOf(Entry(batch, ts, NoCheckpoint)))
        /\ log.latest.origin = signer
        /\ last # NoCheckpoint => last.origin = signer

RunInv ==
    /\ pc \in {"next", "proofs", "move"} => signer # NoKey
    /\ pc = "proofs" => ~Listed(registry, BatchId(batch)) /\ log.latest.leaves # <<>>
    /\ pc \in {"next", "move"} /\ ~failed => Linked(registry) /\ LogAtEnd
    /\ pc = "proofs" /\ ~failed => Linked(registry) /\ LogAhead
    /\ pc = "idle" /\ exit = "ok" => Linked(registry)

\* The job can read its whole checkout, so no batch is published twice there.
BatchIdsUnique ==
    \A i, j \in DOMAIN registry : registry[i].id = registry[j].id => i = j

JobInv ==
    /\ main.registry = base.registry
    /\ ExtendsBase
    /\ BatchIdsUnique
    /\ pc = "open" \/ (pc = "idle" /\ exit = "none") => registry = base.registry
    /\ RunInv

PipelineInv ==
    /\ Linked(main.registry)
    /\ Log!OnlyOnce(main.registry)
    /\ unread = {}
    /\ stage # "pipeline" => pc = "idle"
    /\ stage # "waiting" => JobInv
    /\ stage = "push" => exit = "ok"

\* RegistryLog's chain operators are CheckpointChain's.
LEMMA SameChained == ASSUME NEW e PROVE Log!Chained(e) = Chained(e)
BY DEF Log!Chained, Chained

LEMMA SameLastCheckpoint == ASSUME NEW r PROVE Log!LastCheckpoint(r) = LastCheckpoint(r)
BY DEF Log!LastCheckpoint, LastCheckpoint, Log!LastChained, LastChained, Log!Chained,
       Chained, Log!NoCheckpoint, NoCheckpoint

LEMMA SameLinked == ASSUME NEW r PROVE Log!Linked(r) = Linked(r)
<1>1. \A e : Log!LeafOf(e) = LeafOf(e)
  BY DEF Log!LeafOf, LeafOf
<1>2. ASSUME NEW i PROVE Log!LinkedAt(r, i) = LinkedAt(r, i)
  BY <1>1, SameChained, SameLastCheckpoint
     DEF Log!LinkedAt, LinkedAt, Log!NoCheckpoint, NoCheckpoint
<1> QED
  BY <1>2 DEF Log!Linked, Linked

LEMMA PipelineInitInv == PipelineInit => PipelineInv
<1> SUFFICES ASSUME PipelineInit PROVE PipelineInv
  OBVIOUS
<1>1. main.registry = <<>> \/ main.registry = <<LegacyEntry>>
  BY DEF PipelineInit, Init, TreeInit, Checkout, Tree
<1>2. \A i \in DOMAIN main.registry : i = 1 /\ main.registry[i] = LegacyEntry
  BY <1>1
<1>3. ~Chained(LegacyEntry)
  BY DEF LegacyEntry, Entry, Chained, NoCheckpoint
<1>4. Linked(main.registry)
  BY <1>2, <1>3 DEF Linked, LinkedAt
<1>5. Log!OnlyOnce(main.registry)
  BY <1>2 DEF Log!OnlyOnce
<1> QED
  BY <1>4, <1>5 DEF PipelineInit, PipelineInv, Init, RunInit, EnvInit

-----------------------------------------------------------------------------
(* The tool's steps inside a job.                                           *)

\* A run that opens the log starts at the end of the chain it has checked out.
LEMMA OpenRunInv ==
    ASSUME TypeOK, Linked(registry), OpenLog
    PROVE  RunInv'
<1> DEFINE last == LastCheckpoint(registry)
<1>1. /\ signer' = key /\ key # NoKey /\ pc' = "next"
      /\ log' = [leaves |-> LeavesOf(registry), latest |-> last]
      /\ UNCHANGED registry
      /\ CanResume(registry, key)
  BY DEF OpenLog, tree
<1>2. LeavesOf(registry) = last.leaves
  BY <1>1, ResumedLeaves DEF TypeOK
<1>3. last # NoCheckpoint => last.origin = key
  BY <1>1 DEF CanResume
<1>4. LogAtEnd'
  BY <1>1, <1>2, <1>3 DEF LogAtEnd
<1> QED
  BY <1>1, <1>4 DEF RunInv

LEMMA BeginRunInv ==
    ASSUME TypeOK, unread = {}, RunInv, BeginGroup
    PROVE  RunInv'
<1> DEFINE leaf == LeafOf(Entry(NextGroup, ts, NoCheckpoint))
           last == LastCheckpoint(registry)
<1>1. /\ pc = "next" /\ pc' = "proofs" /\ batch' = NextGroup
      /\ signer' = signer /\ ts' = ts /\ failed' = failed
      /\ UNCHANGED <<registry, proofs, processed>>
      /\ BatchId(NextGroup) \notin IdsDated(Nat)
  BY DEF BeginGroup, tree, PublishedIds
<1>2. signer # NoKey
  BY <1>1 DEF RunInv
<1>3. log' = [leaves |-> Append(log.leaves, leaf),
              latest |-> MintedOver(log.leaves, log.latest, leaf, signer)]
  BY <1>2 DEF BeginGroup
<1>4. log'.latest.leaves # <<>>
  <2>1. NextGroup \subseteq Files
    BY NextGroupIsTodo DEF TypeOK, BeginGroup
  <2>2. leaf \in Leaf
    BY <2>1 DEF LeafOf, Entry, Leaf, TypeOK
  <2>3. log.leaves \in Seq(Leaf)
    BY DEF TypeOK
  <2>4. Append(log.leaves, leaf) # <<>>
    BY <2>2, <2>3, AppendProperties
  <2> QED
    BY <1>3, <2>4 DEF MintedOver
<1>5. ~Listed(registry, BatchId(batch))'
  <2>1. BatchId(batch)' = BatchId(NextGroup)
    BY <1>1 DEF BatchId
  <2>2. ~Listed(registry, BatchId(NextGroup))
    BY <1>1, TimesAreNat DEF IdsDated, Listed
  <2> QED
    BY <1>1, <2>1, <2>2 DEF Listed
<1>6. ASSUME ~failed PROVE Linked(registry)' /\ LogAhead'
  <2>1. Linked(registry) /\ LogAtEnd
    BY <1>1, <1>6 DEF RunInv
  <2>2. LeafOf(Entry(batch, ts, NoCheckpoint))' = leaf
    BY <1>1 DEF LeafOf, Entry
  <2> HIDE DEF leaf
  <2> QED
    BY <1>1, <1>3, <2>1, <2>2 DEF LogAhead, LogAtEnd, MintedOver
<1> QED
  BY <1>1, <1>2, <1>4, <1>5, <1>6 DEF RunInv

LEMMA AppendRunInv ==
    ASSUME TypeOK, RunInv, ExtendsBase, BatchIdsUnique, base.registry \in Seq(RegistryEntry),
           AppendDayFile, UNCHANGED base
    PROVE  RunInv' /\ ExtendsBase' /\ BatchIdsUnique'
<1> DEFINE e == Entry(batch, ts, log.latest)
<1>1. /\ pc = "proofs" /\ pc' = "move"
      /\ UNCHANGED <<signer, log, failed, batch, ts>>
  BY DEF AppendDayFile, env
<1>2. signer # NoKey /\ log.latest.leaves # <<>> /\ ~Listed(registry, BatchId(batch))
  BY <1>1 DEF RunInv
<1>3. registry' = Append(registry, e)
  BY <1>2 DEF AppendDayFile
<1>4. /\ e.id = BatchId(batch)
      /\ e.cp = log.latest
      /\ LeafOf(e) = LeafOf(Entry(batch, ts, NoCheckpoint))
  BY DEF Entry, LeafOf
<1>5. e \in RegistryEntry /\ Chained(e)
  BY <1>2, BatchIdType DEF TypeOK, Entry, RegistryEntry, Chained
<1> HIDE DEF e
<1>6. /\ registry \in Seq(RegistryEntry)
      /\ DOMAIN registry = 1..Len(registry) /\ Len(registry) \in Nat
      /\ registry' \in Seq(RegistryEntry)
      /\ Len(registry') = Len(registry) + 1
      /\ DOMAIN registry' = 1..Len(registry) + 1
      /\ \A i \in 1..Len(registry) : registry'[i] = registry[i]
      /\ registry'[Len(registry) + 1] = e
  BY <1>3, <1>5, AppendProperties, LenProperties DEF TypeOK
<1>7. DOMAIN base.registry = 1..Len(base.registry) /\ Len(base.registry) \in Nat
  BY LenProperties
<1>8. ExtendsBase'
  BY <1>5, <1>6, <1>7 DEF ExtendsBase
<1>9. \A i \in DOMAIN registry : registry[i].id # e.id
  BY <1>2, <1>4 DEF Listed
<1>10. BatchIdsUnique'
  BY <1>6, <1>9 DEF BatchIdsUnique
<1>11. ASSUME ~failed PROVE Linked(registry)' /\ LogAtEnd'
  <2>1. Linked(registry) /\ LogAhead
    BY <1>1, <1>11 DEF RunInv
  <2>2. Linked(Append(registry, e))
    BY <1>4, <1>5, <1>6, <2>1, LinkedAppend DEF LogAhead
  <2>3. LastCheckpoint(Append(registry, e)) = e.cp
    BY <1>5, <1>6, LastCheckpointOfAppend
  <2> QED
    BY <1>1, <1>3, <1>4, <2>1, <2>2, <2>3 DEF LogAhead, LogAtEnd
<1> QED
  BY <1>1, <1>2, <1>8, <1>10, <1>11 DEF RunInv

\* Steps that leave the registry and the log alone, and where they end.
LEMMA QuietRunInv ==
    ASSUME RunInv, UNCHANGED <<registry, signer, log, ts>>, failed => failed',
           \/ pc' = pc /\ batch' = batch /\ exit' = exit
           \/ pc \in {"next", "move"} /\ pc' = "next"
           \/ pc = "proofs" /\ pc' = "next" /\ failed'
    PROVE  RunInv'
<1>1. CASE pc' = pc /\ batch' = batch /\ exit' = exit
  <2>1. /\ BatchId(batch)' = BatchId(batch)
        /\ Listed(registry, BatchId(batch))' = Listed(registry, BatchId(batch))
    BY <1>1 DEF BatchId, Listed
  <2>2. LogAtEnd' = LogAtEnd
    BY <1>1 DEF LogAtEnd
  <2>3. LogAhead' = LogAhead
    BY <1>1 DEF LogAhead, LeafOf, Entry, BatchId
  <2> QED
    BY <1>1, <2>1, <2>2, <2>3 DEF RunInv
<1>2. CASE pc \in {"next", "move"} /\ pc' = "next"
  BY <1>2 DEF RunInv, LogAtEnd
<1>3. CASE pc = "proofs" /\ pc' = "next" /\ failed'
  BY <1>3 DEF RunInv
<1> QED
  BY <1>1, <1>2, <1>3

\* What the process may read does not change in a run.
LEMMA ToolReads == ASSUME ToolStep PROVE unread' = unread
BY DEF ToolStep, StartRun, NothingPending, OpenLog, OpenRaises, OpenWithoutKey, RejectGroup,
       SkipGroup, GroupRefused, BeginGroup, WriteProof, AppendDayFile, MoveFile, GroupFails,
       Finish, Ends, env

LEMMA ToolJobInv ==
    ASSUME PipelineTypeOK, Linked(main.registry), unread = {}, JobInv,
           pc = "idle" => exit = "none", ToolStep, UNCHANGED job
    PROVE  JobInv'
<1>0. TypeOK /\ base.registry \in Seq(RegistryEntry) /\ RunInv /\ ExtendsBase /\ BatchIdsUnique
  BY DEF PipelineTypeOK, JobInv
<1>a. main.registry' = base.registry' /\ UNCHANGED base
  BY DEF JobInv, job
<1>b. ASSUME UNCHANGED registry PROVE ExtendsBase' /\ BatchIdsUnique'
  BY <1>0, <1>a, <1>b DEF ExtendsBase, BatchIdsUnique
<1>1. CASE StartRun
  <2>1. /\ UNCHANGED registry /\ pc' = "open" /\ pc = "idle"
    BY <1>1 DEF StartRun, tree
  <2> QED
    BY <1>a, <1>b, <2>1 DEF JobInv, RunInv
<1>2. CASE NothingPending
  <2>1. /\ UNCHANGED registry /\ pc' = "idle" /\ exit' = "ok" /\ pc = "idle"
    BY <1>2 DEF NothingPending, tree
  <2>2. Linked(registry')
    BY <2>1 DEF JobInv
  <2> QED
    BY <1>a, <1>b, <2>1, <2>2 DEF JobInv, RunInv
<1>3. CASE OpenLog
  <2>1. UNCHANGED registry /\ pc' = "next" /\ pc = "open"
    BY <1>3 DEF OpenLog, tree
  <2>2. Linked(registry)
    BY <2>1 DEF JobInv
  <2>3. RunInv'
    BY <1>0, <1>3, <2>2, OpenRunInv
  <2> QED
    BY <1>a, <1>b, <2>1, <2>3 DEF JobInv
<1>4. CASE OpenRaises \/ OpenWithoutKey
  <2>1. UNCHANGED registry /\ pc' = "idle" /\ exit' = "fail"
    BY <1>4, PipelineAssumption DEF OpenRaises, OpenWithoutKey, Ends, tree
  <2> QED
    BY <1>a, <1>b, <2>1 DEF JobInv, RunInv
<1>5. CASE RejectGroup \/ SkipGroup \/ GroupRefused
  <2>1. /\ UNCHANGED <<registry, signer, log, ts, pc, batch, exit>>
        /\ failed => failed' /\ pc = "next"
    BY <1>5 DEF RejectGroup, SkipGroup, GroupRefused, tree, env
  <2>2. RunInv'
    BY <1>0, <2>1, QuietRunInv
  <2> QED
    BY <1>a, <1>b, <2>1, <2>2 DEF JobInv
<1>6. CASE BeginGroup
  <2>1. UNCHANGED registry /\ pc' = "proofs"
    BY <1>6 DEF BeginGroup, tree
  <2>2. RunInv'
    BY <1>0, <1>6, BeginRunInv
  <2> QED
    BY <1>a, <1>b, <2>1, <2>2 DEF JobInv
<1>7. CASE WriteProof
  <2>1. /\ UNCHANGED <<registry, signer, log, ts, failed, pc, batch, exit>>
        /\ pc = "proofs"
    BY <1>7 DEF WriteProof, env
  <2>2. RunInv'
    BY <1>0, <2>1, QuietRunInv
  <2> QED
    BY <1>a, <1>b, <2>1, <2>2 DEF JobInv
<1>8. CASE AppendDayFile
  <2>1. pc' = "move"
    BY <1>8 DEF AppendDayFile
  <2>2. RunInv' /\ ExtendsBase' /\ BatchIdsUnique'
    BY <1>0, <1>a, <1>8, AppendRunInv
  <2> QED
    BY <1>a, <2>1, <2>2 DEF JobInv
<1>9. CASE MoveFile
  <2>1. /\ UNCHANGED <<registry, signer, log, ts, failed, exit>>
        /\ pc = "move"
        /\ pc' = "next" \/ (pc' = pc /\ batch' = batch)
    BY <1>9 DEF MoveFile, env
  <2>2. RunInv'
    BY <1>0, <2>1, QuietRunInv
  <2> QED
    BY <1>a, <1>b, <2>1, <2>2 DEF JobInv
<1>10. CASE GroupFails
  <2>1. /\ UNCHANGED <<registry, signer, log, ts>>
        /\ pc \in {"proofs", "move"} /\ pc' = "next" /\ failed' = TRUE
    BY <1>10 DEF GroupFails, tree
  <2>2. RunInv'
    BY <1>0, <2>1, QuietRunInv
  <2> QED
    BY <1>a, <1>b, <2>1, <2>2 DEF JobInv
<1>11. CASE Finish
  <2>1. /\ UNCHANGED registry /\ pc = "next" /\ pc' = "idle"
        /\ exit' = IF failed THEN "fail" ELSE "ok"
    BY <1>11 DEF Finish, Ends, tree
  <2>2. exit' = "ok" => Linked(registry')
    BY <1>0, <2>1 DEF RunInv
  <2> QED
    BY <1>a, <1>b, <2>1, <2>2 DEF JobInv, RunInv
<1> QED
  BY <1>1, <1>2, <1>3, <1>4, <1>5, <1>6, <1>7, <1>8, <1>9, <1>10, <1>11 DEF ToolStep

-----------------------------------------------------------------------------
\* JobInv speaks of the tool's variables, of base and of main.registry.
LEMMA StutterJobInv ==
    ASSUME JobInv, UNCHANGED vars, UNCHANGED base, main.registry' = main.registry
    PROVE  JobInv'
<1>1. /\ BatchId(batch)' = BatchId(batch)
      /\ Listed(registry, BatchId(batch))' = Listed(registry, BatchId(batch))
      /\ LogAtEnd' = LogAtEnd
  BY DEF vars, BatchId, Listed, LogAtEnd
<1>2. LogAhead' = LogAhead
  BY DEF vars, LogAhead, LeafOf, Entry, BatchId
<1>3. RunInv'
  BY <1>1, <1>2 DEF JobInv, RunInv, vars
<1> QED
  BY <1>3 DEF JobInv, ExtendsBase, BatchIdsUnique, vars

\* What a job pushes extends what is published, as RegistryLog demands.
LEMMA PushPublishes ==
    ASSUME PipelineTypeOK, PipelineInv, PushAccepted
    PROVE  /\ main.registry' = registry
           /\ Linked(registry) /\ BatchIdsUnique
           /\ registry = main.registry \/ Log!Extends(main.registry, registry)
<1>1. /\ JobInv /\ pc = "idle" /\ exit = "ok" /\ main.registry' = registry
      /\ main.registry = base.registry
  BY DEF PipelineInv, PushAccepted, JobInv, Checkout, Tree
<1>2. Linked(registry) /\ ExtendsBase /\ BatchIdsUnique
  BY <1>1 DEF JobInv, RunInv
<1>3. /\ registry \in Seq(RegistryEntry) /\ main.registry \in Seq(RegistryEntry)
      /\ DOMAIN main.registry = 1..Len(main.registry)
      /\ Len(main.registry) \in Nat /\ Len(registry) \in Nat
  BY LenProperties DEF PipelineTypeOK, TypeOK
<1>4. CASE Len(registry) = Len(main.registry)
  <2>1. \A i \in 1..Len(registry) : registry[i] = main.registry[i]
    BY <1>1, <1>2, <1>3, <1>4 DEF ExtendsBase
  <2>2. registry = main.registry
    BY <1>3, <1>4, <2>1, SeqEqual
  <2> QED
    BY <1>1, <1>2, <2>2
<1>5. CASE Len(registry) # Len(main.registry)
  <2>1. Len(registry) > Len(main.registry)
    BY <1>1, <1>2, <1>3, <1>5 DEF ExtendsBase
  <2> QED
    BY <1>1, <1>2, <2>1, SameChained DEF ExtendsBase, Log!Extends
<1> QED
  BY <1>4, <1>5

LEMMA PipelineStepInv ==
    ASSUME PipelineTypeOK, PipelineInv, [PipelineNext]_pipelineVars
    PROVE  PipelineInv'
<1>0. Linked(main.registry) /\ Log!OnlyOnce(main.registry) /\ unread = {}
  BY DEF PipelineInv
<1>1. CASE Trigger
  <2>1. /\ stage' = "pipeline" /\ base' = main /\ main' = main
        /\ registry' = main.registry /\ pc' = pc /\ pc = "idle" /\ exit' = "none"
    BY <1>1 DEF Trigger, PipelineInv
  <2>2. ExtendsBase'
    <3>1. Len(main.registry) \in Nat
      BY LenProperties DEF PipelineTypeOK
    <3> QED
      BY <2>1, <3>1 DEF ExtendsBase
  <2>3. BatchIdsUnique'
    BY <1>0, <2>1 DEF BatchIdsUnique, Log!OnlyOnce
  <2> QED
    BY <1>0, <1>1, <2>1, <2>2, <2>3 DEF PipelineInv, JobInv, RunInv, Trigger, env
<1>2. CASE PipelineStep
  <2>1. /\ stage = "pipeline" /\ UNCHANGED job /\ ToolStep
        /\ pc = "idle" => exit = "none"
    BY <1>2 DEF PipelineStep
  <2>2. JobInv'
    BY <1>0, <2>1, ToolJobInv DEF PipelineInv
  <2>3. unread' = {}
    BY <1>0, <2>1, ToolReads
  <2> QED
    BY <1>0, <2>1, <2>2, <2>3 DEF PipelineInv, job
<1>3. CASE CommitStep
  <2>1. /\ stage = "pipeline" /\ pc = "idle" /\ stage' = "push" /\ exit = "ok"
        /\ UNCHANGED <<vars, main, base>>
    BY <1>3 DEF CommitStep, ToolEnded, Publishable
  <2>2. JobInv'
    BY <2>1, StutterJobInv DEF PipelineInv
  <2> QED
    BY <1>0, <2>1, <2>2 DEF PipelineInv, vars
<1>4. CASE EndJob \/ PushRejected
  <2>1. /\ stage' = "waiting" /\ UNCHANGED <<vars, main, base>> /\ pc = "idle"
    BY <1>4 DEF EndJob, PushRejected, ToolEnded, PipelineInv
  <2> QED
    BY <1>0, <2>1 DEF PipelineInv, vars
<1>5. CASE PushAccepted
  <2>1. main.registry' = registry /\ Linked(registry) /\ BatchIdsUnique
    BY <1>5, PushPublishes
  <2>2. stage' = "waiting" /\ pc' = "idle" /\ unread' = {}
    BY <1>0, <1>5 DEF PushAccepted, PipelineInv, vars
  <2> QED
    BY <2>1, <2>2 DEF PipelineInv, BatchIdsUnique, Log!OnlyOnce
<1>6. CASE JobLost
  BY <1>0, <1>6 DEF JobLost, PipelineInv
<1>7. CASE ChangeSecret
  BY <1>0, <1>7 DEF ChangeSecret, ChangeKey, PipelineInv, job, run
<1>8. CASE \E f \in Files : MergeClaim(f)
  <2>1. UNCHANGED <<vars, base, stage>> /\ main.registry' = main.registry
    BY <1>8 DEF MergeClaim, PipelineTypeOK
  <2>2. stage # "waiting" => JobInv'
    BY <2>1, StutterJobInv DEF PipelineInv
  <2> QED
    BY <1>0, <2>1, <2>2 DEF PipelineInv, vars
<1>9. CASE UNCHANGED pipelineVars
  <2>1. UNCHANGED <<vars, main, base, stage>>
    BY <1>9 DEF pipelineVars
  <2>2. stage # "waiting" => JobInv'
    BY <2>1, StutterJobInv DEF PipelineInv
  <2> QED
    BY <1>0, <2>1, <2>2 DEF PipelineInv, vars
<1> QED
  BY <1>1, <1>2, <1>3, <1>4, <1>5, <1>6, <1>7, <1>8, <1>9 DEF PipelineNext

LEMMA PipelineInvariant == PipelineSpec => []PipelineInv
BY PipelineInitInv, PipelineStepInv, PipelineTypeCorrect, PTL DEF PipelineSpec

\* The published registry implements the abstract log: append-only, every batch
\* once, every added entry's checkpoint extending the one before it.
THEOREM PipelineImplementsLog == PipelineSpec => PublishesRegistryLog
<1>1. PipelineInit => Log!LogInit
  BY PipelineInitInv, SameLinked DEF PipelineInv, Log!LogInit
<1>2. ASSUME PipelineTypeOK, PipelineInv, PipelineInv', [PipelineNext]_pipelineVars
      PROVE  [Log!Publish]_(main.registry)
  <2>1. CASE PushAccepted
    BY <1>2, <2>1, PushPublishes, SameLinked DEF Log!Publish, PipelineInv
  <2>2. CASE Trigger \/ CommitStep \/ EndJob \/ PushRejected \/ JobLost
    BY <2>2 DEF Trigger, CommitStep, EndJob, PushRejected, JobLost
  <2>3. CASE PipelineStep \/ ChangeSecret
    BY <2>3 DEF PipelineStep, ChangeSecret, job
  <2>4. CASE \E f \in Files : MergeClaim(f)
    BY <1>2, <2>4 DEF MergeClaim, PipelineTypeOK
  <2>5. CASE UNCHANGED pipelineVars
    BY <2>5 DEF pipelineVars
  <2> QED
    BY <1>2, <2>1, <2>2, <2>3, <2>4, <2>5 DEF PipelineNext
<1> QED
  BY <1>1, <1>2, PipelineInvariant, PipelineTypeCorrect, PTL
     DEF PipelineSpec, PublishesRegistryLog, Log!LogSpec

-----------------------------------------------------------------------------
(* What main holds beside its registry: no push loses a claim file that was *)
(* merged, a processed file or a proof, and staging, proofs and registry    *)
(* agree about every claim, whatever fails in whichever job.                *)

Moved(done, f) == \E p \in done : p.file = f

ProofOf(e, f) == [day |-> e.ts, id |-> e.id, file |-> f, tree |-> e.batch]

\* A tree has one opinion about f: in no batch, or moved and in one, with its proof.
Settled(in, done, prfs, reg, f) ==
    /\ f \in in \/ ~Moved(done, f) => \A i \in DOMAIN reg : f \notin reg[i].batch
    /\ Moved(done, f) => \E i \in DOMAIN reg :
          /\ \A j \in DOMAIN reg : f \in reg[j].batch <=> j = i
          /\ ProofOf(reg[i], f) \in prfs

TreeGood(in, done, prfs, reg) ==
    /\ \A f \in Files : Settled(in, done, prfs, reg, f)
    /\ \A p \in prfs : Listed(reg, p.id)

\* The checkout while a batch is being anchored, before its line is written and
\* after; a failed group leaves neither, but then the job publishes nothing.
Anchoring ==
    /\ \A f \in Files : Settled(incoming, processed, proofs, registry, f)
    /\ \A p \in proofs : p.id = BatchId(batch) \/ Listed(registry, p.id)
    /\ \A f \in batch \ left : [day |-> ts, id |-> BatchId(batch), file |-> f, tree |-> batch] \in proofs
    /\ batch \subseteq incoming /\ todo \subseteq incoming \ batch

Moving ==
    /\ \A f \in Files \ left : Settled(incoming, processed, proofs, registry, f)
    /\ \A p \in proofs : Listed(registry, p.id)
    /\ Len(registry) \in DOMAIN registry
    /\ \A f \in left :
          /\ \A j \in DOMAIN registry : f \in registry[j].batch <=> j = Len(registry)
          /\ ProofOf(registry[Len(registry)], f) \in proofs
    /\ todo \subseteq incoming \ left

RunTree ==
    /\ pc = "idle" /\ exit \in {"none", "ok"} => TreeGood(incoming, processed, proofs, registry)
    /\ pc \in {"open", "next"} /\ ~failed =>
          TreeGood(incoming, processed, proofs, registry) /\ todo \subseteq incoming
    /\ pc = "proofs" /\ ~failed => Anchoring
    /\ pc = "move" /\ ~failed => Moving

\* What the job checked out is still in its checkout.
Kept ==
    /\ \A f \in base.incoming : f \in incoming \/ Moved(processed, f)
    /\ base.processed \subseteq processed
    /\ base.proofs \subseteq proofs
    /\ \A p \in base.proofs : Listed(base.registry, p.id)

TreeInv ==
    /\ TreeGood(main.incoming, main.processed, main.proofs, main.registry)
    /\ stage # "waiting" => Kept /\ RunTree

LEMMA TreeInitInv == PipelineInit => TreeInv
<1> SUFFICES ASSUME PipelineInit PROVE TreeInv
  OBVIOUS
<1>1. /\ main.incoming = {} /\ main.processed = {} /\ main.proofs = {}
      /\ main.registry = <<>> \/ main.registry = <<LegacyEntry>>
      /\ stage = "waiting"
  BY DEF PipelineInit, Init, TreeInit, Checkout, Tree
<1>2. \A i \in DOMAIN main.registry : main.registry[i] = LegacyEntry
  BY <1>1
<1>3. LegacyEntry.batch = {}
  BY DEF LegacyEntry, Entry
<1> QED
  BY <1>1, <1>2, <1>3 DEF TreeInv, TreeGood, Settled, Moved

-----------------------------------------------------------------------------
(* A step of the tool.                                                      *)

\* A proof that is written replaces none of a published batch.
LEMMA WrittenProof ==
    ASSUME RunInv, WriteProof
    PROVE  /\ \A p \in proofs : Listed(registry, p.id) => p \in proofs'
           /\ \A p \in proofs' : p \in proofs \/ p.id = BatchId(batch)
           /\ [day |-> ts, id |-> BatchId(batch), file |-> First(left), tree |-> batch] \in proofs'
           /\ \A f : f # First(left)
                  /\ [day |-> ts, id |-> BatchId(batch), file |-> f, tree |-> batch] \in proofs
                 => [day |-> ts, id |-> BatchId(batch), file |-> f, tree |-> batch] \in proofs'
<1> DEFINE id == BatchId(batch)
           g == First(left)
<1>1. proofs' = {p \in proofs : ~(p.day = ts /\ p.id = id /\ p.file = g)}
                    \cup {[day |-> ts, id |-> id, file |-> g, tree |-> batch]}
  BY DEF WriteProof
<1>2. ~Listed(registry, id)
  BY DEF RunInv, WriteProof
<1> HIDE DEF id, g
<1>3. \A p \in proofs : Listed(registry, p.id) => p \in proofs'
  BY <1>1, <1>2
<1>4. \A p \in proofs' : p \in proofs \/ p.id = id
  BY <1>1
<1>5. [day |-> ts, id |-> id, file |-> g, tree |-> batch] \in proofs'
  BY <1>1
<1>6. \A f : f # g /\ [day |-> ts, id |-> id, file |-> f, tree |-> batch] \in proofs
             => [day |-> ts, id |-> id, file |-> f, tree |-> batch] \in proofs'
  BY <1>1
<1> QED
  BY <1>3, <1>4, <1>5, <1>6 DEF id, g

LEMMA ToolKeeps ==
    ASSUME TypeOK, base.registry \in Seq(RegistryEntry), JobInv, Kept, ToolStep, UNCHANGED base
    PROVE  Kept'
<1>1. \A p \in base.proofs : Listed(registry, p.id)
  <2>1. DOMAIN base.registry \subseteq DOMAIN registry
    <3>1. /\ DOMAIN base.registry = 1..Len(base.registry) /\ Len(base.registry) \in Nat
          /\ DOMAIN registry = 1..Len(registry) /\ Len(registry) \in Nat
      BY LenProperties DEF TypeOK
    <3> QED
      BY <3>1 DEF JobInv, ExtendsBase
  <2> QED
    BY <2>1 DEF Kept, Listed, JobInv, ExtendsBase
<1>2. CASE WriteProof
  <2>1. base.proofs \subseteq proofs'
    BY <1>1, <1>2, WrittenProof DEF JobInv, Kept
  <2> QED
    BY <1>2, <2>1 DEF Kept, WriteProof, Moved
<1>3. CASE MoveFile
  <2> DEFINE g == First(left)
             moved == [id |-> BatchId(batch), file |-> g]
  <2>1. incoming' = incoming \ {g} /\ processed' = processed \cup {moved} /\ proofs' = proofs
        /\ moved.file = g
    BY <1>3 DEF MoveFile
  <2> HIDE DEF moved, g
  <2>2. Moved(processed', g) /\ \A f : Moved(processed, f) => Moved(processed', f)
    BY <2>1 DEF Moved
  <2> QED
    BY <2>1, <2>2 DEF Kept
<1>4. CASE UNCHANGED <<incoming, processed, proofs>>
  BY <1>4 DEF Kept, Moved
<1>5. UNCHANGED <<incoming, processed, proofs>> \/ WriteProof \/ MoveFile
  BY DEF ToolStep, StartRun, NothingPending, OpenLog, OpenRaises, OpenWithoutKey,
         RejectGroup, SkipGroup, GroupRefused, BeginGroup, AppendDayFile, GroupFails,
         Finish, Ends, tree
<1> QED
  BY <1>2, <1>3, <1>4, <1>5

LEMMA BeginTree == ASSUME RunTree, BeginGroup PROVE RunTree'
<1>1. /\ UNCHANGED <<incoming, processed, proofs, registry, failed>>
      /\ pc = "next" /\ pc' = "proofs"
      /\ batch' = NextGroup /\ left' = NextGroup /\ todo' = todo \ NextGroup
  BY DEF BeginGroup, tree
<1>2. NextGroup \subseteq todo
  BY DEF NextGroup
<1>3. ~failed => Anchoring'
  BY <1>1, <1>2 DEF RunTree, TreeGood, Anchoring, Settled, Moved, Listed
<1> QED
  BY <1>1, <1>3 DEF RunTree

LEMMA WriteTree == ASSUME TypeOK, RunInv, RunTree, WriteProof PROVE RunTree'
<1>1. /\ UNCHANGED <<incoming, processed, registry, ts, pc, todo, batch, failed, exit>>
      /\ pc = "proofs" /\ left' = left \ {First(left)}
      /\ BatchId(batch)' = BatchId(batch)
  BY DEF WriteProof, env, BatchId
<1>2. ASSUME Anchoring PROVE Anchoring'
  <2>1. ASSUME NEW f \in Files PROVE Settled(incoming, processed, proofs', registry, f)
    <3>1. Settled(incoming, processed, proofs, registry, f)
      BY <1>2 DEF Anchoring
    <3>2. \A i \in DOMAIN registry : ProofOf(registry[i], f) \in proofs => ProofOf(registry[i], f) \in proofs'
      <4>1. \A i \in DOMAIN registry : Listed(registry, ProofOf(registry[i], f).id)
        BY DEF Listed, ProofOf
      <4> QED
        BY <4>1, WrittenProof
    <3> QED
      BY <3>1, <3>2 DEF Settled
  <2>2. \A p \in proofs' : p.id = BatchId(batch) \/ Listed(registry, p.id)
    BY <1>2, WrittenProof DEF Anchoring
  <2>3. \A f \in batch \ left' :
            [day |-> ts, id |-> BatchId(batch), file |-> f, tree |-> batch] \in proofs'
    <3> TAKE f \in batch \ left'
    <3>1. CASE f = First(left)
      BY <3>1, WrittenProof
    <3>2. CASE f # First(left)
      BY <1>1, <1>2, <3>2, WrittenProof DEF Anchoring
    <3> QED
      BY <3>1, <3>2
  <2>4. batch \subseteq incoming /\ todo \subseteq incoming \ batch
    BY <1>2 DEF Anchoring
  <2> QED
    BY <1>1, <2>1, <2>2, <2>3, <2>4 DEF Anchoring, Settled, Moved, Listed
<1> QED
  BY <1>1, <1>2 DEF RunTree

LEMMA AppendTree == ASSUME TypeOK, RunTree, AppendDayFile PROVE RunTree'
<1> DEFINE e == Entry(batch, ts, IF signer = NoKey THEN NoCheckpoint ELSE log.latest)
           n == Len(registry) + 1
<1>1. /\ registry' = Append(registry, e)
      /\ UNCHANGED <<incoming, processed, proofs, todo, batch, ts, failed>>
      /\ pc = "proofs" /\ pc' = "move" /\ left = {} /\ left' = batch
  BY DEF AppendDayFile, env
<1>2. e.id = BatchId(batch) /\ e.batch = batch /\ e.ts = ts
  BY DEF Entry
<1>3. e \in RegistryEntry
  BY BatchIdType, NoCheckpointType DEF TypeOK, Entry, RegistryEntry
<1> HIDE DEF e
<1>4. /\ DOMAIN registry = 1..Len(registry) /\ Len(registry) \in Nat
      /\ DOMAIN registry' = 1..n /\ Len(registry') = n
      /\ \A i \in 1..Len(registry) : registry'[i] = registry[i]
      /\ registry'[n] = e
  BY <1>1, <1>3, AppendProperties, LenProperties DEF TypeOK
<1>5. /\ n \in DOMAIN registry' /\ n \notin DOMAIN registry
      /\ \A j \in DOMAIN registry' : j = n \/ j \in DOMAIN registry
      /\ \A j \in DOMAIN registry : j \in DOMAIN registry' /\ registry'[j] = registry[j]
  BY <1>4
<1> HIDE DEF n
<1>6. ASSUME Anchoring PROVE Moving'
  <2>1. ASSUME NEW f \in Files \ batch PROVE Settled(incoming, processed, proofs, registry', f)
    BY <1>2, <1>4, <1>5, <1>6 DEF Anchoring, Settled
  <2>2. ASSUME NEW f \in batch
        PROVE  /\ \A j \in DOMAIN registry' : f \in registry'[j].batch <=> j = n
               /\ ProofOf(registry'[n], f) \in proofs
    <3>1. \A j \in DOMAIN registry : f \notin registry[j].batch
      BY <1>6 DEF Anchoring, Settled, TypeOK
    <3>2. ProofOf(e, f) \in proofs
      BY <1>1, <1>2, <1>6 DEF Anchoring, ProofOf
    <3> QED
      BY <1>2, <1>4, <1>5, <3>1, <3>2
  <2>3. \A p \in proofs : Listed(registry', p.id)
    BY <1>2, <1>4, <1>5, <1>6 DEF Anchoring, Listed
  <2>4. todo \subseteq incoming \ batch
    BY <1>6 DEF Anchoring
  <2>5. n = Len(registry')
    BY <1>4
  <2>6. \A f \in Files \ left' : Settled(incoming, processed, proofs, registry, f)'
    BY <1>1, <2>1 DEF Settled, Moved, ProofOf
  <2>7. \A p \in proofs' : Listed(registry, p.id)'
    BY <1>1, <2>3 DEF Listed
  <2>8. \A f \in left' : ProofOf(registry[Len(registry)], f)' \in proofs'
    BY <1>1, <2>2, <2>5 DEF ProofOf
  <2>9. \A f \in left' : \A j \in DOMAIN registry' : f \in registry'[j].batch <=> j = Len(registry')
    BY <1>1, <2>2, <2>5
  <2> QED
    BY <1>1, <1>5, <2>4, <2>5, <2>6, <2>7, <2>8, <2>9 DEF Moving
<1> QED
  BY <1>1, <1>6 DEF RunTree

LEMMA MoveTree == ASSUME TypeOK, RunTree, MoveFile PROVE RunTree'
<1> DEFINE g == First(left)
<1>1. /\ incoming' = incoming \ {g}
      /\ processed' = processed \cup {[id |-> BatchId(batch), file |-> g]}
      /\ left' = left \ {g}
      /\ UNCHANGED <<proofs, registry, todo, failed, exit>>
      /\ pc = "move"
      /\ (pc' = "next" /\ left' = {}) \/ pc' = "move"
  BY DEF MoveFile
<1>2. g \in left /\ left \subseteq Files
  BY FirstIsLeast DEF TypeOK, MoveFile
<1> HIDE DEF g
<1>3. Moved(processed', g) /\ \A f : f # g => (Moved(processed', f) <=> Moved(processed, f))
  <2> DEFINE moved == [id |-> BatchId(batch), file |-> g]
  <2>1. processed' = processed \cup {moved} /\ moved.file = g
    BY <1>1
  <2> HIDE DEF moved
  <2> QED
    BY <2>1 DEF Moved
<1>4. ASSUME Moving PROVE Moving'
  <2>1. ASSUME NEW f \in Files \ left' PROVE Settled(incoming', processed', proofs, registry, f)
    <3>1. CASE f = g
      BY <1>1, <1>2, <1>3, <1>4, <3>1 DEF Moving, Settled
    <3>2. CASE f # g
      BY <1>1, <1>3, <1>4, <3>2 DEF Moving, Settled
    <3> QED
      BY <3>1, <3>2
  <2>2. todo \subseteq incoming' \ left'
    BY <1>1, <1>2, <1>4 DEF Moving
  <2> QED
    BY <1>1, <1>4, <2>1, <2>2 DEF Moving, Settled, Moved, Listed, ProofOf
<1>5. ASSUME Moving', left' = {}
      PROVE  TreeGood(incoming', processed', proofs', registry') /\ todo' \subseteq incoming'
  BY <1>5 DEF Moving, TreeGood, Settled, Moved, Listed, ProofOf
<1> QED
  BY <1>1, <1>4, <1>5 DEF RunTree, TreeGood, Settled, Moved, Listed, ProofOf

LEMMA ToolTree ==
    ASSUME TypeOK, RunInv, RunTree, pc = "idle" => exit = "none", ToolStep
    PROVE  RunTree'
<1>1. ASSUME UNCHANGED <<incoming, processed, proofs, registry>>,
             TreeGood(incoming, processed, proofs, registry)
      PROVE  TreeGood(incoming, processed, proofs, registry)'
  BY <1>1 DEF TreeGood, Settled, Moved, Listed, ProofOf
<1>2. CASE StartRun
  <2>1. Truncated(Records(incoming)) \subseteq incoming
    BY DEF Truncated, Records
  <2> QED
    BY <1>1, <1>2, <2>1 DEF StartRun, RunTree, tree
<1>3. CASE NothingPending
  BY <1>1, <1>3 DEF NothingPending, RunTree, tree
<1>4. CASE OpenLog \/ OpenRaises \/ OpenWithoutKey
  BY <1>1, <1>4 DEF OpenLog, OpenRaises, OpenWithoutKey, Ends, RunTree, tree
<1>5. CASE RejectGroup \/ SkipGroup \/ GroupRefused
  BY <1>1, <1>5 DEF RejectGroup, SkipGroup, GroupRefused, RunTree, tree
<1>6. CASE BeginGroup
  BY <1>6, BeginTree
<1>7. CASE WriteProof
  BY <1>7, WriteTree
<1>8. CASE AppendDayFile
  BY <1>8, AppendTree
<1>9. CASE MoveFile
  BY <1>9, MoveTree
<1>10. CASE GroupFails
  BY <1>10 DEF GroupFails, RunTree
<1>11. CASE Finish
  BY <1>1, <1>11 DEF Finish, Ends, RunTree, tree
<1> QED
  BY <1>2, <1>3, <1>4, <1>5, <1>6, <1>7, <1>8, <1>9, <1>10, <1>11 DEF ToolStep

-----------------------------------------------------------------------------
(* A step of the job, or of main under it.                                  *)

LEMMA StutterTree ==
    ASSUME Kept, RunTree, UNCHANGED vars, UNCHANGED base
    PROVE  Kept' /\ RunTree'
<1>1. /\ UNCHANGED <<incoming, processed, proofs, registry, ts, pc, todo, batch, left, failed, exit>>
      /\ BatchId(batch)' = BatchId(batch)
  BY DEF vars, BatchId
<1>2. Kept'
  BY <1>1 DEF Kept, Moved
<1>3. /\ TreeGood(incoming, processed, proofs, registry)' = TreeGood(incoming, processed, proofs, registry)
      /\ Anchoring' = Anchoring /\ Moving' = Moving
  BY <1>1 DEF TreeGood, Anchoring, Moving, Settled, Moved, Listed, ProofOf
<1> QED
  BY <1>1, <1>2, <1>3 DEF RunTree

LEMMA TriggerTree ==
    ASSUME TreeInv, PipelineInv, Trigger
    PROVE  TreeInv'
<1>1. /\ incoming' = main.incoming /\ processed' = main.processed /\ proofs' = main.proofs
      /\ registry' = main.registry /\ base' = main /\ main' = main
      /\ pc' = "idle" /\ exit' = "none"
  BY DEF Trigger, PipelineInv
<1>2. TreeGood(main.incoming, main.processed, main.proofs, main.registry)
  BY DEF TreeInv
<1>3. /\ TreeGood(main.incoming, main.processed, main.proofs, main.registry)'
      /\ TreeGood(incoming, processed, proofs, registry)'
  BY <1>1, <1>2 DEF TreeGood, Settled, Moved, Listed, ProofOf
<1>4. Kept'
  BY <1>1, <1>2 DEF Kept, TreeGood, Moved, Listed
<1> QED
  BY <1>1, <1>3, <1>4 DEF TreeInv, RunTree

\* A claim file that is new on main is in no batch: what is in one was moved.
LEMMA MergeTree ==
    ASSUME PipelineTypeOK, TreeInv, NEW f \in Files, MergeClaim(f)
    PROVE  TreeInv'
<1>1. /\ main'.incoming = main.incoming \cup {f} /\ main'.processed = main.processed
      /\ main'.proofs = main.proofs /\ main'.registry = main.registry
      /\ ~Moved(main.processed, f) /\ UNCHANGED <<vars, base, stage>>
  BY DEF MergeClaim, PipelineTypeOK, Moved
<1>2. TreeGood(main.incoming, main.processed, main.proofs, main.registry)
  BY DEF TreeInv
<1>3. TreeGood(main'.incoming, main'.processed, main'.proofs, main'.registry)
  BY <1>1, <1>2 DEF TreeGood, Settled
<1>4. TreeGood(main.incoming, main.processed, main.proofs, main.registry)'
  BY <1>3 DEF TreeGood, Settled, Moved, Listed, ProofOf
<1> QED
  BY <1>1, <1>4, StutterTree DEF TreeInv

\* The checkout of a job that may push is a good tree and holds all of main.
LEMMA PushedTree ==
    ASSUME PipelineInv, TreeInv, PushAccepted
    PROVE  /\ main'.incoming = incoming /\ main'.processed = processed
           /\ main'.proofs = proofs /\ main'.registry = registry
           /\ main = base /\ JobInv /\ Kept
           /\ TreeGood(incoming, processed, proofs, registry)
<1>1. stage = "push" /\ pc = "idle" /\ exit = "ok" /\ JobInv
  BY DEF PushAccepted, PipelineInv
<1> QED
  BY <1>1 DEF PushAccepted, TreeInv, RunTree, Checkout, Tree

LEMMA TreeStepInv ==
    ASSUME PipelineTypeOK, PipelineInv, TreeInv, [PipelineNext]_pipelineVars
    PROVE  TreeInv'
<1>1. ASSUME main' = main
      PROVE  TreeGood(main.incoming, main.processed, main.proofs, main.registry)'
  BY <1>1 DEF TreeInv, TreeGood, Settled, Moved, Listed, ProofOf
<1>2. CASE PipelineStep
  <2>1. /\ stage = "pipeline" /\ UNCHANGED job /\ ToolStep /\ (pc = "idle" => exit = "none")
        /\ TypeOK /\ base.registry \in Seq(RegistryEntry) /\ JobInv /\ Kept /\ RunTree
    BY <1>2 DEF PipelineStep, PipelineTypeOK, PipelineInv, TreeInv
  <2>2. UNCHANGED base /\ main' = main
    BY <2>1 DEF job
  <2>3. Kept'
    BY <2>1, <2>2, ToolKeeps
  <2>4. RunTree'
    BY <2>1, ToolTree DEF JobInv
  <2> QED
    BY <1>1, <2>2, <2>3, <2>4 DEF TreeInv
<1>3. CASE CommitStep \/ UNCHANGED pipelineVars
  <2>1. UNCHANGED <<vars, main, base>> /\ (stage' # "waiting" => stage # "waiting")
    BY <1>3 DEF CommitStep, ToolEnded, pipelineVars
  <2> QED
    BY <1>1, <2>1, StutterTree DEF TreeInv
<1>4. CASE EndJob \/ PushRejected \/ JobLost \/ ChangeSecret
  <2>1. stage' = "waiting" /\ main' = main
    BY <1>4 DEF EndJob, PushRejected, JobLost, ChangeSecret, job
  <2> QED
    BY <1>1, <2>1 DEF TreeInv
<1>5. CASE PushAccepted
  <2>1. TreeGood(main'.incoming, main'.processed, main'.proofs, main'.registry)
    BY <1>5, PushedTree
  <2>2. TreeGood(main.incoming, main.processed, main.proofs, main.registry)'
    BY <2>1 DEF TreeGood, Settled, Moved, Listed, ProofOf
  <2> QED
    BY <1>5, <2>2 DEF PushAccepted, TreeInv
<1>6. CASE Trigger
  BY <1>6, TriggerTree
<1>7. CASE \E f \in Files : MergeClaim(f)
  BY <1>7, MergeTree
<1> QED
  BY <1>2, <1>3, <1>4, <1>5, <1>6, <1>7 DEF PipelineNext

LEMMA TreeInvariant == PipelineSpec => []TreeInv
BY TreeInitInv, TreeStepInv, PipelineInvariant, PipelineTypeCorrect, PTL DEF PipelineSpec

-----------------------------------------------------------------------------
\* On main, staging, proofs and registry agree about every claim file, whatever
\* failed in the checkouts of jobs that published and of those that did not.
THEOREM TreeIsConsistent == PipelineSpec => []PublishedTreeConsistent
<1>1. TreeInv => PublishedTreeConsistent
  <2> SUFFICES ASSUME TreeInv, NEW f \in Files
               PROVE  LET batchesOf == {i \in DOMAIN main.registry : f \in main.registry[i].batch}
                      IN  /\ f \in main.incoming => batchesOf = {}
                          /\ Moved(main.processed, f) => \E i \in DOMAIN main.registry :
                                batchesOf = {i} /\ ProofOf(main.registry[i], f) \in main.proofs
    BY DEF PublishedTreeConsistent, Moved, ProofOf
  <2>1. Settled(main.incoming, main.processed, main.proofs, main.registry, f)
    BY DEF TreeInv, TreeGood
  <2> QED
    BY <2>1 DEF Settled
<1> QED
  BY <1>1, TreeInvariant, PTL

\* A push adds to main and takes nothing away: not a claim file merged while the
\* job ran, not a processed file, a proof or an entry.
THEOREM NothingIsLost == PipelineSpec => NothingPublishedIsLost
<1> DEFINE Grows ==
        /\ \A f \in main.incoming : f \in main'.incoming \/ \E p \in main'.processed : p.file = f
        /\ main.processed \subseteq main'.processed
        /\ main.proofs \subseteq main'.proofs
        /\ IsPrefix(main.registry, main'.registry)
<1>1. PipelineTypeOK /\ PipelineInv /\ TreeInv /\ [PipelineNext]_pipelineVars => [Grows]_main
  <2> SUFFICES ASSUME PipelineTypeOK, PipelineInv, TreeInv, [PipelineNext]_pipelineVars, main' # main
               PROVE  Grows
    OBVIOUS
  <2>1. /\ main.registry \in Seq(RegistryEntry) /\ registry \in Seq(RegistryEntry)
        /\ Len(main.registry) \in Nat /\ Len(registry) \in Nat
    BY LenProperties DEF PipelineTypeOK, TypeOK
  <2>2. CASE PushAccepted
    <3>1. /\ main'.incoming = incoming /\ main'.processed = processed
          /\ main'.proofs = proofs /\ main'.registry = registry
          /\ main = base /\ JobInv /\ Kept
      BY <2>2, PushedTree
    <3>2. /\ Len(main.registry) <= Len(registry)
          /\ \A i \in 1..Len(main.registry) : registry[i] = main.registry[i]
      BY <2>1, <3>1, LenProperties DEF JobInv, ExtendsBase
    <3>3. SubSeq(main.registry, 1, Len(main.registry)) = SubSeq(registry, 1, Len(main.registry))
      BY <2>1, <3>2
    <3> QED
      BY <3>1, <3>2, <3>3 DEF Kept, Moved, IsPrefix
  <2>3. CASE \E f \in Files : MergeClaim(f)
    <3>1. /\ main.incoming \subseteq main'.incoming /\ main'.processed = main.processed
          /\ main'.proofs = main.proofs /\ main'.registry = main.registry
      BY <2>3 DEF MergeClaim, PipelineTypeOK
    <3>2. IsPrefix(main.registry, main.registry)
      BY <2>1 DEF IsPrefix
    <3> QED
      BY <3>1, <3>2
  <2>4. main' = main \/ PushAccepted \/ \E f \in Files : MergeClaim(f)
    BY DEF PipelineNext, Trigger, PipelineStep, CommitStep, EndJob, PushRejected, JobLost,
           ChangeSecret, job, pipelineVars
  <2> QED
    BY <2>2, <2>3, <2>4
<1> QED
  BY <1>1, TreeInvariant, PipelineInvariant, PipelineTypeCorrect, PTL
     DEF PipelineSpec, NothingPublishedIsLost

-----------------------------------------------------------------------------
(* A claim that cannot be anchored stops what is beside it.  A run that has   *)
(* not failed still has to come to every such claim, as long as no group is   *)
(* cut short: the schedule passes no --max-batch.                             *)

Bad(f) == Kind(f) \notin {"valid", "malformed"}

BadAhead ==
    /\ pc = "idle" /\ exit = "none" => incoming = base.incoming
    /\ pc # "idle" /\ ~failed => \A f \in base.incoming : Bad(f) => f \in todo
    /\ pc = "idle" /\ exit = "ok" /\ anchored => \A f \in base.incoming : ~Bad(f)

\* A batch_id that was published, or is being anchored, is of valid claims only:
\* a group with another one is never skipped as already anchored.
ValidIds(reg) == \A i \in DOMAIN reg : \A c \in DOMAIN reg[i].id : KindOf[c] = "valid"

IdsAreValid ==
    /\ ValidIds(registry)
    /\ ValidIds(main.registry)
    /\ pc = "proofs" => \A c \in DOMAIN BatchId(batch) : KindOf[c] = "valid"

BadInv ==
    /\ IdsAreValid
    /\ stage # "waiting" => BadAhead
    /\ stage = "push" => anchored

LEMMA BeginsValid ==
    ASSUME BeginGroup
    PROVE  \A c \in DOMAIN BatchId(NextGroup) : KindOf[c] = "valid"
<1>1. \A f \in NextGroup : Kind(f) = "valid"
  BY DEF BeginGroup, Acceptable, HasLeaves
<1> QED
  BY <1>1 DEF Kind, BatchId

LEMMA SkipsValid ==
    ASSUME ValidIds(registry), SkipGroup
    PROVE  \A f \in NextGroup : ~Bad(f)
<1>1. PICK i \in DOMAIN registry : registry[i].id = BatchId(NextGroup)
  BY DEF SkipGroup, PublishedIds, IdsDated
<1>2. \A f \in NextGroup : ClaimOf[f] \in DOMAIN BatchId(NextGroup)
  BY DEF BatchId
<1>3. \A f \in NextGroup : KindOf[ClaimOf[f]] = "valid"
  BY <1>1, <1>2 DEF ValidIds
<1> QED
  BY <1>3 DEF Bad, Kind

LEMMA ToolIdsValid ==
    ASSUME TypeOK, IdsAreValid, ToolStep, UNCHANGED main
    PROVE  IdsAreValid'
<1>1. ASSUME UNCHANGED registry, pc' # "proofs" \/ (pc' = pc /\ batch' = batch)
      PROVE  IdsAreValid'
  <2>1. ValidIds(registry)' /\ ValidIds(main.registry)'
    BY <1>1 DEF IdsAreValid, ValidIds
  <2>2. batch' = batch => BatchId(batch)' = BatchId(batch)
    BY DEF BatchId
  <2> QED
    BY <1>1, <2>1, <2>2 DEF IdsAreValid
<1>2. CASE BeginGroup
  <2>1. UNCHANGED registry /\ BatchId(batch)' = BatchId(NextGroup)
    BY <1>2 DEF BeginGroup, tree, BatchId
  <2>2. ValidIds(registry)' /\ ValidIds(main.registry)'
    BY <2>1 DEF IdsAreValid, ValidIds
  <2> QED
    BY <1>2, <2>1, <2>2, BeginsValid DEF IdsAreValid
<1>3. CASE AppendDayFile
  <2> DEFINE e == Entry(batch, ts, IF signer = NoKey THEN NoCheckpoint ELSE log.latest)
  <2>1. registry' = Append(registry, e) /\ pc = "proofs" /\ pc' = "move" /\ e.id = BatchId(batch)
    BY <1>3 DEF AppendDayFile, Entry
  <2>2. e \in RegistryEntry
    BY BatchIdType, NoCheckpointType DEF TypeOK, Entry, RegistryEntry
  <2> HIDE DEF e
  <2>3. \A i \in DOMAIN registry' :
            (i \in DOMAIN registry /\ registry'[i] = registry[i]) \/ registry'[i] = e
    BY <2>1, <2>2, AppendProperties, LenProperties DEF TypeOK
  <2>4. ValidIds(registry)'
    BY <2>1, <2>3 DEF IdsAreValid, ValidIds
  <2> QED
    BY <2>1, <2>4 DEF IdsAreValid, ValidIds
<1>4. CASE WriteProof
  BY <1>1, <1>4 DEF WriteProof
<1>5. CASE MoveFile
  <2>1. UNCHANGED registry /\ pc = "move" /\ (pc' = "next" \/ pc' = pc)
    BY <1>5 DEF MoveFile
  <2> QED
    BY <1>1, <2>1
<1>6. CASE StartRun \/ NothingPending \/ OpenLog \/ OpenRaises \/ OpenWithoutKey
  BY <1>1, <1>6 DEF StartRun, NothingPending, OpenLog, OpenRaises, OpenWithoutKey, Ends, tree
<1>7. CASE RejectGroup \/ SkipGroup \/ GroupRefused \/ GroupFails \/ Finish
  BY <1>1, <1>7 DEF RejectGroup, SkipGroup, GroupRefused, GroupFails, Finish, Ends, tree
<1> QED
  BY <1>2, <1>3, <1>4, <1>5, <1>6, <1>7 DEF ToolStep

\* What main holds came from a checkout, and what a checkout holds from main.
LEMMA StepIdsValid ==
    ASSUME PipelineTypeOK, PipelineInv, IdsAreValid, [PipelineNext]_pipelineVars
    PROVE  IdsAreValid'
<1>1. CASE PipelineStep
  BY <1>1, ToolIdsValid DEF PipelineStep, PipelineTypeOK, job
<1>2. CASE Trigger
  <2>1. registry' = main.registry /\ main' = main /\ pc' = "idle"
    BY <1>2 DEF Trigger, PipelineInv
  <2> QED
    BY <2>1 DEF IdsAreValid, ValidIds
<1>3. CASE PushAccepted
  <2>1. main'.registry = registry /\ registry' = registry /\ pc' = "idle"
    BY <1>3 DEF PushAccepted, PipelineInv, Checkout, Tree, vars
  <2> QED
    BY <2>1 DEF IdsAreValid, ValidIds
<1>4. CASE JobLost
  BY <1>4 DEF JobLost, IdsAreValid, ValidIds, tree
<1>5. CASE CommitStep \/ EndJob \/ PushRejected \/ ChangeSecret
           \/ (\E f \in Files : MergeClaim(f)) \/ UNCHANGED pipelineVars
  <2>1. UNCHANGED <<registry, pc, batch>> /\ main'.registry = main.registry
    BY <1>5 DEF CommitStep, EndJob, PushRejected, ChangeSecret, ChangeKey, MergeClaim,
                PipelineTypeOK, pipelineVars, vars, tree, run, job
  <2>2. BatchId(batch)' = BatchId(batch)
    BY <2>1 DEF BatchId
  <2> QED
    BY <2>1, <2>2 DEF IdsAreValid, ValidIds
<1> QED
  BY <1>1, <1>2, <1>3, <1>4, <1>5 DEF PipelineNext

LEMMA StartSeesAll ==
    ASSUME MaxBatch = 0, TypeOK, incoming = base.incoming, StartRun,
           NEW f \in base.incoming, Bad(f), ~failed'
    PROVE  f \in todo'
<1>1. f \in incoming /\ Rejections(incoming) = {}
  BY DEF StartRun
<1>2. Kind(f) # "rejected" /\ Kind(f) # "malformed"
  BY <1>1 DEF Rejections, Bad
<1>3. f \in Records(incoming)
  BY <1>1, <1>2 DEF Records
<1> QED
  BY <1>3 DEF StartRun, Truncated

LEMMA ToolComesToBad ==
    ASSUME MaxBatch = 0, TypeOK, ValidIds(registry), BadAhead, ToolStep, UNCHANGED base,
           pc = "idle" => exit = "none"
    PROVE  BadAhead'
<1>1. CASE StartRun
  <2>1. pc = "idle" /\ pc' = "open"
    BY <1>1 DEF StartRun
  <2>2. incoming = base.incoming
    BY <2>1 DEF BadAhead
  <2>3. ASSUME NEW f \in base.incoming, Bad(f), ~failed' PROVE f \in todo'
    BY <1>1, <2>2, <2>3, StartSeesAll
  <2> QED
    BY <2>1, <2>3 DEF BadAhead, Bad, Kind
<1>2. CASE NothingPending
  BY <1>2 DEF NothingPending, BadAhead
<1>3. CASE OpenRaises
  BY <1>3 DEF OpenRaises, Ends, BadAhead
<1>4. CASE OpenLog
  BY <1>4 DEF OpenLog, BadAhead, Bad, Kind
<1>5. CASE OpenWithoutKey
  BY <1>5 DEF OpenWithoutKey, Ends, BadAhead, Bad, Kind
<1>6. CASE RejectGroup \/ GroupRefused \/ GroupFails
  BY <1>6 DEF RejectGroup, GroupRefused, GroupFails, BadAhead
<1>7. CASE SkipGroup \/ BeginGroup
  <2>1. /\ todo' = todo \ NextGroup /\ failed' = failed
        /\ pc = "next" /\ pc' # "idle"
    BY <1>7 DEF SkipGroup, BeginGroup
  <2>2. \A f \in NextGroup : ~Bad(f)
    <3>1. CASE SkipGroup
      BY <3>1, SkipsValid
    <3>2. CASE BeginGroup
      BY <3>2 DEF BeginGroup, Acceptable, HasLeaves, Bad
    <3> QED
      BY <1>7, <3>1, <3>2
  <2> QED
    BY <2>1, <2>2 DEF BadAhead, Bad, Kind
<1>8. CASE WriteProof \/ AppendDayFile \/ MoveFile
  <2>1. pc # "idle" /\ pc' # "idle" /\ todo' = todo /\ failed' = failed
    BY <1>8 DEF WriteProof, AppendDayFile, MoveFile
  <2> QED
    BY <2>1 DEF BadAhead, Bad, Kind
<1>9. CASE Finish
  <2>1. /\ pc = "next" /\ pc' = "idle" /\ todo = {}
        /\ exit' = IF failed THEN "fail" ELSE "ok"
    BY <1>9 DEF Finish, Ends
  <2> QED
    BY <2>1 DEF BadAhead, Bad, Kind
<1> QED
  BY <1>1, <1>2, <1>3, <1>4, <1>5, <1>6, <1>7, <1>8, <1>9 DEF ToolStep

LEMMA BadInitInv == PipelineInit => BadInv
<1> SUFFICES ASSUME PipelineInit PROVE BadInv
  OBVIOUS
<1>1. /\ registry = <<>> \/ registry = <<LegacyEntry>>
      /\ main.registry = registry /\ pc = "idle" /\ stage = "waiting"
  BY DEF PipelineInit, Init, TreeInit, RunInit, Checkout, Tree
<1>2. \A i \in DOMAIN registry : registry[i] = LegacyEntry
  BY <1>1
<1>3. DOMAIN LegacyEntry.id = {}
  BY DEF LegacyEntry, Entry, BatchId
<1> QED
  BY <1>1, <1>2, <1>3 DEF BadInv, IdsAreValid, ValidIds

LEMMA BadStepInv ==
    ASSUME MaxBatch = 0, PipelineTypeOK, PipelineInv, BadInv, [PipelineNext]_pipelineVars
    PROVE  BadInv'
<1>0. IdsAreValid'
  BY StepIdsValid DEF BadInv
<1>1. CASE Trigger
  <2>1. /\ stage' = "pipeline" /\ base' = main /\ incoming' = main.incoming
        /\ pc' = pc /\ pc = "idle" /\ exit' = "none"
    BY <1>1 DEF Trigger, PipelineInv
  <2> QED
    BY <1>0, <2>1 DEF BadInv, BadAhead
<1>2. CASE PipelineStep
  <2>1. /\ stage = "pipeline" /\ UNCHANGED job /\ ToolStep /\ (pc = "idle" => exit = "none")
        /\ TypeOK /\ ValidIds(registry) /\ BadAhead
    BY <1>2 DEF PipelineStep, PipelineTypeOK, BadInv, IdsAreValid
  <2>2. BadAhead' /\ stage' = "pipeline"
    BY <2>1, ToolComesToBad DEF job
  <2> QED
    BY <1>0, <2>2 DEF BadInv
<1>3. CASE CommitStep
  <2>1. stage = "pipeline" /\ anchored /\ UNCHANGED <<vars, main, base>>
    BY <1>3 DEF CommitStep, ToolEnded, Publishable
  <2> QED
    BY <1>0, <2>1 DEF BadInv, BadAhead, Bad, Kind, vars
<1>4. CASE EndJob \/ PushAccepted \/ PushRejected \/ JobLost \/ ChangeSecret
  <2>1. stage' = "waiting"
    BY <1>4 DEF EndJob, PushAccepted, PushRejected, JobLost, ChangeSecret, job
  <2> QED
    BY <1>0, <2>1 DEF BadInv
<1>5. CASE (\E f \in Files : MergeClaim(f)) \/ UNCHANGED pipelineVars
  <2>1. UNCHANGED <<vars, base, stage>>
    BY <1>5 DEF MergeClaim, pipelineVars
  <2> QED
    BY <1>0, <2>1 DEF BadInv, BadAhead, Bad, Kind, vars
<1> QED
  BY <1>1, <1>2, <1>3, <1>4, <1>5 DEF PipelineNext

LEMMA BadInvariant == ASSUME MaxBatch = 0 PROVE PipelineSpec => []BadInv
<1>1. PipelineTypeOK /\ PipelineInv /\ BadInv /\ [PipelineNext]_pipelineVars => BadInv'
  BY BadStepInv
<1> QED
  BY <1>1, BadInitInv, PipelineInvariant, PipelineTypeCorrect, PTL DEF PipelineSpec

\* With batches of any size, which is what the schedule asks for, no entry is
\* pushed from a checkout that held a claim which can never be anchored.
THEOREM NothingBesideABadClaim ==
    ASSUME MaxBatch = 0 PROVE PipelineSpec => NothingPublishedBesideABadClaim
<1> DEFINE Clean == main'.registry # main.registry =>
                        \A f \in base.incoming : Kind(f) \in {"valid", "malformed"}
<1>1. PipelineTypeOK /\ PipelineInv /\ BadInv /\ [PipelineNext]_pipelineVars => [Clean]_pipelineVars
  <2> SUFFICES ASSUME PipelineTypeOK, PipelineInv, BadInv, [PipelineNext]_pipelineVars,
                      main'.registry # main.registry, NEW f \in base.incoming
               PROVE  Kind(f) \in {"valid", "malformed"}
    OBVIOUS
  <2>1. PushAccepted
    BY DEF PipelineNext, Trigger, PipelineStep, CommitStep, EndJob, PushRejected, JobLost,
           ChangeSecret, MergeClaim, job, pipelineVars, PipelineTypeOK
  <2>2. stage = "push" /\ pc = "idle" /\ exit = "ok" /\ anchored
    BY <2>1 DEF PushAccepted, PipelineInv, BadInv
  <2> QED
    BY <2>2 DEF BadInv, BadAhead, Bad
<1> QED
  BY <1>1, BadInvariant, PipelineInvariant, PipelineTypeCorrect, PTL
     DEF PipelineSpec, NothingPublishedBesideABadClaim
=============================================================================
