--------------------------- MODULE AggregatorProofs --------------------------
(***************************************************************************)
(* The aggregator through write errors, deaths and restarts, for any calls *)
(* and claims: types, that each queued job is in one place only and a leaf *)
(* at most once, that every proof is of a published entry, and that        *)
(* published roots nest.                                                   *)
(***************************************************************************)
EXTENDS Aggregator, CheckpointChainProofs

-----------------------------------------------------------------------------
(* Jobs in sequences.                                                       *)

In(j, jobs) == \E i \in DOMAIN jobs : jobs[i] = j
Distinct(jobs) == \A i, k \in DOMAIN jobs : jobs[i] = jobs[k] => i = k

LEMMA InEmpty == Distinct(<<>>) /\ \A j : ~In(j, <<>>)
BY DEF Distinct, In

LEMMA InToSet == ASSUME NEW jobs, NEW j PROVE j \in ToSet(jobs) <=> In(j, jobs)
BY DEF ToSet, In

LEMMA PlaceIsItsOwn ==
    ASSUME NEW jobs, NEW j, In(j, jobs)
    PROVE  PlaceOf(j, jobs) \in DOMAIN jobs /\ jobs[PlaceOf(j, jobs)] = j
BY DEF In, PlaceOf

LEMMA InConcat ==
    ASSUME NEW E, NEW s \in Seq(E), NEW t \in Seq(E)
    PROVE  /\ \A j : In(j, s \o t) <=> In(j, s) \/ In(j, t)
           /\ Distinct(s) /\ Distinct(t) /\ (\A j : In(j, s) => ~In(j, t)) => Distinct(s \o t)
<1>1. /\ DOMAIN s = 1..Len(s) /\ DOMAIN t = 1..Len(t)
      /\ DOMAIN (s \o t) = 1..Len(s) + Len(t)
      /\ Len(s) \in Nat /\ Len(t) \in Nat
  BY ConcatProperties, LenProperties
<1>2. /\ \A i \in DOMAIN s : i \in DOMAIN (s \o t) /\ (s \o t)[i] = s[i]
      /\ \A i \in DOMAIN t : i + Len(s) \in DOMAIN (s \o t) /\ (s \o t)[i + Len(s)] = t[i]
      /\ \A i \in DOMAIN (s \o t) : i \in DOMAIN s \/ i - Len(s) \in DOMAIN t
      /\ \A i \in DOMAIN (s \o t) : i \notin DOMAIN s => (s \o t)[i] = t[i - Len(s)]
  BY <1>1, ConcatProperties
<1>3. \A j : In(j, s \o t) <=> In(j, s) \/ In(j, t)
  <2> SUFFICES ASSUME NEW j PROVE In(j, s \o t) <=> In(j, s) \/ In(j, t)
    OBVIOUS
  <2>1. ASSUME In(j, s \o t) PROVE In(j, s) \/ In(j, t)
    BY <1>2, <2>1 DEF In
  <2>2. ASSUME In(j, s) PROVE In(j, s \o t)
    BY <1>2, <2>2 DEF In
  <2>3. ASSUME In(j, t) PROVE In(j, s \o t)
    BY <1>2, <2>3 DEF In
  <2> QED
    BY <2>1, <2>2, <2>3
<1>4. ASSUME Distinct(s), Distinct(t), \A j : In(j, s) => ~In(j, t)
      PROVE  Distinct(s \o t)
  <2> SUFFICES ASSUME NEW i \in DOMAIN (s \o t), NEW k \in DOMAIN (s \o t),
                      (s \o t)[i] = (s \o t)[k]
               PROVE  i = k
    BY DEF Distinct
  <2>1. CASE i \in DOMAIN s /\ k \in DOMAIN s
    BY <1>2, <1>4, <2>1 DEF Distinct
  <2>2. CASE i \notin DOMAIN s /\ k \notin DOMAIN s
    <3>1. i - Len(s) = k - Len(s)
      BY <1>2, <1>4, <2>2 DEF Distinct
    <3> QED
      BY <1>1, <3>1
  <2>3. \A n \in DOMAIN (s \o t) : /\ n \in DOMAIN s => In((s \o t)[n], s)
                                   /\ n \notin DOMAIN s => In((s \o t)[n], t)
    BY <1>2 DEF In
  <2>4. (i \in DOMAIN s /\ k \in DOMAIN s) \/ (i \notin DOMAIN s /\ k \notin DOMAIN s)
    BY <1>4, <2>3
  <2> QED
    BY <2>1, <2>2, <2>4
<1> QED
  BY <1>3, <1>4

LEMMA InPick ==
    ASSUME NEW E, NEW s \in Seq(E), NEW I \in SUBSET DOMAIN s
    PROVE  /\ Pick(s, I) \in Seq(E)
           /\ \A j : In(j, Pick(s, I)) <=> \E i \in I : s[i] = j
           /\ Distinct(s) => Distinct(Pick(s, I))
<1>1. /\ Pick(s, I) \in Seq(E)
      /\ \A k \in DOMAIN Pick(s, I) : Nth(I, k) \in I /\ Pick(s, I)[k] = s[Nth(I, k)]
      /\ \A i \in I : Rank(I, i) \in DOMAIN Pick(s, I) /\ Pick(s, I)[Rank(I, i)] = s[i]
      /\ \A k, n \in DOMAIN Pick(s, I) : Nth(I, k) = Nth(I, n) => k = n
  BY PickProperties
<1>2. \A j : In(j, Pick(s, I)) <=> \E i \in I : s[i] = j
  BY <1>1 DEF In
<1>3. Distinct(s) => Distinct(Pick(s, I))
  BY <1>1 DEF Distinct
<1> QED
  BY <1>1, <1>2, <1>3

\* A call's jobs are its own, each once.
LEMMA CallJobs ==
    ASSUME NEW c \in Calls
    PROVE  /\ JobsOf(c) \in Seq(Jobs)
           /\ Distinct(JobsOf(c))
           /\ \A j : In(j, JobsOf(c)) <=> j \in Jobs /\ j[1] = c
           /\ \A i \in DOMAIN ClaimsOf[c] : <<c, i>> \in Jobs
<1>1. ClaimsOf[c] \in Seq(Claims)
  BY CallsAssumption
<1>2. DOMAIN ClaimsOf[c] = 1..Len(ClaimsOf[c]) /\ Len(ClaimsOf[c]) \in Nat
  BY <1>1, LenProperties
<1>3. \A i \in DOMAIN ClaimsOf[c] : <<c, i>> \in Jobs
  BY DEF Jobs
<1>4. JobsOf(c) \in Seq(Jobs)
  BY <1>2, <1>3 DEF JobsOf
<1>5. Distinct(JobsOf(c))
  BY DEF JobsOf, Distinct
<1>6. ASSUME NEW j \in Jobs, j[1] = c PROVE In(j, JobsOf(c))
  <2>1. PICK d \in Calls : j \in {<<d, i>> : i \in DOMAIN ClaimsOf[d]}
    BY DEF Jobs
  <2>2. PICK i \in DOMAIN ClaimsOf[d] : j = <<d, i>>
    BY <2>1
  <2> QED
    BY <1>6, <2>2 DEF In, JobsOf
<1>7. \A j : In(j, JobsOf(c)) => j \in Jobs /\ j[1] = c
  BY <1>3 DEF In, JobsOf
<1> QED
  BY <1>3, <1>4, <1>5, <1>6, <1>7

LEMMA JobType ==
    ASSUME NEW j \in Jobs
    PROVE  j[1] \in Calls /\ Claim(j) \in Claims /\ j = <<j[1], j[2]>> /\ j[2] \in DOMAIN ClaimsOf[j[1]]
<1>0. PICK c \in Calls : \E i \in DOMAIN ClaimsOf[c] : j = <<c, i>>
  BY DEF Jobs
<1>1. PICK i \in DOMAIN ClaimsOf[c] : j = <<c, i>>
  BY <1>0
<1>2. ClaimsOf[c] \in Seq(Claims)
  BY CallsAssumption
<1>3. ClaimsOf[c][i] \in Claims
  BY <1>2, ElementOfSeq, LenProperties
<1> QED
  BY <1>1, <1>3 DEF Claim

\* A group is what its first job's fellows are; the others stay to do.
LEMMA Grouping ==
    ASSUME todo \in Seq(Jobs), todo # <<>>
    PROVE  /\ NextGroup \in Seq(Jobs) /\ OtherGroups \in Seq(Jobs)
           /\ NextGroup # <<>>
           /\ \A j : In(j, todo) <=> In(j, NextGroup) \/ In(j, OtherGroups)
           /\ Distinct(todo) => \A j : In(j, NextGroup) => ~In(j, OtherGroups)
           /\ Distinct(todo) => Distinct(NextGroup) /\ Distinct(OtherGroups)
<1> DEFINE I == {i \in DOMAIN todo : InGroup(i)}
           O == {i \in DOMAIN todo : ~InGroup(i)}
<1>1. I \in SUBSET DOMAIN todo /\ O \in SUBSET DOMAIN todo
  OBVIOUS
<1>2. DOMAIN todo = I \cup O /\ I \cap O = {}
  OBVIOUS
<1>3. 1 \in I
  <2>1. 1 \in DOMAIN todo /\ Head(todo) = todo[1]
    BY EmptySeq, LenProperties
  <2> QED
    BY <2>1 DEF InGroup, SameGroup
<1>4. NextGroup = Pick(todo, I) /\ OtherGroups = Pick(todo, O)
  BY DEF NextGroup, OtherGroups
<1> HIDE DEF I, O
<1>5. /\ NextGroup \in Seq(Jobs) /\ OtherGroups \in Seq(Jobs)
      /\ \A j : In(j, NextGroup) <=> \E i \in I : todo[i] = j
      /\ \A j : In(j, OtherGroups) <=> \E i \in O : todo[i] = j
      /\ Distinct(todo) => Distinct(NextGroup) /\ Distinct(OtherGroups)
  BY <1>1, <1>4, InPick
<1>6. NextGroup # <<>>
  BY <1>3, <1>5, InEmpty
<1>7. \A j : In(j, todo) <=> In(j, NextGroup) \/ In(j, OtherGroups)
  BY <1>2, <1>5 DEF In
<1>8. Distinct(todo) => \A j : In(j, NextGroup) => ~In(j, OtherGroups)
  BY <1>2, <1>5 DEF Distinct
<1> QED
  BY <1>5, <1>6, <1>7, <1>8

\* A proof's tree holds the claims of its group.
LEMMA ProofType ==
    ASSUME NEW jobs \in Seq(Jobs), NEW i \in Nat
    PROVE  /\ ProofFor(jobs, i) \in Result
           /\ ProofFor(jobs, i).tree \in Seq(Claims)
           /\ DOMAIN ProofFor(jobs, i).tree = DOMAIN jobs
           /\ ProofFor(jobs, i) # NoResult
<1>1. DOMAIN jobs = 1..Len(jobs) /\ Len(jobs) \in Nat
  BY LenProperties
<1>2. \A k \in DOMAIN jobs : Claim(jobs[k]) \in Claims
  BY JobType, ElementOfSeq, LenProperties
<1>3. TreeOf(jobs) \in Seq(Claims) /\ DOMAIN TreeOf(jobs) = DOMAIN jobs
  BY <1>1, <1>2 DEF TreeOf
<1> QED
  BY <1>3 DEF ProofFor, Result, NoResult

LEMMA ConstantResults ==
    /\ NoResult \in Result /\ Rejected \in Result /\ Rejected # NoResult
    /\ ~NoResult.ok /\ ~Rejected.ok
BY EmptySeq DEF NoResult, Rejected, Result

LEMMA FrontAndLast ==
    ASSUME NEW S, NEW s \in Seq(S), s # <<>>
    PROVE  Append(Front(s), Last(s)) = s
BY DEF Front, Last

-----------------------------------------------------------------------------
(* Published roots nest. *)

Covered(i) == registry[i].cp.leaves

\* Every published checkpoint covers a beginning of the node store, a longer one
\* than the checkpoint before it.  A leaf that is folded and not yet published
\* is beyond all of them, and what is signed next covers the whole store.
RootInv ==
    /\ \E S : nodes \in Seq(S)
    /\ \E S : registry \in Seq(S)
    /\ \A i \in DOMAIN registry :
          /\ Len(Covered(i)) \in 1..Len(nodes)
          /\ Covered(i) = SubSeq(nodes, 1, Len(Covered(i)))
    /\ \A i, j \in DOMAIN registry : i < j => Len(Covered(i)) < Len(Covered(j))
    /\ flusher \in {"persist", "entry"} =>
          /\ nodes # <<>>
          /\ \A i \in DOMAIN registry : Len(Covered(i)) < Len(nodes)
    /\ flusher = "entry" => latest.leaves = nodes
    /\ ~up => flusher \notin {"persist", "entry"}

LEMMA SubSeqOfAppend ==
    ASSUME NEW S, NEW s \in Seq(S), NEW e, NEW n \in 0..Len(s)
    PROVE  /\ Append(s, e) \in Seq(S \cup {e})
           /\ Len(Append(s, e)) = Len(s) + 1
           /\ SubSeq(Append(s, e), 1, n) = SubSeq(s, 1, n)
<1>1. s \in Seq(S \cup {e})
  OBVIOUS
<1> QED
  BY <1>1

LEMMA PrefixOfPrefix ==
    ASSUME NEW S, NEW s \in Seq(S), NEW m \in 1..Len(s), NEW n \in 1..Len(s), m < n
    PROVE  IsPrefix(SubSeq(s, 1, m), SubSeq(s, 1, n))
<1>1. Len(SubSeq(s, 1, m)) = m /\ Len(SubSeq(s, 1, n)) = n
  OBVIOUS
<1>2. SubSeq(SubSeq(s, 1, m), 1, m) = SubSeq(SubSeq(s, 1, n), 1, m)
  OBVIOUS
<1> QED
  BY <1>1, <1>2 DEF IsPrefix

\* The steps that touch neither the nodes nor the registry.
LEMMA QuietRootInv ==
    ASSUME RootInv, nodes' = nodes, registry' = registry,
           \/ flusher' \notin {"persist", "entry"}
           \/ flusher' = flusher /\ latest' = latest /\ up' = up
    PROVE  RootInv'
BY DEF RootInv, Covered

LEMMA FoldRootInv == RootInv /\ FoldLeaf => RootInv'
<1> SUFFICES ASSUME RootInv, FoldLeaf PROVE RootInv'
  OBVIOUS
<1> DEFINE leaf == LeafOf(NewEntry(NoCheckpoint))
<1>1. nodes' = Append(nodes, leaf) /\ registry' = registry /\ flusher' = "persist" /\ up /\ up' = up
  BY DEF FoldLeaf, env
<1> PICK S : nodes \in Seq(S)
  BY DEF RootInv
<1> HIDE DEF leaf
<1>2. /\ nodes' \in Seq(S \cup {leaf})
      /\ Len(nodes') = Len(nodes) + 1
      /\ \A n \in 0..Len(nodes) : SubSeq(nodes', 1, n) = SubSeq(nodes, 1, n)
  BY <1>1, SubSeqOfAppend
<1>3. Len(nodes) \in Nat
  OBVIOUS
<1>4. \A i \in DOMAIN registry :
          /\ Len(Covered(i)) \in 1..Len(nodes') /\ Len(Covered(i)) < Len(nodes')
          /\ Covered(i) = SubSeq(nodes', 1, Len(Covered(i)))
  BY <1>2, <1>3 DEF RootInv
<1>5. nodes' # <<>>
  BY <1>2, <1>3
<1> QED
  BY <1>1, <1>2, <1>4, <1>5 DEF RootInv, Covered

LEMMA PersistRootInv == RootInv /\ PersistLatest => RootInv'
<1> SUFFICES ASSUME RootInv, PersistLatest PROVE RootInv'
  OBVIOUS
<1>1. /\ nodes' = nodes /\ registry' = registry
      /\ flusher = "persist" /\ flusher' = "entry"
      /\ latest'.leaves = Append(Front(nodes), Last(nodes))
      /\ up /\ up' = up
  BY DEF PersistLatest, MintedOver, env
<1>2. latest'.leaves = nodes
  BY <1>1, FrontAndLast DEF RootInv
<1> QED
  BY <1>1, <1>2 DEF RootInv, Covered

LEMMA WriteEntryRootInv == RootInv /\ WriteEntry => RootInv'
<1> SUFFICES ASSUME RootInv, WriteEntry PROVE RootInv'
  OBVIOUS
<1> DEFINE e == NewEntry(latest)
<1>1. /\ nodes' = nodes /\ registry' = Append(registry, e)
      /\ flusher = "entry" /\ flusher' = "proofs"
  BY DEF WriteEntry, env
<1>2. e.cp.leaves = nodes
  BY <1>1 DEF NewEntry, RootInv
<1> HIDE DEF e
<1> PICK S : registry \in Seq(S)
  BY DEF RootInv
<1> PICK T : nodes \in Seq(T)
  BY DEF RootInv
<1>3. /\ registry' \in Seq(S \cup {e})
      /\ DOMAIN registry' = 1..Len(registry) + 1
      /\ DOMAIN registry = 1..Len(registry)
      /\ \A i \in 1..Len(registry) : registry'[i] = registry[i]
      /\ registry'[Len(registry) + 1] = e
      /\ Len(registry) \in Nat
  <2>1. registry \in Seq(S \cup {e})
    OBVIOUS
  <2> QED
    BY <1>1, <2>1
<1>4. nodes # <<>> /\ Len(nodes) \in Nat \ {0} /\ nodes = SubSeq(nodes, 1, Len(nodes))
  BY <1>1 DEF RootInv
<1>5. \A i \in DOMAIN registry' :
          /\ Len(Covered(i)') \in 1..Len(nodes')
          /\ Covered(i)' = SubSeq(nodes', 1, Len(Covered(i)'))
  BY <1>1, <1>2, <1>3, <1>4 DEF RootInv, Covered
<1>6. \A i, j \in DOMAIN registry' : i < j => Len(Covered(i)') < Len(Covered(j)')
  BY <1>1, <1>2, <1>3, <1>4 DEF RootInv, Covered
<1> QED
  BY <1>1, <1>3, <1>5, <1>6 DEF RootInv, Covered

LEMMA FlushRootInv == RootInv /\ FlushStep => RootInv'
<1> SUFFICES ASSUME RootInv, FlushStep PROVE RootInv'
  OBVIOUS
<1>1. CASE FoldLeaf
  BY <1>1, FoldRootInv
<1>2. CASE PersistLatest
  BY <1>2, PersistRootInv
<1>3. CASE WriteEntry
  BY <1>3, WriteEntryRootInv
<1>4. CASE TakePending
  BY <1>4, QuietRootInv DEF TakePending, disk
<1>5. CASE WakeIdle
  BY <1>5, QuietRootInv DEF WakeIdle, disk
<1>6. CASE RejectGroup
  BY <1>6, QuietRootInv DEF RejectGroup, disk
<1>7. CASE BeginGroup
  BY <1>7, QuietRootInv DEF BeginGroup, disk
<1>8. CASE WriteProof
  <2>1. flusher' \in {"proofs", "groups"} /\ nodes' = nodes /\ registry' = registry
    BY <1>8 DEF WriteProof
  <2> QED
    BY <2>1, QuietRootInv
<1>9. CASE EndFlush
  BY <1>9, QuietRootInv DEF EndFlush, disk
<1>10. CASE FlushFails
  BY <1>10, QuietRootInv DEF FlushFails
<1>11. CASE Report
  BY <1>11, QuietRootInv DEF Report, disk
<1> QED
  BY <1>1, <1>2, <1>3, <1>4, <1>5, <1>6, <1>7, <1>8, <1>9, <1>10, <1>11 DEF FlushStep

LEMMA NextRootInv == RootInv /\ [Next]_vars => RootInv'
<1> SUFFICES ASSUME RootInv, [Next]_vars PROVE RootInv'
  OBVIOUS
<1>1. CASE \E c \in Calls : Refuse(c) \/ Submit(c) \/ Return(c) \/ TimeOut(c)
  <2>1. /\ nodes' = nodes /\ registry' = registry
        /\ flusher' = flusher /\ latest' = latest /\ up' = up
    BY <1>1 DEF Refuse, Submit, Return, TimeOut, disk, env
  <2> QED
    BY <2>1, QuietRootInv
<1>2. CASE FlushStep
  BY <1>2, FlushRootInv
<1>3. CASE Crash
  BY <1>3, QuietRootInv DEF Crash
<1>4. CASE Restart
  <2>1. /\ nodes' = nodes /\ registry' = registry
        /\ flusher' = flusher /\ ~up
    BY <1>4 DEF Restart, disk
  <2>2. flusher' \notin {"persist", "entry"}
    BY <2>1 DEF RootInv
  <2> QED
    BY <2>1, <2>2, QuietRootInv
<1>5. CASE StartFails \/ UNCHANGED vars
  BY <1>5, QuietRootInv DEF StartFails, vars
<1> QED
  BY <1>1, <1>2, <1>3, <1>4, <1>5 DEF Next

LEMMA RootInvInit == Init => RootInv
<1> SUFFICES ASSUME Init PROVE RootInv
  OBVIOUS
<1>1. nodes = <<>> /\ registry = <<>> /\ flusher = "wait"
  BY DEF Init, MemoryInit
<1>2. <<>> \in Seq({})
  BY EmptySeq
<1> QED
  BY <1>1, <1>2 DEF RootInv

\* Whatever fails or dies between folding a leaf, storing the checkpoint and
\* writing the entry, each published checkpoint extends all earlier ones.
THEOREM RootsNest == Spec => []PublishedRootsNest
<1>1. Init => RootInv
  BY RootInvInit
<1>2. RootInv /\ [Next]_vars => RootInv'
  BY NextRootInv
<1>3. RootInv => PublishedRootsNest
  <2> SUFFICES ASSUME RootInv, NEW i \in DOMAIN registry, NEW j \in DOMAIN registry, i < j
               PROVE  /\ Len(Covered(i)) < Len(Covered(j))
                      /\ IsPrefix(Covered(i), Covered(j))
    BY DEF PublishedRootsNest, Covered
  <2> PICK S : nodes \in Seq(S)
    BY DEF RootInv
  <2>1. Len(Covered(i)) < Len(Covered(j))
    BY DEF RootInv
  <2>2. /\ Covered(i) = SubSeq(nodes, 1, Len(Covered(i)))
        /\ Covered(j) = SubSeq(nodes, 1, Len(Covered(j)))
        /\ Len(Covered(i)) \in 1..Len(nodes) /\ Len(Covered(j)) \in 1..Len(nodes)
    BY DEF RootInv
  <2>3. IsPrefix(SubSeq(nodes, 1, Len(Covered(i))), SubSeq(nodes, 1, Len(Covered(j))))
    BY <2>1, <2>2, PrefixOfPrefix
  <2> QED
    BY <2>1, <2>2, <2>3
<1> QED
  BY <1>1, <1>2, <1>3, PTL DEF Spec

-----------------------------------------------------------------------------
(* Types. *)

\* The entry being built, its leaf and the checkpoint minted over it are of the
\* registry's types.
LEMMA EntryType ==
    ASSUME group \in Seq(Jobs), NEW cp \in Checkpoint
    PROVE  NewEntry(cp) \in RegistryEntry /\ LeafOf(NewEntry(cp)) \in Leaf
<1>1. TreeOf(group) \in Seq(Claims)
  BY ProofType DEF ProofFor
<1>2. BatchId(TreeOf(group)) \in Ids
  BY <1>1 DEF Ids
<1> QED
  BY <1>2 DEF NewEntry, RegistryEntry, LeafOf, Leaf

LEMMA ConstantCheckpoints == NoCheckpoint \in Checkpoint /\ TornFile \in Checkpoint
BY EmptySeq DEF NoCheckpoint, TornFile, Checkpoint

LEMMA TypeInit == Init => TypeOK
<1> SUFFICES ASSUME Init PROVE TypeOK
  OBVIOUS
<1>1. <<>> \in Seq(Jobs) /\ <<>> \in Seq(Leaf) /\ <<>> \in Seq(RegistryEntry) /\ <<>> \in Seq(Result)
  BY EmptySeq
<1>2. pending \in Seq(Jobs) /\ batch \in Seq(Jobs) /\ todo \in Seq(Jobs) /\ group \in Seq(Jobs)
  BY <1>1 DEF Init, MemoryInit
<1>3. status \in [Calls -> Statuses] /\ answer \in [Calls -> Seq(Result)]
  BY <1>1 DEF Init, Statuses
<1>4. completed \in [Jobs -> Result] /\ results \in [Jobs -> Result]
  BY ConstantResults DEF Init, MemoryInit
<1>5. /\ latest \in Checkpoint /\ latestFile \in Checkpoint
      /\ nodes \in Seq(Leaf) /\ registry \in Seq(RegistryEntry)
  BY <1>1, ConstantCheckpoints DEF Init
<1>6. /\ proofIndex \subseteq Result /\ proofs \subseteq Result
      /\ flusher \in Stages /\ notified \in BOOLEAN /\ up \in BOOLEAN
  BY DEF Init, MemoryInit, Stages
<1>7. written \in Nat /\ errors \in 0..MaxErrors /\ crashes \in 0..MaxCrashes
  <2>1. written = 0 /\ errors = 0 /\ crashes = 0
    BY DEF Init, MemoryInit
  <2> QED
    BY <2>1, BoundAssumption
<1> QED
  BY <1>2, <1>3, <1>4, <1>5, <1>6, <1>7 DEF TypeOK

LEMMA HandlerTypes ==
    ASSUME TypeOK, NEW c \in Calls, Refuse(c) \/ Submit(c) \/ Return(c) \/ TimeOut(c)
    PROVE  TypeOK'
<1>1. CASE Refuse(c) \/ TimeOut(c)
  BY <1>1 DEF Refuse, TimeOut, TypeOK, Statuses, shared, flush, disk, env
<1>2. CASE Submit(c)
  <2>1. pending' \in Seq(Jobs)
    BY <1>2, CallJobs, ConcatProperties DEF Submit, TypeOK
  <2>2. status' \in [Calls -> Statuses]
    BY <1>2 DEF Submit, TypeOK, Statuses
  <2>3. notified' \in BOOLEAN
    BY <1>2 DEF Submit
  <2> QED
    BY <1>2, <2>1, <2>2, <2>3 DEF Submit, TypeOK, flush, disk, env
<1>3. CASE Return(c)
  <2>1. [i \in DOMAIN ClaimsOf[c] |-> completed[<<c, i>>]] \in Seq(Result)
    <3>1. ClaimsOf[c] \in Seq(Claims)
      BY CallsAssumption
    <3>2. DOMAIN ClaimsOf[c] = 1..Len(ClaimsOf[c]) /\ Len(ClaimsOf[c]) \in Nat
      BY <3>1, LenProperties
    <3>3. \A i \in DOMAIN ClaimsOf[c] : completed[<<c, i>>] \in Result
      BY CallJobs DEF TypeOK
    <3> QED
      BY <3>2, <3>3
  <2>2. answer' \in [Calls -> Seq(Result)]
    BY <1>3, <2>1 DEF Return, TypeOK
  <2>3. status' \in [Calls -> Statuses]
    BY <1>3 DEF Return, TypeOK, Statuses
  <2> QED
    BY <1>3, <2>2, <2>3 DEF Return, TypeOK, shared, flush, disk, env
<1> QED
  BY <1>1, <1>2, <1>3

LEMMA FlushTypes == TypeOK /\ RootInv /\ FlushStep => TypeOK'
<1> SUFFICES ASSUME TypeOK, RootInv, FlushStep PROVE TypeOK'
  OBVIOUS
<1> USE DEF TypeOK
<1>1. CASE TakePending
  <2>1. Pick(pending, {i \in DOMAIN pending : KindOf[Claim(pending[i])] # "bad_producer"}) \in Seq(Jobs)
    BY InPick
  <2>2. <<>> \in Seq(Jobs) /\ results' \in [Jobs -> Result]
    BY <1>1, EmptySeq, ConstantResults DEF TakePending
  <2> QED
    BY <1>1, <2>1, <2>2 DEF TakePending, Stages, handlers, disk, env
<1>2. CASE WakeIdle
  BY <1>2 DEF WakeIdle, handlers, shared, flush, disk, env
<1>3. CASE RejectGroup
  <2>1. todo' \in Seq(Jobs)
    BY <1>3, Grouping DEF RejectGroup
  <2>2. results' \in [Jobs -> Result]
    BY <1>3, ConstantResults DEF RejectGroup
  <2> QED
    BY <1>3, <2>1, <2>2 DEF RejectGroup, handlers, shared, disk, env
<1>4. CASE BeginGroup
  <2>1. todo' \in Seq(Jobs) /\ group' \in Seq(Jobs)
    BY <1>4, Grouping DEF BeginGroup
  <2> QED
    BY <1>4, <2>1 DEF BeginGroup, Stages, handlers, shared, disk, env
<1>5. CASE FoldLeaf
  <2>1. nodes' \in Seq(Leaf)
    BY <1>5, EntryType, ConstantCheckpoints, AppendProperties DEF FoldLeaf
  <2> QED
    BY <1>5, <2>1 DEF FoldLeaf, Stages, handlers, shared, flush, env
<1>6. CASE PersistLatest
  <2>1. nodes # <<>>
    BY <1>6 DEF PersistLatest, RootInv
  <2>2. latest'.leaves = nodes /\ latest' = [leaves |-> nodes, prev |-> latest.leaves, origin |-> Signer]
    BY <1>6, <2>1, FrontAndLast DEF PersistLatest, MintedOver
  <2>3. latest' \in Checkpoint /\ latestFile' \in Checkpoint
    BY <1>6, <2>2 DEF Checkpoint, PersistLatest
  <2> QED
    BY <1>6, <2>3 DEF PersistLatest, Stages, handlers, shared, flush, env
<1>7. CASE WriteEntry
  <2>1. registry' \in Seq(RegistryEntry)
    BY <1>7, EntryType, AppendProperties DEF WriteEntry
  <2> QED
    BY <1>7, <2>1 DEF WriteEntry, Stages, handlers, shared, flush, env
<1>8. CASE WriteProof
  <2>1. written' \in Nat /\ ProofFor(group, written') \in Result
    BY <1>8, ProofType DEF WriteProof
  <2>2. proofs' \subseteq Result
    BY <1>8, <2>1 DEF WriteProof
  <2>3. flusher' \in Stages
    BY <1>8 DEF WriteProof, Stages
  <2>4. results' \in [Jobs -> Result]
    <3>1. ASSUME NEW j \in Jobs, j \in ToSet(group)
          PROVE  ProofFor(group, PlaceOf(j, group)) \in Result
      <4>1. DOMAIN group = 1..Len(group) /\ Len(group) \in Nat
        BY LenProperties
      <4>2. PlaceOf(j, group) \in DOMAIN group
        BY <3>1, InToSet, PlaceIsItsOwn
      <4> QED
        BY <4>1, <4>2, ProofType
    <3> QED
      BY <1>8, <3>1 DEF WriteProof
  <2> QED
    BY <1>8, <2>1, <2>2, <2>3, <2>4 DEF WriteProof, handlers, shared, env
<1>9. CASE EndFlush
  BY <1>9 DEF EndFlush, Stages, handlers, shared, flush, disk, env
<1>10. CASE FlushFails
  <2>1. results' \in [Jobs -> Result]
    BY <1>10, ConstantResults DEF FlushFails
  <2>2. latestFile' \in Checkpoint
    BY <1>10, ConstantCheckpoints DEF FlushFails
  <2>3. errors' \in 0..MaxErrors
    BY <1>10, BoundAssumption DEF FlushFails
  <2> QED
    BY <1>10, <2>1, <2>2, <2>3 DEF FlushFails, Stages, handlers, shared
<1>11. CASE Report
  <2>1. <<>> \in Seq(Jobs) /\ completed' \in [Jobs -> Result] /\ results' \in [Jobs -> Result]
    BY <1>11, EmptySeq, ConstantResults DEF Report
  <2>2. proofIndex' \subseteq Result
    BY <1>11 DEF Report
  <2> QED
    BY <1>11, <2>1, <2>2 DEF Report, Stages, handlers, disk, env
<1> QED
  BY <1>1, <1>2, <1>3, <1>4, <1>5, <1>6, <1>7, <1>8, <1>9, <1>10, <1>11 DEF FlushStep

LEMMA NextTypes == TypeOK /\ RootInv /\ [Next]_vars => TypeOK'
<1> SUFFICES ASSUME TypeOK, RootInv, [Next]_vars PROVE TypeOK'
  OBVIOUS
<1>1. CASE \E c \in Calls : Refuse(c) \/ Submit(c) \/ Return(c) \/ TimeOut(c)
  BY <1>1, HandlerTypes
<1>2. CASE FlushStep
  BY <1>2, FlushTypes
<1>3. CASE Crash
  <2>1. <<>> \in Seq(Jobs) /\ completed' \in [Jobs -> Result] /\ results' \in [Jobs -> Result]
    BY <1>3, EmptySeq, ConstantResults DEF Crash
  <2>2. latestFile' \in Checkpoint /\ latest' \in Checkpoint
    BY <1>3, ConstantCheckpoints DEF Crash, TypeOK
  <2>3. status' \in [Calls -> Statuses] /\ crashes' \in 0..MaxCrashes
    BY <1>3, BoundAssumption DEF Crash, TypeOK, Statuses
  <2> QED
    BY <1>3, <2>1, <2>2, <2>3 DEF Crash, TypeOK, Stages
<1>4. CASE Restart
  BY <1>4 DEF Restart, TypeOK, handlers, shared, flush, disk
<1>5. CASE StartFails \/ UNCHANGED vars
  BY <1>5 DEF StartFails, vars, TypeOK
<1> QED
  BY <1>1, <1>2, <1>3, <1>4, <1>5 DEF Next

LEMMA RootInvHolds == Spec => []RootInv
BY RootInvInit, NextRootInv, PTL DEF Spec

\* The queue, the flush, the log and the files keep their types, for any calls.
THEOREM TypeCorrect == Spec => []TypeOK
BY TypeInit, NextTypes, RootInvHolds, PTL DEF Spec

-----------------------------------------------------------------------------
(* A queued job is in one place only, and a leaf at most once.              *)

Accepted(c) == status[c] \notin {"new", "invalid"}
Building == flusher \in {"fold", "persist", "entry"}
Working == Building \/ flusher = "proofs"

\* What one process has accepted is queued, in the flush or decided, one of the
\* three; a process that died has accepted nothing.
HeldInv ==
    /\ Distinct(pending) /\ Distinct(batch)
    /\ \A j \in Jobs :
          /\ In(j, pending) \/ In(j, batch) \/ completed[j] # NoResult => Accepted(j[1])
          /\ QueuedHere(j[1]) => In(j, pending) \/ In(j, batch) \/ completed[j] # NoResult
          /\ In(j, pending) => ~In(j, batch)
          /\ In(j, pending) \/ In(j, batch) => completed[j] = NoResult
    /\ ~up => crashes # 0 /\ flusher = "wait" /\ \A c \in Calls : status[c] # "waiting"

\* A job of the flush has its result, or its group is still to come or at work.
FlushInv ==
    /\ flusher = "wait" => batch = <<>>
    /\ Distinct(todo) /\ Distinct(group)
    /\ \A j \in Jobs :
          /\ In(j, todo) \/ In(j, group) \/ results[j] # NoResult => In(j, batch)
          /\ In(j, batch) =>
                \/ results[j] # NoResult
                \/ flusher # "report" /\ (In(j, todo) \/ (Working /\ In(j, group)))
          /\ Working /\ In(j, todo) => ~In(j, group)
    /\ Working => group # <<>>

\* A job that is a leaf is one once, was accepted, and is neither waiting to be
\* anchored nor in an entry that is being built.
LeafInv ==
    \A i \in DOMAIN registry :
        /\ Distinct(registry[i].batch)
        /\ \A j \in Jobs : In(j, registry[i].batch) =>
              /\ \A k \in DOMAIN registry : In(j, registry[k].batch) => k = i
              /\ Accepted(j[1])
              /\ ~In(j, pending) /\ ~In(j, todo)
              /\ Building => ~In(j, group)

JobInv == TypeOK /\ HeldInv /\ FlushInv /\ LeafInv

\* Steps that publish nothing keep LeafInv when what is queued is new, and what
\* is worked on was queued.
LEMMA LeavesStay ==
    ASSUME LeafInv, registry' = registry,
           \A c \in Calls : Accepted(c) => Accepted(c)',
           \A j \in Jobs : In(j, pending') => In(j, pending) \/ ~Accepted(j[1]),
           \A j \in Jobs : In(j, todo') => In(j, todo) \/ In(j, pending),
           \A j \in Jobs : Building' /\ In(j, group') => In(j, todo) \/ (Building /\ In(j, group))
    PROVE  LeafInv'
<1>1. \A j \in Jobs : j[1] \in Calls
  BY JobType
<1> QED
  BY <1>1 DEF LeafInv

LEMMA JobInit == Init => JobInv
<1> SUFFICES ASSUME Init PROVE JobInv
  OBVIOUS
<1>1. /\ pending = <<>> /\ batch = <<>> /\ todo = <<>> /\ group = <<>> /\ registry = <<>>
      /\ flusher = "wait" /\ up
      /\ \A j \in Jobs : completed[j] = NoResult /\ results[j] = NoResult
      /\ \A c \in Calls : status[c] = "new"
  BY DEF Init, MemoryInit
<1>2. \A j \in Jobs : ~QueuedHere(j[1])
  BY <1>1, JobType DEF QueuedHere
<1>3. HeldInv
  BY <1>1, <1>2, InEmpty DEF HeldInv
<1>4. FlushInv
  BY <1>1, InEmpty DEF FlushInv, Working, Building
<1>5. LeafInv
  BY <1>1 DEF LeafInv
<1> QED
  BY <1>3, <1>4, <1>5, TypeInit DEF JobInv

LEMMA HandlerJobInv ==
    ASSUME JobInv, NEW c \in Calls, Refuse(c) \/ Submit(c) \/ Return(c) \/ TimeOut(c)
    PROVE  HeldInv' /\ FlushInv' /\ LeafInv'
<1>0. /\ batch' = batch /\ todo' = todo /\ group' = group /\ results' = results
      /\ flusher' = flusher /\ registry' = registry /\ completed' = completed
      /\ up /\ up' = up /\ crashes' = crashes
  BY DEF Refuse, Submit, Return, TimeOut, flush, disk, env, shared
<1>1. FlushInv'
  BY <1>0 DEF JobInv, FlushInv, Working, Building
<1>2. CASE Refuse(c) \/ Return(c) \/ TimeOut(c)
  <2>1. /\ pending' = pending
        /\ \A d \in Calls : d # c => status'[d] = status[d]
        /\ \/ status[c] = "new" /\ status'[c] = "invalid"
           \/ status[c] = "waiting" /\ status'[c] \in {"proofs", "rejected", "timeout"}
    BY <1>2 DEF Refuse, Return, TimeOut, shared, JobInv, TypeOK
  <2>2. \A d \in Calls : /\ Accepted(d) <=> Accepted(d)'
                         /\ QueuedHere(d)' => QueuedHere(d)
    BY <1>0, <2>1 DEF Accepted, QueuedHere
  <2>3. LeafInv'
    BY <1>0, <2>1, <2>2, LeavesStay DEF JobInv, Building
  <2>4. HeldInv'
    BY <1>0, <2>1, <2>2, JobType DEF JobInv, HeldInv
  <2> QED
    BY <1>1, <2>3, <2>4
<1>3. CASE Submit(c)
  <2>1. /\ status[c] = "new" /\ pending' = pending \o JobsOf(c)
        /\ status'[c] = "waiting" /\ \A d \in Calls : d # c => status'[d] = status[d]
    BY <1>3 DEF Submit, JobInv, TypeOK
  <2>2. \A j \in Jobs : j[1] = c =>
            ~In(j, pending) /\ ~In(j, batch) /\ completed[j] = NoResult
    BY <2>1 DEF JobInv, HeldInv, Accepted
  <2>3. /\ \A j : In(j, pending') <=> In(j, pending) \/ In(j, JobsOf(c))
        /\ Distinct(pending')
    <3>1. \A j : In(j, pending) => ~In(j, JobsOf(c))
      BY <2>2, CallJobs
    <3> QED
      BY <2>1, <3>1, CallJobs, InConcat DEF JobInv, TypeOK, HeldInv
  <2>4. \A j \in Jobs : In(j, pending') <=> In(j, pending) \/ j[1] = c
    BY <2>3, CallJobs
  <2>5. \A d \in Calls : d # c => /\ Accepted(d) <=> Accepted(d)'
                                  /\ QueuedHere(d)' => QueuedHere(d)
    BY <1>0, <2>1 DEF Accepted, QueuedHere
  <2>6. ~Accepted(c) /\ Accepted(c)'
    BY <2>1 DEF Accepted
  <2>7. LeafInv'
    BY <1>0, <2>4, <2>5, <2>6, LeavesStay DEF JobInv, Building
  <2>8. HeldInv'
    BY <1>0, <2>2, <2>3, <2>4, <2>5, <2>6, JobType DEF JobInv, HeldInv
  <2> QED
    BY <1>1, <2>7, <2>8
<1> QED
  BY <1>2, <1>3

\* Between taking the queue and reporting, the queue and the results that callers
\* see stay as they are.
LEMMA HeldStays ==
    ASSUME HeldInv, up, up' = up, crashes' = crashes, status' = status,
           pending' = pending, completed' = completed, batch' = batch
    PROVE  HeldInv'
BY DEF HeldInv, Accepted, QueuedHere

LEMMA TakeJobInv == JobInv /\ TakePending => HeldInv' /\ FlushInv' /\ LeafInv'
<1> SUFFICES ASSUME JobInv, TakePending PROVE HeldInv' /\ FlushInv' /\ LeafInv'
  OBVIOUS
<1> DEFINE I == {i \in DOMAIN pending : KindOf[Claim(pending[i])] # "bad_producer"}
<1>1. /\ flusher = "wait" /\ flusher' = "groups" /\ batch' = pending /\ pending' = <<>>
      /\ todo' = Pick(pending, I) /\ group' = group /\ registry' = registry
      /\ completed' = completed /\ status' = status /\ up /\ up' = up /\ crashes' = crashes
      /\ \A j \in Jobs : results'[j] = IF j \in ToSet(pending) /\ KindOf[Claim(j)] = "bad_producer"
                                       THEN Rejected ELSE NoResult
  BY DEF TakePending, handlers, disk, env
<1>2. /\ \A j : In(j, Pick(pending, I)) <=> \E i \in I : pending[i] = j
      /\ Distinct(pending) => Distinct(Pick(pending, I))
  <2>1. I \in SUBSET DOMAIN pending
    OBVIOUS
  <2> HIDE DEF I
  <2> QED
    BY <2>1, InPick DEF JobInv, TypeOK
<1>3. /\ \A j : In(j, todo') <=> In(j, pending) /\ KindOf[Claim(j)] # "bad_producer"
      /\ Distinct(todo')
  <2>1. Distinct(pending)
    BY DEF JobInv, HeldInv
  <2>2. \A j : (\E i \in I : pending[i] = j) <=> In(j, pending) /\ KindOf[Claim(j)] # "bad_producer"
    BY DEF In
  <2> HIDE DEF I
  <2> QED
    BY <1>1, <1>2, <2>1, <2>2
<1> HIDE DEF I
<1>4. batch = <<>> /\ \A j \in Jobs : ~In(j, batch) /\ ~In(j, group)
  BY <1>1, InEmpty DEF JobInv, FlushInv
<1>5. \A j \in Jobs : results'[j] # NoResult <=> In(j, pending) /\ KindOf[Claim(j)] = "bad_producer"
  BY <1>1, InToSet, ConstantResults
<1>6. HeldInv'
  BY <1>1, <1>4, InEmpty DEF JobInv, HeldInv, Accepted, QueuedHere
<1>7. FlushInv'
  BY <1>1, <1>3, <1>4, <1>5 DEF JobInv, FlushInv, Working, Building
<1>8. LeafInv'
  BY <1>1, <1>3, <1>4, InEmpty, LeavesStay DEF JobInv, Building, Accepted
<1> QED
  BY <1>6, <1>7, <1>8

LEMMA GroupJobInv == JobInv /\ (RejectGroup \/ BeginGroup) => HeldInv' /\ FlushInv' /\ LeafInv'
<1> SUFFICES ASSUME JobInv, RejectGroup \/ BeginGroup PROVE HeldInv' /\ FlushInv' /\ LeafInv'
  OBVIOUS
<1>1. /\ flusher = "groups" /\ todo # <<>> /\ todo' = OtherGroups
      /\ batch' = batch /\ pending' = pending /\ registry' = registry
      /\ completed' = completed /\ status' = status /\ up /\ up' = up /\ crashes' = crashes
  BY DEF RejectGroup, BeginGroup, handlers, shared, disk, env
<1>2. /\ NextGroup # <<>> /\ Distinct(NextGroup) /\ Distinct(OtherGroups)
      /\ \A j : In(j, todo) <=> In(j, NextGroup) \/ In(j, OtherGroups)
      /\ \A j : In(j, NextGroup) => ~In(j, OtherGroups)
  BY <1>1, Grouping DEF JobInv, TypeOK, FlushInv
<1>3. HeldInv'
  BY <1>1, HeldStays DEF JobInv
<1>4. CASE RejectGroup
  <2>1. /\ group' = group /\ flusher' = flusher
        /\ \A j \in Jobs : results'[j] = IF In(j, NextGroup) THEN Rejected ELSE results[j]
    BY <1>4, InToSet DEF RejectGroup
  <2>2. FlushInv'
    BY <1>1, <1>2, <2>1, ConstantResults DEF JobInv, FlushInv, Working, Building
  <2>3. LeafInv'
    BY <1>1, <1>2, <2>1, LeavesStay DEF JobInv, Building, Accepted
  <2> QED
    BY <1>3, <2>2, <2>3
<1>5. CASE BeginGroup
  <2>1. group' = NextGroup /\ flusher' = "fold" /\ results' = results
    BY <1>5 DEF BeginGroup
  <2>2. FlushInv'
    BY <1>1, <1>2, <2>1 DEF JobInv, FlushInv, Working, Building
  <2>3. LeafInv'
    BY <1>1, <1>2, <2>1, LeavesStay DEF JobInv, Building, Accepted
  <2> QED
    BY <1>3, <2>2, <2>3
<1> QED
  BY <1>4, <1>5

\* The entry holds the group's jobs, which were in the flush and in no entry.
LEMMA EntryJobInv == JobInv /\ WriteEntry => HeldInv' /\ FlushInv' /\ LeafInv'
<1> SUFFICES ASSUME JobInv, WriteEntry PROVE HeldInv' /\ FlushInv' /\ LeafInv'
  OBVIOUS
<1> DEFINE e == NewEntry(latest)
<1>1. /\ flusher = "entry" /\ flusher' = "proofs" /\ registry' = Append(registry, e)
      /\ batch' = batch /\ pending' = pending /\ todo' = todo /\ group' = group
      /\ results' = results /\ completed' = completed /\ status' = status
      /\ up /\ up' = up /\ crashes' = crashes
  BY DEF WriteEntry, handlers, shared, flush, env
<1>2. e.batch = group
  BY DEF NewEntry
<1>3. e \in RegistryEntry
  BY EntryType DEF JobInv, TypeOK
<1> HIDE DEF e
<1>4. /\ DOMAIN registry' = 1..Len(registry) + 1 /\ DOMAIN registry = 1..Len(registry)
      /\ Len(registry) \in Nat
      /\ \A i \in DOMAIN registry : registry'[i] = registry[i]
      /\ registry'[Len(registry) + 1] = e
  BY <1>1, <1>3, AppendProperties, LenProperties DEF JobInv, TypeOK
<1>5. HeldInv'
  BY <1>1, HeldStays DEF JobInv
<1>6. FlushInv'
  BY <1>1 DEF JobInv, FlushInv, Working, Building
<1>7. \A j \in Jobs : In(j, group) =>
          /\ Accepted(j[1]) /\ ~In(j, pending) /\ ~In(j, todo)
          /\ \A i \in DOMAIN registry : ~In(j, registry[i].batch)
  BY <1>1 DEF JobInv, HeldInv, FlushInv, LeafInv, Working, Building
<1>8. \A i \in DOMAIN registry' : i \in DOMAIN registry \/ i = Len(registry) + 1
  BY <1>4
<1>9. Distinct(group)
  BY DEF JobInv, FlushInv
<1>10. ~Building' /\ \A c : Accepted(c)' <=> Accepted(c)
  BY <1>1 DEF Building, Accepted
<1>11. LeafInv'
  <2> SUFFICES ASSUME NEW i \in DOMAIN registry'
               PROVE  /\ Distinct(registry'[i].batch)
                      /\ \A j \in Jobs : In(j, registry'[i].batch) =>
                            /\ \A k \in DOMAIN registry' : In(j, registry'[k].batch) => k = i
                            /\ Accepted(j[1])
                            /\ ~In(j, pending) /\ ~In(j, todo)
    BY <1>1, <1>10 DEF LeafInv
  <2>1. CASE i \in DOMAIN registry
    BY <1>2, <1>4, <1>7, <1>8, <2>1 DEF JobInv, LeafInv
  <2>2. CASE i = Len(registry) + 1
    BY <1>2, <1>4, <1>7, <1>8, <1>9, <2>2 DEF JobInv, LeafInv
  <2> QED
    BY <1>8, <2>1, <2>2
<1> QED
  BY <1>5, <1>6, <1>11

LEMMA WorkJobInv ==
    ASSUME JobInv, FoldLeaf \/ PersistLatest \/ WriteProof \/ EndFlush \/ FlushFails \/ WakeIdle
    PROVE  HeldInv' /\ FlushInv' /\ LeafInv'
<1>1. /\ batch' = batch /\ pending' = pending /\ registry' = registry
      /\ todo' = todo /\ group' = group
      /\ completed' = completed /\ status' = status /\ up /\ up' = up /\ crashes' = crashes
  BY DEF FoldLeaf, PersistLatest, WriteProof, EndFlush, FlushFails, WakeIdle,
         handlers, shared, flush, disk, env
<1>2. HeldInv'
  BY <1>1, HeldStays DEF JobInv
<1>3. Building' => Building
  BY DEF FoldLeaf, PersistLatest, WriteProof, EndFlush, FlushFails, WakeIdle, Building
<1>4. LeafInv'
  BY <1>1, <1>3, LeavesStay DEF JobInv, Accepted
<1>5. CASE FoldLeaf \/ PersistLatest \/ WakeIdle
  <2>1. results' = results /\ flusher' # "report" /\ (flusher' = "wait" => flusher = "wait")
        /\ (Working' <=> Working) /\ flusher # "report"
    BY <1>5 DEF FoldLeaf, PersistLatest, WakeIdle, flush, Working, Building
  <2>2. FlushInv'
    BY <1>1, <2>1 DEF JobInv, FlushInv
  <2> QED
    BY <1>2, <1>4, <2>2
<1>6. CASE WriteProof
  <2>1. CASE written' = Len(group)
    <3>1. /\ flusher' = "groups"
          /\ \A j \in Jobs : results'[j] = IF In(j, group) THEN ProofFor(group, PlaceOf(j, group))
                                           ELSE results[j]
      BY <1>6, <2>1, InToSet DEF WriteProof
    <3>2. \A i : ProofFor(group, i) # NoResult
      BY DEF ProofFor, NoResult
    <3>3. FlushInv'
      BY <1>1, <3>1, <3>2 DEF JobInv, FlushInv, Working, Building
    <3> QED
      BY <1>2, <1>4, <3>3
  <2>2. CASE written' # Len(group)
    <3>1. flusher' = flusher /\ results' = results
      BY <1>6, <2>2 DEF WriteProof
    <3>2. FlushInv'
      BY <1>1, <3>1 DEF JobInv, FlushInv, Working, Building
    <3> QED
      BY <1>2, <1>4, <3>2
  <2> QED
    BY <2>1, <2>2
<1>7. CASE EndFlush
  <2>1. flusher = "groups" /\ flusher' = "report" /\ results' = results /\ todo = <<>>
    BY <1>7 DEF EndFlush, flush
  <2>2. FlushInv'
    BY <1>1, <2>1, InEmpty DEF JobInv, FlushInv, Working, Building
  <2> QED
    BY <1>2, <1>4, <2>2
<1>8. CASE FlushFails
  <2>1. /\ flusher' = "report"
        /\ \A j \in Jobs : results'[j] = IF In(j, batch) THEN Rejected ELSE NoResult
    BY <1>8, InToSet DEF FlushFails
  <2>2. FlushInv'
    BY <1>1, <2>1, ConstantResults DEF JobInv, FlushInv, Working, Building
  <2> QED
    BY <1>2, <1>4, <2>2
<1> QED
  BY <1>5, <1>6, <1>7, <1>8

\* Every job of the flush has a result when it is reported.
LEMMA ReportJobInv == JobInv /\ Report => HeldInv' /\ FlushInv' /\ LeafInv'
<1> SUFFICES ASSUME JobInv, Report PROVE HeldInv' /\ FlushInv' /\ LeafInv'
  OBVIOUS
<1>1. /\ flusher = "report" /\ flusher' = "wait" /\ pending' = pending /\ registry' = registry
      /\ batch' = <<>> /\ todo' = <<>> /\ group' = <<>>
      /\ status' = status /\ up /\ up' = up /\ crashes' = crashes
      /\ \A j \in Jobs : /\ results'[j] = NoResult
                         /\ completed'[j] = IF results[j] # NoResult THEN results[j] ELSE completed[j]
  BY DEF Report, handlers, disk, env
<1>2. \A j \in Jobs : results[j] # NoResult <=> In(j, batch)
  BY <1>1 DEF JobInv, FlushInv
<1>3. HeldInv'
  BY <1>1, <1>2, InEmpty DEF JobInv, HeldInv, Accepted, QueuedHere
<1>4. FlushInv'
  BY <1>1, InEmpty DEF FlushInv, Working, Building
<1>5. LeafInv'
  BY <1>1, InEmpty, LeavesStay DEF JobInv, Building, Accepted
<1> QED
  BY <1>3, <1>4, <1>5

LEMMA NextJobInv == JobInv /\ RootInv /\ [Next]_vars => JobInv'
<1> SUFFICES ASSUME JobInv, RootInv, [Next]_vars PROVE HeldInv' /\ FlushInv' /\ LeafInv'
  BY NextTypes DEF JobInv
<1>1. CASE \E c \in Calls : Refuse(c) \/ Submit(c) \/ Return(c) \/ TimeOut(c)
  BY <1>1, HandlerJobInv
<1>2. CASE FlushStep
  BY <1>2, TakeJobInv, GroupJobInv, EntryJobInv, WorkJobInv, ReportJobInv DEF FlushStep
<1>3. CASE Crash
  <2>1. /\ pending' = <<>> /\ batch' = <<>> /\ todo' = <<>> /\ group' = <<>>
        /\ flusher' = "wait" /\ up' = FALSE /\ crashes' = crashes + 1
        /\ registry' = registry
        /\ \A j \in Jobs : completed'[j] = NoResult /\ results'[j] = NoResult
        /\ \A c \in Calls : status'[c] = IF status[c] = "waiting" THEN "lost" ELSE status[c]
    BY <1>3 DEF Crash
  <2>2. crashes' # 0
    BY <2>1 DEF JobInv, TypeOK
  <2>3. \A j \in Jobs : ~QueuedHere(j[1])'
    BY <2>1, <2>2 DEF QueuedHere
  <2>4. HeldInv'
    BY <2>1, <2>2, <2>3, InEmpty DEF HeldInv
  <2>5. FlushInv'
    BY <2>1, InEmpty DEF FlushInv, Working, Building
  <2>6. LeafInv'
    BY <2>1, InEmpty, LeavesStay DEF JobInv, Building, Accepted
  <2> QED
    BY <2>4, <2>5, <2>6
<1>4. CASE Restart
  <2>1. /\ ~up /\ up' = TRUE /\ registry' = registry /\ status' = status /\ pending' = pending
        /\ batch' = batch /\ todo' = todo /\ group' = group /\ results' = results
        /\ completed' = completed /\ flusher' = flusher /\ crashes' = crashes
    BY <1>4 DEF Restart, handlers, shared, flush, disk
  <2>2. crashes # 0 /\ \A c \in Calls : status[c] # "waiting"
    BY <2>1 DEF JobInv, HeldInv
  <2>3. \A j \in Jobs : ~QueuedHere(j[1])'
    BY <2>1, <2>2, JobType DEF QueuedHere
  <2>4. HeldInv'
    BY <2>1, <2>3 DEF JobInv, HeldInv, Accepted
  <2>5. FlushInv'
    BY <2>1 DEF JobInv, FlushInv, Working, Building
  <2>6. LeafInv'
    BY <2>1, LeavesStay DEF JobInv, Building, Accepted
  <2> QED
    BY <2>4, <2>5, <2>6
<1>5. CASE StartFails \/ UNCHANGED vars
  BY <1>5 DEF StartFails, vars, JobInv, HeldInv, FlushInv, LeafInv, Working, Building,
              Accepted, QueuedHere
<1> QED
  BY <1>1, <1>2, <1>3, <1>4, <1>5 DEF Next

LEMMA JobInvHolds == Spec => []JobInv
BY JobInit, NextJobInv, RootInvHolds, PTL DEF Spec

\* A set whose elements are all the same has at most one.
LEMMA AtMostOne ==
    ASSUME NEW S, \A x, y \in S : x = y
    PROVE  Cardinality(S) = IF S = {} THEN 0 ELSE 1
<1>1. CASE S = {}
  BY <1>1, FS_EmptySet
<1>2. CASE S # {}
  <2>1. PICK x \in S : TRUE
    BY <1>2
  <2>2. S = {x}
    BY <2>1
  <2> QED
    BY <1>2, <2>2, FS_Singleton
<1> QED
  BY <1>1, <1>2

\* A queued job is still queued, in the flush, or has its result, whatever calls
\* are made, time out, fail or die in between; and it is a leaf at most once.
THEOREM JobsHeldOnce == Spec => []JobHeldOnce
<1>1. JobInv => JobHeldOnce
  <2> SUFFICES ASSUME JobInv, NEW j \in Jobs
               PROVE  /\ QueuedHere(j[1]) =>
                            Cardinality(PlacesIn(j, pending)) + Cardinality(PlacesIn(j, batch))
                                + (IF completed[j] # NoResult THEN 1 ELSE 0) = 1
                      /\ Cardinality(LeavesFor(j)) <= 1
    BY DEF JobHeldOnce
  <2>1. ASSUME NEW jobs, Distinct(jobs)
        PROVE  Cardinality(PlacesIn(j, jobs)) = IF In(j, jobs) THEN 1 ELSE 0
    <3>1. \A x, y \in PlacesIn(j, jobs) : x = y
      BY <2>1 DEF PlacesIn, Distinct
    <3>2. PlacesIn(j, jobs) = {} <=> ~In(j, jobs)
      BY DEF PlacesIn, In
    <3> QED
      BY <3>1, <3>2, AtMostOne
  <2>2. QueuedHere(j[1]) =>
            Cardinality(PlacesIn(j, pending)) + Cardinality(PlacesIn(j, batch))
                + (IF completed[j] # NoResult THEN 1 ELSE 0) = 1
    BY <2>1 DEF JobInv, HeldInv
  <2>3. \A x, y \in LeavesFor(j) : x = y
    <3> SUFFICES ASSUME NEW i \in DOMAIN registry, NEW k \in DOMAIN registry,
                        NEW m \in PlacesIn(j, registry[i].batch),
                        NEW n \in PlacesIn(j, registry[k].batch)
                 PROVE  <<i, m>> = <<k, n>>
      BY DEF LeavesFor
    <3>1. In(j, registry[i].batch) /\ In(j, registry[k].batch)
      BY DEF PlacesIn, In
    <3>2. i = k
      BY <3>1 DEF JobInv, LeafInv
    <3> QED
      BY <3>2 DEF JobInv, LeafInv, PlacesIn, Distinct
  <2>4. Cardinality(LeavesFor(j)) <= 1
    BY <2>3, AtMostOne
  <2> QED
    BY <2>2, <2>4
<1> QED
  BY <1>1, JobInvHolds, PTL

-----------------------------------------------------------------------------
(* Every proof is of a published entry. *)

ProvedFor(r, claim) == Published(r) /\ r.tree[r.index] = claim

\* A result with a proof, and every proof kept anywhere, is of a published entry;
\* proofs are written only after their entry.
ProofInv ==
    /\ \A j \in Jobs : results[j].ok => ProvedFor(results[j], Claim(j))
    /\ \A j \in Jobs : completed[j].ok => ProvedFor(completed[j], Claim(j))
    /\ \A r \in proofIndex \cup proofs : Published(r)
    /\ \A c \in Calls : status[c] = "proofs" => \A i \in DOMAIN ClaimsOf[c] :
          ProvedFor(answer[c][i], ClaimsOf[c][i])
    /\ Building => written = 0
    /\ flusher = "proofs" =>
          /\ written < Len(group)
          /\ \E i \in DOMAIN registry : registry[i].batch = group

\* Steps that leave proofs, answers and the registry alone, and invent no result.
LEMMA ProofsStay ==
    ASSUME ProofInv, registry' = registry, proofs' = proofs,
           \A r \in proofIndex' : r \in proofIndex \/ \E j \in Jobs : results[j].ok /\ r = results[j],
           answer' = answer, \A c \in Calls : status'[c] = "proofs" => status[c] = "proofs",
           \A j \in Jobs : results'[j].ok => results'[j] = results[j],
           \A j \in Jobs : completed'[j].ok => completed'[j] \in {completed[j], results[j]},
           Building' => written' = 0,
           flusher' = "proofs" => flusher = "proofs" /\ written' = written /\ group' = group
    PROVE  ProofInv'
<1>1. \A j \in Jobs : results'[j].ok => ProvedFor(results[j], Claim(j))
  BY DEF ProofInv
<1>2. \A j \in Jobs : results'[j].ok => ProvedFor(results[j], Claim(j))'
  BY <1>1 DEF ProvedFor, Published
<1>3. \A j \in Jobs : completed'[j].ok => ProvedFor(completed[j], Claim(j))'
  BY DEF ProofInv, ProvedFor, Published
<1>4. \A r \in (proofIndex \cup proofs)' : Published(r)'
  BY DEF ProofInv, ProvedFor, Published
<1>5. \A c \in Calls : status'[c] = "proofs" => \A i \in DOMAIN ClaimsOf[c] :
          ProvedFor(answer[c][i], ClaimsOf[c][i])'
  BY DEF ProofInv, ProvedFor, Published
<1> QED
  BY <1>2, <1>3, <1>4, <1>5 DEF ProofInv

LEMMA ProofInit == Init => ProofInv
<1> SUFFICES ASSUME Init PROVE ProofInv
  OBVIOUS
<1>1. /\ flusher = "wait" /\ proofIndex = {} /\ proofs = {}
      /\ \A j \in Jobs : ~completed[j].ok /\ ~results[j].ok
      /\ \A c \in Calls : status[c] = "new"
  BY ConstantResults DEF Init, MemoryInit
<1> QED
  BY <1>1 DEF ProofInv, Building

\* Only a call all of whose claims have a proof is answered with proofs.
LEMMA ReturnProofInv ==
    ASSUME JobInv, ProofInv, NEW c \in Calls, Return(c)
    PROVE  ProofInv'
<1>1. /\ results' = results /\ completed' = completed /\ registry' = registry
      /\ proofIndex' = proofIndex /\ proofs' = proofs /\ written' = written
      /\ flusher' = flusher /\ group' = group
      /\ answer'[c] = [i \in DOMAIN ClaimsOf[c] |-> completed[<<c, i>>]]
      /\ status'[c] = "proofs" => \A i \in DOMAIN answer'[c] : answer'[c][i].ok
      /\ \A d \in Calls : d # c => status'[d] = status[d] /\ answer'[d] = answer[d]
  BY DEF Return, shared, flush, disk, JobInv, TypeOK
<1>2. \A i \in DOMAIN ClaimsOf[c] : <<c, i>> \in Jobs /\ Claim(<<c, i>>) = ClaimsOf[c][i]
  BY CallJobs DEF Claim
<1>3. status'[c] = "proofs" => \A i \in DOMAIN ClaimsOf[c] :
          /\ answer'[c][i] = completed[<<c, i>>]
          /\ ProvedFor(completed[<<c, i>>], ClaimsOf[c][i])
  BY <1>1, <1>2 DEF ProofInv
<1>4. ASSUME NEW d \in Calls, status'[d] = "proofs", NEW i \in DOMAIN ClaimsOf[d]
      PROVE  ProvedFor(answer[d][i], ClaimsOf[d][i])'
  <2>1. CASE d = c
    <3>1. answer'[d][i] = completed[<<c, i>>] /\ ProvedFor(completed[<<c, i>>], ClaimsOf[d][i])
      BY <1>3, <1>4, <2>1
    <3> QED
      BY <1>1, <3>1 DEF ProvedFor, Published
  <2>2. CASE d # c
    <3>1. status[d] = "proofs" /\ answer'[d] = answer[d]
      BY <1>1, <1>4, <2>2
    <3>2. ProvedFor(answer[d][i], ClaimsOf[d][i])
      BY <3>1 DEF ProofInv
    <3> QED
      BY <1>1, <3>1, <3>2 DEF ProvedFor, Published
  <2> QED
    BY <2>1, <2>2
<1>5. /\ \A j \in Jobs : results[j].ok => ProvedFor(results[j], Claim(j))'
      /\ \A j \in Jobs : completed[j].ok => ProvedFor(completed[j], Claim(j))'
      /\ \A r \in proofIndex \cup proofs : Published(r)'
  BY <1>1 DEF ProofInv, ProvedFor, Published
<1> QED
  BY <1>1, <1>4, <1>5 DEF ProofInv, Building

\* Writing the entry publishes the tree its proofs are of.
LEMMA EntryProofInv == JobInv /\ ProofInv /\ WriteEntry => ProofInv'
<1> SUFFICES ASSUME JobInv, ProofInv, WriteEntry PROVE ProofInv'
  OBVIOUS
<1> DEFINE e == NewEntry(latest)
<1>1. /\ flusher = "entry" /\ flusher' = "proofs" /\ registry' = Append(registry, e)
      /\ results' = results /\ completed' = completed /\ proofIndex' = proofIndex
      /\ proofs' = proofs /\ status' = status /\ answer' = answer
      /\ written' = written /\ group' = group
  BY DEF WriteEntry, handlers, shared, flush
<1>2. e.batch = group
  BY DEF NewEntry
<1>3. e \in RegistryEntry
  BY EntryType DEF JobInv, TypeOK
<1> HIDE DEF e
<1>4. /\ \A i \in DOMAIN registry : i \in DOMAIN registry' /\ registry'[i] = registry[i]
      /\ Len(registry) + 1 \in DOMAIN registry' /\ registry'[Len(registry) + 1] = e
  BY <1>1, <1>3, AppendProperties, LenProperties DEF JobInv, TypeOK
<1>5. written' < Len(group')
  <2>1. group \in Seq(Jobs) /\ group # <<>> /\ written = 0
    BY <1>1 DEF JobInv, TypeOK, FlushInv, Working, Building, ProofInv
  <2>2. Len(group) \in Nat /\ Len(group) # 0
    BY <2>1, EmptySeq, LenProperties
  <2> QED
    BY <1>1, <2>1, <2>2
<1>6. \A r : Published(r) => Published(r)'
  BY <1>4 DEF Published
<1>7. /\ \A j \in Jobs : results[j].ok => ProvedFor(results[j], Claim(j))'
      /\ \A j \in Jobs : completed[j].ok => ProvedFor(completed[j], Claim(j))'
      /\ \A r \in proofIndex \cup proofs : Published(r)'
      /\ \A c \in Calls : status[c] = "proofs" => \A i \in DOMAIN ClaimsOf[c] :
            ProvedFor(answer[c][i], ClaimsOf[c][i])'
  BY <1>1, <1>4 DEF ProofInv, ProvedFor, Published
<1>8. ~Building'
  BY <1>1 DEF Building
<1> QED
  BY <1>1, <1>2, <1>4, <1>5, <1>7, <1>8 DEF ProofInv

\* A proof is of the group's tree at the job's own place in it.
LEMMA WriteProofInv == JobInv /\ ProofInv /\ WriteProof => ProofInv'
<1> SUFFICES ASSUME JobInv, ProofInv, WriteProof PROVE ProofInv'
  OBVIOUS
<1> DEFINE proof == ProofFor(group, written')
<1>1. /\ flusher = "proofs" /\ written' = written + 1
      /\ completed' = completed /\ registry' = registry /\ proofIndex' = proofIndex
      /\ status' = status /\ answer' = answer /\ group' = group
      /\ proofs' = {p \in proofs : ~SameProofFile(p, proof)} \cup {proof}
  BY DEF WriteProof, handlers, shared
<1>2. PICK k \in DOMAIN registry : registry[k].batch = group
  BY <1>1 DEF ProofInv
<1>3. group \in Seq(Jobs) /\ written \in Nat /\ written < Len(group)
      /\ DOMAIN group = 1..Len(group) /\ Len(group) \in Nat
  BY <1>1, LenProperties DEF ProofInv, JobInv, TypeOK
<1> HIDE DEF proof
<1>4. ASSUME NEW i \in DOMAIN group
      PROVE  /\ Published(ProofFor(group, i))
             /\ ProofFor(group, i).tree[ProofFor(group, i).index] = Claim(group[i])
  <2>1. /\ ProofFor(group, i).tree = TreeOf(group)
        /\ ProofFor(group, i).index = i
    BY DEF ProofFor
  <2>2. DOMAIN TreeOf(group) = DOMAIN group /\ TreeOf(group)[i] = Claim(group[i])
    BY DEF TreeOf
  <2> QED
    BY <1>2, <2>1, <2>2 DEF Published
<1>5. \A r \in (proofIndex \cup proofs)' : Published(r)'
  <2>1. written' \in DOMAIN group
    BY <1>1, <1>3
  <2>2. Published(proof)
    BY <1>4, <2>1 DEF proof
  <2>3. \A r \in (proofIndex \cup proofs)' : Published(r)
    BY <1>1, <2>2 DEF ProofInv
  <2> QED
    BY <1>1, <2>3 DEF Published
<1>6. /\ \A j \in Jobs : completed'[j].ok => ProvedFor(completed[j], Claim(j))'
      /\ \A c \in Calls : status'[c] = "proofs" => \A i \in DOMAIN ClaimsOf[c] :
            ProvedFor(answer[c][i], ClaimsOf[c][i])'
  BY <1>1 DEF ProofInv, ProvedFor, Published
<1>7. CASE written' = Len(group)
  <2>1. /\ flusher' = "groups"
        /\ \A j \in Jobs : results'[j] = IF In(j, group) THEN ProofFor(group, PlaceOf(j, group))
                                         ELSE results[j]
    BY <1>7, InToSet DEF WriteProof
  <2>2. \A j \in Jobs : In(j, group) => PlaceOf(j, group) \in DOMAIN group /\ group[PlaceOf(j, group)] = j
    BY PlaceIsItsOwn
  <2>3. \A j \in Jobs : results'[j].ok =>
            Published(results'[j]) /\ results'[j].tree[results'[j].index] = Claim(j)
    <3> SUFFICES ASSUME NEW j \in Jobs, results'[j].ok
                 PROVE  Published(results'[j]) /\ results'[j].tree[results'[j].index] = Claim(j)
      OBVIOUS
    <3>1. CASE In(j, group)
      <4>1. results'[j] = ProofFor(group, PlaceOf(j, group))
        BY <2>1, <3>1
      <4>2. PlaceOf(j, group) \in DOMAIN group /\ group[PlaceOf(j, group)] = j
        BY <2>2, <3>1
      <4> QED
        BY <1>4, <4>1, <4>2
    <3>2. CASE ~In(j, group)
      <4>1. results'[j] = results[j] /\ ProvedFor(results[j], Claim(j))
        BY <2>1, <3>2 DEF ProofInv
      <4> QED
        BY <4>1 DEF ProvedFor
    <3> QED
      BY <3>1, <3>2
  <2>4. \A j \in Jobs : results'[j].ok => ProvedFor(results[j], Claim(j))'
    BY <1>1, <2>3 DEF ProvedFor, Published
  <2> QED
    BY <1>5, <1>6, <2>1, <2>4 DEF ProofInv, Building
<1>8. CASE written' # Len(group)
  <2>1. flusher' = flusher /\ results' = results
    BY <1>8 DEF WriteProof
  <2>2. written' < Len(group')
    <3>1. written \in Nat /\ Len(group) \in Nat /\ written < Len(group)
      BY <1>3
    <3>2. written' = written + 1 /\ group' = group /\ written' # Len(group)
      BY <1>1, <1>8
    <3>3. \A w, n \in Nat : w < n /\ w + 1 # n => w + 1 < n
      OBVIOUS
    <3> QED
      BY <3>1, <3>2, <3>3
  <2>3. \A j \in Jobs : results'[j].ok => ProvedFor(results[j], Claim(j))'
    BY <1>1, <2>1 DEF ProofInv, ProvedFor, Published
  <2>4. ~Building' /\ \E i \in DOMAIN registry' : registry'[i].batch = group'
    BY <1>1, <1>2, <2>1 DEF Building
  <2> QED
    BY <1>5, <1>6, <2>2, <2>3, <2>4 DEF ProofInv
<1> QED
  BY <1>7, <1>8

LEMMA NextProofInv == JobInv /\ ProofInv /\ [Next]_vars => ProofInv'
<1> SUFFICES ASSUME JobInv, ProofInv, [Next]_vars PROVE ProofInv'
  OBVIOUS
<1>1. ASSUME NEW c \in Calls, Refuse(c) \/ Submit(c) \/ Return(c) \/ TimeOut(c)
      PROVE  ProofInv'
  <2>1. CASE Return(c)
    BY <2>1, ReturnProofInv
  <2>2. CASE Refuse(c) \/ Submit(c) \/ TimeOut(c)
    <3>1. \A d \in Calls : status'[d] = "proofs" => status[d] = "proofs"
      BY <2>2 DEF Refuse, Submit, TimeOut, JobInv, TypeOK
    <3> QED
      BY <2>2, <3>1, ProofsStay DEF Refuse, Submit, TimeOut, shared, flush, disk, ProofInv, Building
  <2> QED
    BY <1>1, <2>1, <2>2
<1>2. CASE FlushStep
  <2>1. CASE WriteEntry
    BY <2>1, EntryProofInv
  <2>2. CASE WriteProof
    BY <2>2, WriteProofInv
  <2>3. CASE TakePending
    <3>1. \A j \in Jobs : ~results'[j].ok
      BY <2>3, ConstantResults DEF TakePending
    <3> QED
      BY <2>3, <3>1, ProofsStay DEF TakePending, handlers, disk, Building
  <2>4. CASE WakeIdle \/ EndFlush
    BY <2>4, ProofsStay DEF WakeIdle, EndFlush, handlers, shared, flush, disk, Building
  <2>5. CASE RejectGroup
    <3>1. \A j \in Jobs : results'[j].ok => results'[j] = results[j]
      BY <2>5, ConstantResults DEF RejectGroup
    <3> QED
      BY <2>5, <3>1, ProofsStay DEF RejectGroup, handlers, shared, disk, Building
  <2>6. CASE BeginGroup
    BY <2>6, ProofsStay DEF BeginGroup, handlers, shared, disk, Building
  <2>7. CASE FoldLeaf
    BY <2>7, ProofsStay DEF FoldLeaf, handlers, shared, flush, ProofInv, Building
  <2>8. CASE PersistLatest
    BY <2>8, ProofsStay DEF PersistLatest, handlers, shared, flush, ProofInv, Building
  <2>9. CASE FlushFails
    <3>1. \A j \in Jobs : ~results'[j].ok
      BY <2>9, ConstantResults DEF FlushFails
    <3> QED
      BY <2>9, <3>1, ProofsStay DEF FlushFails, handlers, shared, Building
  <2>10. CASE Report
    <3>1. \A j \in Jobs : ~results'[j].ok /\ completed'[j] \in {completed[j], results[j]}
      BY <2>10, ConstantResults DEF Report
    <3> QED
      BY <2>10, <3>1, ProofsStay DEF Report, handlers, disk, Building
  <2> QED
    BY <1>2, <2>1, <2>2, <2>3, <2>4, <2>5, <2>6, <2>7, <2>8, <2>9, <2>10 DEF FlushStep
<1>3. CASE Crash
  <2>1. /\ \A j \in Jobs : ~results'[j].ok /\ ~completed'[j].ok
        /\ \A c \in Calls : status'[c] = "proofs" => status[c] = "proofs"
    BY <1>3, ConstantResults DEF Crash
  <2> QED
    BY <1>3, <2>1, ProofsStay DEF Crash, Building
<1>4. CASE Restart \/ StartFails \/ UNCHANGED vars
  BY <1>4, ProofsStay DEF Restart, StartFails, vars, handlers, shared, flush, disk, ProofInv, Building
<1> QED
  BY <1>1, <1>2, <1>3, <1>4 DEF Next

\* A proof answered, found or on disk is of a published entry, at the claim's own
\* place in its tree, whatever failed, died or was submitted in between.
THEOREM ProofsArePublished == Spec => []ProofsAreOfEntries
<1>1. ProofInv => ProofsAreOfEntries
  BY DEF ProofInv, ProofsAreOfEntries, ProvedFor
<1> QED
  BY <1>1, ProofInit, NextProofInv, JobInvHolds, PTL DEF Spec
=============================================================================
