---------------------------- MODULE MirrorsProofs ----------------------------
(***************************************************************************)
(* That a check of the mirrors which passed was true and stays so, and     *)
(* that two checks which passed nest, for every set of mirrors and every   *)
(* number of commits.                                                      *)
(***************************************************************************)
EXTENDS Mirrors, SequenceTheorems, TLAPS

History == Seq(Nat)

\* IsPrefix, element by element.
LEMMA PrefixElements ==
    ASSUME NEW s \in History, NEW t \in History
    PROVE  IsPrefix(s, t) <=> Len(s) <= Len(t) /\ \A i \in 1..Len(s) : s[i] = t[i]
<1> USE DEF History
<1>1. Len(s) \in Nat /\ Len(t) \in Nat
  OBVIOUS
<1>2. SubSeq(s, 1, Len(s)) = s
  BY SubSeqFull
<1> SUFFICES ASSUME Len(s) <= Len(t)
             PROVE  SubSeq(t, 1, Len(s)) = s <=> \A i \in 1..Len(s) : s[i] = t[i]
  BY <1>2 DEF IsPrefix
<1>3. /\ SubSeq(t, 1, Len(s)) \in Seq(Nat)
      /\ Len(SubSeq(t, 1, Len(s))) = Len(s)
      /\ \A i \in 1..Len(s) : SubSeq(t, 1, Len(s))[i] = t[i]
  BY <1>1
<1> QED
  BY <1>1, <1>3, SeqEqual

LEMMA PrefixReflexive ==
    ASSUME NEW s \in History
    PROVE  IsPrefix(s, s)
BY PrefixElements DEF History

LEMMA PrefixTransitive ==
    ASSUME NEW s \in History, NEW t \in History, NEW u \in History,
           IsPrefix(s, t), IsPrefix(t, u)
    PROVE  IsPrefix(s, u)
<1> /\ Len(s) \in Nat /\ Len(t) \in Nat /\ Len(u) \in Nat
  BY DEF History
<1>1. Len(s) <= Len(t) /\ Len(t) <= Len(u)
  BY PrefixElements
<1>2. \A i \in 1..Len(s) : i \in 1..Len(t) /\ s[i] = t[i] /\ t[i] = u[i]
  BY <1>1, PrefixElements
<1> QED
  BY <1>1, <1>2, PrefixElements

-----------------------------------------------------------------------------
TypeOK ==
    /\ main \in History
    /\ last \in Nat
    /\ mirror \in [Mirrors -> History]
    /\ sync \in [Mirrors -> [stage : {"idle", "push"}, target : History]]
    /\ check \in [stage : {"idle", "reading"}, canonical : History,
                  left : SUBSET Mirrors, failed : BOOLEAN]
    /\ report \in [verdict : {"none", "ok", "fail"}, passed : History]

\* What a sync job is about to push descends from what its mirror holds.
SyncsForward == \A m \in Mirrors : sync[m].stage = "push" => IsPrefix(mirror[m], sync[m].target)

\* The check under way, as long as it has not failed: mirrors already read hold the
\* canonical head it began with, and once one is read, that head descends from the
\* one passed last, which the mirror held too.
ReadSoFar ==
    check.stage = "reading" /\ ~check.failed =>
        /\ \A m \in Mirrors \ check.left : IsPrefix(check.canonical, mirror[m])
        /\ check.left # Mirrors => IsPrefix(report.passed, check.canonical)

MirrorsInv == TypeOK /\ SyncsForward /\ ReadSoFar /\ PassedMeansHeld

LEMMA TypeInit == Init => TypeOK
BY MirrorsAssumption DEF Init, TypeOK, NoSync, NoCheck, History

LEMMA TypeStep == TypeOK /\ [Next]_vars => TypeOK'
<1> SUFFICES ASSUME TypeOK, [Next]_vars PROVE TypeOK'
  OBVIOUS
<1> USE DEF TypeOK
<1>0. <<>> \in History
  BY DEF History
<1>1. CASE Commit
  BY <1>1 DEF Commit, History
<1>2. ASSUME NEW k \in 1..MaxCommit, Rewrite(k) PROVE TypeOK'
  <2>1. SubSeq(main, 1, k) \in History
    BY <1>2 DEF Rewrite, History
  <2> QED
    BY <1>2, <2>1 DEF Rewrite
<1>3. ASSUME NEW m \in Mirrors, Fetch(m) \/ Push(m) \/ SyncLost(m) PROVE TypeOK'
  <2>1. sync' \in [Mirrors -> [stage : {"idle", "push"}, target : History]]
    BY <1>0, <1>3 DEF Fetch, Push, SyncLost, NoSync
  <2>2. mirror' \in [Mirrors -> History]
    BY <1>3 DEF Fetch, Push, SyncLost
  <2> QED
    BY <1>3, <2>1, <2>2 DEF Fetch, Push, SyncLost
<1>4. ASSUME Failed PROVE report' \in [verdict : {"none", "ok", "fail"}, passed : History]
                          /\ check' \in [stage : {"idle", "reading"}, canonical : History,
                                        left : SUBSET Mirrors, failed : BOOLEAN]
  <2>1. report' \in [verdict : {"none", "ok", "fail"}, passed : History]
    BY <1>4, SMT DEF Failed
  <2>2. check' \in [stage : {"idle", "reading"}, canonical : History,
                    left : SUBSET Mirrors, failed : BOOLEAN]
    BY <1>0, <1>4, SMT DEF Failed, NoCheck
  <2> QED
    BY <2>1, <2>2
<1>5. CASE StartCheck
  <2>1. CASE Failed
    BY <1>4, <1>5, <2>1 DEF StartCheck
  <2>2. CASE check' = [stage |-> "reading", canonical |-> main,
                       left |-> Mirrors, failed |-> FALSE] /\ UNCHANGED report
    BY <1>5, <2>2 DEF StartCheck
  <2> QED
    BY <1>5, <2>1, <2>2 DEF StartCheck
<1>6. ASSUME NEW m \in Mirrors, ReadMirror(m) \/ MirrorUnreachable(m) PROVE TypeOK'
  <2>1. check' \in [stage : {"idle", "reading"}, canonical : History,
                    left : SUBSET Mirrors, failed : BOOLEAN]
    <3>1. CASE ReadMirror(m)
      <4> DEFINE late == ~InSync(mirror[m], check.canonical)
      <4>1. check' = [check EXCEPT !.left = @ \ {m}, !.failed = @ \/ late]
        BY <3>1 DEF ReadMirror
      <4>2. (check.failed \/ late) \in BOOLEAN
        OBVIOUS
      <4> HIDE DEF late
      <4> QED
        BY <4>1, <4>2
    <3>2. CASE MirrorUnreachable(m)
      BY <3>2 DEF MirrorUnreachable
    <3> QED
      BY <1>6, <3>1, <3>2
  <2> QED
    BY <1>6, <2>1 DEF ReadMirror, MirrorUnreachable
<1>7. CASE CheckRaises
  BY <1>4, <1>7 DEF CheckRaises
<1>8. CASE EndCheck
  <2>1. ASSUME Passed PROVE /\ report' \in [verdict : {"none", "ok", "fail"}, passed : History]
                            /\ check' \in [stage : {"idle", "reading"}, canonical : History,
                                           left : SUBSET Mirrors, failed : BOOLEAN]
    BY <1>0, <2>1 DEF Passed, NoCheck
  <2> QED
    BY <1>4, <1>8, <2>1 DEF EndCheck
<1>9. CASE UNCHANGED vars
  BY <1>9 DEF vars
<1> QED
  BY <1>1, <1>2, <1>3, <1>5, <1>6, <1>7, <1>8, <1>9 DEF Next, CheckStep

\* No mirror ever loses history: a sync job pushes only what descends from it.
LEMMA MirrorsGrow ==
    ASSUME MirrorsInv, [Next]_vars, NEW m \in Mirrors
    PROVE  IsPrefix(mirror[m], mirror'[m])
<1>1. mirror[m] \in History
  BY DEF MirrorsInv, TypeOK
<1>2. CASE \E n \in Mirrors : Push(n)
  <2> PICK n \in Mirrors : Push(n)
    BY <1>2
  <2>1. mirror' = [mirror EXCEPT ![n] = sync[n].target] /\ IsPrefix(mirror[n], sync[n].target)
    BY DEF Push, MirrorsInv, SyncsForward
  <2> QED
    BY <1>1, <2>1, PrefixReflexive DEF MirrorsInv, TypeOK
<1>3. CASE ~\E n \in Mirrors : Push(n)
  <2>1. UNCHANGED mirror
    BY <1>3 DEF Next, vars, Commit, Rewrite, Fetch, SyncLost, CheckStep, StartCheck, ReadMirror,
                MirrorUnreachable, CheckRaises, EndCheck
  <2> QED
    BY <1>1, <2>1, PrefixReflexive
<1> QED
  BY <1>2, <1>3

LEMMA SyncsForwardStep == MirrorsInv /\ [Next]_vars => SyncsForward'
<1> SUFFICES ASSUME MirrorsInv, [Next]_vars, NEW m \in Mirrors, sync'[m].stage = "push"
             PROVE  IsPrefix(mirror'[m], sync'[m].target)
  BY DEF SyncsForward
<1> USE DEF MirrorsInv, TypeOK
<1>1. CASE \E n \in Mirrors : Fetch(n)
  <2> PICK n \in Mirrors : Fetch(n)
    BY <1>1
  <2> QED
    BY DEF Fetch, SyncsForward
<1>2. CASE \E n \in Mirrors : Push(n) \/ SyncLost(n)
  <2> PICK n \in Mirrors : Push(n) \/ SyncLost(n)
    BY <1>2
  <2>1. m # n /\ sync'[m] = sync[m] /\ mirror'[m] = mirror[m]
    BY DEF Push, SyncLost, NoSync
  <2> QED
    BY <2>1 DEF SyncsForward
<1>3. CASE ~\E n \in Mirrors : Fetch(n) \/ Push(n) \/ SyncLost(n)
  <2>1. UNCHANGED <<mirror, sync>>
    BY <1>3 DEF Next, vars, Commit, Rewrite, CheckStep, StartCheck, ReadMirror,
                MirrorUnreachable, CheckRaises, EndCheck
  <2> QED
    BY <2>1 DEF SyncsForward
<1> QED
  BY <1>1, <1>2, <1>3

\* The report changes only when a check ends, and a check that passes has read every
\* mirror, of which there is at least one.
LEMMA PassedExtends ==
    ASSUME MirrorsInv, [Next]_vars
    PROVE  /\ IsPrefix(report.passed, report'.passed)
           /\ \A m \in Mirrors : IsPrefix(report'.passed, mirror'[m])
<1> USE DEF MirrorsInv, TypeOK
<1>1. CASE EndCheck /\ ~check.failed
  <2>1. report'.passed = check.canonical /\ UNCHANGED mirror
    BY <1>1 DEF EndCheck, Passed
  <2>2. /\ check.left # Mirrors
        /\ \A m \in Mirrors : m \in Mirrors \ check.left
    BY <1>1, MirrorsAssumption DEF EndCheck
  <2> QED
    BY <1>1, <2>1, <2>2 DEF ReadSoFar, EndCheck
<1>2. CASE ~(EndCheck /\ ~check.failed)
  <2>1. report'.passed = report.passed
    BY <1>2 DEF Next, vars, Commit, Rewrite, Fetch, Push, SyncLost, CheckStep, StartCheck,
                ReadMirror, MirrorUnreachable, CheckRaises, EndCheck, Failed
  <2>2. ASSUME NEW m \in Mirrors PROVE IsPrefix(report'.passed, mirror'[m])
    <3>1. IsPrefix(report.passed, mirror[m]) /\ IsPrefix(mirror[m], mirror'[m])
      BY MirrorsGrow DEF PassedMeansHeld
    <3>2. mirror'[m] \in History
      BY TypeStep
    <3> QED
      BY <2>1, <3>1, <3>2, PrefixTransitive
  <2> QED
    BY <2>1, <2>2, PrefixReflexive
<1> QED
  BY <1>1, <1>2

LEMMA ReadSoFarStep == MirrorsInv /\ [Next]_vars => ReadSoFar'
<1> SUFFICES ASSUME MirrorsInv, [Next]_vars, check'.stage = "reading", ~check'.failed
             PROVE  /\ \A m \in Mirrors \ check'.left : IsPrefix(check'.canonical, mirror'[m])
                    /\ check'.left # Mirrors => IsPrefix(report'.passed, check'.canonical)
  BY DEF ReadSoFar
<1> USE DEF MirrorsInv, TypeOK
<1>1. CASE StartCheck
  BY <1>1 DEF StartCheck, Failed, NoCheck
<1>2. CASE \E n \in Mirrors : ReadMirror(n) \/ MirrorUnreachable(n)
  <2> PICK n \in Mirrors : ReadMirror(n) \/ MirrorUnreachable(n)
    BY <1>2
  <2>1. ReadMirror(n) /\ check.stage = "reading" /\ ~check.failed
    BY DEF ReadMirror, MirrorUnreachable
  <2>2. /\ check'.canonical = check.canonical /\ check'.left = check.left \ {n}
        /\ mirror[n] = check.canonical
        /\ UNCHANGED <<mirror, report>>
    BY <2>1 DEF ReadMirror, InSync
  <2>3. IsPrefix(check.canonical, mirror[n])
    BY <2>2, PrefixReflexive
  <2>4. IsPrefix(report.passed, check.canonical)
    BY <2>2 DEF PassedMeansHeld
  <2> QED
    BY <2>1, <2>2, <2>3, <2>4 DEF ReadSoFar
<1>3. CASE UNCHANGED <<check, report>>
  <2>1. ASSUME NEW m \in Mirrors \ check.left
        PROVE  IsPrefix(check.canonical, mirror'[m])
    <3>1. IsPrefix(check.canonical, mirror[m]) /\ IsPrefix(mirror[m], mirror'[m])
      BY <1>3, MirrorsGrow DEF ReadSoFar
    <3>2. mirror'[m] \in History
      BY TypeStep
    <3> QED
      BY <3>1, <3>2, PrefixTransitive
  <2> QED
    BY <1>3, <2>1 DEF ReadSoFar
<1>4. CASE CheckRaises \/ EndCheck
  BY <1>4 DEF CheckRaises, EndCheck, Failed, Passed, NoCheck
<1> QED
  BY <1>1, <1>2, <1>3, <1>4 DEF Next, vars, Commit, Rewrite, Fetch, Push, SyncLost, CheckStep

LEMMA InvInit == Init => MirrorsInv
<1> SUFFICES ASSUME Init PROVE MirrorsInv
  OBVIOUS
<1>1. TypeOK
  BY TypeInit
<1>2. \A m \in Mirrors : IsPrefix(report.passed, mirror[m])
  <2>1. <<>> \in History /\ <<1>> \in History /\ Len(<<>>) = 0 /\ Len(<<1>>) = 1
    BY DEF History
  <2>2. IsPrefix(<<>>, <<1>>)
    BY <2>1, PrefixElements
  <2> QED
    BY <2>2 DEF Init
<1> QED
  BY <1>1, <1>2 DEF Init, MirrorsInv, SyncsForward, ReadSoFar, PassedMeansHeld, NoSync, NoCheck

LEMMA InvStep == MirrorsInv /\ [Next]_vars => MirrorsInv'
<1> SUFFICES ASSUME MirrorsInv, [Next]_vars PROVE MirrorsInv'
  OBVIOUS
<1>1. TypeOK'
  BY TypeStep DEF MirrorsInv
<1>2. PassedMeansHeld'
  BY PassedExtends DEF PassedMeansHeld
<1> QED
  BY <1>1, <1>2, SyncsForwardStep, ReadSoFarStep DEF MirrorsInv

-----------------------------------------------------------------------------
\* Main as it was when a check began that passed is in the history of every
\* mirror, whatever happens to main and to the mirrors' sync jobs from then on.
THEOREM PassedIsHeld == Spec => []PassedMeansHeld
<1>1. MirrorsInv => PassedMeansHeld
  BY DEF MirrorsInv
<1> QED
  BY InvInit, InvStep, <1>1, PTL DEF Spec

\* From a check that passed to the next that did, main only grew: no rewrite of
\* published history gets past the comparison of heads.
THEOREM ChecksNest == Spec => PassesNest
<1>1. MirrorsInv /\ [Next]_vars => [IsPrefix(report.passed, report'.passed)]_vars
  BY PassedExtends
<1> QED
  BY InvInit, InvStep, <1>1, PTL DEF Spec, PassesNest
=============================================================================
