-------------------------- MODULE PublicationProofs --------------------------
(***************************************************************************)
(* That the published day files only grow, and go back in time only from   *)
(* an entry of a pull request to one of the job, for every set of pull     *)
(* requests and batches and every length of time: CI's verdict about an    *)
(* older main carries over to every merge git then makes.                  *)
(***************************************************************************)
EXTENDS Publication, CheckpointChainProofs

-----------------------------------------------------------------------------
(* Sequences of lines, whatever a line's checkpoint is.                     *)

\* Only a pull request dates its line ahead, and a checkpoint over one leaf names
\* no earlier one.
IsLine(line, t) ==
    /\ line.ts \in Nat
    /\ line.batch \notin Pulls => line.ts <= t
    /\ FirstNamesNone(line.cp)

IsLines(s, t) ==
    /\ s \in Seq(Range(s))
    /\ \A i \in 1..Len(s) : IsLine(s[i], t)

LEMMA LinesOver ==
    ASSUME NEW S, NEW s \in Seq(S)
    PROVE  /\ s \in Seq(Range(s))
           /\ Len(s) \in Nat /\ DOMAIN s = 1..Len(s)
<1>1. Len(s) \in Nat /\ DOMAIN s = 1..Len(s) /\ s = [i \in 1..Len(s) |-> s[i]]
  BY LenProperties
<1>2. \A i \in 1..Len(s) : s[i] \in Range(s)
  BY <1>1 DEF Range
<1>3. s \in Seq(Range(s))
  BY <1>1, <1>2, IsASeq
<1> QED
  BY <1>1, <1>3

LEMMA EmptyIsLines == ASSUME NEW t PROVE IsLines(<<>>, t)
<1>1. <<>> \in Seq({}) /\ Len(<<>>) = 0
  BY EmptySeq
<1> QED
  BY <1>1, LinesOver DEF IsLines

LEMMA AppendIsLines ==
    ASSUME NEW s, NEW t \in Nat, IsLines(s, t), NEW line, IsLine(line, t)
    PROVE  /\ IsLines(Append(s, line), t)
           /\ Len(s) \in Nat /\ DOMAIN s = 1..Len(s)
           /\ Len(Append(s, line)) = Len(s) + 1
           /\ \A i \in 1..Len(s) : Append(s, line)[i] = s[i]
           /\ Append(s, line)[Len(s) + 1] = line
<1> DEFINE S == Range(s) \cup {line}
<1>1. s \in Seq(S)
  BY SeqMonotonic DEF IsLines
<1>2. /\ Append(s, line) \in Seq(S)
      /\ Len(Append(s, line)) = Len(s) + 1
      /\ \A i \in 1..Len(s) : Append(s, line)[i] = s[i]
      /\ Append(s, line)[Len(s) + 1] = line
  BY <1>1, AppendProperties
<1>3. Len(s) \in Nat /\ DOMAIN s = 1..Len(s)
  BY <1>1, LinesOver
<1>4. \A i \in 1..Len(s) + 1 : i \in 1..Len(s) \/ i = Len(s) + 1
  BY <1>3
<1>5. \A i \in 1..Len(s) + 1 : IsLine(Append(s, line)[i], t)
  BY <1>2, <1>4 DEF IsLines
<1> QED
  BY <1>2, <1>3, <1>5, LinesOver DEF IsLines

\* A sequence without its last line, or with another one of the same time there.
LEMMA EditIsLines ==
    ASSUME NEW s, NEW t \in Nat, IsLines(s, t), s # <<>>, NEW line, IsLine(line, t)
    PROVE  IsLines(Front(s), t) /\ IsLines([s EXCEPT ![Len(s)] = line], t)
<1>1. Len(s) \in Nat \ {0} /\ s \in Seq(Range(s))
  BY EmptySeq DEF IsLines
<1>2. IsLines(Front(s), t)
  <2>1. Len(s) - 1 \in Int /\ \A i \in 1..Len(s) - 1 : s[i] \in Range(s)
    <3>1. DOMAIN s = 1..Len(s)
      BY <1>1, LinesOver
    <3> QED
      BY <1>1, <3>1 DEF Range
  <2>2. /\ Front(s) \in Seq(Range(s))
        /\ Len(Front(s)) = Len(s) - 1
        /\ \A i \in 1..Len(s) - 1 : Front(s)[i] = s[i]
    <3> DEFINE n == Len(s) - 1
    <3>1. n \in Nat /\ (IF 1 <= n THEN n - 1 + 1 ELSE 0) = n /\ n - 1 + 1 = n
      <4>1. \A k \in Nat \ {0} : /\ k - 1 \in Nat /\ k - 1 - 1 + 1 = k - 1
                                 /\ (IF 1 <= k - 1 THEN k - 1 - 1 + 1 ELSE 0) = k - 1
        OBVIOUS
      <4> QED
        BY <1>1, <4>1
    <3>2. \A i \in 1..n : 1 + i - 1 = i
      BY <3>1
    <3> HIDE DEF n
    <3>3. /\ SubSeq(s, 1, n) \in Seq(Range(s))
          /\ Len(SubSeq(s, 1, n)) = (IF 1 <= n THEN n - 1 + 1 ELSE 0)
          /\ \A i \in 1..n - 1 + 1 : SubSeq(s, 1, n)[i] = s[1 + i - 1]
      <4>1. \A i \in 1..n : s[i] \in Range(s)
        BY <2>1 DEF n
      <4>2. 1 \in Int /\ n \in Int
        BY <3>1
      <4> QED
        BY <4>1, <4>2, SubSeqProperties
    <3>4. Front(s) = SubSeq(s, 1, n)
      BY DEF Front, n
    <3>5. \A i \in 1..n : Front(s)[i] = s[i]
      BY <3>2, <3>1, <3>3, <3>4
    <3> QED
      BY <3>1, <3>3, <3>4, <3>5 DEF n
  <2> QED
    BY <1>1, <2>2, LinesOver DEF IsLines
<1>3. IsLines([s EXCEPT ![Len(s)] = line], t)
  <2> DEFINE S == Range(s) \cup {line}
  <2>1. s \in Seq(S)
    BY <1>1, SeqMonotonic
  <2>2. /\ [s EXCEPT ![Len(s)] = line] \in Seq(S)
        /\ Len([s EXCEPT ![Len(s)] = line]) = Len(s)
        /\ \A j \in 1..Len(s) : [s EXCEPT ![Len(s)] = line][j] = IF j = Len(s) THEN line ELSE s[j]
    BY <1>1, <2>1, ExceptSeq
  <2> QED
    BY <1>1, <2>2, LinesOver DEF IsLines
<1> QED
  BY <1>2, <1>3

-----------------------------------------------------------------------------
(* Day files: their lines, but those of pull requests, are not of the future. *)

IsFiles(files, t) ==
    /\ files = [d \in Days |-> files[d]]
    /\ \A d \in Days : IsLines(files[d], t)

\* Time passing takes nothing from the files.
LEMMA FilesAge ==
    ASSUME NEW files, NEW t \in Nat, NEW u \in Nat, t <= u, IsFiles(files, t)
    PROVE  IsFiles(files, u)
<1> SUFFICES ASSUME NEW d \in Days, NEW i \in 1..Len(files[d])
             PROVE  files[d][i].batch \notin Pulls => files[d][i].ts <= u
  BY DEF IsFiles, IsLines, IsLine
<1> QED
  BY DEF IsFiles, IsLines, IsLine

LEMMA AppendOnlyItself == ASSUME NEW files, NEW t, IsFiles(files, t) PROVE AppendOnly(files, files)
<1>1. \A d \in Days : Len(files[d]) \in Nat
  BY LinesOver DEF IsFiles, IsLines
<1> QED
  BY <1>1 DEF AppendOnly

LEMMA AppendOnlyTransitive ==
    ASSUME NEW f, NEW g, NEW h, NEW t, IsFiles(f, t), IsFiles(g, t), IsFiles(h, t),
           AppendOnly(f, g), AppendOnly(g, h)
    PROVE  AppendOnly(f, h)
<1> SUFFICES ASSUME NEW d \in Days
             PROVE  /\ Len(h[d]) >= Len(f[d])
                    /\ \A i \in DOMAIN f[d] : h[d][i] = f[d][i]
  BY DEF AppendOnly
<1>1. /\ Len(f[d]) \in Nat /\ DOMAIN f[d] = 1..Len(f[d])
      /\ Len(g[d]) \in Nat /\ DOMAIN g[d] = 1..Len(g[d])
      /\ Len(h[d]) \in Nat
  BY LinesOver DEF IsFiles, IsLines
<1>2. DOMAIN f[d] \subseteq DOMAIN g[d]
  BY <1>1 DEF AppendOnly
<1> QED
  BY <1>1, <1>2 DEF AppendOnly

\* A file's times go back only from an entry of a pull request to one of the job.
FallsToJob(lines) ==
    \A i \in 2..Len(lines) : lines[i - 1].ts > lines[i].ts =>
        lines[i - 1].batch \in Pulls /\ lines[i].batch \in Batches

FallToJobs(files) == \A d \in Days : FallsToJob(files[d])

LEMMA OrderedFallsNowhere ==
    ASSUME NEW t, NEW lines, IsLines(lines, t), InOrder(lines)
    PROVE  FallsToJob(lines)
<1> SUFFICES ASSUME NEW i \in 2..Len(lines)
             PROVE  ~(lines[i - 1].ts > lines[i].ts)
  BY DEF FallsToJob
<1>1. Len(lines) \in Nat
  BY LinesOver DEF IsLines
<1>2. lines[i - 1].ts \in Nat /\ lines[i].ts \in Nat
  BY <1>1 DEF IsLines, IsLine
<1> QED
  BY <1>2 DEF InOrder

\* A line appended to a day file, or to none when the day has no file.  The job's
\* line, of now, comes behind lines of pull requests only.
LEMMA WithLineExtends ==
    ASSUME NEW files, NEW t \in Nat, IsFiles(files, t), NEW d, NEW line,
           IsLine(line, t)
    PROVE  /\ IsFiles(WithLine(files, d, line), t)
           /\ AppendOnly(files, WithLine(files, d, line))
           /\ line.ts = t /\ (line.batch \in Batches \/ files[d] = <<>>) /\ FallToJobs(files)
                => FallToJobs(WithLine(files, d, line))
<1> DEFINE w == WithLine(files, d, line)
<1>1. /\ w = [e \in Days |-> w[e]]
      /\ \A e \in Days : w[e] = IF e = d THEN Append(files[e], line) ELSE files[e]
  BY DEF IsFiles, WithLine
<1>2. ASSUME NEW e \in Days
      PROVE  /\ IsLines(w[e], t)
             /\ Len(w[e]) >= Len(files[e])
             /\ \A i \in DOMAIN files[e] : w[e][i] = files[e][i]
             /\ line.ts = t /\ (line.batch \in Batches \/ files[d] = <<>>) /\ FallsToJob(files[e])
                    => FallsToJob(w[e])
  <2>1. IsLines(files[e], t)
    BY DEF IsFiles
  <2>2. CASE e # d
    BY <1>1, <2>1, <2>2, LinesOver DEF IsLines
  <2>3. CASE e = d
    <3> DEFINE s == files[e]
    <3>1. /\ IsLines(Append(s, line), t)
          /\ Len(s) \in Nat /\ DOMAIN s = 1..Len(s)
          /\ Len(Append(s, line)) = Len(s) + 1
          /\ \A i \in 1..Len(s) : Append(s, line)[i] = s[i]
          /\ Append(s, line)[Len(s) + 1] = line
      BY <2>1, AppendIsLines
    <3>2. ASSUME line.ts = t, line.batch \in Batches \/ s = <<>>, FallsToJob(s)
          PROVE  FallsToJob(Append(s, line))
      <4> SUFFICES ASSUME NEW i \in 2..Len(s) + 1,
                          Append(s, line)[i - 1].ts > Append(s, line)[i].ts
                   PROVE  /\ Append(s, line)[i - 1].batch \in Pulls
                          /\ Append(s, line)[i].batch \in Batches
        BY <3>1 DEF FallsToJob
      <4>1. CASE i = Len(s) + 1
        <5>1. i - 1 = Len(s) /\ i - 1 \in 1..Len(s)
          BY <3>1, <4>1
        <5>2. IsLine(s[Len(s)], t)
          BY <2>1, <5>1 DEF IsLines
        <5>3. s[Len(s)].ts > t
          BY <3>1, <3>2, <4>1, <5>1
        <5>4. s[Len(s)].batch \in Pulls
          BY <5>2, <5>3 DEF IsLine
        <5>5. s # <<>>
          BY <5>1, EmptySeq
        <5> QED
          BY <3>1, <3>2, <4>1, <5>1, <5>4, <5>5
      <4>2. CASE i \in 2..Len(s)
        <5>1. Append(s, line)[i - 1] = s[i - 1] /\ Append(s, line)[i] = s[i]
          BY <3>1, <4>2
        <5> QED
          BY <3>2, <4>2, <5>1 DEF FallsToJob
      <4> QED
        BY <3>1, <4>1, <4>2
    <3>3. w[e] = Append(s, line) /\ Len(w[e]) >= Len(s)
      BY <1>1, <2>3, <3>1
    <3> QED
      BY <2>3, <3>1, <3>2, <3>3
  <2> QED
    BY <2>2, <2>3
<1> HIDE DEF w
<1> SUFFICES /\ IsFiles(w, t) /\ AppendOnly(files, w)
             /\ line.ts = t /\ (line.batch \in Batches \/ files[d] = <<>>) /\ FallToJobs(files)
                    => FallToJobs(w)
  BY DEF w
<1>3. IsFiles(w, t)
  BY <1>1, <1>2 DEF IsFiles
<1> QED
  BY <1>2, <1>3 DEF AppendOnly, FallToJobs

\* git's merge of what are day files gives day files.
LEMMA MergedIsFiles ==
    ASSUME NEW base, NEW ours, NEW theirs, NEW t, IsFiles(ours, t), IsFiles(theirs, t)
    PROVE  IsFiles(Merged(base, ours, theirs), t)
BY DEF IsFiles, Merged

-----------------------------------------------------------------------------
(* The entries, in order: files in the order of days, lines in file order.  *)

\* Days one after the other, up to one of them.
Joined(g, files, n) ==
    \A d \in 1..n : g[d] = IF d = 1 THEN files[d] ELSE g[d - 1] \o files[d]

LEMMA DaysFacts ==
    /\ LastDay \in Nat \ {0} /\ Days = 1..LastDay /\ 1 \in Days /\ LastDay \in Days
    /\ \A d \in Days : d \in Nat /\ (d # 1 => d - 1 \in Days)
<1>1. LastDay \in Nat /\ TicksPerDay \in Nat \ {0} /\ MaxTime \in Nat \ {0}
  BY DayAssumption, TimeAssumption
<1>2. Day(MaxTime) <= LastDay
  BY TimeAssumption
<1>3. Day(MaxTime) >= 1
  <2>1. MaxTime - 1 \in Nat
    BY <1>1
  <2>2. \A n \in Nat, k \in Nat \ {0} : n \div k \in Nat
    OBVIOUS
  <2> QED
    BY <1>1, <2>1, <2>2 DEF Day
<1>4. LastDay # 0
  <2>1. Day(MaxTime) \in Int
    <3>1. \A n \in Nat, k \in Nat \ {0} : (n - 1) \div k + 1 \in Int
      OBVIOUS
    <3> QED
      BY <1>1, <3>1 DEF Day
  <2> QED
    BY <1>1, <1>2, <1>3, <2>1
<1> QED
  BY <1>1, <1>4 DEF Days

LEMMA JoinedExists ==
    ASSUME NEW S, NEW files \in [Days -> Seq(S)]
    PROVE  \E g \in [Days -> Seq(S)] : Joined(g, files, LastDay)
<1> DEFINE P(n) == \E g \in [1..n -> Seq(S)] : Joined(g, files, n)
           B == {n \in Days : ~P(n)}
<1> USE DaysFacts
<1> SUFFICES ASSUME B # {} PROVE FALSE
  OBVIOUS
<1>1. PICK n \in B : \A k \in B : n <= k
  <2>1. B \in SUBSET Nat
    OBVIOUS
  <2> QED
    BY <2>1, LeastElement
<1>2. n \in Days /\ n \in Nat
  OBVIOUS
<1>3. CASE n = 1
  <2> DEFINE g == [d \in 1..1 |-> files[d]]
  <2>1. g \in [1..n -> Seq(S)] /\ Joined(g, files, n)
    BY <1>3 DEF Joined
  <2> QED
    BY <2>1
<1>4. CASE n # 1
  <2>1. n - 1 \in Days /\ n - 1 \notin B
    <3>1. n - 1 \in Days /\ ~(n <= n - 1)
      BY <1>2, <1>4
    <3> HIDE DEF B
    <3> QED
      BY <1>1, <3>1
  <2>2. PICK h \in [1..n - 1 -> Seq(S)] : Joined(h, files, n - 1)
    BY <2>1
  <2> DEFINE g == [d \in 1..n |-> IF d = n THEN h[n - 1] \o files[n] ELSE h[d]]
  <2>3. h[n - 1] \in Seq(S) /\ files[n] \in Seq(S)
    BY <1>2, <1>4
  <2>4. h[n - 1] \o files[n] \in Seq(S)
    BY <2>3, ConcatProperties
  <2>5. \A d \in 1..n : d = n \/ d \in 1..n - 1
    BY <1>2
  <2>6. g \in [1..n -> Seq(S)]
    BY <2>4, <2>5
  <2>7. ASSUME NEW d \in 1..n
        PROVE  g[d] = IF d = 1 THEN files[d] ELSE g[d - 1] \o files[d]
    <3>1. CASE d = n
      <4>1. n - 1 \in 1..n /\ n - 1 # n
        BY <1>2, <1>4
      <4> QED
        BY <1>2, <1>4, <3>1, <4>1
    <3>2. CASE d \in 1..n - 1
      <4>1. d \in Nat /\ d # n /\ d \in 1..n /\ (d # 1 => d - 1 \in 1..n /\ d - 1 # n)
        BY <1>2, <3>2
      <4>2. h[d] = IF d = 1 THEN files[d] ELSE h[d - 1] \o files[d]
        BY <2>2, <3>2 DEF Joined
      <4> QED
        BY <4>1, <4>2
    <3> QED
      BY <2>5, <3>1, <3>2
  <2> QED
    BY <2>6, <2>7 DEF Joined
<1> QED
  BY <1>3, <1>4

\* load_published_entries flattens the files into what joining them gives.
LEMMA EntriesAreJoined ==
    ASSUME NEW S, NEW files \in [Days -> Seq(S)]
    PROVE  \E g \in [Days -> Seq(S)] : Joined(g, files, LastDay) /\ EntriesOf(files) = g[LastDay]
<1> USE DaysFacts
<1>1. Len(files) = LastDay
  <2>1. files \in Seq(Seq(S))
    BY DEF Days
  <2> QED
    BY <2>1, LenProperties
<1> DEFINE Unfolds(f) == f = [i \in 1..Len(files) |->
                                IF i = 1 THEN files[i] ELSE f[i - 1] \o files[i]]
           g == CHOOSE f : Unfolds(f)
<1>2. PICK h \in [Days -> Seq(S)] : Joined(h, files, LastDay)
  BY JoinedExists
<1>3. Unfolds(h)
  BY <1>1, <1>2 DEF Joined
<1>4. Unfolds(g)
  BY <1>3
<1>5. EntriesOf(files) = g[LastDay]
  BY <1>1 DEF EntriesOf, FlattenSeq
<1> HIDE DEF g
<1>6. DOMAIN g = Days /\ Joined(g, files, LastDay)
  BY <1>1, <1>4 DEF Joined
<1>7. \A d \in Days : g[d] = h[d]
  <2> DEFINE B == {d \in Days : g[d] # h[d]}
  <2> SUFFICES ASSUME B # {} PROVE FALSE
    OBVIOUS
  <2>1. PICK n \in B : \A k \in B : n <= k
    <3>1. B \in SUBSET Nat
      OBVIOUS
    <3> QED
      BY <3>1, LeastElement
  <2>2. n # 1 => n - 1 \in Days /\ n - 1 \notin B
    BY <2>1
  <2>3. g[n] # h[n] /\ (n # 1 => g[n - 1] = h[n - 1])
    BY <2>1, <2>2
  <2>4. /\ g[n] = IF n = 1 THEN files[n] ELSE g[n - 1] \o files[n]
        /\ h[n] = IF n = 1 THEN files[n] ELSE h[n - 1] \o files[n]
    BY <1>2, <1>6, <2>1 DEF Joined
  <2> QED
    BY <2>3, <2>4
<1>8. g \in [Days -> Seq(S)]
  BY <1>4, <1>6, <1>7
<1> QED
  BY <1>5, <1>6, <1>8

\* A line is known by its day and its place in the file.
LinesIn(files) == {x \in Days \X Nat : x[2] \in DOMAIN files[x[1]]}
LineAt(files, x) == files[x[1]][x[2]]
Earlier(x, y) == x[1] < y[1] \/ (x[1] = y[1] /\ x[2] < y[2])

Indexes(idx, files) ==
    /\ idx \in [LinesIn(files) -> DOMAIN EntriesOf(files)]
    /\ \A x, y \in LinesIn(files) : Earlier(x, y) => idx[x] < idx[y]
    /\ \A x \in LinesIn(files) : EntriesOf(files)[idx[x]] = LineAt(files, x)
    /\ \A n \in DOMAIN EntriesOf(files) : \E x \in LinesIn(files) : idx[x] = n

\* Every line is one entry, in that order.
LEMMA EntriesIndexed ==
    ASSUME NEW S, NEW files \in [Days -> Seq(S)]
    PROVE  EntriesOf(files) \in Seq(S) /\ \E idx : Indexes(idx, files)
<1> USE DaysFacts
<1>1. PICK g \in [Days -> Seq(S)] : Joined(g, files, LastDay) /\ EntriesOf(files) = g[LastDay]
  BY EntriesAreJoined
<1> DEFINE off(d) == IF d = 1 THEN 0 ELSE Len(g[d - 1])
           idx == [x \in LinesIn(files) |-> off(x[1]) + x[2]]
<1>2. \A d \in Days : /\ Len(g[d]) \in Nat /\ DOMAIN g[d] = 1..Len(g[d])
                      /\ Len(files[d]) \in Nat /\ DOMAIN files[d] = 1..Len(files[d])
                      /\ off(d) \in Nat
  BY LenProperties
<1>3. ASSUME NEW d \in Days
      PROVE  /\ Len(g[d]) = off(d) + Len(files[d])
             /\ \A i \in 1..Len(files[d]) : g[d][off(d) + i] = files[d][i]
             /\ d # 1 => \A i \in 1..Len(g[d - 1]) : g[d][i] = g[d - 1][i]
  <2>1. CASE d = 1
    BY <1>1, <1>2, <2>1 DEF Joined
  <2>2. CASE d # 1
    <3>1. /\ g[d] = g[d - 1] \o files[d] /\ off(d) = Len(g[d - 1])
          /\ g[d - 1] \in Seq(S) /\ files[d] \in Seq(S)
      BY <1>1, <2>2 DEF Joined
    <3> DEFINE u == g[d - 1]
               v == files[d]
    <3>2. u \in Seq(S) /\ v \in Seq(S)
      BY <3>1
    <3> HIDE DEF u, v
    <3>3. /\ Len(u \o v) = Len(u) + Len(v)
          /\ \A i \in 1..Len(u) : (u \o v)[i] = u[i]
          /\ \A i \in 1..Len(v) : (u \o v)[Len(u) + i] = v[i]
      BY <3>2, ConcatProperties
    <3>4. g[d] = u \o v /\ off(d) = Len(u) /\ v = files[d] /\ u = g[d - 1]
      BY <3>1 DEF u, v
    <3> HIDE DEF off
    <3> QED
      BY <3>3, <3>4
  <2> QED
    BY <2>1, <2>2
<1> HIDE DEF off
<1>4. ASSUME NEW d \in Days, NEW e \in Days, d <= e
      PROVE  Len(g[d]) <= Len(g[e]) /\ \A i \in 1..Len(g[d]) : g[e][i] = g[d][i]
  <2> DEFINE Later(n) == Len(g[d]) <= Len(g[n]) /\ \A i \in 1..Len(g[d]) : g[n][i] = g[d][i]
             B == {n \in Days : d <= n /\ ~Later(n)}
  <2> SUFFICES ASSUME B # {} PROVE FALSE
    BY <1>4
  <2>1. PICK n \in B : \A k \in B : n <= k
    <3>1. B \in SUBSET Nat
      OBVIOUS
    <3> QED
      BY <3>1, LeastElement
  <2>2. n # d
    BY <1>2, <2>1
  <2>3. n - 1 \in Days /\ d <= n - 1 /\ n # 1
    BY <2>1, <2>2
  <2>4. n - 1 \notin B
    BY <2>1, <2>3
  <2>5. Later(n - 1)
    BY <2>3, <2>4
  <2>6. /\ Len(g[n]) = Len(g[n - 1]) + Len(files[n])
        /\ \A i \in 1..Len(g[n - 1]) : g[n][i] = g[n - 1][i]
    BY <1>3, <2>1, <2>3 DEF off
  <2>7. /\ Len(g[d]) \in Nat /\ Len(g[n - 1]) \in Nat /\ Len(files[n]) \in Nat
        /\ \A i \in 1..Len(g[d]) : i \in 1..Len(g[n - 1])
    <3>1. /\ Len(g[d]) \in Nat /\ Len(g[n - 1]) \in Nat /\ Len(files[n]) \in Nat
          /\ Len(g[d]) <= Len(g[n - 1])
      BY <1>2, <2>1, <2>3, <2>5
    <3> QED
      BY <3>1
  <2>8. Later(n)
    <3>1. Len(g[d]) <= Len(g[n])
      BY <2>5, <2>6, <2>7
    <3> QED
      BY <2>5, <2>6, <2>7, <3>1
  <2> QED
    BY <2>1, <2>8
<1>5. EntriesOf(files) \in Seq(S) /\ DOMAIN EntriesOf(files) = 1..Len(g[LastDay])
  BY <1>1, <1>2
<1>6. ASSUME NEW x \in LinesIn(files)
      PROVE  /\ idx[x] \in DOMAIN EntriesOf(files)
             /\ EntriesOf(files)[idx[x]] = LineAt(files, x)
             /\ idx[x] \in Nat /\ idx[x] <= Len(g[x[1]]) /\ off(x[1]) < idx[x]
  <2>1. x[1] \in Days /\ x[2] \in 1..Len(files[x[1]]) /\ idx[x] = off(x[1]) + x[2]
    BY <1>2 DEF LinesIn
  <2>2. /\ idx[x] \in 1..Len(g[x[1]]) /\ off(x[1]) < idx[x]
        /\ g[x[1]][idx[x]] = files[x[1]][x[2]]
    <3> DEFINE d == x[1]
               i == x[2]
    <3>1. /\ Len(g[d]) = off(d) + Len(files[d]) /\ off(d) \in Nat /\ Len(files[d]) \in Nat
          /\ g[d][off(d) + i] = files[d][i] /\ i \in 1..Len(files[d])
      BY <1>2, <1>3, <2>1
    <3>2. idx[x] = off(d) + i
      BY <2>1
    <3> HIDE DEF idx, d, i
    <3>3. \A o, l, k \in Nat : 1 <= k /\ k <= l => o + k \in 1..o + l /\ o < o + k
      OBVIOUS
    <3>4. off(d) + i \in 1..Len(g[d]) /\ off(d) < off(d) + i
      <4>1. i \in Nat /\ 1 <= i /\ i <= Len(files[d])
        BY <3>1
      <4>2. off(d) \in Nat /\ Len(files[d]) \in Nat
        BY <3>1
      <4>3. off(d) + i \in 1..off(d) + Len(files[d]) /\ off(d) < off(d) + i
        BY <3>3, <4>1, <4>2
      <4>4. Len(g[d]) = off(d) + Len(files[d])
        BY <3>1
      <4> QED
        BY <4>3, <4>4
    <3>5. idx[x] \in 1..Len(g[d]) /\ off(d) < idx[x] /\ g[d][idx[x]] = files[d][i]
      BY <3>1, <3>2, <3>4
    <3> QED
      BY <3>5 DEF d, i
  <2>3. x[1] <= LastDay
    BY <2>1
  <2>4. Len(g[x[1]]) <= Len(g[LastDay]) /\ g[LastDay][idx[x]] = g[x[1]][idx[x]]
    BY <1>4, <2>1, <2>2, <2>3
  <2>5. idx[x] \in 1..Len(g[LastDay])
    BY <1>2, <2>1, <2>2, <2>4
  <2> HIDE DEF idx
  <2> QED
    BY <1>1, <1>2, <1>5, <2>1, <2>2, <2>4, <2>5 DEF LineAt
<1>7. ASSUME NEW x \in LinesIn(files), NEW y \in LinesIn(files), Earlier(x, y)
      PROVE  idx[x] < idx[y]
  <2>1. x[1] \in Days /\ y[1] \in Days /\ x[2] \in Nat /\ y[2] \in Nat
    BY DEF LinesIn
  <2>2. CASE x[1] = y[1]
    <3>1. idx[x] = off(x[1]) + x[2] /\ idx[y] = off(x[1]) + y[2] /\ off(x[1]) \in Nat
      BY <1>2, <2>1, <2>2
    <3> HIDE DEF idx
    <3> QED
      BY <1>7, <2>1, <2>2, <3>1 DEF Earlier
  <2>3. CASE x[1] < y[1]
    <3>1. y[1] # 1 /\ y[1] - 1 \in Days /\ x[1] <= y[1] - 1
      <4>1. \A m, n \in 1..LastDay : m < n => n # 1 /\ n - 1 \in 1..LastDay /\ m <= n - 1
        OBVIOUS
      <4>2. x[1] \in 1..LastDay /\ y[1] \in 1..LastDay
        BY <2>1
      <4> QED
        BY <2>3, <4>1, <4>2
    <3>2. Len(g[x[1]]) <= Len(g[y[1] - 1]) /\ off(y[1]) = Len(g[y[1] - 1])
      BY <1>4, <2>1, <3>1 DEF off
    <3>3. idx[x] <= Len(g[x[1]]) /\ off(y[1]) < idx[y] /\ idx[x] \in Nat /\ idx[y] \in Nat
      BY <1>6
    <3>4. Len(g[x[1]]) \in Nat /\ Len(g[y[1] - 1]) \in Nat
      BY <1>2, <2>1, <3>1
    <3>5. \A a, b, c, i, j \in Nat : i <= a /\ a <= b /\ c = b /\ c < j => i < j
      OBVIOUS
    <3> HIDE DEF idx
    <3> QED
      BY <3>2, <3>3, <3>4, <3>5
  <2> QED
    BY <1>7, <2>2, <2>3 DEF Earlier
<1>8. ASSUME NEW n \in DOMAIN EntriesOf(files)
      PROVE  \E x \in LinesIn(files) : idx[x] = n
  <2> DEFINE B == {d \in Days : n <= Len(g[d])}
  <2>1. n \in 1..Len(g[LastDay]) /\ LastDay \in B
    BY <1>2, <1>5
  <2>2. PICK d \in B : \A k \in B : d <= k
    <3>1. B \in SUBSET Nat
      OBVIOUS
    <3> QED
      BY <2>1, <3>1, LeastElement
  <2>3. d \in Days /\ n <= Len(g[d]) /\ n \in Nat
    BY <1>2, <2>1, <2>2
  <2>4. off(d) < n
    <3>1. CASE d = 1
      BY <1>2, <2>1, <3>1 DEF off
    <3>2. CASE d # 1
      <4>1. d - 1 \in Days /\ d - 1 \notin B
        BY <2>2, <2>3, <3>2
      <4>2. ~(n <= Len(g[d - 1])) /\ Len(g[d - 1]) \in Nat
        BY <1>2, <4>1
      <4> QED
        BY <2>3, <3>2, <4>2 DEF off
    <3> QED
      BY <3>1, <3>2
  <2> DEFINE x == <<d, n - off(d)>>
  <2>5. n - off(d) \in 1..Len(files[d])
    <3>1. /\ Len(g[d]) = off(d) + Len(files[d]) /\ off(d) \in Nat /\ Len(files[d]) \in Nat
          /\ n <= Len(g[d]) /\ n \in Nat /\ off(d) < n
      BY <1>2, <1>3, <2>3, <2>4
    <3>2. \A m, o, l \in Nat : o < m /\ m <= o + l => m - o \in 1..l
      OBVIOUS
    <3> QED
      BY <3>1, <3>2
  <2>6. x \in LinesIn(files) /\ off(d) + (n - off(d)) = n
    BY <1>2, <2>3, <2>5 DEF LinesIn
  <2> QED
    BY <2>6
<1> HIDE DEF idx
<1>9. Indexes(idx, files)
  <2>1. idx \in [LinesIn(files) -> DOMAIN EntriesOf(files)]
    BY <1>6 DEF idx
  <2> QED
    BY <1>6, <1>7, <1>8, <2>1 DEF Indexes
<1> QED
  BY <1>5, <1>9

\* The place of each line among the entries.
Index(files) == CHOOSE idx : Indexes(idx, files)

\* The entries of f are among those of h, in order, and where its lines are.
EntriesKept(e, f, h) ==
    /\ Embeds(e, EntriesOf(f), EntriesOf(h))
    /\ \A x \in LinesIn(f) : x \in LinesIn(h) /\ e[Index(f)[x]] = Index(h)[x]

\* Files that only grow keep their entries, in order.
LEMMA GrownFilesEmbed ==
    ASSUME NEW S, NEW f \in [Days -> Seq(S)], NEW h \in [Days -> Seq(S)], AppendOnly(f, h)
    PROVE  \E e : EntriesKept(e, f, h)
<1> DEFINE idx == Index(f)
           jdx == Index(h)
<1>0. Indexes(idx, f) /\ Indexes(jdx, h)
  BY EntriesIndexed DEF Index
<1> HIDE DEF idx, jdx
<1> DEFINE at(n) == CHOOSE x \in LinesIn(f) : idx[x] = n
           e == [n \in DOMAIN EntriesOf(f) |-> jdx[at(n)]]
<1>1. \A x \in LinesIn(f) : x \in LinesIn(h) /\ LineAt(h, x) = LineAt(f, x)
  <2> SUFFICES ASSUME NEW x \in LinesIn(f) PROVE x \in LinesIn(h) /\ LineAt(h, x) = LineAt(f, x)
    OBVIOUS
  <2>1. x \in Days \X Nat /\ x[1] \in Days /\ x[2] \in DOMAIN f[x[1]]
    BY DEF LinesIn
  <2>2. /\ Len(f[x[1]]) \in Nat /\ DOMAIN f[x[1]] = 1..Len(f[x[1]])
        /\ Len(h[x[1]]) \in Nat /\ DOMAIN h[x[1]] = 1..Len(h[x[1]])
    BY <2>1, LenProperties
  <2>3. Len(h[x[1]]) >= Len(f[x[1]]) /\ h[x[1]][x[2]] = f[x[1]][x[2]]
    BY <2>1 DEF AppendOnly
  <2>4. x[2] \in DOMAIN h[x[1]]
    BY <2>1, <2>2, <2>3
  <2> QED
    BY <2>1, <2>3, <2>4 DEF LinesIn, LineAt
<1>2. \A x, y \in LinesIn(f) : Earlier(x, y) \/ x = y \/ Earlier(y, x)
  <2> SUFFICES ASSUME NEW x \in LinesIn(f), NEW y \in LinesIn(f)
               PROVE  Earlier(x, y) \/ x = y \/ Earlier(y, x)
    OBVIOUS
  <2>1. x[1] \in Nat /\ y[1] \in Nat /\ x[2] \in Nat /\ y[2] \in Nat
        /\ x = <<x[1], x[2]>> /\ y = <<y[1], y[2]>>
    BY DaysFacts DEF LinesIn
  <2> QED
    BY <2>1 DEF Earlier
<1>3. \A n \in DOMAIN EntriesOf(f) : at(n) \in LinesIn(f) /\ idx[at(n)] = n
  BY <1>0 DEF Indexes
<1>4. ASSUME NEW x \in LinesIn(f) PROVE idx[x] \in DOMAIN EntriesOf(f) /\ at(idx[x]) = x
  <2>1. idx[x] \in DOMAIN EntriesOf(f) /\ at(idx[x]) \in LinesIn(f) /\ idx[at(idx[x])] = idx[x]
    BY <1>0, <1>3 DEF Indexes
  <2>2. \A y \in LinesIn(f) : idx[y] = idx[x] => y = x
    <3>1. \A y \in LinesIn(f) : idx[y] \in Nat
      <4>1. DOMAIN EntriesOf(f) \subseteq Nat
        BY EntriesIndexed, LenProperties
      <4> QED
        BY <1>0, <4>1 DEF Indexes
    <3> QED
      BY <1>0, <1>2, <3>1 DEF Indexes
  <2> QED
    BY <2>1, <2>2
<1> HIDE DEF at
<1>5. e \in [DOMAIN EntriesOf(f) -> DOMAIN EntriesOf(h)]
  BY <1>0, <1>1, <1>3 DEF Indexes
<1>6. ASSUME NEW i \in DOMAIN EntriesOf(f), NEW j \in DOMAIN EntriesOf(f), i < j PROVE e[i] < e[j]
  <2>1. i \in Nat /\ j \in Nat
    BY EntriesIndexed, LenProperties
  <2>2. ~Earlier(at(j), at(i)) /\ at(i) # at(j)
    BY <1>0, <1>3, <1>6, <2>1 DEF Indexes
  <2>3. Earlier(at(i), at(j))
    BY <1>2, <1>3, <2>2
  <2> QED
    BY <1>0, <1>1, <1>3, <2>3 DEF Indexes
<1>7. \A i \in DOMAIN EntriesOf(f) : EntriesOf(h)[e[i]] = EntriesOf(f)[i]
  <2> SUFFICES ASSUME NEW i \in DOMAIN EntriesOf(f) PROVE EntriesOf(h)[e[i]] = EntriesOf(f)[i]
    OBVIOUS
  <2>1. EntriesOf(h)[jdx[at(i)]] = LineAt(h, at(i)) /\ LineAt(h, at(i)) = LineAt(f, at(i))
    BY <1>0, <1>1, <1>3 DEF Indexes
  <2>2. EntriesOf(f)[idx[at(i)]] = LineAt(f, at(i)) /\ idx[at(i)] = i
    BY <1>0, <1>3 DEF Indexes
  <2> QED
    BY <2>1, <2>2
<1>8. \A x \in LinesIn(f) : e[idx[x]] = jdx[x]
  BY <1>4
<1> HIDE DEF e
<1> QED
  BY <1>1, <1>5, <1>6, <1>7, <1>8 DEF EntriesKept, Embeds, idx, jdx

-----------------------------------------------------------------------------
(* The chain of the files: their checkpointed lines in replay order.        *)

FileChain(files) == ChainOf(EntriesOf(files))

\* Where the line at x comes among the checkpointed lines.
PlaceInChain(files, x) == Rank(ChainedIn(EntriesOf(files)), Index(files)[x])
ChainLines(files) == {x \in LinesIn(files) : Chained(LineAt(files, x))}

\* Lines of three states of the files are elements of one set.
LEMMA FilesTyped ==
    ASSUME NEW t, NEW f, NEW g, NEW h, IsFiles(f, t), IsFiles(g, t), IsFiles(h, t)
    PROVE  \E S : f \in [Days -> Seq(S)] /\ g \in [Days -> Seq(S)] /\ h \in [Days -> Seq(S)]
<1> DEFINE S == UNION {Range(f[d]) \cup Range(g[d]) \cup Range(h[d]) : d \in Days}
<1>1. ASSUME NEW d \in Days PROVE f[d] \in Seq(S) /\ g[d] \in Seq(S) /\ h[d] \in Seq(S)
  <2>1. /\ f[d] \in Seq(Range(f[d])) /\ g[d] \in Seq(Range(g[d])) /\ h[d] \in Seq(Range(h[d]))
    BY DEF IsFiles, IsLines
  <2>2. Range(f[d]) \subseteq S /\ Range(g[d]) \subseteq S /\ Range(h[d]) \subseteq S
    OBVIOUS
  <2> HIDE DEF S
  <2> QED
    BY <2>1, <2>2, SeqMonotonic
<1> HIDE DEF S
<1>2. f \in [Days -> Seq(S)] /\ g \in [Days -> Seq(S)] /\ h \in [Days -> Seq(S)]
  BY <1>1 DEF IsFiles
<1> QED
  BY <1>2

\* Every checkpointed line has its place in the chain, and every place a line.
LEMMA ChainPlaces ==
    ASSUME NEW S, NEW files \in [Days -> Seq(S)]
    PROVE  /\ EntriesOf(files) \in Seq(S) /\ FileChain(files) \in Seq(S)
           /\ Indexes(Index(files), files)
           /\ \A x \in ChainLines(files) :
                 /\ Index(files)[x] \in ChainedIn(EntriesOf(files))
                 /\ PlaceInChain(files, x) \in DOMAIN FileChain(files)
                 /\ FileChain(files)[PlaceInChain(files, x)] = LineAt(files, x)
           /\ \A n \in DOMAIN FileChain(files) :
                 \E x \in ChainLines(files) : PlaceInChain(files, x) = n
<1> DEFINE E == EntriesOf(files)
           I == ChainedIn(E)
<1>1. E \in Seq(S) /\ Indexes(Index(files), files)
  BY EntriesIndexed DEF Index
<1>2. ASSUME NEW x \in ChainLines(files) PROVE Index(files)[x] \in I
  BY <1>1 DEF ChainLines, Indexes, ChainedIn
<1>3. /\ ChainOf(E) \in Seq(S)
      /\ \A k \in DOMAIN ChainOf(E) : Nth(I, k) \in I /\ Rank(I, Nth(I, k)) = k
      /\ \A i \in I : Rank(I, i) \in DOMAIN ChainOf(E) /\ ChainOf(E)[Rank(I, i)] = E[i]
  BY <1>1, ChainElementsAt
<1>4. ASSUME NEW x \in ChainLines(files)
      PROVE  /\ PlaceInChain(files, x) \in DOMAIN FileChain(files)
             /\ FileChain(files)[PlaceInChain(files, x)] = LineAt(files, x)
  <2>1. E[Index(files)[x]] = LineAt(files, x)
    BY <1>1 DEF ChainLines, Indexes
  <2> HIDE DEF I
  <2>2. PlaceInChain(files, x) = Rank(I, Index(files)[x]) /\ FileChain(files) = ChainOf(E)
    BY DEF PlaceInChain, FileChain, I
  <2> QED
    BY <1>2, <1>3, <2>1, <2>2
<1>5. ASSUME NEW n \in DOMAIN FileChain(files)
      PROVE  \E x \in ChainLines(files) : PlaceInChain(files, x) = n
  <2> DEFINE i == Nth(I, n)
  <2>1. i \in I /\ Rank(I, i) = n
    BY <1>3 DEF FileChain
  <2> HIDE DEF i
  <2>2. i \in DOMAIN E /\ Chained(E[i])
    BY <2>1 DEF ChainedIn
  <2>3. PICK x \in LinesIn(files) : Index(files)[x] = i
    BY <1>1, <2>2 DEF Indexes
  <2>4. x \in ChainLines(files)
    BY <1>1, <2>2, <2>3 DEF Indexes, ChainLines
  <2> QED
    BY <2>1, <2>3, <2>4 DEF PlaceInChain
<1> QED
  BY <1>1, <1>2, <1>3, <1>4, <1>5 DEF FileChain

\* What holds of every line holds of every link; and the verdict is on the chain.
LEMMA ChainOfFiles ==
    ASSUME NEW t, NEW files, IsFiles(files, t)
    PROVE  /\ ChainHolds(files) <=> Sound(FileChain(files))
           /\ \A k \in DOMAIN FileChain(files) : FirstNamesNone(FileChain(files)[k].cp)
           /\ ~(ChainHolds(files) /\ Forked(FileChain(files)))
<1>1. PICK S : files \in [Days -> Seq(S)]
  BY FilesTyped
<1>2. /\ EntriesOf(files) \in Seq(S) /\ FileChain(files) \in Seq(S)
      /\ \A x \in ChainLines(files) : FileChain(files)[PlaceInChain(files, x)] = LineAt(files, x)
      /\ \A n \in DOMAIN FileChain(files) : \E x \in ChainLines(files) : PlaceInChain(files, x) = n
  BY <1>1, ChainPlaces
<1>3. ChainHolds(files) <=> Sound(FileChain(files))
  BY <1>2, VerifiedIsSound DEF ChainHolds, FileChain
<1>4. \A x \in ChainLines(files) : FirstNamesNone(LineAt(files, x).cp)
  <2> SUFFICES ASSUME NEW x \in ChainLines(files) PROVE FirstNamesNone(LineAt(files, x).cp)
    OBVIOUS
  <2>1. x[1] \in Days /\ x[2] \in DOMAIN files[x[1]]
    BY DEF ChainLines, LinesIn
  <2>2. DOMAIN files[x[1]] = 1..Len(files[x[1]]) /\ IsLines(files[x[1]], t)
    BY <1>1, <2>1, LenProperties DEF IsFiles
  <2> QED
    BY <2>1, <2>2 DEF IsLines, IsLine, LineAt
<1>5. \A k \in DOMAIN FileChain(files) : FirstNamesNone(FileChain(files)[k].cp)
  <2> SUFFICES ASSUME NEW k \in DOMAIN FileChain(files)
               PROVE  FirstNamesNone(FileChain(files)[k].cp)
    OBVIOUS
  <2>1. PICK x \in ChainLines(files) : PlaceInChain(files, x) = k
    BY <1>2
  <2> QED
    BY <1>2, <1>4, <2>1
<1>6. Sound(FileChain(files)) => ~Forked(FileChain(files))
  BY <1>2, <1>5, SoundIsNotForked
<1> QED
  BY <1>3, <1>5, <1>6

\* The chain of files that only grew is embedded in what it grew to.
LEMMA GrownChainEmbeds ==
    ASSUME NEW S, NEW f \in [Days -> Seq(S)], NEW h \in [Days -> Seq(S)], AppendOnly(f, h)
    PROVE  \E g : /\ Embeds(g, FileChain(f), FileChain(h))
                  /\ \A x \in ChainLines(f) : x \in ChainLines(h)
                                              /\ g[PlaceInChain(f, x)] = PlaceInChain(h, x)
<1>1. /\ EntriesOf(f) \in Seq(S) /\ Indexes(Index(f), f)
      /\ \A x \in ChainLines(f) : Index(f)[x] \in ChainedIn(EntriesOf(f))
  BY ChainPlaces
<1>2. EntriesOf(h) \in Seq(S) /\ Indexes(Index(h), h)
  BY ChainPlaces
<1>3. PICK e : EntriesKept(e, f, h)
  BY GrownFilesEmbed
<1>4. PICK g : /\ Embeds(g, ChainOf(EntriesOf(f)), ChainOf(EntriesOf(h)))
               /\ \A i \in ChainedIn(EntriesOf(f)) :
                     /\ e[i] \in ChainedIn(EntriesOf(h))
                     /\ g[Rank(ChainedIn(EntriesOf(f)), i)] = Rank(ChainedIn(EntriesOf(h)), e[i])
  BY <1>1, <1>2, <1>3, ChainsEmbed DEF EntriesKept
<1>5. ASSUME NEW x \in ChainLines(f)
      PROVE  x \in ChainLines(h) /\ g[PlaceInChain(f, x)] = PlaceInChain(h, x)
  <2>1. /\ x \in LinesIn(f) /\ x \in LinesIn(h) /\ e[Index(f)[x]] = Index(h)[x]
        /\ Index(f)[x] \in ChainedIn(EntriesOf(f))
    BY <1>1, <1>3 DEF ChainLines, EntriesKept
  <2>2. Index(h)[x] \in ChainedIn(EntriesOf(h))
        /\ g[PlaceInChain(f, x)] = PlaceInChain(h, x)
    BY <1>4, <2>1 DEF PlaceInChain
  <2>3. Chained(LineAt(h, x))
    BY <1>2, <2>1, <2>2 DEF Indexes, ChainedIn
  <2> QED
    BY <2>1, <2>2, <2>3 DEF ChainLines
<1> QED
  BY <1>4, <1>5 DEF FileChain

\* Entries are only added: what was forked stays forked.
LEMMA ForkedStaysForked ==
    ASSUME NEW t, NEW f, NEW h, IsFiles(f, t), IsFiles(h, t), AppendOnly(f, h), Forked(FileChain(f))
    PROVE  Forked(FileChain(h))
<1>1. PICK S : f \in [Days -> Seq(S)] /\ h \in [Days -> Seq(S)]
  BY FilesTyped
<1>2. FileChain(f) \in Seq(S)
  BY <1>1, ChainPlaces
<1>3. FileChain(h) \in Seq(S)
  BY <1>1, ChainPlaces
<1>4. PICK g : Embeds(g, FileChain(f), FileChain(h))
  BY <1>1, GrownChainEmbeds
<1> QED
  BY <1>2, <1>3, <1>4, ForkEmbeds

\* Files put together from two states whose chains hold, day by day, have a
\* chain that holds or is forked.
LEMMA UnionHoldsOrForks ==
    ASSUME NEW t, NEW f, NEW g, NEW h, IsFiles(f, t), IsFiles(g, t), IsFiles(h, t),
           AppendOnly(f, h), AppendOnly(g, h), \A d \in Days : h[d] = f[d] \/ h[d] = g[d],
           ChainHolds(f), ChainHolds(g)
    PROVE  ChainHolds(h) \/ Forked(FileChain(h))
<1>1. PICK S : f \in [Days -> Seq(S)] /\ g \in [Days -> Seq(S)] /\ h \in [Days -> Seq(S)]
  BY FilesTyped
<1>2. FileChain(f) \in Seq(S)
      /\ \A x \in ChainLines(f) : PlaceInChain(f, x) \in DOMAIN FileChain(f)
  BY <1>1, ChainPlaces
<1>3. FileChain(g) \in Seq(S)
      /\ \A x \in ChainLines(g) : PlaceInChain(g, x) \in DOMAIN FileChain(g)
  BY <1>1, ChainPlaces
<1>4. FileChain(h) \in Seq(S)
      /\ \A n \in DOMAIN FileChain(h) : \E x \in ChainLines(h) : PlaceInChain(h, x) = n
  BY <1>1, ChainPlaces
<1>5. PICK u : /\ Embeds(u, FileChain(f), FileChain(h))
               /\ \A x \in ChainLines(f) : x \in ChainLines(h)
                                           /\ u[PlaceInChain(f, x)] = PlaceInChain(h, x)
  BY <1>1, GrownChainEmbeds
<1>6. PICK v : /\ Embeds(v, FileChain(g), FileChain(h))
               /\ \A x \in ChainLines(g) : x \in ChainLines(h)
                                           /\ v[PlaceInChain(g, x)] = PlaceInChain(h, x)
  BY <1>1, GrownChainEmbeds
<1>7. ASSUME NEW n \in DOMAIN FileChain(h)
      PROVE  \/ \E k \in DOMAIN FileChain(f) : u[k] = n
             \/ \E k \in DOMAIN FileChain(g) : v[k] = n
  <2>1. PICK x \in ChainLines(h) : PlaceInChain(h, x) = n
    BY <1>4
  <2>2. x \in ChainLines(f) \/ x \in ChainLines(g)
    BY DEF ChainLines, LinesIn, LineAt
  <2> QED
    BY <1>2, <1>3, <1>5, <1>6, <2>1, <2>2
<1>8. Sound(FileChain(f)) /\ Sound(FileChain(g))
  BY ChainOfFiles
<1>9. \A k \in DOMAIN FileChain(h) : FirstNamesNone(FileChain(h)[k].cp)
  BY ChainOfFiles
<1>10. Sound(FileChain(h)) \/ Forked(FileChain(h))
  <2> DEFINE a == FileChain(f)
             b == FileChain(g)
             c == FileChain(h)
  <2>1. a \in Seq(S) /\ b \in Seq(S) /\ c \in Seq(S)
    BY <1>2, <1>3, <1>4
  <2>2. Embeds(u, a, c) /\ Embeds(v, b, c) /\ Sound(a) /\ Sound(b)
    BY <1>5, <1>6, <1>8
  <2>3. \A n \in DOMAIN c : (\E k \in DOMAIN a : u[k] = n) \/ (\E k \in DOMAIN b : v[k] = n)
    BY <1>7
  <2>4. \A k \in DOMAIN c : FirstNamesNone(c[k].cp)
    BY <1>9
  <2> HIDE DEF a, b, c
  <2>5. Sound(c) \/ Forked(c)
    BY <2>1, <2>2, <2>3, <2>4, UnionSoundOrForked, SMTT(60)
  <2> QED
    BY <2>5 DEF c
<1> QED
  BY <1>10, ChainOfFiles

\* Every checkpointed line came with a state of the files whose chain held.
Grounded(files, t) ==
    \A x \in ChainLines(files) :
        \E past : /\ IsFiles(past, t) /\ AppendOnly(past, files)
                  /\ ChainHolds(past) /\ x \in ChainLines(past)

\* A grounded chain that ends at as many leaves as it has links is the chain of
\* the state its last line came with.
LEMMA GroundedResumes ==
    ASSUME NEW t, NEW files, IsFiles(files, t), Grounded(files, t),
           FileChain(files) # <<>>, Resumable(files)
    PROVE  ChainHolds(files)
<1> DEFINE E == EntriesOf(files)
           I == ChainedIn(E)
           last == LastChained(E)
<1>1. PICK S0 : files \in [Days -> Seq(S0)]
  BY FilesTyped
<1>2. /\ E \in Seq(S0) /\ FileChain(files) \in Seq(S0) /\ Indexes(Index(files), files)
      /\ \A n \in DOMAIN FileChain(files) : \E x \in ChainLines(files) : PlaceInChain(files, x) = n
      /\ \A x \in ChainLines(files) : FileChain(files)[PlaceInChain(files, x)] = LineAt(files, x)
  BY <1>1, ChainPlaces
<1>3. /\ Len(FileChain(files)) \in Nat \ {0}
      /\ DOMAIN FileChain(files) = 1..Len(FileChain(files))
  BY <1>2, EmptySeq, LenProperties
<1>4. /\ \A k \in DOMAIN FileChain(files) :
            Nth(I, k) \in I /\ FileChain(files)[k] = E[Nth(I, k)] /\ Rank(I, Nth(I, k)) = k
      /\ \A i \in I : Rank(I, i) \in DOMAIN FileChain(files) /\ FileChain(files)[Rank(I, i)] = E[i]
      /\ LeavesOf(E) = [k \in DOMAIN FileChain(files) |-> LeafOf(FileChain(files)[k])]
  BY <1>2, ChainElementsAt DEF FileChain
<1>5. /\ last \in I /\ \A j \in I : j <= last
      /\ LastCheckpoint(E) = E[last].cp
  <2>1. Nth(I, 1) \in I
    BY <1>3, <1>4
  <2>2. \E k \in DOMAIN E : Chained(E[k])
    BY <2>1 DEF ChainedIn
  <2>3. /\ last \in DOMAIN E /\ Chained(E[last])
        /\ \A j \in DOMAIN E : Chained(E[j]) => j <= last
    BY <1>2, <2>2, LastChainedIsLast
  <2> HIDE DEF last, E
  <2> QED
    BY <2>2, <2>3 DEF ChainedIn, LastCheckpoint, last
<1>6. Rank(I, last) = Len(FileChain(files))
  <2> DEFINE n == Len(FileChain(files))
             i == Nth(I, n)
  <2>1. i \in I /\ Rank(I, i) = n
    BY <1>3, <1>4
  <2>2. I \in SUBSET Nat /\ IsFiniteSet(I)
    BY <1>2, ChainedFinite
  <2>3. last \in I /\ i <= last /\ last \in Nat /\ i \in Nat
    BY <1>5, <2>1, <2>2
  <2>4. Rank(I, last) \in 1..n
    BY <1>3, <1>4, <1>5
  <2> HIDE DEF i, last, I
  <2>5. i < last => Rank(I, i) < Rank(I, last)
    BY <2>1, <2>2, <2>3, RankGrows
  <2>6. n \in Nat
    BY <1>3
  <2> HIDE DEF n
  <2> SUFFICES Rank(I, last) = n
    BY DEF n
  <2>7. CASE i = last
    BY <2>1, <2>7
  <2>8. CASE i < last
    BY <2>1, <2>4, <2>5, <2>6, <2>8
  <2> QED
    BY <2>3, <2>7, <2>8
<1>7. Len(FileChain(files)[Len(FileChain(files))].cp.leaves) = Len(FileChain(files))
  <2>1. E[last].cp # NoCheckpoint
    <3>1. Chained(E[last])
      BY <1>5 DEF ChainedIn
    <3> HIDE DEF last, E
    <3> QED
      BY <3>1 DEF Chained, NoCheckpoint
  <2>2. E[last].cp.leaves = LeavesOf(E)
    BY <1>5, <2>1 DEF Resumable, CanResume
  <2>3. Len(LeavesOf(E)) = Len(FileChain(files))
    <3> DEFINE n == Len(FileChain(files))
    <3>1. LeavesOf(E) = [k \in 1..n |-> LeafOf(FileChain(files)[k])] /\ n \in Nat
      BY <1>3, <1>4
    <3> HIDE DEF n, E
    <3>2. LeavesOf(E) \in Seq({LeafOf(FileChain(files)[k]) : k \in 1..n}) /\ DOMAIN LeavesOf(E) = 1..n
      BY <3>1, IsASeq
    <3>3. Len(LeavesOf(E)) = n
      BY <3>1, <3>2, LenProperties
    <3> QED
      BY <3>3 DEF n
  <2>4. FileChain(files)[Len(FileChain(files))] = E[last]
    BY <1>4, <1>5, <1>6
  <2> QED
    BY <2>2, <2>3, <2>4
<1>8. PICK x \in ChainLines(files) : PlaceInChain(files, x) = Len(FileChain(files))
  BY <1>2, <1>3
<1>9. PICK past : /\ IsFiles(past, t) /\ AppendOnly(past, files)
                  /\ ChainHolds(past) /\ x \in ChainLines(past)
  BY DEF Grounded
<1>10. PICK S : files \in [Days -> Seq(S)] /\ past \in [Days -> Seq(S)]
  BY <1>9, FilesTyped
<1>11. FileChain(past) \in Seq(S) /\ PlaceInChain(past, x) \in DOMAIN FileChain(past)
  BY <1>9, <1>10, ChainPlaces
<1>12. FileChain(files) \in Seq(S)
  BY <1>10, ChainPlaces
<1>13. PICK g : /\ Embeds(g, FileChain(past), FileChain(files))
                /\ g[PlaceInChain(past, x)] = PlaceInChain(files, x)
  BY <1>9, <1>10, GrownChainEmbeds
<1>14. Sound(FileChain(past))
  BY <1>9, ChainOfFiles
<1>15. FileChain(past) = FileChain(files)
  BY <1>7, <1>8, <1>11, <1>12, <1>13, <1>14, SoundUpToLast
<1> QED
  BY <1>14, <1>15, ChainOfFiles

\* An entry that the chain writer adds is a line: a checkpoint over one leaf
\* names none before it.
LEMMA MintedIsLine ==
    ASSUME NEW t \in Nat, NEW files, IsFiles(files, t), Resumable(files),
           NEW b, NEW time \in Nat, b \in Pulls \/ time <= t
    PROVE  /\ IsLine(ChainedLine(files, b, time), t)
           /\ ChainedLine(files, b, time).ts = time
           /\ ChainedLine(files, b, time).batch = b
<1> DEFINE E == EntriesOf(files)
           leaf == LeafOf(Line(b, time, NoCheckpoint))
           line == ChainedLine(files, b, time)
<1>1. PICK S : files \in [Days -> Seq(S)]
  BY FilesTyped
<1>2. E \in Seq(S)
  BY <1>1, ChainPlaces
<1>3. line.ts = time /\ line.batch = b /\ line.cp.leaves = Append(LeavesOf(E), leaf)
      /\ line.cp.prev = LastCheckpoint(E).leaves
  BY DEF ChainedLine, Line, MintedOver
<1>4. LastCheckpoint(E).leaves = LeavesOf(E)
  <2>1. CASE LastCheckpoint(E) = NoCheckpoint
    <3>1. \A i \in DOMAIN E : ~Chained(E[i])
      BY <1>2, <2>1, LastCheckpointCases DEF NoCheckpoint
    <3> QED
      BY <2>1, <3>1, NoChainedNoLeaves DEF NoCheckpoint
  <2>2. CASE LastCheckpoint(E) # NoCheckpoint
    BY <2>2 DEF Resumable, CanResume
  <2> QED
    BY <2>1, <2>2
<1>5. PICK L : LeavesOf(E) \in Seq(L) /\ leaf \in L
  <2> DEFINE n == Len(ChainOf(E))
             K == {LeafOf(ChainOf(E)[k]) : k \in 1..n} \cup {leaf}
  <2>1. LeavesOf(E) = [k \in 1..n |-> LeafOf(ChainOf(E)[k])] /\ n \in Nat
    BY <1>2, ChainElementsAt
  <2> HIDE DEF n, E, leaf
  <2>2. LeavesOf(E) \in Seq(K) /\ leaf \in K
    BY <2>1, IsASeq
  <2> QED
    BY <2>2
<1> HIDE DEF line, E, leaf
<1>6. FirstNamesNone(line.cp)
  <2> SUFFICES ASSUME Len(line.cp.leaves) = 1 PROVE line.cp.prev = <<>>
    BY DEF FirstNamesNone
  <2>1. Len(Append(LeavesOf(E), leaf)) = Len(LeavesOf(E)) + 1
    BY <1>5, AppendProperties
  <2>2. Len(LeavesOf(E)) \in Nat
    BY <1>5, LenProperties
  <2>3. Len(LeavesOf(E)) = 0
    BY <1>3, <2>1, <2>2
  <2>4. LeavesOf(E) = <<>>
    BY <1>5, <2>3, EmptySeq
  <2> QED
    BY <1>3, <1>4, <2>4
<1> QED
  BY <1>3, <1>6 DEF IsLine, line

-----------------------------------------------------------------------------
(* What a green verdict says about every later merge: a file the branch     *)
(* changed only grew, from the main it was made from, and is in order.      *)

Approved(pull) ==
    \A d \in Days : pull.head[d] # pull.base[d] =>
        /\ Len(pull.head[d]) >= Len(pull.base[d])
        /\ \A i \in DOMAIN pull.base[d] : pull.head[d][i] = pull.base[d][i]
        /\ InOrder(pull.head[d])

PullInv(pull, m, t) ==
    /\ pull = [status |-> pull.status, base |-> pull.base, head |-> pull.head]
    /\ pull.status # "none" /\ pull.status # "merged" =>
          /\ IsFiles(pull.base, t) /\ IsFiles(pull.head, t)
          /\ AppendOnly(pull.base, m)
    /\ pull.status = "green" => Approved(pull)

JobInv ==
    job.stage = "push" =>
        /\ IsFiles(job.files, clock)
        /\ AppendOnly(job.base, job.files)
        /\ FallToJobs(job.base) => FallToJobs(job.files)

MainInv == clock \in Nat /\ IsFiles(main, clock) /\ FallToJobs(main)

PubInv ==
    /\ MainInv
    /\ DOMAIN pulls = Pulls
    /\ \A p \in Pulls : PullInv(pulls[p], main, clock)
    /\ JobInv

\* The registry before its first entry: nothing to resume, nothing to replay.
LEMMA NoFilesFacts ==
    /\ IsFiles(NoFiles, 1) /\ FallToJobs(NoFiles)
    /\ EntriesOf(NoFiles) = <<>>
    /\ Resumable(NoFiles) /\ LeavesOf(EntriesOf(NoFiles)) = <<>>
<1>1. Len(<<>>) = 0 /\ DOMAIN <<>> = {}
  BY EmptySeq
<1>2. IsFiles(NoFiles, 1) /\ FallToJobs(NoFiles)
  BY <1>1, EmptyIsLines DEF IsFiles, NoFiles, FallToJobs, FallsToJob
<1>3. PICK S : NoFiles \in [Days -> Seq(S)]
  BY <1>2, FilesTyped
<1>4. EntriesOf(NoFiles) \in Seq(S) /\ Indexes(Index(NoFiles), NoFiles)
  BY <1>3, ChainPlaces
<1>5. LinesIn(NoFiles) = {}
  BY <1>1 DEF LinesIn, NoFiles
<1>6. DOMAIN EntriesOf(NoFiles) = {}
  BY <1>4, <1>5 DEF Indexes
<1>7. EntriesOf(NoFiles) = <<>>
  <2>1. DOMAIN EntriesOf(NoFiles) = 1..Len(EntriesOf(NoFiles)) /\ Len(EntriesOf(NoFiles)) \in Nat
    BY <1>4, LenProperties
  <2>2. Len(EntriesOf(NoFiles)) = 0
    BY <1>6, <2>1
  <2> QED
    BY <1>4, <2>2, EmptySeq
<1>8. \A i \in DOMAIN EntriesOf(NoFiles) : ~Chained(EntriesOf(NoFiles)[i])
  BY <1>6
<1>9. LeavesOf(EntriesOf(NoFiles)) = <<>>
  BY <1>8, NoChainedNoLeaves
<1>10. Resumable(NoFiles)
  <2>1. LastCheckpoint(EntriesOf(NoFiles)) = NoCheckpoint
    BY <1>6 DEF LastCheckpoint
  <2> QED
    BY <2>1 DEF Resumable, CanResume
<1> QED
  BY <1>2, <1>7, <1>9, <1>10

LEMMA PubInit == Init => PubInv
<1> SUFFICES ASSUME Init PROVE PubInv
  OBVIOUS
<1> DEFINE line == ChainedLine(NoFiles, First, 1)
<1>1. IsLine(line, 1) /\ line.ts = 1
  BY NoFilesFacts, MintedIsLine
<1>2. main = WithLine(NoFiles, 1, line) /\ clock = 1
  BY DEF Init
<1> HIDE DEF line
<1>3. MainInv
  <2>1. NoFiles[1] = <<>>
    BY DaysFacts DEF NoFiles
  <2> QED
    BY <1>1, <1>2, <2>1, NoFilesFacts, WithLineExtends DEF MainInv
<1> QED
  BY <1>3 DEF Init, PubInv, PullInv, NoPull, JobInv, NoJob

-----------------------------------------------------------------------------
(* main moves only to an extension of it, in every step.                    *)

\* A branch with day files is pushed.
LEMMA ProposeKeepsInv ==
    ASSUME PubInv, NEW p \in Pulls, NEW files, IsFiles(files, clock), Propose(p, files)
    PROVE  PubInv' /\ main' = main
<1>1. PullInv([status |-> "open", base |-> main, head |-> files], main, clock)
  BY AppendOnlyItself DEF PubInv, MainInv, PullInv
<1>2. DOMAIN pulls' = Pulls
      /\ \A q \in Pulls : pulls'[q] = IF q = p THEN [status |-> "open", base |-> main, head |-> files]
                                      ELSE pulls[q]
  BY DEF PubInv, Propose
<1>3. main' = main /\ clock' = clock /\ job' = job
  BY DEF Propose
<1>4. \A q \in Pulls : PullInv(pulls'[q], main', clock')
  BY <1>1, <1>2, <1>3 DEF PubInv
<1> QED
  BY <1>2, <1>3, <1>4 DEF PubInv, MainInv, JobInv

\* main grows; what was checked out before stays an older main.
LEMMA PullsAge ==
    ASSUME PubInv, NEW m, IsFiles(m, clock), AppendOnly(main, m), NEW p \in Pulls
    PROVE  PullInv(pulls[p], m, clock)
<1>1. PullInv(pulls[p], main, clock)
  BY DEF PubInv
<1>2. pulls[p].status # "none" /\ pulls[p].status # "merged" => AppendOnly(pulls[p].base, m)
  BY <1>1, AppendOnlyTransitive DEF PubInv, MainInv, PullInv
<1> QED
  BY <1>1, <1>2 DEF PullInv

LEMMA TickKeepsInv == ASSUME PubInv, Tick PROVE PubInv' /\ main' = main
<1>1. clock \in Nat /\ clock' = clock + 1 /\ UNCHANGED <<main, pulls, job>>
  BY DEF PubInv, MainInv, Tick
<1>2. clock' \in Nat /\ clock <= clock'
  BY <1>1
<1>3. MainInv'
  BY <1>1, <1>2, FilesAge DEF PubInv, MainInv
<1>4. \A p \in Pulls : PullInv(pulls[p], main, clock')
  BY <1>1, <1>2, FilesAge DEF PubInv, PullInv
<1>5. JobInv'
  BY <1>1, <1>2, FilesAge DEF PubInv, JobInv
<1> QED
  BY <1>1, <1>3, <1>4, <1>5 DEF PubInv

-----------------------------------------------------------------------------
(* The steps of a pull request.                                             *)

LEMMA AnchorByToolKeepsInv ==
    ASSUME PubInv, NEW p \in Pulls, NEW time \in 1..MaxTime, AnchorByTool(p, time)
    PROVE  PubInv' /\ main' = main
<1> DEFINE line == ChainedLine(main, p, time)
           files == WithLine(main, Day(time), line)
<1>1. clock \in Nat /\ IsFiles(main, clock) /\ time \in Nat /\ Resumable(main)
  BY TimeAssumption DEF AnchorByTool, PubInv, MainInv
<1>2. IsFiles(files, clock)
  <2>1. IsLine(line, clock)
    BY <1>1, MintedIsLine
  <2> HIDE DEF line
  <2> QED
    BY <1>1, <2>1, WithLineExtends
<1>3. Propose(p, files)
  BY DEF AnchorByTool
<1> HIDE DEF files
<1> QED
  BY <1>2, <1>3, ProposeKeepsInv

LEMMA AnchorByHandKeepsInv ==
    ASSUME PubInv, NEW p \in Pulls, NEW time \in 1..MaxTime, NEW d \in Days,
           AnchorByHand(p, time, d)
    PROVE  PubInv' /\ main' = main
<1> DEFINE line == Line(p, time, NoCheckpoint)
           files == WithLine(main, d, line)
<1>1. clock \in Nat /\ IsFiles(main, clock) /\ time \in Nat
  BY TimeAssumption DEF AnchorByHand, PubInv, MainInv
<1>2. IsFiles(files, clock)
  <2>1. IsLine(line, clock)
    BY <1>1 DEF Line, IsLine, FirstNamesNone, NoCheckpoint
  <2> HIDE DEF line
  <2> QED
    BY <1>1, <2>1, WithLineExtends
<1>3. Propose(p, files)
  BY DEF AnchorByHand
<1> HIDE DEF files
<1> QED
  BY <1>2, <1>3, ProposeKeepsInv

LEMMA EditLineKeepsInv ==
    ASSUME PubInv, NEW p \in Pulls, NEW d \in Days, EditLine(p, d)
    PROVE  PubInv' /\ main' = main
<1> DEFINE line == Line(p, main[d][Len(main[d])].ts, NoCheckpoint)
           shorter == [main EXCEPT ![d] = Front(main[d])]
           edited == [main EXCEPT ![d] = [main[d] EXCEPT ![Len(main[d])] = line]]
<1>1. clock \in Nat /\ IsFiles(main, clock) /\ main[d] # <<>>
  BY DEF PubInv, MainInv, EditLine
<1>2. IsLine(line, clock) /\ IsLines(main[d], clock)
  <2>1. IsLines(main[d], clock) /\ Len(main[d]) \in Nat \ {0}
    BY <1>1, EmptySeq DEF IsFiles, IsLines
  <2>2. IsLine(main[d][Len(main[d])], clock)
    BY <2>1 DEF IsLines
  <2> QED
    BY <2>1, <2>2 DEF Line, IsLine, FirstNamesNone, NoCheckpoint
<1>3. Propose(p, shorter) \/ Propose(p, edited)
  BY DEF EditLine
<1> HIDE DEF line
<1>4. IsLines(Front(main[d]), clock)
      /\ IsLines([main[d] EXCEPT ![Len(main[d])] = line], clock)
  BY <1>1, <1>2, EditIsLines
<1>5. IsFiles(shorter, clock) /\ IsFiles(edited, clock)
  BY <1>1, <1>4 DEF IsFiles
<1> HIDE DEF shorter, edited
<1> QED
  BY <1>3, <1>5, ProposeKeepsInv

LEMMA UpdateBranchKeepsInv ==
    ASSUME PubInv, NEW p \in Pulls, UpdateBranch(p)
    PROVE  PubInv' /\ main' = main
<1>1. PullInv(pulls[p], main, clock) /\ IsFiles(main, clock)
  BY DEF PubInv, MainInv
<1>2. IsFiles(pulls[p].head, clock)
  BY <1>1 DEF PullInv, UpdateBranch
<1>3. IsFiles(Merged(pulls[p].base, main, pulls[p].head), clock)
  BY <1>1, <1>2, MergedIsFiles
<1> QED
  BY <1>3, ProposeKeepsInv DEF UpdateBranch

\* Gates that pass over the merge with main pass judgement on what the branch
\* changed, and on nothing else: git merges only the files main has not changed.
LEMMA GatesApprove ==
    ASSUME NEW pull, NEW m, NEW t, IsFiles(pull.base, t), IsFiles(m, t), IsFiles(pull.head, t),
           AppendOnly(pull.base, m), GatesPass(m, Merged(pull.base, m, pull.head))
    PROVE  Approved(pull)
<1> DEFINE merged == Merged(pull.base, m, pull.head)
<1>1. \A d \in Days : pull.head[d] # pull.base[d] => merged[d] = pull.head[d]
  BY DEF Merged
<1>2. AppendOnly(m, merged) /\ TimestampsOrdered(merged) /\ IsFiles(merged, t)
  BY MergedIsFiles DEF GatesPass
<1> HIDE DEF merged
<1>3. AppendOnly(pull.base, merged)
  BY <1>2, AppendOnlyTransitive
<1> QED
  BY <1>1, <1>2, <1>3 DEF Approved, AppendOnly, TimestampsOrdered

LEMMA CheckPullKeepsInv ==
    ASSUME PubInv, NEW p \in Pulls, CheckPull(p)
    PROVE  PubInv' /\ main' = main
<1> DEFINE verdict == IF GatesPass(main, Merged(pulls[p].base, main, pulls[p].head))
                      THEN "green" ELSE "red"
<1>1. PullInv(pulls[p], main, clock) /\ MainInv /\ pulls[p].status = "open"
  BY DEF PubInv, CheckPull
<1>2. /\ DOMAIN pulls' = Pulls
      /\ \A q \in Pulls : pulls'[q] = IF q = p THEN [pulls[p] EXCEPT !.status = verdict] ELSE pulls[q]
      /\ UNCHANGED <<main, clock, job>>
  BY DEF PubInv, CheckPull
<1>3. IsFiles(pulls[p].base, clock) /\ IsFiles(pulls[p].head, clock)
      /\ AppendOnly(pulls[p].base, main)
  BY <1>1 DEF PullInv
<1>4. verdict = "green" => Approved(pulls[p])
  BY <1>1, <1>3, GatesApprove DEF MainInv
<1> HIDE DEF verdict
<1>5. [pulls[p] EXCEPT !.status = verdict]
        = [status |-> verdict, base |-> pulls[p].base, head |-> pulls[p].head]
  BY <1>1 DEF PullInv
<1>6. PullInv([pulls[p] EXCEPT !.status = verdict], main, clock)
  BY <1>3, <1>4, <1>5 DEF PullInv, Approved
<1>7. \A q \in Pulls : PullInv(pulls'[q], main', clock')
  BY <1>2, <1>6 DEF PubInv
<1> QED
  BY <1>2, <1>7 DEF PubInv, MainInv, JobInv

\* What git merges without a conflict into main as it is now, after a verdict
\* about main as it was, extends main now and goes back in time nowhere else.
LEMMA ApprovedMergeExtends ==
    ASSUME NEW pull, NEW m, NEW t, IsFiles(m, t), IsFiles(pull.head, t), FallToJobs(m),
           Approved(pull), Mergeable(pull.base, m, pull.head)
    PROVE  LET merged == Merged(pull.base, m, pull.head)
           IN  IsFiles(merged, t) /\ AppendOnly(m, merged) /\ FallToJobs(merged)
<1> DEFINE merged == Merged(pull.base, m, pull.head)
<1>1. IsFiles(merged, t)
  BY MergedIsFiles
<1>2. ASSUME NEW d \in Days
      PROVE  /\ Len(merged[d]) >= Len(m[d])
             /\ \A i \in DOMAIN m[d] : merged[d][i] = m[d][i]
             /\ FallsToJob(merged[d])
  <2>1. merged[d] = IF pull.head[d] = pull.base[d] THEN m[d] ELSE pull.head[d]
    BY DEF Merged
  <2>2. FallsToJob(m[d]) /\ Len(m[d]) \in Nat
    BY LinesOver DEF FallToJobs, IsFiles, IsLines
  <2>3. CASE pull.head[d] = pull.base[d] \/ m[d] = pull.head[d]
    BY <2>1, <2>2, <2>3
  <2>4. CASE pull.head[d] # pull.base[d] /\ m[d] = pull.base[d]
    <3>1. InOrder(pull.head[d]) /\ IsLines(pull.head[d], t)
      BY <2>4 DEF Approved, IsFiles
    <3> QED
      BY <2>1, <2>4, <3>1, OrderedFallsNowhere DEF Approved
  <2> QED
    BY <2>3, <2>4 DEF Mergeable
<1> QED
  BY <1>1, <1>2 DEF AppendOnly, FallToJobs

LEMMA MergePullKeepsInv ==
    ASSUME PubInv, NEW p \in Pulls, MergePull(p)
    PROVE  PubInv' /\ AppendOnly(main, main')
<1> DEFINE merged == Merged(pulls[p].base, main, pulls[p].head)
<1>1. PullInv(pulls[p], main, clock) /\ MainInv /\ pulls[p].status = "green"
  BY DEF PubInv, MergePull
<1>2. IsFiles(merged, clock) /\ AppendOnly(main, merged) /\ FallToJobs(merged)
  BY <1>1, ApprovedMergeExtends DEF PullInv, MainInv, MergePull
<1>3. Land(p, merged)
  BY DEF MergePull
<1> HIDE DEF merged
<1>4. /\ main' = merged /\ UNCHANGED <<clock, job>>
      /\ DOMAIN pulls' = Pulls
      /\ \A q \in Pulls : pulls'[q] = IF q = p THEN [NoPull EXCEPT !.status = "merged"] ELSE pulls[q]
  BY <1>3 DEF PubInv, Land
<1>5. PullInv([NoPull EXCEPT !.status = "merged"], merged, clock)
  BY DEF PullInv, NoPull
<1>6. \A q \in Pulls : PullInv(pulls'[q], main', clock')
  BY <1>2, <1>4, <1>5, PullsAge
<1> QED
  BY <1>1, <1>2, <1>4, <1>6 DEF PubInv, MainInv, JobInv

-----------------------------------------------------------------------------
(* The steps of the job.                                                    *)

LEMMA RunJobKeepsInv ==
    ASSUME PubInv, NEW b \in Batches, RunJob(b)
    PROVE  PubInv' /\ main' = main
<1> DEFINE line == ChainedLine(main, b, clock)
           files == WithLine(main, Day(clock), line)
<1>1. clock \in Nat /\ clock <= clock /\ IsFiles(main, clock) /\ Resumable(main)
  BY DEF PubInv, MainInv, RunJob
<1>2. IsFiles(files, clock) /\ AppendOnly(main, files)
      /\ (FallToJobs(main) => FallToJobs(files))
  <2>1. IsLine(line, clock) /\ line.ts = clock /\ line.batch = b
    BY <1>1, MintedIsLine
  <2> HIDE DEF line
  <2> QED
    BY <1>1, <2>1, WithLineExtends
<1>3. job' = [stage |-> "push", base |-> main, files |-> files, batch |-> b]
      /\ UNCHANGED <<main, clock, pulls>>
  BY DEF RunJob
<1> HIDE DEF files
<1> QED
  BY <1>2, <1>3 DEF PubInv, MainInv, JobInv

LEMMA PushJobKeepsInv == ASSUME PubInv, PushJob PROVE PubInv' /\ AppendOnly(main, main')
<1>1. /\ main' = job.files /\ job' = NoJob /\ UNCHANGED <<clock, pulls>>
      /\ main = job.base /\ job.stage = "push"
  BY DEF PushJob
<1>2. IsFiles(job.files, clock) /\ AppendOnly(main, job.files) /\ FallToJobs(job.files)
  BY <1>1 DEF PubInv, MainInv, JobInv
<1>3. \A p \in Pulls : PullInv(pulls[p], job.files, clock)
  BY <1>2, PullsAge
<1> QED
  BY <1>1, <1>2, <1>3 DEF PubInv, MainInv, JobInv, NoJob

LEMMA OthersKeepInv ==
    ASSUME PubInv, RejectJob \/ (\E verdict \in BOOLEAN : CheckPush(verdict)) \/ UNCHANGED vars
    PROVE  PubInv' /\ main' = main
<1>1. UNCHANGED <<main, clock, pulls>> /\ (UNCHANGED job \/ job' = NoJob)
  BY DEF RejectJob, CheckPush, vars
<1> QED
  BY <1>1 DEF PubInv, MainInv, JobInv, NoJob

LEMMA StepKeepsInv ==
    ASSUME PubInv, [Next]_vars
    PROVE  PubInv' /\ (main' = main \/ AppendOnly(main, main'))
<1>1. ASSUME NEW p \in Pulls, PullStep(p)
      PROVE  PubInv' /\ (main' = main \/ AppendOnly(main, main'))
  <2>1. ASSUME NEW time \in 1..MaxTime, AnchorByTool(p, time) PROVE PubInv' /\ main' = main
    BY <2>1, AnchorByToolKeepsInv
  <2>2. ASSUME NEW time \in 1..MaxTime, NEW d \in Days, AnchorByHand(p, time, d)
        PROVE  PubInv' /\ main' = main
    BY <2>2, AnchorByHandKeepsInv
  <2>3. ASSUME NEW d \in Days, EditLine(p, d) PROVE PubInv' /\ main' = main
    BY <2>3, EditLineKeepsInv
  <2>4. CASE UpdateBranch(p)
    BY <2>4, UpdateBranchKeepsInv
  <2>5. CASE CheckPull(p)
    BY <2>5, CheckPullKeepsInv
  <2>6. CASE MergePull(p)
    BY <2>6, MergePullKeepsInv
  <2> QED
    BY <1>1, <2>1, <2>2, <2>3, <2>4, <2>5, <2>6 DEF PullStep
<1>2. CASE Tick
  BY <1>2, TickKeepsInv
<1>3. CASE JobStep
  BY <1>3, RunJobKeepsInv, PushJobKeepsInv, OthersKeepInv DEF JobStep
<1>4. CASE (\E verdict \in BOOLEAN : CheckPush(verdict)) \/ UNCHANGED vars
  BY <1>4, OthersKeepInv
<1> QED
  BY <1>1, <1>2, <1>3, <1>4 DEF Next

LEMMA PubInvAlways == Spec => []PubInv
<1>1. PubInv /\ [Next]_vars => PubInv'
  BY StepKeepsInv
<1> QED
  BY PubInit, <1>1, PTL DEF Spec

-----------------------------------------------------------------------------
\* No published line is ever changed or removed, however old the verdict of CI a
\* merge relies on: for any pull requests, batches, days and length of time.
THEOREM OnlyGrows == Spec => PublishedOnlyGrows
<1>1. PubInv /\ [Next]_vars => [AppendOnly(main, main')]_vars
  <2> SUFFICES ASSUME PubInv, [Next]_vars PROVE AppendOnly(main, main')
    OBVIOUS
  <2>1. CASE main' = main
    BY <2>1, AppendOnlyItself DEF PubInv, MainInv
  <2> QED
    BY <2>1, StepKeepsInv
<1> QED
  BY PubInvAlways, <1>1, PTL DEF Spec, PublishedOnlyGrows

\* Within a published file timestamps go back only from the entry of a pull request
\* that was dated ahead to one of the job, though pull requests bring entries of
\* any time, a merge may rely on an old verdict and the job's commits skip CI.
THEOREM OnlyJobsAreBehind == Spec => []OnlyJobsFallBehind
<1>1. PubInv => OnlyJobsFallBehind
  BY DEF PubInv, MainInv, FallToJobs, FallsToJob, OnlyJobsFallBehind
<1> QED
  BY PubInvAlways, <1>1, PTL

-----------------------------------------------------------------------------
(* The published chain holds or is forked, and a fork is seen.  A green      *)
(* verdict stands for an older main whose merge with the branch had a chain  *)
(* that holds; the merge git makes now is put together, day by day, from     *)
(* that tree and main.                                                       *)

GreenInv(pull, m, t) ==
    pull.status = "green" =>
        \E past : /\ IsFiles(past, t) /\ AppendOnly(past, m)
                  /\ ChainHolds(Merged(pull.base, past, pull.head))

HoldsOrForked(files) == ChainHolds(files) \/ Forked(FileChain(files))

ChainInv ==
    /\ HoldsOrForked(main)
    /\ Grounded(main, clock)
    /\ \A p \in Pulls : GreenInv(pulls[p], main, clock)
    /\ job.stage = "push" => ChainHolds(job.files)
    /\ ~ChainHolds(main) => alarm \/ FALSE \in running

LEMMA HoldsIsGrounded ==
    ASSUME NEW t, NEW files, IsFiles(files, t), ChainHolds(files)
    PROVE  Grounded(files, t)
BY AppendOnlyItself DEF Grounded

LEMMA GroundedAges ==
    ASSUME NEW t \in Nat, NEW u \in Nat, t <= u, NEW files, Grounded(files, t)
    PROVE  Grounded(files, u)
BY FilesAge DEF Grounded

\* The registry of one entry, the only link of its chain.
LEMMA FirstHolds == Init => ChainHolds(main)
<1> SUFFICES ASSUME Init PROVE ChainHolds(main)
  OBVIOUS
<1> DEFINE line == ChainedLine(NoFiles, First, 1)
           leaf == LeafOf(Line(First, 1, NoCheckpoint))
           c == FileChain(main)
           x1 == <<1, 1>>
<1>1. line.cp.leaves = <<leaf>> /\ LeafOf(line) = leaf
  <2>1. line.cp.leaves = Append(<<>>, leaf)
    BY NoFilesFacts DEF ChainedLine, Line, MintedOver
  <2>2. Append(<<>>, leaf) = <<leaf>>
    OBVIOUS
  <2> QED
    BY <2>1, <2>2 DEF ChainedLine, Line, LeafOf
<1>2. main = WithLine(NoFiles, 1, line) /\ IsFiles(main, 1)
  <2>1. IsLine(line, 1)
    BY NoFilesFacts, MintedIsLine
  <2>2. main = WithLine(NoFiles, 1, line)
    BY DEF Init
  <2> HIDE DEF line
  <2> QED
    BY <2>1, <2>2, NoFilesFacts, WithLineExtends
<1> HIDE DEF line, leaf
<1>3. main[1] = <<line>> /\ \A d \in Days : d # 1 => main[d] = <<>>
  <2>1. main[1] = Append(<<>>, line) /\ \A d \in Days : d # 1 => main[d] = <<>>
    BY <1>2, DaysFacts DEF WithLine, NoFiles
  <2> QED
    BY <2>1
<1>4. LinesIn(main) = {x1}
  <2>1. DOMAIN main[1] = {1} /\ \A d \in Days : d # 1 => DOMAIN main[d] = {}
    BY <1>3
  <2>2. \A x \in LinesIn(main) : x[1] = 1 /\ x[2] = 1 /\ x = <<x[1], x[2]>>
    BY <2>1 DEF LinesIn
  <2>3. x1 \in LinesIn(main)
    BY <2>1, DaysFacts DEF LinesIn
  <2> QED
    BY <2>2, <2>3
<1>5. LineAt(main, x1) = line
  BY <1>3 DEF LineAt
<1> HIDE DEF x1
<1>6. ChainLines(main) = {x1}
  BY <1>1, <1>4, <1>5 DEF ChainLines, Chained
<1>7. PICK S : main \in [Days -> Seq(S)]
  BY <1>2, FilesTyped
<1>8. /\ c \in Seq(S)
      /\ \A x \in ChainLines(main) : /\ PlaceInChain(main, x) \in DOMAIN c
                                     /\ c[PlaceInChain(main, x)] = LineAt(main, x)
      /\ \A n \in DOMAIN c : \E x \in ChainLines(main) : PlaceInChain(main, x) = n
  BY <1>7, ChainPlaces
<1> HIDE DEF c
<1>9. DOMAIN c = {1} /\ c[1] = line
  <2> DEFINE n == PlaceInChain(main, x1)
  <2>1. n \in DOMAIN c /\ c[n] = line /\ \A k \in DOMAIN c : k = n
    BY <1>5, <1>6, <1>8
  <2>2. Len(c) \in Nat /\ DOMAIN c = 1..Len(c)
    BY <1>8, LenProperties
  <2> HIDE DEF n
  <2>3. 1 \in DOMAIN c
    BY <2>1, <2>2
  <2> QED
    BY <2>1, <2>3
<1>10. Sound(c)
  <2>1. LeavesTo(c, 1) = <<leaf>>
    BY <1>1, <1>9 DEF LeavesTo
  <2>2. c # <<>>
    BY <1>9
  <2> QED
    BY <1>1, <1>9, <2>1, <2>2 DEF Sound
<1> QED
  BY <1>2, <1>10, ChainOfFiles DEF c

LEMMA ChainInit == Init => ChainInv
<1> SUFFICES ASSUME Init PROVE ChainInv
  OBVIOUS
<1>1. ChainHolds(main) /\ IsFiles(main, clock)
  BY FirstHolds, PubInit DEF PubInv, MainInv
<1>2. \A p \in Pulls : pulls[p].status = "none"
  BY DEF Init, NoPull
<1>3. job.stage = "idle"
  BY DEF Init, NoJob
<1> QED
  BY <1>1, <1>2, <1>3, HoldsIsGrounded DEF ChainInv, HoldsOrForked, GreenInv

-----------------------------------------------------------------------------
(* The steps.                                                               *)

\* What a merge makes of a main whose chain holds or is forked.
LEMMA MergeHoldsOrForks ==
    ASSUME NEW pull, NEW m, NEW t, IsFiles(m, t), IsFiles(pull.head, t),
           NEW past, IsFiles(past, t), AppendOnly(past, m),
           ChainHolds(Merged(pull.base, past, pull.head)),
           AppendOnly(m, Merged(pull.base, m, pull.head)),
           HoldsOrForked(m), Grounded(m, t)
    PROVE  LET merged == Merged(pull.base, m, pull.head)
           IN  HoldsOrForked(merged) /\ Grounded(merged, t)
<1> DEFINE r == Merged(pull.base, m, pull.head)
           g == Merged(pull.base, past, pull.head)
<1>1. IsFiles(r, t) /\ IsFiles(g, t)
  BY MergedIsFiles
<1>2. \A d \in Days : \/ r[d] = m[d] /\ g[d] = past[d]
                      \/ r[d] = g[d]
  BY DEF Merged
<1> HIDE DEF r, g
<1>3. AppendOnly(g, r)
  <2>1. AppendOnly(g, g)
    BY <1>1, AppendOnlyItself
  <2> QED
    BY <1>2, <2>1 DEF AppendOnly
<1>4. ChainHolds(g) /\ AppendOnly(m, r)
  BY DEF r, g
<1>5. HoldsOrForked(r)
  <2>1. CASE ChainHolds(m)
    BY <1>1, <1>2, <1>3, <1>4, <2>1, UnionHoldsOrForks DEF HoldsOrForked
  <2>2. CASE Forked(FileChain(m))
    BY <1>1, <1>4, <2>2, ForkedStaysForked DEF HoldsOrForked
  <2> QED
    BY <2>1, <2>2 DEF HoldsOrForked
<1>6. Grounded(r, t)
  <2> SUFFICES ASSUME NEW x \in ChainLines(r)
               PROVE  \E B : /\ IsFiles(B, t) /\ AppendOnly(B, r)
                             /\ ChainHolds(B) /\ x \in ChainLines(B)
    BY DEF Grounded
  <2>1. x \in ChainLines(m) \/ x \in ChainLines(g)
    BY <1>2 DEF ChainLines, LinesIn, LineAt
  <2>2. CASE x \in ChainLines(g)
    BY <1>1, <1>3, <1>4, <2>2
  <2>3. CASE x \in ChainLines(m)
    <3>1. PICK B : IsFiles(B, t) /\ AppendOnly(B, m) /\ ChainHolds(B) /\ x \in ChainLines(B)
      BY <2>3 DEF Grounded
    <3>2. AppendOnly(B, r)
      BY <1>1, <1>4, <3>1, AppendOnlyTransitive
    <3> QED
      BY <3>1, <3>2
  <2> QED
    BY <2>1, <2>2, <2>3
<1> QED
  BY <1>5, <1>6 DEF r

\* main grows; a green verdict was about an older main all the same.
LEMMA GreensAge ==
    ASSUME NEW t, NEW pull, NEW m, NEW n, GreenInv(pull, m, t),
           IsFiles(m, t), IsFiles(n, t), AppendOnly(m, n)
    PROVE  GreenInv(pull, n, t)
BY AppendOnlyTransitive DEF GreenInv

LEMMA TickKeepsChain == ASSUME PubInv, ChainInv, Tick PROVE ChainInv'
<1>1. clock \in Nat /\ clock' = clock + 1 /\ UNCHANGED <<main, pulls, job, running, alarm>>
  BY DEF PubInv, MainInv, Tick
<1>2. clock' \in Nat /\ clock <= clock'
  BY <1>1
<1>3. Grounded(main, clock')
  BY <1>1, <1>2, GroundedAges DEF ChainInv
<1>4. \A p \in Pulls : GreenInv(pulls[p], main, clock')
  BY <1>1, <1>2, FilesAge DEF ChainInv, GreenInv
<1> QED
  BY <1>1, <1>3, <1>4 DEF ChainInv

LEMMA ProposeKeepsChain ==
    ASSUME PubInv, ChainInv, NEW p \in Pulls, NEW files, Propose(p, files)
    PROVE  ChainInv'
<1>1. UNCHANGED <<main, clock, job, running, alarm>>
      /\ \A q \in Pulls : pulls'[q] = pulls[q] \/ pulls'[q].status = "open"
  BY DEF PubInv, Propose
<1>2. \A q \in Pulls : GreenInv(pulls'[q], main', clock')
  BY <1>1 DEF ChainInv, GreenInv
<1> QED
  BY <1>1, <1>2 DEF ChainInv

LEMMA CheckPullKeepsChain ==
    ASSUME PubInv, ChainInv, NEW p \in Pulls, CheckPull(p)
    PROVE  ChainInv'
<1> DEFINE merged == Merged(pulls[p].base, main, pulls[p].head)
           verdict == IF GatesPass(main, merged) THEN "green" ELSE "red"
<1>1. /\ \A q \in Pulls : pulls'[q] = IF q = p THEN [pulls[p] EXCEPT !.status = verdict] ELSE pulls[q]
      /\ UNCHANGED <<main, clock, job, running, alarm>>
  BY DEF PubInv, CheckPull
<1>2. verdict = "green" => ChainHolds(merged)
  BY DEF GatesPass
<1> HIDE DEF verdict
<1>3. [pulls[p] EXCEPT !.status = verdict]
        = [status |-> verdict, base |-> pulls[p].base, head |-> pulls[p].head]
  BY DEF PubInv, PullInv
<1>4. IsFiles(main, clock) /\ AppendOnly(main, main)
  BY AppendOnlyItself DEF PubInv, MainInv
<1>5. GreenInv([pulls[p] EXCEPT !.status = verdict], main, clock)
  BY <1>2, <1>3, <1>4 DEF GreenInv
<1>6. \A q \in Pulls : GreenInv(pulls'[q], main', clock')
  BY <1>1, <1>5 DEF ChainInv
<1> QED
  BY <1>1, <1>6 DEF ChainInv

LEMMA MergePullKeepsChain ==
    ASSUME PubInv, ChainInv, NEW p \in Pulls, MergePull(p)
    PROVE  ChainInv'
<1> DEFINE merged == Merged(pulls[p].base, main, pulls[p].head)
<1>1. PullInv(pulls[p], main, clock) /\ MainInv /\ pulls[p].status = "green"
      /\ GreenInv(pulls[p], main, clock)
  BY DEF PubInv, ChainInv, MergePull
<1>2. IsFiles(main, clock) /\ IsFiles(pulls[p].head, clock)
  BY <1>1 DEF PullInv, MainInv
<1>3. IsFiles(merged, clock) /\ AppendOnly(main, merged)
  BY <1>1, <1>2, ApprovedMergeExtends DEF PullInv, MainInv, MergePull
<1>4. HoldsOrForked(merged) /\ Grounded(merged, clock)
  <2>1. PICK past : /\ IsFiles(past, clock) /\ AppendOnly(past, main)
                    /\ ChainHolds(Merged(pulls[p].base, past, pulls[p].head))
    BY <1>1 DEF GreenInv
  <2> QED
    BY <1>2, <1>3, <2>1, MergeHoldsOrForks DEF ChainInv
<1>5. Land(p, merged)
  BY DEF MergePull
<1> HIDE DEF merged
<1>6. /\ main' = merged /\ UNCHANGED <<clock, job>>
      /\ \A q \in Pulls : pulls'[q] = pulls[q] \/ pulls'[q].status = "merged"
  BY <1>5 DEF PubInv, Land, NoPull
<1>7. \A q \in Pulls : GreenInv(pulls'[q], merged, clock)
  <2> SUFFICES ASSUME NEW q \in Pulls PROVE GreenInv(pulls'[q], merged, clock)
    OBVIOUS
  <2>1. CASE pulls'[q] = pulls[q]
    BY <1>2, <1>3, <2>1, GreensAge DEF ChainInv
  <2>2. CASE pulls'[q].status = "merged"
    BY <2>2 DEF GreenInv
  <2> QED
    BY <1>6, <2>1, <2>2
<1>8. ~ChainHolds(merged) => FALSE \in running'
  <2>1. ASSUME ~ChainHolds(merged) PROVE GatesPass(main, merged) = FALSE
    BY <2>1 DEF GatesPass
  <2>2. GatesPass(main, merged) \in running'
    BY <1>5 DEF Land
  <2> QED
    BY <2>1, <2>2
<1> QED
  BY <1>4, <1>6, <1>7, <1>8 DEF ChainInv

LEMMA RunJobKeepsChain ==
    ASSUME PubInv, ChainInv, NEW b \in Batches, RunJob(b)
    PROVE  ChainInv'
<1> DEFINE files == WithLine(main, Day(clock), ChainedLine(main, b, clock))
<1>1. /\ job' = [stage |-> "push", base |-> main, files |-> files, batch |-> b]
      /\ ChainHolds(files)
      /\ UNCHANGED <<main, clock, pulls, running, alarm>>
  BY DEF RunJob
<1> HIDE DEF files
<1> QED
  BY <1>1 DEF ChainInv

LEMMA PushJobKeepsChain == ASSUME PubInv, ChainInv, PushJob PROVE ChainInv'
<1>1. /\ main' = job.files /\ job' = NoJob /\ UNCHANGED <<clock, pulls>>
      /\ main = job.base /\ job.stage = "push"
  BY DEF PushJob
<1>2. /\ IsFiles(main, clock) /\ IsFiles(job.files, clock)
      /\ AppendOnly(main, job.files) /\ ChainHolds(job.files)
  BY <1>1 DEF PubInv, MainInv, JobInv, ChainInv
<1>3. \A p \in Pulls : GreenInv(pulls[p], job.files, clock)
  BY <1>2, GreensAge DEF ChainInv
<1>4. job'.stage # "push"
  BY <1>1 DEF NoJob
<1> QED
  BY <1>1, <1>2, <1>3, <1>4, HoldsIsGrounded DEF ChainInv, HoldsOrForked

\* A run of CI ends: a failed one leaves the alarm.
LEMMA CheckPushKeepsChain ==
    ASSUME PubInv, ChainInv, NEW verdict \in BOOLEAN, CheckPush(verdict)
    PROVE  ChainInv'
<1>1. UNCHANGED <<main, clock, pulls, job>>
  BY DEF CheckPush
<1>2. ASSUME alarm \/ FALSE \in running PROVE alarm' \/ FALSE \in running'
  <2>1. running' = running \ {verdict} /\ (alarm' <=> (alarm \/ ~verdict))
    BY DEF CheckPush
  <2>2. CASE verdict = FALSE
    BY <2>1, <2>2
  <2>3. CASE verdict = TRUE
    BY <1>2, <2>1, <2>3
  <2> QED
    BY <2>2, <2>3
<1> QED
  BY <1>1, <1>2 DEF ChainInv

LEMMA OthersKeepChain ==
    ASSUME PubInv, ChainInv, RejectJob \/ UNCHANGED vars
    PROVE  ChainInv'
<1>1. UNCHANGED <<main, clock, pulls, running, alarm>> /\ (UNCHANGED job \/ job' = NoJob)
  BY DEF RejectJob, vars
<1>2. job'.stage = "push" => ChainHolds(job'.files)
  BY <1>1 DEF ChainInv, NoJob
<1> QED
  BY <1>1, <1>2 DEF ChainInv

LEMMA StepKeepsChain == ASSUME PubInv, ChainInv, [Next]_vars PROVE ChainInv'
<1>1. ASSUME NEW p \in Pulls, PullStep(p) PROVE ChainInv'
  <2>1. ASSUME NEW time \in 1..MaxTime, AnchorByTool(p, time) PROVE ChainInv'
    BY <2>1, ProposeKeepsChain DEF AnchorByTool
  <2>2. ASSUME NEW time \in 1..MaxTime, NEW d \in Days, AnchorByHand(p, time, d) PROVE ChainInv'
    BY <2>2, ProposeKeepsChain DEF AnchorByHand
  <2>3. ASSUME NEW d \in Days, EditLine(p, d) PROVE ChainInv'
    BY <2>3, ProposeKeepsChain DEF EditLine
  <2>4. CASE UpdateBranch(p)
    BY <2>4, ProposeKeepsChain DEF UpdateBranch
  <2>5. CASE CheckPull(p)
    BY <2>5, CheckPullKeepsChain
  <2>6. CASE MergePull(p)
    BY <2>6, MergePullKeepsChain
  <2> QED
    BY <1>1, <2>1, <2>2, <2>3, <2>4, <2>5, <2>6 DEF PullStep
<1>2. CASE Tick
  BY <1>2, TickKeepsChain
<1>3. CASE JobStep
  BY <1>3, RunJobKeepsChain, PushJobKeepsChain, OthersKeepChain DEF JobStep
<1>4. CASE \E verdict \in BOOLEAN : CheckPush(verdict)
  BY <1>4, CheckPushKeepsChain
<1>5. CASE UNCHANGED vars
  BY <1>5, OthersKeepChain
<1> QED
  BY <1>1, <1>2, <1>3, <1>4, <1>5 DEF Next

LEMMA ChainInvAlways == Spec => [](PubInv /\ ChainInv)
<1>1. PubInv /\ ChainInv /\ [Next]_vars => PubInv' /\ ChainInv'
  BY StepKeepsInv, StepKeepsChain
<1> QED
  BY PubInit, ChainInit, <1>1, PTL DEF Spec

-----------------------------------------------------------------------------
\* The one way in which the published chain comes to fail is a fork, for any
\* pull requests, batches, days and times: backdated entries, entries outside
\* the chain and merges on stale verdicts break it in no other.
THEOREM OnlyForksBreak == Spec => []BrokenOnlyByFork
<1>1. PubInv /\ ChainInv => BrokenOnlyByFork
  <2> SUFFICES ASSUME PubInv, ChainInv, ~ChainHolds(main)
               PROVE  \E i, j \in DOMAIN EntriesOf(main) :
                         /\ i # j
                         /\ Chained(EntriesOf(main)[i]) /\ Chained(EntriesOf(main)[j])
                         /\ EntriesOf(main)[i].cp.prev = EntriesOf(main)[j].cp.prev
    BY DEF BrokenOnlyByFork
  <2> DEFINE E == EntriesOf(main)
             I == ChainedIn(E)
  <2>1. PICK k \in DOMAIN FileChain(main), l \in DOMAIN FileChain(main) :
           k # l /\ FileChain(main)[k].cp.prev = FileChain(main)[l].cp.prev
    BY DEF ChainInv, HoldsOrForked, Forked
  <2>2. PICK S : main \in [Days -> Seq(S)]
    BY FilesTyped DEF PubInv, MainInv
  <2>3. E \in Seq(S)
    BY <2>2, ChainPlaces
  <2>4. \A n \in DOMAIN FileChain(main) :
           Nth(I, n) \in I /\ Rank(I, Nth(I, n)) = n /\ FileChain(main)[n] = E[Nth(I, n)]
    BY <2>3, ChainElementsAt DEF FileChain
  <2>5. Nth(I, k) \in I /\ Nth(I, l) \in I /\ Nth(I, k) # Nth(I, l)
    BY <2>1, <2>4
  <2>6. E[Nth(I, k)].cp.prev = E[Nth(I, l)].cp.prev
    BY <2>1, <2>4
  <2> HIDE DEF E
  <2> QED
    BY <2>5, <2>6 DEF ChainedIn, E
<1> QED
  BY ChainInvAlways, <1>1, PTL

\* Opening the chain compares its last checkpoint only; still no tool goes on to
\* sign over a published history in which some entry does not verify.
THEOREM OnlyVerifiedResume == Spec => []OnlyVerifiedChainsResume
<1>1. PubInv /\ ChainInv => OnlyVerifiedChainsResume
  <2> SUFFICES ASSUME PubInv, ChainInv, Resumable(main) PROVE ChainHolds(main)
    BY DEF OnlyVerifiedChainsResume
  <2>1. CASE Forked(FileChain(main))
    <3>1. FileChain(main) # <<>>
      BY <2>1, EmptySeq DEF Forked
    <3> QED
      BY <3>1, GroundedResumes DEF PubInv, MainInv, ChainInv
  <2> QED
    BY <2>1 DEF ChainInv, HoldsOrForked
<1> QED
  BY ChainInvAlways, <1>1, PTL

\* A chain that a stale verdict broke does not go unnoticed.
THEOREM BrokenIsNoticed == Spec => []BrokenChainIsNoticed
<1>1. ChainInv => BrokenChainIsNoticed
  BY DEF ChainInv, BrokenChainIsNoticed
<1> QED
  BY ChainInvAlways, <1>1, PTL

\* No approved change repairs a broken chain.
THEOREM BrokenStaysBroken == Spec => BrokenChainStaysBroken
<1>1. PubInv /\ ChainInv /\ [Next]_vars => [~ChainHolds(main) => ~ChainHolds(main')]_vars
  <2> SUFFICES ASSUME PubInv, ChainInv, [Next]_vars, ~ChainHolds(main)
               PROVE  ~ChainHolds(main')
    OBVIOUS
  <2>1. PubInv' /\ (main' = main \/ AppendOnly(main, main'))
    BY StepKeepsInv
  <2>2. CASE main' = main
    BY <2>2
  <2>3. CASE main' # main
    <3>1. clock \in Nat /\ clock' \in Nat /\ IsFiles(main, clock) /\ IsFiles(main', clock')
      BY <2>1 DEF PubInv, MainInv
    <3>2. clock' = clock \/ clock' = clock + 1
      BY DEF Next, Tick, PullStep, JobStep, CheckPush, RunJob, PushJob, RejectJob, AnchorByTool,
             AnchorByHand, EditLine, UpdateBranch, CheckPull, MergePull, Propose, Land, vars
    <3>3. IsFiles(main, clock')
      BY <3>1, <3>2, FilesAge
    <3>4. Forked(FileChain(main))
      BY DEF ChainInv, HoldsOrForked
    <3>5. Forked(FileChain(main'))
      BY <2>1, <2>3, <3>1, <3>3, <3>4, ForkedStaysForked
    <3> QED
      BY <3>1, <3>5, ChainOfFiles
  <2> QED
    BY <2>2, <2>3
<1> QED
  BY ChainInvAlways, <1>1, PTL DEF Spec, BrokenChainStaysBroken
=============================================================================
