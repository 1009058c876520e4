----------------------------- MODULE TraceVerify -----------------------------
(***************************************************************************)
(* The inclusion check of the trace-verify command                         *)
(* (src/trace_verify/__main__.py) beside the registry it reads: the entry  *)
(* that ManualAnchor prints is published in a day file, so are entries of  *)
(* others, and producers replace or withdraw their keys, while a reader    *)
(* fetches first the day file and then one producer key (--entry-url).     *)
(* With --entry both come from one clone, which is the case that nothing   *)
(* happens in between.                                                     *)
(*                                                                         *)
(* anchor.py puts any --producer and --batch-id into an entry; it is the   *)
(* reader who finds out whether that producer signed the claim.            *)
(***************************************************************************)
EXTENDS ManualAnchor

CONSTANTS
    NamedIn,     \* content -> the claim's "producer" member, Absent if it has none
    SignedWith,  \* content -> the key that signed the claim
    KeysOf       \* producer -> keys it registers, one after another

ASSUME ReaderAssumption == Absent \notin Producers \cup Ids
ASSUME KeysAssumption ==
    \A p \in Producers : KeysOf[p] \in Seq(ToSet(KeysOf[p])) /\ Absent \notin ToSet(KeysOf[p])

VARIABLES
    keys,   \* which of its keys each producer has registered last, past the end: none
    reader  \* [stage, since, skip, file, proof, id, line, exit]; since counts the
            \* lines published when it started

readerVars == <<vars, keys, reader>>

NoLine == [entry |-> NoEntry, producer |-> Absent, id |-> Absent, batch |-> <<>>]
NoReader == [stage |-> "none", since |-> 0, skip |-> FALSE, file |-> CHOOSE f \in Files : TRUE,
             proof |-> NoProof, id |-> Absent, line |-> NoLine, exit |-> 0]

ReaderInit ==
    /\ Init
    /\ keys = [p \in Producers |-> 1]
    /\ reader = NoReader

\* A producer's next key; past the last one the key file is removed.
ChangeKey(p) ==
    /\ dayFile # <<>>
    /\ keys[p] <= Len(KeysOf[p])
    /\ keys' = [keys EXCEPT ![p] = @ + 1]
    /\ UNCHANGED <<vars, reader>>

ActiveKey(p) == IF keys[p] <= Len(KeysOf[p]) THEN KeysOf[p][keys[p]] ELSE Absent

-----------------------------------------------------------------------------
(* The reader: _main_inclusion.                                             *)

\* Retained file, proof file and arguments; --no-verify-signature is skip.
StartReader(f, s, id, skip) ==
    /\ reader.stage = "none"
    /\ dayFile # <<>>
    /\ proofs[s] # NoProof
    /\ reader' = [NoReader EXCEPT !.stage = "entry", !.since = Len(dayFile), !.skip = skip,
                                  !.file = f, !.proof = proofs[s], !.id = id]
    /\ UNCHANGED <<vars, keys>>

Exit(code) == reader' = [reader EXCEPT !.stage = "done", !.exit = code]

\* Mutant: of several lines that match, the first is taken.
Selected_First(lines, id) ==
    LET match == {i \in DOMAIN lines : id \in {Absent, lines[i].id}}
    IN  {lines[i] : i \in {j \in match : \A k \in match : j <= k}}

\* _load_entry: the lines --batch-id leaves, all without it; it must be one.
Selected(lines, id) ==
    LET match == {i \in DOMAIN lines : id \in {Absent, lines[i].id}}
    IN  IF Cardinality(match) = 1 THEN {lines[i] : i \in match} ELSE {}

NoEntrySelected ==
    /\ reader.stage = "entry"
    /\ Selected(dayFile, reader.id) = {}
    /\ Exit(2)
    /\ UNCHANGED <<vars, keys>>

\* The claim's own producer first, then the one the entry names.
ProducerOf(file, line) ==
    IF NamedIn[file.content] # Absent THEN NamedIn[file.content] ELSE line.producer

\* Mutant: the entry's producer is not compared with the claim's.
ProducersAgree_ClaimDecides(file, line) == TRUE

\* "claim producer does not match the producer named by the registry entry"
ProducersAgree(file, line) == NamedIn[file.content] \in {Absent, line.producer}

IncludedIn(line) == Included(reader.file, SubjectOf[reader.file.content], reader.proof, line.entry)

\* An entry that does not fit the claim fails at once; that the claim is not
\* included is kept, and the key is asked for first.
ReadEntry ==
    /\ reader.stage = "entry"
    /\ \E line \in Selected(dayFile, reader.id) :
          LET next == [reader EXCEPT !.line = line]
              proceeds == /\ Resolved(SubjectOf[reader.file.content], line.entry)
                          /\ ~reader.skip
                          /\ ProducersAgree(reader.file, line)
          IN  reader' = IF proceeds THEN [next EXCEPT !.stage = "key"]
                        ELSE [next EXCEPT !.stage = "done",
                                          !.exit = IF reader.skip /\ IncludedIn(line) THEN 0 ELSE 1]
    /\ UNCHANGED <<vars, keys>>

\* _fetch_producer_key and verify_claim_against_registry.  A key that cannot be
\* fetched ends with 2, one that is missing in a directory with 1.
ReadKey ==
    LET key == ActiveKey(ProducerOf(reader.file, reader.line))
        passes == key = SignedWith[reader.file.content] /\ IncludedIn(reader.line)
    IN  /\ reader.stage = "key"
        /\ \E code \in IF key = Absent THEN {1, 2} ELSE IF passes THEN {0} ELSE {1} : Exit(code)
        /\ UNCHANGED <<vars, keys>>

ReaderStep == NoEntrySelected \/ ReadEntry \/ ReadKey

ReaderNext ==
    \/ Next /\ UNCHANGED <<keys, reader>>
    \/ \E p \in Producers : ChangeKey(p)
    \/ \E f \in Files, s \in Stems, id \in Ids \cup {Absent}, skip \in BOOLEAN :
          StartReader(f, s, id, skip)
    \/ ReaderStep

ReaderSpec == ReaderInit /\ [][ReaderNext]_readerVars

-----------------------------------------------------------------------------
Signed(file, k, p) == k \in DOMAIN KeysOf[p] /\ KeysOf[p][k] = SignedWith[file.content]

\* What exit code 0 promises, whatever is published and whichever key replaced
\* between the two reads: the retained file is in the batch of a published entry,
\* where the proof says, and, unless the reader would not look, the producer this
\* entry names (anybody may name anybody) had registered the key that signed it.
PassIsEarned ==
    reader.stage = "done" /\ reader.exit = 0 =>
        LET line == reader.line
            at == reader.proof.index + 1
        IN  /\ line \in ToSet(dayFile)
            /\ at \in DOMAIN line.batch
            /\ ClaimBytes(line.batch[at], construction) = ClaimBytes(reader.file, construction)
            /\ reader.skip \/ \E k \in 1..keys[line.producer] :
                                  Signed(reader.file, k, line.producer)

\* There is no false alarm: a retained file that the producer of a published entry
\* signed, with the key it still has, passes with the proof file of its batch; or
\* the reader is told to choose, for another entry has the id he asked for.
GenuinePasses ==
    reader.stage = "done" =>
        \A i \in 1..reader.since :
            LET line == dayFile[i]
                matching == {j \in DOMAIN dayFile : reader.id \in {Absent, dayFile[j].id}}
            IN  /\ i \in matching
                /\ line.batch = claims
                /\ reader.file = claims[reader.proof.index + 1]
                /\ NamedIn[reader.file.content] \in {Absent, line.producer}
                /\ keys[line.producer] = 1 /\ Signed(reader.file, 1, line.producer)
                => reader.exit = 0 \/ (reader.exit = 2 /\ matching # {i})
=============================================================================
