---------------------------- MODULE RegistryFiles ----------------------------
(***************************************************************************)
(* The registry as files: registry/YYYY/MM/DD.ndjson, what git makes of    *)
(* two changes to them, and the gates CI runs over them                    *)
(* (tools/check_append_only.py, tools/validate_registry.py and             *)
(* tools/verify_checkpoint_chain.py in .github/workflows/ci.yml).          *)
(*                                                                         *)
(* The files are a function from days to sequences of lines; a day without *)
(* a file has the empty sequence, as no tool writes an empty file.  A line *)
(* is an entry that satisfies the schema.                                  *)
(***************************************************************************)
EXTENDS CheckpointChain

CONSTANTS
    LastDay,     \* bound: days that have a file
    TicksPerDay  \* instants the clock shows in a day

ASSUME DayAssumption == LastDay \in Nat /\ TicksPerDay \in Nat \ {0}

Days == 1..LastDay
Day(time) == (time - 1) \div TicksPerDay + 1

\* load_published_entries: files in path order, lines in file order.
EntriesOf(files) == FlattenSeq(files)

WithLine(files, d, line) == [files EXCEPT ![d] = Append(@, line)]

-----------------------------------------------------------------------------
\* check_append_only.py: no file is deleted or shortened and every old line is
\* unchanged at its place; new files and new lines are free.
AppendOnly(old, new) ==
    \A d \in Days :
        /\ Len(new[d]) >= Len(old[d])
        /\ \A i \in DOMAIN old[d] : new[d][i] = old[d][i]

\* validate_registry.py: timestamps never go back within a file.
InOrder(lines) == \A i \in 2..Len(lines) : lines[i - 1].ts <= lines[i].ts
TimestampsOrdered(files) == \A d \in Days : InOrder(files[d])

\* trace-verify chain registry/*/*/*.ndjson
ChainHolds(files) == ChainVerified(EntriesOf(files))

\* Mutant: only the fixed day files of the smoke test have their chain verified.
GatesPass_SmokeTest(base, files) ==
    /\ AppendOnly(base, files)
    /\ TimestampsOrdered(files)
    /\ ChainVerified(files[1])

\* Mutant: the order of timestamps is left to the writers.
GatesPass_AnyOrder(base, files) ==
    /\ AppendOnly(base, files)
    /\ ChainHolds(files)

\* The registry gates of ci.yml over a tree, against the tree it comes from.
GatesPass(base, files) ==
    /\ AppendOnly(base, files)
    /\ TimestampsOrdered(files)
    /\ ChainHolds(files)

-----------------------------------------------------------------------------
\* git merge of two branches of base, file by file: a file both sides changed
\* differently is a conflict.  Two appends always are: they insert at one place.
Mergeable(base, ours, theirs) ==
    \A d \in Days : theirs[d] = base[d] \/ ours[d] = base[d] \/ ours[d] = theirs[d]

Merged(base, ours, theirs) ==
    [d \in Days |-> IF theirs[d] = base[d] THEN ours[d] ELSE theirs[d]]
=============================================================================
