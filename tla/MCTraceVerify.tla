---------------------------- MODULE MCTraceVerify ----------------------------
(* Instances of ManualAnchor and of its readers for TLC. *)
EXTENDS TraceVerify

\* Two records, one of them in two forms and two of them of one stem, and an
\* envelope.
File(stem, content, form) == [stem |-> stem, content |-> content, form |-> form]
MCFiles == {File("x", "a", "sorted"), File("y", "a", "other"), File("x", "b", "sorted"),
            File("z", "c", "other")}
MCSubjectOf == [c \in {"a", "b", "c"} |-> IF c = "c" THEN "envelope" ELSE "record"]

\* The first names its producer, who signed it; the second names none; the
\* third was not signed by the producer it names.
MCProducers == {"p", "q"}
MCIds == {"i", "j"}
MCNamedIn == [c \in {"a", "b", "c"} |-> CASE c = "a" -> "p" [] c = "b" -> Absent [] c = "c" -> "p"]
MCSignedWith == [c \in {"a", "b", "c"} |-> CASE c = "a" -> "p1" [] c = "b" -> "q1" [] c = "c" -> "q1"]
MCKeysOf == [x \in MCProducers |-> IF x = "p" THEN <<"p1", "p2">> ELSE <<"q1">>]
MCOthers == {File("x", "b", "sorted")}
=============================================================================
