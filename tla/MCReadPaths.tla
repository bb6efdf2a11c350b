---------------------------- MODULE MCReadPaths ----------------------------
(* An instance of ReadPaths for TLC. *)
EXTENDS ReadPaths

CONSTANTS k1, k2

\* What a document's number, and whether it decodes, depends on: one of a kind is
\* enough, and a second document of k1 that shares its identifier.
d1 == [key |-> k1, num |-> TRUE, readable |-> TRUE]
d2 == [key |-> k2, num |-> FALSE, readable |-> TRUE]
bad == [key |-> k1, num |-> TRUE, readable |-> FALSE]
twin == [key |-> k1, num |-> FALSE, readable |-> TRUE]

MCVersions == {<<>>, <<d1>>, <<d2, d1>>, <<d1, twin, d2>>, <<d2, bad>>, <<twin, d1, bad, d2>>}
MCIdLists == {<<>>, <<k1>>, <<k2, k1>>, <<k1, k1>>, <<k1, BadKey>>}
MCLimits == {-1, 0, 1, 2, 3}

\* Selecting by position is selecting by a test of the elements.
ASSUME SelectedIsSelectSeq == \A s \in BoundedSeq({1, 2, 3}, 4), T \in SUBSET {1, 2, 3} :
  Selected(s, {i \in DOMAIN s : s[i] \in T}) = SelectSeq(s, LAMBDA x : x \in T)
=============================================================================
