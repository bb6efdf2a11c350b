---------------------------- MODULE MCTypedIndex ----------------------------
(* An instance of TypedIndex for TLC. *)
EXTENDS TypedIndex, TLC

CONSTANTS c1, c2, k1, k2

\* A batch of two good documents, and one whose second document is rejected.
MCBatches == {<<[key |-> k1, valid |-> TRUE], [key |-> k2, valid |-> v]>> : v \in BOOLEAN}

\* The locals of native methods are dead outside of them; which version the
\* reader is on, no step and no property here depends on; and what only the
\* properties of TantivyIndex look at is left out.
Inside(f, none) == [c \in Clients |-> IF todo[c] = <<>> THEN none ELSE f[c]]
LiveState == <<writer, poisoned, log, commits, loading # 0, todo, Inside(arg, 0),
               Inside(built, 0), Inside(added, 0), calls, faults,
               mutex, run, ops, plain, kept>>

Symmetry == Permutations({c1, c2})
=============================================================================
