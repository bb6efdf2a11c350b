--------------------------- MODULE MCTantivyIndex ---------------------------
(* Instances of TantivyIndex for TLC. *)
EXTENDS TantivyIndex, TLC

CONSTANTS c1, c2, k1, k2

Good(k) == [key |-> k, valid |-> TRUE]
Bad(k) == [key |-> k, valid |-> FALSE]

\* One batch that is accepted and one whose second document is rejected.
MCBatches == {<<Good(k1), Good(k2)>>, <<Good(k1), Bad(k2)>>}

\* With a single identifier: two documents share it; also the empty batch.
MCOneKeyBatches == {<<>>, <<Good(k1), Good(k1)>>, <<Good(k1), Bad(k1)>>}

\* The locals of a thread outside any method are dead: states that differ only
\* there are one state.
Running(f, none) == [c \in Callers |-> IF todo[c] = <<>> THEN none ELSE f[c]]
LiveState == <<shared, todo, Running(arg, NoArg), Running(built, 0),
               Running(added, 0), Running(view, NoView), Running(published, 0),
               calls, faults, acked, rejected, part \ failed>>

Symmetry == Permutations({c1, c2})
=============================================================================
