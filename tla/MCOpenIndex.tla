---------------------------- MODULE MCOpenIndex ----------------------------
(* Instances of OpenIndex for TLC. *)
EXTENDS OpenIndex, TLC

CONSTANTS t1, t2, n1, n2, b1, dir, stored

Symmetry == Permutations({t1, t2}) \cup Permutations({n1, n2})

\* What a finished call was about is dead.
Active == [t \in Threads |-> IF at[t] = "idle" THEN None ELSE open[t]]
ActiveState == <<builder, disk, lock, at, Active, owned, orphans, made, calls,
                 faults, aux>>
=============================================================================
