----------------------------- MODULE Selection -----------------------------
(***************************************************************************)
(* Selecting elements of a sequence by their positions, in the order of    *)
(* the sequence.  Selected(s, {i \in DOMAIN s : P(s[i])}) is SelectSeq of  *)
(* s and P; SelectSeq itself has no definition the provers can expand.     *)
(***************************************************************************)
EXTENDS Integers, Sequences, FiniteSets

\* The numbers of S below p.
Below(S, p) == {q \in S : q < p}

\* The numbers of S in increasing order.
InOrder(S) == [n \in 1..Cardinality(S) |-> CHOOSE p \in S : Cardinality(Below(S, p)) = n - 1]

\* The elements of s at the positions P, in order.
Selected(s, P) == [n \in 1..Cardinality(P) |-> s[InOrder(P)[n]]]
=============================================================================
