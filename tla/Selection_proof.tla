-------------------------- MODULE Selection_proof --------------------------
(***************************************************************************)
(* Lemmas on selections: InOrder lists a finite set of numbers once, in    *)
(* increasing order, and is the only such listing (a number is at the      *)
(* place its rank says); selecting what was selected is one selection.     *)
(* And on loops: every one has a history (Iterate), whose invariants are   *)
(* shown by induction over its steps (Upwards).                            *)
(***************************************************************************)
EXTENDS Selection, FiniteSetTheorems, SequenceTheorems, WellFoundedInduction, TLAPS

\* The larger of two numbers of a finite set has more numbers below it, and
\* none has all of them.
LEMMA BelowGrows ==
  ASSUME NEW S \in SUBSET Int, IsFiniteSet(S), NEW p \in S, NEW q \in S, p < q
  PROVE  /\ Cardinality(Below(S, p)) \in Nat /\ Cardinality(Below(S, q)) \in Nat
         /\ Cardinality(Below(S, p)) < Cardinality(Below(S, q))
<1>1. /\ IsFiniteSet(Below(S, q)) /\ Cardinality(Below(S, q)) \in Nat
      /\ IsFiniteSet(Below(S, p)) /\ Cardinality(Below(S, p)) \in Nat
  <2>1. Below(S, q) \in SUBSET S /\ Below(S, p) \in SUBSET S
    BY DEF Below
  <2> QED BY <2>1, FS_Subset, FS_CardinalityType
<1>2. Below(S, p) \in SUBSET Below(S, q)
  <2>1. \A x \in S : x \in Int /\ p \in Int /\ q \in Int /\ (x < p => x < q)
    OBVIOUS
  <2> QED BY <2>1 DEF Below
<1>3. p \in Below(S, q) /\ p \notin Below(S, p)
  BY DEF Below
<1>4. Cardinality(Below(S, p)) <= Cardinality(Below(S, q))
  BY <1>1, <1>2, FS_Subset
<1>5. Cardinality(Below(S, p)) # Cardinality(Below(S, q))
  BY <1>1, <1>2, <1>3, FS_Subset
<1> QED BY <1>1, <1>4, <1>5

\* Fewer numbers of a finite set are below one of them than are in the set.
LEMMA BelowIsLess ==
  ASSUME NEW S \in SUBSET Int, IsFiniteSet(S), NEW p \in S
  PROVE  Cardinality(Below(S, p)) \in 0..(Cardinality(S) - 1)
<1>1. Below(S, p) \in SUBSET S /\ p \notin Below(S, p)
  BY DEF Below
<1>2. /\ Cardinality(S) \in Nat /\ Cardinality(Below(S, p)) \in Nat
      /\ Cardinality(Below(S, p)) <= Cardinality(S)
      /\ Cardinality(Below(S, p)) # Cardinality(S)
  BY <1>1, FS_Subset, FS_CardinalityType
<1> QED BY <1>2

\* InOrder lists every number of a finite set once, in increasing order.
LEMMA InOrderLists ==
  ASSUME NEW S \in SUBSET Int, IsFiniteSet(S)
  PROVE  /\ InOrder(S) \in [1..Cardinality(S) -> S]
         /\ \A n \in 1..Cardinality(S) : Cardinality(Below(S, InOrder(S)[n])) = n - 1
         /\ \A m, n \in 1..Cardinality(S) : m < n => InOrder(S)[m] < InOrder(S)[n]
         /\ \A p \in S : \E n \in 1..Cardinality(S) : InOrder(S)[n] = p
<1>1. PICK c \in Nat : c = Cardinality(S)
  BY FS_CardinalityType
<1> DEFINE rank == [p \in S |-> Cardinality(Below(S, p)) + 1]
<1>2. rank \in [S -> 1..c]
  BY <1>1, BelowIsLess
<1>3. \A p, q \in S : p < q => rank[p] < rank[q]
  BY BelowGrows
<1>4. rank \in Injection(S, 1..c)
  <2>1. \A p, q \in S : p # q => rank[p] # rank[q]
    <3> HIDE DEF rank
    <3>1. \A p, q \in S : rank[p] \in Int /\ (p # q => p < q \/ q < p)
      BY <1>2, <1>1
    <3> QED BY <1>3, <3>1
  <2> HIDE DEF rank
  <2> QED BY <1>2, <2>1 DEF Injection, IsInjective
<1>5. rank \in Surjection(S, 1..c)
  <2> HIDE DEF rank
  <2>1. IsFiniteSet(1..c) /\ Cardinality(1..c) = c
    BY FS_Interval
  <2> QED BY <1>1, <1>4, <2>1, FS_Injection
<1>6. \A n \in 1..c : \E p \in S : Cardinality(Below(S, p)) = n - 1
  <2> TAKE n \in 1..c
  <2>1. PICK p \in S : rank[p] = n
    <3> HIDE DEF rank
    <3> QED BY <1>5 DEF Surjection
  <2>2. Cardinality(Below(S, p)) \in Nat
    BY BelowIsLess
  <2> QED BY <2>1, <2>2
<1>7. \A n \in 1..c : InOrder(S)[n] \in S /\ Cardinality(Below(S, InOrder(S)[n])) = n - 1
  BY <1>1, <1>6 DEF InOrder
<1>8. InOrder(S) \in [1..c -> S]
  BY <1>1, <1>7 DEF InOrder
<1>9. ASSUME NEW p \in S PROVE \E n \in 1..c : InOrder(S)[n] = p
  <2>1. rank[p] \in 1..c
    BY <1>2
  <2>2. Cardinality(Below(S, InOrder(S)[rank[p]])) + 1 = rank[p]
    BY <2>1, <1>7
  <2>3. InOrder(S)[rank[p]] \in S
    BY <2>1, <1>7
  <2>4. rank[InOrder(S)[rank[p]]] = rank[p]
    BY <2>2, <2>3
  <2>5. InOrder(S)[rank[p]] = p
    <3> HIDE DEF rank
    <3> QED BY <2>4, <2>3, <1>4 DEF Injection, IsInjective
  <2> QED BY <2>1, <2>5
<1>10. ASSUME NEW m \in 1..c, NEW n \in 1..c, m < n
       PROVE  InOrder(S)[m] < InOrder(S)[n]
  <2>1. PICK p \in S, q \in S : p = InOrder(S)[m] /\ q = InOrder(S)[n]
    BY <1>8
  <2>2. Cardinality(Below(S, p)) = m - 1 /\ Cardinality(Below(S, q)) = n - 1
    BY <2>1, <1>7
  <2>3. p # q
    BY <2>2, <1>1, <1>10
  <2>4. ~(q < p)
    <3>1. ASSUME q < p PROVE Cardinality(Below(S, q)) < Cardinality(Below(S, p))
      BY <3>1, BelowGrows
    <3>2. m - 1 < n - 1
      BY <1>1, <1>10
    <3> QED BY <2>2, <3>1, <3>2, <1>1
  <2> QED BY <2>1, <2>3, <2>4
<1> QED BY <1>1, <1>7, <1>8, <1>9, <1>10

\* It is the only such listing: a number with n - 1 below it is the n-th.
LEMMA InOrderIs ==
  ASSUME NEW S \in SUBSET Int, IsFiniteSet(S), NEW p \in S
  PROVE  /\ Cardinality(Below(S, p)) + 1 \in 1..Cardinality(S)
         /\ InOrder(S)[Cardinality(Below(S, p)) + 1] = p
<1>1. PICK n \in 1..Cardinality(S) : InOrder(S)[n] = p
  BY InOrderLists
<1>2. Cardinality(Below(S, p)) = n - 1
  BY <1>1, InOrderLists
<1>3. Cardinality(S) \in Nat
  BY FS_CardinalityType
<1> QED BY <1>1, <1>2, <1>3

-----------------------------------------------------------------------------
\* The selected elements are elements, and every one is selected.
LEMMA SelectedElements ==
  ASSUME NEW E, NEW s \in Seq(E), NEW P \in SUBSET (DOMAIN s)
  PROVE  /\ IsFiniteSet(P) /\ Cardinality(P) \in Nat
         /\ Selected(s, P) \in Seq(E) /\ Len(Selected(s, P)) = Cardinality(P)
         /\ \A n \in 1..Cardinality(P) :
              InOrder(P)[n] \in P /\ Selected(s, P)[n] = s[InOrder(P)[n]]
         /\ \A p \in P : \E n \in 1..Cardinality(P) :
              InOrder(P)[n] = p /\ Selected(s, P)[n] = s[p]
<1>1. DOMAIN s = 1..Len(s) /\ Len(s) \in Nat /\ \A p \in 1..Len(s) : s[p] \in E
  OBVIOUS
<1>2. IsFiniteSet(P) /\ P \in SUBSET Int /\ Cardinality(P) \in Nat
  <2>1. IsFiniteSet(1..Len(s)) /\ P \in SUBSET (1..Len(s))
    BY <1>1, FS_Interval
  <2> QED BY <1>1, <2>1, FS_Subset, FS_CardinalityType
<1>3. /\ \A n \in 1..Cardinality(P) : InOrder(P)[n] \in P
      /\ \A p \in P : \E n \in 1..Cardinality(P) : InOrder(P)[n] = p
  BY <1>2, InOrderLists
<1>4. \A n \in 1..Cardinality(P) :
        Selected(s, P)[n] = s[InOrder(P)[n]] /\ Selected(s, P)[n] \in E
  BY <1>1, <1>3 DEF Selected
<1>5. Selected(s, P) \in [1..Cardinality(P) -> E]
  BY <1>4 DEF Selected
<1>6. Selected(s, P) \in Seq(E) /\ Len(Selected(s, P)) = Cardinality(P)
  BY <1>2, <1>5
<1> QED BY SMTT(60), <1>2, <1>3, <1>4, <1>6

\* Selecting two sets of positions, one after the other.
LEMMA SelectedUnion ==
  ASSUME NEW E, NEW s \in Seq(E), NEW P \in SUBSET (DOMAIN s), NEW Q \in SUBSET (DOMAIN s),
         \A p \in P : \A q \in Q : p < q
  PROVE  Selected(s, P \cup Q) = Selected(s, P) \o Selected(s, Q)
<1> DEFINE R == P \cup Q
<1>1. PICK m \in Nat, k \in Nat : m = Cardinality(P) /\ k = Cardinality(Q)
  BY SelectedElements
<1>2. /\ IsFiniteSet(P) /\ IsFiniteSet(Q) /\ P \in SUBSET Int /\ Q \in SUBSET Int
      /\ P \cap Q = {} /\ R \in SUBSET (DOMAIN s) /\ R \in SUBSET Int
  <2>1. DOMAIN s \in SUBSET Int
    OBVIOUS
  <2>2. \A p \in P : p \in Int /\ p \notin Q
    BY <2>1
  <2> QED BY <2>1, <2>2, SelectedElements
<1>3. IsFiniteSet(R) /\ Cardinality(R) = m + k
  <2>1. Cardinality(R) = Cardinality(P) + Cardinality(Q) - Cardinality({}) /\ IsFiniteSet(R)
    BY <1>2, FS_Union
  <2>2. Cardinality({}) = 0
    BY FS_EmptySet
  <2> HIDE DEF R
  <2> QED BY <1>1, <2>1, <2>2
<1>4. ASSUME NEW n \in 1..m PROVE InOrder(R)[n] = InOrder(P)[n]
  <2>1. PICK p \in P : p = InOrder(P)[n] /\ Cardinality(Below(P, p)) = n - 1
    BY <1>1, <1>2, InOrderLists
  <2>2. Below(R, p) = Below(P, p)
    <3>1. \A q \in Q : q \in Int /\ p \in Int /\ ~(q < p)
      BY <1>2
    <3> QED BY <3>1 DEF Below
  <2>3. InOrder(R)[(n - 1) + 1] = p
    <3>1. p \in R
      OBVIOUS
    <3> HIDE DEF R
    <3> QED BY <1>2, <1>3, <2>1, <2>2, <3>1, InOrderIs
  <2>4. (n - 1) + 1 = n
    OBVIOUS
  <2> HIDE DEF R
  <2> QED BY <2>1, <2>3, <2>4
<1>5. ASSUME NEW n \in 1..k PROVE InOrder(R)[m + n] = InOrder(Q)[n]
  <2>1. PICK q \in Q : q = InOrder(Q)[n] /\ Cardinality(Below(Q, q)) = n - 1
    BY <1>1, <1>2, InOrderLists
  <2>2. Below(R, q) = P \cup Below(Q, q)
    <3>1. \A p \in P : p < q
      OBVIOUS
    <3> QED BY <3>1 DEF Below
  <2>3. Cardinality(Below(R, q)) = m + (n - 1)
    <3>1. Below(Q, q) \in SUBSET Q /\ P \cap Below(Q, q) = {}
      BY <1>2 DEF Below
    <3>2. IsFiniteSet(Below(Q, q))
      BY <1>2, <3>1, FS_Subset
    <3>3. Cardinality(P \cup Below(Q, q)) = Cardinality(P) + Cardinality(Below(Q, q)) - Cardinality({})
      BY <1>2, <3>1, <3>2, FS_Union
    <3>4. Cardinality({}) = 0
      BY FS_EmptySet
    <3> HIDE DEF R
    <3> QED BY <1>1, <2>1, <2>2, <3>3, <3>4
  <2>4. InOrder(R)[(m + (n - 1)) + 1] = q
    <3>1. q \in R
      OBVIOUS
    <3> HIDE DEF R
    <3> QED BY <1>2, <1>3, <2>3, <3>1, InOrderIs
  <2>5. (m + (n - 1)) + 1 = m + n
    OBVIOUS
  <2> HIDE DEF R
  <2> QED BY <2>1, <2>4, <2>5
<1>6. /\ Selected(s, P) \in Seq(E) /\ Len(Selected(s, P)) = m
      /\ Selected(s, Q) \in Seq(E) /\ Len(Selected(s, Q)) = k
      /\ Selected(s, R) \in Seq(E) /\ Len(Selected(s, R)) = m + k
  <2> HIDE DEF R
  <2> QED BY <1>1, <1>2, <1>3, SelectedElements
<1>7. \A n \in 1..m : Selected(s, R)[n] = Selected(s, P)[n]
  <2> HIDE DEF R
  <2>1. \A n \in 1..m : n \in 1..(m + k)
    OBVIOUS
  <2> QED BY <1>1, <1>3, <1>4, <2>1 DEF Selected
<1>8. \A n \in 1..k : Selected(s, R)[m + n] = Selected(s, Q)[n]
  <2> HIDE DEF R
  <2>1. \A n \in 1..k : m + n \in 1..(m + k)
    OBVIOUS
  <2> QED BY <1>1, <1>3, <1>5, <2>1 DEF Selected
<1>9. \A n \in 1..(m + k) :
        Selected(s, R)[n] = (Selected(s, P) \o Selected(s, Q))[n]
  <2> TAKE n \in 1..(m + k)
  <2>1. (Selected(s, P) \o Selected(s, Q))[n]
          = IF n <= m THEN Selected(s, P)[n] ELSE Selected(s, Q)[n - m]
    <3> HIDE DEF R
    <3> QED BY <1>6, ConcatProperties
  <2>2. CASE n <= m
    <3>1. n \in 1..m
      BY <2>2
    <3> HIDE DEF R
    <3> QED BY <1>7, <2>1, <2>2, <3>1
  <2>3. CASE ~(n <= m)
    <3>1. n - m \in 1..k /\ m + (n - m) = n
      BY <2>3
    <3> HIDE DEF R
    <3> QED BY <1>8, <2>1, <2>3, <3>1
  <2> QED BY <2>2, <2>3
<1> HIDE DEF R
<1>10. /\ Selected(s, P) \o Selected(s, Q) \in Seq(E)
       /\ Len(Selected(s, P) \o Selected(s, Q)) = m + k
  BY <1>6, ConcatProperties
<1>11. Selected(s, R) = Selected(s, P) \o Selected(s, Q)
  BY <1>6, <1>9, <1>10, SeqEqual
<1> QED BY <1>11 DEF R

\* Selecting one position.
LEMMA SelectedOne ==
  ASSUME NEW E, NEW s \in Seq(E), NEW c \in DOMAIN s
  PROVE  Selected(s, {c}) = <<s[c]>>
<1>1. PICK P \in SUBSET (DOMAIN s) : P = {c}
  OBVIOUS
<1>2. Cardinality(P) = 1
  BY <1>1, FS_Singleton
<1>3. /\ Selected(s, P) \in Seq(E) /\ Len(Selected(s, P)) = Cardinality(P)
      /\ \A n \in 1..Cardinality(P) :
           InOrder(P)[n] \in P /\ Selected(s, P)[n] = s[InOrder(P)[n]]
  BY SelectedElements
<1>4. InOrder(P)[1] \in P /\ Selected(s, P)[1] = s[InOrder(P)[1]] /\ Len(Selected(s, P)) = 1
  BY <1>2, <1>3
<1>5. Selected(s, P)[1] = s[c] /\ s[c] \in E
  BY <1>1, <1>4
<1>6. Selected(s, P) = <<s[c]>>
  BY <1>3, <1>4, <1>5
<1> QED BY <1>1, <1>6

\* f lists m numbers in increasing order, all of W among them.
Lists(f, m, W) ==
  /\ m \in Nat /\ f \in [1..m -> Int] /\ W \in SUBSET Int
  /\ \A i, j \in 1..m : i < j => f[i] < f[j]
  /\ \A p \in W : \E i \in 1..m : f[i] = p

\* Where the numbers of W are in that list.
Places(f, m, W) == {i \in 1..m : f[i] \in W}

\* Selecting from what was selected: the places of W in an increasing list
\* give W, in order.
LEMMA SelectedTwice ==
  ASSUME NEW m, NEW f, NEW W, Lists(f, m, W)
  PROVE  /\ Cardinality(Places(f, m, W)) = Cardinality(W)
         /\ \A n \in 1..Cardinality(W) : f[InOrder(Places(f, m, W))[n]] = InOrder(W)[n]
<1>1. PICK K : K = Places(f, m, W)
  OBVIOUS
<1>2. K \in SUBSET (1..m) /\ \A i \in 1..m : i \in K <=> f[i] \in W
  BY <1>1 DEF Places
<1>3. /\ m \in Nat /\ f \in [1..m -> Int] /\ W \in SUBSET Int
      /\ \A i, j \in 1..m : i < j => f[i] < f[j]
      /\ \A p \in W : \E i \in 1..m : f[i] = p
  BY DEF Lists
<1> DEFINE g(k) == [i \in Below(K, k) |-> f[i]]
           h == [i \in K |-> f[i]]
<1>4. IsFiniteSet(K) /\ K \in SUBSET Int /\ Cardinality(K) \in Nat
  <2>1. IsFiniteSet(1..m)
    BY <1>3, FS_Interval
  <2>2. IsFiniteSet(K)
    BY <2>1, <1>2, FS_Subset
  <2> QED BY <2>2, <1>2, FS_CardinalityType
<1>5. \A i, j \in K : f[i] = f[j] => i = j
  BY <1>2, <1>3
<1>6. h \in Surjection(K, W) /\ h \in Injection(K, W)
  BY <1>5, <1>2, <1>3 DEF Surjection, Injection, IsInjective
<1>7. IsFiniteSet(W) /\ Cardinality(K) = Cardinality(W)
  <2> HIDE DEF h
  <2> QED BY <1>4, <1>6, FS_Surjection
<1>8. ASSUME NEW k \in K
      PROVE  Cardinality(Below(K, k)) = Cardinality(Below(W, f[k]))
  <2>1. IsFiniteSet(Below(K, k))
    <3>1. Below(K, k) \in SUBSET K
      BY DEF Below
    <3> QED BY <3>1, <1>4, FS_Subset
  <2>2. \A i \in 1..m : f[i] < f[k] <=> i < k
    BY <1>2, <1>3
  <2>3. g(k) \in [Below(K, k) -> Below(W, f[k])]
    BY <2>2, <1>2, <1>3 DEF Below
  <2>4. \A p \in Below(W, f[k]) : \E i \in Below(K, k) : f[i] = p
    BY <2>2, <1>2, <1>3 DEF Below
  <2>5. \A i, j \in Below(K, k) : f[i] = f[j] => i = j
    BY <1>5 DEF Below
  <2>6. g(k) \in Surjection(Below(K, k), Below(W, f[k]))
    BY <2>3, <2>4 DEF Surjection
  <2>7. g(k) \in Injection(Below(K, k), Below(W, f[k]))
    BY <2>3, <2>5 DEF Injection, IsInjective
  <2> HIDE DEF g
  <2> QED BY <2>1, <2>6, <2>7, FS_Surjection
<1>9. ASSUME NEW n \in 1..Cardinality(K)
      PROVE  f[InOrder(K)[n]] = InOrder(W)[n]
  <2>1. PICK k \in K : k = InOrder(K)[n] /\ Cardinality(Below(K, k)) = n - 1
    BY <1>4, InOrderLists
  <2>2. f[k] \in W /\ Cardinality(Below(W, f[k])) + 1 = n
    BY <2>1, <1>8, <1>4, <1>2
  <2> QED BY ZenonT(60), <2>1, <2>2, <1>7, <1>3, InOrderIs
<1> QED BY <1>4, <1>7, <1>9, <1>1

-----------------------------------------------------------------------------
(* Numbers and loops *)

\* A set of natural numbers has a least element.
LEMMA Least ==
  ASSUME NEW T, T \subseteq Nat, T # {}
  PROVE  \E x \in T : \A y \in T : x <= y
<1> DEFINE R == {p \in Nat \X Nat : p[1] < p[2]}
<1>1. IsWellFoundedOn(R, Nat)
  BY NatLessThanWellFounded DEF OpToRel
<1>2. PICK x \in T : \A y \in T : ~(<<y, x>> \in R)
  <2> HIDE DEF R
  <2> QED BY <1>1, WFMin
<1>3. \A y \in T : ~(y < x)
  <2> TAKE y \in T
  <2>1. <<y, x>> \in Nat \X Nat
    OBVIOUS
  <2> QED BY <1>2, <2>1
<1> QED BY <1>3

\* One with a bound has a greatest.
LEMMA Greatest ==
  ASSUME NEW n \in Nat, NEW T, T \subseteq 0..n, T # {}
  PROVE  \E x \in T : \A y \in T : y <= x
<1> DEFINE U == {m \in 0..n : n - m \in T}
<1>1. \A y \in T : y \in Int /\ 0 <= y /\ y <= n /\ n - y \in U
  OBVIOUS
<1>2. PICK m \in U : \A z \in U : m <= z
  <2>1. U \subseteq Nat
    OBVIOUS
  <2>2. PICK y \in T : TRUE
    OBVIOUS
  <2>3. n - y \in U
    BY <1>1
  <2> HIDE DEF U
  <2> QED BY <2>1, <2>3, Least
<1>3. \A y \in T : m <= n - y
  <2> HIDE DEF U
  <2> QED BY <1>1, <1>2
<1>4. n - m \in T /\ m \in Int
  OBVIOUS
<1> QED BY <1>1, <1>3, <1>4

\* Induction over an interval.
LEMMA Upwards ==
  ASSUME NEW lo \in Nat, NEW hi \in Nat, lo <= hi, NEW T,
         lo \in T, \A i \in (lo + 1)..hi : i - 1 \in T => i \in T
  PROVE  \A i \in lo..hi : i \in T
<1> SUFFICES ASSUME {i \in lo..hi : i \notin T} # {} PROVE FALSE
  OBVIOUS
<1>1. PICK n \in {i \in lo..hi : i \notin T} : \A m \in {i \in lo..hi : i \notin T} : n <= m
  <2>1. {i \in lo..hi : i \notin T} \subseteq Nat
    OBVIOUS
  <2> QED BY <2>1, Least
<1>2. n \in lo..hi /\ n \notin T /\ n # lo
  OBVIOUS
<1>3. n \in (lo + 1)..hi /\ n - 1 \in lo..hi
  BY <1>2
<1>4. n - 1 \in T
  BY <1>1, <1>3
<1> QED BY <1>2, <1>3, <1>4

\* A loop over lo + 1 .. hi that keeps its state in S, and a history of it.
Loop(lo, hi, S, base, step) ==
  /\ lo \in Nat /\ hi \in Nat /\ lo <= hi /\ base \in S
  /\ \A i \in (lo + 1)..hi : \A s \in S : step[<<i, s>>] \in S

History(f, lo, hi, S, base, step) ==
  /\ f \in [lo..hi -> S] /\ f[lo] = base
  /\ \A i \in (lo + 1)..hi : f[i] = step[<<i, f[i - 1]>>]

\* Every loop has one.
LEMMA Iterate ==
  ASSUME NEW lo, NEW hi, NEW S, NEW base, NEW step, Loop(lo, hi, S, base, step)
  PROVE  \E f : History(f, lo, hi, S, base, step)
<1>1. /\ lo \in Nat /\ hi \in Nat /\ lo <= hi /\ base \in S
      /\ \A i \in (lo + 1)..hi : \A s \in S : step[<<i, s>>] \in S
  BY DEF Loop
<1> DEFINE Has(n) == \E f : History(f, lo, n, S, base, step)
           T == {n \in lo..hi : Has(n)}
<1>2. lo \in T
  <2> DEFINE g == [i \in lo..lo |-> base]
  <2>1. g \in [lo..lo -> S] /\ g[lo] = base
    BY <1>1
  <2>2. (lo + 1)..lo = {} /\ lo \in lo..hi
    BY <1>1
  <2> HIDE DEF g
  <2>3. History(g, lo, lo, S, base, step)
    BY <2>1, <2>2 DEF History
  <2> QED BY <2>2, <2>3
<1>3. ASSUME NEW n \in (lo + 1)..hi, n - 1 \in T PROVE n \in T
  <2>1. PICK f : History(f, lo, n - 1, S, base, step)
    BY <1>3
  <2>2. /\ f \in [lo..(n - 1) -> S] /\ f[lo] = base
        /\ \A i \in (lo + 1)..(n - 1) : f[i] = step[<<i, f[i - 1]>>]
    BY <2>1 DEF History
  <2> DEFINE g == [i \in lo..n |-> IF i = n THEN step[<<n, f[n - 1]>>] ELSE f[i]]
  <2>3. f[n - 1] \in S /\ step[<<n, f[n - 1]>>] \in S
    BY <1>1, <2>2
  <2>4. g \in [lo..n -> S] /\ g[lo] = base
    BY <1>1, <2>2, <2>3
  <2>5. \A i \in (lo + 1)..n : g[i] = step[<<i, g[i - 1]>>]
    <3> TAKE i \in (lo + 1)..n
    <3>1. g[i - 1] = f[i - 1]
      BY <1>1
    <3>2. CASE i = n
      <4>1. g[n] = step[<<n, f[n - 1]>>]
        BY <1>1
      <4> HIDE DEF g
      <4> QED BY <3>1, <3>2, <4>1
    <3>3. CASE i # n
      <4>1. i \in (lo + 1)..(n - 1) /\ g[i] = f[i]
        BY <3>3, <1>1
      <4> QED BY <3>1, <4>1, <2>2
    <3> QED BY <3>2, <3>3
  <2>6. History(g, lo, n, S, base, step)
    <3> HIDE DEF g
    <3> QED BY <2>4, <2>5 DEF History
  <2>7. n \in lo..hi
    BY <1>1
  <2> QED BY <2>6, <2>7
<1>4. \A i \in lo..hi : i \in T
  <2> HIDE DEF T
  <2> QED BY <1>1, <1>2, <1>3, Upwards
<1>5. hi \in lo..hi
  BY <1>1
<1> QED BY <1>4, <1>5
=============================================================================
