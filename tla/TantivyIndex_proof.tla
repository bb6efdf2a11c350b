------------------------- MODULE TantivyIndex_proof -------------------------
(***************************************************************************)
(* Proofs about TantivyIndex, for any set of threads, identifiers and      *)
(* batches and any bounds.                                                 *)
(*                                                                         *)
(* What a method does next is in todo, so the inductive invariant says     *)
(* what may stand in todo: LockShape (a statement that touches the writer  *)
(* comes after the lock), TermShape, AddShape (as many additions are left  *)
(* as documents), ReloadShape (a commit is followed by a reload, which is  *)
(* the last statement).  Each is                                           *)
(* about positions in the sequence, so running the first statement keeps   *)
(* it by a shift of one.                                                   *)
(*                                                                         *)
(* The sections after that prove what one call may do to the others' work, *)
(* each from one more invariant (BatchInv, PoisonInv, CallInv, ViewInv),   *)
(* and that TantivyIndex implements AtomicIndex.                           *)
(***************************************************************************)
EXTENDS TantivyIndex, SequenceTheorems, TLAPS

Running(c) == todo[c] # <<>>

\* Arguments are those of a method of this object.
ArgInv == \A c \in Callers :
  /\ DOMAIN arg[c].batch \subseteq Positions
  /\ Running(c) => arg[c].n \in 1..calls

\* A statement that touches the writer waits for the lock or has it.
LockShape == \A c \in Callers : \A i \in 1..Len(todo[c]) :
  todo[c][i] \in WriterSteps =>
    writer = c \/ \E j \in 1..(i - 1) : todo[c][j] = "lock"

\* A delete is reached only with a term.
TermShape == \A c \in Callers : \A i \in 1..Len(todo[c]) :
  todo[c][i] = "delete_term" =>
    BadKey \notin arg[c].keys \/ \E j \in 1..(i - 1) : todo[c][j] = "term"

\* If additions are left, they are the last statements, one for each of the b
\* documents of the argument that is not among the a already added.
AddsLast(s, b, a) ==
  (\E i \in 1..Len(s) : s[i] = "add") =>
    /\ b <= Len(s) + a
    /\ \A i \in 1..Len(s) : s[i] = "add" <=> b + i > Len(s) + a

AddShape == \A c \in Callers : AddsLast(todo[c], Len(arg[c].batch), added[c])

\* A commit is followed by a reload, a reload is the last statement, and a call
\* that has published version p (0: none) and is not over has one left.
ReloadsLast(s, p) ==
  /\ \A i \in 1..Len(s) : s[i] = "commit" => \E j \in (i + 1)..Len(s) : s[j] = "reload"
  /\ \A i \in 1..Len(s) : s[i] = "reload" => i = Len(s)
  /\ s # <<>> /\ p # 0 => \E i \in 1..Len(s) : s[i] = "reload"

ReloadShape == \A c \in Callers : /\ published[c] <= Len(commits)
                                  /\ ReloadsLast(todo[c], published[c])

IInv == /\ TypeOK /\ ArgInv /\ LockShape /\ TermShape /\ AddShape
        /\ ReloadShape

-----------------------------------------------------------------------------
(* Bodies of methods *)

\* What the invariant needs of the body, argument and identifiers of a call.
GoodBody(s, batch, keys, limit) ==
  /\ s \in Seq(Steps)
  /\ batch \in Seq(Input) /\ DOMAIN batch \subseteq Positions
  /\ keys \subseteq Keys \cup {BadKey}
  /\ limit \in Nat
  /\ \A i \in 1..Len(s) :
       /\ s[i] \in WriterSteps => \E j \in 1..(i - 1) : s[j] = "lock"
       /\ s[i] = "delete_term" => \E j \in 1..(i - 1) : s[j] = "term"
  /\ AddsLast(s, Len(batch), 0)
  /\ ReloadsLast(s, 0)

\* A short body whose statements are written out.
LEMMA EmptyBatch ==
  <<>> \in Seq(Input) /\ DOMAIN <<>> = {} /\ Len(<<>>) = 0
OBVIOUS

\* The body of clear_index has the shape of a method.
LEMMA ClearBody == GoodBody(<<"lock", "delete_all", "commit", "reload">>, <<>>, {}, 0)
<1> DEFINE s == <<"lock", "delete_all", "commit", "reload">>
<1>1. Len(s) = 4 /\ s[1] = "lock" /\ s[2] = "delete_all" /\ s[3] = "commit"
      /\ s[4] = "reload" /\ s \in Seq(Steps)
  BY DEF Steps, WriterSteps
<1> HIDE DEF s
<1>2. GoodBody(s, <<>>, {}, 0)
  BY <1>1, EmptyBatch DEF GoodBody, WriterSteps, AddsLast, ReloadsLast
<1> QED BY <1>2 DEF s

\* The body of commit has the shape of a method.
LEMMA CommitBody == GoodBody(<<"lock", "commit", "reload">>, <<>>, {}, 0)
<1> DEFINE s == <<"lock", "commit", "reload">>
<1>1. Len(s) = 3 /\ s[1] = "lock" /\ s[2] = "commit" /\ s[3] = "reload"
      /\ s \in Seq(Steps)
  BY DEF Steps, WriterSteps
<1> HIDE DEF s
<1>2. GoodBody(s, <<>>, {}, 0)
  BY <1>1, EmptyBatch DEF GoodBody, WriterSteps, AddsLast, ReloadsLast
<1> QED BY <1>2 DEF s

\* The body of delete_doc has the shape of a method.
LEMMA DeleteBody ==
  ASSUME NEW k \in Keys \cup {BadKey}
  PROVE  GoodBody(<<"term", "lock", "delete_term", "commit", "reload">>, <<>>, {k}, 0)
<1> DEFINE s == <<"term", "lock", "delete_term", "commit", "reload">>
<1>1. Len(s) = 5 /\ s[1] = "term" /\ s[2] = "lock" /\ s[3] = "delete_term"
      /\ s[4] = "commit" /\ s[5] = "reload" /\ s \in Seq(Steps)
  BY DEF Steps, WriterSteps
<1> HIDE DEF s
<1>2. GoodBody(s, <<>>, {k}, 0)
  BY <1>1, EmptyBatch DEF GoodBody, WriterSteps, AddsLast, ReloadsLast
<1> QED BY <1>2 DEF s

\* The body of delete_doc_uncommitted has the shape of a method.
LEMMA StagedDeleteBody ==
  ASSUME NEW k \in Keys \cup {BadKey}
  PROVE  GoodBody(<<"term", "lock", "delete_term">>, <<>>, {k}, 0)
<1> DEFINE s == <<"term", "lock", "delete_term">>
<1>1. Len(s) = 3 /\ s[1] = "term" /\ s[2] = "lock" /\ s[3] = "delete_term"
      /\ s \in Seq(Steps)
  BY DEF Steps, WriterSteps
<1> HIDE DEF s
<1>2. GoodBody(s, <<>>, {k}, 0)
  BY <1>1, EmptyBatch DEF GoodBody, WriterSteps, AddsLast, ReloadsLast
<1> QED BY <1>2 DEF s

\* The body of index_doc has the shape of a method.
LEMMA IndexDocBody ==
  ASSUME NEW doc \in Input
  PROVE  GoodBody(<<"lock", "convert", "add">>, <<doc>>, {}, 0)
<1> DEFINE s == <<"lock", "convert", "add">>
           b == <<doc>>
<1>1. Len(s) = 3 /\ s[1] = "lock" /\ s[2] = "convert" /\ s[3] = "add"
      /\ s \in Seq(Steps)
  BY DEF Steps, WriterSteps
<1>2. b \in Seq(Input) /\ Len(b) = 1 /\ DOMAIN b = {1}
  OBVIOUS
<1> HIDE DEF s, b
<1>3. GoodBody(s, b, {}, 0)
  BY <1>1, <1>2 DEF GoodBody, WriterSteps, Positions, AddsLast, ReloadsLast
<1> QED BY <1>3 DEF s, b

\* What index_docs runs for n documents: conversions, the lock, additions.
LEMMA BatchStatements ==
  ASSUME NEW n \in Nat
  PROVE  \A s : s = Repeat("convert", n) \o <<"lock">> \o Repeat("add", n) =>
           /\ s \in Seq(Steps) /\ Len(s) = n + 1 + n
           /\ \A i \in 1..(n + 1 + n) :
                s[i] = IF i <= n THEN "convert" ELSE IF i = n + 1 THEN "lock" ELSE "add"
<1> DEFINE p == Repeat("convert", n)
           q == p \o <<"lock">>
           r == Repeat("add", n)
           s == q \o r
<1>1. p \in Seq(Steps) /\ Len(p) = n /\ \A i \in 1..n : p[i] = "convert"
  BY DEF Repeat, Steps
<1>2. r \in Seq(Steps) /\ Len(r) = n /\ \A i \in 1..n : r[i] = "add"
  BY DEF Repeat, Steps, WriterSteps
<1>3. <<"lock">> \in Seq(Steps) /\ Len(<<"lock">>) = 1 /\ <<"lock">>[1] = "lock"
  BY DEF Steps
<1> HIDE DEF p, r
<1>4. q \in Seq(Steps) /\ Len(q) = n + 1
      /\ \A i \in 1..(n + 1) : q[i] = IF i <= n THEN "convert" ELSE "lock"
  <2>1. q \in Seq(Steps) /\ Len(q) = n + 1
        /\ \A i \in 1..(n + 1) : q[i] = IF i <= n THEN p[i] ELSE <<"lock">>[i - n]
    BY <1>1, <1>3, ConcatProperties
  <2> QED BY <1>1, <1>3, <2>1
<1> HIDE DEF q
<1>5. s \in Seq(Steps) /\ Len(s) = n + 1 + n
      /\ \A i \in 1..(n + 1 + n) : s[i] = IF i <= n + 1 THEN q[i] ELSE r[i - (n + 1)]
  <2>1. s \in Seq(Steps) /\ Len(s) = Len(q) + Len(r)
        /\ \A i \in 1..(Len(q) + Len(r)) :
             s[i] = IF i <= Len(q) THEN q[i] ELSE r[i - Len(q)]
    BY <1>2, <1>4, ConcatProperties DEF q, p, r
  <2> QED BY <1>2, <1>4, <2>1
<1> HIDE DEF s
<1>6. ASSUME NEW i \in 1..(n + 1 + n)
      PROVE  s[i] = IF i <= n THEN "convert" ELSE IF i = n + 1 THEN "lock" ELSE "add"
  <2>1. CASE i <= n + 1
    BY <1>4, <1>5, <2>1
  <2>2. CASE i > n + 1
    <3>1. i - (n + 1) \in 1..n
      BY <2>2
    <3>2. r[i - (n + 1)] = "add" /\ s[i] = r[i - (n + 1)]
      BY <1>2, <1>5, <2>2, <3>1
    <3> QED BY <2>2, <3>2
  <2> QED BY <2>1, <2>2
<1>7. s = Repeat("convert", n) \o <<"lock">> \o Repeat("add", n)
  BY DEF s, q, p, r
<1> QED BY <1>5, <1>6, <1>7

\* index_docs: conversions, the lock, then one addition per document.
LEMMA IndexDocsBody ==
  ASSUME NEW b \in Batches
  PROVE  GoodBody(Repeat("convert", Len(b)) \o <<"lock">> \o Repeat("add", Len(b)),
                  b, {}, 0)
<1> DEFINE n == Len(b)
           s == Repeat("convert", n) \o <<"lock">> \o Repeat("add", n)
<1>1. b \in Seq(Input) /\ n \in Nat
  BY BatchesAssumption
<1> HIDE DEF n
<1>2. /\ s \in Seq(Steps) /\ Len(s) = n + 1 + n
      /\ \A i \in 1..(n + 1 + n) :
           s[i] = IF i <= n THEN "convert" ELSE IF i = n + 1 THEN "lock" ELSE "add"
  BY ZenonT(60), <1>1, BatchStatements
<1> HIDE DEF s
<1>3. DOMAIN b \subseteq Positions
  BY DEF Positions
<1>4. \A i \in 1..Len(s) :
        /\ s[i] \in WriterSteps => \E j \in 1..(i - 1) : s[j] = "lock"
        /\ s[i] \notin {"delete_term", "commit", "reload"}
        /\ s[i] = "add" <=> n + i > Len(s)
  <2> SUFFICES ASSUME NEW i \in 1..Len(s)
               PROVE  /\ s[i] \in WriterSteps => \E j \in 1..(i - 1) : s[j] = "lock"
                      /\ s[i] \notin {"delete_term", "commit", "reload"}
                      /\ s[i] = "add" <=> n + i > Len(s)
    OBVIOUS
  <2>1. n + 1 \in 1..Len(s) /\ s[n + 1] = "lock"
    BY <1>1, <1>2
  <2>2. CASE i <= n + 1
    BY <1>1, <1>2, <2>2 DEF WriterSteps
  <2>3. CASE i > n + 1
    <3>1. s[i] = "add" /\ n + 1 \in 1..(i - 1)
      BY <1>1, <1>2, <2>3
    <3> QED BY <1>1, <1>2, <2>1, <2>3, <3>1
  <2> QED BY <1>1, <1>2, <2>2, <2>3
<1>5. AddsLast(s, n, 0) /\ ReloadsLast(s, 0)
  BY <1>1, <1>2, <1>4 DEF AddsLast, ReloadsLast
<1>6. GoodBody(s, b, {}, 0)
  BY <1>1, <1>2, <1>3, <1>4, <1>5 DEF GoodBody, n
<1> QED BY <1>6 DEF s, n

\* The bodies of the reads touch neither the lock nor the writer.
LEMMA ReadBodies ==
  ASSUME NEW keys \in SUBSET (Keys \cup {BadKey}), NEW limit \in Nat
  PROVE  /\ GoodBody(<<"term", "search">>, <<>>, keys, limit)
         /\ GoodBody(<<"term", "search", "fetch">>, <<>>, keys, limit)
         /\ GoodBody(<<"search">>, <<>>, keys, limit)
         /\ GoodBody(<<"search", "fetch">>, <<>>, keys, limit)
         /\ GoodBody(<<"count">>, <<>>, keys, limit)
<1> DEFINE ReadSteps == {"term", "search", "fetch", "count"}
<1>1. ASSUME NEW s \in Seq(ReadSteps)
      PROVE  GoodBody(s, <<>>, keys, limit)
  <2>1. s \in Seq(Steps) /\ \A i \in 1..Len(s) : s[i] \in ReadSteps
    BY DEF Steps
  <2> QED BY <2>1, EmptyBatch DEF GoodBody, WriterSteps, AddsLast, ReloadsLast
<1>2. /\ <<"term", "search">> \in Seq(ReadSteps)
      /\ <<"term", "search", "fetch">> \in Seq(ReadSteps)
      /\ <<"search">> \in Seq(ReadSteps)
      /\ <<"search", "fetch">> \in Seq(ReadSteps)
      /\ <<"count">> \in Seq(ReadSteps)
  OBVIOUS
<1> QED BY <1>1, <1>2

-----------------------------------------------------------------------------
(* Starting a call *)

\* Every method starts a call with a good body.
LEMMA MethodBodies ==
  ASSUME NEW c \in Callers, Write(c) \/ Read(c)
  PROVE  \E s, batch, keys, limit :
           GoodBody(s, batch, keys, limit) /\ Invoke(c, s, batch, keys, limit)
<1>1. CASE clear_index(c)
  BY <1>1, ClearBody DEF clear_index
<1>2. ASSUME NEW k \in Keys, NEW v \in BOOLEAN, index_doc(c, [key |-> k, valid |-> v])
      PROVE  \E s, batch, keys, limit :
               GoodBody(s, batch, keys, limit) /\ Invoke(c, s, batch, keys, limit)
  <2>1. [key |-> k, valid |-> v] \in Input
    BY DEF Input
  <2> QED BY <1>2, <2>1, IndexDocBody DEF index_doc
<1>3. ASSUME NEW b \in Batches, index_docs(c, b)
      PROVE  \E s, batch, keys, limit :
               GoodBody(s, batch, keys, limit) /\ Invoke(c, s, batch, keys, limit)
  BY <1>3, IndexDocsBody DEF index_docs
<1>4. CASE commit(c)
  BY <1>4, CommitBody DEF commit
<1>5. ASSUME NEW k \in Keys \cup {BadKey}, delete_doc(c, k) \/ delete_doc_uncommitted(c, k)
      PROVE  \E s, batch, keys, limit :
               GoodBody(s, batch, keys, limit) /\ Invoke(c, s, batch, keys, limit)
  BY <1>5, DeleteBody, StagedDeleteBody DEF delete_doc, delete_doc_uncommitted
<1>6. ASSUME NEW keys \in SUBSET (Keys \cup {BadKey}), NEW limit \in Nat,
             \/ Invoke(c, <<"term", "search">>, <<>>, keys, limit)
             \/ Invoke(c, <<"term", "search", "fetch">>, <<>>, keys, limit)
             \/ Invoke(c, <<"search", "fetch">>, <<>>, keys, limit)
             \/ Invoke(c, <<"count">>, <<>>, keys, limit)
      PROVE  \E s, batch, ks, l :
               GoodBody(s, batch, ks, l) /\ Invoke(c, s, batch, ks, l)
  BY <1>6, ReadBodies
<1>7. CASE Read(c)
  <2>1. ASSUME NEW k \in Keys \cup {BadKey}, doc_exists(c, k) \/ get_doc(c, k)
        PROVE  \E s, batch, ks, l :
                 GoodBody(s, batch, ks, l) /\ Invoke(c, s, batch, ks, l)
    BY <1>6, <2>1 DEF doc_exists, get_doc
  <2>2. ASSUME NEW ks \in SUBSET (Keys \cup {BadKey}), NEW limit \in 1..2, get_docs_by_ids(c, ks, limit)
        PROVE  \E s, batch, k, l :
                 GoodBody(s, batch, k, l) /\ Invoke(c, s, batch, k, l)
    BY <1>6, <2>2 DEF get_docs_by_ids
  <2>3. ASSUME docs_count(c)
        PROVE  \E s, batch, ks, l :
                 GoodBody(s, batch, ks, l) /\ Invoke(c, s, batch, ks, l)
    BY <1>6, <2>3 DEF docs_count
  <2>4. ASSUME NEW limit \in 1..2, search(c, Keys, limit)
        PROVE  \E s, batch, ks, l :
                 GoodBody(s, batch, ks, l) /\ Invoke(c, s, batch, ks, l)
    BY <1>6, <2>4 DEF search
  <2> QED BY <1>7, <2>1, <2>2, <2>3, <2>4 DEF Read
<1> QED BY <1>1, <1>2, <1>3, <1>4, <1>5, <1>7 DEF Write

\* Starting a call with a good body keeps the invariant.
LEMMA InvokeInv ==
  ASSUME IInv, NEW c \in Callers, NEW s, NEW batch, NEW keys, NEW limit,
         GoodBody(s, batch, keys, limit), Invoke(c, s, batch, keys, limit)
  PROVE  IInv'
<1> DEFINE a == [n |-> calls + 1, batch |-> batch, keys |-> keys, limit |-> limit]
<1>1. /\ todo' = [todo EXCEPT ![c] = s] /\ arg' = [arg EXCEPT ![c] = a]
      /\ added' = [added EXCEPT ![c] = 0] /\ built' = [built EXCEPT ![c] = 0]
      /\ view' = [view EXCEPT ![c] = NoView]
      /\ published' = [published EXCEPT ![c] = 0]
      /\ calls' = calls + 1 /\ calls < MaxCalls
      /\ UNCHANGED <<writer, poisoned, log, commits, seen, loading, faults, acked,
                     rejected, part, failed>>
  BY DEF Invoke, shared
<1>2. a \in Arg
  BY <1>1, BoundsAssumption DEF GoodBody, Arg, IInv, TypeOK
<1>3. NoView \in View
  BY DEF NoView, View
<1>4. TypeOK'
  BY SMTT(60), <1>1, <1>2, <1>3, BoundsAssumption DEF IInv, TypeOK, GoodBody
<1>5. /\ todo'[c] = s /\ arg'[c] = a /\ added'[c] = 0 /\ published'[c] = 0
      /\ \A e \in Callers : e # c => /\ todo'[e] = todo[e] /\ arg'[e] = arg[e]
                                     /\ added'[e] = added[e]
                                     /\ published'[e] = published[e]
  BY <1>1 DEF IInv, TypeOK
<1>6. a.n = calls + 1 /\ a.batch = batch /\ a.keys = keys
  OBVIOUS
<1> HIDE DEF a
<1>7. ArgInv'
  <2>1. calls \in Nat /\ calls' \in Nat
    BY <1>1 DEF IInv, TypeOK
  <2>2. DOMAIN a.batch \subseteq Positions /\ a.n \in 1..calls'
    BY <1>1, <1>6, <2>1 DEF GoodBody
  <2>3. \A e \in Callers : /\ DOMAIN arg[e].batch \subseteq Positions
                           /\ todo[e] # <<>> => arg[e].n \in 1..calls'
    BY <1>1, <2>1 DEF IInv, ArgInv, Running
  <2> QED BY <1>5, <2>2, <2>3 DEF ArgInv, Running
<1>8. LockShape'
  BY <1>1, <1>5 DEF IInv, LockShape, GoodBody
<1>9. TermShape'
  BY SMTT(60), <1>1, <1>5 DEF IInv, TermShape, GoodBody
<1>10. AddShape'
  <2>1. ASSUME NEW e \in Callers
        PROVE  AddsLast(todo'[e], Len(arg'[e].batch), added'[e])
    <3>1. CASE e = c
      BY <1>5, <1>6, <3>1 DEF GoodBody
    <3>2. CASE e # c
      BY <1>5, <3>2 DEF IInv, AddShape
    <3> QED BY <3>1, <3>2
  <2> QED BY <2>1 DEF AddShape, AddsLast
<1>11. ReloadShape'
  <2>1. 0 <= Len(commits)
    BY DEF IInv, TypeOK
  <2>2. ASSUME NEW e \in Callers
        PROVE  published'[e] <= Len(commits) /\ ReloadsLast(todo'[e], published'[e])
    BY <1>5, <2>1 DEF IInv, ReloadShape, GoodBody
  <2> QED BY <1>1, <2>2 DEF ReloadShape, ReloadsLast
<1> QED BY <1>4, <1>7, <1>8, <1>9, <1>10, <1>11 DEF IInv

-----------------------------------------------------------------------------
(* Leaving a statement *)

\* Length and elements of what a call has left after its first statement.
LEMMA TailFacts ==
  ASSUME NEW S, NEW s \in Seq(S), s # <<>>
  PROVE  /\ Tail(s) \in Seq(S) /\ Len(s) \in Nat /\ Len(s) > 0
         /\ Len(Tail(s)) = Len(s) - 1 /\ Head(s) = s[1]
         /\ \A i \in 1..(Len(s) - 1) : Tail(s)[i] = s[i + 1]
OBVIOUS

\* Running the first statement leaves as many additions as documents.
LEMMA AddsLastTail ==
  ASSUME NEW s \in Seq(Steps), s # <<>>, NEW b \in Nat, NEW a \in Nat, AddsLast(s, b, a)
  PROVE  AddsLast(Tail(s), b, IF s[1] = "add" THEN a + 1 ELSE a)
<1> DEFINE t == Tail(s)
           d == IF s[1] = "add" THEN a + 1 ELSE a
<1>1. /\ Len(s) \in Nat /\ Len(s) > 0 /\ Len(t) = Len(s) - 1
      /\ \A i \in 1..(Len(s) - 1) : t[i] = s[i + 1]
  BY TailFacts
<1> HIDE DEF t
<1> SUFFICES ASSUME NEW k \in 1..Len(t), t[k] = "add"
             PROVE  /\ b <= Len(t) + d
                    /\ \A i \in 1..Len(t) : t[i] = "add" <=> b + i > Len(t) + d
  BY DEF AddsLast, t
<1>2. k + 1 \in 1..Len(s) /\ s[k + 1] = "add"
  BY <1>1
<1>3. b <= Len(s) + a /\ \A i \in 1..Len(s) : s[i] = "add" <=> b + i > Len(s) + a
  BY <1>2 DEF AddsLast
<1>4. PICK n \in Nat : n = Len(s) /\ 1 \in 1..n
  BY <1>1
<1>5. CASE s[1] = "add"
  <2>1. Len(t) + d = n + a /\ b + 1 > n + a
    BY <1>1, <1>3, <1>4, <1>5
  <2>2. \A i \in 1..Len(t) : t[i] = "add" /\ b + i > n + a
    BY <1>1, <1>3, <1>4, <2>1
  <2> QED BY <1>3, <1>4, <2>1, <2>2
<1>6. CASE s[1] # "add"
  <2>1. d = a /\ Len(t) = n - 1 /\ ~(b + 1 > n + a)
    BY <1>1, <1>3, <1>4, <1>6
  <2>2. ASSUME NEW i \in 1..Len(t) PROVE t[i] = "add" <=> b + i > (n - 1) + a
    <3>1. i + 1 \in 1..n /\ t[i] = s[i + 1]
      BY <1>1, <1>4
    <3> QED BY <1>3, <1>4, <3>1
  <2> QED BY <1>3, <1>4, <2>1, <2>2
<1> QED BY <1>5, <1>6

\* What a batch and a count are.
LEMMA BatchTypes ==
  ASSUME TypeOK, NEW c \in Callers
  PROVE  arg[c].batch \in Seq(Input) /\ Len(arg[c].batch) \in Nat /\ added[c] \in Nat
<1>1. arg[c].batch \in Seq(Input)
  BY DEF TypeOK, Arg
<1> QED BY <1>1 DEF TypeOK

\* A statement other than the lock that ends well keeps the shape of what is
\* left: every position moves down by one.
LEMMA AdvanceShape ==
  ASSUME IInv, NEW c \in Callers, Running(c), Advance(c),
         UNCHANGED <<arg, calls>>,
         Head(todo[c]) # "lock",
         Head(todo[c]) = "term" => BadKey \notin arg[c].keys,
         added' = IF Head(todo[c]) = "add" THEN [added EXCEPT ![c] = @ + 1] ELSE added
  PROVE  /\ todo' \in [Callers -> Seq(Steps)]
         /\ writer' \in Callers \cup {Free}
         /\ added' \in [Callers -> Nat]
         /\ ArgInv' /\ LockShape' /\ TermShape' /\ AddShape'
<1>0. PICK s : s = todo[c]
  OBVIOUS
<1>1. s \in Seq(Steps) /\ s # <<>>
  BY <1>0 DEF IInv, TypeOK, Running
<1>t. PICK t : t = Tail(s)
  OBVIOUS
<1>2. /\ t \in Seq(Steps) /\ Len(s) \in Nat /\ Len(s) > 0 /\ Len(t) \in Nat
      /\ Len(t) = Len(s) - 1 /\ Head(s) = s[1]
      /\ \A i \in 1..(Len(s) - 1) : t[i] = s[i + 1]
  BY <1>1, <1>t, TailFacts
<1>3. /\ todo' = [todo EXCEPT ![c] = t]
      /\ writer' = IF Len(s) = 1 /\ writer = c THEN Free ELSE writer
  BY <1>0, <1>t DEF Advance
<1>4. todo'[c] = t /\ \A e \in Callers : e # c => todo'[e] = todo[e]
  BY <1>3 DEF IInv, TypeOK
<1>5. writer # c => writer' = writer
  BY <1>3
<1>6. Len(t) > 0 => writer' = writer
  <2>1. Len(t) > 0 => Len(s) # 1
    BY <1>2
  <2> QED BY <1>3, <2>1
<1>7. c # Free
  BY CallersAssumption
<1>8. \A i \in 1..Len(t) : i + 1 \in 1..Len(s) /\ t[i] = s[i + 1]
  BY <1>2
<1>9. LockShape'
  <2>1. ASSUME NEW i \in 1..Len(t), t[i] \in WriterSteps
        PROVE  writer' = c \/ \E j \in 1..(i - 1) : t[j] = "lock"
    <3>1. writer = c \/ \E j \in 1..i : s[j] = "lock"
      BY <1>0, <1>8, <2>1 DEF IInv, LockShape
    <3>2. CASE writer = c
      BY <1>2, <1>6, <3>2
    <3>3. ASSUME NEW j \in 1..i, s[j] = "lock"
          PROVE  \E k \in 1..(i - 1) : t[k] = "lock"
      <4>1. j # 1
        BY <1>0, <1>2, <3>3
      <4>2. j - 1 \in 1..(i - 1) /\ t[j - 1] = s[j]
        BY SMTT(60), <1>2, <4>1
      <4> QED BY <3>3, <4>2
    <3> QED BY <3>1, <3>2, <3>3
  <2>2. ASSUME NEW e \in Callers, e # c, NEW i \in 1..Len(todo[e]),
               todo[e][i] \in WriterSteps
        PROVE  writer' = e \/ \E j \in 1..(i - 1) : todo[e][j] = "lock"
    BY <1>5, <2>2 DEF IInv, LockShape
  <2> QED BY <1>4, <2>1, <2>2 DEF LockShape
<1>10. TermShape'
  <2>1. ASSUME NEW i \in 1..Len(t), t[i] = "delete_term"
        PROVE  BadKey \notin arg[c].keys \/ \E j \in 1..(i - 1) : t[j] = "term"
    <3>1. BadKey \notin arg[c].keys \/ \E j \in 1..i : s[j] = "term"
      BY SMTT(60), <1>0, <1>8, <2>1 DEF IInv, TermShape
    <3>2. ASSUME BadKey \in arg[c].keys, NEW j \in 1..i, s[j] = "term"
          PROVE  \E k \in 1..(i - 1) : t[k] = "term"
      <4>1. j # 1
        BY <1>0, <1>2, <3>2
      <4>2. j - 1 \in 1..(i - 1) /\ t[j - 1] = s[j]
        BY <1>2, <4>1
      <4> QED BY <3>2, <4>2
    <3> QED BY <3>1, <3>2
  <2> QED BY SMTT(60), <1>4, <2>1 DEF IInv, TermShape
<1>11. added' \in [Callers -> Nat]
  BY SMTT(60) DEF IInv, TypeOK
<1>12. AddShape'
  <2>1. added'[c] = IF s[1] = "add" THEN added[c] + 1 ELSE added[c]
    BY <1>0, <1>2 DEF IInv, TypeOK
  <2>2. \A e \in Callers : e # c => added'[e] = added[e]
    BY DEF IInv, TypeOK
  <2>3. AddsLast(t, Len(arg[c].batch), added'[c])
    BY <1>0, <1>1, <1>t, <2>1, AddsLastTail, BatchTypes DEF IInv, AddShape
  <2>4. ASSUME NEW e \in Callers
        PROVE  AddsLast(todo'[e], Len(arg'[e].batch), added'[e])
    <3>1. CASE e = c
      BY <1>4, <2>3, <3>1
    <3>2. CASE e # c
      BY <1>4, <2>2, <3>2 DEF IInv, AddShape
    <3> QED BY <3>1, <3>2
  <2> QED BY <2>4 DEF AddShape, AddsLast
<1>13. ArgInv'
  BY <1>0, <1>1, <1>4 DEF IInv, ArgInv, Running
<1>14. todo' \in [Callers -> Seq(Steps)] /\ writer' \in Callers \cup {Free}
  BY <1>2, <1>3 DEF IInv, TypeOK
<1> QED BY <1>9, <1>10, <1>11, <1>12, <1>13, <1>14

\* Leaving a method early leaves nothing to do.
LEMMA ReturnShape ==
  ASSUME IInv, NEW c \in Callers, Return(c),
         UNCHANGED <<arg, added, calls, commits, published>>
  PROVE  /\ todo' \in [Callers -> Seq(Steps)]
         /\ writer' \in Callers \cup {Free}
         /\ acked' = acked
         /\ ArgInv' /\ LockShape' /\ TermShape' /\ AddShape'
         /\ ReloadShape'
<1>1. /\ todo' = [todo EXCEPT ![c] = <<>>]
      /\ writer' = IF writer = c THEN Free ELSE writer
      /\ acked' = acked
  BY DEF Return
<1>2. /\ todo'[c] = <<>> /\ \A e \in Callers : e # c => todo'[e] = todo[e]
      /\ todo' \in [Callers -> Seq(Steps)]
  BY <1>1 DEF IInv, TypeOK
<1>3. 1..Len(todo'[c]) = {}
  BY <1>2
<1>4. writer' \in Callers \cup {Free} /\ (writer # c => writer' = writer)
  BY <1>1 DEF IInv, TypeOK
<1>5. ArgInv'
  BY <1>2 DEF IInv, ArgInv, Running
<1>6. LockShape'
  BY SMTT(60), <1>2, <1>3, <1>4 DEF IInv, LockShape
<1>7. TermShape' /\ AddShape' /\ ReloadShape'
  <2>1. TermShape'
    BY SMTT(60), <1>2, <1>3 DEF IInv, TermShape
  <2>2. ASSUME NEW e \in Callers
        PROVE  /\ AddsLast(todo'[e], Len(arg'[e].batch), added'[e])
               /\ ReloadsLast(todo'[e], published'[e])
    <3>1. CASE e = c
      BY <1>2, <1>3, <3>1 DEF AddsLast, ReloadsLast
    <3>2. CASE e # c
      BY <1>2, <3>2 DEF IInv, AddShape, ReloadShape
    <3> QED BY <3>1, <3>2
  <2> QED BY <2>1, <2>2 DEF AddShape, AddsLast, ReloadShape, ReloadsLast, IInv
<1> QED BY <1>1, <1>2, <1>4, <1>5, <1>6, <1>7

\* Running the first statement leaves a reload after every commit, and one if
\* something was published and is not loaded yet.
LEMMA ReloadsLastTail ==
  ASSUME NEW s \in Seq(Steps), s # <<>>, NEW p, NEW q, ReloadsLast(s, p),
         s[1] = "commit" \/ q = p
  PROVE  ReloadsLast(Tail(s), q)
<1> DEFINE t == Tail(s)
<1>1. /\ t \in Seq(Steps) /\ Len(s) \in Nat /\ Len(s) > 0 /\ Len(t) = Len(s) - 1
      /\ \A i \in 1..(Len(s) - 1) : t[i] = s[i + 1]
  BY TailFacts
<1> HIDE DEF t
<1>2. /\ \A i \in 1..Len(s) : s[i] = "commit" => \E j \in (i + 1)..Len(s) : s[j] = "reload"
      /\ \A i \in 1..Len(s) : s[i] = "reload" => i = Len(s)
      /\ p # 0 => \E i \in 1..Len(s) : s[i] = "reload"
  BY DEF ReloadsLast
<1>3. \A i \in 1..Len(t) : t[i] = "commit" => \E j \in (i + 1)..Len(t) : t[j] = "reload"
  <2> SUFFICES ASSUME NEW i \in 1..Len(t), t[i] = "commit"
               PROVE  \E j \in (i + 1)..Len(t) : t[j] = "reload"
    OBVIOUS
  <2>1. i + 1 \in 1..Len(s) /\ s[i + 1] = "commit"
    BY <1>1
  <2>2. PICK j \in (i + 2)..Len(s) : s[j] = "reload"
    BY <1>2, <2>1
  <2>3. j - 1 \in (i + 1)..Len(t) /\ t[j - 1] = "reload"
    BY <1>1, <2>2
  <2> QED BY <2>3
<1>4. \A i \in 1..Len(t) : t[i] = "reload" => i = Len(t)
  <2> SUFFICES ASSUME NEW i \in 1..Len(t), t[i] = "reload" PROVE i = Len(t)
    OBVIOUS
  <2>1. i + 1 \in 1..Len(s) /\ s[i + 1] = "reload"
    BY <1>1
  <2>2. i + 1 = Len(s)
    BY <1>2, <2>1
  <2> QED BY <1>1, <2>2
<1>5. ASSUME t # <<>>, q # 0
      PROVE  \E i \in 1..Len(t) : t[i] = "reload"
  <2>1. Len(t) > 0 /\ 1 \in 1..Len(s) /\ 1 # Len(s)
    BY <1>1, <1>5
  <2>2. PICK j \in 1..Len(s) : s[j] = "reload"
    BY <1>2, <1>5, <2>1
  <2>3. j = Len(s)
    BY <1>2, <2>2
  <2>4. j - 1 \in 1..Len(t) /\ t[j - 1] = "reload"
    BY <1>1, <2>1, <2>2, <2>3
  <2> QED BY <2>4
<1> QED BY <1>3, <1>4, <1>5 DEF ReloadsLast, t

\* A statement that ends well keeps ReloadShape.
LEMMA AdvanceReload ==
  ASSUME IInv, NEW c \in Callers, Running(c), Advance(c),
         \/ UNCHANGED <<commits, published>>
         \/ /\ Head(todo[c]) = "commit"
            /\ published' = [published EXCEPT ![c] = Len(commits) + 1]
            /\ commits' \in Seq(SUBSET Doc) /\ Len(commits') = Len(commits) + 1
  PROVE  ReloadShape' /\ acked' \in Nat
<1>1. todo[c] \in Seq(Steps) /\ todo[c] # <<>> /\ Head(todo[c]) = todo[c][1]
  BY DEF IInv, TypeOK, Running
<1>2. /\ todo'[c] = Tail(todo[c]) /\ \A e \in Callers : e # c => todo'[e] = todo[e]
      /\ acked' = IF Len(todo[c]) = 1 /\ published'[c] > acked THEN published'[c] ELSE acked
  BY DEF Advance, IInv, TypeOK
<1>3. /\ published \in [Callers -> Nat] /\ acked \in Nat /\ Len(commits) \in Nat
      /\ \A e \in Callers : published[e] <= Len(commits)
  BY DEF IInv, TypeOK, ReloadShape
<1>4. /\ published' \in [Callers -> Nat]
      /\ \A e \in Callers : e # c => published'[e] = published[e]
      /\ \A e \in Callers : published'[e] <= Len(commits')
      /\ todo[c][1] = "commit" \/ published'[c] = published[c]
  BY <1>1, <1>3
<1>5. ReloadsLast(todo'[c], published'[c])
  BY <1>1, <1>2, <1>4, ReloadsLastTail DEF IInv, ReloadShape
<1>6. \A e \in Callers : ReloadsLast(todo'[e], published'[e])
  BY <1>2, <1>4, <1>5 DEF IInv, ReloadShape
<1>7. acked' \in Nat
  BY <1>2, <1>3, <1>4
<1> QED BY <1>4, <1>6, <1>7 DEF ReloadShape, ReloadsLast

-----------------------------------------------------------------------------
(* The invariant *)

\* The empty sequence is a sequence of anything, and has no element.
LEMMA EmptySeqs ==
  ASSUME NEW S
  PROVE  <<>> \in Seq(S) /\ Len(<<>>) = 0 /\ 1..Len(<<>>) = {}
OBVIOUS

\* The initial states satisfy the inductive invariant.
THEOREM InitInv == Init => IInv
<1> SUFFICES ASSUME Init PROVE IInv
  OBVIOUS
<1>1. /\ NoArg \in Arg /\ DOMAIN NoArg.batch = {}
  BY BoundsAssumption, EmptySeqs DEF NoArg, Arg
<1>2. NoView \in View
  BY DEF NoView, View
<1>3. /\ \A c \in Callers : todo[c] = <<>> /\ arg[c] = NoArg /\ published[c] = 0
      /\ commits \in Seq(SUBSET Doc) /\ Len(commits) = 1 /\ commits # <<>>
      /\ seen = 1 /\ loading = 0 /\ acked = 0
  BY DEF Init
<1>4. TypeOK
  <2>1. log \in Seq(Op) /\ todo \in [Callers -> Seq(Steps)]
    BY EmptySeqs DEF Init
  <2>2. /\ 0 \in 0..MaxCalls /\ 0 \in 0..MaxFaults
        /\ 1 \in 1..Len(commits) /\ 0 \in 0..Len(commits)
    BY <1>3, BoundsAssumption
  <2>3. /\ arg \in [Callers -> Arg] /\ view \in [Callers -> View]
        /\ built \in [Callers -> Nat] /\ added \in [Callers -> Nat]
        /\ published \in [Callers -> Nat]
    BY <1>1, <1>2 DEF Init
  <2>4. /\ writer \in Callers \cup {Free} /\ poisoned \in BOOLEAN
        /\ calls \in 0..MaxCalls /\ faults \in 0..MaxFaults
        /\ acked \in Nat /\ rejected \subseteq 1..MaxCalls
        /\ part \subseteq 1..MaxCalls /\ failed \subseteq 1..MaxCalls
    BY <2>2 DEF Init
  <2> QED BY <1>3, <2>1, <2>2, <2>3, <2>4 DEF TypeOK
<1>5. ArgInv
  BY <1>1, <1>3 DEF ArgInv, Running
<1>6. LockShape /\ TermShape /\ AddShape
  BY <1>3, EmptySeqs DEF LockShape, TermShape, AddShape, AddsLast
<1>7. ReloadShape
  BY <1>3, EmptySeqs DEF ReloadShape, ReloadsLast
<1> QED BY <1>4, <1>5, <1>6, <1>7 DEF IInv

\* At the statement it names, a caller runs; a writer statement has the lock.
LEMMA AtFacts ==
  ASSUME IInv, NEW c \in Callers, NEW step, At(c, step)
  PROVE  /\ Running(c) /\ Head(todo[c]) = step /\ todo[c][1] = step
         /\ 1 \in 1..Len(todo[c])
         /\ step \in WriterSteps => writer = c
<1>1. todo[c] \in Seq(Steps) /\ todo[c] # <<>> /\ Head(todo[c]) = step
  BY DEF At, IInv, TypeOK
<1>2. todo[c][1] = step /\ 1 \in 1..Len(todo[c])
  BY <1>1
<1>3. step \in WriterSteps => writer = c
  BY <1>2 DEF IInv, LockShape
<1> QED BY <1>1, <1>2, <1>3 DEF Running

\* Taking the lock, or failing on a poisoned one, keeps the invariant.
LEMMA LockStep == ASSUME IInv, NEW c \in Callers, Lock(c) PROVE IInv'
<1>1. Running(c) /\ todo[c][1] = "lock"
  BY AtFacts DEF Lock
<1>2. CASE poisoned
  <2>1. Return(c) /\ UNCHANGED <<arg, added, calls, commits, published>>
    BY <1>2 DEF Lock
  <2>2. /\ todo' \in [Callers -> Seq(Steps)] /\ writer' \in Callers \cup {Free}
        /\ acked' = acked /\ ArgInv' /\ LockShape' /\ TermShape' /\ AddShape'
        /\ ReloadShape'
    BY <2>1, ReturnShape
  <2>3. TypeOK'
    BY <2>2 DEF Lock, IInv, TypeOK
  <2> QED BY <2>2, <2>3 DEF IInv
<1>3. CASE ~poisoned
  <2>0. PICK s : s = todo[c]
    OBVIOUS
  <2>1. s \in Seq(Steps) /\ s # <<>> /\ s[1] = "lock"
    BY <1>1, <2>0 DEF IInv, TypeOK, Running
  <2>t. PICK t : t = Tail(s)
    OBVIOUS
  <2>2. /\ t \in Seq(Steps) /\ Len(s) \in Nat /\ Len(s) > 0 /\ Len(t) \in Nat
        /\ Len(t) = Len(s) - 1 /\ Head(s) = s[1]
        /\ \A i \in 1..(Len(s) - 1) : t[i] = s[i + 1]
    BY <2>1, <2>t, TailFacts
  <2>3. /\ todo' = [todo EXCEPT ![c] = t]
        /\ writer = Free /\ writer' = IF Len(s) = 1 THEN Free ELSE c
        /\ UNCHANGED <<acked, poisoned, log, commits, seen, loading, arg, built, added,
                       view, calls, faults, published, rejected, part, failed>>
    BY <1>3, <2>0, <2>t DEF Lock
  <2>4. todo'[c] = t /\ \A e \in Callers : e # c => todo'[e] = todo[e]
    BY <2>3 DEF IInv, TypeOK
  <2>5. Len(t) > 0 => writer' = c
    BY <2>2, <2>3
  <2>6. TypeOK'
    BY <2>2, <2>3 DEF IInv, TypeOK
  <2>7. ArgInv'
    BY <1>1, <2>3, <2>4 DEF IInv, ArgInv, Running
  <2>8. LockShape'
    <3>1. \A e \in Callers : writer # e
      BY <2>3, CallersAssumption
    <3>2. \A i \in 1..Len(t) : writer' = c
      BY <2>2, <2>5
    <3> QED BY <2>4, <3>1, <3>2 DEF IInv, LockShape
  <2>9. TermShape'
    <3>1. ASSUME NEW i \in 1..Len(t), t[i] = "delete_term", BadKey \in arg[c].keys
          PROVE  \E j \in 1..(i - 1) : t[j] = "term"
      <4>1. i + 1 \in 1..Len(s) /\ s[i + 1] = "delete_term"
        BY <2>2, <3>1
      <4>2. PICK j \in 1..i : s[j] = "term"
        BY <2>0, <3>1, <4>1 DEF IInv, TermShape
      <4>3. j # 1
        BY <2>1, <4>2
      <4>4. j - 1 \in 1..(i - 1) /\ t[j - 1] = "term"
        BY <2>2, <4>2, <4>3
      <4> QED BY <4>4
    <3> QED BY <2>3, <2>4, <3>1 DEF IInv, TermShape
  <2>10. AddShape'
    <3>1. AddsLast(t, Len(arg[c].batch), added[c])
      BY <2>0, <2>1, <2>t, AddsLastTail, BatchTypes DEF IInv, AddShape
    <3>2. ASSUME NEW e \in Callers
          PROVE  AddsLast(todo'[e], Len(arg'[e].batch), added'[e])
      BY <2>3, <2>4, <3>1 DEF IInv, AddShape
    <3> QED BY <3>2 DEF AddShape, AddsLast
  <2>11. ReloadShape'
    <3>1. ReloadsLast(t, published[c])
      BY <2>0, <2>1, <2>t, ReloadsLastTail DEF IInv, ReloadShape
    <3>2. ASSUME NEW e \in Callers
          PROVE  published'[e] <= Len(commits) /\ ReloadsLast(todo'[e], published'[e])
      BY <2>3, <2>4, <3>1 DEF IInv, ReloadShape
    <3> QED BY <2>3, <3>2 DEF ReloadShape, ReloadsLast
  <2> QED BY <2>6, <2>7, <2>8, <2>9, <2>10, <2>11 DEF IInv
<1> QED BY <1>2, <1>3

\* What a commit makes durable is a set of documents.
LEMMA LiveType ==
  ASSUME NEW base \in SUBSET Doc, NEW lg \in Seq(Op)
  PROVE  Live(base, lg) \in SUBSET Doc
<1>1. \A i \in 1..Len(lg) : lg[i].kind = "add" => lg[i].doc \in Doc
  <2> SUFFICES ASSUME NEW i \in 1..Len(lg), lg[i].kind = "add"
               PROVE  lg[i].doc \in Doc
    OBVIOUS
  <2>1. lg[i] \in Op
    OBVIOUS
  <2> QED BY <2>1 DEF Op
<1> QED BY <1>1 DEF Live

\* What a commit appends is a set of documents.
LEMMA CommitType ==
  ASSUME TypeOK
  PROVE  /\ LastCommit \in SUBSET Doc
         /\ Append(commits, Live(LastCommit, log)) \in Seq(SUBSET Doc)
         /\ Len(Append(commits, Live(LastCommit, log))) = Len(commits) + 1
         /\ Append(commits, Live(LastCommit, log)) # <<>>
<1>1. LastCommit \in SUBSET Doc
  <2>1. Len(commits) \in 1..Len(commits) /\ commits \in Seq(SUBSET Doc)
    BY DEF TypeOK
  <2> QED BY <2>1 DEF LastCommit
<1>2. PICK x \in SUBSET Doc : x = Live(LastCommit, log)
  BY <1>1, LiveType DEF TypeOK
<1>3. Append(commits, x) \in Seq(SUBSET Doc) /\ Len(Append(commits, x)) = Len(commits) + 1
  BY DEF TypeOK
<1>4. Append(commits, x) # <<>>
  <2>1. Len(commits) + 1 # 0 /\ Len(<<>>) = 0
    BY DEF TypeOK
  <2> QED BY <1>3, <2>1
<1> QED BY <1>1, <1>2, <1>3, <1>4

\* At an addition a call has only additions left, one per document not added.
LEMMA AtAdd ==
  ASSUME IInv, NEW c \in Callers, At(c, "add")
  PROVE  /\ \A i \in 1..Len(todo[c]) : todo[c][i] = "add"
         /\ Len(arg[c].batch) = Len(todo[c]) + added[c]
         /\ Len(todo[c]) \in Nat /\ Len(todo[c]) > 0
<1>1. todo[c][1] = "add" /\ 1 \in 1..Len(todo[c])
  BY AtFacts
<1>2. Len(todo[c]) \in Nat /\ Len(todo[c]) > 0
  BY <1>1 DEF IInv, TypeOK
<1>3. PICK n \in Nat, b \in Nat, a \in Nat :
        n = Len(todo[c]) /\ b = Len(arg[c].batch) /\ a = added[c]
  BY <1>2, BatchTypes DEF IInv
<1>4. b <= n + a /\ \A i \in 1..n : todo[c][i] = "add" <=> b + i > n + a
  BY <1>1, <1>3 DEF IInv, AddShape, AddsLast
<1>5. b + 1 > n + a
  BY <1>1, <1>3, <1>4
<1>6. b = n + a
  BY <1>4, <1>5
<1>7. \A i \in 1..n : todo[c][i] = "add"
  BY <1>4, <1>6
<1> QED BY <1>2, <1>3, <1>6, <1>7

\* A running call has a number.
LEMMA RunningCall ==
  ASSUME IInv, NEW c \in Callers, Running(c)
  PROVE  arg[c].n \in 1..MaxCalls
BY SMTT(60), BoundsAssumption DEF IInv, ArgInv, TypeOK

\* The document a thread is about to add is one of its argument.
LEMMA AddedDoc ==
  ASSUME IInv, NEW c \in Callers, At(c, "add")
  PROVE  [kind |-> "add",
          doc |-> [n |-> arg[c].n, pos |-> added[c] + 1,
                   key |-> arg[c].batch[added[c] + 1].key]] \in Op
<1>1. Running(c)
  BY AtFacts
<1>2. arg[c].batch \in Seq(Input) /\ added[c] \in Nat
  BY BatchTypes DEF IInv
<1>3. PICK b \in Nat, n \in Nat : b = Len(arg[c].batch) /\ b = n + added[c] /\ n > 0
  BY <1>2, AtAdd
<1>5. added[c] + 1 \in 1..b
  BY <1>2, <1>3
<1>6. added[c] + 1 \in DOMAIN arg[c].batch /\ arg[c].batch[added[c] + 1] \in Input
  <2>1. \A q \in Seq(Input) : \A i \in 1..Len(q) : i \in DOMAIN q /\ q[i] \in Input
    OBVIOUS
  <2> QED BY <1>2, <1>3, <1>5, <2>1
<1>7. arg[c].n \in 1..MaxCalls
  BY <1>1, RunningCall
<1>8. added[c] + 1 \in Positions /\ arg[c].batch[added[c] + 1].key \in Keys
  BY <1>6 DEF IInv, ArgInv, Input
<1> QED BY <1>7, <1>8 DEF Op, Doc

\* The statements that end well and touch neither commits nor reader.
LEMMA LocalStep ==
  ASSUME IInv, NEW c \in Callers, NEW step, At(c, step), Advance(c),
         UNCHANGED <<arg, calls, commits, published>>,
         step \notin {"lock", "commit", "reload"},
         step = "term" => BadKey \notin arg[c].keys,
         added' = IF step = "add" THEN [added EXCEPT ![c] = @ + 1] ELSE added
  PROVE  /\ todo' \in [Callers -> Seq(Steps)] /\ writer' \in Callers \cup {Free}
         /\ added' \in [Callers -> Nat] /\ acked' \in Nat
         /\ ArgInv' /\ LockShape' /\ TermShape' /\ AddShape'
         /\ ReloadShape'
<1>1. Running(c) /\ Head(todo[c]) = step
  BY AtFacts
<1>2. /\ todo' \in [Callers -> Seq(Steps)] /\ writer' \in Callers \cup {Free}
      /\ added' \in [Callers -> Nat]
      /\ ArgInv' /\ LockShape' /\ TermShape' /\ AddShape'
  BY <1>1, AdvanceShape
<1>3. ReloadShape' /\ acked' \in Nat
  BY <1>1, AdvanceReload
<1> QED BY <1>2, <1>3

\* An early return that changes nothing else keeps the invariant.
LEMMA ReturnStep ==
  ASSUME IInv, NEW c \in Callers, Return(c),
         UNCHANGED <<log, commits, seen, loading, arg, built, added, view, calls,
                     published, part>>,
         poisoned' \in BOOLEAN, faults' \in 0..MaxFaults,
         rejected' \subseteq 1..MaxCalls, failed' \subseteq 1..MaxCalls
  PROVE  IInv'
<1>1. /\ todo' \in [Callers -> Seq(Steps)] /\ writer' \in Callers \cup {Free}
      /\ acked' = acked /\ ArgInv' /\ LockShape' /\ TermShape' /\ AddShape'
      /\ ReloadShape'
  BY ReturnShape
<1>2. TypeOK'
  BY <1>1 DEF IInv, TypeOK
<1> QED BY <1>1, <1>2 DEF IInv

\* Every statement of a method, every call, fault and background reload keeps
\* the inductive invariant.
THEOREM NextInv == IInv /\ [Next]_vars => IInv'
<1> SUFFICES ASSUME IInv, [Next]_vars PROVE IInv'
  OBVIOUS
<1>1. ASSUME NEW c \in Callers, Write(c) \/ Read(c) PROVE IInv'
  BY <1>1, MethodBodies, InvokeInv
<1>2. ASSUME NEW c \in Callers, Lock(c) PROVE IInv'
  BY <1>2, LockStep
<1>3. ASSUME NEW c \in Callers, Convert(c) PROVE IInv'
  <2>1. CASE arg[c].batch[built[c] + 1].valid
    <3>1. At(c, "convert") /\ Advance(c) /\ built' = [built EXCEPT ![c] = @ + 1]
          /\ UNCHANGED <<published, rejected, poisoned, log, commits, seen, loading, arg,
                         added, view, calls, faults, part, failed>>
      BY <1>3, <2>1 DEF Convert
    <3>2. /\ todo' \in [Callers -> Seq(Steps)] /\ writer' \in Callers \cup {Free}
          /\ added' \in [Callers -> Nat] /\ acked' \in Nat
          /\ ArgInv' /\ LockShape' /\ TermShape' /\ AddShape'
          /\ ReloadShape'
      BY <3>1, LocalStep
    <3>3. built' \in [Callers -> Nat]
      BY <3>1 DEF IInv, TypeOK
    <3>4. TypeOK'
      BY <3>1, <3>2, <3>3 DEF IInv, TypeOK
    <3> QED BY <3>2, <3>4 DEF IInv
  <2>2. CASE ~arg[c].batch[built[c] + 1].valid
    <3>1. At(c, "convert") /\ Return(c) /\ rejected' = rejected \cup {arg[c].n}
          /\ UNCHANGED <<published, built, poisoned, log, commits, seen, loading, arg,
                         added, view, calls, faults, part, failed>>
      BY <1>3, <2>2 DEF Convert
    <3>2. arg[c].n \in 1..MaxCalls
      BY <3>1, AtFacts, RunningCall
    <3>3. rejected' \subseteq 1..MaxCalls /\ poisoned' \in BOOLEAN
          /\ faults' \in 0..MaxFaults /\ failed' \subseteq 1..MaxCalls
      BY <3>1, <3>2 DEF IInv, TypeOK
    <3> QED BY <3>1, <3>3, ReturnStep
  <2> QED BY <2>1, <2>2
<1>4. ASSUME NEW c \in Callers, Term(c) PROVE IInv'
  <2>1. CASE BadKey \in arg[c].keys
    BY <1>4, <2>1, ReturnStep DEF Term, IInv, TypeOK
  <2>2. CASE BadKey \notin arg[c].keys
    <3>1. At(c, "term") /\ Advance(c)
          /\ UNCHANGED <<published, rejected, poisoned, log, commits, seen, loading, arg,
                         built, added, view, calls, faults, part, failed>>
      BY <1>4, <2>2 DEF Term
    <3>2. /\ todo' \in [Callers -> Seq(Steps)] /\ writer' \in Callers \cup {Free}
          /\ added' \in [Callers -> Nat] /\ acked' \in Nat
          /\ ArgInv' /\ LockShape' /\ TermShape' /\ AddShape'
          /\ ReloadShape'
      BY <2>2, <3>1, LocalStep
    <3>3. TypeOK'
      BY <3>1, <3>2 DEF IInv, TypeOK
    <3> QED BY <3>2, <3>3 DEF IInv
  <2> QED BY <2>1, <2>2
<1>5. ASSUME NEW c \in Callers, NEW step \in {"add", "delete_term", "delete_all"},
             At(c, step), Advance(c), NEW op \in Op, log' = Append(log, op),
             added' = IF step = "add" THEN [added EXCEPT ![c] = @ + 1] ELSE added,
             part' \subseteq 1..MaxCalls,
             UNCHANGED <<published, poisoned, commits, seen, loading, arg, built, view,
                         calls, faults, rejected, failed>>
      PROVE  IInv'
  <2>1. /\ todo' \in [Callers -> Seq(Steps)] /\ writer' \in Callers \cup {Free}
        /\ added' \in [Callers -> Nat] /\ acked' \in Nat
        /\ ArgInv' /\ LockShape' /\ TermShape' /\ AddShape'
        /\ ReloadShape'
    BY <1>5, LocalStep
  <2>2. log' \in Seq(Op)
    BY <1>5 DEF IInv, TypeOK
  <2>3. TypeOK'
    BY <1>5, <2>1, <2>2 DEF IInv, TypeOK
  <2> QED BY <2>1, <2>3 DEF IInv
<1>6. ASSUME NEW c \in Callers, AddDocument(c) PROVE IInv'
  <2>1. part' \subseteq 1..MaxCalls
    <3>1. arg[c].n \in 1..MaxCalls
      BY <1>6, AtFacts, RunningCall DEF AddDocument
    <3> QED BY <1>6, <3>1 DEF AddDocument, Part, IInv, TypeOK
  <2> QED BY <1>5, <1>6, <2>1, AddedDoc DEF AddDocument, Stage
<1>7. ASSUME NEW c \in Callers, DeleteTerm(c) PROVE IInv'
  <2>1. BadKey \notin arg[c].keys
    <3>1. todo[c][1] = "delete_term" /\ 1 \in 1..Len(todo[c])
      BY <1>7, AtFacts DEF DeleteTerm
    <3> QED BY <3>1 DEF IInv, TermShape
  <2>2. arg[c].keys \subseteq Keys
    BY ZenonT(60), <2>1 DEF IInv, TypeOK, Arg
  <2>3. PICK k \in Keys : log' = Append(log, [kind |-> "delete", key |-> k])
    BY <1>7, <2>2 DEF DeleteTerm, Stage
  <2>4. [kind |-> "delete", key |-> k] \in Op
    BY DEF Op
  <2>5. part' \subseteq 1..MaxCalls
    BY <1>7 DEF DeleteTerm, IInv, TypeOK
  <2> QED BY <1>5, <1>7, <2>3, <2>4, <2>5 DEF DeleteTerm
<1>8. ASSUME NEW c \in Callers, DeleteAllDocuments(c) PROVE IInv'
  <2>1. [kind |-> "delete_all"] \in Op
    BY DEF Op
  <2>2. part' \subseteq 1..MaxCalls
    BY <1>8 DEF DeleteAllDocuments, IInv, TypeOK
  <2> QED BY <1>5, <1>8, <2>1, <2>2 DEF DeleteAllDocuments, Stage
<1>9. ASSUME NEW c \in Callers, WriterCommit(c) PROVE IInv'
  <2>1. At(c, "commit") /\ Running(c) /\ Head(todo[c]) = "commit" /\ Advance(c)
    BY <1>9, AtFacts DEF WriterCommit
  <2>2. /\ commits' \in Seq(SUBSET Doc) /\ commits' # <<>>
        /\ Len(commits') = Len(commits) + 1
    BY <1>9, CommitType DEF WriterCommit, IInv
  <2>3. /\ todo' \in [Callers -> Seq(Steps)] /\ writer' \in Callers \cup {Free}
        /\ ArgInv' /\ LockShape' /\ TermShape' /\ AddShape'
    BY <1>9, <2>1, AdvanceShape DEF WriterCommit
  <2>4. ReloadShape' /\ acked' \in Nat
    BY <1>9, <2>1, <2>2, AdvanceReload DEF WriterCommit
  <2>5. TypeOK'
    <3>1. /\ seen' \in 1..Len(commits') /\ loading' \in 0..Len(commits')
          /\ published' \in [Callers -> Nat]
      BY <1>9, <2>2 DEF WriterCommit, IInv, TypeOK
    <3> QED BY <1>9, <2>2, <2>3, <2>4, <3>1, EmptySeqs DEF WriterCommit, IInv, TypeOK
  <2> QED BY <2>3, <2>4, <2>5 DEF IInv
<1>10. ASSUME NEW c \in Callers, Reload(c) PROVE IInv'
  <2>1. At(c, "reload") /\ Running(c) /\ Head(todo[c]) = "reload" /\ Advance(c)
    BY <1>10, AtFacts DEF Reload
  <2>2. /\ todo' \in [Callers -> Seq(Steps)] /\ writer' \in Callers \cup {Free}
        /\ ArgInv' /\ LockShape' /\ TermShape' /\ AddShape'
    BY <1>10, <2>1, AdvanceShape DEF Reload
  <2>3. ReloadShape' /\ acked' \in Nat
    BY <1>10, <2>1, AdvanceReload DEF Reload
  <2>4. seen' \in 1..Len(commits')
    BY <1>10 DEF Reload, IInv, TypeOK
  <2>5. TypeOK'
    BY <1>10, <2>2, <2>3, <2>4 DEF Reload, IInv, TypeOK
  <2> QED BY <2>2, <2>3, <2>5 DEF IInv
<1>11. ASSUME NEW c \in Callers, NEW step \in {"search", "fetch", "count"}, At(c, step),
              Advance(c), view' \in [Callers -> View],
              UNCHANGED <<published, poisoned, log, commits, seen, loading, arg, built,
                          added, calls, faults, rejected, part, failed>>
       PROVE  IInv'
  <2>1. /\ todo' \in [Callers -> Seq(Steps)] /\ writer' \in Callers \cup {Free}
        /\ added' \in [Callers -> Nat] /\ acked' \in Nat
        /\ ArgInv' /\ LockShape' /\ TermShape' /\ AddShape'
        /\ ReloadShape'
    BY <1>11, LocalStep
  <2>2. TypeOK'
    BY <1>11, <2>1 DEF IInv, TypeOK
  <2> QED BY <2>1, <2>2 DEF IInv
<1>12. ASSUME NEW c \in Callers, Search(c) \/ Count(c) \/ Fetch(c) PROVE IInv'
  <2>1. seen \in Nat /\ commits[seen] \in SUBSET Doc
    BY SMTT(60) DEF IInv, TypeOK
  <2>2. CASE Search(c)
    <3>1. PICK hits \in SUBSET Matching(arg[c].keys, commits[seen]) :
            view' = [view EXCEPT ![c] = [at |-> seen, hits |-> hits, docs |-> {}]]
      BY <2>2 DEF Search
    <3>2. [at |-> seen, hits |-> hits, docs |-> {}] \in View
      BY <2>1, <3>1 DEF Matching, View
    <3>3. view' \in [Callers -> View]
      BY <3>1, <3>2 DEF IInv, TypeOK
    <3> QED BY <1>11, <2>2, <3>3 DEF Search
  <2>3. CASE Count(c)
    <3>1. [at |-> seen, hits |-> commits[seen], docs |-> {}] \in View
      BY <2>1 DEF View
    <3>2. view' \in [Callers -> View]
      BY <2>3, <3>1 DEF Count, IInv, TypeOK
    <3> QED BY <1>11, <2>3, <3>2 DEF Count
  <2>4. CASE Fetch(c)
    <3>1. view[c] \in View
      BY DEF IInv, TypeOK
    <3>2. [view[c] EXCEPT !.docs = view[c].hits \cap commits[view[c].at]] \in View
      BY <3>1 DEF View
    <3>3. view' \in [Callers -> View]
      BY <2>4, <3>2 DEF Fetch, IInv, TypeOK
    <3> QED BY <1>11, <2>4, <3>3 DEF Fetch
  <2> QED BY <1>12, <2>2, <2>3, <2>4
<1>13. ASSUME NEW c \in Callers, EngineError(c) \/ Panic(c) PROVE IInv'
  <2>1. faults' \in 0..MaxFaults
    BY SMTT(60), <1>13, BoundsAssumption DEF EngineError, Panic, IInv, TypeOK
  <2>2. failed' \subseteq 1..MaxCalls
    <3>1. EngineError(c) => arg[c].n \in 1..MaxCalls
      BY RunningCall DEF EngineError, Running
    <3> QED BY <1>13, <3>1 DEF EngineError, Panic, IInv, TypeOK
  <2> QED BY <1>13, <2>1, <2>2, ReturnStep DEF EngineError, Panic, IInv, TypeOK
<1>14. CASE Restart
  <2>1. /\ \A c \in Callers : todo'[c] = <<>>
        /\ todo' \in [Callers -> Seq(Steps)] /\ log' \in Seq(Op)
    BY <1>14, EmptySeqs DEF Restart
  <2>2. /\ faults' \in 0..MaxFaults
        /\ seen' \in 1..Len(commits') /\ loading' \in 0..Len(commits')
    BY <1>14, BoundsAssumption DEF Restart, IInv, TypeOK
  <2>3. TypeOK'
    BY <1>14, <2>1, <2>2 DEF Restart, IInv, TypeOK, aux
  <2>4. ArgInv'
    BY <1>14, <2>1 DEF Restart, IInv, ArgInv, Running
  <2>5. LockShape' /\ TermShape' /\ AddShape'
    BY <2>1, EmptySeqs DEF LockShape, TermShape, AddShape, AddsLast
  <2>6. ReloadShape'
    BY <1>14, <2>1, EmptySeqs DEF Restart, aux, IInv, ReloadShape, ReloadsLast
  <2> QED BY <2>3, <2>4, <2>5, <2>6 DEF IInv
<1>15. CASE BackgroundLoad \/ BackgroundPublish
  <2>1. /\ seen' \in 1..Len(commits) /\ loading' \in 0..Len(commits)
        /\ UNCHANGED <<writer, poisoned, log, commits, todo, arg, built, added, view,
                       calls, faults, published, acked, rejected, part, failed>>
    BY <1>15 DEF BackgroundLoad, BackgroundPublish, local, aux, IInv, TypeOK
  <2>2. TypeOK'
    BY <2>1 DEF IInv, TypeOK
  <2>3. ArgInv' /\ LockShape' /\ TermShape'
    BY <2>1 DEF IInv, ArgInv, LockShape, TermShape, Running
  <2>4. AddShape' /\ ReloadShape'
    BY <2>1 DEF IInv, AddShape, AddsLast, ReloadShape, ReloadsLast
  <2> QED BY <2>2, <2>3, <2>4 DEF IInv
<1>16. CASE UNCHANGED vars
  BY <1>16 DEF vars, shared, local, aux, IInv, TypeOK, ArgInv, LockShape, TermShape,
     AddShape, AddsLast, ReloadShape, ReloadsLast, Running
<1> QED
  BY <1>1, <1>2, <1>3, <1>4, <1>6, <1>7, <1>8, <1>9, <1>10, <1>12, <1>13, <1>14,
     <1>15, <1>16 DEF Next, Step

\* The inductive invariant holds in every reachable state.
LEMMA Invariance == Spec => []IInv
BY InitInv, NextInv, PTL DEF Spec

\* Every variable keeps its type in every reachable state.
THEOREM TypeCorrect == Spec => []TypeOK
<1>1. IInv => TypeOK
  BY DEF IInv
<1> QED BY <1>1, Invariance, PTL

\* Whatever the interleaving, early returns and panics, a statement that
\* stages, commits or reloads is reached only by the holder of the mutex.
THEOREM LockDiscipline == Spec => []WritesHoldTheLock
<1>1. IInv => WritesHoldTheLock
  <2> SUFFICES ASSUME IInv, NEW c \in Callers, todo[c] # <<>>,
                      Head(todo[c]) \in WriterSteps
               PROVE  writer = c
    BY DEF WritesHoldTheLock
  <2>1. At(c, Head(todo[c]))
    BY DEF At
  <2> QED BY <2>1, AtFacts
<1> QED BY <1>1, Invariance, PTL

\* What a call acknowledges it has loaded: it returns Ok with its last statement,
\* and the one that follows a commit is a reload.
LEMMA AcknowledgedIsLoaded ==
  ASSUME IInv, NEW c \in Callers, Step(c), acked' # acked
  PROVE  seen' >= acked'
<1>1. PICK step : At(c, step) /\ Advance(c)
  BY DEF Step, Lock, Convert, Term, AddDocument, DeleteTerm, DeleteAllDocuments,
     WriterCommit, Reload, Search, Fetch, Count, Return
<1>2. /\ todo[c] # <<>> /\ Head(todo[c]) = step /\ todo[c][1] = step
      /\ 1 \in 1..Len(todo[c])
  BY <1>1, AtFacts DEF Running
<1>3. Len(todo[c]) = 1 /\ acked' = published'[c] /\ published'[c] > acked
  BY <1>1 DEF Advance
<1>4. /\ published[c] \in Nat /\ published[c] <= Len(commits) /\ acked \in Nat
      /\ Len(commits) \in Nat /\ ReloadsLast(todo[c], published[c])
  BY DEF IInv, TypeOK, ReloadShape
<1>5. step # "commit"
  BY <1>2, <1>3, <1>4 DEF ReloadsLast
<1>6. published'[c] = published[c]
  BY <1>2, <1>5 DEF Step, At, Lock, Convert, Term, AddDocument, DeleteTerm,
     DeleteAllDocuments, WriterCommit, Reload, Search, Fetch, Count
<1>7. published[c] # 0
  BY <1>3, <1>4, <1>6
<1>8. step = "reload"
  BY <1>2, <1>3, <1>4, <1>7 DEF ReloadsLast
<1>9. seen' = Len(commits)
  BY <1>2, <1>8 DEF Step, At, Lock, Convert, Term, AddDocument, DeleteTerm,
     DeleteAllDocuments, WriterCommit, Reload, Search, Fetch, Count
<1> QED BY <1>3, <1>4, <1>6, <1>9

\* The reader is on a commit when it is acknowledged, and goes back behind it
\* only with a background reload that was under way.
THEOREM CommitsAreSeen == Spec => ReadYourCommits
<1> DEFINE P == /\ acked' # acked => seen' >= acked'
                /\ seen' < seen => /\ loading # 0 /\ seen' = loading
                                   /\ UNCHANGED <<todo, acked>>
<1>1. IInv /\ [Next]_vars => [P]_vars
  <2> SUFFICES ASSUME IInv, Next PROVE P
    OBVIOUS
  <2>1. seen \in Nat /\ Len(commits) \in Nat /\ seen <= Len(commits) /\ acked \in Nat
    BY DEF IInv, TypeOK
  <2>2. ASSUME NEW c \in Callers, Step(c) PROVE P
    <3>1. seen' = seen \/ seen' = Len(commits)
      BY <2>2 DEF Step, Lock, Convert, Term, AddDocument, DeleteTerm,
         DeleteAllDocuments, WriterCommit, Reload, Search, Fetch, Count
    <3> QED BY <2>1, <2>2, <3>1, AcknowledgedIsLoaded
  <2>3. ASSUME NEW c \in Callers, Write(c) \/ Read(c) PROVE P
    BY <2>1, <2>3, MethodBodies DEF Invoke, shared
  <2>4. ASSUME NEW c \in Callers, EngineError(c) \/ Panic(c) PROVE P
    BY <2>1, <2>4 DEF EngineError, Panic, Return
  <2>5. CASE Restart
    BY <2>1, <2>5 DEF Restart, aux
  <2>6. CASE BackgroundLoad \/ BackgroundPublish
    BY <2>1, <2>6 DEF BackgroundLoad, BackgroundPublish, local, aux
  <2> QED BY <2>2, <2>3, <2>4, <2>5, <2>6 DEF Next
<1> QED BY <1>1, Invariance, PTL DEF Spec, ReadYourCommits

-----------------------------------------------------------------------------
(* Calls: every step is the start of a call, the next statement of one
   (Moves, with one of the five effects of Effect), a restart or a reload.
   The lemmas of this section say so once; each property after it then
   needs one step per effect. *)

\* Thread c runs its next statement or leaves its method.
Moves(c) ==
  /\ \E rest : /\ rest = <<>> \/ (Running(c) /\ rest = Tail(todo[c]))
               /\ todo' = [todo EXCEPT ![c] = rest]
  /\ UNCHANGED <<arg, calls>>

\* What a statement of c does to the log, the commits and the rejected calls.
Adds(c) ==
  /\ At(c, "add")
  /\ \E doc \in Doc : /\ doc.n = arg[c].n
                      /\ log' = Append(log, [kind |-> "add", doc |-> doc])
  /\ added' = [added EXCEPT ![c] = @ + 1]
  /\ UNCHANGED <<commits, rejected>>

Deletes(c) ==
  /\ At(c, "delete_term") \/ At(c, "delete_all")
  /\ \E op \in Op : op.kind # "add" /\ log' = Append(log, op)
  /\ UNCHANGED <<commits, added, rejected>>

Commits(c) ==
  /\ At(c, "commit")
  /\ commits' = Append(commits, Live(LastCommit, log)) /\ log' = <<>>
  /\ UNCHANGED <<added, rejected>>

Rejects(c) ==
  /\ At(c, "convert")
  /\ rejected' = rejected \cup {arg[c].n}
  /\ todo' = [todo EXCEPT ![c] = <<>>]
  /\ UNCHANGED <<log, commits, added>>

WritesNothing == UNCHANGED <<log, commits, added, rejected>>

Effect(c) == Adds(c) \/ Deletes(c) \/ Commits(c) \/ Rejects(c) \/ WritesNothing

-----------------------------------------------------------------------------
(* Steps *)

\* A statement that ends well moves to the next one, one that fails leaves.
LEMMA AdvanceMoves ==
  ASSUME NEW c \in Callers, Running(c), UNCHANGED <<arg, calls>>, Advance(c) \/ Return(c)
  PROVE  Moves(c)
BY DEF Moves, Advance, Return

\* Every statement of a method moves its thread and has one of the effects.
LEMMA StatementEffect ==
  ASSUME IInv, NEW c \in Callers, Step(c)
  PROVE  Moves(c) /\ Effect(c)
<1>1. CASE Lock(c)
  <2>1. Running(c) /\ Moves(c)
    BY <1>1, AtFacts DEF Lock, Moves, Return
  <2>2. WritesNothing
    BY <1>1 DEF Lock, WritesNothing
  <2> QED BY <2>1, <2>2 DEF Effect
<1>2. CASE Convert(c)
  <2>1. Running(c) /\ At(c, "convert")
    BY <1>2, AtFacts DEF Convert
  <2>2. Moves(c)
    BY <1>2, <2>1, AdvanceMoves DEF Convert
  <2>3. WritesNothing \/ Rejects(c)
    BY <1>2, <2>1 DEF Convert, WritesNothing, Rejects, Return
  <2> QED BY <2>2, <2>3 DEF Effect
<1>3. CASE Term(c) \/ Reload(c) \/ Search(c) \/ Fetch(c) \/ Count(c)
  <2>1. Running(c)
    BY <1>3 DEF Term, Reload, Search, Fetch, Count, At, Running
  <2>2. (Advance(c) \/ Return(c)) /\ UNCHANGED <<arg, calls>> /\ WritesNothing
    BY <1>3 DEF Term, Reload, Search, Fetch, Count, WritesNothing
  <2> QED BY <2>1, <2>2, AdvanceMoves DEF Effect
<1>4. CASE AddDocument(c)
  <2> DEFINE doc == [n |-> arg[c].n, pos |-> added[c] + 1,
                     key |-> arg[c].batch[added[c] + 1].key]
             op == [kind |-> "add", doc |-> doc]
  <2>1. Running(c) /\ At(c, "add")
    BY <1>4, AtFacts DEF AddDocument
  <2>2. Moves(c)
    BY <1>4, <2>1, AdvanceMoves DEF AddDocument
  <2>3. op.kind = "add" /\ op.doc = doc /\ doc.n = arg[c].n
    OBVIOUS
  <2>4. op \in Op
    BY <2>1, AddedDoc
  <2>5. log' = Append(log, op)
    BY <1>4 DEF AddDocument, Stage
  <2> HIDE DEF doc
  <2>6. doc \in Doc
    BY <2>3, <2>4 DEF Op
  <2>7. Adds(c)
    BY <1>4, <2>3, <2>5, <2>6 DEF AddDocument, Adds
  <2> QED BY <2>2, <2>7 DEF Effect
<1>5. CASE DeleteTerm(c)
  <2>1. Running(c) /\ At(c, "delete_term") /\ todo[c][1] = "delete_term"
        /\ 1 \in 1..Len(todo[c])
    BY <1>5, AtFacts DEF DeleteTerm
  <2>2. Moves(c)
    BY <1>5, <2>1, AdvanceMoves DEF DeleteTerm
  <2>3. arg[c].keys \subseteq Keys
    <3>1. BadKey \notin arg[c].keys
      BY <2>1 DEF IInv, TermShape
    <3> QED BY ZenonT(60), <3>1 DEF IInv, TypeOK, Arg
  <2>4. PICK k \in Keys : log' = Append(log, [kind |-> "delete", key |-> k])
    BY <1>5, <2>3 DEF DeleteTerm, Stage
  <2>5. [kind |-> "delete", key |-> k] \in Op
    BY DEF Op
  <2>6. Deletes(c)
    BY <1>5, <2>4, <2>5 DEF DeleteTerm, Deletes
  <2> QED BY <2>2, <2>6 DEF Effect
<1>6. CASE DeleteAllDocuments(c)
  <2>1. Running(c)
    BY <1>6, AtFacts DEF DeleteAllDocuments
  <2>2. Moves(c)
    BY <1>6, <2>1, AdvanceMoves DEF DeleteAllDocuments
  <2>3. [kind |-> "delete_all"] \in Op
    BY DEF Op
  <2>4. Deletes(c)
    BY <1>6, <2>3 DEF DeleteAllDocuments, Deletes, Stage
  <2> QED BY <2>2, <2>4 DEF Effect
<1>7. CASE WriterCommit(c)
  <2>1. Running(c)
    BY <1>7, AtFacts DEF WriterCommit
  <2>2. Moves(c)
    BY <1>7, <2>1, AdvanceMoves DEF WriterCommit
  <2>3. Commits(c)
    BY <1>7 DEF WriterCommit, Commits
  <2> QED BY <2>2, <2>3 DEF Effect
<1> QED BY <1>1, <1>2, <1>3, <1>4, <1>5, <1>6, <1>7 DEF Step

\* Of the effects, an addition has that of an addition...
LEMMA AddStages ==
  ASSUME NEW c \in Callers, AddDocument(c), Effect(c)
  PROVE  Adds(c)
BY DEF AddDocument, Effect, Deletes, Commits, Rejects, WritesNothing, At, Stage

\* ... and a delete that of a delete, or leaves the log.
LEMMA DeleteStages ==
  ASSUME NEW c \in Callers, DeleteTerm(c) \/ DeleteAllDocuments(c), Effect(c)
  PROVE  Deletes(c) \/ UNCHANGED log
BY DEF DeleteTerm, DeleteAllDocuments, Effect, Adds, Commits, Rejects, WritesNothing, At, Stage

\* What a step is: a call begins, a thread moves, the process dies, or the
\* reader reloads.
LEMMA StepKinds ==
  ASSUME IInv, [Next]_vars
  PROVE  \/ \E c \in Callers : \E s, batch, keys, limit :
              GoodBody(s, batch, keys, limit) /\ Invoke(c, s, batch, keys, limit)
         \/ \E c \in Callers : Moves(c) /\ Effect(c)
         \/ Restart
         \/ UNCHANGED <<todo, arg, calls, log, commits, added, rejected>>
<1>1. ASSUME NEW c \in Callers, EngineError(c) \/ Panic(c)
      PROVE  Moves(c) /\ Effect(c)
  BY <1>1 DEF EngineError, Panic, Return, Moves, Effect, WritesNothing
<1>2. ASSUME BackgroundLoad \/ BackgroundPublish \/ UNCHANGED vars
      PROVE  UNCHANGED <<todo, arg, calls, log, commits, added, rejected>>
  BY <1>2 DEF BackgroundLoad, BackgroundPublish, vars, shared, local, aux
<1> QED BY <1>1, <1>2, MethodBodies, StatementEffect DEF Next

\* After a move nobody has a statement left that was not left before, and
\* nobody else has moved.
LEMMA MovesKeep ==
  ASSUME IInv, NEW c \in Callers, Moves(c)
  PROVE  /\ \A e \in Callers : e # c => todo'[e] = todo[e]
         /\ \A e \in Callers : todo'[e] # <<>> => Running(e)
         /\ \A e \in Callers : \A i \in 1..Len(todo'[e]) :
              \E k \in 1..Len(todo[e]) : todo'[e][i] = todo[e][k]
<1>1. PICK rest : /\ rest = <<>> \/ (Running(c) /\ rest = Tail(todo[c]))
                  /\ todo' = [todo EXCEPT ![c] = rest]
  BY DEF Moves
<1>2. todo'[c] = rest /\ \A e \in Callers : e # c => todo'[e] = todo[e]
  BY <1>1 DEF IInv, TypeOK
<1>3. \A i \in 1..Len(rest) : \E k \in 1..Len(todo[c]) : rest[i] = todo[c][k]
  <2>1. CASE rest = <<>>
    BY <2>1, EmptySeqs
  <2>2. CASE Running(c) /\ rest = Tail(todo[c])
    <3>1. todo[c] \in Seq(Steps) /\ todo[c] # <<>>
      BY <2>2 DEF IInv, TypeOK, Running
    <3> QED BY <2>2, <3>1, TailFacts
  <2> QED BY <1>1, <2>1, <2>2
<1>4. rest # <<>> => Running(c)
  BY <1>1
<1> QED BY <1>2, <1>3, <1>4 DEF Running

-----------------------------------------------------------------------------
(* Poisoning *)

\* A poisoned mutex is free, and stays free.
PoisonInv == poisoned => writer = Free

\* A panic releases the mutex as it poisons it, and a poisoned mutex is taken
\* by nobody.
LEMMA PoisonStep ==
  ASSUME IInv, PoisonInv, [Next]_vars
  PROVE  PoisonInv'
<1> USE DEF PoisonInv
<1>1. ASSUME NEW c \in Callers, Advance(c) \/ Return(c), UNCHANGED poisoned
      PROVE  PoisonInv'
  BY <1>1 DEF Advance, Return
<1>2. ASSUME NEW c \in Callers, Step(c)
      PROVE  PoisonInv'
  <2>1. CASE Lock(c)
    BY <2>1 DEF Lock, Return
  <2> QED
    BY <1>1, <1>2, <2>1 DEF Step, Convert, Term, AddDocument, DeleteTerm,
       DeleteAllDocuments, WriterCommit, Reload, Search, Fetch, Count
<1>3. ASSUME NEW c \in Callers, EngineError(c) \/ Panic(c)
      PROVE  PoisonInv'
  BY <1>1, <1>3 DEF EngineError, Panic, Return
<1>4. ASSUME NEW c \in Callers, Write(c) \/ Read(c)
      PROVE  PoisonInv'
  BY <1>4, MethodBodies DEF Invoke, shared
<1>5. CASE Restart \/ BackgroundLoad \/ BackgroundPublish \/ UNCHANGED vars
  BY <1>5 DEF Restart, BackgroundLoad, BackgroundPublish, vars, shared
<1> QED BY <1>2, <1>3, <1>4, <1>5 DEF Next

\* After a panic under the lock nothing more is staged or made durable, unless
\* the process dies and opens the index again.
THEOREM PoisonIsFinal == Spec => PoisonFreezes
<1>1. Init => PoisonInv
  BY DEF Init, PoisonInv
<1>2. IInv /\ PoisonInv /\ [Next]_vars => PoisonInv'
  BY PoisonStep
<1>3. IInv /\ PoisonInv /\ [Next]_vars =>
        [poisoned => commits' = commits /\ log' \in {log, <<>>}]_vars
  <2> SUFFICES ASSUME IInv, PoisonInv, [Next]_vars, poisoned
               PROVE  commits' = commits /\ log' \in {log, <<>>}
    OBVIOUS
  <2>1. \A c \in Callers : writer # c
    BY CallersAssumption DEF PoisonInv
  <2>2. ASSUME NEW c \in Callers
        PROVE  ~Adds(c) /\ ~Deletes(c) /\ ~Commits(c)
    BY <2>1, AtFacts DEF Adds, Deletes, Commits, WriterSteps
  <2> QED BY <2>2, StepKinds DEF Invoke, shared, Restart, Effect, Rejects, WritesNothing
<1> QED BY <1>1, <1>2, <1>3, Invariance, PTL DEF Spec, PoisonFreezes

-----------------------------------------------------------------------------
(* Batches *)

\* Call n left an addition in the log.
Staged(n) == \E i \in 1..Len(log) : log[i].kind = "add" /\ log[i].doc.n = n

\* Call n runs and is at its next addition, with the mutex.
Adding(n) == \E c \in Callers : writer = c /\ At(c, "add") /\ arg[c].n = n

\* Why a part of a batch is not committed: the call was told, nothing of it is
\* staged, nobody can commit any more, or the call has the mutex.
PartInv == \A n \in part : n \in failed \/ ~Staged(n) \/ poisoned \/ Adding(n)

\* What is staged after a statement was staged before or is what it adds.
LEMMA StagedBy ==
  ASSUME IInv, NEW c \in Callers, Adds(c) \/ Deletes(c) \/ UNCHANGED log, NEW n, Staged(n)'
  PROVE  Staged(n) \/ (Adds(c) /\ n = arg[c].n)
<1>0. log \in Seq(Op)
  BY DEF IInv, TypeOK
<1>1. ASSUME NEW op \in Op, log' = Append(log, op)
      PROVE  Staged(n) \/ (op.kind = "add" /\ op.doc.n = n)
  <2>1. Len(log') = Len(log) + 1 /\ log'[Len(log) + 1] = op
        /\ \A i \in 1..Len(log) : log'[i] = log[i]
    BY <1>0, <1>1
  <2> QED BY <1>0, <2>1 DEF Staged
<1>2. CASE Adds(c)
  <2>1. PICK doc \in Doc : /\ doc.n = arg[c].n
                           /\ log' = Append(log, [kind |-> "add", doc |-> doc])
    BY <1>2 DEF Adds
  <2> DEFINE op == [kind |-> "add", doc |-> doc]
  <2>2. op \in Op /\ op.doc.n = arg[c].n
    BY <2>1 DEF Op
  <2>3. log' = Append(log, op)
    BY <2>1
  <2> HIDE DEF op
  <2> QED BY <1>1, <1>2, <2>2, <2>3
<1>3. CASE Deletes(c)
  BY <1>1, <1>3 DEF Deletes
<1>4. CASE UNCHANGED log
  BY <1>4 DEF Staged
<1> QED BY <1>2, <1>3, <1>4

\* Another thread's move leaves a call that is adding where it is.
LEMMA StaysAdding ==
  ASSUME IInv, NEW c \in Callers, NEW n, Adding(n), arg' = arg,
         ~At(c, "add") \/ arg[c].n # n,
         writer # c => writer' = writer,
         \A e \in Callers : e # c => todo'[e] = todo[e]
  PROVE  Adding(n)'
<1>1. PICK e \in Callers : writer = e /\ At(e, "add") /\ arg[e].n = n
  BY DEF Adding
<1>2. e # c /\ writer' = e /\ todo'[e] = todo[e]
  BY <1>1
<1> QED BY <1>1, <1>2 DEF Adding, At

\* An addition that is not the last leaves its call at the next one.
LEMMA PartStep ==
  ASSUME IInv, PartInv, [Next]_vars
  PROVE  PartInv'
<1>1. ASSUME UNCHANGED <<log, part, failed, poisoned>>,
             \A n : Adding(n) => Adding(n)'
      PROVE  PartInv'
  BY <1>1 DEF PartInv, Staged
<1>2. ASSUME log' = <<>> PROVE PartInv'
  BY <1>2, EmptySeqs DEF PartInv, Staged
<1>3. ASSUME NEW c \in Callers, Write(c) \/ Read(c) PROVE PartInv'
  <2>1. PICK s, a : /\ todo[c] = <<>> /\ todo' = [todo EXCEPT ![c] = s]
                    /\ arg' = [arg EXCEPT ![c] = a]
                    /\ UNCHANGED <<writer, log, part, failed, poisoned>>
    BY <1>3, MethodBodies DEF Invoke, shared
  <2>2. ASSUME NEW n, Adding(n) PROVE Adding(n)'
    <3>1. PICK e \in Callers : writer = e /\ At(e, "add") /\ arg[e].n = n
      BY <2>2 DEF Adding
    <3>2. e # c
      BY <2>1, <3>1 DEF At
    <3>3. todo'[e] = todo[e] /\ arg'[e] = arg[e] /\ writer' = e
      BY <2>1, <3>1, <3>2 DEF IInv, TypeOK
    <3> QED BY <3>1, <3>3 DEF Adding, At
  <2> QED BY <1>1, <2>1, <2>2
<1>4. ASSUME NEW c \in Callers, Lock(c) PROVE PartInv'
  <2>1. UNCHANGED <<log, part, failed, poisoned>> /\ \A n : ~Adding(n)
    BY <1>4, CallersAssumption DEF Lock, Adding
  <2> QED BY <1>1, <2>1
<1>5. ASSUME NEW c \in Callers, Convert(c) \/ Term(c) \/ Reload(c) \/ Search(c)
                                \/ Fetch(c) \/ Count(c)
      PROVE  PartInv'
  <2>1. /\ UNCHANGED <<log, part, failed, poisoned, arg, calls>> /\ ~At(c, "add")
        /\ Running(c) /\ (Advance(c) \/ Return(c))
    BY <1>5 DEF Convert, Term, Reload, Search, Fetch, Count, At, Running
  <2>2. /\ writer # c => writer' = writer
        /\ \A e \in Callers : e # c => todo'[e] = todo[e]
    BY <2>1, AdvanceMoves, MovesKeep DEF Advance, Return
  <2> QED BY <1>1, <2>1, <2>2, StaysAdding
<1>6. ASSUME NEW c \in Callers, AddDocument(c) PROVE PartInv'
  <2>1. /\ Adds(c) /\ writer = c /\ At(c, "add") /\ Advance(c)
        /\ part' = Part(c) /\ UNCHANGED <<failed, poisoned, arg>>
    <3>1. At(c, "add") /\ writer = c
      BY <1>6, AtFacts DEF AddDocument, WriterSteps
    <3>2. Step(c)
      BY <1>6 DEF Step
    <3>3. Adds(c)
      BY <1>6, <3>1, <3>2, StatementEffect, AddStages
    <3> QED BY <1>6, <3>1, <3>3 DEF AddDocument
  <2>2. ASSUME NEW n \in part', n = arg[c].n PROVE Adding(n)'
    <3>1. added[c] + 1 < Len(arg[c].batch)
      BY <2>1, <2>2 DEF Part
    <3>2. /\ \A i \in 1..Len(todo[c]) : todo[c][i] = "add"
          /\ Len(arg[c].batch) = Len(todo[c]) + added[c] /\ Len(todo[c]) \in Nat
          /\ added[c] \in Nat
      BY <2>1, AtAdd, BatchTypes DEF IInv
    <3>3. Len(todo[c]) > 1
      BY <3>1, <3>2
    <3>4. todo[c] \in Seq(Steps) /\ todo[c] # <<>>
      BY <2>1 DEF IInv, TypeOK, At
    <3>5. Tail(todo[c]) # <<>> /\ Head(Tail(todo[c])) = "add"
      <4>1. PICK t \in Seq(Steps) : /\ t = Tail(todo[c]) /\ Len(t) = Len(todo[c]) - 1
                                    /\ t[1] = todo[c][2]
        <5>1. PICK m \in Nat : m = Len(todo[c]) /\ m > 1
          BY <3>2, <3>3
        <5>2. /\ Tail(todo[c]) \in Seq(Steps) /\ Len(Tail(todo[c])) = m - 1
              /\ \A i \in 1..(m - 1) : Tail(todo[c])[i] = todo[c][i + 1]
          BY <3>4, <5>1, TailFacts
        <5>3. 1 \in 1..(m - 1) /\ 1 + 1 = 2
          BY <5>1
        <5>4. Tail(todo[c])[1] = todo[c][2]
          BY <5>2, <5>3
        <5> QED BY <5>1, <5>2, <5>4
      <4>2. t[1] = "add" /\ Len(t) > 0
        BY <3>2, <3>3, <4>1
      <4>3. t # <<>> /\ Head(t) = t[1]
        BY <4>2
      <4> QED BY <4>1, <4>2, <4>3
    <3>6. todo'[c] = Tail(todo[c]) /\ writer' = c
      <4>1. Len(todo[c]) # 1
        BY <3>2, <3>3
      <4>2. todo \in [Callers -> Seq(Steps)]
        BY DEF IInv, TypeOK
      <4> QED BY ZenonT(30), <2>1, <4>1, <4>2 DEF Advance
    <3> QED BY <2>1, <2>2, <3>5, <3>6 DEF Adding, At
  <2>3. ASSUME NEW n \in part', n # arg[c].n
        PROVE  n \in failed' \/ ~Staged(n)' \/ poisoned'
    <3>1. n \in part
      BY <2>1, <2>3 DEF Part
    <3>2. ~Adding(n)
      BY <2>1, <2>3 DEF Adding
    <3> QED BY <2>1, <2>3, <3>1, <3>2, StagedBy DEF PartInv
  <2> QED BY <2>2, <2>3 DEF PartInv
<1>7. ASSUME NEW c \in Callers, DeleteTerm(c) \/ DeleteAllDocuments(c) PROVE PartInv'
  <2>1. /\ writer = c /\ ~At(c, "add") /\ UNCHANGED <<part, failed, poisoned>>
    BY <1>7, AtFacts DEF DeleteTerm, DeleteAllDocuments, WriterSteps, At
  <2>2. \A n : ~Adding(n)
    BY <2>1 DEF Adding
  <2>3. Deletes(c) \/ UNCHANGED log
    <3>1. Step(c)
      BY <1>7 DEF Step
    <3> QED BY <1>7, <3>1, StatementEffect, DeleteStages
  <2>4. ~Adds(c)
    BY <2>1 DEF Adds
  <2> QED BY <2>1, <2>2, <2>3, <2>4, StagedBy DEF PartInv
<1>8. ASSUME NEW c \in Callers, EngineError(c) PROVE PartInv'
  <2>1. /\ UNCHANGED <<log, part, poisoned, arg, calls>> /\ failed' = failed \cup {arg[c].n}
        /\ Running(c) /\ Return(c)
    BY <1>8 DEF EngineError, Running
  <2>2. /\ writer # c => writer' = writer
        /\ \A e \in Callers : e # c => todo'[e] = todo[e]
    BY <2>1, AdvanceMoves, MovesKeep DEF Return
  <2>3. ASSUME NEW n \in part, n # arg[c].n, Adding(n) PROVE Adding(n)'
    BY <2>1, <2>2, <2>3, StaysAdding
  <2> QED BY <2>1, <2>3 DEF PartInv, Staged
<1>9. ASSUME NEW c \in Callers, Panic(c) PROVE PartInv'
  BY <1>9 DEF Panic, PartInv
<1>10. CASE BackgroundLoad \/ BackgroundPublish \/ UNCHANGED vars
  <2>1. UNCHANGED <<log, part, failed, poisoned, writer, todo, arg>>
    BY <1>10 DEF BackgroundLoad, BackgroundPublish, vars, shared, local, aux
  <2> QED BY <1>1, <2>1 DEF Adding, At
<1>11. ASSUME NEW c \in Callers, WriterCommit(c) PROVE PartInv'
  BY <1>2, <1>11 DEF WriterCommit
<1>12. CASE Restart
  BY <1>2, <1>12 DEF Restart
<1> QED BY <1>3, <1>4, <1>5, <1>6, <1>7, <1>8, <1>9, <1>10, <1>11, <1>12 DEF Next, Step

\* A commit makes a part of a batch durable only if add_document failed inside
\* it and the call was told: the batch has the mutex from its first addition
\* to its last, a panic between them poisons it, and a commit needs it.
THEOREM BatchesAreWhole == Spec => CommitsWholeBatches
<1>1. Init => PoisonInv /\ PartInv
  BY DEF Init, PoisonInv, PartInv
<1>2. IInv /\ PoisonInv /\ PartInv /\ [Next]_vars => PoisonInv' /\ PartInv'
  BY PoisonStep, PartStep
<1>3. IInv /\ PoisonInv /\ PartInv /\ [Next]_vars =>
        [commits' # commits =>
           \A i \in 1..Len(log) :
             log[i].kind = "add" /\ log[i].doc.n \in part => log[i].doc.n \in failed]_vars
  <2> SUFFICES ASSUME IInv, PoisonInv, PartInv, [Next]_vars, commits' # commits,
                      NEW i \in 1..Len(log), log[i].kind = "add", log[i].doc.n \in part
               PROVE  log[i].doc.n \in failed
    OBVIOUS
  <2>1. PICK e \in Callers : Commits(e)
    BY StepKinds DEF Invoke, shared, Restart, Effect, Adds, Deletes, Rejects, WritesNothing
  <2>2. writer = e /\ At(e, "commit")
    BY <2>1, AtFacts DEF Commits, WriterSteps
  <2>3. ~poisoned
    BY <2>2, CallersAssumption DEF PoisonInv
  <2>4. ~Adding(log[i].doc.n)
    BY <2>2 DEF Adding, At
  <2>5. Staged(log[i].doc.n)
    BY DEF Staged
  <2> QED BY <2>3, <2>4, <2>5 DEF PartInv
<1> QED BY <1>1, <1>2, <1>3, Invariance, PTL DEF Spec, CommitsWholeBatches

-----------------------------------------------------------------------------
(* Rejected calls *)

\* Call n left a document behind, staged or committed.
Committed(n) == \E i \in 1..Len(commits) : \E d \in commits[i] : d.n = n
Left(n) == Staged(n) \/ Committed(n)

\* Calls have numbers of their own; a running call is not among the rejected,
\* and has left nothing behind while it still converts.
CallInv ==
  /\ \A n : Left(n) => n \in 1..calls
  /\ rejected \subseteq 1..calls
  /\ \A c, e \in Callers : Running(c) /\ Running(e) /\ arg[c].n = arg[e].n => c = e
  /\ \A c \in Callers : Running(c) => arg[c].n \notin rejected
  /\ \A c \in Callers : \A i \in 1..Len(todo[c]) :
       todo[c][i] = "convert" => ~Left(arg[c].n)

RejectInv == CallInv /\ RejectedCallLeavesNothing

\* What is in the working set was there in the last commit or is staged.
LEMMA LiveFrom ==
  ASSUME NEW base, NEW lg, NEW d \in Live(base, lg)
  PROVE  d \in base \/ \E i \in 1..Len(lg) : lg[i].kind = "add" /\ d = lg[i].doc
BY DEF Live

\* What a statement leaves behind is from the call that adds a document: an
\* addition leaves its own number, a commit nothing new.
LEMMA LeftBehind ==
  ASSUME IInv, NEW c \in Callers, Effect(c), NEW n, Left(n)'
  PROVE  Left(n) \/ (Adds(c) /\ n = arg[c].n)
<1>0. log \in Seq(Op) /\ commits \in Seq(SUBSET Doc) /\ Len(commits) \in 1..Len(commits)
  BY DEF IInv, TypeOK
<1>1. CASE Adds(c)
  <2>1. PICK doc \in Doc : /\ doc.n = arg[c].n
                           /\ log' = Append(log, [kind |-> "add", doc |-> doc])
    BY <1>1 DEF Adds
  <2>2. Committed(n)' => Committed(n)
    BY <1>1 DEF Adds, Committed
  <2>3. ASSUME Staged(n)' PROVE Staged(n) \/ n = arg[c].n
    <3> DEFINE op == [kind |-> "add", doc |-> doc]
    <3>1. op \in Op /\ op.doc.n = arg[c].n
      BY <2>1 DEF Op
    <3> HIDE DEF op
    <3>2. log' = Append(log, op)
      BY <2>1 DEF op
    <3>3. Len(log') = Len(log) + 1 /\ log'[Len(log) + 1] = op
          /\ \A i \in 1..Len(log) : log'[i] = log[i]
      BY <1>0, <3>1, <3>2
    <3> QED BY <1>0, <2>3, <3>1, <3>3 DEF Staged
  <2> QED BY <1>1, <2>2, <2>3 DEF Left
<1>2. CASE Deletes(c)
  <2>1. PICK op \in Op : op.kind # "add" /\ log' = Append(log, op)
    BY <1>2 DEF Deletes
  <2>2. Committed(n)' => Committed(n)
    BY <1>2 DEF Deletes, Committed
  <2>3. ASSUME Staged(n)' PROVE Staged(n)
    <3>1. Len(log') = Len(log) + 1 /\ log'[Len(log) + 1] = op
          /\ \A i \in 1..Len(log) : log'[i] = log[i]
      BY <1>0, <2>1
    <3> QED BY <1>0, <2>1, <2>3, <3>1 DEF Staged
  <2> QED BY <2>2, <2>3 DEF Left
<1>3. CASE Commits(c)
  <2>1. ~Staged(n)'
    BY <1>3, EmptySeqs DEF Commits, Staged
  <2>2. ASSUME Committed(n)' PROVE Left(n)
    <3>1. PICK w \in SUBSET Doc : w = Live(LastCommit, log)
      BY CommitType, LiveType DEF IInv, TypeOK
    <3>2. commits' = Append(commits, w)
      BY <1>3, <3>1 DEF Commits
    <3>3. Len(commits') = Len(commits) + 1 /\ commits'[Len(commits) + 1] = w
          /\ \A i \in 1..Len(commits) : commits'[i] = commits[i]
      BY <1>0, <3>2
    <3>4. PICK i \in 1..(Len(commits) + 1) : \E d \in commits'[i] : d.n = n
      BY <2>2, <3>3 DEF Committed
    <3>5. CASE i \in 1..Len(commits)
      BY <3>3, <3>4, <3>5 DEF Left, Committed
    <3>6. CASE i = Len(commits) + 1
      <4>1. PICK d \in Live(LastCommit, log) : d.n = n
        BY <3>1, <3>3, <3>4, <3>6
      <4>2. d \in LastCommit \/ \E j \in 1..Len(log) : log[j].kind = "add" /\ d = log[j].doc
        BY <4>1, LiveFrom
      <4> QED BY <1>0, <4>1, <4>2 DEF Left, Staged, Committed, LastCommit
    <3> QED BY <1>0, <3>4, <3>5, <3>6
  <2> QED BY <2>1, <2>2 DEF Left
<1>4. CASE Rejects(c) \/ WritesNothing
  BY <1>4 DEF Rejects, WritesNothing, Left, Staged, Committed
<1> QED BY <1>1, <1>2, <1>3, <1>4 DEF Effect

\* Rejected calls and what they left, in the two words of the invariant.
LEMMA RejectedMeans ==
  RejectedCallLeavesNothing <=> \A n \in rejected : ~Left(n)
BY DEF RejectedCallLeavesNothing, Left, Staged, Committed

\* A call that begins has a number that nobody has had.
LEMMA InvokeRejects ==
  ASSUME IInv, RejectInv, NEW c \in Callers, NEW s, NEW batch, NEW keys, NEW limit,
         Invoke(c, s, batch, keys, limit)
  PROVE  RejectInv'
<1>1. /\ todo' = [todo EXCEPT ![c] = s] /\ calls' = calls + 1 /\ calls \in Nat
      /\ arg'[c].n = calls + 1 /\ \A e \in Callers : e # c => arg'[e] = arg[e]
      /\ UNCHANGED <<log, commits, rejected>>
  BY DEF Invoke, shared, IInv, TypeOK
<1>2. \A n : Left(n)' <=> Left(n)
  BY <1>1 DEF Left, Staged, Committed
<1>3. \A e \in Callers : e # c => todo'[e] = todo[e]
  BY <1>1 DEF IInv, TypeOK
<1>4. \A e \in Callers : Running(e) => arg[e].n \in 1..calls
  BY DEF IInv, ArgInv
<1>5. calls + 1 \notin 1..calls /\ 1..calls \subseteq 1..(calls + 1)
  BY <1>1
<1>6. ~Left(calls + 1) /\ calls + 1 \notin rejected
  BY <1>5 DEF RejectInv, CallInv
<1>7. (\A n : Left(n) => n \in 1..calls)' /\ (rejected \subseteq 1..calls)'
  BY <1>1, <1>2, <1>5 DEF RejectInv, CallInv
<1>8. ASSUME NEW d \in Callers, NEW e \in Callers, todo'[d] # <<>>, todo'[e] # <<>>,
             arg'[d].n = arg'[e].n
      PROVE  d = e
  BY <1>1, <1>3, <1>4, <1>5, <1>8 DEF RejectInv, CallInv, Running
<1>9. ASSUME NEW e \in Callers, todo'[e] # <<>>
      PROVE  arg'[e].n \notin rejected'
  BY <1>1, <1>3, <1>6, <1>9 DEF RejectInv, CallInv, Running
<1>10. ASSUME NEW e \in Callers, NEW i \in 1..Len(todo'[e]), todo'[e][i] = "convert"
       PROVE  ~Left(arg'[e].n)
  <2>1. CASE e = c
    BY <1>1, <1>6, <2>1
  <2>2. CASE e # c
    BY <1>1, <1>3, <1>10, <2>2 DEF RejectInv, CallInv
  <2> QED BY <2>1, <2>2
<1>11. CallInv'
  BY <1>2, <1>7, <1>8, <1>9, <1>10 DEF CallInv, Running
<1>12. RejectedCallLeavesNothing'
  BY <1>1, <1>2, RejectedMeans DEF RejectInv, RejectedCallLeavesNothing, Left, Staged, Committed
<1> QED BY <1>11, <1>12 DEF RejectInv

\* A call is rejected while it has added nothing, and is over then.
LEMMA StatementRejects ==
  ASSUME IInv, RejectInv, NEW c \in Callers, Moves(c), Effect(c)
  PROVE  RejectInv'
<1>1. UNCHANGED <<arg, calls>>
  BY DEF Moves
<1>2. /\ \A e \in Callers : e # c => todo'[e] = todo[e]
      /\ \A e \in Callers : todo'[e] # <<>> => Running(e)
      /\ \A e \in Callers : \A i \in 1..Len(todo'[e]) :
           \E k \in 1..Len(todo[e]) : todo'[e][i] = todo[e][k]
  BY MovesKeep
<1>3. Adds(c) => /\ Running(c) /\ arg[c].n \in 1..calls
                 /\ \A i \in 1..Len(todo[c]) : todo[c][i] = "add"
  <2> SUFFICES ASSUME Adds(c)
               PROVE  /\ Running(c) /\ arg[c].n \in 1..calls
                      /\ \A i \in 1..Len(todo[c]) : todo[c][i] = "add"
    OBVIOUS
  <2>1. Running(c)
    BY AtFacts DEF Adds
  <2>2. \A i \in 1..Len(todo[c]) : todo[c][i] = "add"
    BY AtAdd DEF Adds
  <2> QED BY <2>1, <2>2 DEF IInv, ArgInv
<1>4. /\ rejected' \subseteq rejected \cup {arg[c].n}
      /\ arg[c].n \in rejected' => \/ arg[c].n \in rejected
                                  \/ /\ Rejects(c) /\ Running(c) /\ todo'[c] = <<>>
                                     /\ ~Left(arg[c].n) /\ arg[c].n \in 1..calls
  <2>1. CASE Rejects(c)
    <3>1. Running(c) /\ todo[c][1] = "convert" /\ 1 \in 1..Len(todo[c])
      BY <2>1, AtFacts DEF Rejects
    <3>2. ~Left(arg[c].n) /\ arg[c].n \in 1..calls
      BY <3>1 DEF RejectInv, CallInv, IInv, ArgInv
    <3>3. todo'[c] = <<>> /\ rejected' = rejected \cup {arg[c].n}
      BY <2>1 DEF Rejects, IInv, TypeOK
    <3> QED BY <2>1, <3>1, <3>2, <3>3
  <2>2. CASE rejected' = rejected
    BY <2>2
  <2> QED BY <2>1, <2>2 DEF Effect, Adds, Deletes, Commits, WritesNothing
<1>5. (\A n : Left(n) => n \in 1..calls)' /\ (rejected \subseteq 1..calls)'
  BY <1>1, <1>3, <1>4, LeftBehind DEF RejectInv, CallInv
<1>6. ASSUME NEW d \in Callers, NEW e \in Callers, todo'[d] # <<>>, todo'[e] # <<>>,
             arg'[d].n = arg'[e].n
      PROVE  d = e
  BY <1>1, <1>2, <1>6 DEF RejectInv, CallInv
<1>7. ASSUME NEW e \in Callers, todo'[e] # <<>>
      PROVE  arg'[e].n \notin rejected'
  <2>1. Running(e) /\ arg[e].n \notin rejected
    BY <1>2, <1>7 DEF RejectInv, CallInv
  <2>2. ASSUME arg[e].n \in rejected' PROVE FALSE
    <3>1. arg[e].n = arg[c].n /\ Running(c) /\ todo'[c] = <<>>
      BY <1>4, <2>1, <2>2
    <3>2. e = c
      BY <2>1, <3>1 DEF RejectInv, CallInv
    <3> QED BY <1>7, <3>1, <3>2
  <2> QED BY <1>1, <2>2
<1>8. ASSUME NEW e \in Callers, NEW i \in 1..Len(todo'[e]), todo'[e][i] = "convert"
      PROVE  ~Left(arg[e].n)'
  <2>1. PICK k \in 1..Len(todo[e]) : todo[e][k] = "convert"
    BY <1>2, <1>8
  <2>2. ~Left(arg[e].n) /\ Running(e)
    <3>1. ~Left(arg[e].n)
      BY <2>1 DEF RejectInv, CallInv
    <3>2. todo[e] # <<>>
      BY <2>1, EmptySeqs
    <3> QED BY <3>1, <3>2 DEF Running
  <2>3. ASSUME Adds(c), arg[e].n = arg[c].n PROVE FALSE
    <3>1. e = c
      BY <1>3, <2>2, <2>3 DEF RejectInv, CallInv
    <3> QED BY <1>3, <2>1, <2>3, <3>1
  <2>4. arg'[e].n = arg[e].n
    BY <1>1
  <2> QED BY <2>2, <2>3, <2>4, LeftBehind
<1>9. ASSUME NEW n \in rejected' PROVE ~Left(n)'
  <2>1. ~Left(n)
    BY <1>4, RejectedMeans DEF RejectInv
  <2>2. ASSUME Adds(c) PROVE n # arg[c].n
    <3>1. arg[c].n \notin rejected
      BY <1>3, <2>2 DEF RejectInv, CallInv
    <3>2. rejected' = rejected
      BY <2>2 DEF Adds
    <3> QED BY <3>1, <3>2
  <2> QED BY <2>1, <2>2, LeftBehind
<1>10. CallInv'
  BY <1>1, <1>5, <1>6, <1>7, <1>8 DEF CallInv, Running
<1>11. RejectedCallLeavesNothing'
  BY <1>9 DEF RejectedCallLeavesNothing, Left, Staged, Committed
<1> QED BY <1>10, <1>11 DEF RejectInv

\* A call that returned a conversion error left no document behind, staged or
\* committed, whatever other threads add and commit around it.
THEOREM RejectionIsClean == Spec => []RejectedCallLeavesNothing
<1>1. Init => RejectInv
  <2> SUFFICES ASSUME Init PROVE RejectInv
    OBVIOUS
  <2>1. \A n : ~Left(n)
    <3>1. log = <<>> /\ Len(commits) = 1 /\ commits[1] = {}
      BY DEF Init
    <3> QED BY <3>1, EmptySeqs DEF Left, Staged, Committed
  <2>2. rejected = {} /\ \A c \in Callers : todo[c] = <<>>
    BY DEF Init
  <2> QED BY <2>1, <2>2 DEF RejectInv, CallInv, Running, RejectedCallLeavesNothing
<1>2. IInv /\ RejectInv /\ [Next]_vars => RejectInv'
  <2> SUFFICES ASSUME IInv, RejectInv, [Next]_vars PROVE RejectInv'
    OBVIOUS
  <2>1. CASE Restart
    <3>1. log' = <<>> /\ (\A c \in Callers : todo'[c] = <<>>)
          /\ UNCHANGED <<commits, calls, rejected>>
      BY <2>1 DEF Restart, aux
    <3>2. \A n : Left(n)' => Left(n)
      BY <3>1, EmptySeqs DEF Left, Staged, Committed
    <3>3. CallInv'
      BY <3>1, <3>2, EmptySeqs DEF RejectInv, CallInv, Running
    <3>4. RejectedCallLeavesNothing'
      BY <3>1, EmptySeqs DEF RejectInv, RejectedCallLeavesNothing
    <3> QED BY <3>3, <3>4 DEF RejectInv
  <2>2. CASE UNCHANGED <<todo, arg, calls, log, commits, added, rejected>>
    BY <2>2 DEF RejectInv, CallInv, RejectedCallLeavesNothing, Left, Staged, Committed, Running
  <2> QED BY <2>1, <2>2, StepKinds, InvokeRejects, StatementRejects
<1>3. RejectInv => RejectedCallLeavesNothing
  BY DEF RejectInv
<1> QED BY <1>1, <1>2, <1>3, Invariance, PTL DEF Spec

-----------------------------------------------------------------------------
(* Reads *)

\* A searcher stays on the version it was taken on, and its hits are of it.
ViewInv == \A c \in Callers : /\ view[c].at \in 1..Len(commits)
                              /\ view[c].hits \subseteq commits[view[c].at]

\* A commit adds a version and changes none.
LEMMA CommitsGrow ==
  ASSUME IInv, \/ UNCHANGED commits
               \/ commits' = Append(commits, Live(LastCommit, log))
  PROVE  \A i \in 1..Len(commits) : i \in 1..Len(commits') /\ commits'[i] = commits[i]
<1>1. PICK w \in SUBSET Doc : w = Live(LastCommit, log)
  BY CommitType, LiveType DEF IInv, TypeOK
<1>2. commits \in Seq(SUBSET Doc)
  BY DEF IInv, TypeOK
<1>3. CASE commits' = Append(commits, w)
  BY <1>2, <1>3
<1> QED BY <1>1, <1>3

\* What each step does to the searchers.
LEMMA ViewStep ==
  ASSUME IInv, ViewInv, [Next]_vars
  PROVE  ViewInv'
<1>0. /\ view \in [Callers -> View] /\ commits \in Seq(SUBSET Doc) /\ commits # <<>>
      /\ seen \in 1..Len(commits)
  BY DEF IInv, TypeOK
<1>1. ASSUME NEW c \in Callers, NEW v, view' = [view EXCEPT ![c] = v],
             v.at \in 1..Len(commits), v.hits \subseteq commits[v.at], UNCHANGED commits
      PROVE  ViewInv'
  <2>1. view'[c] = v /\ \A e \in Callers : e # c => view'[e] = view[e]
    BY <1>0, <1>1
  <2> QED BY <1>1, <2>1 DEF ViewInv
<1>2. ASSUME UNCHANGED view,
             \/ UNCHANGED commits
             \/ commits' = Append(commits, Live(LastCommit, log))
      PROVE  ViewInv'
  BY <1>2, CommitsGrow DEF ViewInv
<1>3. ASSUME NEW c \in Callers, Write(c) \/ Read(c) PROVE ViewInv'
  <2>1. view' = [view EXCEPT ![c] = NoView] /\ UNCHANGED commits
    BY <1>3, MethodBodies DEF Invoke, shared
  <2>2. NoView.at = 1 /\ NoView.hits = {} /\ 1 \in 1..Len(commits)
    BY <1>0 DEF NoView
  <2>3. NoView.at \in 1..Len(commits) /\ NoView.hits \subseteq commits[NoView.at]
    BY <2>2
  <2> QED BY <1>1, <2>1, <2>3
<1>4. ASSUME NEW c \in Callers, Search(c) PROVE ViewInv'
  <2>1. PICK hits \in SUBSET Matching(arg[c].keys, commits[seen]) :
          view' = [view EXCEPT ![c] = [at |-> seen, hits |-> hits, docs |-> {}]]
    BY <1>4 DEF Search
  <2>2. hits \subseteq commits[seen]
    BY <2>1 DEF Matching
  <2> DEFINE v == [at |-> seen, hits |-> hits, docs |-> {}]
  <2>3. v.at \in 1..Len(commits) /\ v.hits \subseteq commits[v.at]
    BY <1>0, <2>2
  <2>4. view' = [view EXCEPT ![c] = v] /\ UNCHANGED commits
    BY <1>4, <2>1 DEF Search
  <2> HIDE DEF v
  <2> QED BY <1>1, <2>3, <2>4
<1>5. ASSUME NEW c \in Callers, Count(c) PROVE ViewInv'
  <2> DEFINE v == [at |-> seen, hits |-> commits[seen], docs |-> {}]
  <2>1. v.at \in 1..Len(commits) /\ v.hits \subseteq commits[v.at]
    BY <1>0
  <2>2. view' = [view EXCEPT ![c] = v] /\ UNCHANGED commits
    BY <1>5 DEF Count
  <2> HIDE DEF v
  <2> QED BY <1>1, <2>1, <2>2
<1>6. ASSUME NEW c \in Callers, Fetch(c) PROVE ViewInv'
  <2>1. PICK docs : view' = [view EXCEPT ![c].docs = docs]
    BY <1>6 DEF Fetch
  <2>2. view'[c].at = view[c].at /\ view'[c].hits = view[c].hits
        /\ \A e \in Callers : e # c => view'[e] = view[e]
    BY <1>0, <2>1 DEF View
  <2> QED BY <1>6, <2>2 DEF ViewInv, Fetch
<1>7. ASSUME NEW c \in Callers,
             \/ Lock(c) \/ Convert(c) \/ Term(c) \/ AddDocument(c) \/ DeleteTerm(c)
             \/ DeleteAllDocuments(c) \/ WriterCommit(c) \/ Reload(c)
             \/ EngineError(c) \/ Panic(c)
      PROVE  ViewInv'
  BY <1>2, <1>7 DEF Lock, Convert, Term, AddDocument, DeleteTerm, DeleteAllDocuments,
     WriterCommit, Reload, EngineError, Panic
<1>8. CASE Restart \/ BackgroundLoad \/ BackgroundPublish \/ UNCHANGED vars
  BY <1>2, <1>8 DEF Restart, BackgroundLoad, BackgroundPublish, vars, shared, local
<1> QED BY <1>3, <1>4, <1>5, <1>6, <1>7, <1>8 DEF Next, Step

\* A read that ends well returns every hit it counted, all of one committed
\* version, whatever was committed and loaded since it searched.
THEOREM ReadsAreSnapshots == Spec => ReadsOneVersion
<1>1. Init => ViewInv
  <2> SUFFICES ASSUME Init, NEW c \in Callers
               PROVE  view[c].at \in 1..Len(commits) /\ view[c].hits \subseteq commits[view[c].at]
    BY DEF ViewInv
  <2>1. view[c] = NoView /\ Len(commits) = 1
    BY DEF Init
  <2>2. view[c].at = 1 /\ view[c].hits = {}
    BY <2>1 DEF NoView
  <2> QED BY <2>1, <2>2
<1>2. IInv /\ ViewInv /\ [Next]_vars => ViewInv'
  BY ViewStep
<1>3. IInv /\ ViewInv /\ [Next]_vars =>
        [\A c \in Callers :
           At(c, "fetch") /\ todo'[c] = <<>> /\ faults' = faults =>
             /\ view'[c].docs = view[c].hits
             /\ \E i \in 1..Len(commits) : view'[c].docs \subseteq commits[i]]_vars
  <2> SUFFICES ASSUME IInv, ViewInv, Next, NEW c \in Callers,
                      At(c, "fetch"), todo'[c] = <<>>, faults' = faults
               PROVE  /\ view'[c].docs = view[c].hits
                      /\ \E i \in 1..Len(commits) : view'[c].docs \subseteq commits[i]
    OBVIOUS
  <2>1. Running(c) /\ Head(todo[c]) = "fetch" /\ faults \in Nat
    BY SMTT(60), AtFacts DEF IInv, TypeOK
  <2>2. \A e \in Callers : ~EngineError(e) /\ ~Panic(e)
    BY <2>1 DEF EngineError, Panic
  <2>3. ~Restart /\ ~BackgroundLoad /\ ~BackgroundPublish
    BY <2>1 DEF Restart, BackgroundLoad, BackgroundPublish, local, Running
  <2>4. \A e \in Callers : ~(Write(e) \/ Read(e))
    <3> SUFFICES ASSUME NEW e \in Callers, Write(e) \/ Read(e) PROVE FALSE
      OBVIOUS
    <3>1. PICK s : todo[e] = <<>> /\ todo' = [todo EXCEPT ![e] = s]
      BY SMTT(60), MethodBodies DEF Invoke
    <3>2. e # c
      BY <2>1, <3>1 DEF Running
    <3> QED BY <2>1, <3>1, <3>2 DEF Running, IInv, TypeOK
  <2>5. PICK e \in Callers : Step(e)
    BY <2>2, <2>3, <2>4 DEF Next
  <2>6. e = c
    BY <2>1, <2>5, StatementEffect, MovesKeep DEF Running
  <2>7. Fetch(c)
    BY <2>1, <2>5, <2>6 DEF Step, At, Lock, Convert, Term, AddDocument, DeleteTerm,
       DeleteAllDocuments, WriterCommit, Reload, Search, Count
  <2>8. view'[c].docs = view[c].hits \cap commits[view[c].at]
    BY <2>7 DEF Fetch, IInv, TypeOK, View
  <2> QED BY <2>8 DEF ViewInv
<1> QED BY <1>1, <1>2, <1>3, Invariance, PTL DEF Spec, ReadsOneVersion

-----------------------------------------------------------------------------
(* Refinement: the working set of AtomicIndex is what a commit would make
   durable now; the lemmas on Live say how staging one more operation
   changes it, and the rest is one step per action. *)

\* Length, elements and last element of a sequence with one more element.
LEMMA AppendFacts ==
  ASSUME NEW lg \in Seq(Op), NEW op \in Op
  PROVE  /\ Len(lg) \in Nat /\ Len(Append(lg, op)) = Len(lg) + 1
         /\ \A i \in 1..Len(lg) : Append(lg, op)[i] = lg[i]
         /\ Append(lg, op)[Len(lg) + 1] = op
OBVIOUS

\* With nothing staged a commit changes nothing.
LEMMA LiveEmpty == ASSUME NEW base PROVE Live(base, <<>>) = base
BY EmptySeqs DEF Live

\* Staging an operation masks what it names and then adds what it carries.
LEMMA LiveAppend ==
  ASSUME NEW base \in SUBSET Doc, NEW lg \in Seq(Op), NEW op \in Op
  PROVE  Live(base, Append(lg, op)) =
           {d \in Live(base, lg) : ~Masks(op, d)}
             \cup (IF op.kind = "add" THEN {op.doc} ELSE {})
<1>1. PICK m : m = Append(lg, op)
  OBVIOUS
<1>2. PICK n \in Nat : n = Len(lg)
  OBVIOUS
<1>3. /\ Len(m) = n + 1 /\ m[n + 1] = op /\ \A i \in 1..n : m[i] = lg[i]
  BY <1>1, <1>2, AppendFacts
<1>5. ASSUME NEW d
      PROVE  d \in {e \in base : \A j \in 1..(n + 1) : ~Masks(m[j], e)}
               <=> d \in {e \in base : \A j \in 1..n : ~Masks(lg[j], e)} /\ ~Masks(op, d)
  BY <1>2, <1>3
<1> DEFINE addsOf(s, len) ==
      {s[i].doc : i \in {i \in 1..len :
         /\ s[i].kind = "add"
         /\ \A j \in (i + 1)..len : ~Masks(s[j], s[i].doc)}}
<1>6. ASSUME NEW d \in addsOf(m, n + 1)
      PROVE  (d \in addsOf(lg, n) /\ ~Masks(op, d)) \/ (op.kind = "add" /\ d = op.doc)
  <2>1. PICK i \in 1..(n + 1) : /\ d = m[i].doc /\ m[i].kind = "add"
                                /\ \A j \in (i + 1)..(n + 1) : ~Masks(m[j], m[i].doc)
    BY <1>6
  <2>2. CASE i = n + 1
    BY <1>3, <2>1, <2>2
  <2>3. CASE i # n + 1
    <3>1. i \in 1..n /\ n + 1 \in (i + 1)..(n + 1)
      BY <2>3
    <3>2. ~Masks(op, d)
      BY <1>3, <2>1, <3>1
    <3>3. \A j \in (i + 1)..n : ~Masks(lg[j], lg[i].doc)
      BY <1>3, <2>1, <3>1
    <3> QED BY <1>3, <2>1, <3>1, <3>2, <3>3
  <2> QED BY <2>2, <2>3
<1>7. ASSUME NEW d \in addsOf(lg, n), ~Masks(op, d)
      PROVE  d \in addsOf(m, n + 1)
  <2>1. PICK i \in 1..n : /\ d = lg[i].doc /\ lg[i].kind = "add"
                          /\ \A j \in (i + 1)..n : ~Masks(lg[j], lg[i].doc)
    BY <1>7
  <2>2. i \in 1..(n + 1) /\ m[i] = lg[i]
    BY <1>3
  <2>3. ASSUME NEW j \in (i + 1)..(n + 1) PROVE ~Masks(m[j], m[i].doc)
    <3>1. CASE j = n + 1
      BY <1>3, <1>7, <2>1, <2>2, <3>1
    <3>2. CASE j # n + 1
      <4>1. j \in (i + 1)..n /\ j \in 1..n
        BY <3>2
      <4> QED BY <1>3, <2>1, <2>2, <4>1
    <3> QED BY <3>1, <3>2
  <2> QED BY <2>1, <2>2, <2>3
<1>8. ASSUME op.kind = "add" PROVE op.doc \in addsOf(m, n + 1)
  <2>1. n + 1 \in 1..(n + 1) /\ (n + 1 + 1)..(n + 1) = {}
    OBVIOUS
  <2> QED BY <1>3, <1>8, <2>1
<1>9. Live(base, m) = {e \in base : \A j \in 1..(n + 1) : ~Masks(m[j], e)}
                        \cup addsOf(m, n + 1)
  BY <1>3 DEF Live
<1>10. Live(base, lg) = {e \in base : \A j \in 1..n : ~Masks(lg[j], e)}
                         \cup addsOf(lg, n)
  BY <1>2 DEF Live
<1>11. op.kind = "add" => \A d : ~Masks(op, d)
  BY DEF Masks
<1> HIDE DEF addsOf
<1> QED BY <1>1, <1>5, <1>6, <1>7, <1>8, <1>9, <1>10, <1>11

\* The working set, written as the refinement mapping writes it.
Working == Live(LastCommit, log)

\* Staging an add is an Add of the abstract index.
LEMMA StageAdd ==
  ASSUME TypeOK, NEW d \in Doc, log' = Append(log, [kind |-> "add", doc |-> d]),
         UNCHANGED commits
  PROVE  Working' = Working \cup {d}
<1> DEFINE op == [kind |-> "add", doc |-> d]
<1>1. op \in Op /\ op.kind = "add" /\ op.doc = d
  BY DEF Op
<1>2. \A e : ~Masks(op, e)
  BY DEF Masks
<1> HIDE DEF op
<1>3. LastCommit \in SUBSET Doc /\ LastCommit' = LastCommit
  BY CommitType DEF LastCommit
<1>4. Working' = Live(LastCommit, Append(log, op))
  BY <1>3 DEF Working, op
<1>5. Live(LastCommit, Append(log, op)) = {e \in Working : ~Masks(op, e)} \cup {d}
  BY <1>1, <1>3, LiveAppend DEF TypeOK, Working
<1> QED BY <1>2, <1>4, <1>5

\* Staging a delete is a Delete of the abstract index.
LEMMA StageDelete ==
  ASSUME TypeOK, NEW k \in Keys, log' = Append(log, [kind |-> "delete", key |-> k]),
         UNCHANGED commits
  PROVE  Working' = {d \in Working : d.key # k}
<1> DEFINE op == [kind |-> "delete", key |-> k]
<1>1. op \in Op /\ op.kind = "delete" /\ op.key = k
  BY DEF Op
<1>2. \A e : Masks(op, e) <=> e.key = k
  BY DEF Masks
<1> HIDE DEF op
<1>3. LastCommit \in SUBSET Doc /\ LastCommit' = LastCommit
  BY CommitType DEF LastCommit
<1>4. Working' = Live(LastCommit, Append(log, op))
  BY <1>3 DEF Working, op
<1>5. Live(LastCommit, Append(log, op)) = {e \in Working : ~Masks(op, e)}
  BY SMTT(60), <1>1, <1>3, LiveAppend DEF TypeOK, Working
<1> QED BY <1>2, <1>4, <1>5

\* Staging a delete of everything is a Clear of the abstract index.
LEMMA StageClear ==
  ASSUME TypeOK, log' = Append(log, [kind |-> "delete_all"]), UNCHANGED commits
  PROVE  Working' = {}
<1> DEFINE op == [kind |-> "delete_all"]
<1>1. op \in Op /\ op.kind = "delete_all"
  BY DEF Op
<1>2. \A e : Masks(op, e)
  BY DEF Masks
<1> HIDE DEF op
<1>3. LastCommit \in SUBSET Doc /\ LastCommit' = LastCommit
  BY CommitType DEF LastCommit
<1>4. Working' = Live(LastCommit, Append(log, op))
  BY <1>3 DEF Working, op
<1>5. Live(LastCommit, Append(log, op)) = {e \in Working : ~Masks(op, e)}
  BY SMTT(60), <1>1, <1>3, LiveAppend DEF TypeOK, Working
<1> QED BY <1>2, <1>4, <1>5

\* A commit moves the working set into the base and leaves it as it was.
LEMMA CommitKeepsWorking ==
  ASSUME TypeOK, commits' = Append(commits, Working), log' = <<>>
  PROVE  Working' = Working
<1>1. PICK w \in SUBSET Doc : w = Working
  BY CommitType, LiveType DEF Working, TypeOK
<1>2. Len(commits') = Len(commits) + 1 /\ commits'[Len(commits) + 1] = w
  BY <1>1 DEF TypeOK
<1>3. LastCommit' = w
  BY <1>2 DEF LastCommit
<1>4. Working' = Live(LastCommit', <<>>)
  BY DEF Working
<1> QED BY <1>1, <1>3, <1>4, LiveEmpty

\* Every step is a step of the abstract index or changes nothing it keeps.
LEMMA StepRefines ==
  ASSUME IInv, [Next]_vars
  PROVE  [Abstract!Next]_(Abstract!vars)
<1> DEFINE same == UNCHANGED <<log, commits, seen, loading>>
<1>0. TypeOK
  BY DEF IInv
<1>1. ASSUME same PROVE UNCHANGED <<Working, commits, seen, loading>>
  BY <1>1 DEF Working, LastCommit
<1>2. ASSUME NEW c \in Callers, Write(c) \/ Read(c) PROVE same
  BY <1>2, MethodBodies DEF Invoke, shared
<1>3. ASSUME NEW c \in Callers, \/ Lock(c) \/ Convert(c) \/ Term(c) \/ Search(c)
                                \/ Fetch(c) \/ Count(c) \/ EngineError(c) \/ Panic(c)
      PROVE  same
  BY <1>3 DEF Lock, Convert, Term, Search, Fetch, Count, EngineError, Panic
<1>4. ASSUME NEW c \in Callers, AddDocument(c)
      PROVE  \E d \in Doc : Working' = Working \cup {d} /\ UNCHANGED <<commits, seen, loading>>
  <2> DEFINE d == [n |-> arg[c].n, pos |-> added[c] + 1,
                   key |-> arg[c].batch[added[c] + 1].key]
             op == [kind |-> "add", doc |-> d]
  <2>1. log' = Append(log, op) /\ UNCHANGED <<commits, seen, loading>>
    BY <1>4 DEF AddDocument, Stage
  <2>2. op \in Op
    BY <1>4, AddedDoc DEF AddDocument
  <2>3. op.kind = "add" /\ op.doc = d
    OBVIOUS
  <2> HIDE DEF d
  <2>4. d \in Doc
    BY <2>2, <2>3 DEF Op
  <2> QED BY <1>0, <2>1, <2>4, StageAdd
<1>5. ASSUME NEW c \in Callers, DeleteTerm(c)
      PROVE  \E k \in Keys : /\ Working' = {d \in Working : d.key # k}
                             /\ UNCHANGED <<commits, seen, loading>>
  <2>1. BadKey \notin arg[c].keys
    <3>1. todo[c][1] = "delete_term" /\ 1 \in 1..Len(todo[c])
      BY <1>5, AtFacts DEF DeleteTerm
    <3> QED BY <3>1 DEF IInv, TermShape
  <2>2. arg[c].keys \subseteq Keys
    BY <2>1 DEF IInv, TypeOK, Arg
  <2>3. PICK k \in Keys : log' = Append(log, [kind |-> "delete", key |-> k])
    BY <1>5, <2>2 DEF DeleteTerm, Stage
  <2> QED BY <1>0, <1>5, <2>3, StageDelete DEF DeleteTerm
<1>6. ASSUME NEW c \in Callers, DeleteAllDocuments(c)
      PROVE  Working' = {} /\ UNCHANGED <<commits, seen, loading>>
  BY <1>0, <1>6, StageClear DEF DeleteAllDocuments, Stage
<1>7. ASSUME NEW c \in Callers, WriterCommit(c)
      PROVE  commits' = Append(commits, Working) /\ UNCHANGED <<Working, seen, loading>>
  BY <1>0, <1>7, CommitKeepsWorking DEF WriterCommit, Working
<1>8. ASSUME NEW c \in Callers, Reload(c)
      PROVE  seen' = Len(commits) /\ UNCHANGED <<Working, commits, loading>>
  BY <1>8 DEF Reload, Working, LastCommit
<1>9. CASE Restart
  <2>1. seen' = Len(commits) /\ loading' = 0 /\ UNCHANGED commits /\ log' = <<>>
    BY <1>9 DEF Restart
  <2>2. Working' = commits[Len(commits)]
    BY <2>1, LiveEmpty DEF Working, LastCommit
  <2> QED BY <2>1, <2>2 DEF Abstract!Next, Abstract!Crash, Working
<1>10. CASE UNCHANGED vars
  BY <1>1, <1>10 DEF vars, shared, Abstract!vars, Working
<1>11. ASSUME same PROVE UNCHANGED Abstract!vars
  BY <1>1, <1>11 DEF Abstract!vars, Working
<1>12. ASSUME NEW c \in Callers, Step(c) PROVE [Abstract!Next]_(Abstract!vars)
  <2>1. CASE AddDocument(c)
    BY <1>4, <2>1 DEF Abstract!Next, Abstract!Add, Working
  <2>2. CASE DeleteTerm(c)
    BY <1>5, <2>2 DEF Abstract!Next, Abstract!Delete, Working
  <2>3. CASE DeleteAllDocuments(c)
    BY <1>6, <2>3 DEF Abstract!Next, Abstract!Clear, Working
  <2>4. CASE WriterCommit(c)
    BY <1>7, <2>4 DEF Abstract!Next, Abstract!Publish, Working
  <2>5. CASE Reload(c)
    BY <1>8, <2>5 DEF Abstract!Next, Abstract!Refresh, Working
  <2> HIDE DEF same
  <2> QED BY <1>3, <1>11, <1>12, <2>1, <2>2, <2>3, <2>4, <2>5 DEF Step
<1>13. CASE BackgroundLoad
  BY <1>13 DEF BackgroundLoad, Abstract!Next, Abstract!Fetch, Working, LastCommit
<1>14. CASE BackgroundPublish
  BY <1>14 DEF BackgroundPublish, Abstract!Next, Abstract!Arrive, Working, LastCommit
<1> HIDE DEF same
<1> QED BY <1>2, <1>3, <1>9, <1>10, <1>11, <1>12, <1>13, <1>14 DEF Next, Abstract!Next, Abstract!Crash

\* Staged log, commits and reader together behave as an index on which every
\* operation takes effect at once, a commit publishes everything staged by
\* whatever thread, and searches move to the newest version or to one fetched
\* before.
THEOREM Refinement == Spec => ImplementsAtomicIndex
<1>1. Init => Abstract!Init
  <2> SUFFICES ASSUME Init PROVE Abstract!Init
    OBVIOUS
  <2>1. log = <<>> /\ commits = << {} >> /\ seen = 1 /\ loading = 0 /\ LastCommit = {}
    BY DEF Init, LastCommit
  <2> QED BY <2>1, LiveEmpty DEF Abstract!Init
<1>2. IInv /\ [Next]_vars => [Abstract!Next]_(Abstract!vars)
  BY StepRefines
<1> QED BY <1>1, <1>2, Invariance, PTL DEF Spec, ImplementsAtomicIndex, Abstract!Spec
=============================================================================
