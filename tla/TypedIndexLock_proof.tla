------------------------ MODULE TypedIndexLock_proof ------------------------
(***************************************************************************)
(* Proofs about TypedIndexLock, for any number of actors, any assignment   *)
(* of them to dispatchers and any number of IO threads.                    *)
(*                                                                         *)
(* The inductive invariant joins the type invariant, LockNeverLost and     *)
(* CloseInv.  LockNeverLost is needed for mutual exclusion: a hand-over    *)
(* gives the mutex to the head of the queue, which must be a waiting actor *)
(* and must appear in the queue once.  CloseInv ties the object's          *)
(* destruction to the field the operations test.                           *)
(***************************************************************************)
EXTENDS TypedIndexLock, SequenceTheorems, TLAPS

CloseInv ==
  /\ closed = destroyed
  /\ \A a \in Actors : stage[a] = "native" => ~closed

IInv == TypeOK /\ LockNeverLost /\ CloseInv

-----------------------------------------------------------------------------
(* Sequences *)

\* Taking the head off a queue of distinct actors removes exactly the head.
LEMMA TailOfDistinct ==
  ASSUME NEW q \in Seq(Actors), q # <<>>,
         \A i, j \in DOMAIN q : q[i] = q[j] => i = j
  PROVE  /\ Head(q) \in Actors /\ Tail(q) \in Seq(Actors)
         /\ \A i, j \in DOMAIN Tail(q) : Tail(q)[i] = Tail(q)[j] => i = j
         /\ \A b \in Actors :
              (\E i \in DOMAIN Tail(q) : Tail(q)[i] = b)
                <=> (\E i \in DOMAIN q : q[i] = b) /\ b # Head(q)
<1>1. Len(q) > 0 /\ Len(Tail(q)) = Len(q) - 1 /\ DOMAIN q = 1..Len(q)
      /\ DOMAIN Tail(q) = 1..(Len(q) - 1) /\ Head(q) = q[1]
      /\ \A i \in 1..(Len(q) - 1) : Tail(q)[i] = q[i + 1]
  OBVIOUS
<1>2. Head(q) \in Actors /\ Tail(q) \in Seq(Actors)
  OBVIOUS
<1>3. \A i, j \in DOMAIN Tail(q) : Tail(q)[i] = Tail(q)[j] => i = j
  BY <1>1
<1>4. ASSUME NEW b \in Actors
      PROVE  (\E i \in DOMAIN Tail(q) : Tail(q)[i] = b)
               <=> (\E i \in DOMAIN q : q[i] = b) /\ b # Head(q)
  <2>1. ASSUME NEW i \in DOMAIN Tail(q), Tail(q)[i] = b
        PROVE  (\E k \in DOMAIN q : q[k] = b) /\ b # Head(q)
    BY <1>1, <2>1
  <2>2. ASSUME NEW i \in DOMAIN q, q[i] = b, b # Head(q)
        PROVE  \E k \in DOMAIN Tail(q) : Tail(q)[k] = b
    <3>1. i - 1 \in DOMAIN Tail(q) /\ Tail(q)[i - 1] = b
      BY <1>1, <2>2
    <3> QED BY <3>1
  <2> QED BY <2>1, <2>2
<1> QED BY <1>2, <1>3, <1>4

\* Putting a newcomer at the end of such a queue adds exactly that actor.
LEMMA AppendToDistinct ==
  ASSUME NEW q \in Seq(Actors), NEW a \in Actors,
         \A i, j \in DOMAIN q : q[i] = q[j] => i = j,
         \A i \in DOMAIN q : q[i] # a
  PROVE  /\ Append(q, a) \in Seq(Actors)
         /\ \A i, j \in DOMAIN Append(q, a) : Append(q, a)[i] = Append(q, a)[j] => i = j
         /\ \A b \in Actors :
              (\E i \in DOMAIN Append(q, a) : Append(q, a)[i] = b)
                <=> (\E i \in DOMAIN q : q[i] = b) \/ b = a
<1> DEFINE r == Append(q, a)
<1>1. r \in Seq(Actors) /\ DOMAIN q = 1..Len(q) /\ DOMAIN r = 1..(Len(q) + 1)
      /\ r[Len(q) + 1] = a /\ \A i \in 1..Len(q) : r[i] = q[i]
  OBVIOUS
<1> HIDE DEF r
<1>2. \A i, j \in DOMAIN r : r[i] = r[j] => i = j
  BY <1>1
<1>3. \A b \in Actors : (\E i \in DOMAIN r : r[i] = b)
                          <=> (\E i \in DOMAIN q : q[i] = b) \/ b = a
  <2> TAKE b \in Actors
  <2>1. Len(q) \in Nat
    OBVIOUS
  <2>2. ASSUME NEW i \in DOMAIN r, r[i] = b
        PROVE  (\E k \in DOMAIN q : q[k] = b) \/ b = a
    BY <1>1, <2>1, <2>2
  <2>3. ASSUME NEW i \in DOMAIN q, q[i] = b
        PROVE  \E k \in DOMAIN r : r[k] = b
    <3>1. i \in DOMAIN r /\ r[i] = b
      BY <1>1, <2>1, <2>3
    <3> QED BY <3>1
  <2>4. Len(q) + 1 \in DOMAIN r /\ r[Len(q) + 1] = a
    BY <1>1, <2>1
  <2> QED BY <2>2, <2>3, <2>4
<1> QED BY <1>1, <1>2, <1>3 DEF r

\* Taking a cancelled waiter out of the middle removes exactly that actor.
LEMMA RemoveFromDistinct ==
  ASSUME NEW q \in Seq(Actors), NEW n \in DOMAIN q,
         \A i, j \in DOMAIN q : q[i] = q[j] => i = j
  PROVE  /\ RemoveAt(q, n) \in Seq(Actors)
         /\ \A i, j \in DOMAIN RemoveAt(q, n) :
              RemoveAt(q, n)[i] = RemoveAt(q, n)[j] => i = j
         /\ \A b \in Actors :
              (\E i \in DOMAIN RemoveAt(q, n) : RemoveAt(q, n)[i] = b)
                <=> (\E i \in DOMAIN q : q[i] = b) /\ b # q[n]
<1> DEFINE r == RemoveAt(q, n)
<1>1. Len(q) \in Nat /\ DOMAIN q = 1..Len(q) /\ n \in 1..Len(q)
  OBVIOUS
<1> DEFINE front == SubSeq(q, 1, n - 1)
           back == SubSeq(q, n + 1, Len(q))
<1>2. /\ front \in Seq(Actors) /\ back \in Seq(Actors)
      /\ Len(front) = n - 1 /\ Len(back) = Len(q) - n
      /\ \A i \in 1..(n - 1) : front[i] = q[i]
      /\ \A i \in 1..(Len(q) - n) : back[i] = q[i + n]
  BY SMTT(60), <1>1
<1>r. r = front \o back
  BY DEF RemoveAt
<1> HIDE DEF r, front, back
<1>3. r \in Seq(Actors) /\ DOMAIN r = 1..(Len(q) - 1)
      /\ \A i \in 1..(Len(q) - 1) : r[i] = IF i < n THEN q[i] ELSE q[i + 1]
  <2>1. r \in Seq(Actors) /\ Len(r) = Len(front) + Len(back)
    BY ZenonT(60), <1>2, <1>r, ConcatProperties
  <2>2. \A i \in 1..Len(r) : r[i] = IF i <= Len(front) THEN front[i]
                                    ELSE back[i - Len(front)]
    BY ZenonT(60), <1>2, <1>r, <2>1, ConcatProperties
  <2>3. DOMAIN r = 1..(Len(q) - 1)
    BY SMTT(60), <1>1, <1>2, <2>1
  <2>4. \A i \in 1..(Len(q) - 1) : r[i] = IF i < n THEN q[i] ELSE q[i + 1]
    <3> SUFFICES ASSUME NEW i \in 1..(Len(q) - 1)
                 PROVE  r[i] = IF i < n THEN q[i] ELSE q[i + 1]
      OBVIOUS
    <3>1. i \in 1..Len(r)
      BY SMTT(60), <1>1, <1>2, <2>1
    <3>2. CASE i < n
      BY SMTT(60), <1>1, <1>2, <2>2, <3>1, <3>2
    <3>3. CASE ~(i < n)
      <4>1. i - (n - 1) \in 1..(Len(q) - n) /\ r[i] = back[i - (n - 1)]
        BY SMTT(60), <1>1, <1>2, <2>2, <3>1, <3>3
      <4>2. back[i - (n - 1)] = q[i - (n - 1) + n]
        BY <1>2, <4>1
      <4> QED BY <1>1, <3>3, <4>1, <4>2
    <3> QED BY <3>2, <3>3
  <2> QED BY <2>1, <2>3, <2>4
<1>4. ASSUME NEW i \in DOMAIN r, NEW j \in DOMAIN r, r[i] = r[j]
      PROVE  i = j
  <2> DEFINE at(k) == IF k < n THEN k ELSE k + 1
  <2>1. /\ at(i) \in DOMAIN q /\ r[i] = q[at(i)]
        /\ at(j) \in DOMAIN q /\ r[j] = q[at(j)]
    BY <1>1, <1>3
  <2>2. at(i) = at(j)
    BY <1>4, <2>1
  <2> QED BY <1>1, <1>3, <2>2
<1>5. \A b \in Actors : (\E i \in DOMAIN r : r[i] = b)
                          <=> (\E i \in DOMAIN q : q[i] = b) /\ b # q[n]
  <2> TAKE b \in Actors
  <2>1. ASSUME NEW i \in DOMAIN r, r[i] = b
        PROVE  (\E k \in DOMAIN q : q[k] = b) /\ b # q[n]
    BY SMTT(60), <1>1, <1>3, <2>1
  <2>2. ASSUME NEW i \in DOMAIN q, q[i] = b, b # q[n]
        PROVE  \E k \in DOMAIN r : r[k] = b
    <3>1. CASE i < n
      <4>1. i \in DOMAIN r /\ r[i] = b
        BY <1>1, <1>3, <2>2, <3>1
      <4> QED BY <4>1
    <3>2. CASE i > n
      <4>1. i - 1 \in DOMAIN r /\ r[i - 1] = b
        BY <1>1, <1>3, <2>2, <3>2
      <4> QED BY <4>1
    <3> QED BY <1>1, <2>2, <3>1, <3>2
  <2> QED BY <2>1, <2>2
<1> QED BY <1>3, <1>4, <1>5 DEF r

-----------------------------------------------------------------------------
(* The invariant *)

\* unlock: the mutex goes to the waiter at the head of the queue, or is free
\* when there is none, and no other actor notices.
LEMMA UnlockKeepsLock ==
  ASSUME TypeOK, LockNeverLost, NEW a \in Actors, holder = a,
         NEW next \in {"home", "return"}, Unlock(a, next)
  PROVE  /\ stage' \in [Actors -> Stages]
         /\ holder' \in Actors \cup {None}
         /\ queue' \in Seq(Actors)
         /\ LockNeverLost'
         /\ \A b \in Actors : stage'[b] = "native" => stage[b] = "native"
<1>1. a # None /\ stage[a] \in {"granted", "body", "native"}
  BY NoneAssumption DEF LockNeverLost
<1>2. \A b \in Actors : stage[b] \in {"granted", "body", "native"} => b = a
  BY DEF LockNeverLost
<1>3. CASE queue = <<>>
  <2>1. holder' = None /\ stage' = [stage EXCEPT ![a] = next] /\ queue' = <<>>
    BY <1>3 DEF Unlock
  <2>2. \A b \in Actors : stage[b] # "waiting"
    BY <1>3 DEF LockNeverLost, TypeOK
  <2>3. DOMAIN queue' = {}
    BY <2>1
  <2>4. LockNeverLost'
    BY <1>1, <1>2, <2>1, <2>2, <2>3, NoneAssumption DEF LockNeverLost, TypeOK, Stages
  <2> QED BY <2>1, <2>4 DEF TypeOK, Stages
<1>4. CASE queue # <<>>
  <2> DEFINE h == Head(queue)
  <2>1. /\ holder' = h /\ queue' = Tail(queue)
        /\ stage' = [stage EXCEPT ![a] = next, ![h] = "granted"]
    BY <1>4 DEF Unlock
  <2>2. /\ h \in Actors /\ Tail(queue) \in Seq(Actors)
        /\ \A i, j \in DOMAIN Tail(queue) : Tail(queue)[i] = Tail(queue)[j] => i = j
        /\ \A b \in Actors :
             (\E i \in DOMAIN Tail(queue) : Tail(queue)[i] = b)
               <=> (\E i \in DOMAIN queue : queue[i] = b) /\ b # h
    BY <1>4, TailOfDistinct DEF LockNeverLost, TypeOK
  <2>3. stage[h] = "waiting"
    <3>1. 1 \in DOMAIN queue /\ queue[1] = h
      BY <1>4 DEF TypeOK
    <3> QED BY <2>2, <3>1 DEF LockNeverLost
  <2>4. h # a
    BY <1>1, <2>3
  <2> HIDE DEF h
  <2>5. /\ stage'[h] = "granted" /\ stage'[a] = next
        /\ \A b \in Actors : b # h /\ b # a => stage'[b] = stage[b]
        /\ stage' \in [Actors -> Stages]
    BY <2>1, <2>2, <2>4 DEF TypeOK, Stages
  <2>6. \A b \in Actors : stage'[b] \in {"granted", "body", "native"} <=> holder' = b
    BY <1>2, <2>1, <2>4, <2>5
  <2>7. \A b \in Actors : stage'[b] = "waiting" <=> \E i \in DOMAIN queue' : queue'[i] = b
    <3> SUFFICES ASSUME NEW b \in Actors
                 PROVE  stage'[b] = "waiting"
                          <=> (\E i \in DOMAIN queue : queue[i] = b) /\ b # h
      BY ZenonT(60), <2>1, <2>2
    <3>1. stage[b] = "waiting" <=> \E i \in DOMAIN queue : queue[i] = b
      BY DEF LockNeverLost
    <3> QED BY <1>1, <2>4, <2>5, <3>1
  <2>8. holder' # None
    BY <2>1, <2>2, NoneAssumption
  <2>9. LockNeverLost'
    <3>1. \A i, j \in DOMAIN queue' : queue'[i] = queue'[j] => i = j
      BY <2>1, <2>2
    <3> QED BY <2>6, <2>7, <2>8, <3>1 DEF LockNeverLost
  <2> QED BY <2>1, <2>2, <2>5, <2>9
<1> QED BY <1>3, <1>4

\* A step that moves one actor between stages outside the mutex, or that only
\* moves its holder on, changes nothing about the mutex.
LEMMA MoveKeepsLock ==
  ASSUME TypeOK, LockNeverLost, NEW a \in Actors, NEW next \in Stages,
         stage' = [stage EXCEPT ![a] = next],
         UNCHANGED <<holder, queue>>,
         stage[a] # "waiting", next # "waiting",
         next \in {"granted", "body", "native"}
           <=> stage[a] \in {"granted", "body", "native"}
  PROVE  stage' \in [Actors -> Stages] /\ LockNeverLost'
<1>1. stage' \in [Actors -> Stages]
  BY DEF TypeOK
<1>2. \A b \in Actors : stage'[b] \in {"granted", "body", "native"} <=> holder' = b
  BY DEF LockNeverLost, TypeOK
<1>3. \A b \in Actors : stage'[b] = "waiting" <=> stage[b] = "waiting"
  BY DEF TypeOK
<1> QED BY <1>1, <1>2, <1>3 DEF LockNeverLost

\* The initial states satisfy the inductive invariant.
THEOREM InitInv == Init => IInv
<1> SUFFICES ASSUME Init PROVE IInv
  OBVIOUS
<1>1. TypeOK
  <2>1. 0 \in 0..MaxNative /\ 0 \in 0..MaxStarts
    BY BoundsAssumption
  <2>2. queue \in Seq(Actors)
    BY DEF Init
  <2> QED BY <2>1, <2>2 DEF Init, TypeOK, Stages
<1>2. LockNeverLost
  <2>1. DOMAIN queue = {}
    BY DEF Init
  <2> QED BY <2>1, NoneAssumption DEF Init, LockNeverLost
<1>3. CloseInv
  BY DEF Init, CloseInv
<1> QED BY <1>1, <1>2, <1>3 DEF IInv

\* Every step of a call, and every start and cancellation, keeps the
\* inductive invariant.
THEOREM NextInv == IInv /\ [Next]_vars => IInv'
<1> SUFFICES ASSUME IInv, [Next]_vars PROVE IInv'
  OBVIOUS
<1> USE DEF IInv
<1>0. \A a \in Actors : Done(a) \in {"home", "return"}
  BY DEF Done
<1>1. ASSUME NEW a \in Actors, StartOperation(a) PROVE IInv'
  <2>1. \E s \in {"lock", "dispatch"} : stage' = [stage EXCEPT ![a] = s]
    BY <1>1 DEF StartOperation
  <2>2. stage' \in [Actors -> Stages] /\ LockNeverLost'
    BY <1>1, <2>1, MoveKeepsLock DEF StartOperation, Stages
  <2>3. TypeOK'
    BY <1>1, <2>2, BoundsAssumption DEF StartOperation, TypeOK
  <2>4. CloseInv'
    BY <1>1, <2>1 DEF StartOperation, CloseInv, TypeOK
  <2> QED BY <2>2, <2>3, <2>4
<1>2. ASSUME NEW a \in Actors, StartClose(a) PROVE IInv'
  <2>1. stage' \in [Actors -> Stages] /\ LockNeverLost'
    BY <1>2, MoveKeepsLock DEF StartClose, Stages
  <2>2. TypeOK'
    BY <1>2, <2>1, BoundsAssumption DEF StartClose, TypeOK
  <2>3. CloseInv'
    BY <1>2 DEF StartClose, CloseInv, TypeOK
  <2> QED BY <2>1, <2>2, <2>3
<1>3. ASSUME NEW a \in Actors, Dispatch(a) PROVE IInv'
  <2>1. \E s \in {"home", "return", "lock"} : stage' = [stage EXCEPT ![a] = s]
    BY <1>3, <1>0 DEF Dispatch
  <2>2. stage' \in [Actors -> Stages] /\ LockNeverLost'
    BY <1>3, <2>1, MoveKeepsLock DEF Dispatch, Stages
  <2>3. TypeOK'
    BY <1>3, <2>2 DEF Dispatch, TypeOK
  <2>4. CloseInv'
    BY <1>3, <2>1 DEF Dispatch, CloseInv, TypeOK
  <2> QED BY <2>2, <2>3, <2>4
<1>4. ASSUME NEW a \in Actors, Acquire(a) PROVE IInv'
  <2>1. stage[a] = "lock"
    BY <1>4 DEF Acquire
  <2>2. CASE holder = None /\ holder' = a /\ UNCHANGED queue
             /\ stage' = [stage EXCEPT ![a] = "body"]
    <3>1. TypeOK'
      BY <1>4, <2>2 DEF Acquire, TypeOK, Stages
    <3>2. \A b \in Actors : stage[b] \notin {"granted", "body", "native"}
      BY <2>2, NoneAssumption DEF LockNeverLost
    <3>3. \A b \in Actors : stage'[b] \in {"granted", "body", "native"} <=> holder' = b
      BY <2>2, <3>2 DEF TypeOK
    <3>4. \A b \in Actors : stage'[b] = "waiting" <=> stage[b] = "waiting"
      BY <2>1, <2>2 DEF TypeOK
    <3>5. LockNeverLost'
      BY <2>2, <3>3, <3>4, NoneAssumption DEF LockNeverLost
    <3>6. CloseInv'
      BY <1>4, <2>2 DEF Acquire, CloseInv, TypeOK
    <3> QED BY <3>1, <3>5, <3>6
  <2>3. CASE holder # None /\ queue' = Append(queue, a) /\ UNCHANGED holder
             /\ stage' = [stage EXCEPT ![a] = "waiting"]
    <3>1. \A i \in DOMAIN queue : queue[i] # a
      BY <2>1 DEF LockNeverLost
    <3>2. /\ queue' \in Seq(Actors)
          /\ \A i, j \in DOMAIN queue' : queue'[i] = queue'[j] => i = j
          /\ \A b \in Actors : (\E i \in DOMAIN queue' : queue'[i] = b)
                                 <=> (\E i \in DOMAIN queue : queue[i] = b) \/ b = a
      <4>1. queue \in Seq(Actors) /\ \A i, j \in DOMAIN queue : queue[i] = queue[j] => i = j
        BY DEF LockNeverLost, TypeOK
      <4>2. queue' = Append(queue, a)
        BY <2>3
      <4> HIDE DEF IInv
      <4> QED BY ONLY <3>1, <4>1, <4>2, AppendToDistinct, a \in Actors
    <3>3. TypeOK'
      BY <1>4, <2>3, <3>2 DEF Acquire, TypeOK, Stages
    <3>4. \A b \in Actors : stage'[b] \in {"granted", "body", "native"} <=> holder' = b
      BY <2>1, <2>3 DEF TypeOK, LockNeverLost
    <3>5. \A b \in Actors : stage'[b] = "waiting" <=> stage[b] = "waiting" \/ b = a
      BY <2>3 DEF TypeOK
    <3>6. LockNeverLost'
      BY SMTT(60), <2>3, <3>2, <3>4, <3>5 DEF LockNeverLost
    <3>7. CloseInv'
      BY <1>4, <2>3 DEF Acquire, CloseInv, TypeOK
    <3> QED BY <3>3, <3>6, <3>7
  <2>4. CASE stage' = [stage EXCEPT ![a] = Done(a)] /\ UNCHANGED <<holder, queue>>
    <3>1. stage' \in [Actors -> Stages] /\ LockNeverLost'
      BY <1>0, <2>1, <2>4, MoveKeepsLock DEF Stages
    <3>2. TypeOK'
      BY <1>4, <3>1, <2>4 DEF Acquire, TypeOK
    <3>3. CloseInv'
      BY <1>0, <1>4, <2>4 DEF Acquire, CloseInv, TypeOK
    <3> QED BY <3>1, <3>2, <3>3
  <2> QED BY <1>4, <2>2, <2>3, <2>4 DEF Acquire
<1>5. ASSUME NEW a \in Actors, Resume(a) PROVE IInv'
  <2>1. CASE cancelled[a]
    <3>1. holder = a /\ Unlock(a, Done(a))
      BY <1>5, <2>1 DEF Resume, LockNeverLost
    <3>2. /\ stage' \in [Actors -> Stages] /\ holder' \in Actors \cup {None}
          /\ queue' \in Seq(Actors) /\ LockNeverLost'
          /\ \A b \in Actors : stage'[b] = "native" => stage[b] = "native"
      BY <1>0, <3>1, UnlockKeepsLock
    <3>3. TypeOK' /\ CloseInv'
      BY <1>5, <3>2 DEF Resume, TypeOK, CloseInv
    <3> QED BY <3>2, <3>3
  <2>2. CASE ~cancelled[a]
    <3>1. stage' = [stage EXCEPT ![a] = "body"] /\ UNCHANGED <<holder, queue>>
      BY <1>5, <2>2 DEF Resume
    <3>2. stage' \in [Actors -> Stages] /\ LockNeverLost'
      BY <1>5, <3>1, MoveKeepsLock DEF Resume, Stages
    <3>3. TypeOK' /\ CloseInv'
      BY <1>5, <3>1, <3>2 DEF Resume, TypeOK, CloseInv
    <3> QED BY <3>2, <3>3
  <2> QED BY <2>1, <2>2
<1>6. ASSUME NEW a \in Actors, CheckOpen(a) PROVE IInv'
  <2>1. CASE closed
    <3>1. holder = a /\ Unlock(a, Done(a))
      BY <1>6, <2>1 DEF CheckOpen, LockNeverLost
    <3>2. /\ stage' \in [Actors -> Stages] /\ holder' \in Actors \cup {None}
          /\ queue' \in Seq(Actors) /\ LockNeverLost'
          /\ \A b \in Actors : stage'[b] = "native" => stage[b] = "native"
      BY <1>0, <3>1, UnlockKeepsLock
    <3>3. TypeOK' /\ CloseInv'
      BY <1>6, <3>2 DEF CheckOpen, TypeOK, CloseInv
    <3> QED BY <3>2, <3>3
  <2>2. CASE ~closed
    <3>1. stage' = [stage EXCEPT ![a] = "native"] /\ UNCHANGED <<holder, queue>>
      BY <1>6, <2>2 DEF CheckOpen
    <3>2. stage' \in [Actors -> Stages] /\ LockNeverLost'
      BY <1>6, <3>1, MoveKeepsLock DEF CheckOpen, Stages
    <3>3. TypeOK' /\ CloseInv'
      BY <1>6, <2>2, <3>1, <3>2 DEF CheckOpen, TypeOK, CloseInv
    <3> QED BY <3>2, <3>3
  <2> QED BY <2>1, <2>2
<1>7. ASSUME NEW a \in Actors, NativeCall(a) PROVE IInv'
  <2>1. native[a] - 1 \in 0..MaxNative
    BY <1>7, BoundsAssumption DEF NativeCall, TypeOK
  <2>2. TypeOK'
    BY <1>7, <2>1 DEF NativeCall, TypeOK
  <2>3. LockNeverLost' /\ CloseInv'
    BY <1>7 DEF NativeCall, LockNeverLost, CloseInv
  <2> QED BY <2>2, <2>3
<1>8. ASSUME NEW a \in Actors, FinishBlock(a) PROVE IInv'
  <2>1. holder = a /\ Unlock(a, Done(a))
    BY <1>8 DEF FinishBlock, LockNeverLost
  <2>2. /\ stage' \in [Actors -> Stages] /\ holder' \in Actors \cup {None}
        /\ queue' \in Seq(Actors) /\ LockNeverLost'
        /\ \A b \in Actors : stage'[b] = "native" => stage[b] = "native"
    BY <1>0, <2>1, UnlockKeepsLock
  <2>3. TypeOK' /\ CloseInv'
    BY <1>8, <2>2 DEF FinishBlock, TypeOK, CloseInv
  <2> QED BY <2>2, <2>3
<1>9. ASSUME NEW a \in Actors, CloseBody(a) PROVE IInv'
  <2>1. holder = a /\ Unlock(a, "return")
    BY <1>9 DEF CloseBody, LockNeverLost
  <2>2. /\ stage' \in [Actors -> Stages] /\ holder' \in Actors \cup {None}
        /\ queue' \in Seq(Actors) /\ LockNeverLost'
        /\ \A b \in Actors : stage'[b] = "native" => stage[b] = "native"
    BY <2>1, UnlockKeepsLock
  <2>3. \A b \in Actors : stage[b] # "native"
    BY <1>9, <2>1 DEF CloseBody, LockNeverLost
  <2>4. TypeOK'
    BY <1>9, <2>2 DEF CloseBody, TypeOK
  <2>5. CloseInv'
    BY <1>9, <2>2, <2>3 DEF CloseBody, CloseInv, TypeOK
  <2> QED BY <2>2, <2>4, <2>5
<1>10. ASSUME NEW a \in Actors, Return(a) PROVE IInv'
  <2>1. stage' \in [Actors -> Stages] /\ LockNeverLost'
    BY <1>10, MoveKeepsLock DEF Return, Stages
  <2>2. TypeOK' /\ CloseInv'
    BY <1>10, <2>1 DEF Return, TypeOK, CloseInv
  <2> QED BY <2>1, <2>2
<1>11. ASSUME NEW a \in Actors, Cancel(a) PROVE IInv'
  <2>1. CASE stage[a] = "waiting"
    <3>1. PICK n \in DOMAIN queue : queue[n] = a /\ queue' = RemoveAt(queue, n)
      BY <1>11, <2>1 DEF Cancel
    <3>2. stage' = [stage EXCEPT ![a] = "dispatch"] /\ UNCHANGED holder
      BY <1>11, <2>1 DEF Cancel
    <3>3. /\ queue' \in Seq(Actors)
          /\ \A i, j \in DOMAIN queue' : queue'[i] = queue'[j] => i = j
          /\ \A b \in Actors : (\E i \in DOMAIN queue' : queue'[i] = b)
                                 <=> (\E i \in DOMAIN queue : queue[i] = b) /\ b # a
      <4>1. queue \in Seq(Actors) /\ \A i, j \in DOMAIN queue : queue[i] = queue[j] => i = j
        BY DEF LockNeverLost, TypeOK
      <4> HIDE DEF IInv
      <4> QED BY ONLY <3>1, <4>1, RemoveFromDistinct, n \in DOMAIN queue
    <3>4. \A b \in Actors : stage'[b] \in {"granted", "body", "native"} <=> holder' = b
      BY <2>1, <3>2 DEF TypeOK, LockNeverLost
    <3>5. \A b \in Actors : stage'[b] = "waiting" <=> stage[b] = "waiting" /\ b # a
      BY <3>2 DEF TypeOK
    <3>6. holder # None
      BY <3>1 DEF LockNeverLost, TypeOK
    <3>7. LockNeverLost'
      BY <3>2, <3>3, <3>4, <3>5, <3>6 DEF LockNeverLost
    <3>8. TypeOK'
      BY SMTT(60), <1>11, <3>2, <3>3 DEF Cancel, TypeOK, Stages
    <3>9. CloseInv'
      BY <1>11, <3>2 DEF Cancel, CloseInv, TypeOK
    <3> QED BY <3>7, <3>8, <3>9
  <2>2. CASE stage[a] # "waiting"
    <3>1. UNCHANGED <<stage, queue, holder, closed, destroyed>>
      BY <1>11, <2>2 DEF Cancel
    <3>2. TypeOK'
      BY <1>11, <3>1 DEF Cancel, TypeOK
    <3>3. LockNeverLost' /\ CloseInv'
      BY <3>1 DEF LockNeverLost, CloseInv
    <3> QED BY <3>2, <3>3
  <2> QED BY <2>1, <2>2
<1>12. CASE UNCHANGED vars
  BY <1>12 DEF vars, TypeOK, LockNeverLost, CloseInv
<1> QED
  BY <1>1, <1>2, <1>3, <1>4, <1>5, <1>6, <1>7, <1>8, <1>9, <1>10, <1>11, <1>12
  DEF Next, Step

-----------------------------------------------------------------------------
(* The properties *)

\* What the invariant says of the lock and of closed rules out a block on a
\* destroyed object, and two blocks at once.
LEMMA InvImpliesSafe == IInv => NoUseAfterDestroy
<1> SUFFICES ASSUME IInv, NEW a \in Actors, stage[a] = "native"
             PROVE  ~destroyed /\ \A b \in Actors : stage[b] = "native" => b = a
  BY DEF NoUseAfterDestroy
<1>1. ~destroyed
  BY DEF IInv, CloseInv
<1>2. \A b \in Actors : stage[b] = "native" => b = a
  BY DEF IInv, LockNeverLost
<1> QED BY <1>1, <1>2

\* While the mutex invariant holds the running block belongs to the holder.
LEMMA UserIsHolder ==
  ASSUME IInv
  PROVE  /\ \A a \in Actors : stage[a] = "native" => User = a
         /\ (\A a \in Actors : stage[a] # "native") => User = None
<1>1. ASSUME NEW a \in Actors, stage[a] = "native" PROVE User = a
  <2>1. \A b \in Actors : stage[b] = "native" => b = a
    BY <1>1 DEF IInv, LockNeverLost
  <2> QED BY <1>1, <2>1 DEF User
<1> QED BY <1>1 DEF User

\* Once closed, no step starts a block.
LEMMA StepAfterClose ==
  ASSUME IInv, closed, [Next]_vars
  PROVE  /\ closed' /\ destroyed'
         /\ \A a \in Actors : stage'[a] = "native" => stage[a] = "native"
<1>0. destroyed /\ \A a \in Actors : Done(a) # "native"
  BY DEF IInv, CloseInv, Done
<1>1. ASSUME NEW a \in Actors, NEW next \in {"home", "return"}, holder = a,
             Unlock(a, next)
      PROVE  \A b \in Actors : stage'[b] = "native" => stage[b] = "native"
  BY <1>1, UnlockKeepsLock DEF IInv
<1>2. \A a \in Actors : Done(a) \in {"home", "return"}
  BY DEF Done
<1>3. \A a \in Actors : stage[a] \in {"granted", "body", "native"} => holder = a
  BY DEF IInv, LockNeverLost
<1>4. stage \in [Actors -> Stages]
  BY DEF IInv, TypeOK
<1>5. ASSUME NEW a \in Actors, StartOperation(a) \/ StartClose(a) \/ Dispatch(a)
                                 \/ Acquire(a) \/ NativeCall(a) \/ Return(a) \/ Cancel(a)
      PROVE  /\ closed' /\ destroyed'
             /\ \A b \in Actors : stage'[b] = "native" => stage[b] = "native"
  BY <1>5, <1>0, <1>4 DEF StartOperation, StartClose, Dispatch, Acquire, NativeCall,
     Return, Cancel
<1>6. ASSUME NEW a \in Actors, Resume(a) \/ CheckOpen(a)
      PROVE  /\ closed' /\ destroyed'
             /\ \A b \in Actors : stage'[b] = "native" => stage[b] = "native"
  BY <1>6, <1>0, <1>1, <1>2, <1>3, <1>4 DEF Resume, CheckOpen
<1>7. ASSUME NEW a \in Actors, FinishBlock(a) \/ CloseBody(a)
      PROVE  /\ closed' /\ destroyed'
             /\ \A b \in Actors : stage'[b] = "native" => stage[b] = "native"
  BY <1>7, <1>0, <1>1, <1>2, <1>3 DEF FinishBlock, CloseBody
<1>8. CASE UNCHANGED vars
  BY <1>8, <1>0 DEF vars
<1> QED BY <1>5, <1>6, <1>7, <1>8 DEF Next, Step

\* Every step is a step of the abstract handle or none of its business.
LEMMA StepRefines ==
  ASSUME IInv, [Next]_vars, IInv'
  PROVE  [Handle!Next]_(Handle!vars)
<1> USE DEF Handle!Next, Handle!vars
<1>1. \A a \in Actors : stage[a] \in {"granted", "body", "native"} <=> holder = a
  BY DEF IInv, LockNeverLost
<1>2. stage \in [Actors -> Stages] /\ None \notin Actors
  BY NoneAssumption DEF IInv, TypeOK
<1>3. /\ \A a \in Actors : stage[a] = "native" => User = a
      /\ (\A a \in Actors : stage[a] # "native") => User = None
  BY UserIsHolder
<1>4. /\ \A a \in Actors : stage'[a] = "native" => User' = a
      /\ (\A a \in Actors : stage'[a] # "native") => User' = None
  <2>1. IInv' => (/\ \A a \in Actors : stage[a] = "native" => User = a
                  /\ (\A a \in Actors : stage[a] # "native") => User = None)'
    BY UserIsHolder, PTL
  <2> QED BY <2>1
<1>5. ASSUME \A a \in Actors : stage'[a] = "native" <=> stage[a] = "native"
      PROVE  User' = User
  BY <1>3, <1>4, <1>5
<1>6. ASSUME NEW a \in Actors, StartOperation(a) \/ StartClose(a) \/ Dispatch(a)
                                 \/ Acquire(a) \/ NativeCall(a) \/ Return(a) \/ Cancel(a)
      PROVE  UNCHANGED <<User, destroyed>>
  <2>1. \A b \in Actors : stage'[b] = "native" <=> stage[b] = "native"
    BY <1>2, <1>6 DEF StartOperation, StartClose, Dispatch, Acquire, NativeCall,
       Return, Cancel, Done
  <2>2. UNCHANGED destroyed
    BY <1>6 DEF StartOperation, StartClose, Dispatch, Acquire, NativeCall, Return, Cancel
  <2> QED BY <1>5, <2>1, <2>2
<1>7. ASSUME NEW a \in Actors, NEW next \in {"home", "return"}, holder = a,
             Unlock(a, next)
      PROVE  \A b \in Actors : stage'[b] # "native"
  <2>1. \A b \in Actors : stage'[b] = "native" => stage[b] = "native"
    BY <1>7, UnlockKeepsLock DEF IInv
  <2>2. stage'[a] # "native"
    BY <1>2, <1>7 DEF Unlock
  <2> QED BY <1>1, <1>7, <2>1, <2>2
<1>8. \A a \in Actors : Done(a) \in {"home", "return"}
  BY DEF Done
<1>9. ASSUME NEW a \in Actors, Resume(a) PROVE UNCHANGED <<User, destroyed>>
  <2>1. \A b \in Actors : stage[b] # "native"
    BY <1>1, <1>9 DEF Resume
  <2>2. \A b \in Actors : stage'[b] # "native"
    BY <1>1, <1>2, <1>7, <1>8, <1>9, <2>1 DEF Resume
  <2> QED BY <1>3, <1>4, <1>9, <2>1, <2>2 DEF Resume
<1>10. ASSUME NEW a \in Actors, CheckOpen(a)
       PROVE  (\E b \in Actors : Handle!Enter(b)) \/ UNCHANGED <<User, destroyed>>
  <2>1. \A b \in Actors : stage[b] # "native"
    BY <1>1, <1>10 DEF CheckOpen
  <2>2. CASE closed
    <3>1. \A b \in Actors : stage'[b] # "native"
      BY <1>1, <1>7, <1>8, <1>10, <2>2 DEF CheckOpen
    <3> QED BY <1>3, <1>4, <1>10, <2>1, <3>1 DEF CheckOpen
  <2>3. CASE ~closed
    <3>1. stage'[a] = "native" /\ ~destroyed /\ UNCHANGED destroyed
      BY <1>2, <1>10, <2>3 DEF CheckOpen, IInv, CloseInv
    <3>2. User = None /\ User' = a
      BY <1>3, <1>4, <2>1, <3>1
    <3> QED BY <3>1, <3>2 DEF Handle!Enter
  <2> QED BY <2>2, <2>3
<1>11. ASSUME NEW a \in Actors, FinishBlock(a) PROVE Handle!Leave
  <2>1. User = a /\ a # None
    BY <1>2, <1>3, <1>11 DEF FinishBlock
  <2>2. User' = None
    BY <1>1, <1>4, <1>7, <1>8, <1>11 DEF FinishBlock
  <2> QED BY <1>11, <2>1, <2>2 DEF FinishBlock, Handle!Leave
<1>12. ASSUME NEW a \in Actors, CloseBody(a)
       PROVE  Handle!Destroy \/ UNCHANGED <<User, destroyed>>
  <2>1. \A b \in Actors : stage[b] # "native"
    BY <1>1, <1>12 DEF CloseBody
  <2>2. \A b \in Actors : stage'[b] # "native"
    BY <1>1, <1>7, <1>12 DEF CloseBody
  <2>3. User = None /\ User' = None
    BY <1>3, <1>4, <2>1, <2>2
  <2>4. CASE destroyed
    BY <1>12, <2>3, <2>4 DEF CloseBody
  <2>5. CASE ~destroyed
    <3>1. destroyed' = TRUE
      BY <1>12, <2>5 DEF CloseBody, IInv, CloseInv
    <3> QED BY <2>3, <2>5, <3>1 DEF Handle!Destroy
  <2> QED BY <1>12, <2>4, <2>5 DEF CloseBody, IInv, CloseInv, TypeOK
<1>13. CASE UNCHANGED vars
  BY <1>13, <1>5 DEF vars
<1> QED
  BY <1>6, <1>9, <1>10, <1>11, <1>12, <1>13 DEF Next, Step

\* The inductive invariant holds in every reachable state.
LEMMA Invariance == Spec => []IInv
BY InitInv, NextInv, PTL DEF Spec

\* Every variable keeps its type in every reachable state.
THEOREM TypeCorrect == Spec => []TypeOK
<1>1. IInv => TypeOK
  BY DEF IInv
<1> QED BY <1>1, Invariance, PTL

\* The mutex of TypedTantivyIndex is never leaked, duplicated or left with a
\* waiter while free, whatever is cancelled and whenever close() is called.
THEOREM LockSafety == Spec => []LockNeverLost
<1>1. IInv => LockNeverLost
  BY DEF IInv
<1> QED BY <1>1, Invariance, PTL

\* Blocks never overlap and never use the native object after close()
\* destroyed it.
THEOREM HandleSafety == Spec => []NoUseAfterDestroy
BY Invariance, InvImpliesSafe, PTL

\* After close() no block starts: every later operation fails.
THEOREM CloseIsFinal == Spec => ClosedIsFinal
<1>1. IInv /\ [Next]_vars => [closed => /\ closed' /\ destroyed'
                                        /\ \A a \in Actors :
                                             stage'[a] = "native" => stage[a] = "native"]_vars
  BY StepAfterClose
<1> QED BY <1>1, Invariance, PTL DEF Spec, ClosedIsFinal

\* locked and close() implement the abstract handle.
THEOREM Refinement == Spec => ImplementsSerialHandle
<1>1. Init => Handle!Init
  BY DEF Init, Handle!Init, User
<1>2. IInv /\ [Next]_vars /\ IInv' => [Handle!Next]_(Handle!vars)
  BY StepRefines
<1> QED BY <1>1, <1>2, Invariance, PTL DEF Spec, ImplementsSerialHandle, Handle!Spec
=============================================================================
