--------------------------- MODULE TypedIndexLock ---------------------------
(***************************************************************************)
(* The lock and the life cycle of TypedTantivyIndex (TypedTantivyIndex.kt): *)
(* suspend operations run                                                  *)
(*     withContext(IO) { mutex.withLock { check(!closed); block() } }      *)
(* and close() runs                                                        *)
(*     runBlocking(IO) { mutex.withLock { if (!closed) ...destroy() } }    *)
(*                                                                         *)
(* An actor is a coroutine or a thread.  Its home is a dispatcher confined *)
(* to one thread (or the thread itself), or the IO pool.  close() blocks a *)
(* thread of its caller's home until it returns.                           *)
(*                                                                         *)
(* kotlinx.coroutines is external: a mutex that hands itself over in FIFO  *)
(* order, a pool of IOWorkers threads, prompt cancellation of a coroutine  *)
(* that is suspended or waits to be dispatched, and none of one that runs. *)
(***************************************************************************)
EXTENDS Naturals, FiniteSets, SequencesExt

CONSTANTS Actors,     \* coroutines and threads that use the index
          Home,       \* Home[a] is the dispatcher actor a runs on
          IO,         \* the IO dispatcher
          None,       \* nobody
          IOWorkers,  \* threads of the IO dispatcher
          MaxNative,  \* bound on the native calls of one block
          MaxStarts   \* bound on the calls ever made

ASSUME NoneAssumption == None \notin Actors
ASSUME BoundsAssumption ==
  IOWorkers \in Nat /\ MaxNative \in Nat \ {0} /\ MaxStarts \in Nat

VARIABLES
  stage,      \* per actor: how far its call is
  closing,    \* per actor: its call is close() and not an operation
  cancelled,  \* per actor: the coroutine of its call was cancelled
  holder,     \* who holds the mutex, or None
  queue,      \* coroutines suspended in mutex.lock, first come first
  closed,     \* the field closed
  destroyed,  \* index.destroy() has run
  native,     \* per actor: native calls its block may still make
  starts      \* calls made so far

vars == <<stage, closing, cancelled, holder, queue, closed, destroyed, native, starts>>

Stages == {"home",      \* no call in progress
           "dispatch",  \* its coroutine waits for an IO thread
           "lock",      \* on an IO thread, calling mutex.lock
           "waiting",   \* suspended in mutex.lock, no thread used
           "granted",   \* was handed the mutex, waits for an IO thread
           "body",      \* holds the mutex, before the test of closed
           "native",    \* in its block, using the native object
           "return"}    \* done on IO, waits for a thread of its home

Init ==
  /\ stage = [a \in Actors |-> "home"]
  /\ closing = [a \in Actors |-> FALSE]
  /\ cancelled = [a \in Actors |-> FALSE]
  /\ holder = None /\ queue = <<>>
  /\ closed = FALSE /\ destroyed = FALSE
  /\ native = [a \in Actors |-> 0]
  /\ starts = 0

-----------------------------------------------------------------------------
(* Threads *)

\* Threads of dispatcher d that are stuck in runBlocking.
Blocked(d) == {a \in Actors : Home[a] = d /\ closing[a] /\ stage[a] # "home"}

OnWorker == {a \in Actors : stage[a] \in {"lock", "body", "native"}}

WorkerFree == Cardinality(OnWorker) + Cardinality(Blocked(IO)) < IOWorkers

HomeFree(a) == IF Home[a] = IO THEN WorkerFree ELSE Blocked(Home[a]) = {}

-----------------------------------------------------------------------------
(* Calls *)

\* An operation.  withContext(IO) hops to IO, unless the caller is there
\* already: then the same thread goes on.
StartOperation(a) ==
  /\ stage[a] = "home" /\ HomeFree(a)
  /\ starts < MaxStarts
  /\ starts' = starts + 1
  /\ stage' = [stage EXCEPT ![a] = IF Home[a] = IO THEN "lock" ELSE "dispatch"]
  /\ closing' = [closing EXCEPT ![a] = FALSE]
  /\ cancelled' = [cancelled EXCEPT ![a] = FALSE]
  /\ \E n \in 1..MaxNative : native' = [native EXCEPT ![a] = n]
  /\ UNCHANGED <<holder, queue, closed, destroyed>>

\* close(): runBlocking starts a coroutine on IO and keeps the caller's thread.
StartClose(a) ==
  /\ stage[a] = "home" /\ HomeFree(a)
  /\ starts < MaxStarts
  /\ starts' = starts + 1
  /\ stage' = [stage EXCEPT ![a] = "dispatch"]
  /\ closing' = [closing EXCEPT ![a] = TRUE]
  /\ cancelled' = [cancelled EXCEPT ![a] = FALSE]
  /\ UNCHANGED <<holder, queue, closed, destroyed, native>>

\* Where a call goes when its coroutine is done on IO.  An operation called
\* from IO has no hop to make; any other result waits for its home.
Done(a) == IF Home[a] = IO /\ ~closing[a] THEN "home" ELSE "return"

\* The coroutine gets an IO thread; one that was cancelled has nothing to do.
Dispatch(a) ==
  /\ stage[a] = "dispatch" /\ WorkerFree
  /\ stage' = [stage EXCEPT ![a] = IF cancelled[a] THEN Done(a) ELSE "lock"]
  /\ UNCHANGED <<closing, cancelled, holder, queue, closed, destroyed, native, starts>>

\* Mutant: close() does not take the mutex.
AcquireUnlessClosing(a) ==
  /\ stage[a] = "lock"
  /\ \/ /\ closing[a]
        /\ stage' = [stage EXCEPT ![a] = "body"]
        /\ UNCHANGED <<holder, queue>>
     \/ /\ ~closing[a] /\ holder = None
        /\ holder' = a
        /\ stage' = [stage EXCEPT ![a] = "body"]
        /\ UNCHANGED queue
  /\ UNCHANGED <<closing, cancelled, closed, destroyed, native, starts>>

\* Mutant: the mutex is taken whoever holds it.
AcquireShared(a) ==
  /\ stage[a] = "lock"
  /\ holder' = a
  /\ stage' = [stage EXCEPT ![a] = "body"]
  /\ UNCHANGED <<closing, cancelled, queue, closed, destroyed, native, starts>>

\* mutex.lock: at once when it is free, even for a cancelled coroutine;
\* otherwise suspend and give up the thread, unless cancelled.
Acquire(a) ==
  /\ stage[a] = "lock"
  /\ \/ /\ holder = None
        /\ holder' = a
        /\ stage' = [stage EXCEPT ![a] = "body"]
        /\ UNCHANGED queue
     \/ /\ holder # None /\ ~cancelled[a]
        /\ queue' = Append(queue, a)
        /\ stage' = [stage EXCEPT ![a] = "waiting"]
        /\ UNCHANGED holder
     \/ /\ holder # None /\ cancelled[a]
        /\ stage' = [stage EXCEPT ![a] = Done(a)]
        /\ UNCHANGED <<holder, queue>>
  /\ UNCHANGED <<closing, cancelled, closed, destroyed, native, starts>>

\* mutex.unlock by actor a, whose call then goes to stage next: the first in
\* the queue holds the mutex before it runs.
Unlock(a, next) ==
  IF queue = <<>>
  THEN /\ holder' = None
       /\ stage' = [stage EXCEPT ![a] = next]
       /\ UNCHANGED queue
  ELSE /\ holder' = Head(queue)
       /\ stage' = [stage EXCEPT ![a] = next, ![Head(queue)] = "granted"]
       /\ queue' = Tail(queue)

\* Mutant: a waiter that was cancelled keeps what it was handed.
ResumeKeepsLock(a) ==
  /\ stage[a] = "granted" /\ WorkerFree
  /\ stage' = [stage EXCEPT ![a] = IF cancelled[a] THEN Done(a) ELSE "body"]
  /\ UNCHANGED <<closing, cancelled, holder, queue, closed, destroyed, native, starts>>

\* Mutant: the mutex is taken on the caller's dispatcher, not on IO.
ResumeAtHome(a) ==
  /\ stage[a] = "granted" /\ HomeFree(a)
  /\ IF cancelled[a]
     THEN Unlock(a, Done(a))
     ELSE /\ stage' = [stage EXCEPT ![a] = "body"]
          /\ UNCHANGED <<holder, queue>>
  /\ UNCHANGED <<closing, cancelled, closed, destroyed, native, starts>>

\* The new holder gets a thread.  If it was cancelled in between, lock() throws
\* and releases what it was handed.
Resume(a) ==
  /\ stage[a] = "granted" /\ WorkerFree
  /\ IF cancelled[a]
     THEN Unlock(a, Done(a))
     ELSE /\ stage' = [stage EXCEPT ![a] = "body"]
          /\ UNCHANGED <<holder, queue>>
  /\ UNCHANGED <<closing, cancelled, closed, destroyed, native, starts>>

\* Mutant: the block does not look at closed.
OpenUnchecked(a) ==
  /\ stage[a] = "body" /\ ~closing[a]
  /\ stage' = [stage EXCEPT ![a] = "native"]
  /\ UNCHANGED <<closing, cancelled, holder, queue, closed, destroyed, native, starts>>

\* check(!closed): throws IllegalStateException, and the finally unlocks.
CheckOpen(a) ==
  /\ stage[a] = "body" /\ ~closing[a]
  /\ IF closed
     THEN Unlock(a, Done(a))
     ELSE /\ stage' = [stage EXCEPT ![a] = "native"]
          /\ UNCHANGED <<holder, queue>>
  /\ UNCHANGED <<closing, cancelled, closed, destroyed, native, starts>>

\* Mutant: the block goes on after its last native call.
NativeCallUncounted(a) ==
  /\ stage[a] = "native"
  /\ native' = [native EXCEPT ![a] = @ - 1]
  /\ UNCHANGED <<stage, closing, cancelled, holder, queue, closed, destroyed, starts>>

\* One native call of a block that makes more.
NativeCall(a) ==
  /\ stage[a] = "native" /\ native[a] > 1
  /\ native' = [native EXCEPT ![a] = @ - 1]
  /\ UNCHANGED <<stage, closing, cancelled, holder, queue, closed, destroyed, starts>>

\* The block returns after its last native call, or throws at any of them.
FinishBlock(a) ==
  /\ stage[a] = "native"
  /\ Unlock(a, Done(a))
  /\ UNCHANGED <<closing, cancelled, closed, destroyed, native, starts>>

\* The body of close().
CloseBody(a) ==
  /\ stage[a] = "body" /\ closing[a]
  /\ closed' = TRUE
  /\ destroyed' = (destroyed \/ ~closed)
  /\ Unlock(a, "return")
  /\ UNCHANGED <<closing, cancelled, native, starts>>

\* The result, or the cancellation that replaces it, reaches the caller.  An
\* operation needs a thread of its home; close() wakes the thread it blocks.
Return(a) ==
  /\ stage[a] = "return"
  /\ closing[a] \/ HomeFree(a)
  /\ stage' = [stage EXCEPT ![a] = "home"]
  /\ UNCHANGED <<closing, cancelled, holder, queue, closed, destroyed, native, starts>>

\* The coroutine of an operation is cancelled; a waiter leaves the queue.
\* close() runs in a coroutine of its own, which nobody can cancel.
Cancel(a) ==
  /\ stage[a] # "home" /\ ~closing[a] /\ ~cancelled[a]
  /\ cancelled' = [cancelled EXCEPT ![a] = TRUE]
  /\ IF stage[a] = "waiting"
     THEN /\ stage' = [stage EXCEPT ![a] = "dispatch"]
          /\ \E i \in DOMAIN queue : queue[i] = a /\ queue' = RemoveAt(queue, i)
     ELSE UNCHANGED <<stage, queue>>
  /\ UNCHANGED <<closing, holder, closed, destroyed, native, starts>>

-----------------------------------------------------------------------------
Step(a) == \/ Dispatch(a) \/ Acquire(a) \/ Resume(a)
           \/ CheckOpen(a) \/ NativeCall(a) \/ FinishBlock(a) \/ CloseBody(a)
           \/ Return(a)

Next == \E a \in Actors : \/ StartOperation(a) \/ StartClose(a)
                          \/ Step(a) \/ Cancel(a)

Spec == Init /\ [][Next]_vars

\* Dispatchers run what is queued on them and native calls end; nothing forces
\* a call to be made or cancelled.
FairSpec == Spec /\ \A a \in Actors : WF_vars(Step(a))

-----------------------------------------------------------------------------
(* Properties *)

\* Every variable has its type.
TypeOK ==
  /\ stage \in [Actors -> Stages]
  /\ closing \in [Actors -> BOOLEAN]
  /\ cancelled \in [Actors -> BOOLEAN]
  /\ holder \in Actors \cup {None}
  /\ queue \in Seq(Actors)
  /\ closed \in BOOLEAN /\ destroyed \in BOOLEAN
  /\ native \in [Actors -> 0..MaxNative]
  /\ starts \in 0..MaxStarts

\* The mutex is held exactly while somebody is entitled to it, and nobody
\* waits for a free mutex: no cancellation, early failure or hand-over leaks
\* it, duplicates it or loses a waiter.
LockNeverLost ==
  /\ \A a \in Actors : stage[a] \in {"granted", "body", "native"} <=> holder = a
  /\ \A a \in Actors : stage[a] = "waiting" <=> \E i \in DOMAIN queue : queue[i] = a
  /\ \A i, j \in DOMAIN queue : queue[i] = queue[j] => i = j
  /\ holder = None => queue = <<>>

\* Native work of two calls never overlaps, and none of it runs on an object
\* that close() destroyed, even when close() overtakes operations that began
\* before it.
NoUseAfterDestroy ==
  \A a \in Actors : stage[a] = "native" =>
    /\ ~destroyed
    /\ \A b \in Actors : stage[b] = "native" => b = a

\* Once closed, the index stays closed and no block ever starts again.
ClosedIsFinal ==
  [][closed => /\ closed' /\ destroyed'
               /\ \A a \in Actors : stage'[a] = "native" => stage[a] = "native"]_vars

\* Every operation and every close() returns: close() on a confined dispatcher
\* does not keep the holder of the mutex from releasing it.
EveryCallReturns == \A a \in Actors : stage[a] # "home" ~> stage[a] = "home"

\* The actor whose block is running.
User == IF \E a \in Actors : stage[a] = "native"
        THEN CHOOSE a \in Actors : stage[a] = "native" ELSE None

\* Blocks and the native object implement the abstract handle.
Handle == INSTANCE SerialHandle WITH user <- User

ImplementsSerialHandle == Handle!Spec
=============================================================================
