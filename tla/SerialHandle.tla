---------------------------- MODULE SerialHandle ----------------------------
(***************************************************************************)
(* What TypedTantivyIndex promises about the native object it owns: the    *)
(* blocks that use it run one at a time and only while it exists, and it   *)
(* is destroyed at most once, with no block running.  TypedIndexLock       *)
(* implements this specification.                                          *)
(***************************************************************************)
CONSTANTS Actors,  \* coroutines and threads that use the index
          None     \* nobody

VARIABLES user,      \* the actor whose block is using the object, or None
          destroyed  \* the object is gone

vars == <<user, destroyed>>

Init == user = None /\ destroyed = FALSE

Enter(a) == /\ user = None /\ ~destroyed
            /\ user' = a
            /\ UNCHANGED destroyed

Leave == /\ user # None
         /\ user' = None
         /\ UNCHANGED destroyed

Destroy == /\ user = None /\ ~destroyed
           /\ destroyed' = TRUE
           /\ UNCHANGED user

Next == (\E a \in Actors : Enter(a)) \/ Leave \/ Destroy

Spec == Init /\ [][Next]_vars
=============================================================================
