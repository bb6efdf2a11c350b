-------------------------- MODULE MCTypedIndexLock --------------------------
(* An instance of TypedIndexLock for TLC. *)
EXTENDS TypedIndexLock, TLC

CONSTANTS m1, m2, io, Main

\* m1 and m2 share the one thread of Main, and io runs on the IO dispatcher.
MCHome == (m1 :> Main) @@ (m2 :> Main) @@ (io :> IO)

\* Threads of IO that callers of close() can block at once leave one over.
ASSUME SpareWorkerAssumption ==
  IOWorkers > Cardinality({a \in Actors : Home[a] = IO})
=============================================================================
