----------------------------- MODULE TypedIndex -----------------------------
(***************************************************************************)
(* The operations of TypedTantivyIndex that change the index, as blocks of *)
(* calls of the native TantivyIndex under one mutex.  The native object is *)
(* the module TantivyIndex itself, over the same variables: every native   *)
(* statement, error, panic and restart of it can happen inside a block.    *)
(*                                                                         *)
(* How a block gets the mutex (dispatchers, queue, cancellation, close())  *)
(* is the module TypedIndexLock; here a block that may start has it.       *)
(***************************************************************************)
EXTENDS Naturals, Sequences, FiniteSets

CONSTANTS Clients,    \* coroutines that call the typed index
          Keys,       \* values of the schema's id field
          BadKey,     \* a field or value that makes no term
          Batches,    \* arguments of addAll and indexAll
          Free,       \* "the mutex is not held"
          MaxOps,     \* bound on the operations ever started
          MaxCalls,   \* bound on native calls; two per operation are enough
          MaxFaults   \* bound on engine errors, panics and process deaths

ASSUME MarksAssumption == Free \notin Clients /\ BadKey \notin Keys
ASSUME BatchesAssumption == Batches \subseteq Seq([key : Keys, valid : BOOLEAN])
ASSUME BoundsAssumption == MaxOps \in Nat /\ MaxCalls \in Nat /\ MaxFaults \in Nat
ASSUME EnoughCalls == MaxCalls >= 2 * MaxOps

VARIABLES
  writer, poisoned, log, commits, seen, loading, todo, arg, built, added, view,
  calls, faults, published, acked, rejected, part,
  failed, \* the native index, see TantivyIndex
  mutex,  \* client whose block runs, or Free
  run,    \* per client: its operation
  ops,    \* operations started so far
  plain,  \* auxiliary: identifiers ever written by add, addAll, index, indexAll
  kept    \* auxiliary: documents some caller was told are durable

Native == INSTANCE TantivyIndex WITH Callers <- Clients

native == <<writer, poisoned, log, commits, seen, loading, todo, arg, built, added,
            view, calls, faults, published, acked, rejected, part, failed>>
vars == <<native, mutex, run, ops, plain, kept>>

\* What the next commit would publish.
Working == Native!Live(Native!LastCommit, log)

Without(docs, key) == {d \in docs : d.key # key}

\* body: what the block has left; before, durable: the index when it began;
\* mine: the native call that got its documents, or 0.
Idle == [kind |-> "none", body |-> <<>>, key |-> BadKey, docs |-> <<>>,
         before |-> {}, durable |-> {}, mine |-> 0, failed |-> "no"]

Init ==
  /\ Native!Init
  /\ mutex = Free /\ ops = 0
  /\ run = [c \in Clients |-> Idle]
  /\ plain = {} /\ kept = {}

-----------------------------------------------------------------------------
(* The operations: the bodies of their blocks *)

Identifiers(docs) == {docs[i].key : i \in DOMAIN docs}

Block(c, kind, body, key, docs) ==
  /\ run[c] = Idle
  /\ ops < MaxOps
  /\ ops' = ops + 1
  /\ run' = [run EXCEPT ![c] =
              [kind |-> kind, body |-> body, key |-> key, docs |-> docs,
               before |-> Working, durable |-> Native!LastCommit,
               mine |-> 0, failed |-> "no"]]
  /\ plain' = IF kind = "upsert" THEN plain ELSE plain \cup Identifiers(docs)
  /\ UNCHANGED <<native, kept>>

\* Mutant: nothing keeps two blocks apart.
LockedNothing(c, kind, body, key, docs) ==
  Block(c, kind, body, key, docs) /\ UNCHANGED mutex

locked(c, kind, body, key, docs) ==
  /\ mutex = Free
  /\ mutex' = c
  /\ Block(c, kind, body, key, docs)

clear(c) == locked(c, "clear", <<"clear_index">>, BadKey, <<>>)

add(c, doc) == locked(c, "add", <<"encode", "index_doc">>, BadKey, <<doc>>)

addAll(c, docs) == locked(c, "add", <<"encode", "index_docs">>, BadKey, docs)

\* Mutant: the commit is left to somebody else.
IndexWithoutCommit(c, doc) ==
  locked(c, "index", <<"encode", "index_doc">>, BadKey, <<doc>>)

index(c, doc) ==
  locked(c, "index", <<"encode", "index_doc", "commit">>, BadKey, <<doc>>)

indexAll(c, docs) ==
  locked(c, "index", <<"encode", "index_docs", "commit">>, BadKey, docs)

commit(c) == locked(c, "commit", <<"commit">>, BadKey, <<>>)

\* Mutant: the old document stays.
UpsertSkipsDelete(c, doc) ==
  locked(c, "upsert", <<"encode", "index_doc">>, doc.key, <<doc>>)

\* Mutant: the adapter is asked when the old document is gone.
UpsertEncodesLate(c, doc) ==
  locked(c, "upsert", <<"delete_doc", "encode", "index_doc">>, doc.key, <<doc>>)

upsert(c, doc) ==
  locked(c, "upsert", <<"encode", "delete_doc", "index_doc">>, doc.key, <<doc>>)

deleteDoc(c, key) == locked(c, "delete", <<"delete_doc">>, key, <<>>)

deleteDocWithoutCommit(c, key) ==
  locked(c, "stage", <<"delete_doc_uncommitted">>, key, <<>>)

-----------------------------------------------------------------------------
(* Running a block *)

At(c, step) ==
  /\ run[c].failed = "no" /\ todo[c] = <<>>
  /\ run[c].body # <<>> /\ Head(run[c].body) = step

Throw(c, why) == run' = [run EXCEPT ![c].failed = why]

\* The adapter, the writer's checks, and the check of the identifier: nothing
\* has crossed to the native side.
Encode(c) ==
  /\ At(c, "encode")
  /\ \/ run' = [run EXCEPT ![c].body = Tail(@)]
     \/ Throw(c, "encode")
  /\ UNCHANGED <<native, mutex, ops, plain, kept>>

\* A native call that brings documents.
CallWithDocuments(c) ==
  /\ \/ At(c, "index_doc") /\ Native!index_doc(c, run[c].docs[1])
     \/ At(c, "index_docs") /\ Native!index_docs(c, run[c].docs)
  /\ run' = [run EXCEPT ![c].body = Tail(@), ![c].mine = calls + 1]
  /\ UNCHANGED <<mutex, ops, plain, kept>>

\* Any other: from here on nobody counts on the documents that it removes.
CallWithout(c) ==
  /\ \/ At(c, "commit") /\ Native!commit(c) /\ UNCHANGED kept
     \/ At(c, "clear_index") /\ Native!clear_index(c) /\ kept' = {}
     \/ /\ \/ At(c, "delete_doc") /\ Native!delete_doc(c, run[c].key)
           \/ /\ At(c, "delete_doc_uncommitted")
              /\ Native!delete_doc_uncommitted(c, run[c].key)
        /\ kept' = Without(kept, run[c].key)
  /\ run' = [run EXCEPT ![c].body = Tail(@)]
  /\ UNCHANGED <<mutex, ops, plain>>

\* A native statement; one that does not go on to the next has returned Err,
\* which the binding throws.
Statement(c) ==
  LET refused == poisoned /\ Native!At(c, "lock")
  IN /\ Native!Step(c)
     /\ IF refused \/ todo'[c] # Tail(todo[c]) THEN Throw(c, "native") ELSE UNCHANGED run
     /\ UNCHANGED <<mutex, ops, plain, kept>>

Fault(c) ==
  /\ Native!EngineError(c) \/ Native!Panic(c)
  /\ Throw(c, "native")
  /\ UNCHANGED <<mutex, ops, plain, kept>>

Finished(c) == run[c] # Idle /\ todo[c] = <<>> /\ run[c].body = <<>> /\ run[c].failed = "no"

\* What the operation leaves in the working set and in the last commit.
Own(c) == IF run[c].mine = 0 THEN {}
          ELSE {[n |-> run[c].mine, pos |-> i, key |-> run[c].docs[i].key] :
                  i \in DOMAIN run[c].docs}
Content(c) == IF run[c].kind = "clear" THEN {}
              ELSE Without(run[c].before, run[c].key) \cup Own(c)
Durable(c) == IF run[c].kind \in {"add", "stage"} THEN run[c].durable
              ELSE IF run[c].kind = "upsert" THEN Without(run[c].before, run[c].key)
              ELSE Content(c)

\* The block ends, with a result or an exception, and the mutex is released.
Leave(c) ==
  /\ run[c] # Idle /\ todo[c] = <<>>
  /\ run[c].failed # "no" \/ Finished(c)
  /\ run' = [run EXCEPT ![c] = Idle]
  /\ mutex' = IF mutex = c THEN Free ELSE mutex
  /\ kept' = IF Finished(c) /\ run[c].kind \notin {"add", "stage"} THEN Durable(c) ELSE kept
  /\ UNCHANGED <<native, ops, plain>>

\* The process dies and the index is opened again.
Die ==
  /\ Native!Restart
  /\ mutex' = Free
  /\ run' = [c \in Clients |-> Idle]
  /\ UNCHANGED <<ops, plain, kept>>

\* The native reader's reloads in the background.
Reload ==
  /\ Native!BackgroundLoad \/ Native!BackgroundPublish
  /\ UNCHANGED <<mutex, run, ops, plain, kept>>

-----------------------------------------------------------------------------
Begin(c) ==
  \/ clear(c) \/ commit(c)
  \/ \E d \in [key : Keys, valid : BOOLEAN] : add(c, d) \/ index(c, d) \/ upsert(c, d)
  \/ \E b \in Batches : addAll(c, b) \/ indexAll(c, b)
  \/ \E k \in Keys \cup {BadKey} : deleteDoc(c, k) \/ deleteDocWithoutCommit(c, k)

Step(c) ==
  Encode(c) \/ CallWithDocuments(c) \/ CallWithout(c) \/ Statement(c) \/ Leave(c)

Next ==
  \/ \E c \in Clients : Begin(c) \/ Step(c) \/ Fault(c)
  \/ Die
  \/ Reload

Spec == Init /\ [][Next]_vars

-----------------------------------------------------------------------------
(* Properties *)

\* The typed variables have their types, and only the client with the mutex
\* is inside a block or inside the native object.
TypeOK ==
  /\ mutex \in Clients \cup {Free}
  /\ DOMAIN run = Clients
  /\ \A c \in Clients : run[c] # Idle \/ todo[c] # <<>> => mutex = c
  /\ ops \in 0..MaxOps
  /\ plain \subseteq Keys
  /\ kept \subseteq Native!Doc

\* An operation that ends well did exactly what it says to what was there when
\* its block began: nobody's add, delete or commit came in between, index,
\* indexAll, clear and deleteDoc have published everything pending, add, addAll
\* and deleteDocWithoutCommit nothing, and upsert has published the delete but
\* not yet the new document.
BlocksAreWhole ==
  \A c \in Clients :
    Finished(c) => Working = Content(c) /\ Native!LastCommit = Durable(c)

\* An operation that throws leaves everybody else's documents alone: one the
\* adapter refuses changes nothing, and one the engine fails can only lack
\* documents it was to delete and only bring its own.  (A failed upsert may
\* have lost the old document, a failed index may leave the new one pending.)
FailureIsContained ==
  \A c \in Clients :
    /\ run[c].failed = "encode" =>
         Working = run[c].before /\ Native!LastCommit = run[c].durable
    /\ run[c].failed = "native" =>
         /\ Working \subseteq run[c].before \cup Own(c)
         /\ run[c].kind = "clear" \/ Without(run[c].before, run[c].key) \subseteq Working

\* What a finished index, indexAll, commit, deleteDoc, clear or upsert made
\* durable stays in the last commit until some caller deletes it by name,
\* whatever fails and whenever the process dies.
AcknowledgedIsDurable == kept \subseteq Native!LastCommit

\* An identifier that only upsert ever wrote belongs to at most one document,
\* pending or in any commit, after any failures, retries and restarts.
OneIdentity ==
  \A k \in Keys \ plain :
    \A docs \in {Working} \cup {commits[i] : i \in 1..Len(commits)} :
      Cardinality({d \in docs : d.key = k}) <= 1
=============================================================================
