---------------------------- MODULE TantivyIndex ----------------------------
(***************************************************************************)
(* The Rust object TantivyIndex of rust/tantivy/src/lib.rs, called from    *)
(* any number of foreign threads at once: a std Mutex around the engine's  *)
(* writer, a reader that sees the last version it loaded, and methods that *)
(* lock, stage, commit and reload in the order the code does.              *)
(*                                                                         *)
(* A method is the sequence of its fallible or shared-state statements,    *)
(* kept in todo while the call runs; each statement is one action, so the  *)
(* statements of different threads interleave.  A statement that returns   *)
(* early (`?`, a rejected value, a poisoned lock) drops the rest of the    *)
(* sequence, and with it the lock guard.                                   *)
(*                                                                         *)
(* The engine (crate tantivy) is external: it stages operations in a log,  *)
(* and a commit makes their combined effect durable and empties the log.   *)
(***************************************************************************)
EXTENDS Naturals, Sequences, FiniteSets

CONSTANTS Callers,    \* threads that call the object
          Keys,       \* (field, value) pairs that make a term of the schema
          BadKey,     \* an identifier whose field or kind makes no term
          Batches,    \* arguments of index_docs: sequences of inputs
          Free,       \* "the writer mutex is not held"
          MaxCalls,   \* bound on the calls ever made
          MaxFaults   \* bound on engine errors, panics and process deaths

\* An input document: its identifier, and whether add_field_value accepts
\* every one of its fields (facet paths and JSON strings can be rejected).
Input == [key : Keys, valid : BOOLEAN]

ASSUME CallersAssumption == Free \notin Callers
ASSUME KeysAssumption == BadKey \notin Keys
ASSUME BatchesAssumption == Batches \subseteq Seq(Input)
ASSUME BoundsAssumption == MaxCalls \in Nat /\ MaxFaults \in Nat

\* A document instance: the call that built it, its place in that call's
\* argument, and its identifier.
Positions == {1} \cup UNION {DOMAIN b : b \in Batches}
Doc == [n : 1..MaxCalls, pos : Positions, key : Keys]

\* An operation staged in the engine's log.
Op == [kind : {"add"}, doc : Doc] \cup [kind : {"delete"}, key : Keys]
        \cup [kind : {"delete_all"}]

VARIABLES
  writer,    \* holder of the writer mutex, or Free
  poisoned,  \* a thread panicked while it held the mutex
  log,       \* operations staged since the last commit, in order
  commits,   \* every committed document set; the last is what a restart finds
  seen,      \* index in commits of the version the reader serves
  loading,   \* version the background reload has loaded and not yet put in place
  todo,      \* per caller: the statements its running call has left
  arg,       \* per caller: number, documents, identifiers and limit of its call
  built,     \* per caller: how many documents of its argument are converted
  added,     \* per caller: how many of them it gave to the engine
  view,      \* per caller: the version its searcher is on, hits, fetched docs
  calls,     \* calls made so far
  faults,    \* faults so far
  published, \* auxiliary, per caller: the version its call committed, or 0
  acked,     \* auxiliary: greatest version whose commit has returned Ok
  rejected,  \* auxiliary: calls that returned a conversion error
  part,      \* auxiliary: calls that gave the engine some of their batch, not all
  failed     \* auxiliary: calls that returned an engine error

shared == <<writer, poisoned, log, commits, seen, loading>>
local == <<todo, arg, built, added, view>>
aux == <<published, acked, rejected, part, failed>>
vars == <<shared, local, calls, faults, aux>>

WriterSteps == {"add", "delete_term", "delete_all", "commit", "reload"}
Steps == {"convert", "term", "lock", "search", "fetch", "count"} \cup WriterSteps
Fallible == {"add", "delete_all", "commit", "reload", "search", "fetch"}

Arg == [n : 0..MaxCalls, batch : Seq(Input), keys : SUBSET (Keys \cup {BadKey}),
        limit : Nat]
View == [at : Nat, hits : SUBSET Doc, docs : SUBSET Doc]

NoArg == [n |-> 0, batch |-> <<>>, keys |-> {}, limit |-> 0]
NoView == [at |-> 1, hits |-> {}, docs |-> {}]

-----------------------------------------------------------------------------
(* The engine *)

LastCommit == commits[Len(commits)]

Masks(op, d) == \/ op.kind = "delete_all"
                \/ op.kind = "delete" /\ op.key = d.key

\* Deletes are applied in operation order: an operation masks what was added
\* before it and leaves later additions alone.
Live(base, lg) ==
  {d \in base : \A j \in 1..Len(lg) : ~Masks(lg[j], d)}
    \cup {lg[i].doc : i \in {i \in 1..Len(lg) :
            /\ lg[i].kind = "add"
            /\ \A j \in (i + 1)..Len(lg) : ~Masks(lg[j], lg[i].doc)}}

-----------------------------------------------------------------------------
(* Starting and leaving a call *)

Init ==
  /\ writer = Free /\ poisoned = FALSE
  /\ log = <<>> /\ commits = << {} >> /\ seen = 1 /\ loading = 0
  /\ todo = [c \in Callers |-> <<>>]
  /\ arg = [c \in Callers |-> NoArg]
  /\ built = [c \in Callers |-> 0]
  /\ added = [c \in Callers |-> 0]
  /\ view = [c \in Callers |-> NoView]
  /\ calls = 0 /\ faults = 0
  /\ published = [c \in Callers |-> 0]
  /\ acked = 0 /\ rejected = {} /\ part = {} /\ failed = {}

\* A thread enters a method whose body is the sequence steps.
Invoke(c, steps, batch, keys, limit) ==
  /\ todo[c] = <<>>
  /\ calls < MaxCalls
  /\ calls' = calls + 1
  /\ todo' = [todo EXCEPT ![c] = steps]
  /\ arg' = [arg EXCEPT ![c] = [n |-> calls + 1, batch |-> batch,
                                keys |-> keys, limit |-> limit]]
  /\ built' = [built EXCEPT ![c] = 0]
  /\ added' = [added EXCEPT ![c] = 0]
  /\ view' = [view EXCEPT ![c] = NoView]
  /\ published' = [published EXCEPT ![c] = 0]
  /\ UNCHANGED <<shared, faults, acked, rejected, part, failed>>

At(c, step) == todo[c] # <<>> /\ Head(todo[c]) = step

\* The statement is done; after the last one the method returns Ok and its
\* lock guard, if it has one, is dropped.
Advance(c) ==
  /\ todo' = [todo EXCEPT ![c] = Tail(todo[c])]
  /\ writer' = IF Len(todo[c]) = 1 /\ writer = c THEN Free ELSE writer
  /\ acked' = IF Len(todo[c]) = 1 /\ published'[c] > acked
              THEN published'[c] ELSE acked

\* The method returns Err; its lock guard is dropped too.
Return(c) ==
  /\ todo' = [todo EXCEPT ![c] = <<>>]
  /\ writer' = IF writer = c THEN Free ELSE writer
  /\ UNCHANGED acked

-----------------------------------------------------------------------------
(* The methods: bodies as the order of their statements *)

Repeat(step, n) == [i \in 1..n |-> step]

clear_index(c) ==
  Invoke(c, <<"lock", "delete_all", "commit", "reload">>, <<>>, {}, 0)

\* The document is converted while the lock is held.
index_doc(c, doc) ==
  Invoke(c, <<"lock", "convert", "add">>, <<doc>>, {}, 0)

\* Mutant: each document is added as soon as it is converted.
ConvertAsYouAdd(c, docs) ==
  Invoke(c, <<"lock">> \o [i \in 1..(2 * Len(docs)) |-> IF i % 2 = 1 THEN "convert" ELSE "add"],
         docs, {}, 0)

\* Every document is converted before the lock is taken.
index_docs(c, docs) ==
  Invoke(c, Repeat("convert", Len(docs)) \o <<"lock">> \o Repeat("add", Len(docs)),
         docs, {}, 0)

\* Mutant: commit leaves the reader where it was.
CommitWithoutReload(c) == Invoke(c, <<"lock", "commit">>, <<>>, {}, 0)

commit(c) == Invoke(c, <<"lock", "commit", "reload">>, <<>>, {}, 0)

\* Mutant: the delete is staged before the lock is taken.
DeleteBeforeLock(c, id) ==
  Invoke(c, <<"term", "delete_term", "lock", "commit", "reload">>, <<>>, {id}, 0)

delete_doc(c, id) ==
  Invoke(c, <<"term", "lock", "delete_term", "commit", "reload">>, <<>>, {id}, 0)

delete_doc_uncommitted(c, id) ==
  Invoke(c, <<"term", "lock", "delete_term">>, <<>>, {id}, 0)

doc_exists(c, id) == Invoke(c, <<"term", "search">>, <<>>, {id}, 1)

get_doc(c, id) == Invoke(c, <<"term", "search", "fetch">>, <<>>, {id}, 1)

\* The limit is the length of the argument, which may repeat an identifier.
get_docs_by_ids(c, ids, limit) ==
  Invoke(c, <<"term", "search", "fetch">>, <<>>, ids, limit)

docs_count(c) == Invoke(c, <<"count">>, <<>>, {}, 0)

\* search, search_dsl and search_doc_ids once their query is built: keys
\* stands for what the query matches.
search(c, keys, limit) == Invoke(c, <<"search", "fetch">>, <<>>, keys, limit)

-----------------------------------------------------------------------------
(* The statements *)

\* Mutant: the guard is taken out of a poisoned lock.
LockIgnoresPoison(c) ==
  /\ At(c, "lock")
  /\ writer = Free
  /\ todo' = [todo EXCEPT ![c] = Tail(todo[c])]
  /\ writer' = IF Len(todo[c]) = 1 THEN Free ELSE c
  /\ UNCHANGED <<poisoned, log, commits, seen, loading, arg, built, added, view,
                 calls, faults, aux>>

\* Mutant: a poisoned lock is waited for.
LockWaitsWhenPoisoned(c) == ~poisoned /\ LockIgnoresPoison(c)

\* std::sync::Mutex::lock: waits while the mutex is held.  When it is poisoned
\* the method returns WriterAcquisitionError and leaves it free.
Lock(c) ==
  /\ At(c, "lock")
  /\ writer = Free
  /\ IF poisoned
     THEN Return(c)
     ELSE /\ todo' = [todo EXCEPT ![c] = Tail(todo[c])]
          /\ writer' = IF Len(todo[c]) = 1 THEN Free ELSE c
          /\ UNCHANGED acked
  /\ UNCHANGED <<poisoned, log, commits, seen, loading, arg, built, added, view,
                 calls, faults, published, rejected, part, failed>>

\* add_field_value on every field of the next document of the argument.
Convert(c) ==
  /\ At(c, "convert")
  /\ UNCHANGED published
  /\ IF arg[c].batch[built[c] + 1].valid
     THEN /\ Advance(c)
          /\ built' = [built EXCEPT ![c] = @ + 1]
          /\ UNCHANGED rejected
     ELSE /\ Return(c)
          /\ rejected' = rejected \cup {arg[c].n}
          /\ UNCHANGED built
  /\ UNCHANGED <<poisoned, log, commits, seen, loading, arg, added, view, calls,
                 faults, part, failed>>

\* term_from_document_field: unknown field or unsupported kind is an Err.
Term(c) ==
  /\ At(c, "term")
  /\ UNCHANGED published
  /\ IF BadKey \in arg[c].keys THEN Return(c) ELSE Advance(c)
  /\ UNCHANGED <<poisoned, log, commits, seen, loading, arg, built, added, view,
                 calls, faults, rejected, part, failed>>

Stage(op) == log' = Append(log, op)

\* The engine has some of the call's documents and not yet the rest.
Part(c) == IF added[c] + 1 < Len(arg[c].batch)
           THEN part \cup {arg[c].n} ELSE part \ {arg[c].n}

\* Mutant: the guard lives for one document only.
AddDropsGuard(c) ==
  /\ At(c, "add")
  /\ LET i == added[c] + 1
     IN  Stage([kind |-> "add",
                doc |-> [n |-> arg[c].n, pos |-> i, key |-> arg[c].batch[i].key]])
  /\ added' = [added EXCEPT ![c] = @ + 1]
  /\ part' = Part(c)
  /\ todo' = [todo EXCEPT ![c] = Tail(todo[c])]
  /\ writer' = Free
  /\ UNCHANGED <<poisoned, commits, seen, loading, arg, built, view, calls, faults,
                 published, acked, rejected, failed>>

AddDocument(c) ==
  /\ At(c, "add")
  /\ LET i == added[c] + 1
     IN  Stage([kind |-> "add",
                doc |-> [n |-> arg[c].n, pos |-> i, key |-> arg[c].batch[i].key]])
  /\ added' = [added EXCEPT ![c] = @ + 1]
  /\ part' = Part(c)
  /\ UNCHANGED published
  /\ Advance(c)
  /\ UNCHANGED <<poisoned, commits, seen, loading, arg, built, view, calls, faults,
                 rejected, failed>>

DeleteTerm(c) ==
  /\ At(c, "delete_term")
  /\ \E k \in arg[c].keys : Stage([kind |-> "delete", key |-> k])
  /\ UNCHANGED published
  /\ Advance(c)
  /\ UNCHANGED <<poisoned, commits, seen, loading, arg, built, added, view, calls,
                 faults, rejected, part, failed>>

DeleteAllDocuments(c) ==
  /\ At(c, "delete_all")
  /\ Stage([kind |-> "delete_all"])
  /\ UNCHANGED published
  /\ Advance(c)
  /\ UNCHANGED <<poisoned, commits, seen, loading, arg, built, added, view, calls,
                 faults, rejected, part, failed>>

\* Mutant: the commit builds on the version the reader has loaded.
CommitOnSeen(c) ==
  /\ At(c, "commit")
  /\ commits' = Append(commits, Live(commits[seen], log))
  /\ log' = <<>>
  /\ published' = [published EXCEPT ![c] = Len(commits) + 1]
  /\ Advance(c)
  /\ UNCHANGED <<poisoned, seen, loading, arg, built, added, view, calls, faults,
                 rejected, part, failed>>

\* IndexWriter::commit makes everything staged durable, whoever staged it.
WriterCommit(c) ==
  /\ At(c, "commit")
  /\ commits' = Append(commits, Live(LastCommit, log))
  /\ log' = <<>>
  /\ published' = [published EXCEPT ![c] = Len(commits) + 1]
  /\ Advance(c)
  /\ UNCHANGED <<poisoned, seen, loading, arg, built, added, view, calls, faults,
                 rejected, part, failed>>

\* IndexReader::reload opens the newest version and puts it in place; the
\* caller holds the writer mutex, so that no commit comes between the two.
Reload(c) ==
  /\ At(c, "reload")
  /\ seen' = Len(commits)
  /\ UNCHANGED published
  /\ Advance(c)
  /\ UNCHANGED <<poisoned, log, commits, loading, arg, built, added, view, calls,
                 faults, rejected, part, failed>>

Matching(keys, docs) == {d \in docs : d.key \in keys}

\* One searcher is taken, and the collector keeps at most limit hits.
Search(c) ==
  /\ At(c, "search")
  /\ \E hits \in SUBSET Matching(arg[c].keys, commits[seen]) :
       /\ \/ Cardinality(hits) = arg[c].limit
          \/ /\ hits = Matching(arg[c].keys, commits[seen])
             /\ Cardinality(hits) < arg[c].limit
       /\ view' = [view EXCEPT ![c] = [at |-> seen, hits |-> hits, docs |-> {}]]
  /\ UNCHANGED published
  /\ Advance(c)
  /\ UNCHANGED <<poisoned, log, commits, seen, loading, arg, built, added, calls,
                 faults, rejected, part, failed>>

\* Mutant: the addresses are resolved by a searcher of their own.
FetchFromNewSearcher(c) ==
  /\ At(c, "fetch")
  /\ view' = [view EXCEPT ![c].docs = view[c].hits \cap commits[seen]]
  /\ UNCHANGED published
  /\ Advance(c)
  /\ UNCHANGED <<poisoned, log, commits, seen, loading, arg, built, added, calls,
                 faults, rejected, part, failed>>

\* The addresses are resolved by the same searcher that produced them.
Fetch(c) ==
  /\ At(c, "fetch")
  /\ view' = [view EXCEPT ![c].docs = view[c].hits \cap commits[view[c].at]]
  /\ UNCHANGED published
  /\ Advance(c)
  /\ UNCHANGED <<poisoned, log, commits, seen, loading, arg, built, added, calls,
                 faults, rejected, part, failed>>

\* Searcher::num_docs; the result is the number of hits.
Count(c) ==
  /\ At(c, "count")
  /\ view' = [view EXCEPT ![c] = [at |-> seen, hits |-> commits[seen], docs |-> {}]]
  /\ UNCHANGED published
  /\ Advance(c)
  /\ UNCHANGED <<poisoned, log, commits, seen, loading, arg, built, added, calls,
                 faults, rejected, part, failed>>

-----------------------------------------------------------------------------
(* Faults *)

\* An engine call returns an error and has no effect; `?` leaves the method.
EngineError(c) ==
  /\ faults < MaxFaults
  /\ todo[c] # <<>> /\ Head(todo[c]) \in Fallible
  /\ faults' = faults + 1
  /\ failed' = failed \cup {arg[c].n}
  /\ Return(c)
  /\ UNCHANGED <<poisoned, log, commits, seen, loading, arg, built, added, view,
                 calls, published, rejected, part>>

\* A panic unwinds through the guard, which poisons the mutex.
Panic(c) ==
  /\ faults < MaxFaults
  /\ writer = c
  /\ faults' = faults + 1
  /\ poisoned' = TRUE
  /\ Return(c)
  /\ UNCHANGED <<log, commits, seen, loading, arg, built, added, view, calls,
                 published, rejected, part, failed>>

\* The process dies and the index is opened again: what was staged is gone,
\* the last commit is found and a new reader loads it.
Restart ==
  /\ faults < MaxFaults
  /\ faults' = faults + 1
  /\ writer' = Free /\ poisoned' = FALSE
  /\ log' = <<>>
  /\ seen' = Len(commits) /\ loading' = 0
  /\ todo' = [c \in Callers |-> <<>>]
  /\ UNCHANGED <<commits, arg, built, added, view, calls, aux>>

\* Mutant: the background reload loads the version the reader is already on.
LoadOld ==
  /\ loading = 0
  /\ loading' = seen
  /\ UNCHANGED <<writer, poisoned, log, commits, seen, local, calls, faults, aux>>

\* The reader's default policy: one thread of the engine watches the index's
\* meta file and reloads, one reload at a time, whenever it has changed, after
\* a merge as well as after a commit.  A reload opens the newest version...
BackgroundLoad ==
  /\ loading = 0
  /\ loading' = Len(commits)
  /\ UNCHANGED <<writer, poisoned, log, commits, seen, local, calls, faults, aux>>

\* Mutant: the reader steps to the version after the one it is on.
PublishNext ==
  /\ loading # 0
  /\ seen' = seen + 1 /\ loading' = 0
  /\ UNCHANGED <<writer, poisoned, log, commits, local, calls, faults, aux>>

\* ... and puts it in place later, whatever commits and reloads came between.
BackgroundPublish ==
  /\ loading # 0
  /\ seen' = loading /\ loading' = 0
  /\ UNCHANGED <<writer, poisoned, log, commits, local, calls, faults, aux>>

-----------------------------------------------------------------------------
Write(c) ==
  \/ clear_index(c)
  \/ \E k \in Keys, v \in BOOLEAN : index_doc(c, [key |-> k, valid |-> v])
  \/ \E b \in Batches : index_docs(c, b)
  \/ commit(c)
  \/ \E k \in Keys \cup {BadKey} : delete_doc(c, k) \/ delete_doc_uncommitted(c, k)

Read(c) ==
  \/ \E k \in Keys \cup {BadKey} : doc_exists(c, k) \/ get_doc(c, k)
  \/ \E ks \in SUBSET (Keys \cup {BadKey}) \ {{}}, limit \in 1..2 :
        /\ Cardinality(ks) <= limit
        /\ get_docs_by_ids(c, ks, limit)
  \/ docs_count(c)
  \/ \E limit \in 1..2 : search(c, Keys, limit)

Step(c) ==
  \/ Lock(c) \/ Convert(c) \/ Term(c)
  \/ AddDocument(c) \/ DeleteTerm(c) \/ DeleteAllDocuments(c)
  \/ WriterCommit(c) \/ Reload(c)
  \/ Search(c) \/ Fetch(c) \/ Count(c)

Next ==
  \/ \E c \in Callers : Write(c) \/ Read(c) \/ Step(c) \/ EngineError(c) \/ Panic(c)
  \/ Restart
  \/ BackgroundLoad
  \/ BackgroundPublish

Spec == Init /\ [][Next]_vars

\* A thread inside a method keeps running, the watcher loads what it has not
\* served yet (the meta file changed after its last look), and it finishes a
\* reload it began.  Nothing forces a call to be made or an error to occur.
FairSpec ==
  /\ Spec
  /\ \A c \in Callers : WF_vars(Step(c))
  /\ WF_vars(seen < Len(commits) /\ BackgroundLoad)
  /\ WF_vars(BackgroundPublish)

-----------------------------------------------------------------------------
(* Properties *)

\* Every variable has its type; the reader is on a version that exists.
TypeOK ==
  /\ writer \in Callers \cup {Free}
  /\ poisoned \in BOOLEAN
  /\ log \in Seq(Op)
  /\ commits \in Seq(SUBSET Doc) /\ commits # <<>>
  /\ seen \in 1..Len(commits) /\ loading \in 0..Len(commits)
  /\ todo \in [Callers -> Seq(Steps)]
  /\ arg \in [Callers -> Arg]
  /\ built \in [Callers -> Nat]
  /\ added \in [Callers -> Nat]
  /\ view \in [Callers -> View]
  /\ calls \in 0..MaxCalls
  /\ faults \in 0..MaxFaults
  /\ published \in [Callers -> Nat]
  /\ acked \in Nat
  /\ rejected \subseteq 1..MaxCalls
  /\ part \subseteq 1..MaxCalls /\ failed \subseteq 1..MaxCalls

\* Only the holder of the mutex is at a statement that stages, commits or
\* reloads, whatever the interleaving, the early returns and the panics.
WritesHoldTheLock ==
  \A c \in Callers :
    todo[c] # <<>> /\ Head(todo[c]) \in WriterSteps => writer = c

\* A call that returned a conversion error left no document behind, staged or
\* committed, whoever commits afterwards (index_docs, comment at lib.rs:1025).
RejectedCallLeavesNothing ==
  \A n \in rejected :
    /\ \A i \in 1..Len(log) : log[i].kind = "add" => log[i].doc.n # n
    /\ \A i \in 1..Len(commits) : \A d \in commits[i] : d.n # n

\* When a commit returns Ok the reader is on it, whatever other threads commit
\* and the background reload does; the reader goes back behind such a commit
\* only when a background reload that was under way publishes what it loaded,
\* and no call is told of that.
ReadYourCommits ==
  [][/\ acked' # acked => seen' >= acked'
     /\ seen' < seen => /\ loading # 0 /\ seen' = loading
                        /\ UNCHANGED <<todo, acked>>]_vars

\* Behind an acknowledged commit the reader does not stay: the background
\* reload that took it back is followed by one that takes it forward.
BehindIsTemporary == seen < acked ~> seen >= acked

\* A commit makes a part of a batch durable only if add_document failed in the
\* middle of it (lib.rs:1046) and the call was told so: neither a panic nor
\* another thread's commit ever splits a batch of a call that returned Ok, or
\* of one still running.
CommitsWholeBatches ==
  [][commits' # commits =>
       \A i \in 1..Len(log) :
         log[i].kind = "add" /\ log[i].doc.n \in part => log[i].doc.n \in failed]_vars

\* After a panic under the lock nothing more is staged or made durable by
\* this object: half-staged work is never committed.
PoisonFreezes ==
  [][poisoned => commits' = commits /\ log' \in {log, <<>>}]_vars

\* A read that ends well returns every hit it counted, all of one committed
\* version, even when commits and reloads land between its two statements.
ReadsOneVersion ==
  [][\A c \in Callers :
       At(c, "fetch") /\ todo'[c] = <<>> /\ faults' = faults =>
         /\ view'[c].docs = view[c].hits
         /\ \E i \in 1..Len(commits) : view'[c].docs \subseteq commits[i]]_vars

\* A call always returns: no path leaves the mutex held, and a poisoned mutex
\* is an error and not a wait.
EveryCallReturns == \A c \in Callers : todo[c] # <<>> ~> todo[c] = <<>>

\* The staged log, the commits and the reader implement the abstract index.
Abstract == INSTANCE AtomicIndex
  WITH working <- Live(LastCommit, log), versions <- commits, shown <- seen,
       coming <- loading

ImplementsAtomicIndex == Abstract!Spec
=============================================================================
