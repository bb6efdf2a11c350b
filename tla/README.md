# tantivy.kt in TLA+

Specifications, model-checking runs and proofs for tantivy.kt: a Rust crate
(`src/rust/tantivy`) that wraps the tantivy search engine and exports it
through UniFFI, and a Kotlin library (`src/android/lib`) that gives it typed
documents, coroutines and a life cycle.

Everything is translated from the source.  Two things the program uses are not
in the repository and are modelled from how it uses them: the engine (crate
tantivy) and kotlinx.coroutines.  `PROJECT.json` names, for every definition,
the lines it stands for, and marks the external ones.

## 1. The system

| Part | Source | State | Operations | Talks to |
|---|---|---|---|---|
| Native index `TantivyIndex` | `rust/tantivy/src/lib.rs` 574-1277 | the engine's writer behind a `std::sync::Mutex`, a reader that sees the last version it loaded | clear_index, index_doc, index_docs, commit, delete_doc, delete_doc_uncommitted; doc_exists, get_doc, get_docs_by_ids, docs_count, search_doc_ids, search_dsl, search | called from any foreign thread; calls the engine |
| Schema builder and opening | `lib.rs` 216-445, 943-984; `TypedTantivyIndex.kt` 57-72 | `Mutex<Option<SchemaBuilder>>`; the directory, its index and its lock file | add_*_field, take_and_build, new_with_schema, open | file system, engine |
| Typed index, lock and life cycle | `TypedTantivyIndex.kt` 44-47, 206-231 | a coroutine `Mutex`, `closed`, the native object | locked, close | dispatchers; the native object |
| Typed index, operations | `TypedTantivyIndex.kt` 74-199 | none of its own | add, addAll, index, indexAll, upsert, deletes, reads, searchText | runs blocks of native calls under the lock |
| Unicode tokenizer | `unicode_tokenizer.rs` | pending tokens, one token shared by all streams | token_stream, advance | called by the engine when it indexes and parses queries |
| Schema declaration | `TantivySchema.kt` | list of field specs | field declarations, build, extending, fingerprint, newBuilder | fills the schema builder |
| Values and documents | `TantivyValue.kt`; `lib.rs` 447-608, 656-721 | fields and counts of a document being written | value, build; fromFfi, doc_to_fields | both sides of the FFI |
| Query language | `TantivyQuery.kt`; `lib.rs` 480-572, 723-920 | none | construction, toJson; from_str, to_query | JSON text |
| Build, release, packaging | scripts, Gradle files | none | - | - |

What is hard in it:

- *Native index.*  Every method is a sequence of fallible steps over shared
  state (lock, convert, stage, commit, reload).  Other threads act between
  the steps, each step can return early, a panic under the lock poisons it,
  and the process can die anywhere.  It is correct when a rejected call leaves
  nothing behind, a part of a batch becomes durable only when its caller was
  told of an error, the reader is on a commit when it returns and never stays
  behind it, a read is of one version, and everything together behaves as one
  atomic index.
- *Lock and life cycle.*  Coroutines are cancelled while they wait for the
  mutex, after it was handed to them, or on the way back; close() blocks a
  thread.  It is correct when the mutex is never lost or doubled, no block
  uses a destroyed object, a closed index stays closed, and everything
  returns.
- *Opening.*  A call consumes the builder, then may fail at three more places;
  two calls may race for a builder or a directory; a cancelled call leaves an
  object nobody can close.
- *Typed operations.*  Each is one block under the lock, but of several native
  calls, any of which can fail or be the last before the process dies; callers
  of `add` leave work pending that somebody else's commit publishes.  They are
  correct when a finished operation did exactly what it says, a failed one
  harmed nobody else's documents, what was acknowledged as durable stays, and
  upsert never gives one identifier to two documents.
- *Values and documents.*  A value crosses two languages and an engine with
  its own ranges and its own idea of a term.  It is correct when a value comes
  back as it was written, when a document that could be written can be read,
  and when it is found, and deleted, by its own values and no others.
- *Queries.*  Two languages describe one JSON format; checks are spread over
  construction, serde, to_query and the engine.  It is correct when everything
  Kotlin can build is understood by Rust in full, and a filter narrows.
- *Reads.*  Limits, offsets, counts, identifiers that repeat or are shared,
  documents that do not decode, commits between two pages.
- *Schema declaration.*  A fingerprint, a list of accepted kinds and a set of
  engine options, three translations of the same declaration.
- *Tokenizer.*  Local rules on single characters (drop, split), on
  neighbouring tokens (join) and on runs of tokens (compounds) have to add up
  to one definition of a token, the same for documents and queries.

`PROJECT.json` lists under `hazards` each of these at its line.

## 2. The modules

| Module | What it is |
|---|---|
| `AtomicIndex` | abstract: one working set, the versions published from it, the version searches see |
| `TantivyIndex` | the native index; implements `AtomicIndex` |
| `SerialHandle` | abstract: blocks use the native object one at a time and only while it exists |
| `TypedIndexLock` | `locked` and `close()` of the typed index; implements `SerialHandle` |
| `TypedIndex` | the writing operations of the typed index, composed with `TantivyIndex` |
| `DocumentCodec` | the way of a document: writer, add_field_value, storage and terms, doc_to_fields, field map |
| `QueryDsl` | the way of a query: Kotlin tree, JSON, serde, to_query, documents found |
| `ReadPaths` | what reads return over one version, typed and native, and a pager |
| `SchemaDeclaration` | declaring, building, extending, fingerprints, what is registered |
| `OpenIndex` | schema builders, `new_with_schema`, `open`, the end of a native object |
| `UnicodeTokenizer` | the tokenizer and its stream, with a declarative reference |
| `Selection` | selecting elements of a sequence by their positions, for DocumentCodec, ReadPaths and UnicodeTokenizer |
| `MC...` | instances of the above for TLC |
| `..._proof` | theorems and proofs |

Operators whose comment begins with "Mutant" are faulty variants of the
definition that follows them.  No action uses them.  Each is a plausible
mistake in the code, and exchanged for the real definition makes TLC report
the property `PROJECT.json` pairs it with: so every property is known to
be able to fail.

### TantivyIndex

A call is the sequence of its statements that can fail or touch shared state,
kept in `todo[c]`; each is one action of thread `c`.  `index_docs` of two
documents, for example, is convert, convert, lock, add, add.  The last
statement of a method, and every early return, drops the lock guard in the
same step (`Advance`, `Return`), as Rust does.

- `writer`, `poisoned`: the `std::sync::Mutex`.  A panic under it (`Panic`)
  poisons it; `Lock` then fails with WriterAcquisitionError and waits for
  nothing.
- `log`: what is staged.  `Live(base, log)` is the document set a commit makes
  of it, deletes masking what came before them (comment at lib.rs:1082).
- `commits`, `seen`: the versions and the one the reader has loaded.  The
  reader is built with the default policy, so a thread of the engine reloads in
  the background, too: it opens a version (`BackgroundLoad`, `loading`) and puts
  it in place later (`BackgroundPublish`), after commits and reloads that were
  faster.  `reload` itself is one step, as the caller holds the writer mutex and
  no commit can come between opening the newest version and putting it in place.
- `view[c]`: the searcher of a read, its hits and what it fetched.
- `EngineError` lets any call of the engine fail without effect, `Restart` is
  the death of the process and a new open.
- `published`, `acked`, `rejected`, `part` (calls with some of their batch
  staged and not all) and `failed` (calls that returned an engine error) are
  auxiliary; they only remember.

A document is its call, its place in the argument and its identifier; an input
is an identifier and whether `add_field_value` accepts it; an identifier that
makes no term is `BadKey`, and a list of identifiers may have one, too.  What a
query matches is a set of identifiers;
`search` is taken after its query was built.  The early return of
`get_docs_by_ids` for an empty list, and limits of 0, are left out.

### TypedIndexLock

An actor is a coroutine or a thread; `Home` is its dispatcher, confined to one
thread or the IO pool itself.  `stage` says where its call is: `dispatch`
(waiting for an IO thread), `lock`, `waiting` (suspended, no thread used),
`granted` (handed the mutex, waiting for an IO thread), `body`, `native`,
`return`.  `close()` keeps a thread of its caller's home until it returns
(`Blocked`); that is what makes a confined dispatcher deadlock when the order
of `withContext` and `withLock` is the other way round, and the mutant
`ResumeAtHome` is that order.  The mutex is handed over in FIFO order.
Cancellation is prompt while a coroutine is suspended or queued, and not
noticed while it runs; the coroutine of close() is runBlocking's own, which
its caller cannot cancel (interrupting the thread is not modelled).  A block is
one or more native calls and may throw at any of them.

### TypedIndex

`Native == INSTANCE TantivyIndex WITH Callers <- Clients` is the native index
of the previous section over the same variables, so a block of the typed index
is interleaved with everything the native object does: errors and panics at
each statement, poisoning, background reloads, restarts.  `run[c]` is the
operation of client `c`: the calls its block has left (`body`), and, for the
properties, the index when it began.  `locked` takes the mutex; `Encode` is the
adapter with the writer's and upsert's checks; `CallWithDocuments` and
`CallWithout` enter a native method; `Statement` runs one native statement and
throws when it returned an error; `Leave` ends the block.  How a client gets
the mutex is `TypedIndexLock`'s subject.  `Die` ends every block at once.

What the code does to a failed upsert the model shows and the documentation
does not deny: the delete has committed, so a document the native side rejects
(a facet without a leading slash) leaves neither the old nor the new one.
FailureIsContained says that this is the worst that can happen.

### DocumentCodec

One document is written field by field, typed (`value`) or by hand
(`raw_field`), handed to `index_doc`, and read back.  A text is a sequence of
words, a facet a path, JSON what it says and how it is spelled, numbers and
dates integers of 64 bits, `MaxLong` being the largest.  `Owned` is what add_field_value makes of a
value; a date is multiplied to nanoseconds and wraps, as release builds do.
`IndexedTerms` is the engine's and external: a raw text whole, another word by
word in lower case, a facet with its ancestors, a date truncated to the second
(TantivyQueryDslTest.kt:427 relies on it); `Term` is the code's, which neither
tokenizes nor truncates.  What is stored, and what is read, is `Selected` from
the fields by position: `SelectSeq`, in a form whose definition can be used in
a proof (`SelectedIsSelectSeq` in MCReadPaths compares the two).  Out of it: values of another kind than the field's
made by hand, for which the engine may reject the document or not, JSON that
is no object, and stemming.

### QueryDsl

A tree is the sequence of its nodes, each after the nodes inside it and the root
last; a query inside another is the position of its node, in Kotlin, in the text
and in Rust.  The code goes over a tree by recursion and does to each node what
depends on that node and on the results for those inside it, so here it goes
over the sequence: nothing is recursive but two functions on positions, the
depth of a text and what each node finds (`Depth`, `Search`).

`Leaves` are queries without one inside, valid or not; `Wrap` puts a query into
a Boolean, Boost, ConstScore or DisjunctionMax; `search` writes it with
`toJsonObject`, alone or as the filter of `searchText`; `raw` is a text from a
caller of the generated API with a key missing, added, null or mistagged;
`from_str` is serde, driven by tables of the Rust types (`Variants`, `Structs`,
`FieldValues`); `search_dsl` is `to_query` and the search.  A leaf finds the
documents that hold its words: edit distance, slop, prefixes, patterns and
scores are left to the engine.  Which field options a query needs (`Refuses`) is
the engine's.

The text of a query string is what the engine's parser makes of it, `Words`: its
words, each with the field it names, if any.  A word that names none is looked
for in the default fields.  Both kinds of names are dropped when the schema does
not have them: of the default fields by the code (lib.rs:729), of the text
because the code keeps the query of the lenient parse and not its errors
(lib.rs:915).  `word_fields` is what remains.  The rest of the grammar
(operators, quotes, ranges in the text) is not modelled.

A range may have bounds of any `TantivyValue`; to_query makes terms of all but
JSON.  `Key` is where the engine keeps a term among those of its field: a number
or a date at its value, any other at `Rank`, the order of its bytes.

### ReadPaths

A version is a sequence of documents in hit order, and a query the keys it
matches.  The native methods are operators over a version, as the code takes
one searcher per call, and the typed ones wrap them.  A pager goes from page
to page by the count each page brings, while `Commit` changes the version.

### SchemaDeclaration

`scope` is TantivySchemaScope, `schemas` what was built of it; `print` is the
fingerprint of a field and `register` the entry the native builder makes.  The
engine opens an index with the same entries in the same order only, and the
fingerprint sorts: two schemas that declare the same fields in another order
have one fingerprint and not one index.  No document says otherwise, so it is
stated with the property and no finding.

### OpenIndex

Builders in `Builders` are shared through the generated API; every thread has
one of its own for the typed API, which makes a fresh one per call.  A builder
that was taken ignores additions, and one that is given a name twice panics in
the engine and is poisoned for good.  `new_with_schema` is the steps
directory, create, take, index, writer, reader, return.  `Fail` is an error in
one of them: the writer, if any, is dropped, but the builder stays taken and
the directory and its index stay.  `Abandon` is the cancellation of `open` in
the hop back from IO; the object is then an orphan until the collector finds
it (`Collect`).

Opening or creating is two steps, as the engine does it: it looks for an index
(`OpenOrCreate`), and a call that found none makes one later (`CreateIndex`),
whatever another call has made there since, as no lock is held yet.  So two
calls with different schemas that both found none can replace each other's
index, even one in use; `raced` remembers the directories where that could
happen, and SchemaInUseStays is about all others.  `commit` is in the module
because it writes the schema of its object over what is on disk.

### UnicodeTokenizer

A character is known by the classes the code and UAX #29 distinguish: letters,
ideographs, apostrophes inside words, apostrophe-like characters that end
words, letters that look like an apostrophe (U+02BC, U+02B9), dashes,
connectors, combining marks, others.  Offsets are character boundaries.  The
word rules are given for these classes (`Joined`); digits, line breaks, emoji
and Hebrew are not among them.  Lower-casing and ASCII folding come after the
tokenizer and are the engine's.  `position` is never set back by
`token_stream`, as in the code.

Two consequences of the code that the model shows and no document
denies: a combining mark that is not alphabetic splits a word (decomposed "é"
inside a word), and a compound takes a position of its own, so the word after
"foo-bar" is two positions after "bar".

## 3. The runs

| Run | Module, cfg | Shows |
|---|---|---|
| index_safety | MCTantivyIndex, TantivyIndexSafety | TypeOK, WritesHoldTheLock, RejectedCallLeavesNothing, ReadYourCommits, CommitsWholeBatches, PoisonFreezes, ReadsOneVersion, ImplementsAtomicIndex |
| index_live | MCTantivyIndex, TantivyIndexLive | EveryCallReturns, BehindIsTemporary |
| typed_lock | MCTypedIndexLock, TypedIndexLock | TypeOK, LockNeverLost, NoUseAfterDestroy, ClosedIsFinal, ImplementsSerialHandle, EveryCallReturns |
| typed_index | MCTypedIndex, TypedIndex | TypeOK, BlocksAreWhole, FailureIsContained, AcknowledgedIsDurable, OneIdentity |
| document_codec | MCDocumentCodec, DocumentCodec | ReadsBackWhatWasWritten, TypedDocumentsAreReadable, FoundByItsValues |
| document_codec_delete | MCDocumentCodec, DocumentCodecDelete | the comment at TypedTantivyIndex.kt:130 is not what the code does (a violation) |
| query_dsl | MCQueryDsl, QueryDsl | KotlinIsUnderstood, UnknownNamesFindNothing, FilterSplits, HalfOpenRangesTile |
| read_paths | MCReadPaths, ReadPaths | PagesTile, AllIdsFound, ErrorsAreExact |
| schema_declaration | MCSchemaDeclaration, SchemaDeclaration | FingerprintTellsOptions, WriterMatchesIndex |
| open_index | MCOpenIndex, OpenIndex | TypeOK, LockMatchesWriters, SchemaInUseStays, BuilderIsUsedOnce |
| tokenizer | MCUnicodeTokenizer, UnicodeTokenizer | MatchesReference, DashesAreOptional, StreamInOrder |
| tokenizer_apostrophe | MCUnicodeTokenizer, UnicodeTokenizerApostrophe | the comment at unicode_tokenizer.rs:112 is not what the code does (a violation) |

Bounds, and why they are enough:

- *index_safety*: two threads, one identifier, four calls, one fault; batches
  of none, two good, and a good and a bad document.  Every property is about
  at most two calls and a third that commits or reads, except ReadsOneVersion,
  which needs all four: add, commit, then a read that a delete overtakes.
  Two threads outside a method are interchangeable (`Symmetry`), and the locals
  of a thread outside a method are dead (`LiveState`).
- *index_live*: no symmetry and no view; two calls, two faults.  A reader falls
  behind with one commit and one background reload that began before it, and a
  mutex stays taken, or poisoned, after one fault.
- *typed_lock*: two coroutines that share the one thread of a dispatcher and a
  coroutine on IO, with two IO threads; four calls, so that somebody can call
  again after a close; blocks of up to two native calls.  The proofs are for
  any number of each.
- *typed_index*: two clients, two identifiers, three operations, two faults; an
  upsert that fails after its delete, a retry of it and a third operation
  beside them, or a commit and two deaths.  Two native calls for each operation
  (`EnoughCalls`), so the bound on calls never cuts a block short.
- *document_codec*: documents of up to three values of sixteen, over seven
  fields and one unknown name.  Eight bits (`MaxLong` is 127) stand for 64, two
  nanoseconds for a microsecond's thousand and two microseconds for a second's
  million: what matters is that a long's maximum, an overflow in either
  direction, and two moments of one second before and after 1970 are among the
  values.  *document_codec_delete* has only the two texts among them.
- *query_dsl*: two nodes around a leaf, and a third for the filter, which is
  enough for a filter of negations inside a negation; a limit of 12 stands for
  serde_json's 128 and is met by the deepest of these.  Ranges over numbers,
  texts, facets, bytes and truth values; query strings that name known and
  unknown fields, as defaults and in their text.
- *read_paths*: versions of up to four documents, lists of up to two
  identifiers, limits and offsets from -1 to 3.
- *schema_declaration*: every two schemas of up to two fields, from fifteen
  fields that differ pairwise in one option.
- *open_index*: two threads, one shared builder and a private one each, one
  directory, schemas of up to two fields, three calls, two faults.
- *tokenizer*: every text of up to four characters over all nine classes, and
  of up to six over letters, apostrophes and dashes.  The rules look at a
  character and its neighbours, and a compound of three parts with a double
  dash needs six.  A second stream follows texts of up to three letters,
  ideographs and spaces, at whatever token the first was left.

Deadlock is not checked (`CHECK_DEADLOCK FALSE`): every model bounds the calls
ever made, and stops when they are used up.

Fairness: `FairSpec` of TantivyIndex is weak fairness of each thread's
statements: a thread the scheduler runs goes on.  `std::sync::Mutex` is not
fair, but a call makes finitely many statements and calls are bounded, so
nobody is overtaken for ever within the bound.  The engine's watcher polls the
index's meta file, so it loads as long as the reader is behind the last commit,
and a reload it began it finishes; that such a reload fails is not modelled.
`FairSpec` of TypedIndexLock is weak fairness of each actor's steps: dispatchers
run what is queued, native calls end.  Nothing makes a call start, fail or be
cancelled.  The liveness of the lock also needs a thread of IO that no caller of
close() on IO blocks (`SpareWorkerAssumption`): close() waits for work that must
run there.

The findings, each a run that is expected to be violated:

- *tokenizer_apostrophe*: the comment says apostrophe-like characters in the
  middle of a token are dropped, and the list of these characters contains
  U+02BC and U+02B9, which are also letters.  In the text letter, U+02BC, ',
  letter the first is kept, because the character after it is no letter.
- *document_codec_delete*: "Deletes documents whose [field] equals [value]".
  The delete goes by an indexed term, and a tokenized text has those of its
  words: of a document with the body "blue Bottle", the value "blue" deletes it
  and the whole text does not.  FoundByItsValues states what does hold.

Three more documents say of queries what the code does not do; the properties
of QueryDsl state what holds instead, so no runs are spent on them:

- toJson "must stay byte-level compatible with what serde deserializes"
  (TantivyQuery.kt:11); an F64 that is not finite, in a Term or a Range, is
  written as a bare NaN or Infinity, which serde_json refuses.
  KotlinIsUnderstood excepts it.
- "serde is strict: an unknown key, a wrong tag, or "slop": null ... all fail
  to deserialize" (TantivyQueryDslTest.kt:25); unknown keys are skipped and a
  null is an absent optional.  Because of that KotlinIsUnderstood demands that
  Kotlin writes neither.
- "Queries reference fields by name and are validated by the Rust parser at
  search time" (the repository's README.md:83); default fields of a query string that the schema
  does not have are dropped (lib.rs:729-732), and so are such names in its text
  (lib.rs:915).  UnknownNamesFindNothing says what becomes of such a query.

## 4. The theorems

Each theorem is for every value of the module's constants: any number of
threads, clients, identifiers, documents, batches, fields, versions and faults.
The runs show the same properties on the instances above.

| Module | Theorem | States |
|---|---|---|
| `TypedIndexLock_proof` | TypeCorrect, LockSafety, HandleSafety, CloseIsFinal | TypeOK, LockNeverLost, NoUseAfterDestroy, ClosedIsFinal |
| | Refinement | ImplementsSerialHandle |
| `TantivyIndex_proof` | TypeCorrect, LockDiscipline, CommitsAreSeen | TypeOK, WritesHoldTheLock, ReadYourCommits |
| | RejectionIsClean, BatchesAreWhole, PoisonIsFinal, ReadsAreSnapshots | RejectedCallLeavesNothing, CommitsWholeBatches, PoisonFreezes, ReadsOneVersion |
| | Refinement | ImplementsAtomicIndex |
| `OpenIndex_proof` | TypeCorrect, LocksMatchWriters, SchemasStay, BuildersAreUsedOnce | TypeOK, LockMatchesWriters, SchemaInUseStays, BuilderIsUsedOnce |
| `TypedIndex_proof` | TypeCorrect, OperationsAreWhole, FailuresStayHome | TypeOK, BlocksAreWhole, FailureIsContained |
| | PromisesHold, UpsertsReplace | AcknowledgedIsDurable, OneIdentity |
| `Descriptions_proof` | FingerprintsAreComplete, WritersMatch | FingerprintTellsOptions, WriterMatchesIndex |
| | KotlinSpeaksRust, UnknownNamesVanish | KotlinIsUnderstood, UnknownNamesFindNothing |
| | FiltersSplit, RangesTile | FilterSplits, HalfOpenRangesTile |
| `Documents_proof` | RoundTrip, TypedDocumentsRead, ValuesFind | ReadsBackWhatWasWritten, TypedDocumentsAreReadable, FoundByItsValues |
| | PagingIsComplete, IdsAreFound, ErrorsTell | PagesTile, AllIdsFound, ErrorsAreExact |
| `UnicodeTokenizer_proof` | TokensMatchReference, StreamsInOrder | MatchesReference, StreamInOrder |

`Documents_proof` is about DocumentCodec and ReadPaths, `Descriptions_proof`
about SchemaDeclaration and QueryDsl.  `Selection_proof` holds the lemmas they
share with UnicodeTokenizer_proof, on selections and on loops.  Each module has
an inductive invariant (`IInv`; `CodecIInv`, `ReadIInv`, `SchemaIInv`,
`QueryIInv` where one module is about two), a lemma for each kind of step, and
its theorems from that.  How the arguments go:

*TypedIndexLock.*  The invariant is TypeOK, LockNeverLost and CloseInv.
LockNeverLost needs its second half, that the queue holds each waiter once
and only waiters, because Unlock hands the mutex to the head of the queue and
Cancel takes a waiter out of its middle.  CloseInv ties `destroyed` to `closed`
and keeps blocks out once it is set.  Safety needs no assumption on the size
of the pool.

*TantivyIndex.*  The invariant says what the rest of a running method looks
like: a statement that writes is reached only by the holder or after a "lock"
still in `todo` (LockShape), a "reload" follows every "commit" before the
method ends (ReloadShape), and the documents of the argument not yet added are
the "add" statements left (AddShape).  Because `todo` is data, the bodies of
the methods are shown to have these shapes once (MethodBodies), and each
statement keeps them.  To that the other properties add one part each:

- BatchInv: once a call has added a document, only additions are left of it.
  So nothing it does commits, and the mutex keeps the others from it.
- PartInv: a call with only a part of its batch staged is still adding, or was
  told of an error, or has poisoned the mutex, which nobody commits through.
- PoisonInv: a poisoned mutex is free, and nobody takes it again.
- CallInv: running calls have numbers of their own, and a call that still has
  something to convert has left nothing behind; a rejection happens at a
  "convert".
- ViewInv: the hits a searcher holds are of the version it was taken on; commits
  only add versions.

The refinement maps the working set of `AtomicIndex` to
`Live(LastCommit, log)`.  Lemmas say what staging one addition, one
deletion or a clear does to Live; a commit keeps it, because nothing is left to
apply.

*TypedIndex.*  `P == INSTANCE TantivyIndex_proof WITH Callers <- Clients` gives
the native theorems for the same variables: every step of TypedIndex is a
native step or leaves the native variables alone (NativeNext), so the native
invariant holds here too.  HolderInv, that the holder of the writer is inside
the native object, makes blocks exclusive all the way down.  Then one client at
a time decides what the index holds, and BlockInv follows him: in each phase of
a block (Starting, Taking, Adding, Publishing, Threw) what is pending and what
is committed is written as a function of the index the block found and of the
statements left.  BlocksAreWhole and FailureIsContained are its last phases.
KeptInv says that what callers count on is pending as well as committed and
that no native call about to delete names any of it; without the first half
a commit would lose it, without the second a delete that has begun.  OneInv says that
the documents an upsert-only identifier has are never two, in the working set
and in every version; upsert adds only to what its own delete has left, which
is BlockInv again.

ReadYourCommits is an action property.  A "reload" is the last statement after
every "commit" and runs under the mutex, so the reader is on the newest version
in the step that returns Ok; apart from a restart only BackgroundPublish takes
it anywhere else.

*OpenIndex.*  The properties speak of objects that are finished, so the
invariant adds what a call on its way to one has secured: its number and its
object are its own (CallInv), its directory is there and, where nobody raced,
the index with its schema (DiskInv), and a builder that gave its fields away
cannot give them again (SourceInv).  Between looking and making a call has
secured nothing; MakersInv says that, where nobody raced, all calls there agree
on the schema, with each other and with the index one of them has made since.

*SchemaDeclaration.*  Kind by kind, equal fingerprints of two fields mean equal
entries (PrintTells); sorting does not matter, as a fingerprint is taken apart
as a set.  DiskInv: what is on disk is what each schema that opened it
registers.

*QueryDsl.*  Each of the fifteen kinds of node has a lemma (TermRead and the
others) that puts what Kotlin writes of it beside the tables of the Rust types:
no key is missing, skipped or null, and its values are those of the Kotlin node
(`Becomes`).  A text that serde_json can parse has no bare word on any level, so
the numbers in it are numbers (WellFormedIsFinite).  QueryIInv carries this
along the way of a query, and KotlinIsUnderstood follows node
by node, and so does NamesAreChecked, the first half of UnknownNamesFindNothing.
For the second, two trees whose nodes find the same, one by one, find the same
(SameFinds), and a query string whose names are all unknown finds what an Empty
does (UnknownFinds).  For what is found, the loop over the nodes has a history
(SearchHistory); trees that begin with the same nodes find the same up to there
(SamePrefix), a query string finds the same wherever it is (TextAnywhere), and
so a filter finds inside searchText what it finds alone (WithFilter).
HalfOpenRangesTile is arithmetic on the places of the terms of one field, which
to_query has made sure are of the kind of the bounds.

*DocumentCodec.*  EngineInv gives what the engine holds as a function of the
fields: the stored entries are the values at the positions that are kept, in
order, and the terms those of the known fields.  Reading one field back is then
a selection from a selection (SelectedTwice), and one value comes back because
wrapping keeps what fits (WrapKeeps) and dividing undoes multiplying
(QuotientOfProduct).  The width of an integer is a constant.

*ReadPaths.*  A pager whose index did not change has exactly the first `offset`
hits; one page continues them (PageContinues).  getDocs asks for as many
hits as it has identifiers, and there are no more hits than that when no two
documents share one (FewHits, by counting).

*UnicodeTokenizer.*  The work is in showing, for every text, that the passes
compute the reference.  A loop is a recursive function on the positions of what
it goes over.  The prover has no induction over data, but the argument needs
none: a claim about the first i steps that fails would fail at a least i, which
exists by the well-foundedness of the natural numbers (Least), and neither the
beginning nor a step is that one (Upwards, Iterate).  Each pass is then
described by a relation between alphanumeric characters that links
neighbours: WordLinks what the scan of a word keeps together, Bonds what belongs
to one token of the reference, Links also what belongs to one compound.
`Blocks` says that tokens are, in order, the longest linked spans of a stretch
of the text, and each pass makes the blocks of its relation (SplitBlocks,
MergedBlocks, TokensOfText), because one more character, or one more token,
either opens a block or lengthens the last one (BlockAdded, BlockJoined).  Two
longest spans that share a character are equal (SpansMeet), so that the blocks
of the whole text are the reference's (WholeText).  StreamsInOrder is the
invariant that what was handed out and what is pending are together the tokens
of the text, and that the position has counted on, wrapping, since the stream
was opened.

What the proofs found in the models: in ReadPaths two definitions by CASE had
alternatives that overlapped, so their value was whichever the checker tried
first; they are IFs now, in the order of the code.  DocumentCodec
used a width in bits where only the largest long mattered, and relied on
every text being indexed without saying so.  In QueryDsl, HalfOpenRangesTile said
that no document is in two ranges that touch.  That is false of a field with
several values, which add_field_value allows: the instance had none.  The
property now says what is true, and the instance has such a document.

The proofs rest on the assumptions the modules name, which TLC evaluates on
every run, and nothing else:

- marks are no data: Free and None are no thread, BadKey is no identifier,
  unknown names are not in the schema (CallersAssumption, KeysAssumption,
  MarksAssumption, NoneAssumption, DisjointAssumption, SchemaAssumption);
- data has its type: batches, field specifications, values, versions and
  arguments (BatchesAssumption, SpecsAssumption, ValuesAssumption,
  VersionsAssumption, ArgumentsAssumption); bounds are numbers;
- there are native calls enough for each typed operation (EnoughCalls), so a
  bound never cuts a block short;
- characters and texts: an alphanumeric character is no dash and no
  punctuation that counts as an apostrophe (ClassesAssumption), a text is a
  sequence of characters (TextsAssumption), the counter of positions has some
  width (PositionAssumption);
- what a query is made of has the types Kotlin gives it, bounds of any
  `TantivyValue` included (LeavesAssumption); a word of a query string names one
  field or none (WordsAssumption); the terms of a numeric field are numbers
  (DocsAssumption), and the engine has a place for every other term and bound but
  JSON (RankAssumption);
- every text field is indexed (TextAssumption), as add_text_field always sets
  indexing options; a microsecond is some nanoseconds and a second some
  microseconds (TimeAssumption).

What is only model-checked:

- EveryCallReturns, of the native index and of the lock, and BehindIsTemporary:
  liveness under fairness is outside what the prover does.
- DashesAreOptional.  It compares the tokens of two texts, one of which is a
  selection by SelectSeq, which has no definition the prover can expand; and it
  speaks of texts with modifier letters too, to which the reference does not
  apply.
- The two findings, which are counterexamples.

## 5. Not modelled

Not modelled: the build and release scripts, Gradle files, the binding
generator and the smoke applications, which keep no state of the program; the
engine's segments, merges and scoring; wording and formatting.

Of the modelled parts, left out: the engine's edit distances, slop, patterns
and its grammar of query strings beyond words and the fields they name; fields made by hand whose value is of
another kind than the field; JSON terms beyond their rejection; searches of
fields that are not indexed; names with the separators of the fingerprint in
them; the test hooks of the lock.
