----------------------------- MODULE OpenIndex -----------------------------
(***************************************************************************)
(* Opening an index: the schema builder that can be used once              *)
(* (TantivySchemaBuilder), the constructor TantivyIndex::new_with_schema   *)
(* of rust/tantivy/src/lib.rs, and TypedTantivyIndex.open and close, which *)
(* call them from coroutines.                                              *)
(*                                                                         *)
(* Threads share directories and, through the generated API, builders.     *)
(* Every call to open is a sequence of steps, any of which may fail; what  *)
(* the steps before it did to the builder and the directory stays done.    *)
(*                                                                         *)
(* The engine (crate tantivy) is external: a directory holds at most one   *)
(* index, with the schema in its meta.json, and a writer owns the          *)
(* directory's lock, which the operating system frees when its process     *)
(* dies.  open_or_create looks for an index and, when there is none,       *)
(* writes the meta.json of a new one, in two steps and under no lock.      *)
(***************************************************************************)
EXTENDS Naturals, Sequences, FiniteSets

CONSTANTS Threads,   \* threads and coroutines that open indexes
          Builders,  \* builders shared through the generated API
          Paths,     \* directories
          Names,     \* field names
          Options,   \* what a field is declared with: its kind and options
          None,      \* nobody, nothing
          MaxFields, \* bound on the fields of a schema
          MaxOpens,  \* bound on the calls of open ever made
          MaxFaults  \* bound on I/O and engine errors, cancellations, deaths

ASSUME DisjointAssumption == Threads \cap Builders = {}
ASSUME BoundsAssumption ==
  MaxFields \in Nat \ {0} /\ MaxOpens \in Nat /\ MaxFaults \in Nat

Field == [name : Names, options : Options]

SchemaUpTo(n) == UNION {[1..k -> Field] : k \in 0..n}

\* TantivySchemaScope.build: at least one field, and no name twice.
Declared == {s \in SchemaUpTo(MaxFields) :
               /\ s # <<>>
               /\ \A i, j \in DOMAIN s : s[i].name = s[j].name => i = j}

\* Calls are numbered; the number also names the native object it makes.
Call == 1..MaxOpens

\* What the running call of a thread is about, and what a native object is.
OpenCall == [n : Call, path : Paths, builder : Builders \cup Threads,
             schema : SchemaUpTo(MaxFields)]
NativeIndex == [path : Paths, schema : SchemaUpTo(MaxFields)]

ASSUME NoneAssumption ==
  None \notin Call \cup Builders \cup Threads \cup OpenCall \cup NativeIndex

VARIABLES
  builder,  \* per builder: whether it can be used, and its fields
  disk,     \* per path: whether it is there, holds an index, and its schema
  lock,     \* per path: the call whose writer has the lock, or None
  at,       \* per thread: the step its call of open is at, or "idle"
  open,     \* per thread: number, path, builder and schema of its call
  owned,    \* native objects that a caller holds
  orphans,  \* native objects that nobody can close any more
  made,     \* per call: path and schema of the native object it made
  calls,    \* calls of open made so far
  faults,   \* faults so far
  sources,  \* auxiliary, per call: the builder it took its schema from, or None
  raced     \* auxiliary: paths where calls with two schemas found no index at once

aux == <<sources, raced>>
vars == <<builder, disk, lock, at, open, owned, orphans, made, calls, faults, aux>>

Steps == {"idle", "directory", "create", "take", "index", "make", "writer",
          "reader", "return"}

\* TantivySchemaBuilder::new.
Fresh == [state |-> "usable", fields |-> <<>>]

\* Every thread also has a builder of its own, for TantivySchema.newBuilder.
Init ==
  /\ builder = [b \in Builders \cup Threads |-> Fresh]
  /\ disk = [p \in Paths |-> [state |-> "absent", schema |-> <<>>]]
  /\ lock = [p \in Paths |-> None]
  /\ at = [t \in Threads |-> "idle"]
  /\ open = [t \in Threads |-> None]
  /\ owned = {} /\ orphans = {}
  /\ made = [n \in Call |-> None]
  /\ calls = 0 /\ faults = 0
  /\ sources = [n \in Call |-> None] /\ raced = {}

-----------------------------------------------------------------------------
(* The schema builder *)

\* A builder after an add_*_field call.  A builder that was taken ignores the
\* call.  A name it has already makes the engine panic, which poisons the
\* mutex; from then on every call panics.
Added(bld, f) ==
  IF bld.state # "usable" THEN bld
  ELSE IF \E i \in DOMAIN bld.fields : bld.fields[i].name = f.name
       THEN [bld EXCEPT !.state = "poisoned"]
       ELSE [bld EXCEPT !.fields = Append(@, f)]

add_field(b, f) ==
  /\ Len(builder[b].fields) < MaxFields
  /\ builder' = [builder EXCEPT ![b] = Added(@, f)]
  /\ UNCHANGED <<disk, lock, at, open, owned, orphans, made, calls, faults, aux>>

-----------------------------------------------------------------------------
(* new_with_schema *)

Begin(t, p, b) ==
  /\ at[t] = "idle"
  /\ calls < MaxOpens
  /\ calls' = calls + 1
  /\ at' = [at EXCEPT ![t] = "directory"]
  /\ open' = [open EXCEPT ![t] = [n |-> calls + 1, path |-> p, builder |-> b,
                                  schema |-> <<>>]]

new_with_schema(t, p, b) ==
  /\ Begin(t, p, b)
  /\ UNCHANGED <<builder, disk, lock, owned, orphans, made, faults, aux>>

\* TantivySchema.newBuilder: a fresh builder with every field registered.
newBuilder(s) == [state |-> "usable", fields |-> s]

\* TypedTantivyIndex.open: a builder of its own for every call.
open_typed(t, p, s) ==
  /\ Begin(t, p, t)
  /\ builder' = [builder EXCEPT ![t] = newBuilder(s)]
  /\ UNCHANGED <<disk, lock, owned, orphans, made, faults, aux>>

GoTo(t, step) == at' = [at EXCEPT ![t] = step]

\* MmapDirectory::open, first attempt; any error of it leads to the second.
OpenDirectory(t) ==
  /\ at[t] = "directory"
  /\ GoTo(t, IF disk[open[t].path].state = "absent" THEN "create" ELSE "take")
  /\ UNCHANGED <<builder, disk, lock, open, owned, orphans, made, calls, faults, aux>>

\* create_dir_all and the second attempt.
CreateDirectory(t) ==
  /\ at[t] = "create"
  /\ disk' = [disk EXCEPT ![open[t].path].state = IF @ = "absent" THEN "empty" ELSE @]
  /\ GoTo(t, "take")
  /\ UNCHANGED <<builder, lock, open, owned, orphans, made, calls, faults, aux>>

\* Mutant: the schema is built from a copy.
BuildFromCopy(t) ==
  LET b == open[t].builder
  IN /\ at[t] = "take"
     /\ open' = [open EXCEPT ![t].schema = builder[b].fields]
     /\ sources' = [sources EXCEPT ![open[t].n] = b]
     /\ GoTo(t, "index")
     /\ UNCHANGED <<builder, disk, lock, owned, orphans, made, calls, faults, raced>>

\* take_and_build: only the first caller gets the fields.
take_and_build(t) ==
  LET b == open[t].builder
  IN /\ at[t] = "take"
     /\ IF builder[b].state = "usable"
        THEN /\ builder' = [builder EXCEPT ![b].state = "taken"]
             /\ open' = [open EXCEPT ![t].schema = builder[b].fields]
             /\ sources' = [sources EXCEPT ![open[t].n] = b]
             /\ GoTo(t, "index")
        ELSE /\ GoTo(t, "idle")
             /\ UNCHANGED <<builder, open, sources>>
     /\ UNCHANGED <<disk, lock, owned, orphans, made, calls, faults, raced>>

Holding(schema) == [state |-> "index", schema |-> schema]

\* Another call, with another schema, is about to make an index where this one
\* finds none.
Races(t) == \E u \in Threads : /\ at[u] = "make" /\ open[u].path = open[t].path
                               /\ open[u].schema # open[t].schema

\* Mutant: a call makes its index without looking for one.
CreateAlways(t) ==
  /\ at[t] = "index"
  /\ GoTo(t, "make")
  /\ raced' = IF Races(t) THEN raced \cup {open[t].path} ELSE raced
  /\ UNCHANGED <<builder, disk, lock, open, owned, orphans, made, calls, faults, sources>>

\* Index::open_or_create looks for an index.  One that is there must have this
\* very schema.
OpenOrCreate(t) ==
  LET found == disk[open[t].path]
  IN /\ at[t] = "index"
     /\ IF found.state = "index"
        THEN /\ GoTo(t, IF found.schema = open[t].schema THEN "writer" ELSE "idle")
             /\ UNCHANGED raced
        ELSE /\ GoTo(t, "make")
             /\ raced' = IF Races(t) THEN raced \cup {open[t].path} ELSE raced
     /\ UNCHANGED <<builder, disk, lock, open, owned, orphans, made, calls, faults, sources>>

\* It found none and makes one, whatever others have made there since.
CreateIndex(t) ==
  /\ at[t] = "make"
  /\ disk' = [disk EXCEPT ![open[t].path] = Holding(open[t].schema)]
  /\ GoTo(t, "writer")
  /\ UNCHANGED <<builder, lock, open, owned, orphans, made, calls, faults, aux>>

\* Index::writer does not wait for a lock that somebody has.
CreateWriter(t) ==
  LET p == open[t].path
  IN /\ at[t] = "writer"
     /\ IF lock[p] = None
        THEN /\ lock' = [lock EXCEPT ![p] = open[t].n]
             /\ GoTo(t, "reader")
        ELSE /\ GoTo(t, "idle")
             /\ UNCHANGED lock
     /\ UNCHANGED <<builder, disk, open, owned, orphans, made, calls, faults, aux>>

\* Index::reader, and the native object is made.
CreateReader(t) ==
  /\ at[t] = "reader"
  /\ made' = [made EXCEPT ![open[t].n] = [path |-> open[t].path, schema |-> open[t].schema]]
  /\ GoTo(t, "return")
  /\ UNCHANGED <<builder, disk, lock, open, owned, orphans, calls, faults, aux>>

\* The caller gets the object.
Deliver(t) ==
  /\ at[t] = "return"
  /\ owned' = owned \cup {open[t].n}
  /\ GoTo(t, "idle")
  /\ UNCHANGED <<builder, disk, lock, open, orphans, made, calls, faults, aux>>

\* Steps that can fail.
Fallible == {"directory", "create", "index", "make", "writer", "reader"}

\* Mutant: a writer that has no reader to go with it keeps the lock.
FailKeepsLock(t) ==
  /\ faults < MaxFaults
  /\ at[t] \in Fallible
  /\ faults' = faults + 1
  /\ GoTo(t, IF at[t] = "directory" THEN "create" ELSE "idle")
  /\ UNCHANGED <<builder, disk, lock, open, owned, orphans, made, calls, aux>>

\* A step fails with an I/O or engine error.  A directory that cannot be opened
\* is tried again; any other failure is the call's.  The writer, if there is
\* one, is dropped; the builder stays taken and the directory stays as it is.
Fail(t) ==
  /\ faults < MaxFaults
  /\ at[t] \in Fallible
  /\ faults' = faults + 1
  /\ GoTo(t, IF at[t] = "directory" THEN "create" ELSE "idle")
  /\ lock' = IF at[t] = "reader" THEN [lock EXCEPT ![open[t].path] = None] ELSE lock
  /\ UNCHANGED <<builder, disk, open, owned, orphans, made, calls, aux>>

\* The coroutine of TypedTantivyIndex.open is cancelled before the hop back
\* from IO: withContext drops the object and nobody can close it.
Abandon(t) ==
  /\ faults < MaxFaults
  /\ at[t] = "return" /\ open[t].builder = t
  /\ faults' = faults + 1
  /\ orphans' = orphans \cup {open[t].n}
  /\ GoTo(t, "idle")
  /\ UNCHANGED <<builder, disk, lock, open, owned, made, calls, aux>>

-----------------------------------------------------------------------------
(* The life and end of a native object *)

\* A commit writes the meta.json with the schema of its object.
commit(n) ==
  /\ n \in owned
  /\ disk' = [disk EXCEPT ![made[n].path] = Holding(made[n].schema)]
  /\ UNCHANGED <<builder, lock, at, open, owned, orphans, made, calls, faults, aux>>

\* Its writer is dropped and frees the lock.
Drop(n) == /\ lock' = [lock EXCEPT ![made[n].path] = None]
           /\ made' = [made EXCEPT ![n] = None]

\* Mutant: an object can be closed again.
CloseForgets(n) ==
  /\ n \in owned
  /\ Drop(n)
  /\ UNCHANGED <<builder, disk, at, open, owned, orphans, calls, faults, aux>>

close(n) ==
  /\ n \in owned
  /\ owned' = owned \ {n}
  /\ Drop(n)
  /\ UNCHANGED <<builder, disk, at, open, orphans, calls, faults, aux>>

\* The garbage collector finds an orphan and its cleaner destroys the object.
Collect(n) ==
  /\ n \in orphans
  /\ orphans' = orphans \ {n}
  /\ Drop(n)
  /\ UNCHANGED <<builder, disk, at, open, owned, calls, faults, aux>>

\* The process dies and another starts.
ProcessDeath ==
  /\ faults < MaxFaults
  /\ faults' = faults + 1
  /\ builder' = [b \in Builders \cup Threads |-> Fresh]
  /\ lock' = [p \in Paths |-> None]
  /\ at' = [t \in Threads |-> "idle"]
  /\ owned' = {} /\ orphans' = {}
  /\ made' = [n \in Call |-> None]
  /\ sources' = [n \in Call |-> None]
  /\ UNCHANGED <<disk, open, calls, raced>>

-----------------------------------------------------------------------------
Step(t) ==
  \/ OpenDirectory(t) \/ CreateDirectory(t) \/ take_and_build(t)
  \/ OpenOrCreate(t) \/ CreateIndex(t) \/ CreateWriter(t) \/ CreateReader(t)
  \/ Deliver(t)

Next ==
  \/ \E b \in Builders, f \in Field : add_field(b, f)
  \/ \E t \in Threads, p \in Paths :
       \/ \E b \in Builders : new_with_schema(t, p, b)
       \/ \E s \in Declared : open_typed(t, p, s)
  \/ \E t \in Threads : Step(t) \/ Fail(t) \/ Abandon(t)
  \/ \E n \in Call : commit(n) \/ close(n) \/ Collect(n)
  \/ ProcessDeath

Spec == Init /\ [][Next]_vars

-----------------------------------------------------------------------------
(* Properties *)

\* Native objects that exist, and calls that have made a writer for one.
Live == {n \in Call : made[n] # None}
Writing == {t \in Threads : at[t] \in {"reader", "return"}}

\* Every variable has its type, and the objects that callers hold or have lost
\* exist.
TypeOK ==
  /\ builder \in [Builders \cup Threads ->
                    [state : {"usable", "taken", "poisoned"},
                     fields : SchemaUpTo(MaxFields)]]
  /\ disk \in [Paths -> [state : {"absent", "empty", "index"},
                         schema : SchemaUpTo(MaxFields)]]
  /\ lock \in [Paths -> Call \cup {None}]
  /\ at \in [Threads -> Steps]
  /\ open \in [Threads -> OpenCall \cup {None}]
  /\ made \in [Call -> NativeIndex \cup {None}]
  /\ sources \in [Call -> Builders \cup Threads \cup {None}]
  /\ raced \subseteq Paths
  /\ owned \cup orphans \subseteq Live /\ owned \cap orphans = {}
  /\ calls \in 0..MaxOpens /\ faults \in 0..MaxFaults

\* The lock of a directory is taken exactly while one native object, or one
\* call about to make it, has its writer: no early return of new_with_schema,
\* lost result or close() leaves the directory locked or frees another's lock.
LockMatchesWriters ==
  \A p \in Paths :
    LET writers == {n \in Live : made[n].path = p}
                     \cup {open[t].n : t \in {t \in Writing : open[t].path = p}}
    IN  writers = IF lock[p] = None THEN {} ELSE {lock[p]}

\* An object in use has the schema of the index in its directory, whatever
\* other calls try to open the directory with and wherever they are when it is
\* opened, unless two calls with different schemas were past looking for an
\* index there, and had found none, at the same time: what the second of them
\* makes replaces the index of the first, in use or not.
SchemaInUseStays ==
  \A n \in Live : made[n].path \notin raced =>
                   disk[made[n].path] = Holding(made[n].schema)

\* The fields of one builder never reach two calls, even when two threads pass
\* it to new_with_schema at once.
BuilderIsUsedOnce ==
  \A m, n \in Call : sources[m] \in Builders /\ sources[m] = sources[n] => m = n
=============================================================================
