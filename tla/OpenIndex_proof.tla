-------------------------- MODULE OpenIndex_proof ---------------------------
(***************************************************************************)
(* Proofs about OpenIndex, for any threads, builders, directories, field   *)
(* declarations and bounds.                                                *)
(*                                                                         *)
(* The properties speak of finished objects; the invariant adds what a     *)
(* call on its way to one has secured: CallInv (its number is its own, and *)
(* its object exists from the reader on), DiskInv (the directory it found  *)
(* or made and, where nobody raced, the index with its schema), MakersInv  *)
(* (where nobody raced, calls about to make an index would all make the    *)
(* same) and SourceInv (a builder that gave its fields away cannot give    *)
(* them again).                                                            *)
(***************************************************************************)
EXTENDS OpenIndex, SequenceTheorems, TLAPS

Running(t) == at[t] # "idle"

\* Calls have numbers of their own, and an object that is still being made or
\* returned is in nobody's hands.
CallInv ==
  /\ \A t \in Threads : Running(t) =>
       open[t] # None /\ open[t].n <= calls /\ open[t].n \notin owned \cup orphans
  /\ \A t, u \in Threads : Running(t) /\ Running(u) /\ open[t].n = open[u].n => t = u
  /\ \A n \in Live : n <= calls
  /\ \A t \in Threads : at[t] = "return" =>
       made[open[t].n] = [path |-> open[t].path, schema |-> open[t].schema]
  /\ \A t \in Threads : at[t] \notin {"idle", "return"} => made[open[t].n] = None

\* A directory that was found stays; where nobody raced, so does an index with
\* the schema of a call.
DiskInv == \A t \in Threads :
  /\ at[t] \in {"take", "index", "make"} => disk[open[t].path].state # "absent"
  /\ at[t] \in {"writer", "reader", "return"} /\ open[t].path \notin raced =>
       disk[open[t].path] = Holding(open[t].schema)

\* Where nobody raced, calls that found no index agree on the schema with each
\* other and with the index that one of them has made since.
MakersInv == \A t \in Threads :
  at[t] = "make" /\ open[t].path \notin raced =>
    /\ disk[open[t].path].state = "index" => disk[open[t].path] = Holding(open[t].schema)
    /\ \A u \in Threads :
         at[u] = "make" /\ open[u].path = open[t].path => open[u].schema = open[t].schema

\* A builder from which a schema was taken is no longer usable.
SourceInv == \A n \in Call : sources[n] \in Builders => builder[sources[n]].state # "usable"

IInv == /\ TypeOK /\ CallInv /\ LockMatchesWriters
        /\ DiskInv /\ MakersInv /\ SchemaInUseStays
        /\ SourceInv /\ BuilderIsUsedOnce

-----------------------------------------------------------------------------
(* Field lists *)

\* No fields are a list of fields, and one more is a list while there is room.
LEMMA FieldLists ==
  /\ <<>> \in SchemaUpTo(MaxFields)
  /\ \A s \in SchemaUpTo(MaxFields), f \in Field :
       Len(s) < MaxFields => Append(s, f) \in SchemaUpTo(MaxFields)
<1>1. <<>> \in [1..0 -> Field] /\ 0 \in 0..MaxFields
  BY BoundsAssumption
<1>2. ASSUME NEW s \in SchemaUpTo(MaxFields), NEW f \in Field, Len(s) < MaxFields
      PROVE  Append(s, f) \in SchemaUpTo(MaxFields)
  <2>1. PICK k \in 0..MaxFields : s \in [1..k -> Field]
    BY DEF SchemaUpTo
  <2>2. s \in Seq(Field) /\ Len(s) = k
    BY <2>1
  <2>3. k + 1 \in 0..MaxFields
    BY <1>2, <2>2, BoundsAssumption
  <2>4. Append(s, f) \in [1..(k + 1) -> Field]
    <3>1. Append(s, f) \in Seq(Field) /\ Len(Append(s, f)) = k + 1
      BY <2>2
    <3> QED BY <3>1, LenProperties
  <2> QED BY <2>3, <2>4 DEF SchemaUpTo
<1> QED BY <1>1, <1>2 DEF SchemaUpTo

\* A builder stays a builder when a field is added, and never becomes usable.
LEMMA AddedBuilder ==
  ASSUME NEW b \in [state : {"usable", "taken", "poisoned"}, fields : SchemaUpTo(MaxFields)],
         NEW f \in Field, Len(b.fields) < MaxFields
  PROVE  /\ Added(b, f) \in [state : {"usable", "taken", "poisoned"},
                             fields : SchemaUpTo(MaxFields)]
         /\ b.state # "usable" => Added(b, f).state # "usable"
<1>1. Append(b.fields, f) \in SchemaUpTo(MaxFields)
  BY FieldLists
<1> QED BY <1>1 DEF Added

\* A call in progress has the parts of a call.
LEMMA OpenParts ==
  ASSUME IInv, NEW t \in Threads, Running(t)
  PROVE  /\ open[t] \in OpenCall
         /\ open[t].n \in Call /\ open[t].path \in Paths
         /\ open[t].builder \in Builders \cup Threads
         /\ open[t].schema \in SchemaUpTo(MaxFields)
<1>1. open[t] \in OpenCall
  BY DEF IInv, TypeOK, CallInv
<1> QED BY <1>1 DEF OpenCall

-----------------------------------------------------------------------------
(* Types *)

\* Every step keeps the types.
LEMMA TypeStep == ASSUME IInv, [Next]_vars PROVE TypeOK'
<1> USE BoundsAssumption DEF Live, aux
<1>1. ASSUME NEW b \in Builders, NEW f \in Field, add_field(b, f) PROVE TypeOK'
  <2>1. builder[b] \in [state : {"usable", "taken", "poisoned"}, fields : SchemaUpTo(MaxFields)]
    BY DEF IInv, TypeOK
  <2>2. Added(builder[b], f) \in [state : {"usable", "taken", "poisoned"},
                                  fields : SchemaUpTo(MaxFields)]
    BY <1>1, <2>1, AddedBuilder DEF add_field
  <2> QED BY <1>1, <2>2 DEF add_field, IInv, TypeOK
<1>2. ASSUME NEW t \in Threads, NEW p \in Paths, NEW b \in Builders \cup Threads,
             Begin(t, p, b)
      PROVE  /\ at' \in [Threads -> Steps] /\ calls' \in 0..MaxOpens
             /\ open' \in [Threads -> OpenCall \cup {None}]
  <2>1. calls + 1 \in Call
    BY <1>2 DEF Begin, Call, IInv, TypeOK
  <2>2. [n |-> calls + 1, path |-> p, builder |-> b, schema |-> <<>>] \in OpenCall
    BY <2>1, FieldLists DEF OpenCall
  <2> QED BY <1>2, <2>2 DEF Begin, IInv, TypeOK, Steps
<1>3. ASSUME NEW t \in Threads, NEW p \in Paths, NEW b \in Builders, new_with_schema(t, p, b)
      PROVE  TypeOK'
  BY <1>2, <1>3 DEF new_with_schema, IInv, TypeOK
<1>4. ASSUME NEW t \in Threads, NEW p \in Paths, NEW s \in Declared, open_typed(t, p, s)
      PROVE  TypeOK'
  <2>1. newBuilder(s) \in [state : {"usable", "taken", "poisoned"}, fields : SchemaUpTo(MaxFields)]
    BY DEF newBuilder, Declared
  <2> QED BY <1>2, <1>4, <2>1 DEF open_typed, IInv, TypeOK
<1>5. ASSUME NEW t \in Threads, OpenDirectory(t) PROVE TypeOK'
  BY SMTT(60), <1>5 DEF OpenDirectory, GoTo, IInv, TypeOK, Steps
<1>6. ASSUME NEW t \in Threads, CreateDirectory(t) PROVE TypeOK'
  <2>1. open[t].path \in Paths
    BY <1>6, OpenParts DEF CreateDirectory, Running
  <2>2. disk' \in [Paths -> [state : {"absent", "empty", "index"}, schema : SchemaUpTo(MaxFields)]]
    BY SMTT(60), <1>6, <2>1 DEF CreateDirectory, IInv, TypeOK
  <2> QED BY <1>6, <2>2 DEF CreateDirectory, GoTo, IInv, TypeOK, Steps
<1>7. ASSUME NEW t \in Threads, take_and_build(t) PROVE TypeOK'
  <2>1. Running(t)
    BY <1>7 DEF take_and_build, Running
  <2>2. open[t] \in OpenCall /\ open[t].n \in Call /\ open[t].builder \in Builders \cup Threads
    BY <2>1, OpenParts
  <2>3. builder[open[t].builder].fields \in SchemaUpTo(MaxFields)
    BY <2>2 DEF IInv, TypeOK
  <2>4. [open[t] EXCEPT !.schema = builder[open[t].builder].fields] \in OpenCall
    BY <2>2, <2>3 DEF OpenCall
  <2>5. open' \in [Threads -> OpenCall \cup {None}]
    BY SMTT(60), <1>7, <2>4 DEF take_and_build, IInv, TypeOK
  <2>6. builder' \in [Builders \cup Threads ->
                      [state : {"usable", "taken", "poisoned"}, fields : SchemaUpTo(MaxFields)]]
    <3>1. CASE builder[open[t].builder].state = "usable"
      <4>1. [builder[open[t].builder] EXCEPT !.state = "taken"]
              \in [state : {"usable", "taken", "poisoned"}, fields : SchemaUpTo(MaxFields)]
        BY <2>2 DEF IInv, TypeOK
      <4>2. builder' = [builder EXCEPT ![open[t].builder].state = "taken"]
        BY <1>7, <3>1 DEF take_and_build
      <4> QED BY <2>2, <4>1, <4>2 DEF IInv, TypeOK
    <3>2. CASE builder[open[t].builder].state # "usable"
      BY <1>7, <3>2 DEF take_and_build, IInv, TypeOK
    <3> QED BY <3>1, <3>2
  <2>7. sources' \in [Call -> Builders \cup Threads \cup {None}]
    BY <1>7, <2>2 DEF take_and_build, IInv, TypeOK
  <2> QED BY SMTT(60), <1>7, <2>5, <2>6, <2>7 DEF take_and_build, GoTo, IInv, TypeOK, Steps
<1>8. ASSUME NEW t \in Threads, OpenOrCreate(t) PROVE TypeOK'
  <2>1. open[t].path \in Paths /\ open[t].schema \in SchemaUpTo(MaxFields)
    BY <1>8, OpenParts DEF OpenOrCreate, Running
  <2>2. raced' \subseteq Paths /\ at' \in [Threads -> Steps]
    BY <1>8, <2>1 DEF OpenOrCreate, GoTo, IInv, TypeOK, Steps
  <2> QED BY <1>8, <2>2 DEF OpenOrCreate, IInv, TypeOK
<1>17. ASSUME NEW t \in Threads, CreateIndex(t) PROVE TypeOK'
  <2>1. open[t].path \in Paths /\ open[t].schema \in SchemaUpTo(MaxFields)
    BY <1>17, OpenParts DEF CreateIndex, Running
  <2>2. disk' \in [Paths -> [state : {"absent", "empty", "index"}, schema : SchemaUpTo(MaxFields)]]
    BY <1>17, <2>1 DEF CreateIndex, Holding, IInv, TypeOK
  <2> QED BY <1>17, <2>2 DEF CreateIndex, GoTo, IInv, TypeOK, Steps
<1>18. ASSUME NEW n \in Call, commit(n) PROVE TypeOK'
  <2>1. made[n].schema \in SchemaUpTo(MaxFields)
    BY <1>18 DEF commit, NativeIndex, IInv, TypeOK
  <2>2. disk' \in [Paths -> [state : {"absent", "empty", "index"}, schema : SchemaUpTo(MaxFields)]]
    BY <1>18, <2>1 DEF commit, Holding, IInv, TypeOK
  <2> QED BY <1>18, <2>2 DEF commit, IInv, TypeOK
<1>9. ASSUME NEW t \in Threads, CreateWriter(t) PROVE TypeOK'
  <2>1. open[t].path \in Paths /\ open[t].n \in Call
    BY <1>9, OpenParts DEF CreateWriter, Running
  <2> QED BY SMTT(60), <1>9, <2>1 DEF CreateWriter, GoTo, IInv, TypeOK, Steps
<1>10. ASSUME NEW t \in Threads, CreateReader(t) PROVE TypeOK'
  <2>1. open[t].path \in Paths /\ open[t].n \in Call /\ open[t].schema \in SchemaUpTo(MaxFields)
    BY <1>10, OpenParts DEF CreateReader, Running
  <2>2. [path |-> open[t].path, schema |-> open[t].schema] \in NativeIndex
    BY <2>1 DEF NativeIndex
  <2>3. made' \in [Call -> NativeIndex \cup {None}] /\ Live \subseteq Live'
    BY <1>10, <2>1, <2>2, NoneAssumption DEF CreateReader, IInv, TypeOK
  <2> QED BY <1>10, <2>3 DEF CreateReader, GoTo, IInv, TypeOK, Steps
<1>11. ASSUME NEW t \in Threads, Deliver(t) \/ Abandon(t) PROVE TypeOK'
  <2>1. at[t] = "return" /\ open[t].n \in Call /\ open[t].path \in Paths
        /\ open[t].schema \in SchemaUpTo(MaxFields)
    BY <1>11, OpenParts DEF Deliver, Abandon, Running
  <2>2. made[open[t].n] \in NativeIndex
    <3>1. made[open[t].n] = [path |-> open[t].path, schema |-> open[t].schema]
      BY <2>1 DEF IInv, CallInv
    <3> QED BY <2>1, <3>1 DEF NativeIndex
  <2>3. open[t].n \in Live /\ open[t].n \notin owned \cup orphans
    BY <2>1, <2>2, NoneAssumption DEF IInv, CallInv, Running
  <2> QED BY SMTT(60), <1>11, <2>3 DEF Deliver, Abandon, GoTo, IInv, TypeOK, Steps
<1>12. ASSUME NEW t \in Threads, Fail(t) PROVE TypeOK'
  <2>1. lock' \in [Paths -> Call \cup {None}]
    BY <1>12 DEF Fail, IInv, TypeOK
  <2> QED BY <1>12, <2>1 DEF Fail, GoTo, IInv, TypeOK, Steps
<1>13. ASSUME NEW n \in Call, close(n) \/ Collect(n) PROVE TypeOK'
  <2>1. lock' \in [Paths -> Call \cup {None}] /\ made' \in [Call -> NativeIndex \cup {None}]
        /\ \A m \in Call : m # n => made'[m] = made[m]
    BY ZenonT(60), <1>13 DEF close, Collect, Drop, IInv, TypeOK
  <2>2. owned' \cup orphans' \subseteq Live' /\ owned' \cap orphans' = {}
    BY <1>13, <2>1 DEF close, Collect, IInv, TypeOK
  <2> QED BY <1>13, <2>1, <2>2 DEF close, Collect, IInv, TypeOK
<1>14. CASE ProcessDeath
  <2>1. Fresh \in [state : {"usable", "taken", "poisoned"}, fields : SchemaUpTo(MaxFields)]
    BY FieldLists DEF Fresh
  <2> QED BY <1>14, <2>1 DEF ProcessDeath, IInv, TypeOK, Steps
<1>15. CASE UNCHANGED vars
  BY <1>15 DEF vars, IInv, TypeOK
<1> QED
  BY <1>1, <1>3, <1>4, <1>5, <1>6, <1>7, <1>8, <1>9, <1>10, <1>11, <1>12, <1>13,
     <1>14, <1>15, <1>17, <1>18 DEF Next, Step

-----------------------------------------------------------------------------
(* Calls and objects *)

\* A call that moves on without returning disturbs no call and no object.
LEMMA MoveKeepsCalls ==
  ASSUME IInv, NEW t \in Threads, Running(t), at[t] # "return",
         NEW s \in Steps, s # "return", GoTo(t, s),
         \A u \in Threads : Running(u) => open'[u] # None /\ open'[u].n = open[u].n,
         \A u \in Threads : u # t => open'[u] = open[u],
         UNCHANGED <<owned, orphans, made, calls>>
  PROVE  CallInv'
<1>1. at' = [at EXCEPT ![t] = s] /\ at \in [Threads -> Steps]
  BY DEF GoTo, IInv, TypeOK
<1>2. \A u \in Threads : Running(u)' => Running(u)
  BY <1>1 DEF Running
<1>3. \A u \in Threads : at'[u] = "return" => at[u] = "return" /\ u # t
  BY <1>1
<1>4. \A u \in Threads : at'[u] \notin {"idle", "return"} => at[u] \notin {"idle", "return"}
  BY <1>1 DEF Running
<1> QED
  BY <1>2, <1>3, <1>4 DEF IInv, CallInv, Live, Running

\* The number of a call that begins is new.
LEMMA BeginKeepsCalls ==
  ASSUME IInv, NEW t \in Threads, NEW p \in Paths, NEW b \in Builders \cup Threads,
         Begin(t, p, b), UNCHANGED <<owned, orphans, made>>
  PROVE  CallInv'
<1> DEFINE new == [n |-> calls + 1, path |-> p, builder |-> b, schema |-> <<>>]
<1>1. /\ calls \in Nat /\ calls + 1 \in Call /\ calls' = calls + 1
      /\ at' = [at EXCEPT ![t] = "directory"] /\ at \in [Threads -> Steps] /\ at[t] = "idle"
      /\ open' = [open EXCEPT ![t] = new] /\ open \in [Threads -> OpenCall \cup {None}]
  BY BoundsAssumption DEF Begin, IInv, TypeOK, Call
<1>2. new # None /\ new.n = calls + 1
  <2>1. new \in OpenCall
    BY <1>1, FieldLists DEF OpenCall
  <2> QED BY <2>1, NoneAssumption
<1>3. \A u \in Threads : /\ u # t => at'[u] = at[u] /\ open'[u] = open[u]
                         /\ u = t => at'[u] = "directory" /\ open'[u] = new
  BY <1>1
<1>4. \A n \in Live : n \in Nat /\ n <= calls
  BY DEF IInv, CallInv, Live, Call
<1>5. \A u \in Threads : Running(u) => open[u].n \in Nat /\ open[u].n <= calls
  BY OpenParts DEF IInv, CallInv, Call
<1>6. calls + 1 \notin owned \cup orphans /\ made[calls + 1] = None
  <2>1. calls + 1 \notin Live
    BY <1>1, <1>4
  <2> QED BY <1>1, <2>1 DEF Live, IInv, TypeOK
<1>7. \A u \in Threads : Running(u)' =>
        open'[u] # None /\ open'[u].n <= calls' /\ open'[u].n \notin owned' \cup orphans'
  BY <1>1, <1>2, <1>3, <1>5, <1>6 DEF IInv, CallInv, Running
<1>8. \A u, v \in Threads : Running(u)' /\ Running(v)' /\ open'[u].n = open'[v].n => u = v
  <2>1. \A u \in Threads : u # t /\ Running(u) => open[u].n # calls + 1
    BY <1>1, <1>5
  <2> QED BY <1>2, <1>3, <2>1 DEF IInv, CallInv, Running
<1>9. \A n \in Live' : n <= calls'
  BY <1>1, <1>4 DEF Live
<1>10. \A u \in Threads : at'[u] = "return" =>
         made'[open'[u].n] = [path |-> open'[u].path, schema |-> open'[u].schema]
  BY <1>3 DEF IInv, CallInv
<1>11. \A u \in Threads : at'[u] \notin {"idle", "return"} => made'[open'[u].n] = None
  BY <1>2, <1>3, <1>6 DEF IInv, CallInv
<1> QED BY <1>7, <1>8, <1>9, <1>10, <1>11 DEF CallInv

\* An object that leaves the books was no call's, and frees no call.
LEMMA DropKeepsCalls ==
  ASSUME IInv, NEW n \in owned \cup orphans, Drop(n),
         owned' \cup orphans' \subseteq owned \cup orphans, UNCHANGED <<at, open, calls>>
  PROVE  CallInv'
<1>1. n \in Call /\ made \in [Call -> NativeIndex \cup {None}]
  BY DEF IInv, TypeOK, Live
<1>2. \A m \in Call : m # n => made'[m] = made[m]
  BY <1>1 DEF Drop
<1>3. Live' \subseteq Live
  BY <1>1, <1>2 DEF Drop, Live
<1>4. \A t \in Threads : Running(t) => open[t].n \in Call /\ open[t].n # n
  BY OpenParts DEF IInv, CallInv
<1>5. \A t \in Threads : Running(t) => made'[open[t].n] = made[open[t].n]
  BY <1>2, <1>4
<1>6. \A t \in Threads : Running(t)' <=> Running(t)
  BY DEF Running
<1> QED BY <1>3, <1>5, <1>6 DEF IInv, CallInv, Running

\* Every step keeps the numbers apart.
LEMMA CallStep == ASSUME IInv, [Next]_vars PROVE CallInv'
<1>1. ASSUME NEW b \in Builders, NEW f \in Field, add_field(b, f) PROVE CallInv'
  BY <1>1 DEF add_field, IInv, CallInv, Live, Running
<1>2. ASSUME NEW t \in Threads, NEW p \in Paths, NEW b \in Builders, new_with_schema(t, p, b)
      PROVE  CallInv'
  BY <1>2, BeginKeepsCalls DEF new_with_schema
<1>3. ASSUME NEW t \in Threads, NEW p \in Paths, NEW s \in Declared, open_typed(t, p, s)
      PROVE  CallInv'
  BY <1>3, BeginKeepsCalls DEF open_typed
<1>4. ASSUME NEW t \in Threads, OpenDirectory(t) PROVE CallInv'
  <2>1. PICK s \in {"create", "take"} : GoTo(t, s)
    BY <1>4 DEF OpenDirectory
  <2>2. Running(t) /\ at[t] # "return" /\ s \in Steps /\ s # "return"
    BY <1>4 DEF OpenDirectory, Running, Steps
  <2>3. /\ \A u \in Threads : Running(u) => open'[u] # None /\ open'[u].n = open[u].n
        /\ UNCHANGED <<open, owned, orphans, made, calls>>
    BY <1>4 DEF OpenDirectory, IInv, CallInv
  <2> QED BY <2>1, <2>2, <2>3, MoveKeepsCalls
<1>5. ASSUME NEW t \in Threads, CreateDirectory(t) PROVE CallInv'
  <2>1. GoTo(t, "take") /\ Running(t) /\ at[t] # "return" /\ "take" \in Steps
    BY <1>5 DEF CreateDirectory, Running, Steps
  <2>2. /\ \A u \in Threads : Running(u) => open'[u] # None /\ open'[u].n = open[u].n
        /\ UNCHANGED <<open, owned, orphans, made, calls>>
    BY <1>5 DEF CreateDirectory, IInv, CallInv
  <2> QED BY <2>1, <2>2, MoveKeepsCalls
<1>6. ASSUME NEW t \in Threads, take_and_build(t) PROVE CallInv'
  <2>1. PICK s \in {"index", "idle"} : GoTo(t, s)
    BY <1>6 DEF take_and_build
  <2>2. Running(t) /\ at[t] # "return" /\ s \in Steps /\ s # "return"
    BY <1>6 DEF take_and_build, Running, Steps
  <2>3. open[t] \in OpenCall /\ open \in [Threads -> OpenCall \cup {None}]
    BY <2>2, OpenParts DEF IInv, TypeOK
  <2>4. \A u \in Threads : u # t => open'[u] = open[u]
    BY <1>6, <2>3 DEF take_and_build
  <2>5. open'[t] # None /\ open'[t].n = open[t].n
    <3>1. CASE builder[open[t].builder].state = "usable"
      <4>1. open'[t] = [open[t] EXCEPT !.schema = builder[open[t].builder].fields]
        BY <1>6, <2>3, <3>1 DEF take_and_build
      <4>2. open'[t].n = open[t].n
        BY <2>3, <4>1 DEF OpenCall
      <4>3. open'[t] \in OpenCall
        <5>1. builder[open[t].builder].fields \in SchemaUpTo(MaxFields)
          BY <2>2, OpenParts DEF IInv, TypeOK
        <5> QED BY <2>3, <4>1, <5>1 DEF OpenCall
      <4> QED BY <4>2, <4>3, NoneAssumption
    <3>2. CASE builder[open[t].builder].state # "usable"
      BY <1>6, <2>3, <3>2, NoneAssumption DEF take_and_build
    <3> QED BY <3>1, <3>2
  <2> QED BY SMTT(60), <1>6, <2>1, <2>2, <2>4, <2>5, MoveKeepsCalls DEF take_and_build, IInv, CallInv
<1>15. ASSUME NEW t \in Threads, CreateIndex(t) PROVE CallInv'
  <2>1. GoTo(t, "writer") /\ Running(t) /\ at[t] # "return" /\ "writer" \in Steps
    BY <1>15 DEF CreateIndex, Running, Steps
  <2>2. /\ \A u \in Threads : Running(u) => open'[u] # None /\ open'[u].n = open[u].n
        /\ UNCHANGED <<open, owned, orphans, made, calls>>
    BY <1>15 DEF CreateIndex, IInv, CallInv
  <2> QED BY <2>1, <2>2, MoveKeepsCalls
<1>7. ASSUME NEW t \in Threads, OpenOrCreate(t) PROVE CallInv'
  <2>1. PICK s \in {"writer", "make", "idle"} : GoTo(t, s)
    BY <1>7 DEF OpenOrCreate
  <2>2. Running(t) /\ at[t] # "return" /\ s \in Steps /\ s # "return"
    BY <1>7 DEF OpenOrCreate, Running, Steps
  <2>3. /\ \A u \in Threads : Running(u) => open'[u] # None /\ open'[u].n = open[u].n
        /\ UNCHANGED <<open, owned, orphans, made, calls>>
    BY <1>7 DEF OpenOrCreate, IInv, CallInv
  <2> QED BY <2>1, <2>2, <2>3, MoveKeepsCalls
<1>8. ASSUME NEW t \in Threads, CreateWriter(t) PROVE CallInv'
  <2>1. PICK s \in {"reader", "idle"} : GoTo(t, s)
    BY <1>8 DEF CreateWriter
  <2>2. Running(t) /\ at[t] # "return" /\ s \in Steps /\ s # "return"
    BY <1>8 DEF CreateWriter, Running, Steps
  <2>3. /\ \A u \in Threads : Running(u) => open'[u] # None /\ open'[u].n = open[u].n
        /\ UNCHANGED <<open, owned, orphans, made, calls>>
    BY <1>8 DEF CreateWriter, IInv, CallInv
  <2> QED BY <2>1, <2>2, <2>3, MoveKeepsCalls
<1>9. ASSUME NEW t \in Threads, Fail(t) PROVE CallInv'
  <2>1. PICK s \in {"create", "idle"} : GoTo(t, s)
    BY <1>9 DEF Fail
  <2>3. Running(t) /\ at[t] # "return" /\ s \in Steps /\ s # "return"
    BY <1>9 DEF Fail, Fallible, Running, Steps
  <2>2. /\ \A u \in Threads : Running(u) => open'[u] # None /\ open'[u].n = open[u].n
        /\ UNCHANGED <<open, owned, orphans, made, calls>>
    BY <1>9 DEF Fail, IInv, CallInv
  <2> QED BY <2>1, <2>2, <2>3, MoveKeepsCalls
<1>10. ASSUME NEW t \in Threads, CreateReader(t) PROVE CallInv'
  <2>1. /\ Running(t) /\ open[t].n \in Call /\ made \in [Call -> NativeIndex \cup {None}]
        /\ at' = [at EXCEPT ![t] = "return"] /\ at \in [Threads -> Steps]
    BY <1>10, OpenParts DEF CreateReader, GoTo, Running, IInv, TypeOK
  <2>2. /\ made'[open[t].n] = [path |-> open[t].path, schema |-> open[t].schema]
        /\ \A m \in Call : m # open[t].n => made'[m] = made[m]
    BY <1>10, <2>1 DEF CreateReader
  <2>3. \A u \in Threads : u # t => at'[u] = at[u] /\ (Running(u) => open[u].n # open[t].n)
    BY <2>1 DEF IInv, CallInv
  <2>4. \A u \in Threads : Running(u) => open[u].n \in Call
    BY OpenParts
  <2>5. \A u \in Threads : u # t /\ Running(u) => made'[open[u].n] = made[open[u].n]
    BY <2>2, <2>3, <2>4
  <2>6. \A u \in Threads : Running(u)' <=> Running(u)
    BY <2>1 DEF Running
  <2>7. \A n \in Live' : n <= calls
    BY <2>1, <2>2 DEF IInv, CallInv, Live
  <2>8. UNCHANGED <<open, owned, orphans, calls>>
    BY <1>10 DEF CreateReader
  <2> QED BY SMTT(60), <2>1, <2>2, <2>3, <2>5, <2>6, <2>7, <2>8 DEF IInv, CallInv, Running
<1>11. ASSUME NEW t \in Threads, Deliver(t) \/ Abandon(t) PROVE CallInv'
  <2>1. /\ Running(t) /\ at' = [at EXCEPT ![t] = "idle"] /\ at \in [Threads -> Steps]
        /\ owned' \cup orphans' = owned \cup orphans \cup {open[t].n}
        /\ UNCHANGED <<open, made, calls>>
    BY <1>11 DEF Deliver, Abandon, GoTo, Running, IInv, TypeOK
  <2>2. \A u \in Threads : Running(u)' => Running(u) /\ u # t /\ at'[u] = at[u]
    BY <2>1 DEF Running
  <2> QED BY <2>1, <2>2 DEF IInv, CallInv, Live, Running
<1>12. ASSUME NEW n \in Call, close(n) \/ Collect(n) PROVE CallInv'
  BY <1>12, DropKeepsCalls DEF close, Collect
<1>16. ASSUME NEW n \in Call, commit(n) PROVE CallInv'
  BY <1>16 DEF commit, IInv, CallInv, Live, Running
<1>13. CASE ProcessDeath
  BY <1>13 DEF ProcessDeath, CallInv, Live, Running
<1>14. CASE UNCHANGED vars
  BY SMTT(60), <1>14 DEF vars, IInv, CallInv, Live, Running
<1> QED
  BY <1>1, <1>2, <1>3, <1>4, <1>5, <1>6, <1>7, <1>8, <1>9, <1>10, <1>11, <1>12, <1>13,
     <1>14, <1>15, <1>16 DEF Next, Step

-----------------------------------------------------------------------------
(* Directories *)

\* Races stay races.
LEMMA RacesStay == ASSUME IInv, [Next]_vars PROVE raced \subseteq raced'
BY DEF Next, Step, vars, aux, add_field, new_with_schema, open_typed, OpenDirectory,
   CreateDirectory, take_and_build, OpenOrCreate, CreateIndex, CreateWriter, CreateReader,
   Deliver, Fail, Abandon, commit, close, Collect, ProcessDeath

\* What can happen to a directory: it comes to exist, a call that found no
\* index makes one, or the owner of an object commits.
LEMMA DiskChanges ==
  ASSUME IInv, [Next]_vars, NEW p \in Paths
  PROVE  \/ disk'[p] = disk[p]
         \/ disk[p].state = "absent" /\ disk'[p].state = "empty"
         \/ \E t \in Threads : /\ CreateIndex(t) /\ open[t].path = p
                              /\ disk'[p] = Holding(open[t].schema)
         \/ \E n \in Live : /\ commit(n) /\ made[n].path = p
                           /\ disk'[p] = Holding(made[n].schema)
<1> USE DEF IInv, TypeOK
<1>1. ASSUME NEW t \in Threads, CreateDirectory(t)
      PROVE  disk'[p] = disk[p] \/ (disk[p].state = "absent" /\ disk'[p].state = "empty")
  <2>1. disk' = [disk EXCEPT ![open[t].path].state = IF @ = "absent" THEN "empty" ELSE @]
    BY <1>1 DEF CreateDirectory
  <2>2. CASE p = open[t].path
    BY <2>1, <2>2
  <2>3. CASE p # open[t].path
    BY <2>1, <2>3
  <2> QED BY <2>2, <2>3
<1>2. ASSUME NEW t \in Threads, CreateIndex(t)
      PROVE  \/ disk'[p] = disk[p]
             \/ open[t].path = p /\ disk'[p] = Holding(open[t].schema)
  BY <1>2 DEF CreateIndex
<1>3. ASSUME NEW n \in Call, commit(n)
      PROVE  \/ disk'[p] = disk[p]
             \/ n \in Live /\ made[n].path = p /\ disk'[p] = Holding(made[n].schema)
  BY <1>3 DEF commit
<1>4. ASSUME UNCHANGED disk
      PROVE  disk'[p] = disk[p]
  BY <1>4
<1> QED
  BY <1>1, <1>2, <1>3, <1>4 DEF Next, Step, vars, add_field, new_with_schema, open_typed,
     OpenDirectory, take_and_build, OpenOrCreate, CreateWriter, CreateReader, Deliver, Fail,
     Abandon, close, Collect, ProcessDeath

\* A directory that is there stays, and so does its index unless calls raced.
LEMMA DiskOnlyGrows ==
  ASSUME IInv, [Next]_vars, NEW p \in Paths
  PROVE  /\ disk[p].state # "absent" => disk'[p].state # "absent"
         /\ disk[p].state = "index" /\ p \notin raced => disk'[p] = disk[p]
<1>1. ASSUME NEW t \in Threads, CreateIndex(t), open[t].path = p,
             disk[p].state = "index", p \notin raced
      PROVE  disk[p] = Holding(open[t].schema)
  BY <1>1 DEF CreateIndex, IInv, MakersInv
<1>2. ASSUME NEW n \in Live, commit(n), made[n].path = p, p \notin raced
      PROVE  disk[p] = Holding(made[n].schema)
  BY <1>2 DEF IInv, SchemaInUseStays
<1>3. \A s : Holding(s).state = "index"
  BY DEF Holding
<1> QED BY <1>1, <1>2, <1>3, DiskChanges

\* The steps that take a call where it is next.
LEMMA ThreadMoves ==
  ASSUME IInv, [Next]_vars, NEW t \in Threads
  PROVE  \/ at'[t] = at[t] /\ (Running(t) => open'[t] = open[t])
         \/ at'[t] \in {"idle", "directory", "create"}
         \/ at'[t] = "take" /\ (OpenDirectory(t) \/ CreateDirectory(t))
         \/ at'[t] = "index" /\ take_and_build(t)
         \/ at'[t] = "make" /\ OpenOrCreate(t)
         \/ at'[t] = "writer" /\ (OpenOrCreate(t) \/ CreateIndex(t))
         \/ at'[t] = "reader" /\ CreateWriter(t)
         \/ at'[t] = "return" /\ CreateReader(t)
<1>1. \A u \in Threads : \A s : GoTo(u, s) => at'[t] = IF t = u THEN s ELSE at[t]
  BY DEF GoTo, IInv, TypeOK
<1>2. ASSUME NEW u \in Threads, NEW p \in Paths, NEW b \in Builders \cup Threads, Begin(u, p, b)
      PROVE  \/ at'[t] = at[t] /\ open'[t] = open[t]
             \/ at'[t] = "directory"
  BY <1>2 DEF Begin, IInv, TypeOK
<1>3. CASE Step(t)
  BY <1>1, <1>3 DEF Step, OpenDirectory, CreateDirectory, take_and_build, OpenOrCreate,
     CreateIndex, CreateWriter, CreateReader, Deliver
<1>4. CASE \E u \in Threads : Step(u) /\ u # t
  BY <1>1, <1>4 DEF Step, OpenDirectory, CreateDirectory, take_and_build, OpenOrCreate,
     CreateIndex, CreateWriter, CreateReader, Deliver, IInv, TypeOK
<1>5. CASE \E u \in Threads : Fail(u) \/ Abandon(u)
  BY <1>1, <1>5 DEF Fail, Abandon
<1>6. CASE \E u \in Threads, p \in Paths :
             \/ \E b \in Builders : new_with_schema(u, p, b)
             \/ \E s \in Declared : open_typed(u, p, s)
  BY <1>2, <1>6 DEF new_with_schema, open_typed
<1>7. CASE \/ \E b \in Builders, f \in Field : add_field(b, f)
           \/ \E n \in Call : commit(n) \/ close(n) \/ Collect(n)
           \/ UNCHANGED vars
  BY <1>7 DEF add_field, commit, close, Collect, vars
<1>8. CASE ProcessDeath
  BY <1>8 DEF ProcessDeath
<1> QED
  BY <1>3, <1>4, <1>5, <1>6, <1>7, <1>8 DEF Next

\* What a call that runs on has found in its directory.
LEMMA DiskStep == ASSUME IInv, [Next]_vars PROVE DiskInv'
<1> SUFFICES ASSUME NEW t \in Threads
             PROVE  /\ at'[t] \in {"take", "index", "make"} => disk'[open'[t].path].state # "absent"
                    /\ at'[t] \in {"writer", "reader", "return"} /\ open'[t].path \notin raced' =>
                         disk'[open'[t].path] = Holding(open'[t].schema)
  BY DEF DiskInv
<1>1. CASE at'[t] = at[t] /\ (Running(t) => open'[t] = open[t])
  <2>1. CASE at[t] = "idle"
    BY <1>1, <2>1
  <2>2. CASE Running(t)
    BY <1>1, <2>2, OpenParts, DiskOnlyGrows, RacesStay DEF IInv, DiskInv, Holding
  <2> QED BY <2>1, <2>2 DEF Running
<1>2. CASE at'[t] \in {"idle", "directory", "create"}
  BY <1>2
<1>3. CASE at'[t] = "take" /\ OpenDirectory(t)
  BY <1>3 DEF OpenDirectory, GoTo, IInv, TypeOK
<1>4. CASE at'[t] = "take" /\ CreateDirectory(t)
  <2>1. open[t].path \in Paths
    BY <1>4, OpenParts DEF CreateDirectory, Running
  <2> QED BY <1>4, <2>1 DEF CreateDirectory, GoTo, IInv, TypeOK
<1>5. CASE at'[t] = "index" /\ take_and_build(t)
  <2>1. open[t] \in OpenCall /\ Running(t) /\ disk[open[t].path].state # "absent"
    BY <1>5, OpenParts DEF take_and_build, Running, IInv, DiskInv
  <2>2. open'[t].path = open[t].path /\ disk' = disk
    BY <1>5, <2>1 DEF take_and_build, OpenCall, IInv, TypeOK
  <2> QED BY <1>5, <2>1, <2>2
<1>6. CASE at'[t] \in {"make", "writer"} /\ OpenOrCreate(t)
  <2>1. open[t].path \in Paths /\ disk[open[t].path].state # "absent"
    BY <1>6, OpenParts DEF OpenOrCreate, Running, IInv, DiskInv
  <2>2. UNCHANGED <<disk, open>>
    BY <1>6 DEF OpenOrCreate
  <2>3. at'[t] = "writer" => /\ disk[open[t].path].state = "index"
                             /\ disk[open[t].path].schema = open[t].schema
    BY <1>6 DEF OpenOrCreate, GoTo, IInv, TypeOK
  <2>4. at'[t] = "writer" => disk[open[t].path] = Holding(open[t].schema)
    BY <2>1, <2>3 DEF IInv, TypeOK, Holding
  <2> QED BY <1>6, <2>1, <2>2, <2>4
<1>7. CASE at'[t] = "writer" /\ CreateIndex(t)
  <2>1. open[t].path \in Paths
    BY <1>7, OpenParts DEF CreateIndex, Running
  <2> QED BY <1>7, <2>1 DEF CreateIndex, IInv, TypeOK
<1>8. CASE at'[t] = "reader" /\ CreateWriter(t)
  BY <1>8, RacesStay DEF CreateWriter, IInv, DiskInv
<1>9. CASE at'[t] = "return" /\ CreateReader(t)
  BY <1>9, RacesStay DEF CreateReader, IInv, DiskInv
<1> QED BY ThreadMoves, <1>1, <1>2, <1>3, <1>4, <1>5, <1>6, <1>7, <1>8, <1>9

\* A call comes to make an index only by finding none.
LEMMA MakersComeSo ==
  ASSUME IInv, [Next]_vars, NEW t \in Threads, at'[t] = "make"
  PROVE  /\ at[t] \in {"index", "make"} /\ open'[t] = open[t] /\ open[t].path \in Paths
         /\ at[t] = "index" => OpenOrCreate(t) /\ disk[open[t].path].state # "index"
<1>1. \/ at[t] = "make" /\ (Running(t) => open'[t] = open[t])
      \/ OpenOrCreate(t)
  BY ThreadMoves
<1>2. CASE OpenOrCreate(t)
  <2>1. /\ at[t] = "index" /\ Running(t) /\ open' = open
        /\ disk[open[t].path].state # "index"
    BY <1>2 DEF OpenOrCreate, Running, GoTo, IInv, TypeOK
  <2> QED BY <1>2, <2>1, OpenParts
<1>3. CASE at[t] = "make" /\ (Running(t) => open'[t] = open[t])
  BY <1>3, OpenParts DEF Running
<1> QED BY <1>1, <1>2, <1>3

\* Every step keeps the makers of an index in agreement, or is a race.
LEMMA MakersStep == ASSUME IInv, [Next]_vars PROVE MakersInv'
<1> SUFFICES ASSUME NEW t \in Threads, at'[t] = "make", open'[t].path \notin raced'
             PROVE  /\ disk'[open'[t].path].state = "index" =>
                          disk'[open'[t].path] = Holding(open'[t].schema)
                    /\ \A u \in Threads :
                         at'[u] = "make" /\ open'[u].path = open'[t].path =>
                           open'[u].schema = open'[t].schema
  BY DEF MakersInv
<1> DEFINE p == open[t].path
<1>1. open'[t] = open[t] /\ p \in Paths /\ p \notin raced /\ p \notin raced'
  BY MakersComeSo, RacesStay
<1>2. ASSUME NEW v \in Threads, OpenOrCreate(v), at'[v] = "make", open[v].path = p
      PROVE  ~Races(v)
  <2>1. disk[open[v].path].state # "index"
    BY <1>2, MakersComeSo DEF OpenOrCreate
  <2> QED BY <1>1, <1>2, <2>1 DEF OpenOrCreate
<1>3. ASSUME NEW u \in Threads, at'[u] = "make", open'[u].path = p
      PROVE  open'[u].schema = open[t].schema
  <2>1. open'[u] = open[u] /\ open[u].path = p
    BY <1>3, MakersComeSo
  <2>2. CASE at[t] = "make" /\ at[u] = "make"
    BY <1>1, <2>1, <2>2 DEF IInv, MakersInv
  <2>3. CASE at[u] = "index"
    <3>1. OpenOrCreate(u) /\ ~Races(u)
      BY <1>2, <1>3, <2>1, <2>3, MakersComeSo
    <3>2. CASE at[t] = "make"
      BY <2>1, <3>1, <3>2 DEF Races
    <3>3. CASE at[t] = "index"
      <4>1. OpenOrCreate(t)
        BY <3>3, MakersComeSo
      <4>2. t = u
        BY <3>1, <3>3, <4>1 DEF OpenOrCreate, GoTo, IInv, TypeOK
      <4> QED BY <2>1, <4>2
    <3> QED BY <3>2, <3>3, MakersComeSo
  <2>4. CASE at[t] = "index" /\ at[u] = "make"
    <3>1. OpenOrCreate(t) /\ ~Races(t)
      BY <1>2, <2>4, MakersComeSo
    <3> QED BY <2>1, <2>4, <3>1 DEF Races
  <2> QED BY <1>3, <2>2, <2>3, <2>4, MakersComeSo
<1>4. ASSUME disk'[p].state = "index"
      PROVE  disk'[p] = Holding(open[t].schema)
  <2>1. CASE at[t] = "index"
    <3>1. OpenOrCreate(t) /\ disk[p].state # "index"
      BY <2>1, MakersComeSo
    <3> QED BY <1>4, <3>1 DEF OpenOrCreate
  <2>2. CASE at[t] = "make" /\ disk[p].state = "index"
    BY <1>1, <2>2, DiskOnlyGrows DEF IInv, MakersInv
  <2>3. CASE at[t] = "make" /\ disk[p].state # "index"
    <3>1. ASSUME NEW n \in Live, made[n].path = p PROVE FALSE
      <4>1. disk[p] = Holding(made[n].schema)
        BY <1>1, <3>1 DEF IInv, SchemaInUseStays
      <4> QED BY <2>3, <4>1 DEF Holding
    <3>2. PICK v \in Threads : /\ CreateIndex(v) /\ open[v].path = p
                               /\ disk'[p] = Holding(open[v].schema)
      BY <1>1, <1>4, <2>3, <3>1, DiskChanges
    <3> QED BY <1>1, <2>3, <3>2 DEF CreateIndex, IInv, MakersInv
  <2> QED BY <2>1, <2>2, <2>3, MakersComeSo
<1> QED BY <1>1, <1>3, <1>4

\* An object that is made finds the index its call saw or made.
LEMMA SchemaStep == ASSUME IInv, [Next]_vars PROVE SchemaInUseStays'
<1> SUFFICES ASSUME NEW n \in Call, made'[n] # None, made'[n].path \notin raced'
             PROVE  disk'[made'[n].path] = Holding(made'[n].schema)
  BY DEF SchemaInUseStays, Live
<1>1. CASE made'[n] = made[n]
  <2>1. n \in Live /\ made[n].path \in Paths
    BY <1>1 DEF Live, IInv, TypeOK, NativeIndex
  <2>2. made[n].path \notin raced /\ disk[made[n].path] = Holding(made[n].schema)
    BY <1>1, <2>1, RacesStay DEF IInv, SchemaInUseStays
  <2> QED BY <1>1, <2>1, <2>2, DiskOnlyGrows DEF Holding
<1>2. CASE made'[n] # made[n]
  <2>1. ASSUME NEW t \in Threads, CreateReader(t), open[t].n = n
        PROVE  disk'[made'[n].path] = Holding(made'[n].schema)
    <3>1. open[t].path \notin raced => disk[open[t].path] = Holding(open[t].schema)
      BY <2>1 DEF CreateReader, IInv, DiskInv
    <3>2. made'[n] = [path |-> open[t].path, schema |-> open[t].schema] /\ disk' = disk
      BY <2>1 DEF CreateReader, IInv, TypeOK
    <3> QED BY <3>1, <3>2, RacesStay
  <2>2. \A m \in Call : Drop(m) /\ m = n => made'[n] = None
    BY DEF Drop, IInv, TypeOK
  <2>3. \A m \in Call : Drop(m) /\ m # n => made'[n] = made[n]
    BY DEF Drop, IInv, TypeOK
  <2>4. ASSUME NEW t \in Threads, CreateReader(t) PROVE open[t].n = n
    BY <1>2, <2>4 DEF CreateReader, IInv, TypeOK
  <2>5. ~ UNCHANGED made
    BY <1>2
  <2>6. ~ ProcessDeath
    BY SMTT(60), <1>2 DEF ProcessDeath
  <2>7. \/ \E m \in Call : Drop(m)
        \/ \E t \in Threads : CreateReader(t)
    BY ZenonT(60), <2>5, <2>6 DEF Next, Step, vars, add_field, new_with_schema, open_typed, OpenDirectory,
       CreateDirectory, take_and_build, OpenOrCreate, CreateIndex, CreateWriter, Deliver, Fail,
       Abandon, commit, close, Collect
  <2> QED BY <1>2, <2>1, <2>2, <2>3, <2>4, <2>7
<1> QED BY <1>1, <1>2

-----------------------------------------------------------------------------
(* Builders *)

\* Only take_and_build hands fields to a call, and the builder it takes them
\* from could still be used.
LEMMA SourceChanges ==
  ASSUME IInv, [Next]_vars
  PROVE  \/ UNCHANGED sources
         \/ \A n \in Call : sources'[n] = None
         \/ \E t \in Threads :
              /\ open[t].n \in Call /\ open[t].builder \in Builders \cup Threads
              /\ builder[open[t].builder].state = "usable"
              /\ builder' = [builder EXCEPT ![open[t].builder].state = "taken"]
              /\ sources' = [sources EXCEPT ![open[t].n] = open[t].builder]
<1>1. ASSUME NEW t \in Threads, take_and_build(t)
      PROVE  open[t].n \in Call /\ open[t].builder \in Builders \cup Threads
  BY <1>1, OpenParts DEF take_and_build, Running
<1> QED
  BY ZenonT(60), <1>1 DEF Next, Step, vars, aux, add_field, new_with_schema, open_typed,
     OpenDirectory, CreateDirectory, take_and_build, OpenOrCreate, CreateIndex, CreateWriter,
     CreateReader, Deliver, Fail, Abandon, commit, close, Collect, ProcessDeath

\* A builder that cannot be used stays so while the process lives.
LEMMA BuilderStaysUsed ==
  ASSUME IInv, [Next]_vars, ~ProcessDeath, NEW b \in Builders, builder[b].state # "usable"
  PROVE  builder'[b].state # "usable"
<1>1. builder \in [Builders \cup Threads ->
                    [state : {"usable", "taken", "poisoned"}, fields : SchemaUpTo(MaxFields)]]
  BY DEF IInv, TypeOK
<1>2. ASSUME NEW c \in Builders, NEW f \in Field, add_field(c, f)
      PROVE  builder'[b].state # "usable"
  BY <1>1, <1>2, AddedBuilder DEF add_field
<1>3. ASSUME NEW t \in Threads, NEW s, builder' = [builder EXCEPT ![t] = s]
      PROVE  builder'[b].state # "usable"
  BY <1>1, <1>3, DisjointAssumption
<1>4. ASSUME NEW t \in Threads, take_and_build(t)
      PROVE  builder'[b].state # "usable"
  BY <1>1, <1>4 DEF take_and_build
<1>5. ASSUME UNCHANGED builder PROVE builder'[b].state # "usable"
  BY <1>5
<1> QED
  BY <1>2, <1>3, <1>4, <1>5 DEF Next, Step, vars, new_with_schema, open_typed, OpenDirectory,
     CreateDirectory, OpenOrCreate, CreateIndex, CreateWriter, CreateReader, Deliver, Fail,
     Abandon, commit, close, Collect

\* Every step keeps builders from being used again.
LEMMA SourceStep == ASSUME IInv, [Next]_vars PROVE SourceInv' /\ BuilderIsUsedOnce'
<1>1. CASE ProcessDeath
  <2>1. \A n \in Call : sources'[n] \notin Builders
    BY <1>1, NoneAssumption DEF ProcessDeath
  <2> QED BY <2>1 DEF SourceInv, BuilderIsUsedOnce
<1>2. CASE UNCHANGED sources /\ ~ProcessDeath
  BY <1>2, BuilderStaysUsed DEF IInv, SourceInv, BuilderIsUsedOnce
<1>3. CASE \A n \in Call : sources'[n] = None
  BY <1>3, NoneAssumption DEF SourceInv, BuilderIsUsedOnce
<1>4. ASSUME NEW t \in Threads,
             open[t].n \in Call, open[t].builder \in Builders \cup Threads,
             builder[open[t].builder].state = "usable",
             builder' = [builder EXCEPT ![open[t].builder].state = "taken"],
             sources' = [sources EXCEPT ![open[t].n] = open[t].builder]
      PROVE  SourceInv' /\ BuilderIsUsedOnce'
  <2>1. /\ sources'[open[t].n] = open[t].builder
        /\ \A n \in Call : n # open[t].n => sources'[n] = sources[n]
    BY <1>4 DEF IInv, TypeOK
  <2>2. \A n \in Call : sources[n] \in Builders => sources[n] # open[t].builder
    BY <1>4 DEF IInv, SourceInv
  <2>3. \A b \in Builders : /\ b = open[t].builder => builder'[b].state = "taken"
                            /\ b # open[t].builder => builder'[b] = builder[b]
    BY <1>4 DEF IInv, TypeOK
  <2>4. SourceInv'
    BY <1>4, <2>1, <2>3 DEF IInv, SourceInv
  <2>5. BuilderIsUsedOnce'
    BY <1>4, <2>1, <2>2 DEF IInv, BuilderIsUsedOnce
  <2> QED BY <2>4, <2>5
<1> QED BY <1>1, <1>2, <1>3, <1>4, SourceChanges

-----------------------------------------------------------------------------
(* Locks *)

\* The writers of a directory, as LockMatchesWriters counts them.
Writer(n, p) == \/ n \in Live /\ made[n].path = p
                \/ \E t \in Writing : open[t].path = p /\ open[t].n = n

\* LockMatchesWriters, writer by writer: the holder of the lock is the writer.
HolderWrites == \A p \in Paths : \A n : Writer(n, p) <=> lock[p] # None /\ n = lock[p]

\* The two forms agree.
LEMMA LockForm == LockMatchesWriters <=> HolderWrites
<1> DEFINE writers(p) == {n \in Live : made[n].path = p}
                          \cup {open[t].n : t \in {t \in Writing : open[t].path = p}}
           holder(p) == IF lock[p] = None THEN {} ELSE {lock[p]}
<1>1. \A p, n : n \in writers(p) <=> Writer(n, p)
  BY DEF Writer
<1>2. \A p, n : n \in holder(p) <=> lock[p] # None /\ n = lock[p]
  OBVIOUS
<1>3. LockMatchesWriters <=> \A p \in Paths : writers(p) = holder(p)
  BY DEF LockMatchesWriters
<1> HIDE DEF writers, holder
<1>4. \A p : writers(p) = holder(p) <=> \A n : n \in writers(p) <=> n \in holder(p)
  OBVIOUS
<1> QED BY <1>1, <1>2, <1>3, <1>4 DEF HolderWrites

\* A step after which everybody has the writer he had.
LEMMA SameWriters ==
  ASSUME IInv, UNCHANGED lock, \A p \in Paths : \A n : Writer(n, p)' <=> Writer(n, p)
  PROVE  LockMatchesWriters'
<1>1. HolderWrites'
  BY LockForm DEF IInv, HolderWrites
<1> QED BY <1>1, LockForm, PTL

\* A writer that goes away frees its own lock and no other.
LEMMA WriterLeaves ==
  ASSUME IInv, NEW p \in Paths, NEW n, Writer(n, p), lock' = [lock EXCEPT ![p] = None],
         \A m : Writer(m, p)' => Writer(m, p) /\ m # n,
         \A q \in Paths : q # p => \A m : Writer(m, q)' <=> Writer(m, q)
  PROVE  LockMatchesWriters'
<1>1. \A q \in Paths : lock'[q] = IF q = p THEN None ELSE lock[q]
  BY DEF IInv, TypeOK
<1>2. HolderWrites'
  BY <1>1, LockForm DEF IInv, HolderWrites
<1> QED BY <1>2, LockForm, PTL

\* Every step keeps locks and writers together.
LEMMA LockStep == ASSUME IInv, [Next]_vars PROVE LockMatchesWriters'
<1>1. ASSUME UNCHANGED <<lock, made>>,
             \A t \in Threads : /\ at'[t] \in {"reader", "return"} <=> at[t] \in {"reader", "return"}
                                /\ at[t] \in {"reader", "return"} => open'[t] = open[t]
      PROVE  LockMatchesWriters'
  <2>1. \A p \in Paths : \A n : Writer(n, p)' <=> Writer(n, p)
    BY <1>1 DEF Writer, Live, Writing
  <2> QED BY <1>1, <2>1, SameWriters
<1>2. \A u \in Threads : \A s : GoTo(u, s) =>
        \A t \in Threads : at'[t] = IF t = u THEN s ELSE at[t]
  BY DEF GoTo, IInv, TypeOK
<1>3. ASSUME NEW b \in Builders, NEW f \in Field, add_field(b, f) PROVE LockMatchesWriters'
  BY <1>1, <1>3 DEF add_field
<1>4. ASSUME NEW u \in Threads, NEW p \in Paths, NEW b \in Builders \cup Threads, Begin(u, p, b),
             UNCHANGED <<lock, made>>
      PROVE  LockMatchesWriters'
  <2>1. \A t \in Threads : \/ at'[t] = at[t] /\ open'[t] = open[t]
                           \/ at[t] = "idle" /\ at'[t] = "directory"
    BY <1>4 DEF Begin, IInv, TypeOK
  <2> QED BY <1>1, <1>4, <2>1
<1>5. ASSUME NEW u \in Threads, NEW p \in Paths, NEW b \in Builders, new_with_schema(u, p, b)
      PROVE  LockMatchesWriters'
  BY <1>4, <1>5 DEF new_with_schema
<1>6. ASSUME NEW u \in Threads, NEW p \in Paths, NEW s \in Declared, open_typed(u, p, s)
      PROVE  LockMatchesWriters'
  BY <1>4, <1>6 DEF open_typed
<1>7. ASSUME NEW t \in Threads, OpenDirectory(t) \/ CreateDirectory(t) PROVE LockMatchesWriters'
  BY <1>1, <1>2, <1>7 DEF OpenDirectory, CreateDirectory
<1>8. ASSUME NEW t \in Threads, take_and_build(t) PROVE LockMatchesWriters'
  <2>1. \A u \in Threads : u # t => open'[u] = open[u]
    BY <1>8 DEF take_and_build, IInv, TypeOK
  <2> QED BY <1>1, <1>2, <1>8, <2>1 DEF take_and_build
<1>9. ASSUME NEW t \in Threads, OpenOrCreate(t) \/ CreateIndex(t) PROVE LockMatchesWriters'
  BY <1>1, <1>2, <1>9 DEF OpenOrCreate, CreateIndex
<1>17. ASSUME NEW n \in Call, commit(n) PROVE LockMatchesWriters'
  BY <1>1, <1>17 DEF commit
<1>10. ASSUME NEW t \in Threads, CreateWriter(t) PROVE LockMatchesWriters'
  <2>1. open[t].path \in Paths /\ open[t].n \in Call /\ at[t] = "writer"
    BY <1>10, OpenParts DEF CreateWriter, Running
  <2>2. CASE lock[open[t].path] # None
    BY <1>1, <1>2, <1>10, <2>2 DEF CreateWriter
  <2>3. CASE lock[open[t].path] = None
    <3>1. \A u \in Threads : at'[u] = IF u = t THEN "reader" ELSE at[u]
      BY <1>2, <1>10, <2>3 DEF CreateWriter
    <3>2. \A p \in Paths : \A n :
            Writer(n, p)' <=> Writer(n, p) \/ (p = open[t].path /\ n = open[t].n)
      BY <1>10, <2>1, <3>1 DEF CreateWriter, Writer, Live, Writing
    <3>3. \A p \in Paths : lock'[p] = IF p = open[t].path THEN open[t].n ELSE lock[p]
      BY <1>10, <2>3 DEF CreateWriter, IInv, TypeOK
    <3>4. open[t].n # None
      BY <2>1, NoneAssumption
    <3>5. HolderWrites'
      BY <2>3, <3>2, <3>3, <3>4, LockForm DEF IInv, HolderWrites
    <3> QED BY <3>5, LockForm, PTL
  <2> QED BY <2>2, <2>3
<1>11. ASSUME NEW t \in Threads, CreateReader(t) PROVE LockMatchesWriters'
  <2>1. open[t] \in OpenCall /\ open[t].n \in Call /\ at[t] = "reader"
        /\ open[t].path \in Paths /\ open[t].schema \in SchemaUpTo(MaxFields)
    BY <1>11, OpenParts DEF CreateReader, Running
  <2>2. \A u \in Threads : at'[u] = IF u = t THEN "return" ELSE at[u]
    BY <1>2, <1>11 DEF CreateReader
  <2>3. [path |-> open[t].path, schema |-> open[t].schema] # None
    BY <2>1, NoneAssumption DEF NativeIndex
  <2>4. \A n \in Call : made'[n] = IF n = open[t].n THEN [path |-> open[t].path, schema |-> open[t].schema]
                                                  ELSE made[n]
    BY <1>11 DEF CreateReader, IInv, TypeOK
  <2>5. made[open[t].n] = None
    BY <2>1 DEF IInv, CallInv
  <2>6. \A p \in Paths : \A n : Writer(n, p)' <=> Writer(n, p)
    BY <1>11, <2>1, <2>2, <2>3, <2>4, <2>5 DEF CreateReader, Writer, Live, Writing
  <2> QED BY <1>11, <2>6, SameWriters DEF CreateReader
<1>12. ASSUME NEW t \in Threads, Deliver(t) \/ Abandon(t) PROVE LockMatchesWriters'
  <2>1. at[t] = "return" /\ open[t].n \in Call /\ open[t].path \in Paths
        /\ open[t].schema \in SchemaUpTo(MaxFields)
    BY <1>12, OpenParts DEF Deliver, Abandon, Running
  <2>2. open[t].n \in Live /\ made[open[t].n].path = open[t].path
    <3>1. made[open[t].n] = [path |-> open[t].path, schema |-> open[t].schema]
      BY <2>1 DEF IInv, CallInv
    <3>2. made[open[t].n] \in NativeIndex
      BY <2>1, <3>1 DEF NativeIndex
    <3> QED BY <2>1, <3>1, <3>2, NoneAssumption DEF Live
  <2>3. \A u \in Threads : at'[u] = IF u = t THEN "idle" ELSE at[u]
    BY <1>2, <1>12 DEF Deliver, Abandon
  <2>4. UNCHANGED <<lock, open, made>>
    BY <1>12 DEF Deliver, Abandon
  <2>5. \A p \in Paths : \A n : Writer(n, p)' <=> Writer(n, p)
    BY <2>1, <2>2, <2>3, <2>4 DEF Writer, Live, Writing
  <2> QED BY <2>4, <2>5, SameWriters
<1>13. ASSUME NEW t \in Threads, Fail(t) PROVE LockMatchesWriters'
  <2>1. /\ \A u \in Threads : u # t => at'[u] = at[u]
        /\ at'[t] \in {"create", "idle"}
        /\ UNCHANGED <<open, made>> /\ at[t] # "return"
    BY <1>2, <1>13 DEF Fail, Fallible
  <2>2. CASE at[t] # "reader"
    BY <1>1, <1>13, <2>1, <2>2 DEF Fail
  <2>3. CASE at[t] = "reader"
    <3>1. open[t].path \in Paths /\ Writer(open[t].n, open[t].path)
      BY <2>3, OpenParts DEF Running, Writer, Writing
    <3>2. made[open[t].n] = None
      BY <2>3 DEF IInv, CallInv
    <3>3. \A u \in Writing : u # t => open[u].n # open[t].n
      BY <2>3 DEF Writing, Running, IInv, CallInv
    <3>4. \A m : Writer(m, open[t].path)' => Writer(m, open[t].path) /\ m # open[t].n
      BY <2>1, <3>2, <3>3 DEF Writer, Live, Writing
    <3>5. \A q \in Paths : q # open[t].path => \A m : Writer(m, q)' <=> Writer(m, q)
      BY <2>1 DEF Writer, Live, Writing
    <3> QED BY <1>13, <2>3, <3>1, <3>4, <3>5, WriterLeaves DEF Fail
  <2> QED BY <2>2, <2>3
<1>14. ASSUME NEW n \in Call, close(n) \/ Collect(n) PROVE LockMatchesWriters'
  <2>1. n \in owned \cup orphans /\ Drop(n) /\ UNCHANGED <<at, open>>
    BY <1>14 DEF close, Collect
  <2>2. PICK p \in Paths : p = made[n].path /\ Writer(n, p)
    BY <2>1 DEF Writer, IInv, TypeOK, Live, NativeIndex
  <2>3. Live' = Live \ {n} /\ \A m \in Live' : made'[m] = made[m]
    BY <2>1 DEF Drop, Live, IInv, TypeOK
  <2>4. \A t \in Writing : open[t].n # n
    BY <2>1 DEF Writing, Running, IInv, CallInv
  <2>5. Writing' = Writing /\ open' = open
    BY <2>1 DEF Writing
  <2>6. \A m : Writer(m, p)' => Writer(m, p) /\ m # n
    BY <2>3, <2>4, <2>5 DEF Writer
  <2>7. \A q \in Paths : q # p => \A m : Writer(m, q)' <=> Writer(m, q)
    BY <2>2, <2>3, <2>5 DEF Writer
  <2>8. lock' = [lock EXCEPT ![p] = None]
    BY <2>1, <2>2 DEF Drop
  <2> QED BY <2>2, <2>6, <2>7, <2>8, WriterLeaves
<1>15. CASE ProcessDeath
  <2>1. HolderWrites'
    BY <1>15 DEF ProcessDeath, HolderWrites, Writer, Live, Writing
  <2> QED BY <2>1, LockForm, PTL
<1>16. CASE UNCHANGED vars
  BY <1>1, <1>16 DEF vars
<1> QED
  BY <1>3, <1>5, <1>6, <1>7, <1>8, <1>9, <1>10, <1>11, <1>12, <1>13, <1>14, <1>15, <1>16,
     <1>17 DEF Next, Step

-----------------------------------------------------------------------------
(* The theorems *)

\* Nothing runs and nothing is open at the start.
LEMMA InitInv == Init => IInv
<1> SUFFICES ASSUME Init PROVE IInv
  OBVIOUS
<1>1. Live = {} /\ \A t \in Threads : at[t] = "idle"
  BY DEF Init, Live
<1>2. TypeOK
  BY <1>1, FieldLists, BoundsAssumption DEF Init, TypeOK, Fresh, Steps
<1>3. CallInv /\ DiskInv /\ MakersInv /\ SchemaInUseStays
  BY <1>1 DEF CallInv, Running, DiskInv, MakersInv, SchemaInUseStays
<1>4. LockMatchesWriters
  <2>1. HolderWrites
    BY <1>1 DEF Init, HolderWrites, Writer, Writing
  <2> QED BY <2>1, LockForm
<1>5. SourceInv /\ BuilderIsUsedOnce
  BY NoneAssumption DEF Init, SourceInv, BuilderIsUsedOnce
<1> QED BY <1>2, <1>3, <1>4, <1>5 DEF IInv

\* The invariant is inductive.
LEMMA NextInv == IInv /\ [Next]_vars => IInv'
<1> SUFFICES ASSUME IInv, [Next]_vars PROVE IInv'
  OBVIOUS
<1> QED
  BY TypeStep, CallStep, LockStep, DiskStep, MakersStep, SchemaStep, SourceStep DEF IInv

\* It holds throughout.
THEOREM Invariance == Spec => []IInv
BY InitInv, NextInv, PTL DEF Spec

\* Builders, directories, calls and objects keep their types, and what callers
\* hold or have lost exists.
THEOREM TypeCorrect == Spec => []TypeOK
<1>1. IInv => TypeOK
  BY DEF IInv
<1> QED BY <1>1, Invariance, PTL

\* The lock of a directory is taken exactly while one object or one call has
\* its writer: every early return of new_with_schema, every error, lost result
\* and close frees what it must and nothing else.
THEOREM LocksMatchWriters == Spec => []LockMatchesWriters
<1>1. IInv => LockMatchesWriters
  BY DEF IInv
<1> QED BY <1>1, Invariance, PTL

\* Whatever other callers declare for the directory and wherever their calls
\* are, an object in use finds there the index with the schema it was opened
\* with, unless calls with two schemas found the directory without an index at
\* the same time.
THEOREM SchemasStay == Spec => []SchemaInUseStays
<1>1. IInv => SchemaInUseStays
  BY DEF IInv
<1> QED BY <1>1, Invariance, PTL

\* No builder gives its fields to two calls, even to two threads at once.
THEOREM BuildersAreUsedOnce == Spec => []BuilderIsUsedOnce
<1>1. IInv => BuilderIsUsedOnce
  BY DEF IInv
<1> QED BY <1>1, Invariance, PTL
=============================================================================
