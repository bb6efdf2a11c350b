-------------------------- MODULE TypedIndex_proof --------------------------
(***************************************************************************)
(* Proofs about TypedIndex, for any clients, identifiers, batches and      *)
(* bounds.                                                                 *)
(*                                                                         *)
(* Blocks are exclusive, so one client at a time decides what the index    *)
(* holds, and the invariant follows his block: what is pending and what is *)
(* committed is a function of the index when the block began and of the    *)
(* statements left (Starting, Removing, Adding, Publishing).  The native   *)
(* index keeps its own invariant, proved in TantivyIndex_proof; this       *)
(* module uses it, and the lemmas on Live, as theorems of an instance.     *)
(***************************************************************************)
EXTENDS TypedIndex, SequenceTheorems, FiniteSetTheorems, TLAPS

P == INSTANCE TantivyIndex_proof WITH Callers <- Clients

Kinds == {"none", "clear", "add", "index", "commit", "upsert", "delete", "stage"}

BodySteps == {"encode", "index_doc", "index_docs", "commit", "clear_index", "delete_doc",
              "delete_doc_uncommitted"}

Run == [kind : Kinds, body : Seq(BodySteps), key : Keys \cup {BadKey},
        docs : Seq(Native!Input), before : SUBSET Native!Doc,
        durable : SUBSET Native!Doc, mine : Nat, failed : {"no", "encode", "native"}]

\* What an operation is given: a key to delete, documents to bring, or neither.
ArgsOK(r) ==
  /\ r.kind \in {"upsert", "delete", "stage"} \/ r.key = BadKey
  /\ r.kind \in {"add", "index", "upsert"} \/ r.docs = <<>>
  /\ r.kind = "upsert" => Len(r.docs) = 1 /\ r.key = r.docs[1].key

-----------------------------------------------------------------------------
(* Where a block is *)

\* What the operation's deletion leaves of the index it found.
Removed(c) == IF run[c].kind = "clear" THEN {} ELSE Without(run[c].before, run[c].key)

\* The first k documents of the operation, as the native call stores them.
OwnTo(c, k) == {[n |-> run[c].mine, pos |-> i, key |-> run[c].docs[i].key] : i \in 1..k}

\* The bodies that have not crossed to the native side yet.
One == {<<"add", <<"encode", "index_doc">>>>, <<"add", <<"index_doc">>>>,
        <<"index", <<"encode", "index_doc", "commit">>>>,
        <<"index", <<"index_doc", "commit">>>>}
Many == {<<"add", <<"encode", "index_docs">>>>, <<"add", <<"index_docs">>>>,
         <<"index", <<"encode", "index_docs", "commit">>>>,
         <<"index", <<"index_docs", "commit">>>>}
Others == {<<"clear", <<"clear_index">>>>, <<"commit", <<"commit">>>>,
           <<"upsert", <<"encode", "delete_doc", "index_doc">>>>,
           <<"upsert", <<"delete_doc", "index_doc">>>>,
           <<"delete", <<"delete_doc">>>>, <<"stage", <<"delete_doc_uncommitted">>>>}

\* What is left of the body once the documents are brought.
Brought == {<<"add", <<>>>>, <<"index", <<"commit">>>>, <<"upsert", <<>>>>}

\* Nothing has been staged or committed.
Starting(c) ==
  /\ todo[c] = <<>> /\ run[c].mine = 0
  /\ Working = run[c].before /\ Native!LastCommit = run[c].durable
  /\ \/ <<run[c].kind, run[c].body>> \in One /\ Len(run[c].docs) = 1
     \/ <<run[c].kind, run[c].body>> \in Many /\ run[c].docs \in Batches
     \/ <<run[c].kind, run[c].body>> \in Others

\* Native methods that end by deleting or committing, last statement first,
\* and how many statements are left when they delete and when they commit.
ClearBack == <<"reload", "commit", "delete_all", "lock">>
CommitBack == <<"reload", "commit", "lock">>
DeleteBack == <<"reload", "commit", "delete_term", "lock", "term">>
StageBack == <<"delete_term", "lock", "term">>

\* s is what is left of a method.
LeftOf(s, back) == /\ Len(s) <= Len(back)
                   /\ \A i \in 1..Len(s) : s[i] = back[Len(s) - i + 1]

Removing(c, kind, rest, back, deleteAt, commitAt) ==
  /\ run[c].mine = 0 /\ run[c].kind = kind /\ run[c].body = rest
  /\ LeftOf(todo[c], back)
  /\ "delete_term" \in {back[i] : i \in 1..Len(back)} => arg[c].keys = {run[c].key}
  /\ Working = IF Len(todo[c]) >= deleteAt THEN run[c].before ELSE Removed(c)
  /\ Native!LastCommit = IF Len(todo[c]) >= commitAt THEN run[c].durable ELSE Removed(c)

\* A native call that deletes or commits runs, or has returned.
Taking(c) ==
  \/ Removing(c, "clear", <<>>, ClearBack, 3, 2)
  \/ Removing(c, "commit", <<>>, CommitBack, 3, 2)
  \/ Removing(c, "delete", <<>>, DeleteBack, 3, 2)
  \/ Removing(c, "upsert", <<"index_doc">>, DeleteBack, 3, 2)
  \/ Removing(c, "stage", <<>>, StageBack, 1, 0)

\* What is left of index_doc or index_docs: the documents still to add come last.
AddsLeft(c) == LET left == Len(run[c].docs) - added[c]
               IN  /\ left >= 0 /\ left <= Len(todo[c])
                   /\ \A i \in 1..Len(todo[c]) :
                        /\ todo[c][i] \in {"convert", "lock", "add"}
                        /\ todo[c][i] = "add" <=> i > Len(todo[c]) - left

\* The native call that brings the documents runs, or has returned.
Adding(c) ==
  /\ <<run[c].kind, run[c].body>> \in Brought
  /\ run[c].mine = arg[c].n /\ run[c].mine # 0 /\ run[c].docs = arg[c].batch
  /\ AddsLeft(c)
  /\ Working = Removed(c) \cup OwnTo(c, added[c])
  /\ Native!LastCommit = IF run[c].kind = "upsert" THEN Removed(c) ELSE run[c].durable

\* index and indexAll commit what they have added.
Publishing(c) ==
  /\ run[c].kind = "index" /\ run[c].body = <<>> /\ run[c].mine # 0
  /\ LeftOf(todo[c], CommitBack)
  /\ Working = Content(c)
  /\ Native!LastCommit = IF Len(todo[c]) >= 2 THEN run[c].durable ELSE Content(c)

\* A block that goes on is at one of these; one that threw has left the index
\* as FailureIsContained says.
Goes(c) == Starting(c) \/ Taking(c) \/ Adding(c) \/ Publishing(c)
Threw(c) == todo[c] = <<>> /\
  \/ /\ run[c].failed = "encode"
     /\ Working = run[c].before /\ Native!LastCommit = run[c].durable
  \/ /\ run[c].failed = "native"
     /\ Working \subseteq run[c].before \cup Own(c)
     /\ run[c].kind = "clear" \/ Without(run[c].before, run[c].key) \subseteq Working

InBlock(c) == /\ run[c] \in Run /\ ArgsOK(run[c]) /\ run[c].kind # "none"
              /\ run[c].failed = "no" => Goes(c)
              /\ run[c].failed # "no" => Threw(c)

BlockInv == \A c \in Clients : \/ run[c] = Idle /\ todo[c] = <<>>
                               \/ InBlock(c)

-----------------------------------------------------------------------------
(* What was promised *)

\* What callers count on is pending as well as committed, and no native call
\* about to delete would take any of it.
KeptInv ==
  /\ kept \subseteq Working /\ kept \subseteq Native!LastCommit
  /\ \A c \in Clients : todo[c] # <<>> =>
       /\ run[c].kind = "clear" => kept = {}
       /\ run[c].kind \in {"delete", "upsert", "stage"} => \A d \in kept : d.key # run[c].key

\* At most one document of docs has the identifier k.
Single(docs, k) == \A d, e \in docs : d.key = k /\ e.key = k => d = e

OneInv ==
  /\ \A c \in Clients : run[c].kind \in {"add", "index"} => Identifiers(run[c].docs) \subseteq plain
  /\ \A k \in Keys \ plain :
       /\ Single(Working, k)
       /\ \A i \in 1..Len(commits) : Single(commits[i], k)

\* The holder of the writer is inside the native object.
HolderInv == \A c \in Clients : writer = c => todo[c] # <<>>

IInv == P!IInv /\ HolderInv /\ TypeOK /\ BlockInv /\ KeptInv /\ OneInv

-----------------------------------------------------------------------------
(* The native index and the instance its theorems are taken from *)

\* Its constants satisfy what the theorems assume.
LEMMA NativeAssumptions ==
  /\ P!CallersAssumption /\ P!KeysAssumption /\ P!BatchesAssumption /\ P!BoundsAssumption
BY MarksAssumption, BatchesAssumption, BoundsAssumption
   DEF P!CallersAssumption, P!KeysAssumption, P!BatchesAssumption, P!BoundsAssumption, P!Input

\* The two have the same documents and sets of documents.
LEMMA SameSets ==
  /\ Native!Doc = P!Doc /\ Native!Input = P!Input
  /\ Native!LastCommit = P!LastCommit /\ Working = P!Working
  /\ \A a, b : Native!Live(a, b) = P!Live(a, b)
<1>1. \A a, b : Native!Live(a, b) = P!Live(a, b)
  BY DEF Native!Live, P!Live, Native!Masks, P!Masks
<1>2. Native!LastCommit = P!LastCommit
  BY DEF Native!LastCommit, P!LastCommit
<1> QED
  BY <1>1, <1>2 DEF Native!Doc, P!Doc, Native!Positions, P!Positions, Native!Input, P!Input,
     Working, P!Working

\* Also after a step.
LEMMA SameSetsNext == Working' = P!Working' /\ Native!LastCommit' = P!LastCommit'
BY DEF Working, P!Working, Native!Live, P!Live, Native!Masks, P!Masks, Native!LastCommit,
   P!LastCommit

\* They move from statement to statement alike.
LEMMA SameMoves ==
  /\ \A c : Native!Advance(c) <=> P!Advance(c)
  /\ \A c : Native!Return(c) <=> P!Return(c)
  /\ \A c, s : Native!At(c, s) <=> P!At(c, s)
  /\ \A op : Native!Stage(op) <=> P!Stage(op)
<1>1. ASSUME NEW c PROVE Native!Advance(c) <=> P!Advance(c)
  BY DEF Native!Advance, P!Advance
<1>2. ASSUME NEW c PROVE Native!Return(c) <=> P!Return(c)
  BY DEF Native!Return, P!Return
<1>3. ASSUME NEW c, NEW s PROVE Native!At(c, s) <=> P!At(c, s)
  BY DEF Native!At, P!At
<1>4. ASSUME NEW op PROVE Native!Stage(op) <=> P!Stage(op)
  BY DEF Native!Stage, P!Stage
<1> QED BY <1>1, <1>2, <1>3, <1>4

\* They have the same statements; no block of the typed index searches.
LEMMA SameSteps ==
  ASSUME NEW c, Native!Step(c), ~Native!At(c, "search") PROVE P!Step(c)
<1>1. Native!Lock(c) => P!Lock(c)
  BY SameMoves DEF Native!Lock, P!Lock
<1>2. Native!Convert(c) => P!Convert(c)
  BY SameMoves DEF Native!Convert, P!Convert
<1>3. Native!Term(c) => P!Term(c)
  BY SMTT(60), SameMoves DEF Native!Term, P!Term
<1>4. Native!AddDocument(c) => P!AddDocument(c)
  BY SameMoves DEF Native!AddDocument, P!AddDocument, Native!Part, P!Part
<1>5. Native!DeleteTerm(c) => P!DeleteTerm(c)
  BY SameMoves DEF Native!DeleteTerm, P!DeleteTerm
<1>6. Native!DeleteAllDocuments(c) => P!DeleteAllDocuments(c)
  BY SameMoves DEF Native!DeleteAllDocuments, P!DeleteAllDocuments
<1>7. Native!WriterCommit(c) => P!WriterCommit(c)
  BY SameMoves, SameSets DEF Native!WriterCommit, P!WriterCommit
<1>8. Native!Reload(c) => P!Reload(c)
  BY SameMoves DEF Native!Reload, P!Reload
<1>9. ~Native!Search(c)
  BY DEF Native!Search
<1>10. Native!Fetch(c) => P!Fetch(c)
  BY SameMoves DEF Native!Fetch, P!Fetch
<1>11. Native!Count(c) => P!Count(c)
  BY SameMoves DEF Native!Count, P!Count
<1> QED
  BY <1>1, <1>2, <1>3, <1>4, <1>5, <1>6, <1>7, <1>8, <1>9, <1>10, <1>11
     DEF Native!Step, P!Step

\* They have the same writing methods.
LEMMA SameCalls ==
  ASSUME NEW c
  PROVE  /\ Native!clear_index(c) => P!Write(c)
         /\ Native!commit(c) => P!Write(c)
         /\ \A doc \in Native!Input : Native!index_doc(c, doc) => P!Write(c)
         /\ \A b \in Batches : Native!index_docs(c, b) => P!Write(c)
         /\ \A k \in Keys \cup {BadKey} :
              Native!delete_doc(c, k) \/ Native!delete_doc_uncommitted(c, k) => P!Write(c)
<1>1. ASSUME NEW s, NEW b, NEW k, NEW n, Native!Invoke(c, s, b, k, n) PROVE P!Invoke(c, s, b, k, n)
  BY <1>1 DEF Native!Invoke, P!Invoke, Native!NoView, P!NoView, Native!shared, P!shared
<1>2. \A s, n : Native!Repeat(s, n) = P!Repeat(s, n)
  BY DEF Native!Repeat, P!Repeat
<1>3. ASSUME NEW doc \in Native!Input
      PROVE  \E k \in Keys, v \in BOOLEAN : doc = [key |-> k, valid |-> v]
  BY DEF Native!Input
<1>4. Native!clear_index(c) => P!Write(c)
  BY <1>1 DEF Native!clear_index, P!clear_index, P!Write
<1>5. Native!commit(c) => P!Write(c)
  BY <1>1 DEF Native!commit, P!commit, P!Write
<1>6. \A doc \in Native!Input : Native!index_doc(c, doc) => P!Write(c)
  BY <1>1, <1>3 DEF Native!index_doc, P!index_doc, P!Write
<1>7. \A b \in Batches : Native!index_docs(c, b) => P!Write(c)
  BY <1>1, <1>2 DEF Native!index_docs, P!index_docs, P!Write
<1>8. \A k \in Keys \cup {BadKey} : Native!delete_doc(c, k) => P!Write(c)
  BY <1>1 DEF Native!delete_doc, P!delete_doc, P!Write
<1>9. \A k \in Keys \cup {BadKey} : Native!delete_doc_uncommitted(c, k) => P!Write(c)
  BY <1>1 DEF Native!delete_doc_uncommitted, P!delete_doc_uncommitted, P!Write
<1> QED BY <1>4, <1>5, <1>6, <1>7, <1>8, <1>9

\* They fail, restart and reload alike.
LEMMA SameFaults ==
  /\ \A c : Native!EngineError(c) => P!EngineError(c)
  /\ \A c : Native!Panic(c) => P!Panic(c)
  /\ Native!Restart => P!Restart
  /\ Native!BackgroundLoad => P!BackgroundLoad
  /\ Native!BackgroundPublish => P!BackgroundPublish
  /\ UNCHANGED native => UNCHANGED P!vars
  /\ Native!Init => P!Init
<1>1. ASSUME NEW c PROVE Native!EngineError(c) => P!EngineError(c)
  BY SameMoves DEF Native!EngineError, P!EngineError, Native!Fallible, P!Fallible
<1>2. ASSUME NEW c PROVE Native!Panic(c) => P!Panic(c)
  BY SameMoves DEF Native!Panic, P!Panic
<1>3. Native!Restart => P!Restart
  BY DEF Native!Restart, P!Restart, Native!aux, P!aux
<1>4. /\ Native!BackgroundLoad => P!BackgroundLoad
      /\ Native!BackgroundPublish => P!BackgroundPublish
  BY DEF Native!BackgroundLoad, P!BackgroundLoad, Native!BackgroundPublish,
     P!BackgroundPublish, Native!local, P!local, Native!aux, P!aux
<1>5. UNCHANGED native => UNCHANGED P!vars
  BY DEF native, P!vars, P!shared, P!local, P!aux
<1>6. Native!Init => P!Init
  BY DEF Native!Init, P!Init, Native!NoArg, P!NoArg, Native!NoView, P!NoView
<1> QED BY <1>1, <1>2, <1>3, <1>4, <1>5, <1>6

-----------------------------------------------------------------------------
(* What a native statement does to the pending and the committed documents *)

Quiet == UNCHANGED <<added, commits>> /\ Working' = Working

\* The document that the next addition of c stores.
NextDoc(c) == [n |-> arg[c].n, pos |-> added[c] + 1, key |-> arg[c].batch[added[c] + 1].key]

StatementEffect(c, step) ==
  CASE step = "add" ->
         /\ added' = [added EXCEPT ![c] = @ + 1] /\ commits' = commits
         /\ Working' = Working \cup {NextDoc(c)}
    [] step = "delete_term" ->
         /\ UNCHANGED <<added, commits>>
         /\ \E k \in arg[c].keys : Working' = Without(Working, k)
    [] step = "delete_all" -> UNCHANGED <<added, commits>> /\ Working' = {}
    [] step = "commit" ->
         /\ added' = added /\ Working' = Working
         /\ commits' = Append(commits, Working)
    [] OTHER -> Quiet

\* The native index keeps its invariant's types.
LEMMA NativeTypes ==
  ASSUME P!IInv
  PROVE  /\ P!TypeOK /\ todo \in [Clients -> Seq(P!Steps)] /\ added \in [Clients -> Nat]
         /\ commits \in Seq(SUBSET Native!Doc) /\ Len(commits) \in Nat \ {0}
         /\ Working \in SUBSET Native!Doc /\ Native!LastCommit \in SUBSET Native!Doc
         /\ Native!LastCommit = commits[Len(commits)]
<1>1. P!TypeOK
  BY DEF P!IInv
<1>2. P!LastCommit \in SUBSET P!Doc /\ P!Working \in SUBSET P!Doc
  BY <1>1, NativeAssumptions, P!CommitType, P!LiveType DEF P!Working, P!TypeOK
<1>3. Len(commits) \in Nat \ {0}
  BY <1>1 DEF P!TypeOK
<1> QED BY <1>1, <1>2, <1>3, SameSets DEF P!TypeOK, Native!LastCommit

\* The statements of a native method, one by one.
LEMMA Statements ==
  ASSUME P!IInv, NEW c \in Clients, Native!Step(c), ~Native!At(c, "search")
  PROVE  /\ todo[c] # <<>> /\ UNCHANGED <<arg, calls>>
         /\ \A e \in Clients : e # c => todo'[e] = todo[e]
         /\ todo'[c] \in {Tail(todo[c]), <<>>}
         /\ todo'[c] = Tail(todo[c]) \/ Head(todo[c]) \in {"convert", "term"}
              \/ (Head(todo[c]) = "lock" /\ poisoned)
         /\ Head(todo[c]) = "lock" /\ poisoned => todo'[c] = <<>>
         /\ StatementEffect(c, Head(todo[c]))
<1>1. P!Step(c)
  BY SameSteps
<1>2. todo \in [Clients -> Seq(P!Steps)] /\ P!TypeOK
  BY NativeTypes
<1>3. ASSUME P!Advance(c)
      PROVE  todo'[c] = Tail(todo[c]) /\ \A e \in Clients : e # c => todo'[e] = todo[e]
  BY <1>2, <1>3 DEF P!Advance
<1>4. ASSUME P!Return(c)
      PROVE  todo'[c] = <<>> /\ \A e \in Clients : e # c => todo'[e] = todo[e]
  BY <1>2, <1>4 DEF P!Return
<1>5. ASSUME UNCHANGED <<log, commits, added>> PROVE Quiet
  BY <1>5 DEF Quiet, Working, Native!LastCommit
<1>6. CASE P!Lock(c)
  BY <1>2, <1>4, <1>5, <1>6 DEF P!Lock, P!At, StatementEffect
<1>7. CASE P!Convert(c)
  BY <1>3, <1>4, <1>5, <1>7 DEF P!Convert, P!At, StatementEffect
<1>8. CASE P!Term(c)
  BY <1>3, <1>4, <1>5, <1>8 DEF P!Term, P!At, StatementEffect
<1>9. CASE P!Reload(c) \/ P!Search(c) \/ P!Fetch(c) \/ P!Count(c)
  BY <1>3, <1>5, <1>9 DEF P!Reload, P!Search, P!Fetch, P!Count, P!At, StatementEffect
<1>10. CASE P!AddDocument(c)
  <2>1. P!At(c, "add") /\ P!Advance(c) /\ UNCHANGED <<commits, arg, calls>>
        /\ added' = [added EXCEPT ![c] = @ + 1]
        /\ log' = Append(log, [kind |-> "add", doc |-> NextDoc(c)])
    BY <1>10 DEF P!AddDocument, P!Stage, NextDoc
  <2>2. NextDoc(c) \in P!Doc
    <3>1. [kind |-> "add", doc |-> NextDoc(c)] \in P!Op
      BY <2>1, NativeAssumptions, P!AddedDoc DEF NextDoc
    <3> QED BY <3>1 DEF P!Op
  <2>3. P!Working' = P!Working \cup {NextDoc(c)}
    BY <1>2, <2>1, <2>2, NativeAssumptions, P!StageAdd
  <2>4. Working' = Working \cup {NextDoc(c)}
    BY <2>3, SameSets, SameSetsNext
  <2> QED BY <1>3, <2>1, <2>4 DEF P!At, StatementEffect
<1>11. CASE P!DeleteTerm(c)
  <2>1. P!At(c, "delete_term") /\ P!Advance(c) /\ UNCHANGED <<commits, arg, calls, added>>
    BY <1>11 DEF P!DeleteTerm
  <2>2. arg[c].keys \subseteq Keys
    <3>1. todo[c][1] = "delete_term" /\ 1 \in 1..Len(todo[c])
      BY <2>1, NativeAssumptions, P!AtFacts
    <3>2. BadKey \notin arg[c].keys
      BY <3>1 DEF P!IInv, P!TermShape
    <3> QED BY ZenonT(60), <1>2, <3>2 DEF P!TypeOK, P!Arg
  <2>3. PICK k \in arg[c].keys : log' = Append(log, [kind |-> "delete", key |-> k])
    BY <1>11 DEF P!DeleteTerm, P!Stage
  <2>4. P!Working' = {d \in P!Working : d.key # k}
    BY <1>2, <2>1, <2>2, <2>3, NativeAssumptions, P!StageDelete
  <2>5. Working' = Without(Working, k)
    BY <2>4, SameSets, SameSetsNext DEF Without
  <2> QED BY <1>3, <2>1, <2>3, <2>5 DEF P!At, StatementEffect
<1>12. CASE P!DeleteAllDocuments(c)
  <2>1. P!At(c, "delete_all") /\ P!Advance(c) /\ UNCHANGED <<commits, arg, calls, added>>
        /\ log' = Append(log, [kind |-> "delete_all"])
    BY <1>12 DEF P!DeleteAllDocuments, P!Stage
  <2>2. P!Working' = {}
    BY <1>2, <2>1, NativeAssumptions, P!StageClear
  <2>3. Working' = {}
    BY <2>2, SameSets, SameSetsNext
  <2> QED BY <1>3, <2>1, <2>3 DEF P!At, StatementEffect
<1>13. CASE P!WriterCommit(c)
  <2>1. P!At(c, "commit") /\ P!Advance(c) /\ UNCHANGED <<arg, calls, added>>
        /\ commits' = Append(commits, P!Working) /\ log' = <<>>
    BY <1>13 DEF P!WriterCommit, P!Working
  <2>2. P!Working' = P!Working
    BY <1>2, <2>1, NativeAssumptions, P!CommitKeepsWorking
  <2>3. Working' = Working /\ commits' = Append(commits, Working)
    BY <2>1, <2>2, SameSets, SameSetsNext
  <2> QED BY <1>3, <2>1, <2>3 DEF P!At, StatementEffect
<1> QED BY <1>1, <1>6, <1>7, <1>8, <1>9, <1>10, <1>11, <1>12, <1>13 DEF P!Step

-----------------------------------------------------------------------------
(* Bodies *)

\* First statement and rest of the bodies of the operations.
LEMMA BodyParts ==
  /\ \A a : Head(<<a>>) = a /\ Tail(<<a>>) = <<>> /\ <<a>> # <<>>
  /\ \A a, b : Head(<<a, b>>) = a /\ Tail(<<a, b>>) = <<b>> /\ <<a, b>> # <<>>
  /\ \A a, b, d : Head(<<a, b, d>>) = a /\ Tail(<<a, b, d>>) = <<b, d>> /\ <<a, b, d>> # <<>>
<1>1. ASSUME NEW a PROVE Head(<<a>>) = a /\ Tail(<<a>>) = <<>> /\ <<a>> # <<>>
  OBVIOUS
<1>2. ASSUME NEW a, NEW b
      PROVE  Head(<<a, b>>) = a /\ Tail(<<a, b>>) = <<b>> /\ <<a, b>> # <<>>
  OBVIOUS
<1>3. ASSUME NEW a, NEW b, NEW d
      PROVE  Head(<<a, b, d>>) = a /\ Tail(<<a, b, d>>) = <<b, d>> /\ <<a, b, d>> # <<>>
  OBVIOUS
<1> QED BY <1>1, <1>2, <1>3

\* What the bodies of One start with, and what follows.
LEMMA OneParts ==
  ASSUME NEW k, NEW b, <<k, b>> \in One
  PROVE  \/ Head(b) = "encode" /\ <<k, Tail(b)>> \in One
         \/ Head(b) = "index_doc" /\ k \in {"add", "index"} /\ <<k, Tail(b)>> \in Brought
<1>1. CASE k = "add" /\ b = <<"encode", "index_doc">>
  BY <1>1, BodyParts DEF One
<1>2. CASE k = "add" /\ b = <<"index_doc">>
  BY <1>2, BodyParts DEF Brought
<1>3. CASE k = "index" /\ b = <<"encode", "index_doc", "commit">>
  BY <1>3, BodyParts DEF One
<1>4. CASE k = "index" /\ b = <<"index_doc", "commit">>
  BY <1>4, BodyParts DEF Brought
<1> QED BY <1>1, <1>2, <1>3, <1>4 DEF One

\* The same for a batch.
LEMMA ManyParts ==
  ASSUME NEW k, NEW b, <<k, b>> \in Many
  PROVE  \/ Head(b) = "encode" /\ <<k, Tail(b)>> \in Many
         \/ Head(b) = "index_docs" /\ k \in {"add", "index"} /\ <<k, Tail(b)>> \in Brought
<1>1. CASE k = "add" /\ b = <<"encode", "index_docs">>
  BY <1>1, BodyParts DEF Many
<1>2. CASE k = "add" /\ b = <<"index_docs">>
  BY <1>2, BodyParts DEF Brought
<1>3. CASE k = "index" /\ b = <<"encode", "index_docs", "commit">>
  BY <1>3, BodyParts DEF Many
<1>4. CASE k = "index" /\ b = <<"index_docs", "commit">>
  BY <1>4, BodyParts DEF Brought
<1> QED BY <1>1, <1>2, <1>3, <1>4 DEF Many

\* The same for the operations that start with a deletion or a commit.
LEMMA OtherParts ==
  ASSUME NEW k, NEW b, <<k, b>> \in Others
  PROVE  \/ Head(b) = "clear_index" /\ k = "clear" /\ Tail(b) = <<>>
         \/ Head(b) = "commit" /\ k = "commit" /\ Tail(b) = <<>>
         \/ Head(b) = "encode" /\ k = "upsert" /\ <<k, Tail(b)>> \in Others
         \/ Head(b) = "delete_doc" /\ k = "upsert" /\ Tail(b) = <<"index_doc">>
         \/ Head(b) = "delete_doc" /\ k = "delete" /\ Tail(b) = <<>>
         \/ Head(b) = "delete_doc_uncommitted" /\ k = "stage" /\ Tail(b) = <<>>
<1>1. CASE \/ k = "clear" /\ b = <<"clear_index">>
           \/ k = "commit" /\ b = <<"commit">>
           \/ k = "delete" /\ b = <<"delete_doc">>
           \/ k = "stage" /\ b = <<"delete_doc_uncommitted">>
  BY <1>1, BodyParts
<1>2. CASE k = "upsert" /\ b = <<"encode", "delete_doc", "index_doc">>
  BY <1>2, BodyParts DEF Others
<1>3. CASE k = "upsert" /\ b = <<"delete_doc", "index_doc">>
  BY <1>3, BodyParts
<1> QED BY <1>1, <1>2, <1>3 DEF Others

\* The same for a block that has brought its documents.
LEMMA BroughtParts ==
  ASSUME NEW k, NEW b, <<k, b>> \in Brought
  PROVE  b = <<>> \/ (k = "index" /\ b # <<>> /\ Head(b) = "commit" /\ Tail(b) = <<>>)
BY BodyParts DEF Brought

\* The last statement of a method is the one that leaves none.
LEMMA OneLeft ==
  ASSUME NEW s \in Seq(P!Steps), s # <<>>
  PROVE  Len(s) = 1 <=> Tail(s) = <<>>
<1>1. Len(s) \in Nat /\ Len(s) > 0 /\ Tail(s) \in Seq(P!Steps) /\ Len(Tail(s)) = Len(s) - 1
  OBVIOUS
<1>2. \A t \in Seq(P!Steps) : t = <<>> <=> Len(t) = 0
  BY SMTT(60)
<1> QED BY <1>1, <1>2

\* What is left after a statement is still the end of the method.
LEMMA LeftAfter ==
  ASSUME NEW s \in Seq(P!Steps), s # <<>>, NEW back, Len(back) \in Nat, LeftOf(s, back)
  PROVE  /\ Head(s) = back[Len(s)] /\ Len(s) \in 1..Len(back)
         /\ LeftOf(Tail(s), back) /\ Len(Tail(s)) = Len(s) - 1
         /\ Tail(s) \in Seq(P!Steps)
<1>1. /\ Tail(s) \in Seq(P!Steps) /\ Len(s) \in Nat /\ Len(s) > 0
      /\ Len(Tail(s)) = Len(s) - 1 /\ Head(s) = s[1]
      /\ \A i \in 1..(Len(s) - 1) : Tail(s)[i] = s[i + 1]
  BY EmptySeq, HeadTailProperties
<1>2. PICK n : n \in Nat /\ n = Len(s) /\ n > 0
  BY <1>1
<1>3. Head(s) = back[n]
  BY <1>1, <1>2 DEF LeftOf
<1>4. \A i \in 1..(n - 1) : Tail(s)[i] = back[(n - 1) - i + 1]
  <2> SUFFICES ASSUME NEW i \in 1..(n - 1) PROVE Tail(s)[i] = back[(n - 1) - i + 1]
    OBVIOUS
  <2>1. s[i + 1] = back[n - (i + 1) + 1]
    BY <1>2 DEF LeftOf
  <2>2. n - (i + 1) + 1 = (n - 1) - i + 1
    BY <1>2
  <2> QED BY <1>1, <1>2, <2>1, <2>2
<1> QED BY <1>1, <1>2, <1>3, <1>4 DEF LeftOf

\* The native methods, last statement first.
LEMMA Backs ==
  /\ Len(ClearBack) = 4 /\ ClearBack[1] = "reload" /\ ClearBack[2] = "commit"
  /\ ClearBack[3] = "delete_all" /\ ClearBack[4] = "lock"
  /\ Len(CommitBack) = 3 /\ CommitBack[1] = "reload" /\ CommitBack[2] = "commit"
  /\ CommitBack[3] = "lock"
  /\ Len(DeleteBack) = 5 /\ DeleteBack[1] = "reload" /\ DeleteBack[2] = "commit"
  /\ DeleteBack[3] = "delete_term" /\ DeleteBack[4] = "lock" /\ DeleteBack[5] = "term"
  /\ Len(StageBack) = 3 /\ StageBack[1] = "delete_term" /\ StageBack[2] = "lock"
  /\ StageBack[3] = "term"
BY DEF ClearBack, CommitBack, DeleteBack, StageBack

\* Before its first statement all of a method is left, after its last nothing.
LEMMA WholeMethods ==
  /\ LeftOf(<<"lock", "delete_all", "commit", "reload">>, ClearBack)
  /\ Len(<<"lock", "delete_all", "commit", "reload">>) = 4
  /\ LeftOf(<<"lock", "commit", "reload">>, CommitBack) /\ Len(<<"lock", "commit", "reload">>) = 3
  /\ LeftOf(<<"term", "lock", "delete_term", "commit", "reload">>, DeleteBack)
  /\ Len(<<"term", "lock", "delete_term", "commit", "reload">>) = 5
  /\ LeftOf(<<"term", "lock", "delete_term">>, StageBack)
  /\ Len(<<"term", "lock", "delete_term">>) = 3
<1>1. ASSUME NEW s, s = <<"lock", "delete_all", "commit", "reload">>
      PROVE  LeftOf(s, ClearBack) /\ Len(s) = 4
  BY <1>1, Backs DEF LeftOf
<1>2. ASSUME NEW s, s = <<"lock", "commit", "reload">>
      PROVE  LeftOf(s, CommitBack) /\ Len(s) = 3
  BY <1>2, Backs DEF LeftOf
<1>3. ASSUME NEW s, s = <<"term", "lock", "delete_term", "commit", "reload">>
      PROVE  LeftOf(s, DeleteBack) /\ Len(s) = 5
  BY <1>3, Backs DEF LeftOf
<1>4. ASSUME NEW s, s = <<"term", "lock", "delete_term">>
      PROVE  LeftOf(s, StageBack) /\ Len(s) = 3
  BY <1>4, Backs DEF LeftOf
<1> QED BY <1>1, <1>2, <1>3, <1>4

\* The key, the documents and the kind of an operation in its block.
LEMMA Parts ==
  ASSUME IInv, NEW c \in Clients, run[c] # Idle
  PROVE  /\ mutex = c /\ InBlock(c)
         /\ run[c].kind \in Kinds /\ run[c].key \in Keys \cup {BadKey}
         /\ run[c].docs \in Seq(Native!Input) /\ run[c].mine \in Nat
         /\ run[c].before \in SUBSET Native!Doc /\ run[c].durable \in SUBSET Native!Doc
         /\ run[c].failed \in {"no", "encode", "native"}
<1>1. mutex = c /\ InBlock(c)
  BY DEF IInv, TypeOK, BlockInv
<1>2. run[c] \in Run
  BY <1>1 DEF InBlock
<1> QED BY <1>1, <1>2 DEF Run

\* A client inside the native object is in a block, and no block searches.
LEMMA InNative ==
  ASSUME IInv, NEW c \in Clients, todo[c] # <<>>
  PROVE  /\ run[c] # Idle /\ mutex = c /\ run[c].failed = "no"
         /\ Taking(c) \/ Adding(c) \/ Publishing(c)
         /\ ~Native!At(c, "search")
<1>1. InBlock(c) /\ mutex = c
  BY DEF IInv, TypeOK, BlockInv
<1>2. run[c] # Idle
  BY <1>1 DEF InBlock, Idle
<1>3. run[c].failed = "no" /\ (Taking(c) \/ Adding(c) \/ Publishing(c))
  BY <1>1 DEF InBlock, Goes, Threw, Starting
<1>4. todo[c] \in Seq(P!Steps) /\ Len(todo[c]) \in 1..Len(todo[c]) /\ Head(todo[c]) = todo[c][1]
      /\ 1 \in 1..Len(todo[c])
  <2>1. todo[c] \in Seq(P!Steps)
    BY NativeTypes DEF IInv
  <2> QED BY <2>1
<1>5. ASSUME NEW back \in {ClearBack, CommitBack, DeleteBack, StageBack}, LeftOf(todo[c], back)
      PROVE  Head(todo[c]) # "search"
  BY SMTT(60), <1>4, <1>5, LeftAfter, Backs
<1>6. Head(todo[c]) # "search"
  BY <1>3, <1>4, <1>5 DEF Taking, Removing, Adding, AddsLeft, Publishing
<1> QED BY <1>1, <1>2, <1>3, <1>6 DEF Native!At

-----------------------------------------------------------------------------
(* What a block calls next *)

\* No document has the bad key, so an operation without a key deletes nothing.
LEMMA WithoutBad == \A docs \in SUBSET Native!Doc : Without(docs, BadKey) = docs
BY MarksAssumption DEF Without, Native!Doc

\* A block about to run a statement of its body is between native calls.
LEMMA AtBody ==
  ASSUME IInv, NEW c \in Clients, NEW step, At(c, step)
  PROVE  /\ run[c] # Idle /\ mutex = c /\ InBlock(c) /\ todo[c] = <<>>
         /\ run[c].failed = "no" /\ Goes(c)
         /\ run[c].body # <<>> /\ Head(run[c].body) = step
<1>1. run[c] # Idle
  BY DEF At, Idle
<1> QED BY <1>1, Parts DEF At, InBlock

\* A block that is about to check its documents has done nothing so far.
LEMMA AtEncode ==
  ASSUME IInv, NEW c \in Clients, At(c, "encode")
  PROVE  /\ Starting(c)
         /\ \/ <<run[c].kind, Tail(run[c].body)>> \in One /\ Len(run[c].docs) = 1
            \/ <<run[c].kind, Tail(run[c].body)>> \in Many /\ run[c].docs \in Batches
            \/ <<run[c].kind, Tail(run[c].body)>> \in Others
<1>1. Goes(c) /\ Head(run[c].body) = "encode" /\ run[c].body # <<>>
  BY AtBody
<1>2. Starting(c)
  BY <1>1, BodyParts, BroughtParts DEF Goes, Taking, Removing, Adding, Publishing
<1> QED BY <1>1, <1>2, OneParts, ManyParts, OtherParts DEF Starting

\* What a block has done when it brings its documents.
LEMMA AtDocuments ==
  ASSUME IInv, NEW c \in Clients, At(c, "index_doc") \/ At(c, "index_docs")
  PROVE  /\ <<run[c].kind, Tail(run[c].body)>> \in Brought
         /\ At(c, "index_doc") => Len(run[c].docs) = 1
         /\ At(c, "index_docs") => run[c].docs \in Batches
         /\ Working = Removed(c)
         /\ Native!LastCommit = IF run[c].kind = "upsert" THEN Removed(c) ELSE run[c].durable
<1>1. /\ Goes(c) /\ run[c].body # <<>> /\ todo[c] = <<>> /\ InBlock(c) /\ run[c] # Idle
      /\ \/ Head(run[c].body) = "index_doc" /\ At(c, "index_doc") /\ ~At(c, "index_docs")
         \/ Head(run[c].body) = "index_docs" /\ At(c, "index_docs") /\ ~At(c, "index_doc")
  <2>1. At(c, "index_doc") => ~At(c, "index_docs")
    BY DEF At
  <2> QED BY <2>1, AtBody
<1>2. ASSUME run[c].kind \in {"add", "index"} PROVE Removed(c) = run[c].before
  BY <1>1, <1>2, Parts, WithoutBad DEF InBlock, ArgsOK, Removed
<1>3. CASE Starting(c)
  <2>1. run[c].kind \in {"add", "index"} /\ <<run[c].kind, Tail(run[c].body)>> \in Brought
    BY ZenonT(60), <1>1, <1>3, OneParts, ManyParts, OtherParts DEF Starting
  <2>2. /\ At(c, "index_doc") => Len(run[c].docs) = 1
        /\ At(c, "index_docs") => run[c].docs \in Batches
    BY <1>1, <1>3, OneParts, ManyParts, OtherParts DEF Starting
  <2> QED BY <1>2, <1>3, <2>1, <2>2 DEF Starting
<1>4. CASE Taking(c)
  <2>1. Len(todo[c]) = 0
    BY <1>1
  <2>2. Removing(c, "upsert", <<"index_doc">>, DeleteBack, 3, 2)
    BY <1>1, <1>4, BodyParts DEF Taking, Removing
  <2>3. Len(run[c].docs) = 1
    BY <1>1, <2>2 DEF InBlock, ArgsOK, Removing
  <2> QED BY <1>1, <2>1, <2>2, <2>3, BodyParts DEF Removing, Brought
<1>5. ~Adding(c) /\ ~Publishing(c)
  BY <1>1, BroughtParts DEF Adding, Publishing
<1> QED BY <1>1, <1>3, <1>4, <1>5 DEF Goes

\* What a block has done when it deletes or commits.
LEMMA AtOther ==
  ASSUME IInv, NEW c \in Clients
  PROVE  /\ At(c, "clear_index") => Starting(c) /\ run[c].kind = "clear" /\ Tail(run[c].body) = <<>>
         /\ At(c, "delete_doc") =>
              /\ Starting(c)
              /\ <<run[c].kind, Tail(run[c].body)>> \in
                   {<<"delete", <<>>>>, <<"upsert", <<"index_doc">>>>}
         /\ At(c, "delete_doc_uncommitted") =>
              Starting(c) /\ run[c].kind = "stage" /\ Tail(run[c].body) = <<>>
         /\ At(c, "commit") => /\ Tail(run[c].body) = <<>>
                               /\ \/ Starting(c) /\ run[c].kind = "commit"
                                  \/ Adding(c) /\ run[c].kind = "index"
<1>1. ASSUME NEW step, At(c, step)
      PROVE  Goes(c) /\ run[c].body # <<>> /\ Head(run[c].body) = step
  BY <1>1, AtBody
<1>2. ASSUME NEW step, At(c, step), Starting(c)
      PROVE  \/ step = "encode" \/ step = "index_doc" \/ step = "index_docs"
             \/ step = "clear_index" /\ run[c].kind = "clear" /\ Tail(run[c].body) = <<>>
             \/ step = "commit" /\ run[c].kind = "commit" /\ Tail(run[c].body) = <<>>
             \/ /\ step = "delete_doc"
                /\ \/ run[c].kind = "delete" /\ Tail(run[c].body) = <<>>
                   \/ run[c].kind = "upsert" /\ Tail(run[c].body) = <<"index_doc">>
             \/ step = "delete_doc_uncommitted" /\ run[c].kind = "stage"
                /\ Tail(run[c].body) = <<>>
  BY ZenonT(60), <1>1, <1>2, OneParts, ManyParts, OtherParts DEF Starting
<1>3. ASSUME NEW step, At(c, step), Taking(c) PROVE step = "index_doc"
  BY <1>1, <1>3, BodyParts DEF Taking, Removing
<1>4. ASSUME NEW step, At(c, step), Adding(c)
      PROVE  step = "commit" /\ run[c].kind = "index" /\ Tail(run[c].body) = <<>>
  BY <1>1, <1>4, BroughtParts DEF Adding
<1>5. ASSUME NEW step, At(c, step) PROVE ~Publishing(c)
  BY <1>1, <1>5 DEF Publishing
<1> QED BY SMTT(60), <1>1, <1>2, <1>3, <1>4, <1>5 DEF Goes

\* Whatever a block or its client does is a step of the native object or
\* leaves it alone.
LEMMA NativeNext == ASSUME IInv, [Next]_vars PROVE [P!Next]_P!vars
<1>1. ASSUME NEW c \in Clients, P!Write(c) \/ P!Step(c) \/ P!EngineError(c) \/ P!Panic(c)
      PROVE  P!Next
  BY <1>1 DEF P!Next
<1>2. ASSUME UNCHANGED native PROVE [P!Next]_P!vars
  BY <1>2, SameFaults
<1>3. ASSUME NEW c \in Clients, Begin(c) PROVE UNCHANGED native
  BY <1>3 DEF Begin, clear, add, addAll, index, indexAll, commit, upsert, deleteDoc,
     deleteDocWithoutCommit, locked, Block
<1>4. ASSUME NEW c \in Clients, Encode(c) \/ Leave(c) PROVE UNCHANGED native
  BY <1>4 DEF Encode, Leave
<1>5. ASSUME NEW c \in Clients, CallWithDocuments(c) PROVE P!Write(c)
  <2>1. CASE At(c, "index_doc") /\ Native!index_doc(c, run[c].docs[1])
    <3>1. run[c].docs \in Seq(Native!Input) /\ Len(run[c].docs) = 1
      BY <2>1, AtBody, AtDocuments, Parts
    <3>2. run[c].docs[1] \in Native!Input
      BY <3>1
    <3> QED BY <2>1, <3>2, SameCalls
  <2>2. CASE At(c, "index_docs") /\ Native!index_docs(c, run[c].docs)
    BY <2>2, AtDocuments, SameCalls
  <2> QED BY <1>5, <2>1, <2>2 DEF CallWithDocuments
<1>6. ASSUME NEW c \in Clients, CallWithout(c) PROVE P!Write(c)
  <2>1. run[c].key \in Keys \cup {BadKey}
    BY <1>6, AtBody, Parts DEF CallWithout
  <2> QED BY <1>6, <2>1, SameCalls DEF CallWithout
<1>7. ASSUME NEW c \in Clients, Statement(c) PROVE P!Step(c)
  <2>1. Native!Step(c) /\ todo[c] # <<>>
    BY <1>7 DEF Statement, Native!Step, Native!Lock, Native!Convert, Native!Term,
       Native!AddDocument, Native!DeleteTerm, Native!DeleteAllDocuments, Native!WriterCommit,
       Native!Reload, Native!Search, Native!Fetch, Native!Count, Native!At
  <2> QED BY SMTT(60), <2>1, InNative, SameSteps
<1>8. ASSUME NEW c \in Clients, Fault(c) PROVE P!EngineError(c) \/ P!Panic(c)
  BY <1>8, SameFaults DEF Fault
<1>9. ASSUME Die \/ Reload PROVE P!Next
  BY <1>9, SameFaults DEF Die, Reload, P!Next
<1>10. CASE UNCHANGED vars
  BY <1>2, <1>10 DEF vars
<1> QED
  BY <1>1, <1>2, <1>3, <1>4, <1>5, <1>6, <1>7, <1>8, <1>9, <1>10 DEF Next, Step

\* The native index keeps its invariant inside the typed one.
LEMMA NativeInv == ASSUME IInv, [Next]_vars PROVE P!IInv'
BY NativeNext, NativeAssumptions, P!NextInv DEF IInv

\* Whoever leaves a native method leaves without the writer.
LEMMA HolderStep == ASSUME IInv, [Next]_vars PROVE HolderInv'
<1>1. /\ todo \in [Clients -> Seq(P!Steps)] /\ Free \notin Clients
      /\ \A c \in Clients : writer = c => todo[c] # <<>>
  BY NativeTypes, MarksAssumption DEF IInv, HolderInv
<1>2. ASSUME NEW c \in Clients, P!Advance(c), todo[c] # <<>> PROVE HolderInv'
  <2>1. todo'[c] = Tail(todo[c]) /\ \A e \in Clients : e # c => todo'[e] = todo[e]
    BY <1>1, <1>2 DEF P!Advance
  <2>2. Len(todo[c]) # 1 => Tail(todo[c]) # <<>>
    <3>1. todo[c] \in Seq(P!Steps) /\ todo[c] # <<>>
      BY <1>1, <1>2
    <3> QED BY <3>1, OneLeft
  <2> QED BY <1>1, <1>2, <2>1, <2>2 DEF P!Advance, HolderInv
<1>3. ASSUME NEW c \in Clients, P!Return(c) PROVE HolderInv'
  BY <1>1, <1>3 DEF P!Return, HolderInv
<1>4. ASSUME NEW c \in Clients, P!Lock(c) PROVE HolderInv'
  <2>1. CASE poisoned
    BY <1>3, <1>4, <2>1 DEF P!Lock
  <2>2. CASE ~poisoned
    <3>1. /\ todo[c] # <<>> /\ todo'[c] = Tail(todo[c])
          /\ \A e \in Clients : e # c => todo'[e] = todo[e]
          /\ writer = Free /\ writer' = IF Len(todo[c]) = 1 THEN Free ELSE c
      BY <1>1, <1>4, <2>2 DEF P!Lock, P!At
    <3>2. Len(todo[c]) # 1 => Tail(todo[c]) # <<>>
      <4>1. todo[c] \in Seq(P!Steps) /\ todo[c] # <<>>
        BY <1>1, <3>1
      <4> QED BY <4>1, OneLeft
    <3> QED BY <1>1, <3>1, <3>2 DEF HolderInv
  <2> QED BY <2>1, <2>2
<1>5. ASSUME NEW c \in Clients, P!Step(c) PROVE HolderInv'
  BY <1>2, <1>3, <1>4, <1>5 DEF P!Step, P!Convert, P!Term, P!AddDocument, P!DeleteTerm,
     P!DeleteAllDocuments, P!WriterCommit, P!Reload, P!Search, P!Fetch, P!Count, P!At
<1>6. ASSUME NEW c \in Clients, P!EngineError(c) \/ P!Panic(c) PROVE HolderInv'
  BY <1>3, <1>6 DEF P!EngineError, P!Panic
<1>7. ASSUME NEW c \in Clients, NEW s, NEW b, NEW k, NEW n, P!Invoke(c, s, b, k, n)
      PROVE  HolderInv'
  BY <1>1, <1>7 DEF P!Invoke, P!shared, HolderInv
<1>8. ASSUME NEW c \in Clients, P!Write(c) \/ P!Read(c) PROVE HolderInv'
  BY <1>7, <1>8, P!MethodBodies, NativeAssumptions
<1>9. CASE P!Restart
  BY <1>1, <1>9 DEF P!Restart, HolderInv
<1>10. CASE P!BackgroundLoad \/ P!BackgroundPublish \/ UNCHANGED P!vars
  BY <1>1, <1>10 DEF P!BackgroundLoad, P!BackgroundPublish, P!local, P!vars, P!shared, HolderInv
<1> QED BY NativeNext, <1>5, <1>6, <1>8, <1>9, <1>10 DEF P!Next

-----------------------------------------------------------------------------
(* One block at a time *)

\* While one client is in a block, or about to enter one, the others are idle.
LEMMA Alone ==
  ASSUME IInv, NEW c \in Clients, mutex \in {c, Free}
  PROVE  \A e \in Clients : e # c => run[e] = Idle /\ todo[e] = <<>>
BY MarksAssumption DEF IInv, TypeOK

\* A client that moves alone need only look after himself.
LEMMA OwnBlock ==
  ASSUME IInv, NEW c \in Clients, mutex \in {c, Free},
         \A e \in Clients : e # c => run'[e] = run[e] /\ todo'[e] = todo[e],
         (run'[c] = Idle /\ todo'[c] = <<>>) \/ InBlock(c)'
  PROVE  BlockInv'
<1>1. \A e \in Clients : e # c => run'[e] = Idle /\ todo'[e] = <<>>
  BY Alone
<1> QED BY <1>1 DEF BlockInv, Idle

\* A block that begins has done nothing.
LEMMA LockedStep ==
  ASSUME IInv, NEW c \in Clients, NEW kind \in Kinds \ {"none"}, NEW body \in Seq(BodySteps),
         NEW key \in Keys \cup {BadKey}, NEW docs \in Seq(Native!Input),
         kind \in {"upsert", "delete", "stage"} \/ key = BadKey,
         kind \in {"add", "index", "upsert"} \/ docs = <<>>,
         kind = "upsert" => Len(docs) = 1 /\ key = docs[1].key,
         \/ <<kind, body>> \in One /\ Len(docs) = 1
         \/ <<kind, body>> \in Many /\ docs \in Batches
         \/ <<kind, body>> \in Others,
         locked(c, kind, body, key, docs)
  PROVE  BlockInv'
<1>1. /\ run' = [run EXCEPT ![c] = [kind |-> kind, body |-> body, key |-> key, docs |-> docs,
                                    before |-> Working, durable |-> Native!LastCommit,
                                    mine |-> 0, failed |-> "no"]]
      /\ DOMAIN run = Clients /\ run[c] = Idle /\ UNCHANGED native /\ mutex = Free
  BY DEF locked, Block, IInv, TypeOK
<1>2. todo'[c] = <<>> /\ \A e \in Clients : e # c => run'[e] = run[e] /\ todo'[e] = todo[e]
  BY <1>1 DEF native, IInv, BlockInv, InBlock, Idle
<1>3. Working' = Working /\ Native!LastCommit' = Native!LastCommit
  BY <1>1 DEF native, Working, Native!LastCommit
<1>4. Working \in SUBSET Native!Doc /\ Native!LastCommit \in SUBSET Native!Doc
  BY NativeTypes DEF IInv
<1>5. run'[c] = [kind |-> kind, body |-> body, key |-> key, docs |-> docs,
                 before |-> Working, durable |-> Native!LastCommit,
                 mine |-> 0, failed |-> "no"]
  BY <1>1
<1>6. run'[c] \in Run
  BY <1>4, <1>5 DEF Run
<1>7. Starting(c)'
  BY <1>2, <1>3, <1>5 DEF Starting
<1>8. InBlock(c)'
  BY <1>5, <1>6, <1>7 DEF InBlock, ArgsOK, Goes
<1> QED BY <1>1, <1>2, <1>8, OwnBlock

\* Every operation begins so.
LEMMA BeginStep == ASSUME IInv, NEW c \in Clients, Begin(c) PROVE BlockInv'
<1>1. \A d \in [key : Keys, valid : BOOLEAN] :
        d \in Native!Input /\ <<d>> \in Seq(Native!Input) /\ Len(<<d>>) = 1 /\ <<d>>[1] = d
  BY DEF Native!Input
<1>2. \A b \in Batches : b \in Seq(Native!Input)
  BY BatchesAssumption DEF Native!Input
<1>3. <<>> \in Seq(Native!Input) /\ BadKey \in Keys \cup {BadKey}
  OBVIOUS
<1>4. CASE clear(c)
  <2>1. <<"clear", <<"clear_index">>>> \in Others /\ <<"clear_index">> \in Seq(BodySteps)
        /\ "clear" \in Kinds \ {"none"}
    BY DEF Others, Kinds, BodySteps
  <2> QED BY <1>3, <1>4, <2>1, LockedStep DEF clear
<1>5. CASE commit(c)
  <2>1. <<"commit", <<"commit">>>> \in Others /\ <<"commit">> \in Seq(BodySteps)
        /\ "commit" \in Kinds \ {"none"}
    BY DEF Others, Kinds, BodySteps
  <2> QED BY <1>3, <1>5, <2>1, LockedStep DEF commit
<1>6. ASSUME NEW d \in [key : Keys, valid : BOOLEAN], add(c, d) PROVE BlockInv'
  <2>1. <<"add", <<"encode", "index_doc">>>> \in One /\ <<"encode", "index_doc">> \in Seq(BodySteps)
        /\ "add" \in Kinds \ {"none"}
    BY DEF One, Kinds, BodySteps
  <2> QED BY <1>1, <1>3, <1>6, <2>1, LockedStep DEF add
<1>7. ASSUME NEW d \in [key : Keys, valid : BOOLEAN], index(c, d) PROVE BlockInv'
  <2>1. <<"index", <<"encode", "index_doc", "commit">>>> \in One
        /\ <<"encode", "index_doc", "commit">> \in Seq(BodySteps) /\ "index" \in Kinds \ {"none"}
    BY DEF One, Kinds, BodySteps
  <2> QED BY <1>1, <1>3, <1>7, <2>1, LockedStep DEF index
<1>8. ASSUME NEW d \in [key : Keys, valid : BOOLEAN], upsert(c, d) PROVE BlockInv'
  <2>1. <<"upsert", <<"encode", "delete_doc", "index_doc">>>> \in Others
        /\ <<"encode", "delete_doc", "index_doc">> \in Seq(BodySteps) /\ "upsert" \in Kinds \ {"none"}
    BY DEF Others, Kinds, BodySteps
  <2>2. d.key \in Keys \cup {BadKey}
    OBVIOUS
  <2> QED BY <1>1, <1>8, <2>1, <2>2, LockedStep DEF upsert
<1>9. ASSUME NEW b \in Batches, addAll(c, b) PROVE BlockInv'
  <2>1. <<"add", <<"encode", "index_docs">>>> \in Many /\ <<"encode", "index_docs">> \in Seq(BodySteps)
        /\ "add" \in Kinds \ {"none"}
    BY DEF Many, Kinds, BodySteps
  <2> QED BY <1>2, <1>3, <1>9, <2>1, LockedStep DEF addAll
<1>10. ASSUME NEW b \in Batches, indexAll(c, b) PROVE BlockInv'
  <2>1. <<"index", <<"encode", "index_docs", "commit">>>> \in Many
        /\ <<"encode", "index_docs", "commit">> \in Seq(BodySteps) /\ "index" \in Kinds \ {"none"}
    BY DEF Many, Kinds, BodySteps
  <2> QED BY <1>2, <1>3, <1>10, <2>1, LockedStep DEF indexAll
<1>11. ASSUME NEW k \in Keys \cup {BadKey}, deleteDoc(c, k) PROVE BlockInv'
  <2>1. <<"delete", <<"delete_doc">>>> \in Others /\ <<"delete_doc">> \in Seq(BodySteps)
        /\ "delete" \in Kinds \ {"none"}
    BY DEF Others, Kinds, BodySteps
  <2> QED BY <1>3, <1>11, <2>1, LockedStep DEF deleteDoc
<1>12. ASSUME NEW k \in Keys \cup {BadKey}, deleteDocWithoutCommit(c, k) PROVE BlockInv'
  <2>1. <<"stage", <<"delete_doc_uncommitted">>>> \in Others
        /\ <<"delete_doc_uncommitted">> \in Seq(BodySteps) /\ "stage" \in Kinds \ {"none"}
    BY DEF Others, Kinds, BodySteps
  <2> QED BY <1>3, <1>12, <2>1, LockedStep DEF deleteDocWithoutCommit
<1> QED BY <1>4, <1>5, <1>6, <1>7, <1>8, <1>9, <1>10, <1>11, <1>12 DEF Begin

\* A step of a block's own leaves everybody else's operation as it is.
LEMMA RunStep ==
  ASSUME IInv, NEW c \in Clients, NEW r, run' = [run EXCEPT ![c] = r]
  PROVE  run'[c] = r /\ \A e \in Clients : e # c => run'[e] = run[e]
BY DEF IInv, TypeOK

\* The documents are checked, or refused, before anything happens.
LEMMA EncodeStep == ASSUME IInv, NEW c \in Clients, Encode(c) PROVE BlockInv'
<1>1. /\ run[c] # Idle /\ mutex = c /\ InBlock(c) /\ todo[c] = <<>> /\ run[c].failed = "no"
      /\ Starting(c) /\ run[c] \in Run /\ run[c].body # <<>>
      /\ \/ <<run[c].kind, Tail(run[c].body)>> \in One /\ Len(run[c].docs) = 1
         \/ <<run[c].kind, Tail(run[c].body)>> \in Many /\ run[c].docs \in Batches
         \/ <<run[c].kind, Tail(run[c].body)>> \in Others
  BY AtBody, AtEncode DEF Encode, InBlock
<1>2. UNCHANGED native /\ Working' = Working /\ Native!LastCommit' = Native!LastCommit
      /\ \A e \in Clients : todo'[e] = todo[e]
  BY DEF Encode, native, Working, Native!LastCommit
<1>3. Tail(run[c].body) \in Seq(BodySteps)
  <2>1. run[c].body \in Seq(BodySteps)
    BY <1>1 DEF Run
  <2> QED BY <1>1, <2>1
<1>4. CASE run' = [run EXCEPT ![c].body = Tail(@)]
  <2>1. PICK r : r = [run[c] EXCEPT !.body = Tail(run[c].body)] /\ run' = [run EXCEPT ![c] = r]
    BY <1>4
  <2>2. /\ r \in Run /\ r.body = Tail(run[c].body) /\ r.kind = run[c].kind /\ r.key = run[c].key
        /\ r.docs = run[c].docs /\ r.mine = run[c].mine /\ r.failed = "no"
        /\ r.before = run[c].before /\ r.durable = run[c].durable
    BY <1>1, <1>3, <2>1 DEF Run
  <2>3. run'[c] = r /\ \A e \in Clients : e # c => run'[e] = run[e]
    BY <2>1, RunStep
  <2>4. Starting(c)'
    BY <1>1, <1>2, <2>2, <2>3 DEF Starting
  <2>5. InBlock(c)'
    BY <1>1, <2>2, <2>3, <2>4 DEF InBlock, ArgsOK, Goes
  <2> QED BY <1>1, <1>2, <2>3, <2>5, OwnBlock
<1>5. CASE Throw(c, "encode")
  <2>1. PICK r : r = [run[c] EXCEPT !.failed = "encode"] /\ run' = [run EXCEPT ![c] = r]
    BY <1>5 DEF Throw
  <2>2. /\ r \in Run /\ r.kind = run[c].kind /\ r.key = run[c].key
        /\ r.docs = run[c].docs /\ r.failed = "encode"
        /\ r.before = run[c].before /\ r.durable = run[c].durable
    BY <1>1, <2>1 DEF Run
  <2>3. run'[c] = r /\ \A e \in Clients : e # c => run'[e] = run[e]
    BY <2>1, RunStep
  <2>4. Threw(c)'
    BY <1>1, <1>2, <2>2, <2>3 DEF Starting, Threw
  <2>5. InBlock(c)'
    BY <1>1, <2>2, <2>3, <2>4 DEF InBlock, ArgsOK
  <2> QED BY <1>1, <1>2, <2>3, <2>5, OwnBlock
<1> QED BY <1>4, <1>5 DEF Encode

-----------------------------------------------------------------------------
(* A block makes a native call *)

\* A native call begins: its statements and arguments are there, the index is
\* as it was.
LEMMA InvokeEffect ==
  ASSUME IInv, NEW c \in Clients, NEW s, NEW b, NEW k, Native!Invoke(c, s, b, k, 0)
  PROVE  /\ todo'[c] = s /\ todo[c] = <<>> /\ \A e \in Clients : e # c => todo'[e] = todo[e]
         /\ arg'[c].n = calls + 1 /\ arg'[c].batch = b /\ arg'[c].keys = k
         /\ added'[c] = 0 /\ calls \in Nat
         /\ UNCHANGED <<log, commits>>
         /\ Working' = Working /\ Native!LastCommit' = Native!LastCommit
<1>1. P!TypeOK
  BY DEF IInv, P!IInv
<1>2. UNCHANGED <<log, commits>>
  BY DEF Native!Invoke, Native!shared
<1>3. Working' = Working /\ Native!LastCommit' = Native!LastCommit
  BY <1>2 DEF Working, Native!LastCommit
<1> QED BY <1>1, <1>2, <1>3, BoundsAssumption DEF Native!Invoke, P!TypeOK

\* Of the statements of index_docs the last n are the additions.
LEMMA BatchBody ==
  ASSUME NEW n \in Nat, NEW s,
         s = Native!Repeat("convert", n) \o <<"lock">> \o Native!Repeat("add", n)
  PROVE  /\ Len(s) \in Nat /\ n <= Len(s)
         /\ \A i \in 1..Len(s) : /\ s[i] \in {"convert", "lock", "add"}
                                 /\ s[i] = "add" <=> i > Len(s) - n
<1>1. s = P!Repeat("convert", n) \o <<"lock">> \o P!Repeat("add", n)
  BY DEF Native!Repeat, P!Repeat
<1>2. /\ Len(s) = n + 1 + n
      /\ \A i \in 1..(n + 1 + n) :
           s[i] = IF i <= n THEN "convert" ELSE IF i = n + 1 THEN "lock" ELSE "add"
  BY <1>1, NativeAssumptions, P!BatchStatements
<1> QED BY <1>2

\* The documents cross to the native side.
LEMMA DocumentsStep == ASSUME IInv, NEW c \in Clients, CallWithDocuments(c) PROVE BlockInv'
<1>1. /\ run[c] # Idle /\ mutex = c /\ InBlock(c) /\ run[c].failed = "no" /\ run[c] \in Run
      /\ <<run[c].kind, Tail(run[c].body)>> \in Brought
      /\ Working = Removed(c)
      /\ Native!LastCommit = IF run[c].kind = "upsert" THEN Removed(c) ELSE run[c].durable
      /\ run[c].docs \in Seq(Native!Input) /\ run[c].body \in Seq(BodySteps) /\ run[c].body # <<>>
  <2>1. At(c, "index_doc") \/ At(c, "index_docs")
    BY DEF CallWithDocuments
  <2> QED BY <2>1, AtBody, AtDocuments DEF InBlock, Run
<1>2. PICK n \in Nat : n = Len(run[c].docs)
  BY SMTT(60), <1>1
<1>3. /\ todo[c] = <<>> /\ \A e \in Clients : e # c => todo'[e] = todo[e]
      /\ arg'[c].n = calls + 1 /\ arg'[c].batch = run[c].docs /\ added'[c] = 0 /\ calls \in Nat
      /\ Working' = Working /\ Native!LastCommit' = Native!LastCommit
      /\ n <= Len(todo'[c]) /\ Len(todo'[c]) \in Nat
      /\ \A i \in 1..Len(todo'[c]) : /\ todo'[c][i] \in {"convert", "lock", "add"}
                                     /\ todo'[c][i] = "add" <=> i > Len(todo'[c]) - n
  <2>1. CASE At(c, "index_doc") /\ Native!index_doc(c, run[c].docs[1])
    <3>1. Native!Invoke(c, <<"lock", "convert", "add">>, <<run[c].docs[1]>>, {}, 0)
      BY <2>1 DEF Native!index_doc
    <3>2. n = 1 /\ <<run[c].docs[1]>> = run[c].docs
      BY <1>1, <1>2, <2>1, AtDocuments
    <3>3. ASSUME NEW s, s = <<"lock", "convert", "add">>
          PROVE  /\ Len(s) = 3
                 /\ \A i \in 1..Len(s) : /\ s[i] \in {"convert", "lock", "add"}
                                         /\ s[i] = "add" <=> i > Len(s) - n
      BY <3>2, <3>3
    <3>4. PICK s : s = <<"lock", "convert", "add">>
      OBVIOUS
    <3>5. /\ Len(s) = 3
          /\ \A i \in 1..Len(s) : /\ s[i] \in {"convert", "lock", "add"}
                                  /\ s[i] = "add" <=> i > Len(s) - n
      BY <3>3, <3>4
    <3>6. Native!Invoke(c, s, run[c].docs, {}, 0)
      BY <3>1, <3>2, <3>4
    <3>7. /\ todo'[c] = s
          /\ todo[c] = <<>> /\ \A e \in Clients : e # c => todo'[e] = todo[e]
          /\ arg'[c].n = calls + 1 /\ arg'[c].batch = run[c].docs /\ added'[c] = 0 /\ calls \in Nat
          /\ Working' = Working /\ Native!LastCommit' = Native!LastCommit
      BY <3>6, InvokeEffect
    <3>8. n <= Len(s) /\ Len(s) \in Nat
      BY <3>2, <3>5
    <3> QED BY <3>5, <3>7, <3>8
  <2>2. CASE At(c, "index_docs") /\ Native!index_docs(c, run[c].docs)
    <3>1. Native!Invoke(c, Native!Repeat("convert", n) \o <<"lock">> \o Native!Repeat("add", n),
                        run[c].docs, {}, 0)
      BY <1>2, <2>2 DEF Native!index_docs
    <3>2. PICK s : s = Native!Repeat("convert", n) \o <<"lock">> \o Native!Repeat("add", n)
      OBVIOUS
    <3>a. Native!Invoke(c, s, run[c].docs, {}, 0)
      BY <3>1, <3>2
    <3>3. /\ todo'[c] = s
          /\ todo[c] = <<>> /\ \A e \in Clients : e # c => todo'[e] = todo[e]
          /\ arg'[c].n = calls + 1 /\ arg'[c].batch = run[c].docs /\ added'[c] = 0 /\ calls \in Nat
          /\ Working' = Working /\ Native!LastCommit' = Native!LastCommit
      BY <3>a, InvokeEffect
    <3>4. /\ Len(s) \in Nat /\ n <= Len(s)
          /\ \A i \in 1..Len(s) : /\ s[i] \in {"convert", "lock", "add"}
                                  /\ s[i] = "add" <=> i > Len(s) - n
      BY <3>2, BatchBody
    <3> QED BY <3>3, <3>4
  <2> QED BY <2>1, <2>2 DEF CallWithDocuments
<1>4. PICK r : /\ r = [run[c] EXCEPT !.body = Tail(run[c].body), !.mine = calls + 1]
               /\ run' = [run EXCEPT ![c] = r]
  BY DEF CallWithDocuments
<1>5. /\ r \in Run /\ r.body = Tail(run[c].body) /\ r.kind = run[c].kind /\ r.key = run[c].key
      /\ r.docs = run[c].docs /\ r.mine = calls + 1 /\ r.failed = "no"
      /\ r.before = run[c].before /\ r.durable = run[c].durable
  <2>1. Tail(run[c].body) \in Seq(BodySteps)
    BY <1>1
  <2>2. PICK m \in Nat : m = calls + 1
    BY <1>3
  <2>3. r = [run[c] EXCEPT !.body = Tail(run[c].body), !.mine = m]
    BY <1>4, <2>2
  <2> QED BY <1>1, <2>1, <2>2, <2>3 DEF Run
<1>6. run'[c] = r /\ \A e \in Clients : e # c => run'[e] = run[e]
  BY <1>4, RunStep
<1>7. Removed(c)' = Removed(c)
  BY <1>5, <1>6 DEF Removed
<1>8. OwnTo(c, 0)' = {}
  BY DEF OwnTo
<1>9. AddsLeft(c)'
  <2>1. Len(run'[c].docs) - added'[c] = n
    BY <1>2, <1>3, <1>5, <1>6
  <2>2. n >= 0
    OBVIOUS
  <2>3. PICK s : s = todo'[c]
    OBVIOUS
  <2>4. /\ n <= Len(s) 
        /\ \A i \in 1..Len(s) : /\ s[i] \in {"convert", "lock", "add"}
                                /\ s[i] = "add" <=> i > Len(s) - n
    BY <1>3, <2>3
  <2> QED BY <2>1, <2>2, <2>3, <2>4 DEF AddsLeft
<1>10. Adding(c)'
  <2>1. OwnTo(c, added[c])' = {}
    BY <1>3 DEF OwnTo
  <2>2. run'[c].mine = arg'[c].n /\ run'[c].mine # 0 /\ run'[c].docs = arg'[c].batch
    BY <1>3, <1>5, <1>6
  <2>3. <<run'[c].kind, run'[c].body>> \in Brought
    BY <1>1, <1>5, <1>6
  <2>4. Working' = Removed(c)' \cup OwnTo(c, added[c])'
    BY <1>1, <1>3, <1>7, <2>1
  <2>5. Native!LastCommit' = IF run'[c].kind = "upsert" THEN Removed(c)' ELSE run'[c].durable
    BY <1>1, <1>3, <1>5, <1>6, <1>7
  <2> QED BY <1>9, <2>2, <2>3, <2>4, <2>5 DEF Adding
<1>11. InBlock(c)'
  BY <1>1, <1>5, <1>6, <1>10 DEF InBlock, ArgsOK, Goes
<1> QED BY <1>1, <1>3, <1>6, <1>11, OwnBlock

\* What an operation stores, once all of its documents are added.
LEMMA OwnAll ==
  ASSUME NEW c, NEW n \in Nat, n = Len(run[c].docs), run[c].docs \in Seq(Native!Input),
         run[c].mine # 0
  PROVE  OwnTo(c, n) = Own(c) /\ \A k \in 0..n : OwnTo(c, k) \subseteq Own(c)
<1>1. DOMAIN run[c].docs = 1..n
  OBVIOUS
<1>2. Own(c) = OwnTo(c, n)
  BY <1>1 DEF Own, OwnTo
<1>3. ASSUME NEW k \in 0..n PROVE OwnTo(c, k) \subseteq OwnTo(c, n)
  <2>1. 1..k \subseteq 1..n
    OBVIOUS
  <2> QED BY <2>1 DEF OwnTo
<1> QED BY <1>2, <1>3

\* A block calls the method it was at, and has the rest of its body left.
LEMMA RestOfBody ==
  ASSUME IInv, NEW c \in Clients, NEW step, At(c, step),
         run' = [run EXCEPT ![c].body = Tail(@)]
  PROVE  /\ run'[c] \in Run /\ run'[c].body = Tail(run[c].body) /\ run'[c].kind = run[c].kind
         /\ run'[c].key = run[c].key /\ run'[c].docs = run[c].docs
         /\ run'[c].mine = run[c].mine /\ run'[c].failed = "no"
         /\ run'[c].before = run[c].before /\ run'[c].durable = run[c].durable
         /\ \A e \in Clients : e # c => run'[e] = run[e]
         /\ ArgsOK(run'[c]) /\ run'[c].kind # "none"
<1>1. InBlock(c) /\ run[c].failed = "no" /\ run[c] \in Run /\ run[c].body # <<>>
  BY AtBody DEF InBlock
<1>2. Tail(run[c].body) \in Seq(BodySteps)
  <2>1. run[c].body \in Seq(BodySteps)
    BY <1>1 DEF Run
  <2> QED BY <1>1, <2>1
<1>3. PICK r : r = [run[c] EXCEPT !.body = Tail(run[c].body)] /\ run' = [run EXCEPT ![c] = r]
  OBVIOUS
<1>4. /\ r \in Run /\ r.body = Tail(run[c].body) /\ r.kind = run[c].kind /\ r.key = run[c].key
      /\ r.docs = run[c].docs /\ r.mine = run[c].mine /\ r.failed = "no"
      /\ r.before = run[c].before /\ r.durable = run[c].durable
  BY <1>1, <1>2, <1>3 DEF Run
<1>5. run'[c] = r /\ \A e \in Clients : e # c => run'[e] = run[e]
  BY <1>3, RunStep
<1>6. ArgsOK(run'[c]) /\ run'[c].kind # "none"
  BY <1>1, <1>4, <1>5 DEF InBlock, ArgsOK
<1> QED BY <1>4, <1>5, <1>6

\* A block of the kind has called a native method: its body has rest left, the
\* method all its statements.
Called(c, kind, rest, s) ==
  /\ run[c].kind = kind /\ Tail(run[c].body) = rest
  /\ run'[c] \in Run /\ run'[c].body = rest /\ run'[c].kind = kind /\ run'[c].failed = "no"
  /\ ArgsOK(run'[c]) /\ kind # "none"
  /\ run'[c].key = run[c].key /\ run'[c].docs = run[c].docs /\ run'[c].mine = run[c].mine
  /\ run'[c].before = run[c].before /\ run'[c].durable = run[c].durable
  /\ todo'[c] = s /\ todo[c] = <<>>
  /\ Working' = Working /\ Native!LastCommit' = Native!LastCommit

\* What it means that a block calls a method.
LEMMA CalledIs ==
  ASSUME IInv, NEW c \in Clients, NEW step, At(c, step),
         run' = [run EXCEPT ![c].body = Tail(@)],
         NEW s, NEW keys, Native!Invoke(c, s, <<>>, keys, 0),
         NEW kind, NEW rest, kind = run[c].kind, rest = Tail(run[c].body)
  PROVE  /\ Called(c, kind, rest, s) /\ mutex = c /\ arg'[c].keys = keys
         /\ \A e \in Clients : e # c => run'[e] = run[e] /\ todo'[e] = todo[e]
<1>1. /\ todo'[c] = s /\ todo[c] = <<>> /\ arg'[c].keys = keys
      /\ \A e \in Clients : e # c => todo'[e] = todo[e]
      /\ Working' = Working /\ Native!LastCommit' = Native!LastCommit
  BY InvokeEffect
<1>2. mutex = c
  BY AtBody
<1>3. \A e \in Clients : e # c => run'[e] = run[e]
  BY RestOfBody
<1>4. /\ run'[c] \in Run /\ run'[c].body = rest /\ run'[c].kind = kind /\ run'[c].failed = "no"
      /\ ArgsOK(run'[c]) /\ kind # "none"
      /\ run'[c].key = run[c].key /\ run'[c].docs = run[c].docs /\ run'[c].mine = run[c].mine
      /\ run'[c].before = run[c].before /\ run'[c].durable = run[c].durable
  BY RestOfBody
<1> QED BY <1>1, <1>2, <1>3, <1>4 DEF Called

\* A method that deletes or commits is called by a block that has done nothing.
LEMMA TakingBegins ==
  ASSUME NEW c, Starting(c), NEW kind, NEW rest, NEW s, Called(c, kind, rest, s),
         NEW back, NEW deleteAt, NEW commitAt,
         LeftOf(s, back), Len(s) >= deleteAt, Len(s) >= commitAt,
         "delete_term" \in {back[i] : i \in 1..Len(back)} => arg'[c].keys = {run[c].key}
  PROVE  Removing(c, kind, rest, back, deleteAt, commitAt)'
BY DEF Starting, Called, Removing

\* A block calls a method that deletes or commits.
LEMMA WithoutStep == ASSUME IInv, NEW c \in Clients, CallWithout(c) PROVE BlockInv'
<1>1. run' = [run EXCEPT ![c].body = Tail(@)]
  BY DEF CallWithout
<1>2. PICK key : key = run[c].key
  OBVIOUS
<1>3. ASSUME NEW step, At(c, step), NEW s, NEW keys, Native!Invoke(c, s, <<>>, keys, 0),
             NEW kind, NEW rest, kind = run[c].kind, rest = Tail(run[c].body)
      PROVE  /\ Called(c, kind, rest, s) /\ mutex = c /\ arg'[c].keys = keys
             /\ \A e \in Clients : e # c => run'[e] = run[e] /\ todo'[e] = todo[e]
             /\ Taking(c)' \/ Publishing(c)' => BlockInv'
  <2>0. kind = run[c].kind /\ rest = Tail(run[c].body)
    BY <1>3
  <2>1. /\ Called(c, kind, rest, s) /\ mutex = c /\ arg'[c].keys = keys
        /\ \A e \in Clients : e # c => run'[e] = run[e] /\ todo'[e] = todo[e]
    BY <1>1, <1>3, <2>0, CalledIs, Zenon
  <2>2. ASSUME Taking(c)' \/ Publishing(c)' PROVE BlockInv'
    <3>1. InBlock(c)'
      BY <2>1, <2>2 DEF InBlock, Goes, Called
    <3> QED BY <2>1, <3>1, OwnBlock
  <2> QED BY <2>1, <2>2
<1>4. CASE At(c, "clear_index") /\ Native!clear_index(c)
  <2>1. Native!Invoke(c, <<"lock", "delete_all", "commit", "reload">>, <<>>, {}, 0)
    BY <1>4 DEF Native!clear_index
  <2>2. Starting(c) /\ run[c].kind = "clear" /\ Tail(run[c].body) = <<>>
    BY <1>4, AtOther
  <2>3. "delete_term" \notin {ClearBack[i] : i \in 1..Len(ClearBack)}
    BY Backs
  <2>4. Removing(c, "clear", <<>>, ClearBack, 3, 2)'
    <3>1. PICK s : s = <<"lock", "delete_all", "commit", "reload">>
      OBVIOUS
    <3>2. Called(c, "clear", <<>>, s)
      BY <1>3, <1>4, <2>1, <2>2, <3>1
    <3>3. LeftOf(s, ClearBack) /\ Len(s) = 4
      BY <3>1, WholeMethods
    <3>4. Len(s) >= 3 /\ Len(s) >= 2
      BY <3>3
    <3> QED BY <2>2, <2>3, <3>2, <3>3, <3>4, TakingBegins
  <2> QED BY <1>3, <1>4, <2>1, <2>2, <2>4 DEF Taking
<1>5. CASE At(c, "delete_doc") /\ Native!delete_doc(c, run[c].key)
  <2>1. Native!Invoke(c, <<"term", "lock", "delete_term", "commit", "reload">>, <<>>, {key}, 0)
    BY <1>2, <1>5 DEF Native!delete_doc
  <2>2. Starting(c) /\ \/ run[c].kind = "delete" /\ Tail(run[c].body) = <<>>
                       \/ run[c].kind = "upsert" /\ Tail(run[c].body) = <<"index_doc">>
    BY <1>5, AtOther
  <2>3. CASE run[c].kind = "delete" /\ Tail(run[c].body) = <<>>
    <3>1. Removing(c, "delete", <<>>, DeleteBack, 3, 2)'
      <4>1. /\ Called(c, "delete", <<>>, <<"term", "lock", "delete_term", "commit", "reload">>)
            /\ arg'[c].keys = {key}
        BY <1>3, <1>5, <2>1, <2>3
      <4>2. Starting(c) /\ arg'[c].keys = {run[c].key}
        BY <1>2, <2>2, <4>1
      <4>3. 5 >= 3 /\ 5 >= 2
        OBVIOUS
      <4> QED BY <4>1, <4>2, <4>3, TakingBegins, WholeMethods
    <3> QED BY <1>3, <1>5, <2>1, <2>3, <3>1 DEF Taking
  <2>4. CASE run[c].kind = "upsert" /\ Tail(run[c].body) = <<"index_doc">>
    <3>1. Removing(c, "upsert", <<"index_doc">>, DeleteBack, 3, 2)'
      <4>1. /\ Called(c, "upsert", <<"index_doc">>, <<"term", "lock", "delete_term", "commit", "reload">>)
            /\ arg'[c].keys = {key}
        BY <1>3, <1>5, <2>1, <2>4
      <4>2. Starting(c) /\ arg'[c].keys = {run[c].key}
        BY <1>2, <2>2, <4>1
      <4>3. 5 >= 3 /\ 5 >= 2
        OBVIOUS
      <4> QED BY <4>1, <4>2, <4>3, TakingBegins, WholeMethods
    <3> QED BY <1>3, <1>5, <2>1, <2>4, <3>1 DEF Taking
  <2> QED BY <2>2, <2>3, <2>4
<1>6. CASE At(c, "delete_doc_uncommitted") /\ Native!delete_doc_uncommitted(c, run[c].key)
  <2>1. Native!Invoke(c, <<"term", "lock", "delete_term">>, <<>>, {key}, 0)
    BY <1>2, <1>6 DEF Native!delete_doc_uncommitted
  <2>2. Starting(c) /\ run[c].kind = "stage" /\ Tail(run[c].body) = <<>>
    BY <1>6, AtOther
  <2>3. Removing(c, "stage", <<>>, StageBack, 1, 0)'
    <3>1. /\ Called(c, "stage", <<>>, <<"term", "lock", "delete_term">>)
          /\ arg'[c].keys = {key}
      BY <1>3, <1>6, <2>1, <2>2
    <3>2. Starting(c) /\ arg'[c].keys = {run[c].key}
      BY <1>2, <2>2, <3>1
    <3>3. 3 >= 1 /\ 3 >= 0
      OBVIOUS
    <3> QED BY <3>1, <3>2, <3>3, TakingBegins, WholeMethods
  <2> QED BY <1>3, <1>6, <2>1, <2>2, <2>3 DEF Taking
<1>7. CASE At(c, "commit") /\ Native!commit(c)
  <2>1. Native!Invoke(c, <<"lock", "commit", "reload">>, <<>>, {}, 0)
    BY <1>7 DEF Native!commit
  <2>2. Tail(run[c].body) = <<>> /\ \/ Starting(c) /\ run[c].kind = "commit"
                                    \/ Adding(c) /\ run[c].kind = "index"
    BY <1>7, AtOther
  <2>3. CASE Starting(c) /\ run[c].kind = "commit"
    <3>1. "delete_term" \notin {CommitBack[i] : i \in 1..Len(CommitBack)}
      BY Backs
    <3>2. Removing(c, "commit", <<>>, CommitBack, 3, 2)'
      <4>1. PICK s : s = <<"lock", "commit", "reload">>
        OBVIOUS
      <4>2. Called(c, "commit", <<>>, s)
        BY <1>3, <1>7, <2>1, <2>2, <2>3, <4>1
      <4>3. LeftOf(s, CommitBack) /\ Len(s) = 3
        BY <4>1, WholeMethods
      <4>4. Len(s) >= 3 /\ Len(s) >= 2
        BY <4>3
      <4> QED BY <2>3, <3>1, <4>2, <4>3, <4>4, TakingBegins
    <3> QED BY <1>3, <1>7, <2>1, <2>2, <2>3, <3>2 DEF Taking
  <2>4. CASE Adding(c) /\ run[c].kind = "index"
    <3>1. Publishing(c)'
      <4>1. /\ run'[c].body = <<>> /\ run'[c].kind = "index" /\ run'[c].mine = run[c].mine
            /\ run'[c].docs = run[c].docs /\ run'[c].key = run[c].key
            /\ run'[c].before = run[c].before /\ run'[c].durable = run[c].durable
        BY <1>1, <1>7, <2>2, <2>4, RestOfBody
      <4>2. todo'[c] = <<"lock", "commit", "reload">> /\ todo[c] = <<>>
            /\ Working' = Working /\ Native!LastCommit' = Native!LastCommit
        BY <2>1, InvokeEffect
      <4>3. Working = Content(c)
        <5>1. run[c].docs \in Seq(Native!Input) /\ run[c].mine # 0
          BY <1>7, <2>4, AtBody, Parts DEF Adding
        <5>2. PICK n \in Nat : n = Len(run[c].docs)
          BY <5>1
        <5>3. PICK k \in Nat : k = added[c]
          BY NativeTypes DEF IInv
        <5>4. k = n
          BY <2>4, <4>2, <5>2, <5>3 DEF Adding, AddsLeft
        <5>5. OwnTo(c, n) = Own(c)
          BY <5>1, <5>2, OwnAll
        <5> QED BY <2>4, <5>3, <5>4, <5>5 DEF Adding, Content, Removed
      <4>4. Content(c)' = Content(c)
        BY <2>4, <4>1 DEF Content, Own
      <4> QED BY <2>4, <4>1, <4>2, <4>3, <4>4, WholeMethods DEF Publishing, Adding
    <3> QED BY <1>3, <1>7, <2>1, <2>2, <2>4, <3>1
  <2> QED BY <2>2, <2>3, <2>4
<1> QED BY <1>4, <1>5, <1>6, <1>7 DEF CallWithout

-----------------------------------------------------------------------------
(* A native statement runs *)

\* What a statement does to the index, in its own words.
LEMMA Effects ==
  ASSUME IInv, NEW c \in Clients, NEW step, StatementEffect(c, step)
  PROVE  /\ step = "add" => /\ Working' = Working \cup {NextDoc(c)}
                            /\ Native!LastCommit' = Native!LastCommit
                            /\ added'[c] = added[c] + 1
         /\ step = "delete_term" => /\ \E k \in arg[c].keys : Working' = Without(Working, k)
                                    /\ Native!LastCommit' = Native!LastCommit
         /\ step = "delete_all" => Working' = {} /\ Native!LastCommit' = Native!LastCommit
         /\ step = "commit" => Working' = Working /\ Native!LastCommit' = Working
         /\ step \notin {"add", "delete_term", "delete_all", "commit"} =>
              Working' = Working /\ Native!LastCommit' = Native!LastCommit
         /\ step # "add" => added' = added
<1>1. commits' = commits => Native!LastCommit' = Native!LastCommit
  BY DEF Native!LastCommit
<1>2. ASSUME commits' = Append(commits, Working) PROVE Native!LastCommit' = Working
  <2>1. commits \in Seq(SUBSET Native!Doc) /\ Working \in SUBSET Native!Doc
    BY NativeTypes DEF IInv
  <2>2. PICK W : W = Working
    OBVIOUS
  <2>3. commits'[Len(commits')] = W
    BY <1>2, <2>1, <2>2
  <2> QED BY <2>2, <2>3 DEF Native!LastCommit
<1>3. added \in [Clients -> Nat]
  BY NativeTypes DEF IInv
<1> QED BY <1>1, <1>2, <1>3 DEF StatementEffect, Quiet

\* While a block goes on, the index holds what was there but for what the block
\* was to delete, and besides only the block's own documents.
LEMMA PhaseBounds ==
  ASSUME IInv, NEW c \in Clients, run[c] # Idle, Goes(c)
  PROVE  /\ Working \subseteq run[c].before \cup Own(c)
         /\ run[c].kind = "clear" \/ Without(run[c].before, run[c].key) \subseteq Working
<1>1. Removed(c) \subseteq run[c].before
  BY DEF Removed, Without
<1>2. run[c].kind = "clear" \/ Without(run[c].before, run[c].key) = Removed(c)
  BY DEF Removed
<1>3. CASE Starting(c)
  BY <1>3 DEF Starting, Without
<1>4. CASE Taking(c)
  <2>1. Working \in {run[c].before, Removed(c)}
    BY <1>4 DEF Taking, Removing
  <2> QED BY <1>1, <1>2, <2>1 DEF Without
<1>5. CASE Adding(c)
  <2>1. run[c].docs \in Seq(Native!Input) /\ run[c].mine # 0
    BY <1>5, Parts DEF Adding
  <2>2. PICK n \in Nat : n = Len(run[c].docs)
    BY <2>1
  <2>3. PICK k \in Nat : k = added[c]
    BY NativeTypes DEF IInv
  <2>4. k \in 0..n
    BY <1>5, <2>2, <2>3 DEF Adding, AddsLeft
  <2>5. OwnTo(c, k) \subseteq Own(c)
    BY <2>1, <2>2, <2>4, OwnAll
  <2> QED BY <1>1, <1>2, <1>5, <2>3, <2>5 DEF Adding
<1>6. CASE Publishing(c)
  BY <1>6 DEF Publishing, Content, Without
<1> QED BY <1>3, <1>4, <1>5, <1>6 DEF Goes

\* A native call that fails leaves the block as FailureIsContained says.
LEMMA NativeThrow ==
  ASSUME IInv, NEW c \in Clients, todo[c] # <<>>, Throw(c, "native"), todo'[c] = <<>>,
         \A e \in Clients : e # c => todo'[e] = todo[e],
         Working' = Working
  PROVE  BlockInv'
<1>1. run[c] # Idle /\ mutex = c /\ run[c].failed = "no" /\ Goes(c)
  BY InNative DEF Goes
<1>2. InBlock(c) /\ run[c] \in Run
  BY <1>1, Parts DEF InBlock
<1>3. PICK r : r = [run[c] EXCEPT !.failed = "native"] /\ run' = [run EXCEPT ![c] = r]
  BY DEF Throw
<1>4. /\ r \in Run /\ r.kind = run[c].kind /\ r.key = run[c].key
      /\ r.docs = run[c].docs /\ r.failed = "native" /\ r.mine = run[c].mine
      /\ r.before = run[c].before /\ r.durable = run[c].durable
  BY <1>2, <1>3 DEF Run
<1>5. run'[c] = r /\ \A e \in Clients : e # c => run'[e] = run[e]
  BY <1>3, RunStep
<1>6. Own(c)' = Own(c)
  BY ZenonT(60), <1>4, <1>5 DEF Own
<1>7. Threw(c)'
  <2>1. /\ Working \subseteq run[c].before \cup Own(c)
        /\ run[c].kind = "clear" \/ Without(run[c].before, run[c].key) \subseteq Working
    BY <1>1, PhaseBounds
  <2> QED BY <1>4, <1>5, <1>6, <2>1 DEF Threw, Without
<1>8. InBlock(c)'
  BY <1>2, <1>4, <1>5, <1>7 DEF InBlock, ArgsOK
<1> QED BY <1>1, <1>5, <1>8, OwnBlock

\* An engine error or a panic.
LEMMA FaultStep == ASSUME IInv, NEW c \in Clients, Fault(c) PROVE BlockInv'
<1>1. P!EngineError(c) \/ P!Panic(c)
  BY SameFaults DEF Fault
<1>2. todo[c] # <<>> /\ UNCHANGED <<log, commits>> /\ P!Return(c)
  BY <1>1 DEF P!EngineError, P!Panic, IInv, HolderInv
<1>3. todo'[c] = <<>> /\ \A e \in Clients : e # c => todo'[e] = todo[e]
  <2>1. todo \in [Clients -> Seq(P!Steps)]
    BY NativeTypes DEF IInv
  <2> QED BY <1>2, <2>1 DEF P!Return
<1>4. Working' = Working
  BY <1>2 DEF Working, Native!LastCommit
<1> QED BY <1>2, <1>3, <1>4, NativeThrow DEF Fault

\* A statement that goes on to the next.
GoesOn(c) == /\ UNCHANGED <<run, arg>> /\ todo[c] # <<>> /\ todo'[c] = Tail(todo[c])
             /\ StatementEffect(c, Head(todo[c]))

\* The deletion comes where it should, the commit after it, and nothing is added.
GoodBack(c, back, deleteAt, commitAt) ==
  /\ Len(back) \in Nat /\ deleteAt \in Nat /\ commitAt \in Nat /\ commitAt < deleteAt
  /\ \A i \in 1..Len(back) :
       /\ back[i] # "add"
       /\ back[i] = "commit" <=> i = commitAt
       /\ back[i] \in {"delete_all", "delete_term"} => i = deleteAt
       /\ i = deleteAt =>
            \/ back[i] = "delete_all" /\ run[c].kind = "clear"
            \/ back[i] = "delete_term" /\ run[c].kind # "clear"
            \/ back[i] \notin {"delete_all", "delete_term"} /\ Removed(c) = run[c].before

\* A native method that deletes or commits goes on.
LEMMA RemovingStep ==
  ASSUME IInv, NEW c \in Clients, GoesOn(c), NEW kind, NEW rest, NEW back, NEW deleteAt,
         NEW commitAt, GoodBack(c, back, deleteAt, commitAt),
         Removing(c, kind, rest, back, deleteAt, commitAt)
  PROVE  Removing(c, kind, rest, back, deleteAt, commitAt)'
<1>1. todo[c] \in Seq(P!Steps) /\ todo[c] # <<>>
  BY NativeTypes DEF IInv, GoesOn
<1>2. PICK n : n = Len(todo[c])
  OBVIOUS
<1>3. /\ Head(todo[c]) = back[n] /\ n \in 1..Len(back) /\ n \in Nat
      /\ LeftOf(Tail(todo[c]), back) /\ Len(Tail(todo[c])) = n - 1
  BY <1>1, <1>2, LeftAfter DEF Removing, GoodBack
<1>4. PICK step : step = back[n]
  OBVIOUS
<1>5. StatementEffect(c, step)
  BY <1>3, <1>4 DEF GoesOn
<1>6. /\ run'[c] = run[c] /\ Removed(c)' = Removed(c)
      /\ LeftOf(todo'[c], back) /\ Len(todo'[c]) = n - 1
  BY <1>3 DEF GoesOn, Removed
<1>7. Working' = IF n - 1 >= deleteAt THEN run[c].before ELSE Removed(c)
  <2>1. CASE n = deleteAt
    <3>1. Working = run[c].before /\ ~(n - 1 >= deleteAt)
      BY <1>2, <1>3, <2>1 DEF Removing, GoodBack
    <3>2. step # "add" /\ step # "commit"
      BY <1>3, <1>4, <2>1 DEF GoodBack
    <3>3. \/ step = "delete_all" /\ run[c].kind = "clear"
          \/ step = "delete_term" /\ run[c].kind # "clear"
          \/ step \notin {"delete_all", "delete_term"} /\ Removed(c) = run[c].before
      BY <1>3, <1>4, <2>1 DEF GoodBack
    <3>4. step = "delete_term" => arg[c].keys = {run[c].key}
      BY <1>3, <1>4 DEF Removing
    <3> QED BY <1>5, <3>1, <3>2, <3>3, <3>4, Effects DEF Removed
  <2>2. CASE n # deleteAt
    <3>1. step \notin {"add", "delete_term", "delete_all"}
      BY <1>3, <1>4, <2>2 DEF GoodBack
    <3>2. Working' = Working
      BY <1>5, <3>1, Effects
    <3>3. n >= deleteAt <=> n - 1 >= deleteAt
      BY <1>3, <2>2 DEF GoodBack
    <3> QED BY <1>2, <3>2, <3>3 DEF Removing
  <2> QED BY <2>1, <2>2
<1>8. Native!LastCommit' = IF n - 1 >= commitAt THEN run[c].durable ELSE Removed(c)
  <2>1. CASE n = commitAt
    <3>1. Working = Removed(c) /\ ~(n - 1 >= commitAt)
      BY <1>2, <1>3, <2>1 DEF Removing, GoodBack
    <3>2. step = "commit"
      BY <1>3, <1>4, <2>1 DEF GoodBack
    <3> QED BY <1>5, <3>1, <3>2, Effects
  <2>2. CASE n # commitAt
    <3>1. step # "commit"
      BY <1>3, <1>4, <2>2 DEF GoodBack
    <3>2. Native!LastCommit' = Native!LastCommit
      BY <1>5, <3>1, Effects
    <3>3. n >= commitAt <=> n - 1 >= commitAt
      BY <1>3, <2>2 DEF GoodBack
    <3> QED BY <1>2, <3>2, <3>3 DEF Removing
  <2> QED BY <2>1, <2>2
<1>9. arg' = arg
  BY DEF GoesOn
<1> QED BY <1>6, <1>7, <1>8, <1>9 DEF Removing

\* The methods delete and commit where Taking says.
LEMMA GoodBacks ==
  ASSUME NEW c
  PROVE  /\ run[c].kind = "clear" => GoodBack(c, ClearBack, 3, 2)
         /\ run[c].kind = "commit" /\ Removed(c) = run[c].before => GoodBack(c, CommitBack, 3, 2)
         /\ run[c].kind # "clear" => GoodBack(c, DeleteBack, 3, 2) /\ GoodBack(c, StageBack, 1, 0)
<1>1. ASSUME NEW b, b = ClearBack, run[c].kind = "clear" PROVE GoodBack(c, b, 3, 2)
  BY <1>1, Backs DEF GoodBack
<1>2. ASSUME NEW b, b = CommitBack, run[c].kind = "commit", Removed(c) = run[c].before
      PROVE  GoodBack(c, b, 3, 2)
  BY <1>2, Backs DEF GoodBack
<1>3. ASSUME NEW b, b = DeleteBack, run[c].kind # "clear" PROVE GoodBack(c, b, 3, 2)
  BY <1>3, Backs DEF GoodBack
<1>4. ASSUME NEW b, b = StageBack, run[c].kind # "clear" PROVE GoodBack(c, b, 1, 0)
  BY <1>4, Backs DEF GoodBack
<1> QED BY <1>1, <1>2, <1>3, <1>4

\* The same for each operation.
LEMMA TakingStep == ASSUME IInv, NEW c \in Clients, GoesOn(c), Taking(c) PROVE Taking(c)'
<1>1. CASE Removing(c, "clear", <<>>, ClearBack, 3, 2)
  <2>1. GoodBack(c, ClearBack, 3, 2)
    BY <1>1, GoodBacks DEF Removing
  <2> QED BY <1>1, <2>1, RemovingStep DEF Taking
<1>2. CASE Removing(c, "commit", <<>>, CommitBack, 3, 2)
  <2>1. run[c] # Idle
    BY InNative DEF GoesOn
  <2>2. Removed(c) = run[c].before
    BY <1>2, <2>1, Parts, WithoutBad DEF Removing, Removed, InBlock, ArgsOK
  <2>3. GoodBack(c, CommitBack, 3, 2)
    BY <1>2, <2>2, GoodBacks DEF Removing
  <2> QED BY <1>2, <2>3, RemovingStep DEF Taking
<1>3. CASE Removing(c, "delete", <<>>, DeleteBack, 3, 2)
  <2>1. GoodBack(c, DeleteBack, 3, 2)
    BY <1>3, GoodBacks DEF Removing
  <2> QED BY <1>3, <2>1, RemovingStep DEF Taking
<1>4. CASE Removing(c, "upsert", <<"index_doc">>, DeleteBack, 3, 2)
  <2>1. GoodBack(c, DeleteBack, 3, 2)
    BY <1>4, GoodBacks DEF Removing
  <2> QED BY <1>4, <2>1, RemovingStep DEF Taking
<1>5. CASE Removing(c, "stage", <<>>, StageBack, 1, 0)
  <2>1. GoodBack(c, StageBack, 1, 0)
    BY <1>5, GoodBacks DEF Removing
  <2> QED BY <1>5, <2>1, RemovingStep DEF Taking
<1> QED BY <1>1, <1>2, <1>3, <1>4, <1>5 DEF Taking

\* index_doc and index_docs go on: the documents are added one by one.
LEMMA AddingStep == ASSUME IInv, NEW c \in Clients, GoesOn(c), Adding(c) PROVE Adding(c)'
<1>1. todo[c] \in Seq(P!Steps) /\ todo[c] # <<>> /\ run'[c] = run[c] /\ arg' = arg
      /\ todo'[c] = Tail(todo[c])
  BY NativeTypes DEF IInv, GoesOn
<1>2. PICK s \in Seq(P!Steps) : s = todo[c] /\ s # <<>>
  BY <1>1
<1>3. PICK k \in Nat : k = added[c]
  BY NativeTypes DEF IInv
<1>4. run[c].docs \in Seq(Native!Input) /\ run[c].mine # 0
  BY <1>1, InNative, Parts DEF Adding
<1>5. PICK n \in Nat : n = Len(run[c].docs)
  BY <1>4
<1>6. PICK m \in Nat : /\ m = Len(s) /\ m > 0 /\ Len(Tail(s)) = m - 1 /\ Head(s) = s[1]
                       /\ \A i \in 1..(m - 1) : Tail(s)[i] = s[i + 1]
  BY <1>2
<1>7. /\ n - k >= 0 /\ n - k <= m
      /\ \A i \in 1..m : s[i] \in {"convert", "lock", "add"} /\ (s[i] = "add" <=> i > m - (n - k))
  BY <1>2, <1>3, <1>5, <1>6 DEF Adding, AddsLeft
<1>8. PICK step : step = Head(s)
  OBVIOUS
<1>9. step \in {"convert", "lock", "add"} /\ (step = "add" <=> 1 > m - (n - k))
  BY <1>6, <1>7, <1>8
<1>10. StatementEffect(c, step)
  BY <1>2, <1>8 DEF GoesOn
<1>11. Removed(c)' = Removed(c) /\ \A j : OwnTo(c, j)' = OwnTo(c, j)
  BY <1>1 DEF Removed, OwnTo
<1>12. CASE step = "add"
  <2>1. added'[c] = k + 1 /\ Working' = Working \cup {NextDoc(c)}
        /\ Native!LastCommit' = Native!LastCommit
    BY <1>3, <1>10, <1>12, Effects
  <2>2. n - k = m
    BY <1>7, <1>9, <1>12
  <2>3. NextDoc(c) = [n |-> run[c].mine, pos |-> k + 1, key |-> run[c].docs[k + 1].key]
    BY <1>3 DEF Adding, NextDoc
  <2>4. OwnTo(c, k + 1) = OwnTo(c, k) \cup {NextDoc(c)}
    <3>1. 1..(k + 1) = 1..k \cup {k + 1}
      OBVIOUS
    <3> QED BY <2>3, <3>1 DEF OwnTo
  <2>5. AddsLeft(c)'
    <3>1. PICK q \in Nat : q = m - 1
      BY <1>6
    <3>2. Len(run'[c].docs) - added'[c] = q /\ todo'[c] = Tail(s)
      BY <1>1, <1>2, <1>5, <2>1, <2>2, <3>1
    <3>3. PICK tail : tail = Tail(s)
      OBVIOUS
    <3>4. Len(tail) = q /\ \A i \in 1..q :
            tail[i] \in {"convert", "lock", "add"} /\ (tail[i] = "add" <=> i > q - q)
      BY <1>6, <1>7, <2>2, <3>1, <3>3
    <3>5. q >= 0 /\ q <= q
      OBVIOUS
    <3> QED BY <3>2, <3>3, <3>4, <3>5 DEF AddsLeft
  <2>6. Working' = Removed(c)' \cup OwnTo(c, added[c])'
    <3>1. OwnTo(c, added[c])' = OwnTo(c, k + 1)
      BY <1>1, <2>1 DEF OwnTo
    <3> QED BY <1>3, <1>11, <2>1, <2>4, <3>1 DEF Adding
  <2>7. Native!LastCommit' = IF run'[c].kind = "upsert" THEN Removed(c)' ELSE run'[c].durable
    BY <1>1, <1>11, <2>1 DEF Adding
  <2> QED BY <1>1, <2>5, <2>6, <2>7 DEF Adding
<1>13. CASE step # "add"
  <2>1. added'[c] = k /\ Working' = Working /\ Native!LastCommit' = Native!LastCommit
    BY <1>3, <1>9, <1>10, <1>13, Effects
  <2>2. n - k <= m - 1
    BY <1>7, <1>9, <1>13
  <2>3. AddsLeft(c)'
    <3>1. Len(run'[c].docs) - added'[c] = n - k /\ todo'[c] = Tail(s)
      BY <1>1, <1>2, <1>5, <2>1
    <3>2. \A i \in 1..(m - 1) :
            Tail(s)[i] \in {"convert", "lock", "add"} /\ (Tail(s)[i] = "add" <=> i > (m - 1) - (n - k))
      BY <1>6, <1>7
    <3> QED BY <1>6, <1>7, <2>2, <3>1, <3>2 DEF AddsLeft
  <2>4. Working' = Removed(c)' \cup OwnTo(c, added[c])'
    <3>1. OwnTo(c, added[c])' = OwnTo(c, k)
      BY <1>1, <2>1 DEF OwnTo
    <3> QED BY <1>3, <1>11, <2>1, <3>1 DEF Adding
  <2>5. Native!LastCommit' = IF run'[c].kind = "upsert" THEN Removed(c)' ELSE run'[c].durable
    BY <1>1, <1>11, <2>1 DEF Adding
  <2> QED BY <1>1, <2>3, <2>4, <2>5 DEF Adding
<1> QED BY <1>12, <1>13

\* The commit of index and indexAll goes on.
LEMMA PublishingStep ==
  ASSUME IInv, NEW c \in Clients, GoesOn(c), Publishing(c) PROVE Publishing(c)'
<1>1. todo[c] \in Seq(P!Steps) /\ todo[c] # <<>>
  BY NativeTypes DEF IInv, GoesOn
<1>2. PICK n : n = Len(todo[c])
  OBVIOUS
<1>3. /\ Head(todo[c]) = CommitBack[n] /\ n \in 1..3
      /\ LeftOf(Tail(todo[c]), CommitBack) /\ Len(Tail(todo[c])) = n - 1
  <2>1. PICK b : b = CommitBack
    OBVIOUS
  <2>2. Len(b) = 3 /\ LeftOf(todo[c], b)
    BY <2>1, Backs DEF Publishing
  <2>3. Len(b) \in Nat
    BY <2>2
  <2> QED BY <1>1, <1>2, <2>1, <2>2, <2>3, LeftAfter
<1>4. StatementEffect(c, CommitBack[n])
  BY <1>3 DEF GoesOn
<1>5. Working' = Working
  BY <1>3, <1>4, Effects, Backs
<1>6. Native!LastCommit' = IF n = 2 THEN Working ELSE Native!LastCommit
  BY <1>3, <1>4, Effects, Backs
<1>7. run'[c] = run[c] /\ Content(c)' = Content(c) /\ todo'[c] = Tail(todo[c])
  BY DEF GoesOn, Content, Own
<1>8. Native!LastCommit' = IF n - 1 >= 2 THEN run[c].durable ELSE Content(c)
  <2>1. /\ Working = Content(c)
        /\ Native!LastCommit = IF n >= 2 THEN run[c].durable ELSE Content(c)
    BY <1>2 DEF Publishing
  <2>2. n = 1 \/ n = 2 \/ n = 3
    BY <1>3
  <2> QED BY <1>6, <2>1, <2>2
<1> QED BY <1>3, <1>5, <1>7, <1>8 DEF Publishing

\* A native statement runs, and the method goes on or throws.
LEMMA StatementStep == ASSUME IInv, NEW c \in Clients, Statement(c) PROVE BlockInv'
<1>1. Native!Step(c) /\ todo[c] # <<>>
  BY DEF Statement, Native!Step, Native!Lock, Native!Convert, Native!Term,
     Native!AddDocument, Native!DeleteTerm, Native!DeleteAllDocuments, Native!WriterCommit,
     Native!Reload, Native!Search, Native!Fetch, Native!Count, Native!At
<1>2. /\ run[c] # Idle /\ mutex = c /\ run[c].failed = "no" /\ ~Native!At(c, "search")
      /\ Taking(c) \/ Adding(c) \/ Publishing(c)
  BY <1>1, InNative
<1>3. /\ UNCHANGED <<arg, calls>>
      /\ \A e \in Clients : e # c => todo'[e] = todo[e]
      /\ todo'[c] \in {Tail(todo[c]), <<>>}
      /\ todo'[c] = Tail(todo[c]) \/ Head(todo[c]) \in {"convert", "term"}
           \/ (Head(todo[c]) = "lock" /\ poisoned)
      /\ Head(todo[c]) = "lock" /\ poisoned => todo'[c] = <<>>
      /\ StatementEffect(c, Head(todo[c]))
  BY <1>1, <1>2, Statements, IInv DEF IInv
<1>4. Native!At(c, "lock") <=> Head(todo[c]) = "lock"
  BY <1>1 DEF Native!At
<1>5. CASE (poisoned /\ Native!At(c, "lock")) \/ todo'[c] # Tail(todo[c])
  <2>1. Throw(c, "native")
    BY <1>5 DEF Statement
  <2>2. todo'[c] = <<>> /\ Head(todo[c]) \in {"convert", "term", "lock"}
    BY <1>3, <1>4, <1>5
  <2>3. Working' = Working
    BY <1>3, <2>2, Effects
  <2> QED BY <1>1, <1>3, <2>1, <2>2, <2>3, NativeThrow
<1>6. CASE ~((poisoned /\ Native!At(c, "lock")) \/ todo'[c] # Tail(todo[c]))
  <2>1. GoesOn(c)
    BY <1>1, <1>3, <1>6 DEF Statement, GoesOn
  <2>2. Goes(c)'
    BY <1>2, <2>1, TakingStep, AddingStep, PublishingStep DEF Goes
  <2>3. run' = run
    BY <2>1 DEF GoesOn
  <2>4. InBlock(c)'
    BY <1>2, <2>2, <2>3, Parts DEF InBlock, ArgsOK
  <2> QED BY <1>2, <1>3, <2>3, <2>4, OwnBlock
<1> QED BY SMTT(60), <1>5, <1>6

-----------------------------------------------------------------------------
(* A block ends *)

\* A block that has run its whole body did what its operation promises.
LEMMA Whole ==
  ASSUME IInv, NEW c \in Clients, Finished(c)
  PROVE  Working = Content(c) /\ Native!LastCommit = Durable(c)
<1>1. /\ run[c] # Idle /\ todo[c] = <<>> /\ run[c].body = <<>> /\ InBlock(c) /\ Goes(c)
      /\ Len(todo[c]) = 0
  BY Parts DEF Finished, InBlock
<1>2. ~Starting(c)
  BY <1>1, BodyParts DEF Starting, One, Many, Others
<1>3. CASE Taking(c)
  <2>1. Own(c) = {}
    BY <1>3 DEF Taking, Removing, Own
  <2>2. Content(c) = Removed(c)
    BY <2>1 DEF Content, Removed
  <2>3. ~Removing(c, "upsert", <<"index_doc">>, DeleteBack, 3, 2)
    BY <1>1, BodyParts DEF Removing
  <2>4. ~(0 >= 3) /\ ~(0 >= 2) /\ ~(0 >= 1) /\ 0 >= 0
    OBVIOUS
  <2> QED BY <1>1, <1>3, <2>2, <2>3, <2>4 DEF Taking, Removing, Durable
<1>4. CASE Adding(c)
  <2>1. run[c].kind \in {"add", "upsert"}
    BY <1>1, <1>4, BodyParts DEF Adding, Brought
  <2>2. run[c].docs \in Seq(Native!Input) /\ run[c].mine # 0
    BY <1>1, <1>4, Parts DEF Adding
  <2>3. PICK n \in Nat : n = Len(run[c].docs)
    BY <2>2
  <2>4. PICK k \in Nat : k = added[c]
    BY NativeTypes DEF IInv
  <2>5. k = n
    BY <1>1, <1>4, <2>3, <2>4 DEF Adding, AddsLeft
  <2>6. OwnTo(c, n) = Own(c)
    BY <2>2, <2>3, OwnAll
  <2>7. Working = Content(c)
    BY <1>4, <2>1, <2>4, <2>5, <2>6 DEF Adding, Content, Removed
  <2> QED BY <1>4, <2>1, <2>7 DEF Adding, Durable, Removed
<1>5. CASE Publishing(c)
  <2>1. ~(0 >= 2)
    OBVIOUS
  <2> QED BY <1>1, <1>5, <2>1 DEF Publishing, Durable
<1> QED BY <1>1, <1>2, <1>3, <1>4, <1>5 DEF Goes

\* The client leaves its block.
LEMMA LeaveStep == ASSUME IInv, NEW c \in Clients, Leave(c) PROVE BlockInv'
<1>1. run[c] # Idle /\ todo[c] = <<>> /\ run' = [run EXCEPT ![c] = Idle] /\ UNCHANGED native
  BY DEF Leave
<1>2. mutex = c
  BY <1>1, Parts
<1>3. run'[c] = Idle /\ \A e \in Clients : e # c => run'[e] = run[e]
  BY <1>1, RunStep
<1>4. todo' = todo
  BY <1>1 DEF native
<1> QED BY <1>1, <1>2, <1>3, <1>4, OwnBlock

\* Blocks do not notice which version the reader has loaded.
LEMMA ReloadStep ==
  ASSUME IInv, UNCHANGED <<run, todo, arg, added, log, commits>> PROVE BlockInv'
<1>1. Working' = Working /\ Native!LastCommit' = Native!LastCommit
  BY DEF Working, Native!LastCommit
<1>2. ASSUME NEW c PROVE Own(c)' = Own(c) /\ Removed(c)' = Removed(c) /\ Content(c)' = Content(c)
                         /\ OwnTo(c, added[c])' = OwnTo(c, added[c])
  BY DEF Own, Removed, Content, OwnTo
<1>3. ASSUME NEW c PROVE Starting(c)' <=> Starting(c)
  BY <1>1 DEF Starting
<1>4. ASSUME NEW c, NEW kind, NEW rest, NEW back, NEW d, NEW m
      PROVE  Removing(c, kind, rest, back, d, m)' <=> Removing(c, kind, rest, back, d, m)
  BY <1>1, <1>2 DEF Removing
<1>5. ASSUME NEW c PROVE Adding(c)' <=> Adding(c)
  BY <1>1, <1>2 DEF Adding, AddsLeft
<1>6. ASSUME NEW c PROVE Publishing(c)' <=> Publishing(c)
  BY <1>1, <1>2 DEF Publishing
<1>7. ASSUME NEW c PROVE Threw(c)' <=> Threw(c)
  BY <1>1, <1>2 DEF Threw
<1>8. ASSUME NEW c PROVE Taking(c)' <=> Taking(c)
  BY <1>4 DEF Taking
<1>9. ASSUME NEW c \in Clients, InBlock(c) PROVE InBlock(c)'
  BY <1>3, <1>5, <1>6, <1>7, <1>8, <1>9 DEF InBlock, Goes, ArgsOK
<1> QED BY <1>9 DEF IInv, BlockInv

\* Every step keeps every block where the statements it has left say.
LEMMA BlockStep == ASSUME IInv, [Next]_vars PROVE BlockInv'
<1>1. CASE Die
  BY <1>1 DEF Die, Native!Restart, BlockInv
<1>2. CASE Reload
  BY <1>2, ReloadStep DEF Reload, Native!BackgroundLoad, Native!BackgroundPublish, Native!local
<1>3. CASE UNCHANGED vars
  BY <1>3, ReloadStep DEF vars, native
<1>4. ASSUME NEW c \in Clients, Begin(c) \/ Step(c) \/ Fault(c) PROVE BlockInv'
  BY <1>4, BeginStep, EncodeStep, DocumentsStep, WithoutStep, StatementStep, FaultStep, LeaveStep
     DEF Step
<1> QED BY <1>1, <1>2, <1>3, <1>4 DEF Next

-----------------------------------------------------------------------------
(* What the steps of a block leave alone *)

\* A block's own step changes nobody else's operation, and not what its own is.
LEMMA Moves ==
  ASSUME IInv, NEW c \in Clients,
         Encode(c) \/ CallWithDocuments(c) \/ CallWithout(c) \/ Statement(c) \/ Fault(c)
  PROVE  /\ run[c] # Idle /\ mutex = c /\ UNCHANGED <<mutex, ops, plain>> /\ DOMAIN run' = Clients
         /\ \A e \in Clients : e # c => run'[e] = run[e] /\ todo'[e] = todo[e]
         /\ run'[c].kind = run[c].kind /\ run'[c].key = run[c].key /\ run'[c].docs = run[c].docs
<1>1. UNCHANGED <<mutex, ops, plain>>
  BY DEF Encode, CallWithDocuments, CallWithout, Statement, Fault
<1>2. ASSUME NEW r, run' = [run EXCEPT ![c] = r], r.kind = run[c].kind, r.key = run[c].key,
             r.docs = run[c].docs
      PROVE  /\ DOMAIN run' = Clients /\ \A e \in Clients : e # c => run'[e] = run[e]
             /\ run'[c].kind = run[c].kind /\ run'[c].key = run[c].key /\ run'[c].docs = run[c].docs
  BY <1>2, RunStep DEF IInv, TypeOK
<1>3. ASSUME run[c] # Idle
      PROVE  /\ run[c] \in Run /\ mutex = c
             /\ \A x : [run[c] EXCEPT !.body = x].kind = run[c].kind
                       /\ [run[c] EXCEPT !.body = x].key = run[c].key
                       /\ [run[c] EXCEPT !.body = x].docs = run[c].docs
             /\ \A x, y : [run[c] EXCEPT !.body = x, !.mine = y].kind = run[c].kind
                       /\ [run[c] EXCEPT !.body = x, !.mine = y].key = run[c].key
                       /\ [run[c] EXCEPT !.body = x, !.mine = y].docs = run[c].docs
             /\ \A x : [run[c] EXCEPT !.failed = x].kind = run[c].kind
                       /\ [run[c] EXCEPT !.failed = x].key = run[c].key
                       /\ [run[c] EXCEPT !.failed = x].docs = run[c].docs
  <2>1. run[c] \in Run /\ mutex = c
    BY <1>3, Parts DEF InBlock
  <2> QED BY <2>1 DEF Run
<1>4. CASE Encode(c)
  <2>1. run[c] # Idle /\ UNCHANGED native
    BY <1>4, AtBody DEF Encode
  <2>2. PICK x : \/ run' = [run EXCEPT ![c] = [run[c] EXCEPT !.body = x]]
                 \/ run' = [run EXCEPT ![c] = [run[c] EXCEPT !.failed = x]]
    BY <1>4 DEF Encode, Throw
  <2> QED BY ZenonT(60), <1>1, <1>2, <1>3, <2>1, <2>2 DEF native
<1>5. ASSUME NEW s, NEW b, NEW k, Native!Invoke(c, s, b, k, 0)
      PROVE  \A e \in Clients : e # c => todo'[e] = todo[e]
  BY <1>5, InvokeEffect
<1>6. CASE CallWithDocuments(c)
  <2>1. run[c] # Idle
    BY <1>6, AtBody DEF CallWithDocuments
  <2>2. \A e \in Clients : e # c => todo'[e] = todo[e]
    BY <1>5, <1>6 DEF CallWithDocuments, Native!index_doc, Native!index_docs
  <2>3. PICK x, y : run' = [run EXCEPT ![c] = [run[c] EXCEPT !.body = x, !.mine = y]]
    BY <1>6 DEF CallWithDocuments
  <2>4. PICK r : r = [run[c] EXCEPT !.body = x, !.mine = y]
    OBVIOUS
  <2>5. r.kind = run[c].kind /\ r.key = run[c].key /\ r.docs = run[c].docs
    BY <1>3, <2>1, <2>4
  <2>6. run' = [run EXCEPT ![c] = r]
    BY <2>3, <2>4
  <2> QED BY <1>1, <1>2, <1>3, <2>1, <2>2, <2>5, <2>6
<1>7. CASE CallWithout(c)
  <2>1. run[c] # Idle
    BY <1>7, AtBody DEF CallWithout
  <2>2. PICK k : k = run[c].key
    OBVIOUS
  <2>3. \A e \in Clients : e # c => todo'[e] = todo[e]
    BY <1>5, <1>7, <2>2 DEF CallWithout, Native!clear_index, Native!commit, Native!delete_doc,
       Native!delete_doc_uncommitted
  <2>4. PICK x : run' = [run EXCEPT ![c] = [run[c] EXCEPT !.body = x]]
    BY <1>7 DEF CallWithout
  <2> QED BY <1>1, <1>2, <1>3, <2>1, <2>3, <2>4
<1>8. CASE Statement(c)
  <2>1. Native!Step(c) /\ todo[c] # <<>>
    BY <1>8 DEF Statement, Native!Step, Native!Lock, Native!Convert, Native!Term,
       Native!AddDocument, Native!DeleteTerm, Native!DeleteAllDocuments, Native!WriterCommit,
       Native!Reload, Native!Search, Native!Fetch, Native!Count, Native!At
  <2>2. run[c] # Idle /\ ~Native!At(c, "search")
    BY <2>1, InNative
  <2>3. \A e \in Clients : e # c => todo'[e] = todo[e]
    BY <2>1, <2>2, Statements DEF IInv
  <2>4. UNCHANGED run \/ \E x : run' = [run EXCEPT ![c] = [run[c] EXCEPT !.failed = x]]
    BY <1>8 DEF Statement, Throw
  <2> QED BY ZenonT(60), <1>1, <1>2, <1>3, <2>2, <2>3, <2>4 DEF IInv, TypeOK
<1>9. CASE Fault(c)
  <2>1. P!EngineError(c) \/ P!Panic(c)
    BY <1>9, SameFaults DEF Fault
  <2>2. todo[c] # <<>> /\ P!Return(c)
    BY <2>1 DEF P!EngineError, P!Panic, IInv, HolderInv
  <2>3. \A e \in Clients : e # c => todo'[e] = todo[e]
    <3>1. todo \in [Clients -> Seq(P!Steps)]
      BY NativeTypes DEF IInv
    <3> QED BY <2>2, <3>1 DEF P!Return
  <2>4. \E x : run' = [run EXCEPT ![c] = [run[c] EXCEPT !.failed = x]]
    BY <1>9 DEF Fault, Throw
  <2> QED BY ZenonT(60), <1>1, <1>2, <1>3, <2>2, <2>3, <2>4, InNative
<1> QED BY <1>4, <1>6, <1>7, <1>8, <1>9

\* Beginning and ending a block.
LEMMA BeginFacts ==
  ASSUME IInv, NEW c \in Clients, Begin(c)
  PROVE  \E kind \in Kinds \ {"none"}, docs \in Seq(Native!Input) :
           /\ mutex = Free /\ mutex' = c /\ ops < MaxOps /\ ops' = ops + 1
           /\ DOMAIN run' = Clients /\ run'[c].kind = kind /\ run'[c].docs = docs
           /\ \A e \in Clients : e # c => run'[e] = run[e]
           /\ plain' = IF kind = "upsert" THEN plain ELSE plain \cup Identifiers(docs)
           /\ UNCHANGED <<native, kept>>
<1>1. ASSUME NEW kind \in Kinds \ {"none"}, NEW body, NEW key, NEW docs \in Seq(Native!Input),
             locked(c, kind, body, key, docs)
      PROVE  /\ mutex = Free /\ mutex' = c /\ ops < MaxOps /\ ops' = ops + 1
             /\ DOMAIN run' = Clients /\ run'[c].kind = kind /\ run'[c].docs = docs
             /\ \A e \in Clients : e # c => run'[e] = run[e]
             /\ plain' = IF kind = "upsert" THEN plain ELSE plain \cup Identifiers(docs)
             /\ UNCHANGED <<native, kept>>
  BY <1>1 DEF locked, Block, IInv, TypeOK
<1>2. \A d \in [key : Keys, valid : BOOLEAN] : <<d>> \in Seq(Native!Input)
  BY DEF Native!Input
<1>3. \A b \in Batches : b \in Seq(Native!Input)
  BY BatchesAssumption DEF Native!Input
<1>4. <<>> \in Seq(Native!Input)
  OBVIOUS
<1>5. {"clear", "commit", "add", "index", "upsert", "delete", "stage"} \subseteq Kinds \ {"none"}
  BY DEF Kinds
<1> DEFINE B(kind, docs) == \E body, key : locked(c, kind, body, key, docs)
<1>6. \E kind \in Kinds \ {"none"}, docs \in Seq(Native!Input) : B(kind, docs)
  <2>1. CASE clear(c)
    BY <1>4, <1>5, <2>1 DEF clear
  <2>2. CASE commit(c)
    BY <1>4, <1>5, <2>2 DEF commit
  <2>3. ASSUME NEW d \in [key : Keys, valid : BOOLEAN], add(c, d) \/ index(c, d) \/ upsert(c, d)
        PROVE  \E kind \in Kinds \ {"none"}, docs \in Seq(Native!Input) : B(kind, docs)
    <3>1. B("add", <<d>>) \/ B("index", <<d>>) \/ B("upsert", <<d>>)
      BY <2>3 DEF add, index, upsert
    <3> HIDE DEF B
    <3> QED BY <1>2, <1>5, <3>1
  <2>4. ASSUME NEW b \in Batches, addAll(c, b) \/ indexAll(c, b)
        PROVE  \E kind \in Kinds \ {"none"}, docs \in Seq(Native!Input) : B(kind, docs)
    <3>1. B("add", b) \/ B("index", b)
      BY <2>4 DEF addAll, indexAll
    <3> HIDE DEF B
    <3> QED BY <1>3, <1>5, <3>1
  <2>5. ASSUME NEW k \in Keys \cup {BadKey}, deleteDoc(c, k) \/ deleteDocWithoutCommit(c, k)
        PROVE  \E kind \in Kinds \ {"none"}, docs \in Seq(Native!Input) : B(kind, docs)
    <3>1. B("delete", <<>>) \/ B("stage", <<>>)
      BY <2>5 DEF deleteDoc, deleteDocWithoutCommit
    <3> HIDE DEF B
    <3> QED BY <1>4, <1>5, <3>1
  <2> HIDE DEF B
  <2> QED BY <2>1, <2>2, <2>3, <2>4, <2>5 DEF Begin
<1> QED BY <1>1, <1>6

-----------------------------------------------------------------------------
(* Types, and one block at a time *)

\* The documents of an operation are identified by the schema's keys.
LEMMA IdentifiersType == ASSUME NEW docs \in Seq(Native!Input) PROVE Identifiers(docs) \subseteq Keys
<1>1. \A i \in DOMAIN docs : docs[i] \in Native!Input
  OBVIOUS
<1>2. \A d \in Native!Input : d.key \in Keys
  BY DEF Native!Input
<1> QED BY <1>1, <1>2 DEF Identifiers

\* Every step keeps the types and the mutual exclusion of the blocks.
LEMMA TypeStep == ASSUME IInv, [Next]_vars PROVE TypeOK'
<1>1. /\ mutex \in Clients \cup {Free} /\ DOMAIN run = Clients /\ ops \in 0..MaxOps
      /\ plain \subseteq Keys /\ kept \subseteq Native!Doc
      /\ \A c \in Clients : run[c] # Idle \/ todo[c] # <<>> => mutex = c
  BY DEF IInv, TypeOK
<1>2. ASSUME NEW c \in Clients, Begin(c) PROVE TypeOK'
  <2>1. PICK kind \in Kinds \ {"none"}, docs \in Seq(Native!Input) :
           /\ mutex = Free /\ mutex' = c /\ ops < MaxOps /\ ops' = ops + 1
           /\ DOMAIN run' = Clients
           /\ \A e \in Clients : e # c => run'[e] = run[e]
           /\ plain' = IF kind = "upsert" THEN plain ELSE plain \cup Identifiers(docs)
           /\ UNCHANGED <<native, kept>>
    BY <1>2, BeginFacts
  <2>2. \A e \in Clients : e # c => run'[e] = Idle /\ todo'[e] = <<>>
    BY <2>1, Alone DEF native
  <2>3. ops' \in 0..MaxOps
    BY <1>1, <2>1, BoundsAssumption
  <2> QED BY <1>1, <2>1, <2>2, <2>3, IdentifiersType DEF TypeOK
<1>3. ASSUME NEW c \in Clients,
             Encode(c) \/ CallWithDocuments(c) \/ CallWithout(c) \/ Statement(c) \/ Fault(c)
      PROVE  TypeOK'
  <2>1. /\ mutex = c /\ UNCHANGED <<mutex, ops, plain>> /\ DOMAIN run' = Clients
        /\ \A e \in Clients : e # c => run'[e] = run[e] /\ todo'[e] = todo[e]
    BY <1>3, Moves
  <2>2. kept' \subseteq kept
    BY <1>3 DEF Encode, CallWithDocuments, CallWithout, Statement, Fault, Without
  <2> QED BY <1>1, <2>1, <2>2 DEF TypeOK
<1>4. ASSUME NEW c \in Clients, Leave(c) PROVE TypeOK'
  <2>1. /\ run[c] # Idle /\ todo[c] = <<>> /\ run' = [run EXCEPT ![c] = Idle]
        /\ UNCHANGED <<native, ops, plain>> /\ mutex = c /\ mutex' = Free
    BY <1>1, <1>4 DEF Leave
  <2>2. run'[c] = Idle /\ DOMAIN run' = Clients
        /\ \A e \in Clients : e # c => run'[e] = Idle /\ todo[e] = <<>>
    BY <1>1, <2>1, Alone
  <2>3. kept' \subseteq Native!Doc
    <3>1. Finished(c) => Durable(c) = Native!LastCommit
      BY Whole
    <3>2. Native!LastCommit \in SUBSET Native!Doc
      BY NativeTypes DEF IInv
    <3> QED BY <1>1, <1>4, <3>1, <3>2 DEF Leave
  <2> QED BY <1>1, <2>1, <2>2, <2>3 DEF TypeOK, native
<1>5. CASE Die
  BY <1>1, <1>5 DEF Die, Native!Restart, TypeOK
<1>6. CASE Reload
  BY <1>1, <1>6 DEF Reload, Native!BackgroundLoad, Native!BackgroundPublish, Native!local, TypeOK
<1>7. CASE UNCHANGED vars
  BY <1>1, <1>7 DEF vars, native, TypeOK
<1> QED BY <1>2, <1>3, <1>4, <1>5, <1>6, <1>7 DEF Next, Step

-----------------------------------------------------------------------------
(* What was promised stays *)

\* Which operations reach which statements of the native object.
LEMMA HeadKinds ==
  ASSUME IInv, NEW c \in Clients, todo[c] # <<>>
  PROVE  /\ Head(todo[c]) = "delete_term" =>
              run[c].kind \in {"delete", "upsert", "stage"} /\ arg[c].keys = {run[c].key}
         /\ Head(todo[c]) = "delete_all" => run[c].kind = "clear"
         /\ Head(todo[c]) = "add" => Adding(c)
<1>1. todo[c] \in Seq(P!Steps) /\ (Taking(c) \/ Adding(c) \/ Publishing(c))
  BY NativeTypes, InNative DEF IInv
<1>2. PICK n : n = Len(todo[c])
  OBVIOUS
<1>3. ASSUME NEW back, Len(back) \in Nat, LeftOf(todo[c], back)
      PROVE  Head(todo[c]) = back[n] /\ n \in 1..Len(back)
  BY <1>1, <1>2, <1>3, LeftAfter
<1>4. CASE Removing(c, "clear", <<>>, ClearBack, 3, 2)
  <2>1. Head(todo[c]) = ClearBack[n] /\ n \in 1..4
    BY <1>3, <1>4, Backs DEF Removing
  <2> QED BY <1>4, <2>1, Backs DEF Removing
<1>5. CASE Removing(c, "commit", <<>>, CommitBack, 3, 2) \/ Publishing(c)
  <2>1. Head(todo[c]) = CommitBack[n] /\ n \in 1..3
    BY <1>3, <1>5, Backs DEF Removing, Publishing
  <2> QED BY <2>1, Backs
<1>6. CASE Removing(c, "delete", <<>>, DeleteBack, 3, 2) \/ Removing(c, "upsert", <<"index_doc">>, DeleteBack, 3, 2)
  <2>1. Head(todo[c]) = DeleteBack[n] /\ n \in 1..5
    BY <1>3, <1>6, Backs DEF Removing
  <2>2. run[c].kind \in {"delete", "upsert"} /\ arg[c].keys = {run[c].key}
    BY <1>6, Backs DEF Removing
  <2> QED BY <2>1, <2>2, Backs
<1>7. CASE Removing(c, "stage", <<>>, StageBack, 1, 0)
  <2>1. Head(todo[c]) = StageBack[n] /\ n \in 1..3
    BY <1>3, <1>7, Backs DEF Removing
  <2>2. run[c].kind = "stage" /\ arg[c].keys = {run[c].key}
    BY <1>7, Backs DEF Removing
  <2> QED BY <2>1, <2>2, Backs
<1>8. CASE Adding(c)
  <2>1. Head(todo[c]) \in {"convert", "lock", "add"}
    <3>1. Head(todo[c]) = todo[c][1] /\ 1 \in 1..Len(todo[c])
      BY <1>1
    <3> QED BY <1>8, <3>1 DEF Adding, AddsLeft
  <2> QED BY <1>8, <2>1
<1> QED BY <1>1, <1>4, <1>5, <1>6, <1>7, <1>8 DEF Taking

\* What a step of a block does to the pending and the committed documents.
LEMMA StatementFacts ==
  ASSUME IInv, NEW c \in Clients, Statement(c)
  PROVE  /\ todo[c] # <<>> /\ run[c] # Idle /\ StatementEffect(c, Head(todo[c]))
<1>1. Native!Step(c) /\ todo[c] # <<>>
  BY DEF Statement, Native!Step, Native!Lock, Native!Convert, Native!Term,
     Native!AddDocument, Native!DeleteTerm, Native!DeleteAllDocuments, Native!WriterCommit,
     Native!Reload, Native!Search, Native!Fetch, Native!Count, Native!At
<1>2. run[c] # Idle /\ ~Native!At(c, "search")
  BY <1>1, InNative
<1> QED BY <1>1, <1>2, Statements DEF IInv

\* Everything but a native statement or a restart leaves the documents alone.
LEMMA StillDocuments ==
  ASSUME IInv, NEW c \in Clients,
         Begin(c) \/ Encode(c) \/ CallWithDocuments(c) \/ CallWithout(c) \/ Fault(c) \/ Leave(c)
  PROVE  UNCHANGED <<log, commits>> /\ Working' = Working
         /\ Native!LastCommit' = Native!LastCommit
<1>1. ASSUME Begin(c) PROVE UNCHANGED <<log, commits>>
  BY <1>1, BeginFacts DEF native
<1>2. ASSUME Encode(c) \/ Leave(c) PROVE UNCHANGED <<log, commits>>
  BY SMTT(60), <1>2 DEF Encode, Leave, native
<1>3. ASSUME CallWithDocuments(c) PROVE UNCHANGED <<log, commits>>
  BY <1>3 DEF CallWithDocuments, Native!index_doc, Native!index_docs, Native!Invoke, Native!shared
<1>4. ASSUME CallWithout(c) PROVE UNCHANGED <<log, commits>>
  BY <1>4 DEF CallWithout, Native!clear_index, Native!commit, Native!delete_doc,
     Native!delete_doc_uncommitted, Native!Invoke, Native!shared
<1>5. ASSUME Fault(c) PROVE UNCHANGED <<log, commits>>
  BY <1>5 DEF Fault, Native!EngineError, Native!Panic
<1>6. UNCHANGED <<log, commits>>
  BY <1>1, <1>2, <1>3, <1>4, <1>5
<1> QED BY <1>6 DEF Working, Native!LastCommit

\* A restart finds the last commit and nothing pending.
LEMMA DieDocuments ==
  ASSUME Die
  PROVE  /\ commits' = commits /\ Native!LastCommit' = Native!LastCommit
         /\ Working' = Native!LastCommit
<1>1. commits' = commits /\ log' = <<>>
  BY DEF Die, Native!Restart
<1>2. Native!LastCommit' = Native!LastCommit
  BY <1>1 DEF Native!LastCommit
<1>3. Native!Live(Native!LastCommit, <<>>) = Native!LastCommit
  BY SameSets, NativeAssumptions, P!LiveEmpty
<1>4. Working' = Native!Live(Native!LastCommit', log')
  BY DEF Working
<1> QED BY <1>1, <1>2, <1>3, <1>4

\* Every step keeps what was promised.
LEMMA KeptStep == ASSUME IInv, [Next]_vars PROVE KeptInv'
<1>1. /\ kept \subseteq Working /\ kept \subseteq Native!LastCommit
      /\ \A c \in Clients : todo[c] # <<>> =>
           /\ run[c].kind = "clear" => kept = {}
           /\ run[c].kind \in {"delete", "upsert", "stage"} => \A d \in kept : d.key # run[c].key
  BY DEF IInv, KeptInv
<1>2. ASSUME NEW c \in Clients, Begin(c) PROVE KeptInv'
  <2>1. mutex = Free /\ UNCHANGED <<native, kept>> /\ \A e \in Clients : e # c => run'[e] = run[e]
    BY <1>2, BeginFacts
  <2>2. \A e \in Clients : todo'[e] = <<>>
    BY <2>1, MarksAssumption DEF native, IInv, TypeOK
  <2> QED BY <1>1, <1>2, <2>1, <2>2, StillDocuments DEF KeptInv
<1>3. ASSUME NEW c \in Clients, mutex = c,
             \A e \in Clients : e # c => run'[e] = run[e] /\ todo'[e] = todo[e],
             kept' \subseteq Working', kept' \subseteq Native!LastCommit',
             todo'[c] # <<>> /\ run'[c].kind = "clear" => kept' = {},
             todo'[c] # <<>> /\ run'[c].kind \in {"delete", "upsert", "stage"} =>
               \A d \in kept' : d.key # run'[c].key
      PROVE  KeptInv'
  <2>1. \A e \in Clients : e # c => todo'[e] = <<>>
    BY <1>3, Alone
  <2> QED BY <1>3, <2>1 DEF KeptInv
<1>4. ASSUME NEW c \in Clients, Encode(c) PROVE KeptInv'
  <2>1. todo'[c] = <<>> /\ kept' = kept
    BY <1>4 DEF Encode, At, native
  <2> QED BY <1>1, <1>3, <1>4, <2>1, Moves, StillDocuments
<1>5. ASSUME NEW c \in Clients, CallWithDocuments(c) PROVE KeptInv'
  <2>1. /\ <<run[c].kind, Tail(run[c].body)>> \in Brought /\ Working = Removed(c)
    BY <1>5, AtDocuments DEF CallWithDocuments
  <2>2. run[c].kind \in {"add", "index", "upsert"}
    BY <2>1 DEF Brought
  <2>3. run[c].kind = "upsert" => \A d \in kept : d.key # run[c].key
    BY <1>1, <2>1 DEF Removed, Without
  <2>4. kept' = kept
    BY <1>5 DEF CallWithDocuments
  <2> QED BY <1>1, <1>3, <1>5, <2>2, <2>3, <2>4, Moves, StillDocuments
<1>6. ASSUME NEW c \in Clients, CallWithout(c) PROVE KeptInv'
  <2>1. kept' \subseteq kept
    BY <1>6 DEF CallWithout, Without
  <2>2. CASE At(c, "commit") /\ UNCHANGED kept
    <3>1. run[c].kind \in {"commit", "index"}
      BY <2>2, AtOther
    <3> QED BY <1>1, <1>3, <1>6, <2>1, <3>1, Moves, StillDocuments
  <2>3. CASE At(c, "clear_index") /\ kept' = {}
    <3>1. run[c].kind = "clear"
      BY <2>3, AtOther
    <3> QED BY <1>1, <1>3, <1>6, <2>3, <3>1, Moves, StillDocuments
  <2>4. CASE (At(c, "delete_doc") \/ At(c, "delete_doc_uncommitted"))
             /\ kept' = Without(kept, run[c].key)
    <3>1. run[c].kind \in {"delete", "upsert", "stage"}
      BY <2>4, AtOther
    <3>2. \A d \in kept' : d.key # run[c].key
      BY <2>4 DEF Without
    <3> QED BY <1>1, <1>3, <1>6, <2>1, <3>1, <3>2, Moves, StillDocuments
  <2> QED BY <1>6, <2>2, <2>3, <2>4 DEF CallWithout
<1>7. ASSUME NEW c \in Clients, Statement(c) PROVE KeptInv'
  <2>1. todo[c] # <<>> /\ StatementEffect(c, Head(todo[c])) /\ kept' = kept
    BY <1>7, StatementFacts DEF Statement
  <2>2. kept' \subseteq Working' /\ kept' \subseteq Native!LastCommit'
    <3>1. PICK step : step = Head(todo[c])
      OBVIOUS
    <3>2. CASE step = "delete_term"
      BY <1>1, <2>1, <3>1, <3>2, HeadKinds, Effects DEF Without
    <3>3. CASE step = "delete_all"
      BY <1>1, <2>1, <3>1, <3>3, HeadKinds, Effects
    <3>4. CASE step \notin {"delete_term", "delete_all"}
      BY <1>1, <2>1, <3>1, <3>4, Effects
    <3> QED BY <3>2, <3>3, <3>4
  <2> QED BY <1>1, <1>3, <1>7, <2>1, <2>2, Moves
<1>8. ASSUME NEW c \in Clients, Fault(c) PROVE KeptInv'
  <2>1. kept' = kept /\ todo[c] # <<>>
    BY <1>8, SameFaults DEF Fault, P!EngineError, P!Panic, IInv, HolderInv
  <2> QED BY <1>1, <1>3, <1>8, <2>1, Moves, StillDocuments
<1>9. ASSUME NEW c \in Clients, Leave(c) PROVE KeptInv'
  <2>1. /\ run[c] # Idle /\ todo[c] = <<>> /\ run' = [run EXCEPT ![c] = Idle] /\ todo' = todo
        /\ kept' = IF Finished(c) /\ run[c].kind \notin {"add", "stage"} THEN Durable(c) ELSE kept
    BY <1>9 DEF Leave, native
  <2>2. mutex = c /\ \A e \in Clients : e # c => run'[e] = run[e]
    BY <2>1, Parts, RunStep
  <2>3. Finished(c) /\ run[c].kind \notin {"add", "stage"} =>
          Durable(c) = Native!LastCommit /\ Durable(c) \subseteq Working
    BY Whole DEF Durable, Content
  <2> QED BY <1>1, <1>3, <1>9, <2>1, <2>2, <2>3, StillDocuments
<1>10. CASE Die
  BY <1>1, <1>10, DieDocuments DEF Die, Native!Restart, KeptInv
<1>11. CASE Reload \/ UNCHANGED vars
  <2>1. UNCHANGED <<run, todo, kept, log, commits>>
    BY <1>11 DEF Reload, Native!BackgroundLoad, Native!BackgroundPublish, Native!local, vars, native
  <2>2. Working' = Working /\ Native!LastCommit' = Native!LastCommit
    BY <2>1 DEF Working, Native!LastCommit
  <2> QED BY <1>1, <2>1, <2>2 DEF KeptInv
<1> QED BY <1>2, <1>4, <1>5, <1>6, <1>7, <1>8, <1>9, <1>10, <1>11 DEF Next, Step

-----------------------------------------------------------------------------
(* Identifiers *)

\* A smaller set, or one with documents of other identifiers besides.
LEMMA SingleFacts ==
  ASSUME NEW docs, NEW k, Single(docs, k)
  PROVE  /\ \A more : more \subseteq docs => Single(more, k)
         /\ \A d : d.key # k => Single(docs \cup {d}, k)
BY DEF Single

\* The first document with an identifier.
LEMMA SingleFirst ==
  ASSUME NEW docs, NEW d PROVE Single(Without(docs, d.key) \cup {d}, d.key)
BY DEF Single, Without

\* An addition never makes a second document of an identifier that only upsert
\* wrote.
LEMMA AddOne ==
  ASSUME IInv, NEW c \in Clients, GoesOn(c), Head(todo[c]) = "add", NEW k \in Keys \ plain
  PROVE  Single(Working', k)
<1>1. /\ run[c] # Idle /\ Adding(c) /\ todo[c] # <<>> /\ InBlock(c)
  BY InNative, HeadKinds, Parts DEF GoesOn
<1>2. PICK n \in Nat : n = Len(run[c].docs) /\ DOMAIN run[c].docs = 1..n
  <2>1. run[c].docs \in Seq(Native!Input)
    BY <1>1, Parts
  <2> QED BY <2>1
<1>3. PICK j \in Nat : j = added[c]
  BY NativeTypes DEF IInv
<1>4. PICK m \in Nat : /\ m = Len(todo[c]) /\ m > 0 /\ todo[c][1] = "add"
  <2>1. todo[c] \in Seq(P!Steps) /\ todo[c] # <<>>
    BY <1>1, NativeTypes DEF IInv
  <2> QED BY <2>1
<1>5. n - j = m
  BY SMTT(60), <1>1, <1>2, <1>3, <1>4 DEF Adding, AddsLeft
<1>6. Working' = Working \cup {NextDoc(c)}
  BY <1>1, Effects DEF GoesOn
<1>7. NextDoc(c).key = run[c].docs[j + 1].key /\ j + 1 \in 1..n
  BY <1>1, <1>3, <1>4, <1>5 DEF NextDoc, Adding
<1>8. Single(Working, k)
  BY DEF IInv, OneInv
<1>9. CASE run[c].kind \in {"add", "index"}
  <2>1. run[c].docs[j + 1].key \in Identifiers(run[c].docs)
    BY <1>2, <1>7 DEF Identifiers
  <2>2. Identifiers(run[c].docs) \subseteq plain
    BY <1>9 DEF IInv, OneInv
  <2>3. NextDoc(c).key # k
    BY <1>7, <2>1, <2>2
  <2> QED BY <1>6, <1>8, <2>3, SingleFacts
<1>10. CASE run[c].kind = "upsert"
  <2>1. n = 1 /\ j = 0 /\ run[c].key = run[c].docs[1].key
    <3>1. Len(run[c].docs) = 1 /\ run[c].key = run[c].docs[1].key
      BY <1>1, <1>10 DEF InBlock, ArgsOK
    <3>2. n = 1
      BY <1>2, <3>1
    <3> QED BY <1>3, <1>4, <1>5, <3>1, <3>2
  <2>2. OwnTo(c, 0) = {}
    BY DEF OwnTo
  <2>3. Working = Without(run[c].before, run[c].key)
    BY <1>1, <1>3, <1>10, <2>1, <2>2 DEF Adding, Removed
  <2>4. NextDoc(c).key = run[c].key
    BY <1>7, <2>1
  <2>5. Working' = Without(run[c].before, NextDoc(c).key) \cup {NextDoc(c)}
    BY <1>6, <2>3, <2>4
  <2>6. CASE k = run[c].key
    BY <2>4, <2>5, <2>6, SingleFirst
  <2>7. CASE k # run[c].key
    BY <1>6, <1>8, <2>4, <2>7, SingleFacts
  <2> QED BY <2>6, <2>7
<1> QED BY <1>1, <1>9, <1>10 DEF Adding, Brought

\* No statement does.
LEMMA StatementOne ==
  ASSUME IInv, NEW c \in Clients, Statement(c), NEW k \in Keys \ plain
  PROVE  Single(Working', k) /\ \A i \in 1..Len(commits') : Single(commits'[i], k)
<1>1. /\ todo[c] # <<>> /\ StatementEffect(c, Head(todo[c]))
      /\ Single(Working, k) /\ \A i \in 1..Len(commits) : Single(commits[i], k)
  BY StatementFacts DEF IInv, OneInv
<1>2. PICK step : step = Head(todo[c])
  OBVIOUS
<1>3. CASE step = "add"
  <2>1. commits' = commits
    BY <1>1, <1>2, <1>3 DEF StatementEffect
  <2>2. GoesOn(c)
    <3>1. Native!Step(c) /\ ~Native!At(c, "search") /\ ~Native!At(c, "lock")
      BY <1>1, <1>2, <1>3 DEF Statement, Native!At
    <3>2. todo'[c] = Tail(todo[c]) /\ UNCHANGED arg
      BY <1>2, <1>3, <3>1, Statements DEF IInv
    <3> QED BY <1>1, <3>1, <3>2 DEF Statement, GoesOn
  <2> QED BY <1>1, <1>2, <1>3, <2>1, <2>2, AddOne
<1>4. CASE step = "commit"
  <2>1. commits' = Append(commits, Working) /\ Working' = Working
    BY <1>1, <1>2, <1>4 DEF StatementEffect
  <2>2. commits \in Seq(SUBSET Native!Doc)
    BY NativeTypes DEF IInv
  <2>3. PICK W : W = Working
    OBVIOUS
  <2>4. Len(commits') = Len(commits) + 1
        /\ \A i \in 1..(Len(commits) + 1) : commits'[i] = IF i <= Len(commits) THEN commits[i] ELSE W
    BY <2>1, <2>2, <2>3, AppendProperties
  <2>5. Len(commits) \in Nat
    BY <2>2
  <2>6. \A i \in 1..(Len(commits) + 1) : i \notin 1..Len(commits) => ~(i <= Len(commits))
    BY <2>5
  <2> QED BY <1>1, <2>1, <2>3, <2>4, <2>6
<1>5. CASE step \notin {"add", "commit"}
  <2>1. commits' = commits
    BY <1>1, <1>2, <1>5 DEF StatementEffect, Quiet
  <2>2. Working' \subseteq Working
    BY <1>1, <1>2, <1>5, Effects DEF Without
  <2> QED BY <1>1, <2>1, <2>2, SingleFacts
<1> QED BY <1>3, <1>4, <1>5

\* Every step keeps identifiers that only upsert wrote single.
LEMMA OneStep == ASSUME IInv, [Next]_vars PROVE OneInv'
<1>1. /\ \A c \in Clients : run[c].kind \in {"add", "index"} => Identifiers(run[c].docs) \subseteq plain
      /\ \A k \in Keys \ plain :
           /\ Single(Working, k)
           /\ \A i \in 1..Len(commits) : Single(commits[i], k)
  BY DEF IInv, OneInv
<1>2. ASSUME UNCHANGED commits, Working' = Working, plain \subseteq plain',
             \A c \in Clients : run'[c].kind \in {"add", "index"} =>
               Identifiers(run'[c].docs) \subseteq plain'
      PROVE  OneInv'
  BY <1>1, <1>2 DEF OneInv
<1>3. ASSUME NEW c \in Clients, Begin(c) PROVE OneInv'
  <2>1. PICK kind \in Kinds \ {"none"}, docs \in Seq(Native!Input) :
           /\ run'[c].kind = kind /\ run'[c].docs = docs
           /\ \A e \in Clients : e # c => run'[e] = run[e]
           /\ plain' = IF kind = "upsert" THEN plain ELSE plain \cup Identifiers(docs)
    BY <1>3, BeginFacts
  <2>2. \A e \in Clients : run'[e].kind \in {"add", "index"} =>
               Identifiers(run'[e].docs) \subseteq plain'
    BY <1>1, <2>1
  <2>3. plain \subseteq plain'
    BY <2>1
  <2> QED BY <1>2, <1>3, <2>2, <2>3, StillDocuments
<1>4. ASSUME NEW c \in Clients,
             Encode(c) \/ CallWithDocuments(c) \/ CallWithout(c) \/ Statement(c) \/ Fault(c)
      PROVE  plain' = plain /\ \A e \in Clients : run'[e].kind \in {"add", "index"} =>
               Identifiers(run'[e].docs) \subseteq plain'
  <2>1. \A e \in Clients : run'[e].kind = run[e].kind /\ run'[e].docs = run[e].docs
    BY <1>4, Moves
  <2> QED BY <1>1, <1>4, <2>1, Moves
<1>5. ASSUME NEW c \in Clients,
             Encode(c) \/ CallWithDocuments(c) \/ CallWithout(c) \/ Fault(c)
      PROVE  OneInv'
  BY <1>2, <1>4, <1>5, StillDocuments
<1>6. ASSUME NEW c \in Clients, Statement(c) PROVE OneInv'
  BY <1>4, <1>6, StatementOne DEF OneInv
<1>7. ASSUME NEW c \in Clients, Leave(c) PROVE OneInv'
  <2>1. run'[c] = Idle /\ plain' = plain /\ \A e \in Clients : e # c => run'[e] = run[e]
    BY <1>7, RunStep DEF Leave
  <2> QED BY <1>1, <1>2, <1>7, <2>1, StillDocuments DEF Idle
<1>8. CASE Die
  <2>1. /\ commits' = commits /\ Working' = commits[Len(commits)]
        /\ Len(commits) \in 1..Len(commits)
    BY <1>8, NativeTypes, DieDocuments DEF IInv
  <2>2. plain' = plain /\ \A e \in Clients : run'[e] = Idle
    BY <1>8 DEF Die
  <2> QED BY <1>1, <2>1, <2>2 DEF OneInv, Idle
<1>9. CASE Reload \/ UNCHANGED vars
  <2>1. UNCHANGED <<run, plain, log, commits>>
    BY <1>9 DEF Reload, Native!BackgroundLoad, Native!BackgroundPublish, vars, native
  <2>2. Working' = Working
    BY <2>1 DEF Working, Native!LastCommit
  <2> QED BY <1>1, <2>1, <2>2 DEF OneInv
<1> QED BY <1>3, <1>5, <1>6, <1>7, <1>8, <1>9 DEF Next, Step

-----------------------------------------------------------------------------
(* The invariant and the theorems *)

\* It holds when the index is opened.
LEMMA InitInv == Init => IInv
<1> SUFFICES ASSUME Init PROVE IInv
  OBVIOUS
<1>1. /\ Native!Init /\ mutex = Free /\ ops = 0 /\ run = [c \in Clients |-> Idle]
      /\ plain = {} /\ kept = {}
  BY DEF Init
<1>2. P!IInv
  BY <1>1, SameFaults, NativeAssumptions, P!InitInv
<1>3. /\ writer = Free /\ todo = [c \in Clients |-> <<>>] /\ commits = <<{}>> /\ log = <<>>
  BY <1>1 DEF Native!Init
<1>4. Working = {} /\ Len(commits) = 1 /\ commits[1] = {}
  <2>1. Len(commits) = 1 /\ commits[1] = {}
    BY <1>3
  <2>2. Native!LastCommit = {}
    BY <2>1 DEF Native!LastCommit
  <2>3. Native!Live({}, <<>>) = {}
    BY SameSets, NativeAssumptions, P!LiveEmpty
  <2> QED BY <1>3, <2>1, <2>2, <2>3 DEF Working
<1>5. HolderInv
  BY <1>3, MarksAssumption DEF HolderInv
<1>6. TypeOK
  BY <1>1, <1>3, BoundsAssumption DEF TypeOK
<1>7. BlockInv
  BY <1>1, <1>3 DEF BlockInv
<1>8. KeptInv
  BY <1>1, <1>3 DEF KeptInv
<1>9. OneInv
  <2>1. \A k : Single({}, k)
    BY DEF Single
  <2>2. \A i \in 1..Len(commits) : commits[i] = {}
    BY <1>4
  <2>3. \A c \in Clients : run[c].kind = "none"
    BY <1>1 DEF Idle
  <2> QED BY <1>4, <2>1, <2>2, <2>3 DEF OneInv
<1> QED BY <1>2, <1>5, <1>6, <1>7, <1>8, <1>9 DEF IInv

\* Every step keeps it.
LEMMA NextInv == IInv /\ [Next]_vars => IInv'
<1> SUFFICES ASSUME IInv, [Next]_vars PROVE IInv'
  OBVIOUS
<1>1. P!IInv' /\ HolderInv' /\ TypeOK' /\ BlockInv' /\ KeptInv' /\ OneInv'
  BY NativeInv, HolderStep, TypeStep, BlockStep, KeptStep, OneStep
<1> QED BY <1>1 DEF IInv

\* It holds in every state.
LEMMA Invariance == Spec => []IInv
BY InitInv, NextInv, PTL DEF Spec

\* The variables of the typed index keep their types, and only the client with
\* the mutex is in a block or inside the native object, whatever fails.
THEOREM TypeCorrect == Spec => []TypeOK
<1>1. IInv => TypeOK
  BY DEF IInv
<1> QED BY <1>1, Invariance, PTL

\* An operation that ends well did to the index it found exactly what it says,
\* and has committed exactly what it says: nothing of another operation, of an
\* earlier failure or of the reader's reloads came in between.
THEOREM OperationsAreWhole == Spec => []BlocksAreWhole
<1>1. IInv => BlocksAreWhole
  BY Whole DEF BlocksAreWhole
<1> QED BY <1>1, Invariance, PTL

\* An operation that throws leaves everybody else's documents alone.
THEOREM FailuresStayHome == Spec => []FailureIsContained
<1>1. IInv => FailureIsContained
  <2> SUFFICES ASSUME IInv, NEW c \in Clients
               PROVE  /\ run[c].failed = "encode" =>
                           Working = run[c].before /\ Native!LastCommit = run[c].durable
                      /\ run[c].failed = "native" =>
                           /\ Working \subseteq run[c].before \cup Own(c)
                           /\ \/ run[c].kind = "clear"
                              \/ Without(run[c].before, run[c].key) \subseteq Working
    BY DEF FailureIsContained
  <2>1. CASE run[c] = Idle
    BY <2>1 DEF Idle
  <2>2. CASE run[c] # Idle
    BY <2>2, Parts DEF InBlock, Threw
  <2> QED BY <2>1, <2>2
<1> QED BY <1>1, Invariance, PTL

\* What a finished operation made durable stays in the last commit until a
\* caller deletes it by name, whatever fails and whenever the process dies.
THEOREM PromisesHold == Spec => []AcknowledgedIsDurable
<1>1. IInv => AcknowledgedIsDurable
  BY DEF IInv, KeptInv, AcknowledgedIsDurable
<1> QED BY <1>1, Invariance, PTL

\* An identifier that only upsert wrote has at most one document, pending or in
\* any commit.
THEOREM UpsertsReplace == Spec => []OneIdentity
<1>1. ASSUME NEW docs, NEW k, Single(docs, k)
      PROVE  Cardinality({d \in docs : d.key = k}) <= 1
  <2>1. CASE {d \in docs : d.key = k} = {}
    BY <2>1, FS_EmptySet
  <2>2. CASE {d \in docs : d.key = k} # {}
    <3>1. PICK d \in docs : d.key = k
      BY <2>2
    <3>2. {e \in docs : e.key = k} = {d}
      BY <1>1, <3>1 DEF Single
    <3> QED BY <3>2, FS_Singleton
  <2> QED BY <2>1, <2>2
<1>2. IInv => OneIdentity
  BY <1>1 DEF IInv, OneInv, OneIdentity
<1> QED BY <1>2, Invariance, PTL
=============================================================================
