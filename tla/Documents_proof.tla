--------------------------- MODULE Documents_proof ----------------------------
(***************************************************************************)
(* Proofs about documents, as they are written (DocumentCodec, for any     *)
(* schema, values and bounds, and any width of integers) and as they are   *)
(* found (ReadPaths, for any versions, identifiers, limits and lists).     *)
(*                                                                         *)
(* CodecIInv says what the engine holds of a document as a function of the *)
(* fields that were written: the stored entries are the values at the      *)
(* positions Kept, in order, the terms those of the positions Known.       *)
(*                                                                         *)
(* A read is a function of the version, so what is said of the last call   *)
(* is shown of every call; the pager needs an invariant of its own, in     *)
(* ReadIInv: until somebody commits, what it got is the first offset hits  *)
(* of its query.                                                           *)
(***************************************************************************)
EXTENDS DocumentCodec, ReadPaths, Selection_proof, SequenceTheorems

(* DocumentCodec *)

DocumentField == [name : Names, value : Values]

\* The positions of fields the schema knows, and of those that it stores.
Known == {i \in DOMAIN fields : fields[i].name \in DOMAIN Schema}
Kept == {i \in Known : Schema[fields[i].name].stored}

Entry(f) == [name |-> f.name, owned |-> Owned(f.value)]

FieldsInv ==
  /\ fields \in Seq(DocumentField)
  /\ \A i \in Known : accepts(Schema[fields[i].name], fields[i].value)

TypedInv ==
  typed => /\ stage # "unreadable"
           /\ \A i \in DOMAIN fields : i \in Known /\ Constructible(fields[i].value)

EngineInv ==
  Indexed =>
    /\ \A i \in Known : Convertible(fields[i].value)
    /\ stored = [n \in 1..Cardinality(Kept) |-> Entry(fields[InOrder(Kept)[n]])]
    /\ terms = UNION {TermsOf(fields[i]) : i \in Known}

MapInv ==
  stage = "read" => map = [n \in DOMAIN stored |-> document_field_from_value(stored[n])]

CodecIInv == FieldsInv /\ TypedInv /\ EngineInv /\ MapInv

-----------------------------------------------------------------------------
(* Positions *)

\* The positions of a document are a finite set of numbers, and InOrder lists
\* those that are kept.
LEMMA Positions ==
  ASSUME FieldsInv
  PROVE  /\ Kept \in SUBSET (DOMAIN fields) /\ Known \in SUBSET (DOMAIN fields)
         /\ IsFiniteSet(Kept) /\ Cardinality(Kept) \in Nat
         /\ InOrder(Kept) \in [1..Cardinality(Kept) -> Kept]
         /\ \A n \in 1..Cardinality(Kept) :
              Selected(fields, Kept)[n] = fields[InOrder(Kept)[n]]
         /\ DOMAIN Selected(fields, Kept) = 1..Cardinality(Kept)
         /\ \A i \in DOMAIN fields : fields[i] \in DocumentField
<1>1. Kept \in SUBSET (DOMAIN fields) /\ Known \in SUBSET (DOMAIN fields)
  BY DEF Kept, Known
<1>2. fields \in Seq(DocumentField) /\ Kept \in SUBSET Int
  BY <1>1 DEF FieldsInv
<1>3. IsFiniteSet(Kept) /\ Cardinality(Kept) \in Nat
  BY <1>1, <1>2, SelectedElements
<1> QED BY <1>1, <1>2, <1>3, InOrderLists DEF Selected

-----------------------------------------------------------------------------
(* The invariant *)

\* An empty document satisfies the invariant.
LEMMA CodecInitInv == Init => CodecIInv
BY DEF Init, CodecIInv, FieldsInv, TypedInv, EngineInv, MapInv, Known, Indexed

\* A field that is put keeps what the fields before it are.
LEMMA PutInv ==
  ASSUME CodecIInv, NEW name \in Names, NEW v \in Values, Put(name, v), stage = "writing",
         name \in DOMAIN Schema => accepts(Schema[name], v),
         typed' => typed /\ name \in DOMAIN Schema /\ Constructible(v)
  PROVE  CodecIInv'
<1> DEFINE f == [name |-> name, value |-> v]
<1>1. fields \in Seq(DocumentField) /\ f \in DocumentField
  BY DEF CodecIInv, FieldsInv, DocumentField
<1>2. /\ fields' = Append(fields, f) /\ fields' \in Seq(DocumentField)
      /\ DOMAIN fields' = 1..(Len(fields) + 1) /\ DOMAIN fields = 1..Len(fields)
      /\ Len(fields) \in Nat
      /\ \A i \in DOMAIN fields : fields'[i] = fields[i]
      /\ fields'[Len(fields) + 1] = f
  BY <1>1 DEF Put
<1>3. \A i \in DOMAIN fields' : i \in DOMAIN fields \/ i = Len(fields) + 1
  BY <1>2
<1> HIDE DEF f
<1>4. f.name = name /\ f.value = v
  BY DEF f
<1>5. FieldsInv'
  BY <1>2, <1>3, <1>4 DEF CodecIInv, FieldsInv, Known, accepts
<1>6. TypedInv'
  BY <1>2, <1>3, <1>4 DEF CodecIInv, TypedInv, Known, Put, Constructible
<1>7. EngineInv' /\ MapInv'
  BY DEF Put, EngineInv, MapInv, Indexed
<1> QED BY <1>5, <1>6, <1>7 DEF CodecIInv

\* index_doc: what is stored comes from the fields by their order, and each
\* indexed term from a field that converts.
LEMMA IndexInv == ASSUME CodecIInv, index_doc PROVE CodecIInv'
<1>1. FieldsInv' /\ Known' = Known /\ Kept' = Kept /\ UNCHANGED <<typed, fields, map>>
  BY DEF CodecIInv, FieldsInv, index_doc, Known, Kept
<1>2. stage' \in {"indexed", "rejected"} /\ stage = "writing"
  BY DEF index_doc
<1>3. TypedInv'
  BY <1>1, <1>2 DEF CodecIInv, TypedInv
<1>4. CASE stage' = "rejected"
  BY <1>1, <1>3, <1>4 DEF CodecIInv, EngineInv, MapInv, Indexed
<1>5. CASE stage' = "indexed"
  <2> DEFINE keep == Selected(fields, Kept)
  <2>1. /\ \A i \in Known : Convertible(fields[i].value)
        /\ stored' = [i \in DOMAIN keep |-> [name |-> keep[i].name,
                                             owned |-> Owned(keep[i].value)]]
        /\ terms' = UNION {TermsOf(fields[i]) : i \in Known}
    BY <1>5 DEF index_doc, Known, Kept
  <2>2. /\ DOMAIN keep = 1..Cardinality(Kept)
        /\ \A n \in 1..Cardinality(Kept) : keep[n] = fields[InOrder(Kept)[n]]
    BY Positions DEF CodecIInv
  <2> HIDE DEF keep
  <2>3. stored' = [n \in 1..Cardinality(Kept) |-> Entry(fields[InOrder(Kept)[n]])]
    BY <2>1, <2>2 DEF Entry
  <2>4. EngineInv'
    BY <1>1, <2>1, <2>3 DEF EngineInv
  <2>5. MapInv'
    BY <1>5 DEF MapInv
  <2> QED BY SMTT(60), <1>1, <1>3, <2>4, <2>5 DEF CodecIInv
<1> QED BY <1>2, <1>4, <1>5

\* What the engine stored of a value the typed writer let through fits in a Long.
LEMMA TypedIsSupported ==
  ASSUME CodecIInv, stage = "indexed", typed, NEW n \in DOMAIN stored
  PROVE  Supported(document_field_from_value(stored[n]).value)
<1>1. PICK i \in Known : stored[n] = Entry(fields[i])
  BY ZenonT(60), Positions DEF CodecIInv, EngineInv, Indexed, Kept
<1>2. /\ Constructible(fields[i].value)
      /\ Schema[fields[i].name].kind = fields[i].value.kind
  BY <1>1 DEF CodecIInv, TypedInv, FieldsInv, accepts, Known
<1>3. document_field_from_value(stored[n]).value.kind = fields[i].value.kind
  BY <1>1, <1>2 DEF Entry, document_field_from_value
<1>4. fields[i].value.kind = "u64" =>
        document_field_from_value(stored[n]).value.data = fields[i].value.data
  BY <1>1, <1>2 DEF Entry, Owned, document_field_from_value
<1> QED BY SMTT(60), <1>2, <1>3, <1>4 DEF Supported, Constructible

\* Reading back touches neither the fields nor the engine.
LEMMA ReadInv == ASSUME CodecIInv, read PROVE CodecIInv'
<1> DEFINE doc == [i \in DOMAIN stored |-> document_field_from_value(stored[i])]
<1>1. /\ stage = "indexed" /\ stage' \in {"read", "unreadable"}
      /\ UNCHANGED <<typed, fields, stored, terms>>
  BY DEF read
<1>2. FieldsInv' /\ Known' = Known /\ Kept' = Kept
  BY <1>1 DEF CodecIInv, FieldsInv, Known, Kept
<1>3. EngineInv'
  BY <1>1, <1>2 DEF CodecIInv, EngineInv, Indexed
<1>4. MapInv'
  BY <1>1 DEF MapInv, read
<1>5. TypedInv'
  <2>1. ASSUME typed PROVE \A i \in DOMAIN doc : Supported(doc[i].value)
    BY <2>1, <1>1, TypedIsSupported
  <2>2. typed => stage' = "read"
    BY <2>1 DEF read
  <2> QED BY <1>1, <1>2, <2>2 DEF CodecIInv, TypedInv
<1> QED BY <1>2, <1>3, <1>4, <1>5 DEF CodecIInv

\* Every step of the document keeps the invariant.
LEMMA CodecNextInv == ASSUME CodecIInv, [Next]_vars PROVE CodecIInv'
<1>1. ASSUME NEW name \in Names, NEW v \in Values, value(name, v) PROVE CodecIInv'
  <2>1. CASE name \in DOMAIN Schema /\ accepts(Schema[name], v)
    <3>1. Put(name, v) /\ stage = "writing" /\ typed' = typed /\ Constructible(v)
      BY <1>1, <2>1 DEF value
    <3> QED BY <2>1, <3>1, PutInv
  <2>2. CASE ~(name \in DOMAIN Schema /\ accepts(Schema[name], v))
    <3>1. stage' = "thrown" /\ UNCHANGED <<typed, fields, stored, terms, map>>
      BY <1>1, <2>2 DEF value
    <3> QED BY <3>1 DEF CodecIInv, FieldsInv, TypedInv, EngineInv, MapInv, Indexed, Known
  <2> QED BY <2>1, <2>2
<1>2. ASSUME NEW name \in Names, NEW v \in Values, raw_field(name, v) PROVE CodecIInv'
  BY <1>2, PutInv DEF raw_field
<1>3. CASE UNCHANGED vars
  BY <1>3 DEF vars, CodecIInv, FieldsInv, TypedInv, EngineInv, MapInv, Indexed, Known, Kept
<1> QED BY <1>1, <1>2, <1>3, IndexInv, ReadInv DEF Next

\* What is stored, indexed and read back of a document is at every moment the
\* function of its fields that the invariant names.
THEOREM CodecInvariance == Spec => []CodecIInv
BY CodecInitInv, CodecNextInv, PTL DEF Spec

-----------------------------------------------------------------------------
(* Typed documents *)

\* No document that only TantivyDocumentWriter filled fails to be read, and
\* none lost a field on its way into the index.
THEOREM TypedDocumentsRead == Spec => []TypedDocumentsAreReadable
<1>1. CodecIInv => TypedDocumentsAreReadable
  BY DEF CodecIInv, TypedInv, TypedDocumentsAreReadable, Known
<1> QED BY <1>1, CodecInvariance, PTL

-----------------------------------------------------------------------------
(* Terms *)

\* The term of a value is among the terms its field is indexed by.
LEMMA TermIsIndexed ==
  ASSUME NEW spec, NEW v \in Values, spec.indexed, HasTerm(v),
         v.kind = "text" => spec.raw,
         v.kind = "date" => Truncated(Owned(v)) = Owned(v)
  PROVE  Term(v) \in IndexedTerms(spec, v)
<1>1. CASE v.kind = "facet"
  <2>1. /\ v.data.path \in Seq({v.data.path[i] : i \in DOMAIN v.data.path})
        /\ Len(v.data.path) \in Nat
    BY <1>1, ValuesAssumption
  <2>2. SubSeq(v.data.path, 1, Len(v.data.path)) = v.data.path
    BY <2>1
  <2>3. v.data.path \in Prefixes(v.data.path)
    BY <2>1, <2>2 DEF Prefixes
  <2> QED BY <1>1, <2>3 DEF Term, IndexedTerms
<1>2. CASE v.kind = "date"
  BY <1>2 DEF Term, IndexedTerms
<1>3. CASE v.kind \notin {"facet", "date"}
  BY <1>3 DEF Term, IndexedTerms, HasTerm
<1> QED BY <1>1, <1>2, <1>3

\* A document with one value in a raw identifier field has exactly the term that
\* upsert deletes by, whatever its other fields hold.
LEMMA IdsAreExact ==
  ASSUME CodecIInv, Indexed
  PROVE  IdIsExact
<1> SUFFICES ASSUME NEW name \in DOMAIN Schema, Schema[name].kind = "text",
                    Schema[name].raw, valueCount(name) = 1
             PROVE  {t \in terms : t[1] = name} = {<<name, Term(firstFfiValue(name))>>}
  BY DEF IdIsExact
<1> DEFINE W == {i \in DOMAIN fields : fields[i].name = name}
<1>1. IsFiniteSet(W) /\ Cardinality(W) = 1
  <2>1. W \in SUBSET (DOMAIN fields) /\ fields \in Seq(DocumentField)
    BY DEF CodecIInv, FieldsInv
  <2> QED BY <2>1, SelectedElements DEF valueCount
<1>2. PICK i : W = {i}
  <2> HIDE DEF W
  <2> QED BY <1>1, FS_Singleton
<1>3. /\ i \in DOMAIN fields /\ fields[i].name = name
      /\ \A j \in DOMAIN fields : fields[j].name = name => j = i
  BY <1>2
<1>4. DOMAIN fields \in SUBSET Int /\ \A j \in 1..(i - 1) : j # i
  BY <1>3 DEF CodecIInv, FieldsInv
<1>5. \A j \in 1..(i - 1) : fields[j].name # name
  <2>1. \A j \in 1..(i - 1) : j \in DOMAIN fields
    BY <1>3 DEF CodecIInv, FieldsInv
  <2> QED BY <2>1, <1>3, <1>4
<1>6. firstFfiValue(name) = fields[i].value
  BY <1>3, <1>5 DEF firstFfiValue
<1>7. i \in Known /\ fields[i].value.kind = "text"
  BY <1>3 DEF Known, CodecIInv, FieldsInv, accepts
<1>8. TermsOf(fields[i]) = {<<name, Term(fields[i].value)>>}
  BY <1>3, <1>7, TextAssumption DEF TermsOf, IndexedTerms, Term
<1>9. terms = UNION {TermsOf(fields[j]) : j \in Known}
  BY DEF CodecIInv, EngineInv
<1>10. ASSUME NEW t \in terms, t[1] = name PROVE t \in TermsOf(fields[i])
  <2>1. PICK j \in Known : t \in TermsOf(fields[j])
    BY <1>9
  <2>2. fields[j].name = name /\ j \in DOMAIN fields
    BY <2>1, <1>10 DEF TermsOf, Known
  <2> QED BY <2>1, <2>2, <1>3
<1>11. <<name, Term(fields[i].value)>> \in terms
  BY <1>7, <1>8, <1>9
<1> QED BY <1>6, <1>8, <1>10, <1>11

\* Whatever else it holds, a document is found and deleted by each of its
\* values that can be looked for, and in a raw identifier field by no other.
THEOREM ValuesFind == Spec => []FoundByItsValues
<1>1. ASSUME CodecIInv PROVE FoundByItsValues
  <2> SUFFICES ASSUME Indexed, NEW name \in DOMAIN Schema, NEW v \in Values,
                      Schema[name].indexed, accepts(Schema[name], v), HasTerm(v),
                      Holds(name, v), v.kind = "text" => Schema[name].raw,
                      v.kind = "date" => Truncated(Owned(v)) = Owned(v)
               PROVE  Matches(name, v)
    BY <1>1, IdsAreExact DEF FoundByItsValues, Queries
  <2>1. PICK i \in DOMAIN fields : fields[i].name = name /\ fields[i].value = v
    BY DEF Holds
  <2>2. i \in Known
    BY <2>1 DEF Known
  <2>3. <<name, Term(v)>> \in TermsOf(fields[i])
    BY <2>1, TermIsIndexed DEF TermsOf
  <2> QED BY <1>1, <2>2, <2>3 DEF CodecIInv, EngineInv, Matches
<1> QED BY <1>1, CodecInvariance, PTL

-----------------------------------------------------------------------------
(* Round trip *)

\* An integer that fits is not wrapped.
LEMMA WrapKeeps ==
  ASSUME NEW n \in Int, n \in -(MaxLong + 1)..MaxLong
  PROVE  Wrap(n) = n
<1> DEFINE h == MaxLong + 1
<1>1. h \in Nat /\ h > 0 /\ n + h \in 0..(2 * h - 1) /\ n + MaxLong + 1 = n + h
  BY LongAssumption
<1> HIDE DEF h
<1>2. (n + h) % (2 * h) = n + h
  BY <1>1
<1>3. ((n + MaxLong + 1) % (2 * h)) - h = n
  BY <1>1, <1>2
<1> QED BY <1>3 DEF Wrap, h

\* Dividing a multiple gives the factor back.
LEMMA QuotientOfProduct ==
  ASSUME NEW n \in Int, NEW d \in Nat \ {0}
  PROVE  Quotient(n * d, d) = n
<1>1. \A k \in Nat : (k * d) \div d = k
  OBVIOUS
<1>2. CASE n >= 0
  BY <1>1, <1>2 DEF Quotient
<1>3. CASE n < 0
  BY <1>1, <1>3 DEF Quotient
<1> QED BY <1>2, <1>3

\* One value, stored and read back.
LEMMA ValueRoundTrip ==
  ASSUME NEW f \in DocumentField, f.name \in DOMAIN Schema,
         accepts(Schema[f.name], f.value), InRange(f.value)
  PROVE  LET back == document_field_from_value(Entry(f))
         IN  back.name = f.name /\ Meaning(back.value) = Meaning(f.value)
<1>1. CASE f.value.kind = "date"
  <2>1. f.value.data \in Int /\ f.value.data * NanosPerMicro \in Int
    <3>1. f.value.data \in Int
      BY <1>1, ValuesAssumption DEF DocumentField
    <3>2. \A a, b \in Int : a * b \in Int
      OBVIOUS
    <3> QED BY <3>1, <3>2, TimeAssumption
  <2>2. Owned(f.value) = f.value.data * NanosPerMicro
    BY <1>1, <2>1, WrapKeeps DEF Owned, from_timestamp_micros, InRange
  <2>3. into_timestamp_micros(Owned(f.value)) = f.value.data
    BY <2>1, <2>2, QuotientOfProduct, TimeAssumption DEF into_timestamp_micros
  <2> QED BY <1>1, <2>3 DEF document_field_from_value, Entry, Meaning, accepts
<1>2. CASE f.value.kind # "date"
  BY <1>2 DEF document_field_from_value, Entry, Meaning, accepts, Owned
<1> QED BY <1>1, <1>2

\* A document that is read gives back, field by field and in order, the values
\* that were written to it.
THEOREM RoundTrip == Spec => []ReadsBackWhatWasWritten
<1>1. ASSUME CodecIInv PROVE ReadsBackWhatWasWritten
  <2> SUFFICES ASSUME stage = "read", \A i \in DOMAIN fields : InRange(fields[i].value),
                      NEW name \in DOMAIN Schema, Schema[name].stored
               PROVE  LET written == Selected(fields, {i \in DOMAIN fields : fields[i].name = name})
                          back == values(name)
                      IN  /\ Len(back) = Len(written)
                          /\ \A i \in DOMAIN back : Meaning(back[i].value) = Meaning(written[i].value)
    BY DEF ReadsBackWhatWasWritten
  <2> DEFINE W == {i \in DOMAIN fields : fields[i].name = name}
             K == {i \in DOMAIN map : map[i].name = name}
             m == Cardinality(Kept)
             f == InOrder(Kept)
  <2>1. /\ m \in Nat /\ f \in [1..m -> Kept] /\ Kept \in SUBSET (DOMAIN fields)
        /\ \A i \in DOMAIN fields : fields[i] \in DocumentField
        /\ fields \in Seq(DocumentField) /\ Kept \in SUBSET Int /\ IsFiniteSet(Kept)
    BY <1>1, Positions DEF CodecIInv, FieldsInv
  <2>2. /\ DOMAIN map = 1..m /\ map = [i \in 1..m |-> map[i]]
        /\ \A i \in 1..m : map[i] = document_field_from_value(Entry(fields[f[i]]))
    BY <1>1, <2>1 DEF CodecIInv, EngineInv, MapInv, Indexed
  <2>3. \A i \in Kept : /\ fields[i].name \in DOMAIN Schema
                        /\ accepts(Schema[fields[i].name], fields[i].value)
    BY <1>1 DEF CodecIInv, FieldsInv, Kept, Known
  <2>4. \A i \in 1..m : /\ map[i].name = fields[f[i]].name
                        /\ Meaning(map[i].value) = Meaning(fields[f[i]].value)
    <3> TAKE i \in 1..m
    <3>1. f[i] \in Kept /\ fields[f[i]] \in DocumentField
      BY <2>1
    <3> HIDE DEF f
    <3> QED BY <3>1, <2>1, <2>2, <2>3, ValueRoundTrip
  <2>5. W \in SUBSET Kept
    BY DEF Kept, Known
  <2>6. K = Places(f, m, W)
    <3> HIDE DEF f
    <3> QED BY <2>1, <2>2, <2>4 DEF Places
  <2>7. Lists(f, m, W)
    <3>1. /\ \A i, j \in 1..m : i < j => f[i] < f[j]
          /\ \A p \in W : \E i \in 1..m : f[i] = p
      BY <2>1, <2>5, InOrderLists
    <3> QED BY <2>1, <2>5, <3>1 DEF Lists
  <2>8. /\ Cardinality(K) = Cardinality(W)
        /\ \A n \in 1..Cardinality(K) : f[InOrder(K)[n]] = InOrder(W)[n]
    <3> HIDE DEF f, W, K, m
    <3> QED BY <2>6, <2>7, SelectedTwice
  <2>9. W \in SUBSET (DOMAIN fields)
    OBVIOUS
  <2>10. map \in Seq({map[i] : i \in 1..m})
    <3> DEFINE E == {map[i] : i \in 1..m}
    <3>1. map \in [1..m -> E]
      BY <2>2
    <3> HIDE DEF m, E
    <3> QED BY SMTT(60), <2>1, <3>1
  <2>11. K \in SUBSET (DOMAIN map)
    OBVIOUS
  <2>12. /\ Len(Selected(fields, W)) = Cardinality(W)
         /\ \A n \in 1..Cardinality(W) : Selected(fields, W)[n] = fields[InOrder(W)[n]]
    <3> HIDE DEF W
    <3> QED BY <2>1, <2>9, SelectedElements
  <2>13. /\ Len(Selected(map, K)) = Cardinality(K)
         /\ DOMAIN Selected(map, K) = 1..Cardinality(K)
         /\ \A n \in 1..Cardinality(K) :
              InOrder(K)[n] \in K /\ Selected(map, K)[n] = map[InOrder(K)[n]]
    <3> HIDE DEF K, m
    <3>1. DOMAIN Selected(map, K) = 1..Cardinality(K)
      BY DEF Selected
    <3> QED BY SMTT(60), <2>10, <2>11, <3>1, SelectedElements
  <2>14. ASSUME NEW n \in 1..Cardinality(K)
         PROVE  Meaning(Selected(map, K)[n].value) = Meaning(Selected(fields, W)[n].value)
    <3>1. InOrder(K)[n] \in 1..m
      BY <2>2, <2>13
    <3> HIDE DEF f, W, K, m
    <3> QED BY SMTT(60), <3>1, <2>4, <2>8, <2>12, <2>13
  <2> HIDE DEF f, m
  <2> QED BY <2>8, <2>12, <2>13, <2>14 DEF values
<1> QED BY <1>1, CodecInvariance, PTL

-----------------------------------------------------------------------------
(* ReadPaths *)

Document == [key : Keys, num : BOOLEAN, readable : BOOLEAN]

\* The first n elements of a sequence, or all of it.
UpTo(s, n) == SubSeq(s, 1, IF n < Len(s) THEN n ELSE Len(s))

PagerInv ==
  /\ pager.query \in SUBSET Keys /\ pager.limit \in Int /\ pager.offset \in Int
  /\ pager.state \in {"idle", "paging", "done", "failed"}
  /\ DOMAIN pager = DOMAIN NoPager
  /\ pager.state = "paging" =>
       /\ pager.limit > 0 /\ pager.offset >= 0
       /\ ~pager.changed => /\ pager.hits = Hits(pager.query)
                            /\ pager.got = UpTo(pager.hits, pager.offset)

ReadIInv == version \in Versions /\ PagerInv /\ PagesTile /\ AllIdsFound /\ ErrorsAreExact

-----------------------------------------------------------------------------
(* Hits and pages *)

\* The hits of a query are the documents it matches, and there are as many as
\* positions of such documents.
LEMMA HitsFacts ==
  ASSUME version \in Versions, NEW q
  PROVE  LET P == {i \in DOMAIN version : version[i].key \in q}
         IN  /\ version \in Seq(Document) /\ IsFiniteSet(P) /\ Cardinality(P) \in Nat
             /\ Hits(q) \in Seq(Document) /\ Len(Hits(q)) = Cardinality(P)
<1> DEFINE P == {i \in DOMAIN version : version[i].key \in q}
<1>1. version \in Seq(Document) /\ P \in SUBSET (DOMAIN version)
  BY VersionsAssumption DEF Document
<1>2. Hits(q) = Selected(version, P)
  BY DEF Hits
<1> HIDE DEF P
<1>3. /\ IsFiniteSet(P) /\ Cardinality(P) \in Nat
      /\ Selected(version, P) \in Seq(Document) /\ Len(Selected(version, P)) = Cardinality(P)
  BY <1>1, SelectedElements
<1>4. /\ version \in Seq(Document) /\ IsFiniteSet(P) /\ Cardinality(P) \in Nat
      /\ Hits(q) \in Seq(Document) /\ Len(Hits(q)) = Cardinality(P)
  BY <1>1, <1>2, <1>3
<1> QED BY <1>4 DEF P

\* A page continues what the pages before it brought.
LEMMA PageContinues ==
  ASSUME NEW D, NEW h \in Seq(D), NEW limit \in Nat, NEW offset \in Nat
  PROVE  UpTo(h, offset) \o Top(h, limit, offset) = UpTo(h, offset + limit)
<1>1. PICK n \in Nat : n = Len(h)
  OBVIOUS
<1>2. PICK a \in 0..n : a = (IF offset < n THEN offset ELSE n)
  OBVIOUS
<1>3. PICK b \in a..n : b = (IF offset + limit < n THEN offset + limit ELSE n)
  BY <1>2
<1>4. UpTo(h, offset) = SubSeq(h, 1, a) /\ UpTo(h, offset + limit) = SubSeq(h, 1, b)
  BY <1>1, <1>2, <1>3 DEF UpTo
<1>5. Top(h, limit, offset) = SubSeq(h, a + 1, b)
  <2>1. CASE offset < n
    BY <2>1, <1>1, <1>2, <1>3 DEF Top
  <2>2. CASE offset >= n
    <3>1. a = n /\ b = n
      BY <2>2, <1>2, <1>3
    <3>2. SubSeq(h, n + 1, n) = <<>> /\ SubSeq(h, offset + 1, n) = <<>>
      BY <2>2, SubSeqEmpty
    <3>3. Top(h, limit, offset) = SubSeq(h, offset + 1, n)
      BY <2>2, <1>1 DEF Top
    <3> QED BY <3>1, <3>2, <3>3
  <2> QED BY <2>1, <2>2, <1>1
<1>6. SubSeq(h, 1, a) \o SubSeq(h, a + 1, b) = SubSeq(h, 1, b)
  <2>1. 1 \in 1..(Len(h) + 1) /\ a \in (1 - 1)..Len(h) /\ b \in a..Len(h)
    BY <1>1, <1>2, <1>3
  <2> QED BY <2>1, ConcatAdjacentSubSeq
<1> QED BY <1>4, <1>5, <1>6

\* No more documents than identifiers, when no two share one.
LEMMA FewHits ==
  ASSUME version \in Versions, Unique, NEW ids \in IdLists
  PROVE  Len(Hits(ToSet(ids))) <= Len(ids)
<1> DEFINE P == {i \in DOMAIN version : version[i].key \in ToSet(ids)}
           key == [i \in P |-> version[i].key]
           id == [i \in 1..Len(ids) |-> ids[i]]
<1>1. Len(Hits(ToSet(ids))) = Cardinality(P) /\ Cardinality(P) \in Nat
  BY HitsFacts
<1>2. Len(ids) \in Nat /\ DOMAIN ids = 1..Len(ids)
  BY ArgumentsAssumption
<1>3. id \in Surjection(1..Len(ids), ToSet(ids))
  BY <1>2 DEF Surjection, ToSet
<1>4. /\ IsFiniteSet(ToSet(ids)) /\ Cardinality(ToSet(ids)) \in Nat
      /\ Cardinality(ToSet(ids)) <= Len(ids)
  <2>1. IsFiniteSet(1..Len(ids)) /\ Cardinality(1..Len(ids)) = Len(ids)
    <3>1. Cardinality(1..Len(ids)) = IF 1 > Len(ids) THEN 0 ELSE Len(ids) - 1 + 1
      BY SMTT(60), <1>2, FS_Interval
    <3> QED BY SMTT(60), <1>2, <3>1, FS_Interval
  <2> HIDE DEF id
  <2> QED BY <1>3, <2>1, FS_Surjection, FS_CardinalityType
<1>5. key \in Injection(P, ToSet(ids))
  BY DEF Unique, Injection, IsInjective
<1>6. Cardinality(P) <= Cardinality(ToSet(ids))
  <2> HIDE DEF key, P
  <2> QED BY <1>4, <1>5, FS_Injection
<1> QED BY <1>1, <1>2, <1>4, <1>6

-----------------------------------------------------------------------------
(* The calls *)

\* getDocs finds every document it is asked for.
LEMMA GetDocsFinds ==
  ASSUME version \in Versions, NEW ids \in IdLists, Unique, getDocs(ids).why = "ok"
  PROVE  getDocs(ids).docs = Hits(ToSet(ids))
<1> DEFINE H == Hits(ToSet(ids))
<1>1. /\ ids \in Seq(Keys \cup {BadKey}) /\ Len(ids) \in Nat
      /\ H \in Seq(Document) /\ Len(H) \in Nat /\ Len(H) <= Len(ids)
  <2>1. ids \in Seq(Keys \cup {BadKey})
    BY ArgumentsAssumption
  <2>2. H \in Seq(Document) /\ Len(H) <= Len(ids)
    BY HitsFacts, FewHits
  <2> HIDE DEF H
  <2> QED BY <2>1, <2>2
<1>2. getDocs(ids) = get_docs_by_ids(ids) /\ get_docs_by_ids(ids).why = "ok"
  BY DEF getDocs, Decoded, Error, Result
<1>3. CASE ids = <<>>
  <2>1. H = <<>>
    BY <1>1, <1>3
  <2> QED BY <1>2, <1>3, <2>1 DEF get_docs_by_ids, Ok, Result
<1>4. CASE ids # <<>>
  <2>1. Len(ids) # 0
    BY <1>1, <1>4
  <2>2. Top(H, Len(ids), 0) = H
    BY <1>1 DEF Top
  <2>3. BadKey \notin ToSet(ids)
    BY <1>2, <1>4 DEF get_docs_by_ids, Error, Result
  <2>4. search(ToSet(ids), Len(ids), 0).docs = H
    BY <2>1, <2>2 DEF search, Result
  <2> QED BY <1>2, <1>4, <2>3, <2>4 DEF get_docs_by_ids, Ok, Result
<1> QED BY <1>3, <1>4

\* Decoding keeps a result or replaces it by the decoder's error, and an error
\* stays what it is.
LEMMA DecodedFacts ==
  ASSUME NEW r
  PROVE  /\ Decoded(r) = r \/ Decoded(r) = Error("decode")
         /\ r.docs = <<>> => Decoded(r) = r
BY DEF Decoded

\* A typed read never panics.
LEMMA NoPanic ==
  /\ \A q, limit, offset : typed_search(q, limit, offset).why # "panic"
  /\ \A ids : getDocs(ids).why # "panic"
  /\ \A id : getDocOrNull(id).why # "panic"
<1>1. ASSUME NEW q, NEW limit, NEW offset PROVE typed_search(q, limit, offset).why # "panic"
  <2>1. limit # 0 => search(q, limit, offset).why = "ok"
    BY DEF search, Result
  <2> QED BY <2>1, DecodedFacts DEF typed_search, Error, Result
<1>2. \A ids : getDocs(ids).why # "panic"
  BY DecodedFacts DEF getDocs, get_docs_by_ids, Ok, Error, Result
<1>3. ASSUME NEW id PROVE getDocOrNull(id).why # "panic"
  <2>1. get_doc(id).why \in {"ok", "query", "DocRetrievalError"}
    BY DEF get_doc, Ok, Error, Result
  <2> QED BY <2>1, DecodedFacts DEF getDocOrNull, getDoc, Error, Result
<1> QED BY <1>1, <1>2, <1>3

\* null is the answer for a document that is not there, and only for that.
LEMMA NullIsExact ==
  ASSUME version \in Versions, NEW id
  PROVE  getDocOrNull(id).why = "null" <=> id # BadKey /\ doc_exists(id) = Ok(<<>>)
<1> DEFINE H == Hits({id})
<1>1. H \in Seq(Document) /\ Len(H) \in Nat
  BY HitsFacts
<1>2. CASE id = BadKey
  <2>1. get_doc(id) = Error("query")
    BY <1>2 DEF get_doc
  <2>2. getDoc(id) = Error("query")
    BY <2>1, DecodedFacts DEF getDoc, Error, Result
  <2> QED BY <1>2, <2>2 DEF getDocOrNull, Error, Result
<1>3. CASE id # BadKey /\ H = <<>>
  <2>1. get_doc(id) = Error("DocRetrievalError")
    BY <1>3 DEF get_doc
  <2>2. getDoc(id) = Error("DocRetrievalError")
    BY <2>1, DecodedFacts DEF getDoc, Error, Result
  <2>3. Top(H, 1, 0) = <<>>
    BY <1>3 DEF Top
  <2> QED BY <1>3, <2>2, <2>3 DEF getDocOrNull, doc_exists, Error, Result
<1>4. CASE id # BadKey /\ H # <<>>
  <2>1. Len(Top(H, 1, 0)) = 1
    <3> HIDE DEF H
    <3>1. Len(H) >= 1
      BY <1>1, <1>4
    <3>2. Top(H, 1, 0) = SubSeq(H, 1, 1)
      BY <1>1, <3>1 DEF Top
    <3> QED BY <1>1, <3>1, <3>2
  <2>2. doc_exists(id) # Ok(<<>>)
    BY SMTT(60), <1>4, <2>1 DEF doc_exists, Ok, Result
  <2>3. get_doc(id).why = "ok"
    BY <1>4 DEF get_doc, Ok, Result
  <2> QED BY <2>2, <2>3, DecodedFacts DEF getDocOrNull, getDoc, Error, Result
<1> QED BY <1>2, <1>3, <1>4

-----------------------------------------------------------------------------
(* The invariant *)

\* An index of one version and no pager satisfies the invariant.
LEMMA ReadInitInv == ReadInit => ReadIInv
BY DEF ReadInit, ReadIInv, PagerInv, PagesTile, AllIdsFound, ErrorsAreExact, NoCall, NoPager

\* A call leaves the version and the pager; what is said of the last call is
\* shown of this one.
LEMMA CallInv ==
  ASSUME ReadIInv, NEW op, NEW arg, NEW result, Call(op, arg, result),
         op = "getDocs" /\ result.why = "ok" /\ Unique => result.docs = Hits(ToSet(arg)),
         op = "getDocOrNull" =>
           \A id \in arg : result.why = "null" <=> id # BadKey /\ doc_exists(id) = Ok(<<>>),
         op \in {"search", "getDocs", "getDocOrNull"} => result.why # "panic",
         op = "search_doc_ids" /\ arg.field = "unknown" => result.why \in {"field", "panic"}
  PROVE  ReadIInv'
<1>1. UNCHANGED <<version, pager>>
  BY DEF Call
<1>2. last'.op = op /\ last'.arg = arg /\ last'.result = result
  BY DEF Call
<1>3. (version \in Versions /\ PagerInv /\ PagesTile)'
  BY <1>1 DEF ReadIInv, PagerInv, PagesTile, Hits
<1>4. AllIdsFound'
  BY <1>1, <1>2 DEF AllIdsFound, Hits, Unique
<1>5. ErrorsAreExact'
  BY <1>1, <1>2 DEF ErrorsAreExact, doc_exists, Hits
<1> QED BY <1>3, <1>4, <1>5 DEF ReadIInv

\* A get by id leaves the pager alone.
LEMMA ByIdInv == ASSUME ReadIInv, ById PROVE ReadIInv'
<1>1. version \in Versions
  BY DEF ReadIInv
<1>2. ASSUME NEW id, Call("doc_exists", {id}, doc_exists(id)) PROVE ReadIInv'
  BY <1>2, CallInv
<1>3. ASSUME NEW id, Call("getDocOrNull", {id}, getDocOrNull(id)) PROVE ReadIInv'
  <2>1. getDocOrNull(id).why = "null" <=> id # BadKey /\ doc_exists(id) = Ok(<<>>)
    BY <1>1, NullIsExact
  <2> QED BY <1>3, <2>1, NoPanic, CallInv
<1>4. ASSUME NEW ids \in IdLists, Call("getDocs", ids, getDocs(ids)) PROVE ReadIInv'
  <2>1. getDocs(ids).why = "ok" /\ Unique => getDocs(ids).docs = Hits(ToSet(ids))
    BY <1>1, GetDocsFinds
  <2> QED BY <1>4, <2>1, NoPanic, CallInv
<1> QED BY <1>2, <1>3, <1>4 DEF ById

\* A search for ids leaves the pager alone.
LEMMA BySearchInv == ASSUME ReadIInv, BySearch PROVE ReadIInv'
<1>1. ASSUME NEW q, NEW limit, NEW offset,
             Call("search", q, typed_search(q, limit, offset))
      PROVE  ReadIInv'
  BY <1>1, NoPanic, CallInv
<1>2. ASSUME NEW q, NEW limit, NEW offset,
             Call("search_dsl", q, search(q, limit, offset))
      PROVE  ReadIInv'
  BY <1>2, CallInv
<1>3. ASSUME NEW q, NEW limit, NEW offset, NEW f,
             Call("search_doc_ids", [query |-> q, limit |-> limit, offset |-> offset, field |-> f],
                  search_doc_ids(q, limit, offset, f))
      PROVE  ReadIInv'
  <2>1. f = "unknown" => search_doc_ids(q, limit, offset, f).why \in {"field", "panic"}
    BY DEF search_doc_ids, search, Error, Result
  <2> QED BY <1>3, <2>1, CallInv
<1> QED BY <1>1, <1>2, <1>3 DEF BySearch

\* A new pager has read nothing of its snapshot.
LEMMA StartPagingInv == ASSUME ReadIInv, StartPaging PROVE ReadIInv'
<1>1. PICK q \in SUBSET Keys, limit \in {l \in Limits : l > 0} :
        pager' = [NoPager EXCEPT !.query = q, !.limit = limit, !.hits = Hits(q),
                                 !.state = "paging"]
  BY DEF StartPaging
<1>2. last' = NoCall /\ version' = version /\ version \in Versions
  BY DEF StartPaging, ReadIInv
<1>3. AllIdsFound' /\ ErrorsAreExact'
  BY <1>2 DEF AllIdsFound, ErrorsAreExact, NoCall
<1>4. Hits(q) \in Seq(Document) /\ Len(Hits(q)) \in Nat
  BY <1>2, HitsFacts
<1>5. UpTo(Hits(q), 0) = <<>>
  BY <1>4 DEF UpTo
<1>6. /\ pager'.query = q /\ pager'.limit = limit /\ pager'.hits = Hits(q)
      /\ pager'.state = "paging" /\ pager'.offset = 0 /\ pager'.got = <<>>
      /\ DOMAIN pager' = DOMAIN NoPager
  BY <1>1 DEF NoPager
<1>7. limit \in Int
  BY ArgumentsAssumption
<1>8. PagerInv' /\ PagesTile'
  BY <1>2, <1>5, <1>6, <1>7 DEF PagerInv, PagesTile, Hits
<1> QED BY <1>2, <1>3, <1>8 DEF ReadIInv

\* A page adds the next documents of the snapshot, and advances the offset
\* past exactly them.
LEMMA NextPageInv == ASSUME ReadIInv, NextPage PROVE ReadIInv'
<1> DEFINE page == typed_search(pager.query, pager.limit, pager.offset)
           state == IF page.why # "ok" THEN "failed"
                    ELSE IF pager.offset + pager.limit >= page.count THEN "done" ELSE "paging"
<1>1. /\ pager.state = "paging" /\ PagerInv /\ version \in Versions
      /\ last' = NoCall /\ version' = version
  BY DEF NextPage, ReadIInv
<1>2. AllIdsFound' /\ ErrorsAreExact'
  BY <1>1 DEF AllIdsFound, ErrorsAreExact, NoCall
<1>3. /\ pager'.query = pager.query /\ pager'.limit = pager.limit
      /\ pager'.hits = pager.hits /\ pager'.changed = pager.changed
      /\ pager'.got = pager.got \o page.docs /\ pager'.offset = pager.offset + pager.limit
      /\ pager'.state = state /\ DOMAIN pager' = DOMAIN NoPager
  BY <1>1 DEF NextPage, PagerInv, NoPager
<1>4. /\ pager.limit \in Nat \ {0} /\ pager.offset \in Nat /\ pager.query \in SUBSET Keys
      /\ pager.offset + pager.limit \in Nat
  BY <1>1 DEF PagerInv
<1>5. ASSUME ~pager.changed, page.why = "ok"
      PROVE  /\ pager'.got = UpTo(pager.hits, pager.offset + pager.limit)
             /\ page.count = Len(pager.hits) /\ pager.hits = Hits(pager.query)
             /\ pager.hits \in Seq(Document)
  <2>1. /\ pager.hits = Hits(pager.query) /\ pager.hits \in Seq(Document)
        /\ pager.got = UpTo(pager.hits, pager.offset)
    BY <1>1, <1>5, HitsFacts DEF PagerInv
  <2>2. page = search(pager.query, pager.limit, pager.offset)
    BY <1>4, <1>5, DecodedFacts DEF typed_search, Error, Result
  <2>3. page.docs = Top(pager.hits, pager.limit, pager.offset) /\ page.count = Len(pager.hits)
    BY <1>4, <2>1, <2>2 DEF search, Result
  <2> HIDE DEF page
  <2> QED BY ZenonT(60), <1>3, <1>4, <2>1, <2>3, PageContinues
<1>6. PagerInv'
  <2>1. state = "paging" => page.why = "ok"
    OBVIOUS
  <2>2. state \in {"failed", "done", "paging"}
    OBVIOUS
  <2>3. pager.hits = Hits(pager.query) => (pager.hits = Hits(pager.query))'
    BY <1>1, <1>3 DEF Hits
  <2> HIDE DEF page, state
  <2>4. ASSUME ~pager.changed, page.why = "ok"
        PROVE  (pager.hits = Hits(pager.query) /\ pager.got = UpTo(pager.hits, pager.offset))'
    BY <1>3, <1>5, <2>3, <2>4
  <2>5. (/\ pager.query \in SUBSET Keys /\ pager.limit \in Int /\ pager.offset \in Int
         /\ pager.limit > 0 /\ pager.offset >= 0
         /\ pager.state \in {"idle", "paging", "done", "failed"}
         /\ DOMAIN pager = DOMAIN NoPager)'
    BY <1>3, <1>4, <2>2 DEF NoPager
  <2> QED BY <1>3, <2>1, <2>4, <2>5 DEF PagerInv
<1>7. PagesTile'
  <2>1. state = "done" => page.why = "ok" /\ pager.offset + pager.limit >= page.count
    OBVIOUS
  <2> HIDE DEF page, state
  <2>2. ASSUME state = "done", ~pager.changed PROVE pager'.got = pager.hits
    <3>1. UpTo(pager.hits, pager.offset + pager.limit) = SubSeq(pager.hits, 1, Len(pager.hits))
      BY <1>4, <1>5, <2>1, <2>2 DEF UpTo
    <3>2. SubSeq(pager.hits, 1, Len(pager.hits)) = pager.hits
      BY <1>5, <2>1, <2>2
    <3> QED BY <1>5, <2>1, <2>2, <3>1, <3>2
  <2> QED BY <1>3, <2>2 DEF PagesTile
<1> QED BY <1>1, <1>2, <1>6, <1>7 DEF ReadIInv

\* A commit in the middle of paging leaves the pager's snapshot alone.
LEMMA CommitInv == ASSUME ReadIInv, Commit PROVE ReadIInv'
<1>1. /\ version' \in Versions /\ last' = NoCall
      /\ pager' = [pager EXCEPT !.changed = (pager.state = "paging") \/ @]
  BY DEF Commit
<1>2. AllIdsFound' /\ ErrorsAreExact'
  BY <1>1 DEF AllIdsFound, ErrorsAreExact, NoCall
<1>3. /\ pager'.query = pager.query /\ pager'.limit = pager.limit /\ pager'.got = pager.got
      /\ pager'.offset = pager.offset /\ pager'.hits = pager.hits /\ pager'.state = pager.state
      /\ pager'.changed = (pager.state = "paging" \/ pager.changed)
      /\ DOMAIN pager' = DOMAIN NoPager
  BY <1>1 DEF ReadIInv, PagerInv, NoPager
<1>4. PagerInv' /\ PagesTile'
  BY <1>3 DEF ReadIInv, PagerInv, PagesTile
<1> QED BY <1>1, <1>2, <1>4 DEF ReadIInv

\* Every step keeps the pager's invariant.
LEMMA ReadNextInv == ASSUME ReadIInv, [ReadNext]_readVars PROVE ReadIInv'
<1>1. CASE UNCHANGED readVars
  BY <1>1 DEF readVars, ReadIInv, PagerInv, PagesTile, AllIdsFound, ErrorsAreExact, Unique, Hits, doc_exists
<1> QED BY <1>1, ByIdInv, BySearchInv, StartPagingInv, NextPageInv, CommitInv DEF ReadNext

\* The pager's invariant and what is said of the last call hold throughout.
THEOREM ReadInvariance == ReadSpec => []ReadIInv
BY ReadInitInv, ReadNextInv, PTL DEF ReadSpec

\* Page after page, as the counts say, gives every hit once and in order, for any
\* page size, if nobody commits in between.
THEOREM PagingIsComplete == ReadSpec => []PagesTile
BY ReadInvariance, PTL DEF ReadIInv

\* getDocs finds every document asked for: as many hits as identifiers are enough,
\* when no two documents share one.
THEOREM IdsAreFound == ReadSpec => []AllIdsFound
BY ReadInvariance, PTL DEF ReadIInv

\* Every read tells exactly what went wrong, and no typed one reaches the panic.
THEOREM ErrorsTell == ReadSpec => []ErrorsAreExact
BY ReadInvariance, PTL DEF ReadIInv
=============================================================================
